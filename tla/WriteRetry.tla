------------------------------ MODULE WriteRetry ------------------------------
(***************************************************************************)
(* client/table.go: the calls of TableClient.AppendLog or, but for sorting *)
(* its results, of UpsertKV.  The batches of a call are grouped by the     *)
(* address of their bucket's leader, one request is sent to each address,  *)
(* and the buckets that found no leader are sent once more after a refresh *)
(* of the metadata.  A call may have several batches for one bucket, as a  *)
(* writer that buffered them does; failures and results name the bucket.   *)
(*                                                                         *)
(* The servers and the metadata are the environment: a lookup of a leader  *)
(* may give any server or none, a request may be answered batch by batch   *)
(* or fail as a whole, with or without its effect.                         *)
(***************************************************************************)
EXTENDS Naturals, FiniteSets

CONSTANTS
  Batches,          \* what the calls of an instance write
  BucketOf,         \* the bucket of each batch
  Servers           \* the addresses of the tablet servers

ASSUME RetryAssumption == Batches # {} /\ Servers # {} /\ DOMAIN BucketOf = Batches

Buckets == {BucketOf[x] : x \in Batches}

(* What a server answers for a batch: no error, ErrLeaderNotAvailable, or  *)
(* any other error.                                                        *)
Answers == {"ok", "leaderless", "refused"}

(* The error of an attempt: none, one of a whole request or lookup that    *)
(* isRetryableWriteRouteErr accepts, any other such one, and a             *)
(* PartialWriteError of appendLogOnce.                                     *)
Errors == {"nil", "route", "other", "partial"}

MaxAttempts == 2

VARIABLES
  step,             \* "route", "send", "decide" or "return"
  call,             \* the batches AppendLog was called with
  attempt,          \* AppendLog's loop variable
  pending,          \* AppendLog's pending: the batches of this attempt
  unrouted,         \* groupBatchesByLeader: batches still without an address
  grouped,          \* groupBatchesByLeader's result, less the requests sent
  out,              \* appendLogOnce's out: the answers of this attempt
  err,              \* appendLogOnce's error
  allResults,       \* AppendLog's allResults, by bucket
  returned,         \* the error AppendLog returns, and the buckets it names
  stored,           \* history: how often this call had each batch stored
  resent            \* history: an attempt of which requests were answered was
                    \* thrown away and repeated in full

attemptVars == <<pending, unrouted, grouped, out>>
retryVars == <<step, call, attempt, attemptVars, err, allResults, returned,
               stored, resent>>

Nowhere == [s \in Servers |-> {}]
Unanswered == [x \in Batches |-> "none"]
NoResults == [b \in Buckets |-> "none"]
NothingStored == [x \in Batches |-> 0]
NotReturned == [error |-> "none", failures |-> {}]

TypeOK ==
  /\ step \in {"route", "send", "decide", "return"}
  /\ call \subseteq Batches
  /\ attempt \in 0 .. MaxAttempts - 1
  /\ pending \subseteq call
  /\ unrouted \subseteq pending
  /\ grouped \in [Servers -> SUBSET pending]
  /\ out \in [Batches -> Answers \cup {"none"}]
  /\ err \in Errors
  /\ allResults \in [Buckets -> Answers \cup {"none"}]
  /\ returned \in [error : Errors \cup {"none"}, failures : SUBSET Buckets]
  /\ stored \in [Batches -> Nat]
  /\ resent \in BOOLEAN

(* No call is under way. *)
Init ==
  /\ step = "return" /\ attempt = 0
  /\ call = {} /\ pending = {} /\ unrouted = {}
  /\ grouped = Nowhere /\ out = Unanswered /\ err = "nil"
  /\ allResults = NoResults /\ returned = NotReturned
  /\ stored = NothingStored /\ resent = FALSE

StartCall(batches) ==
  /\ step = "return"
  /\ step' = "route" /\ attempt' = 0
  /\ call' = batches /\ pending' = batches /\ unrouted' = batches
  /\ grouped' = Nowhere /\ out' = Unanswered /\ err' = "nil"
  /\ allResults' = NoResults /\ returned' = NotReturned
  /\ stored' = NothingStored /\ resent' = FALSE

-------------------------------------------------------------------------------
(* One attempt: appendLogOnce, upsertKVOnce *)

(* The attempt ends with error e before or instead of its last request:    *)
(* whatever the earlier ones were answered is not returned.                *)
Abandon(e) ==
  /\ step' = "decide" /\ err' = e
  /\ out' = Unanswered
  /\ UNCHANGED <<call, attempt, pending, unrouted, grouped, allResults, returned>>

(* ensureTableInfo fails. *)
NoTableInfo ==
  /\ step = "route" /\ unrouted = pending
  /\ \E e \in {"route", "other"} : Abandon(e)
  /\ UNCHANGED <<stored, resent>>

(* routeFor finds the leader of x's bucket, in the cache or after a        *)
(* refresh.                                                                *)
RouteFound(x, s) ==
  /\ step = "route" /\ x \in unrouted
  /\ unrouted' = unrouted \ {x}
  /\ grouped' = [grouped EXCEPT ![s] = @ \cup {x}]
  /\ step' = IF unrouted' = {} THEN "send" ELSE "route"
  /\ UNCHANGED <<call, attempt, pending, out, err, allResults, returned, stored,
                 resent>>

(* Not even after a refresh, or the refresh failed. *)
RouteMissing(x) ==
  /\ step = "route" /\ x \in unrouted
  /\ Abandon("route")
  /\ UNCHANGED <<stored, resent>>

Store(kept) ==
  stored' = [x \in Batches |-> stored[x] + IF x \in kept THEN 1 ELSE 0]

(* The server at s answers each batch of its request.  What it refuses it  *)
(* may have stored all the same (a timeout of the replication, say).       *)
Answered(s, answer, kept) ==
  /\ step = "send" /\ grouped[s] # {}
  /\ out' = [x \in Batches |-> IF x \in grouped[s] THEN answer[x] ELSE out[x]]
  /\ kept \subseteq {x \in grouped[s] : answer[x] = "refused"}
  /\ Store({x \in grouped[s] : answer[x] = "ok"} \cup kept)
  /\ grouped' = [grouped EXCEPT ![s] = {}]
  /\ UNCHANGED <<step, call, attempt, pending, unrouted, err, allResults,
                 returned, resent>>

(* The request to s fails as a whole: the server refuses it with           *)
(* ErrLeaderNotAvailable or another error, or its answer is lost.          *)
RequestFails(s, kept) ==
  /\ step = "send" /\ grouped[s] # {} /\ kept \subseteq grouped[s]
  /\ \/ Abandon("route") /\ kept = {}
     \/ Abandon("other")
  /\ Store(kept)
  /\ UNCHANGED resent

(* The last request was answered. *)
AttemptEnds ==
  /\ step = "send" /\ grouped = Nowhere
  /\ step' = "decide"
  /\ err' = IF \A x \in pending : out[x] = "ok" THEN "nil" ELSE "partial"
  /\ UNCHANGED <<call, attempt, attemptVars, allResults, returned, stored, resent>>

-------------------------------------------------------------------------------
(* The decision after an attempt: the loop of AppendLog and UpsertKV *)

(* splitBucketWriteFailures: the buckets of the failures of each kind. *)
BucketsWith(answer) == {BucketOf[x] : x \in {y \in pending : out[y] = answer}}
Retryable == BucketsWith("leaderless")
Terminal == BucketsWith("refused")

(* filterBucketRecordBatchesByFailure *)
Filtered == {x \in pending : BucketOf[x] \in Retryable}

(* mergeProduceResults, mergePutResults: of several answers for a bucket   *)
(* the last one stays, and they come in no order.                          *)
Merged ==
  {r \in [Buckets -> Answers \cup {"none"}] :
     \A b \in Buckets :
       LET new == {out[x] : x \in {y \in pending : BucketOf[y] = b}} \ {"none"} IN
       IF new = {} THEN r[b] = allResults[b] ELSE r[b] \in new}

Return(e, failures) ==
  /\ step' = "return"
  /\ returned' = [error |-> e, failures |-> failures]
  /\ allResults' \in Merged
  /\ UNCHANGED <<call, attempt, attemptVars, err, stored, resent>>

(* Faulty variant: everything is sent again. *)
NextAttemptInFull(batches) ==
  /\ step' = "route" /\ attempt' = attempt + 1
  /\ pending' = pending /\ unrouted' = pending
  /\ grouped' = Nowhere /\ out' = Unanswered /\ err' = "nil"
  /\ allResults' \in Merged
  /\ resent' = (resent \/ err \in {"route", "other"})
  /\ UNCHANGED <<call, returned, stored>>

(* The metadata was refreshed: once more, with these batches. *)
NextAttempt(batches) ==
  /\ step' = "route" /\ attempt' = attempt + 1
  /\ pending' = batches /\ unrouted' = batches
  /\ grouped' = Nowhere /\ out' = Unanswered /\ err' = "nil"
  /\ allResults' \in Merged
  /\ resent' = (resent \/ err \in {"route", "other"})
  /\ UNCHANGED <<call, returned, stored>>

Succeed ==
  /\ step = "decide" /\ err = "nil"
  /\ Return("nil", {})

(* An error of a whole request: the last attempt's, one that a refresh     *)
(* cannot mend, or one whose refresh fails.                                *)
ReturnError ==
  /\ step = "decide" /\ err \in {"route", "other"}
  /\ Return(err, {})

(* Faulty variant: no look at the attempt. *)
RetryAllAgain ==
  /\ step = "decide" /\ err = "route"
  /\ NextAttempt(pending)

(* All of the attempt is repeated, what was answered before the error too. *)
RetryAll ==
  /\ step = "decide" /\ err = "route" /\ attempt = 0
  /\ NextAttempt(pending)

(* Faulty variant: only what was refused makes an error, and not if        *)
(* something can be retried.                                               *)
ReturnTerminalUnlessRetryable ==
  /\ step = "decide" /\ err = "partial"
  /\ IF Terminal = {} \/ Retryable # {} THEN Return("nil", {})
     ELSE Return("partial", Terminal)

(* The terminal failures are returned, nil if there are none: when nothing *)
(* is retryable or left to try, when the refresh fails, and when there are *)
(* failures of both kinds.                                                 *)
ReturnTerminal ==
  /\ step = "decide" /\ err = "partial"
  /\ IF Terminal = {} THEN Return("nil", {}) ELSE Return("partial", Terminal)

RetryLeaderless ==
  /\ step = "decide" /\ err = "partial" /\ attempt = 0
  /\ Retryable # {} /\ Terminal = {}
  /\ NextAttempt(Filtered)

-------------------------------------------------------------------------------
(* Safety *)

(* The batch of x's bucket is x alone. *)
Alone(x) == \A y \in call : BucketOf[y] = BucketOf[x] => y = x

(* A bucket that a returned attempt acknowledged is left alone by the next *)
(* attempt: it is neither sent again nor is its result replaced.  Not so a *)
(* batch that shares its bucket with one that found no leader.             *)
AcknowledgedOnce ==
  [][\A x \in call :
       step # "return" /\ Alone(x) /\ allResults[BucketOf[x]] = "ok"
         => allResults'[BucketOf[x]] = "ok" /\ stored'[x] = stored[x]]_retryVars

(* The merged results tell what the servers hold: a bucket is acknowledged *)
(* for a batch that is stored, and a batch of its own that found no leader *)
(* is not stored.  A batch is stored twice by one call only if an attempt  *)
(* was thrown away or its bucket had another batch that found no leader:   *)
(* partial failures alone never duplicate.                                 *)
StoredAsReported ==
  \A x \in call :
    LET b == BucketOf[x] IN
    /\ allResults[b] = "ok" => \E y \in call : BucketOf[y] = b /\ stored[y] > 0
    /\ stored[x] <= IF resent \/ ~Alone(x) THEN MaxAttempts ELSE 1
    /\ returned.error \in {"nil", "partial"} /\ ~resent /\ Alone(x)
         => (allResults[b] = "leaderless" => stored[x] = 0)

(* A call that ends without an error of a whole request has the answer for *)
(* every bucket, and its error names exactly the buckets refused for good; *)
(* with none named, every batch is stored or its last answer was that it   *)
(* has no leader.                                                          *)
RefusalsReported ==
  returned.error \in {"nil", "partial"} =>
    /\ \A x \in call : allResults[BucketOf[x]] # "none"
    /\ \A x \in call : Alone(x) =>
         (BucketOf[x] \in returned.failures <=> allResults[BucketOf[x]] = "refused")
    /\ returned.error = "nil" <=> returned.failures = {}
    /\ returned.error = "nil" =>
         \A x \in call : stored[x] > 0 \/ (x \in pending /\ out[x] = "leaderless")

===============================================================================
