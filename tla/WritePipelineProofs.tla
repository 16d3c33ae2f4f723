------------------------- MODULE WritePipelineProofs -------------------------
(***************************************************************************)
(* Proofs about WritePipeline, for any batches, buckets, servers and       *)
(* bounds: what a write call reports of the batches it was given           *)
(* (client/table.go, AppendLog and UpsertKV with their one retry), and that*)
(* a writer above it loses nothing else than what found no leader          *)
(* (client/writer.go, restorePending).                                     *)
(*                                                                         *)
(* Every step of the pipeline is a step of the call or leaves it alone     *)
(* (RetrySteps); the invariant of the call, RetryInv, is shown for these   *)
(* steps.  NothingElseLost then needs how a flush is disturbed and what the*)
(* logs hold.  CopiesNeedFailures needs an account of the copies that the  *)
(* call and the flush after it may still store (Need): no step spends more *)
(* of it than the failures and elections it brings (Spends).               *)
(* LastWriteWins needs that what is sent keeps the order in which it was   *)
(* accepted, and that the batches of a bucket are sent, answered and tried *)
(* again together.                                                         *)
(***************************************************************************)
EXTENDS WritePipeline, FiniteSetTheorems, SequenceTheorems, WellFoundedInduction, TLAPS

(* A set of numbers that is not empty has a least one. *)
LEMMA LeastNumber ==
  ASSUME NEW T, T \subseteq Nat, T # {}
  PROVE  \E n \in T : \A m \in T : ~(m < n)
<1> DEFINE R == {ss \in Nat \X Nat : ss[1] < ss[2]}
<1>1. \A x, y \in Nat : x < y => <<x, y>> \in R
  OBVIOUS
<1>2. IsWellFoundedOn(R, Nat)
  BY NatLessThanWellFounded DEF OpToRel
<1> HIDE DEF R
<1>3. \E x \in T : \A y \in T : ~ (<<y, x>> \in R)
  BY <1>2, WFMin
<1>4. QED
  BY <1>1, <1>3

(* What holds of no least number of 0 .. n that fails holds of all of them.*)
LEMMA UpTo ==
  ASSUME NEW n \in Nat, NEW S, 0 \in S, \A i \in 0 .. n - 1 : i \in S => i + 1 \in S
  PROVE  \A i \in 0 .. n : i \in S
<1> SUFFICES ASSUME NEW j \in 0 .. n, j \notin S PROVE FALSE
  OBVIOUS
<1> DEFINE T == {i \in 0 .. n : i \notin S}
<1>1. T \subseteq Nat /\ T # {}
  OBVIOUS
<1>2. PICK i \in T : \A m \in T : ~(m < i)
  BY <1>1, LeastNumber
<1>3. i # 0 /\ i \in 0 .. n /\ i \notin S
  BY <1>2
<1>4. i - 1 \in 0 .. n - 1 /\ i - 1 < i /\ (i - 1) + 1 = i
  BY <1>3
<1>5. i - 1 \in S
  BY <1>2, <1>4
<1>6. QED
  BY <1>3, <1>4, <1>5

(* restorePending's order, for any prefix of the flight. *)
LEMMA InOrderIs ==
  ASSUME flight \in Seq(Batches), NEW batches
  PROVE  \E upTo :
           /\ upTo = [n \in 0 .. Len(flight) |->
                        IF n = 0 THEN <<>>
                        ELSE IF flight[n] \in batches THEN Append(upTo[n - 1], flight[n])
                        ELSE upTo[n - 1]]
           /\ InOrder(batches) = upTo[Len(flight)]
<1> DEFINE L == Len(flight)
           F(g, n) == IF n = 0 THEN <<>>
                      ELSE IF flight[n] \in batches THEN Append(g[n - 1], flight[n])
                      ELSE g[n - 1]
           S == {m \in 0 .. L : \E g : g = [n \in 0 .. m |-> F(g, n)]}
<1>0. L \in Nat
  OBVIOUS
<1> HIDE DEF L
<1>1. 0 \in S
  <2> DEFINE g == [n \in 0 .. 0 |-> <<>>]
  <2>1. g = [n \in 0 .. 0 |-> g[n]] /\ \A n \in 0 .. 0 : g[n] = F(g, n)
    OBVIOUS
  <2> HIDE DEF g
  <2>2. g = [n \in 0 .. 0 |-> F(g, n)]
    BY <2>1
  <2>3. 0 \in 0 .. L
    BY <1>0
  <2>4. QED
    BY <2>2, <2>3
<1>2. ASSUME NEW m \in 0 .. L - 1, m \in S PROVE m + 1 \in S
  <2>1. PICK g : g = [n \in 0 .. m |-> F(g, n)]
    BY <1>2
  <2> DEFINE h == [n \in 0 .. m + 1 |-> IF n <= m THEN g[n] ELSE F(g, n)]
  <2>2. m \in Nat /\ m + 1 \in 0 .. L
    BY <1>0
  <2>3. \A n \in 0 .. m : g[n] = F(g, n)
    BY <2>1
  <2>4. ASSUME NEW n \in 0 .. m + 1 PROVE h[n] = F(h, n)
    <3>1. n # 0 => n - 1 \in 0 .. m + 1 /\ n - 1 <= m
      BY <2>2
    <3>2. n # 0 => h[n - 1] = g[n - 1]
      BY <3>1
    <3>3. h[n] = F(g, n)
      BY <2>2, <2>3
    <3> HIDE DEF h
    <3>4. QED
      BY <3>2, <3>3
  <2>5. h = [n \in 0 .. m + 1 |-> F(h, n)]
    <3>1. h = [n \in 0 .. m + 1 |-> h[n]]
      OBVIOUS
    <3> HIDE DEF h
    <3>2. QED
      BY <2>4, <3>1
  <2>6. QED
    BY <2>2, <2>5
<1> HIDE DEF S
<1>3. L \in S
  <2>1. \A i \in 0 .. L - 1 : i \in S => i + 1 \in S
    BY <1>2
  <2>2. \A i \in 0 .. L : i \in S
    BY <1>0, <1>1, <2>1, UpTo
  <2>3. QED
    BY <1>0, <2>2
<1> USE DEF S
<1>4. \E g : g = [n \in 0 .. L |-> F(g, n)]
  BY <1>3
<1> DEFINE upTo == CHOOSE g : g = [n \in 0 .. L |-> F(g, n)]
<1>5. upTo = [n \in 0 .. L |-> F(upTo, n)]
  BY <1>4
<1>6. InOrder(batches) = upTo[L]
  BY DEF InOrder, L
<1> HIDE DEF upTo
<1>7. QED
  BY <1>5, <1>6 DEF L

(* What restorePending puts back holds every batch of the flight that it   *)
(* is asked for, and nothing else than batches.                            *)
LEMMA InOrderHolds ==
  ASSUME flight \in Seq(Batches), NEW batches
  PROVE  /\ InOrder(batches) \in Seq(Batches)
         /\ \A i \in 1 .. Len(flight) : flight[i] \in batches =>
              \E j \in 1 .. Len(InOrder(batches)) : InOrder(batches)[j] = flight[i]
<1> DEFINE L == Len(flight)
           Good(s, n) == /\ s \in Seq(Batches)
                         /\ \A i \in 1 .. n : flight[i] \in batches =>
                              \E j \in 1 .. Len(s) : s[j] = flight[i]
<1>0. L \in Nat /\ \A i \in 1 .. L : flight[i] \in Batches
  OBVIOUS
<1>1. PICK upTo :
        /\ upTo = [n \in 0 .. L |->
                     IF n = 0 THEN <<>>
                     ELSE IF flight[n] \in batches THEN Append(upTo[n - 1], flight[n])
                     ELSE upTo[n - 1]]
        /\ InOrder(batches) = upTo[L]
  BY InOrderIs
<1> DEFINE S == {n \in 0 .. L : Good(upTo[n], n)}
<1> HIDE DEF L
<1>2. 0 \in S
  <2>1. upTo[0] = <<>> /\ 0 \in 0 .. L
    BY <1>0, <1>1
  <2>2. <<>> \in Seq(Batches) /\ \A i \in 1 .. 0 : FALSE
    OBVIOUS
  <2>3. Good(upTo[0], 0)
    BY <2>1, <2>2
  <2>4. QED
    BY <2>1, <2>3
<1>3. ASSUME NEW n \in 0 .. L - 1, n \in S PROVE n + 1 \in S
  <2>1. n + 1 \in 1 .. L /\ n + 1 \in 0 .. L /\ n \in 0 .. L /\ n + 1 # 0 /\ (n + 1) - 1 = n
    BY <1>0
  <2>2. upTo[n + 1] = IF flight[n + 1] \in batches THEN Append(upTo[n], flight[n + 1])
                      ELSE upTo[n]
    BY <1>1, <2>1
  <2> DEFINE s == upTo[n]
             e == flight[n + 1]
             t == upTo[n + 1]
  <2>3. s \in Seq(Batches) /\ e \in Batches /\ Good(s, n)
    BY <1>0, <1>3, <2>1
  <2>4. t = IF e \in batches THEN Append(s, e) ELSE s
    BY <2>2
  <2> HIDE DEF s, t, e
  <2>5. /\ t \in Seq(Batches) /\ Len(t) \in Nat /\ Len(s) \in Nat /\ Len(s) <= Len(t)
        /\ \A j \in 1 .. Len(s) : t[j] = s[j]
        /\ e \in batches => Len(t) = Len(s) + 1 /\ t[Len(t)] = e
    BY <2>3, <2>4
  <2>6. ASSUME NEW i \in 1 .. n + 1, flight[i] \in batches
        PROVE  \E j \in 1 .. Len(t) : t[j] = flight[i]
    <3>1. CASE i = n + 1
      <4>1. e \in batches /\ flight[i] = e
        BY <2>6, <3>1 DEF e
      <4>2. Len(t) \in 1 .. Len(t)
        BY <2>5, <4>1
      <4>3. QED
        BY <2>5, <4>1, <4>2
    <3>2. CASE i \in 1 .. n
      <4>1. PICK j \in 1 .. Len(s) : s[j] = flight[i]
        BY <2>3, <2>6, <3>2
      <4>2. j \in 1 .. Len(t) /\ t[j] = s[j]
        BY <2>5
      <4>3. QED
        BY <4>1, <4>2
    <3>3. QED
      BY <3>1, <3>2, <2>1
  <2>7. Good(t, n + 1)
    BY <2>5, <2>6
  <2>8. QED
    BY <2>1, <2>7 DEF t
<1> HIDE DEF S
<1>4. L \in S
  <2>1. \A i \in 0 .. L - 1 : i \in S => i + 1 \in S
    BY <1>3
  <2>2. \A i \in 0 .. L : i \in S
    BY <1>0, <1>2, <2>1, UpTo
  <2>3. QED
    BY <1>0, <2>2
<1>5. Good(upTo[L], L)
  BY <1>4 DEF S
<1>6. QED
  BY <1>1, <1>5 DEF L

-------------------------------------------------------------------------------
(* The steps of the pipeline as steps of the call *)

(* EndFlush, as far as the call is concerned: it is forgotten. *)
EndCall ==
  /\ step = "return" /\ call' = {} /\ pending' = {} /\ unrouted' = {}
  /\ grouped' = Nowhere
  /\ UNCHANGED <<step, attempt, out, err, allResults, returned, stored, resent>>

(* A request of the attempt is answered, one way or another. *)
RequestStep ==
  \E s \in Servers :
    \/ \E answer \in [grouped[s] -> Answers], kept \in SUBSET Batches :
         Answered(s, answer, kept)
    \/ \E kept \in SUBSET Batches : RequestFails(s, kept)

RouteStep ==
  \/ NoTableInfo
  \/ \E x \in Batches : RouteMissing(x) \/ \E s \in Servers : RouteFound(x, s)

DecideStep ==
  Succeed \/ ReturnError \/ RetryAll \/ ReturnTerminal \/ RetryLeaderless

RetryStep ==
  \/ \E batches \in SUBSET Batches : StartCall(batches)
  \/ EndCall \/ RouteStep \/ RequestStep \/ AttemptEnds \/ DecideStep
  \/ UNCHANGED retryVars

(* What the rest of the pipeline consists of. *)
PipelineTypes ==
  /\ buffer \in Seq(Batches) /\ flight \in Seq(Batches)
  /\ accepted \in Nat /\ 1 .. accepted \subseteq Batches
  /\ leader \in [Buckets -> Servers \cup {None}]
  /\ routes \in [Buckets -> Servers \cup {None}]
  /\ log \in [Buckets -> Seq(Batches)]
  /\ failures \in Nat /\ elections \in Nat /\ disturbed \in BOOLEAN

(* Every batch is of a bucket. *)
LEMMA BucketOfType == \A x \in Batches : BucketOf[x] \in Buckets
BY DEF Buckets

(* To the call a step of the pipeline is one of WriteRetry's, or nothing. *)
LEMMA RetrySteps ==
  ASSUME TypeOK, PipelineTypes, [PipelineNext]_vars
  PROVE  RetryStep
<1>1. CASE Accept \/ RefreshByOther \/ (\E b \in Buckets : Elect(b) \/ Recover(b))
           \/ UNCHANGED vars
  BY <1>1 DEF Accept, RefreshByOther, Elect, Recover, vars, RetryStep
<1>2. CASE BeginFlush
  <2>1. ToSet(buffer) \in SUBSET Batches
    BY DEF PipelineTypes, ToSet
  <2>2. QED
    BY <1>2, <2>1 DEF BeginFlush, RetryStep
<1>3. CASE EndFlush
  BY <1>3 DEF EndFlush, EndCall, RetryStep
<1>4. CASE CallStep
  <2>1. CASE NoInfo
    BY <2>1 DEF NoInfo, RetryStep, RouteStep
  <2>2. CASE Decide
    BY <2>2 DEF Decide, RetryStep, DecideStep
  <2>3. CASE AttemptEnds
    BY <2>3 DEF RetryStep
  <2>4. ASSUME NEW x \in Batches, Route(x) PROVE RetryStep
    <3>1. CASE RouteMissing(x)
      BY <3>1 DEF RetryStep, RouteStep
    <3>2. ASSUME NEW s, s \in Servers \cup {None}, s # None, RouteFound(x, s)
          PROVE  RetryStep
      BY <3>2 DEF RetryStep, RouteStep
    <3>3. BucketOf[x] \in Buckets
      BY BucketOfType
    <3>4. AllLed => leader[BucketOf[x]] # None
      BY <3>3 DEF AllLed
    <3>5. QED
      BY <2>4, <3>1, <3>2, <3>3, <3>4 DEF Route, Refreshed, PipelineTypes
  <2>5. ASSUME NEW s \in Servers, ServerAnswers(s) PROVE RetryStep
    <3>1. PICK refused \in SUBSET Led(s), kept \in SUBSET Led(s) :
            Answered(s, [x \in grouped[s] |->
                         IF x \notin Led(s) THEN "leaderless"
                         ELSE IF x \in refused THEN "refused" ELSE "ok"], kept)
      BY <2>5 DEF ServerAnswers
    <3>2. [x \in grouped[s] |->
                         IF x \notin Led(s) THEN "leaderless"
                         ELSE IF x \in refused THEN "refused" ELSE "ok"]
            \in [grouped[s] -> Answers]
      BY DEF Answers
    <3>3. PICK answer \in [grouped[s] -> Answers] : Answered(s, answer, kept)
      BY <3>1, <3>2
    <3>4. kept \in SUBSET Batches
      BY DEF Led, TypeOK
    <3>5. QED
      BY <3>3, <3>4 DEF RetryStep, RequestStep
  <2>6. ASSUME NEW s \in Servers, ServerFails(s) PROVE RetryStep
    <3>1. PICK kept \in SUBSET Led(s) : RequestFails(s, kept)
      BY <2>6 DEF ServerFails
    <3>2. kept \in SUBSET Batches
      BY DEF Led, TypeOK
    <3>3. QED
      BY <3>1, <3>2 DEF RetryStep, RequestStep
  <2>7. QED
    BY <1>4, <2>1, <2>2, <2>3, <2>4, <2>5, <2>6 DEF CallStep
<1>5. QED
  BY <1>1, <1>2, <1>3, <1>4 DEF PipelineNext

-------------------------------------------------------------------------------
(* Types *)

(* Before the first call. *)
LEMMA InitRetryType == Init => TypeOK
<1> SUFFICES ASSUME Init PROVE TypeOK
  OBVIOUS
<1> USE DEF Init
<1>1. grouped \in [Servers -> SUBSET pending] /\ out \in [Batches -> Answers \cup {"none"}]
  BY DEF Nowhere, Unanswered
<1>2. allResults \in [Buckets -> Answers \cup {"none"}] /\ stored \in [Batches -> Nat]
  BY DEF NoResults, NothingStored
<1>3. returned \in [error : Errors \cup {"none"}, failures : SUBSET Buckets]
  BY DEF NotReturned
<1>4. resent \in BOOLEAN /\ err \in Errors
  BY DEF Errors
<1>5. attempt \in 0 .. MaxAttempts - 1
  BY DEF MaxAttempts
<1>6. QED
  BY <1>1, <1>2, <1>3, <1>4, <1>5 DEF TypeOK

(* The merged results are results. *)
LEMMA MergedType == Merged \subseteq [Buckets -> Answers \cup {"none"}]
BY DEF Merged

(* Each step of AppendLog or UpsertKV keeps the types. *)
LEMMA RetryTypeKept ==
  ASSUME TypeOK, RetryStep
  PROVE  TypeOK'
<1> USE DEF TypeOK
<1>0. /\ Nowhere \in [Servers -> SUBSET {}]
      /\ Unanswered \in [Batches -> Answers \cup {"none"}]
      /\ NoResults \in [Buckets -> Answers \cup {"none"}]
      /\ NothingStored \in [Batches -> Nat]
      /\ NotReturned \in [error : Errors \cup {"none"}, failures : SUBSET Buckets]
      /\ {"nil", "route", "other", "partial"} = Errors
      /\ 0 .. MaxAttempts - 1 = {0, 1}
  BY DEF Nowhere, Unanswered, NoResults, NothingStored, NotReturned, Errors, MaxAttempts
<1>1. ASSUME NEW batches \in SUBSET Batches, StartCall(batches) PROVE TypeOK'
  BY <1>0, <1>1 DEF StartCall
<1>2. CASE EndCall
  BY <1>0, <1>2 DEF EndCall
<1>3. ASSUME NEW e \in {"route", "other"}, Abandon(e), stored' \in [Batches -> Nat],
             resent' = resent
      PROVE  TypeOK'
  BY <1>0, <1>3 DEF Abandon
<1>4. CASE RouteStep
  <2>1. CASE NoTableInfo
    BY <2>1, <1>3 DEF NoTableInfo
  <2>2. ASSUME NEW x \in Batches, RouteMissing(x) PROVE TypeOK'
    BY <2>2, <1>3 DEF RouteMissing
  <2>3. ASSUME NEW x \in Batches, NEW s \in Servers, RouteFound(x, s) PROVE TypeOK'
    <3>1. grouped' \in [Servers -> SUBSET pending]
      BY <2>3 DEF RouteFound
    <3>2. step' \in {"route", "send"}
      BY <2>3 DEF RouteFound
    <3>3. unrouted' \subseteq pending
      BY <2>3 DEF RouteFound
    <3>4. UNCHANGED <<call, attempt, pending, out, err, allResults, returned, stored,
                      resent>>
      BY <2>3 DEF RouteFound
    <3>5. QED
      BY <3>1, <3>2, <3>3, <3>4
  <2>4. QED
    BY <1>4, <2>1, <2>2, <2>3 DEF RouteStep
<1>5. ASSUME NEW kept \in SUBSET Batches, Store(kept) PROVE stored' \in [Batches -> Nat]
  BY <1>5 DEF Store
<1>6. CASE RequestStep
  <2>1. ASSUME NEW s \in Servers, NEW answer \in [grouped[s] -> Answers],
               NEW kept \in SUBSET Batches, Answered(s, answer, kept)
        PROVE  TypeOK'
    <3>1. out' \in [Batches -> Answers \cup {"none"}]
      BY <2>1 DEF Answered
    <3>2. stored' \in [Batches -> Nat]
      BY <2>1, <1>5 DEF Answered
    <3>3. grouped' \in [Servers -> SUBSET pending]
      BY <2>1 DEF Answered
    <3>4. UNCHANGED <<step, call, attempt, pending, unrouted, err, allResults,
                      returned, resent>>
      BY <2>1 DEF Answered
    <3>5. QED
      BY <3>1, <3>2, <3>3, <3>4
  <2>2. ASSUME NEW s \in Servers, NEW kept \in SUBSET Batches, RequestFails(s, kept)
        PROVE  TypeOK'
    BY <2>2, <1>3, <1>5 DEF RequestFails
  <2>3. QED
    BY <1>6, <2>1, <2>2 DEF RequestStep
<1>7. CASE AttemptEnds
  BY <1>7, <1>0 DEF AttemptEnds, attemptVars
<1>8. ASSUME NEW e \in Errors, NEW named \in SUBSET Buckets, Return(e, named) PROVE TypeOK'
  <2>1. returned' \in [error : Errors \cup {"none"}, failures : SUBSET Buckets]
    BY <1>8 DEF Return
  <2>2. allResults' \in [Buckets -> Answers \cup {"none"}]
    BY <1>8, MergedType DEF Return
  <2>3. QED
    BY <2>1, <2>2, <1>8 DEF Return, attemptVars
<1>9. ASSUME NEW batches \in SUBSET pending, attempt = 0, NextAttempt(batches) PROVE TypeOK'
  <2>1. allResults' \in [Buckets -> Answers \cup {"none"}]
    BY <1>9, MergedType DEF NextAttempt
  <2>2. grouped' \in [Servers -> SUBSET pending'] /\ pending' \subseteq call
    BY <1>0, <1>9 DEF NextAttempt
  <2>3. resent' \in BOOLEAN
    BY <1>9 DEF NextAttempt
  <2>4. QED
    BY <2>1, <2>2, <2>3, <1>0, <1>9 DEF NextAttempt
<1>10. CASE DecideStep
  <2>1. Terminal \in SUBSET Buckets
    BY BucketOfType DEF Terminal, BucketsWith
  <2>2. Filtered \in SUBSET pending
    BY DEF Filtered
  <2>3. "nil" \in Errors /\ "partial" \in Errors
    BY <1>0
  <2>4. QED
    BY <1>8, <1>9, <1>10, <2>1, <2>2, <2>3
       DEF DecideStep, Succeed, ReturnError, RetryAll, ReturnTerminal, RetryLeaderless
<1>11. CASE UNCHANGED retryVars
  BY <1>11 DEF retryVars, attemptVars
<1>12. QED
  BY <1>1, <1>2, <1>4, <1>6, <1>7, <1>10, <1>11 DEF RetryStep

-------------------------------------------------------------------------------
(* The inductive invariant of a call *)

(* Batches of the attempt whose request was not sent yet. *)
Waiting(x) == x \in unrouted \/ \E s \in Servers : x \in grouped[s]

(* Within an attempt every pending batch is at one place: without a route, *)
(* in the request to one server, or answered.                              *)
AttemptInv ==
  /\ step \in {"route", "send"} =>
       /\ \A x \in unrouted, s \in Servers : x \notin grouped[s]
       /\ \A s, t \in Servers : \A x \in grouped[s] : x \in grouped[t] => s = t
       /\ \A x \in pending : out[x] = "none" <=> Waiting(x)
  /\ step = "send" => unrouted = {}
  /\ step # "return" => \A x \in Batches \ pending : out[x] = "none"
  /\ step = "decide" =>
       /\ err \in {"route", "other"} => out = Unanswered
       /\ err \in {"nil", "partial"} => \A x \in pending : out[x] # "none"
       /\ err = "nil" => \A x \in pending : out[x] = "ok"

(* What a call under way knows of its attempt before this one. *)
ResultInv ==
  step # "return" =>
    /\ returned = NotReturned
    /\ attempt = 0 => pending = call /\ allResults = NoResults /\ ~resent
    /\ attempt = 1 =>
         \A x \in call :
           /\ x \notin pending => /\ stored[x] > 0
                                  /\ allResults[BucketOf[x]] # "none"
                                  /\ Alone(x) => allResults[BucketOf[x]] = "ok"
           /\ x \in pending /\ Alone(x) => allResults[BucketOf[x]] # "ok"

(* How often a batch was stored. *)
StoreInv ==
  \A x \in call :
    /\ stored[x] <= attempt + 1
    /\ out[x] = "ok" => stored[x] > 0
    /\ step \in {"route", "send"} /\ Waiting(x) =>
         /\ stored[x] <= attempt
         /\ ~resent /\ Alone(x) => stored[x] = 0
    /\ ~resent /\ Alone(x) => /\ stored[x] <= 1
                              /\ out[x] = "leaderless" => stored[x] = 0

(* Each step keeps what an attempt knows of its batches. *)
LEMMA AttemptKept ==
  ASSUME TypeOK, AttemptInv, RetryStep
  PROVE  AttemptInv'
<1> USE DEF TypeOK, AttemptInv, Waiting
<1>0. /\ \A s \in Servers : Nowhere[s] = {}
      /\ \A x \in Batches : Unanswered[x] = "none"
  BY DEF Nowhere, Unanswered
<1>1. ASSUME NEW batches \in SUBSET Batches, step' = "route",
             pending' = batches, unrouted' = batches, grouped' = Nowhere,
             out' = Unanswered
      PROVE  AttemptInv'
  BY <1>0, <1>1
<1>2. ASSUME NEW batches \in SUBSET Batches, StartCall(batches) PROVE AttemptInv'
  BY <1>1, <1>2 DEF StartCall
<1>3. CASE EndCall
  BY <1>3 DEF EndCall
<1>4. ASSUME NEW e \in {"route", "other"}, Abandon(e) PROVE AttemptInv'
  BY <1>0, <1>4 DEF Abandon
<1>5. CASE RouteStep
  <2>1. CASE NoTableInfo
    BY <2>1, <1>4 DEF NoTableInfo
  <2>2. ASSUME NEW x \in Batches, RouteMissing(x) PROVE AttemptInv'
    BY <2>2, <1>4 DEF RouteMissing
  <2>3. ASSUME NEW x \in Batches, NEW s \in Servers, RouteFound(x, s) PROVE AttemptInv'
    <3>1. /\ step = "route" /\ x \in unrouted /\ unrouted' = unrouted \ {x}
          /\ grouped' = [grouped EXCEPT ![s] = @ \cup {x}]
          /\ step' = IF unrouted' = {} THEN "send" ELSE "route"
          /\ UNCHANGED <<pending, out>>
      BY <2>3 DEF RouteFound
    <3>2. \A t \in Servers : grouped'[t] = IF t = s THEN grouped[s] \cup {x} ELSE grouped[t]
      BY <3>1
    <3>3. \A y \in unrouted', t \in Servers : y \notin grouped'[t]
      BY <3>1, <3>2
    <3>4. \A t, u \in Servers : \A y \in grouped'[t] : y \in grouped'[u] => t = u
      BY <3>1, <3>2
    <3>5. \A y \in pending : out[y] = "none" <=> Waiting(y)'
      BY <3>1, <3>2
    <3>6. QED
      BY <3>1, <3>3, <3>4, <3>5
  <2>4. QED
    BY <1>5, <2>1, <2>2, <2>3 DEF RouteStep
<1>6. CASE RequestStep
  <2>1. ASSUME NEW s \in Servers, NEW answer \in [grouped[s] -> Answers],
               NEW kept \in SUBSET Batches, Answered(s, answer, kept)
        PROVE  AttemptInv'
    <3>1. /\ step = "send" /\ UNCHANGED <<step, pending, unrouted, err>>
          /\ out' = [x \in Batches |-> IF x \in grouped[s] THEN answer[x] ELSE out[x]]
          /\ grouped' = [grouped EXCEPT ![s] = {}]
      BY <2>1 DEF Answered
    <3>2. \A t \in Servers : grouped'[t] = IF t = s THEN {} ELSE grouped[t]
      BY <3>1
    <3>3. \A x \in grouped[s] : answer[x] # "none" /\ x \in pending
      BY DEF Answers
    <3>4. \A x \in pending : out'[x] = "none" <=> Waiting(x)'
      BY <3>1, <3>2, <3>3
    <3>5. \A x \in Batches \ pending : out'[x] = "none"
      BY <3>1
    <3>6. \A t, u \in Servers : \A y \in grouped'[t] : y \in grouped'[u] => t = u
      BY <3>1, <3>2
    <3>7. QED
      BY <3>1, <3>4, <3>5, <3>6
  <2>2. ASSUME NEW s \in Servers, NEW kept \in SUBSET Batches, RequestFails(s, kept)
        PROVE  AttemptInv'
    BY <2>2, <1>4 DEF RequestFails
  <2>3. QED
    BY <1>6, <2>1, <2>2 DEF RequestStep
<1>7. CASE AttemptEnds
  BY <1>0, <1>7 DEF AttemptEnds, attemptVars
<1>8. ASSUME NEW batches \in SUBSET pending, NextAttempt(batches) PROVE AttemptInv'
  BY <1>1, <1>8 DEF NextAttempt
<1>9. ASSUME NEW e, NEW named, Return(e, named) PROVE AttemptInv'
  BY <1>9 DEF Return
<1>10. CASE DecideStep
  BY <1>8, <1>9, <1>10
     DEF DecideStep, Succeed, ReturnError, RetryAll, ReturnTerminal, RetryLeaderless,
         Filtered
<1>11. CASE UNCHANGED retryVars
  BY <1>11 DEF retryVars, attemptVars
<1>12. QED
  BY <1>2, <1>3, <1>5, <1>6, <1>7, <1>10, <1>11 DEF RetryStep

(* What merging the answers of an attempt into the results makes of the    *)
(* bucket of x: one of its answers if there are any.                       *)
LEMMA MergedResult ==
  ASSUME TypeOK, NEW r \in Merged, NEW x \in call
  PROVE  LET b == BucketOf[x] IN
         /\ \/ r[b] = allResults[b]
            \/ \E y \in pending : BucketOf[y] = b /\ out[y] # "none" /\ r[b] = out[y]
         /\ \A y \in pending : BucketOf[y] = b /\ out[y] # "none" =>
              \E z \in pending : BucketOf[z] = b /\ out[z] # "none" /\ r[b] = out[z]
         /\ Alone(x) /\ (x \in pending => out[x] = "none") => r[b] = allResults[b]
         /\ Alone(x) /\ x \in pending /\ out[x] # "none" => r[b] = out[x]
<1> DEFINE b == BucketOf[x]
           answers == {out[y] : y \in {z \in pending : BucketOf[z] = b}} \ {"none"}
<1>1. b \in Buckets /\ pending \subseteq call
  BY BucketOfType DEF TypeOK
<1>2. IF answers = {} THEN r[b] = allResults[b] ELSE r[b] \in answers
  BY <1>1 DEF Merged
<1>3. \A a : a \in answers <=> \E y \in pending : BucketOf[y] = b /\ out[y] # "none" /\ a = out[y]
  OBVIOUS
<1>4. Alone(x) => \A y \in pending : BucketOf[y] = b => y = x
  BY <1>1 DEF Alone
<1> HIDE DEF answers
<1>5. \/ r[b] = allResults[b]
      \/ \E y \in pending : BucketOf[y] = b /\ out[y] # "none" /\ r[b] = out[y]
  BY <1>2, <1>3
<1>6. ASSUME NEW y \in pending, BucketOf[y] = b, out[y] # "none"
      PROVE  \E z \in pending : BucketOf[z] = b /\ out[z] # "none" /\ r[b] = out[z]
  <2>1. answers # {}
    BY <1>3, <1>6
  <2>2. QED
    BY <2>1, <1>2, <1>3
<1>7. ASSUME Alone(x), x \in pending => out[x] = "none" PROVE r[b] = allResults[b]
  <2>1. answers = {}
    BY <1>3, <1>4, <1>7
  <2>2. QED
    BY <1>2, <2>1
<1>8. ASSUME Alone(x), x \in pending, out[x] # "none" PROVE r[b] = out[x]
  BY <1>4, <1>6, <1>8
<1>9. QED
  BY <1>5, <1>6, <1>7, <1>8

(* An answer makes its bucket one of those with that answer.               *)
LEMMA BucketsWithAnswer ==
  ASSUME NEW x \in pending
  PROVE  /\ out[x] = "leaderless" => BucketOf[x] \in Retryable
         /\ out[x] = "refused" => BucketOf[x] \in Terminal
         /\ out[x] = "leaderless" => x \in Filtered
BY DEF Retryable, Terminal, BucketsWith, Filtered

(* A bucket with one batch has that batch's answer. *)
LEMMA AnswerOfBucket ==
  ASSUME TypeOK, NEW x \in call, Alone(x)
  PROVE  /\ BucketOf[x] \in Retryable <=> x \in pending /\ out[x] = "leaderless"
         /\ BucketOf[x] \in Terminal <=> x \in pending /\ out[x] = "refused"
         /\ x \in Filtered <=> x \in pending /\ out[x] = "leaderless"
BY DEF TypeOK, Retryable, Terminal, BucketsWith, Filtered, Alone

(* The merge of the two attempts' results keeps what they say of a bucket. *)
LEMMA ResultKept ==
  ASSUME TypeOK, TypeOK', AttemptInv, ResultInv, StoreInv, RetryStep
  PROVE  ResultInv'
<1> USE DEF ResultInv
<1>0. /\ pending \subseteq call /\ call \subseteq Batches /\ attempt \in {0, 1}
      /\ \A x \in Batches : BucketOf[x] \in Buckets
      /\ \A b \in Buckets : NoResults[b] = "none"
      /\ stored \in [Batches -> Nat] /\ out \in [Batches -> Answers \cup {"none"}]
      /\ Answers = {"ok", "leaderless", "refused"}
  BY BucketOfType DEF TypeOK, MaxAttempts, NoResults, Answers
<1>1. ASSUME NEW batches \in SUBSET Batches, StartCall(batches) PROVE ResultInv'
  BY <1>1 DEF StartCall
<1>2. CASE EndCall
  BY <1>2 DEF EndCall
<1>3. ASSUME step # "return",
             UNCHANGED <<returned, attempt, pending, call, allResults, resent>>,
             \A x \in call \ pending : stored'[x] > 0
      PROVE  ResultInv'
  BY <1>3 DEF Alone
<1>4. CASE RouteStep
  <2>1. /\ step # "return" /\ stored' = stored
        /\ UNCHANGED <<returned, attempt, pending, call, allResults, resent>>
    BY <1>4 DEF RouteStep, NoTableInfo, RouteMissing, RouteFound, Abandon
  <2>2. QED
    BY <2>1, <1>0 DEF Alone
<1>5. CASE RequestStep
  <2>1. PICK kept \in SUBSET Batches :
          /\ step # "return" /\ Store(kept)
          /\ UNCHANGED <<returned, attempt, pending, call, allResults, resent>>
    <3>1. ASSUME NEW s \in Servers, NEW answer \in [grouped[s] -> Answers],
                 NEW k \in SUBSET Batches, Answered(s, answer, k)
          PROVE  \E kept \in SUBSET Batches :
                   /\ step # "return" /\ Store(kept)
                   /\ UNCHANGED <<returned, attempt, pending, call, allResults, resent>>
      <4>1. {x \in grouped[s] : answer[x] = "ok"} \cup k \in SUBSET Batches
        BY DEF TypeOK
      <4>2. QED
        BY <3>1, <4>1 DEF Answered
    <3>2. ASSUME NEW s \in Servers, NEW k \in SUBSET Batches, RequestFails(s, k)
          PROVE  \E kept \in SUBSET Batches :
                   /\ step # "return" /\ Store(kept)
                   /\ UNCHANGED <<returned, attempt, pending, call, allResults, resent>>
      BY <3>2 DEF RequestFails, Abandon
    <3>3. QED
      BY <1>5, <3>1, <3>2 DEF RequestStep
  <2>2. \A x \in Batches : stored'[x] >= stored[x]
    BY <2>1, <1>0 DEF Store
  <2>3. CASE attempt = 1
    <3>1. \A x \in call \ pending : stored'[x] > 0
      BY <2>1, <2>2, <2>3, <1>0 DEF TypeOK
    <3>2. QED
      BY <2>1, <3>1, <1>3
  <2>4. CASE attempt = 0
    BY <2>1, <2>4
  <2>5. QED
    BY <2>3, <2>4, <1>0
<1>6. CASE AttemptEnds
  BY <1>6, <1>0 DEF AttemptEnds, attemptVars, Alone
<1>7. ASSUME NEW e, NEW named, Return(e, named) PROVE ResultInv'
  BY <1>7 DEF Return
<1>8. CASE RetryAll
  <2>1. /\ step = "decide" /\ attempt = 0 /\ out = Unanswered
        /\ pending = call /\ allResults = NoResults
    BY <1>8, <1>0 DEF RetryAll, AttemptInv
  <2>2. /\ attempt' = 1 /\ pending' = call /\ call' = call /\ returned' = returned
        /\ stored' = stored /\ allResults' \in Merged
    BY <1>8, <2>1 DEF RetryAll, NextAttempt
  <2>3. \A x \in call : allResults'[BucketOf[x]] = "none"
    <3>1. \A y \in pending : out[y] = "none"
      BY <2>1, <1>0 DEF Unanswered
    <3>2. QED
      BY <2>1, <2>2, <3>1, <1>0, MergedResult
  <2>4. QED
    BY <2>1, <2>2, <2>3
<1>9. CASE RetryLeaderless
  <2>1. /\ step = "decide" /\ attempt = 0 /\ Terminal = {}
        /\ pending = call /\ allResults = NoResults
        /\ \A x \in pending : out[x] # "none"
    BY <1>9, <1>0 DEF RetryLeaderless, AttemptInv
  <2>2. /\ attempt' = 1 /\ pending' = Filtered /\ call' = call /\ returned' = returned
        /\ stored' = stored /\ allResults' \in Merged
    BY <1>9, <2>1 DEF RetryLeaderless, NextAttempt
  <2>3. SUFFICES ASSUME NEW x \in call
        PROVE  /\ x \notin Filtered => /\ stored[x] > 0
                                       /\ allResults'[BucketOf[x]] # "none"
                                       /\ Alone(x) => allResults'[BucketOf[x]] = "ok"
               /\ x \in Filtered /\ Alone(x) => allResults'[BucketOf[x]] # "ok"
    BY <2>1, <2>2 DEF Alone
  <2>4. x \in pending /\ out[x] \in {"ok", "leaderless"}
    BY <2>1, <1>0, BucketsWithAnswer
  <2>5. allResults'[BucketOf[x]] # "none"
    BY <2>1, <2>2, <2>4, MergedResult
  <2>6. ASSUME Alone(x) PROVE allResults'[BucketOf[x]] = out[x]
    BY <2>1, <2>2, <2>4, <2>6, MergedResult
  <2>7. x \notin Filtered => out[x] = "ok" /\ stored[x] > 0
    BY <2>4, BucketsWithAnswer DEF StoreInv
  <2>8. QED
    BY <2>4, <2>5, <2>6, <2>7, AnswerOfBucket
<1>10. CASE DecideStep
  BY <1>7, <1>8, <1>9, <1>10 DEF DecideStep, Succeed, ReturnError, ReturnTerminal
<1>11. CASE UNCHANGED retryVars
  BY <1>11 DEF retryVars, attemptVars, Alone
<1>12. QED
  BY <1>1, <1>2, <1>4, <1>5, <1>6, <1>10, <1>11 DEF RetryStep

(* Each step keeps how often a batch was stored by this call. *)
LEMMA StoreKept ==
  ASSUME TypeOK, AttemptInv, ResultInv, StoreInv, RetryStep
  PROVE  StoreInv'
<1>0. /\ pending \subseteq call /\ call \subseteq Batches /\ attempt \in {0, 1}
      /\ unrouted \subseteq pending /\ \A s \in Servers : grouped[s] \subseteq pending
      /\ stored \in [Batches -> Nat] /\ out \in [Batches -> Answers \cup {"none"}]
      /\ \A x \in Batches : Unanswered[x] = "none" /\ NothingStored[x] = 0
      /\ resent \in BOOLEAN
  BY DEF TypeOK, MaxAttempts, Unanswered, NothingStored
<1>1. ASSUME NEW batches \in SUBSET Batches, StartCall(batches) PROVE StoreInv'
  BY <1>1, <1>0 DEF StartCall, StoreInv
<1>2. CASE EndCall
  BY <1>2 DEF EndCall, StoreInv
<1>3. ASSUME step' = "decide", out' = Unanswered, UNCHANGED <<call, attempt, resent>>,
             \A x \in call : \/ stored'[x] = stored[x]
                             \/ /\ step \in {"route", "send"} /\ Waiting(x)
                                /\ stored'[x] = stored[x] + 1
      PROVE  StoreInv'
  <2>1. SUFFICES ASSUME NEW x \in call
        PROVE  /\ stored'[x] <= attempt + 1
               /\ ~resent /\ Alone(x) => stored'[x] <= 1
    BY <1>3, <1>0 DEF StoreInv, Alone
  <2>2. stored[x] \in Nat /\ attempt \in Nat
    BY <1>0
  <2>3. CASE stored'[x] = stored[x]
    BY <2>3 DEF StoreInv
  <2>4. CASE step \in {"route", "send"} /\ Waiting(x) /\ stored'[x] = stored[x] + 1
    BY <2>2, <2>4 DEF StoreInv
  <2>5. QED
    BY <1>3, <2>3, <2>4
<1>4. CASE RouteStep
  <2>1. ASSUME NEW e, Abandon(e), UNCHANGED <<stored, resent>> PROVE StoreInv'
    BY <2>1, <1>3 DEF Abandon
  <2>2. ASSUME NEW x \in Batches, NEW s \in Servers, RouteFound(x, s) PROVE StoreInv'
    <3>1. /\ step = "route" /\ x \in unrouted /\ unrouted' = unrouted \ {x}
          /\ grouped' = [grouped EXCEPT ![s] = @ \cup {x}]
          /\ step' \in {"route", "send"}
          /\ UNCHANGED <<call, attempt, out, stored, resent>>
      BY <2>2 DEF RouteFound
    <3>2. \A t \in Servers : grouped'[t] = IF t = s THEN grouped[s] \cup {x} ELSE grouped[t]
      BY <3>1 DEF TypeOK
    <3>3. \A y \in Batches : Waiting(y)' => Waiting(y)
      BY <3>1, <3>2 DEF Waiting
    <3>4. QED
      BY <3>1, <3>3, <1>0 DEF StoreInv, Alone
  <2>3. QED
    BY <1>4, <2>1, <2>2 DEF RouteStep, NoTableInfo, RouteMissing
<1>5. CASE RequestStep
  <2>1. ASSUME NEW s \in Servers, NEW answer \in [grouped[s] -> Answers],
               NEW kept \in SUBSET Batches, Answered(s, answer, kept)
        PROVE  StoreInv'
    <3>1. /\ step = "send" /\ unrouted = {}
          /\ out' = [x \in Batches |-> IF x \in grouped[s] THEN answer[x] ELSE out[x]]
          /\ kept \subseteq {x \in grouped[s] : answer[x] = "refused"}
          /\ Store({x \in grouped[s] : answer[x] = "ok"} \cup kept)
          /\ grouped' = [grouped EXCEPT ![s] = {}]
          /\ UNCHANGED <<step, call, attempt, unrouted, resent>>
      BY <2>1 DEF Answered, AttemptInv
    <3>2. \A t \in Servers : grouped'[t] = IF t = s THEN {} ELSE grouped[t]
      BY <3>1 DEF TypeOK
    <3>3. SUFFICES ASSUME NEW x \in call
          PROVE  /\ stored'[x] <= attempt + 1
                 /\ out'[x] = "ok" => stored'[x] > 0
                 /\ Waiting(x)' => /\ stored'[x] <= attempt
                                   /\ ~resent /\ Alone(x) => stored'[x] = 0
                 /\ ~resent /\ Alone(x) => /\ stored'[x] <= 1
                                           /\ out'[x] = "leaderless" => stored'[x] = 0
      BY <3>1 DEF StoreInv, Alone
    <3>4. x \in Batches /\ stored[x] \in Nat /\ attempt \in Nat
      BY <1>0
    <3>5. CASE x \in grouped[s]
      <4>1. Waiting(x) /\ ~Waiting(x)'
        BY <3>1, <3>2, <3>5 DEF Waiting, AttemptInv
      <4>2. /\ stored[x] <= attempt
            /\ ~resent /\ Alone(x) => stored[x] = 0
        BY <4>1, <3>1 DEF StoreInv
      <4>3. out'[x] = answer[x]
        BY <3>1, <3>4, <3>5
      <4>4. /\ stored'[x] \in {stored[x], stored[x] + 1}
            /\ answer[x] = "ok" => stored'[x] = stored[x] + 1
            /\ answer[x] = "leaderless" => stored'[x] = stored[x]
        BY <3>1, <3>4, <3>5 DEF Store
      <4>5. QED
        BY <4>1, <4>2, <4>3, <4>4, <3>4
    <3>6. CASE x \notin grouped[s]
      <4>1. out'[x] = out[x] /\ (Waiting(x)' => Waiting(x))
        BY <3>1, <3>2, <3>4, <3>6 DEF Waiting
      <4>2. stored'[x] = stored[x]
        BY <3>1, <3>4, <3>6 DEF Store
      <4>3. QED
        BY <4>1, <4>2, <3>1 DEF StoreInv
    <3>7. QED
      BY <3>5, <3>6
  <2>2. ASSUME NEW s \in Servers, NEW kept \in SUBSET Batches, RequestFails(s, kept)
        PROVE  StoreInv'
    <3>1. /\ step = "send" /\ kept \subseteq grouped[s] /\ Store(kept)
          /\ step' = "decide" /\ out' = Unanswered /\ UNCHANGED <<call, attempt, resent>>
      BY <2>2 DEF RequestFails, Abandon
    <3>2. ASSUME NEW x \in call
          PROVE  \/ stored'[x] = stored[x]
                 \/ Waiting(x) /\ stored'[x] = stored[x] + 1
      BY <3>1, <1>0 DEF Store, Waiting
    <3>3. QED
      BY <3>1, <3>2, <1>3
  <2>3. QED
    BY <1>5, <2>1, <2>2 DEF RequestStep
<1>6. CASE AttemptEnds
  BY <1>6 DEF AttemptEnds, attemptVars, StoreInv, Alone
<1>7. ASSUME NEW e, NEW named, Return(e, named) PROVE StoreInv'
  BY <1>7 DEF Return, attemptVars, StoreInv, Alone
<1>8. ASSUME NEW batches \in SUBSET pending, attempt = 0, NextAttempt(batches),
             err \in {"route", "other"} \/
               \A x \in batches : Alone(x) => out[x] = "leaderless"
      PROVE  StoreInv'
  <2>1. /\ attempt' = 1 /\ out' = Unanswered /\ unrouted' = batches /\ grouped' = Nowhere
        /\ resent' = (resent \/ err \in {"route", "other"}) /\ UNCHANGED <<call, stored>>
    BY <1>8 DEF NextAttempt
  <2>2. SUFFICES ASSUME NEW x \in call
        PROVE  /\ stored[x] <= 1
               /\ x \in batches => (~resent' /\ Alone(x) => stored[x] = 0)
    BY <2>1, <1>0 DEF StoreInv, Alone, Waiting, Nowhere
  <2>3. stored[x] <= 1
    BY <1>8 DEF StoreInv
  <2>4. ASSUME x \in batches, ~resent', Alone(x) PROVE stored[x] = 0
    <3>1. ~resent /\ err \notin {"route", "other"}
      BY <2>1, <2>4, <1>0
    <3>2. QED
      BY <3>1, <2>4, <1>8 DEF StoreInv
  <2>5. QED
    BY <2>3, <2>4
<1>9. CASE DecideStep
  <2>1. CASE RetryAll
    BY <2>1, <1>8 DEF RetryAll
  <2>2. CASE RetryLeaderless
    <3>1. Filtered \subseteq pending
      BY DEF Filtered
    <3>2. \A x \in Filtered : Alone(x) => out[x] = "leaderless"
      BY <3>1, <1>0, AnswerOfBucket
    <3>3. QED
      BY <2>2, <3>1, <3>2, <1>8 DEF RetryLeaderless
  <2>3. QED
    BY <1>7, <1>9, <2>1, <2>2 DEF DecideStep, Succeed, ReturnError, ReturnTerminal
<1>10. CASE UNCHANGED retryVars
  BY <1>10 DEF retryVars, attemptVars, StoreInv, Alone, Waiting
<1>11. QED
  BY <1>1, <1>2, <1>4, <1>5, <1>6, <1>9, <1>10 DEF RetryStep

(* A step of the call keeps its results and stores no less, or it merges   *)
(* the answers of an attempt into them, or there is no call before or after*)
(* the step.                                                               *)
LEMMA ResultSteps ==
  ASSUME TypeOK, RetryStep
  PROVE  \/ call' = {} /\ returned' = returned
         \/ allResults' = NoResults /\ returned' = NotReturned
         \/ /\ UNCHANGED <<call, allResults, returned, resent>>
            /\ step' # "return" \/ UNCHANGED retryVars
            /\ \A x \in Batches : stored'[x] >= stored[x]
         \/ step = "decide" /\ allResults' \in Merged /\ UNCHANGED <<call, stored>>
<1>0. /\ stored \in [Batches -> Nat]
      /\ \A s \in Servers : grouped[s] \in SUBSET Batches
  BY DEF TypeOK
<1>1. ASSUME NEW kept, Store(kept) PROVE \A x \in Batches : stored'[x] >= stored[x]
  BY <1>0, <1>1 DEF Store
<1>2. \A x \in Batches : stored[x] >= stored[x]
  BY <1>0
<1>3. ASSUME NEW batches \in SUBSET Batches, StartCall(batches)
      PROVE allResults' = NoResults /\ returned' = NotReturned
  BY <1>3 DEF StartCall
<1>4. CASE EndCall
  BY <1>4 DEF EndCall
<1>5. CASE RouteStep
  BY <1>5, <1>2 DEF RouteStep, NoTableInfo, RouteMissing, RouteFound, Abandon
<1>6. CASE RequestStep
  <2>1. ASSUME NEW s \in Servers, NEW answer, NEW kept, Answered(s, answer, kept)
        PROVE  /\ UNCHANGED <<call, allResults, returned, resent>> /\ step' # "return"
               /\ \A x \in Batches : stored'[x] >= stored[x]
    BY <1>1, <2>1 DEF Answered
  <2>2. ASSUME NEW s \in Servers, NEW kept, RequestFails(s, kept)
        PROVE  /\ UNCHANGED <<call, allResults, returned, resent>> /\ step' # "return"
               /\ \A x \in Batches : stored'[x] >= stored[x]
    BY <1>1, <2>2 DEF RequestFails, Abandon
  <2>3. QED
    BY <1>6, <2>1, <2>2 DEF RequestStep
<1>7. CASE AttemptEnds
  BY <1>7, <1>2 DEF AttemptEnds
<1>8. CASE DecideStep
  BY <1>8 DEF DecideStep, Succeed, ReturnError, RetryAll, ReturnTerminal, RetryLeaderless,
              Return, NextAttempt
<1>9. CASE UNCHANGED retryVars
  BY <1>9, <1>2 DEF retryVars
<1>10. QED
  BY <1>3, <1>4, <1>5, <1>6, <1>7, <1>8, <1>9 DEF RetryStep

(* How a call returns without an error of a whole request: every batch of  *)
(* the attempt has its answer, and the error names what was refused.       *)
LEMMA ReturnSteps ==
  ASSUME TypeOK, AttemptInv, ResultInv, RetryStep, step # "return", step' = "return",
         returned'.error \in {"nil", "partial"}
  PROVE  /\ UNCHANGED <<call, pending, out, stored, resent>> /\ allResults' \in Merged
         /\ \A x \in pending : out[x] # "none"
         /\ \A x \in call \ pending : attempt = 1
         /\ returned'.failures = Terminal /\ (returned'.error = "nil" <=> Terminal = {})
<1>0. step' # step /\ step \in {"route", "send", "decide"}
  BY DEF TypeOK
<1>1. \A batches : ~StartCall(batches)
  BY DEF StartCall
<1>2. ~EndCall
  BY <1>0 DEF EndCall
<1>3. ~RouteStep
  BY DEF RouteStep, NoTableInfo, RouteMissing, RouteFound, Abandon
<1>4. ~RequestStep
  BY <1>0 DEF RequestStep, Answered, RequestFails, Abandon
<1>5. ~AttemptEnds /\ ~RetryAll /\ ~RetryLeaderless
  BY DEF AttemptEnds, RetryAll, RetryLeaderless, NextAttempt
<1>6. ~UNCHANGED retryVars
  BY <1>0 DEF retryVars
<1>7. Succeed \/ ReturnError \/ ReturnTerminal
  BY <1>1, <1>2, <1>3, <1>4, <1>5, <1>6 DEF RetryStep, DecideStep
<1>8. /\ UNCHANGED <<call, pending, out, stored, resent>> /\ allResults' \in Merged
      /\ step = "decide"
  BY <1>7 DEF Succeed, ReturnError, ReturnTerminal, Return, attemptVars
<1>9. \A x \in call \ pending : attempt = 1
  BY <1>0 DEF ResultInv, TypeOK, MaxAttempts
<1>10. CASE Succeed
  <2>1. \A x \in pending : out[x] = "ok"
    BY <1>8, <1>10 DEF Succeed, AttemptInv
  <2>2. Terminal = {}
    BY <2>1 DEF Terminal, BucketsWith
  <2>3. returned' = [error |-> "nil", failures |-> {}]
    BY <1>10 DEF Succeed, Return
  <2>4. QED
    BY <1>8, <1>9, <2>1, <2>2, <2>3
<1>11. ~ReturnError
  BY DEF ReturnError, Return
<1>12. CASE ReturnTerminal
  <2>1. \A x \in pending : out[x] # "none"
    BY <1>8, <1>12 DEF ReturnTerminal, AttemptInv
  <2>2. returned' = IF Terminal = {} THEN [error |-> "nil", failures |-> {}]
                    ELSE [error |-> "partial", failures |-> Terminal]
    BY <1>12 DEF ReturnTerminal, Return
  <2>3. QED
    BY <1>8, <1>9, <2>1, <2>2
<1>13. QED
  BY <1>7, <1>10, <1>11, <1>12

(* Each step keeps StoredAsReported: the results that are merged stay true *)
(* of the servers.                                                         *)
LEMMA AsReportedKept ==
  ASSUME TypeOK, TypeOK', AttemptInv, ResultInv, ResultInv', StoreInv, StoreInv',
         StoredAsReported, RetryStep
  PROVE  StoredAsReported'
<1>0. /\ pending \subseteq call /\ call \subseteq Batches /\ attempt \in {0, 1}
      /\ call' \subseteq Batches /\ attempt' \in {0, 1} /\ MaxAttempts = 2
      /\ \A x \in Batches : BucketOf[x] \in Buckets
      /\ \A b \in Buckets : NoResults[b] = "none"
      /\ stored \in [Batches -> Nat] /\ stored' \in [Batches -> Nat]
      /\ NotReturned.error = "none"
  BY BucketOfType DEF TypeOK, MaxAttempts, NoResults, NotReturned
<1>1. ASSUME NEW x \in call'
      PROVE  stored'[x] <= IF resent' \/ ~Alone(x)' THEN MaxAttempts ELSE 1
  BY <1>0, <1>1 DEF StoreInv
<1>2. ASSUME NEW x \in call', allResults'[BucketOf[x]] = "ok"
      PROVE  \E y \in call' : BucketOf[y] = BucketOf[x] /\ stored'[y] > 0
  <2>1. CASE UNCHANGED <<call, allResults>> /\ \A y \in Batches : stored'[y] >= stored[y]
    <3>1. PICK y \in call : BucketOf[y] = BucketOf[x] /\ stored[y] > 0
      BY <1>2, <2>1 DEF StoredAsReported
    <3>2. stored'[y] > 0
      BY <1>0, <2>1, <3>1
    <3>3. QED
      BY <2>1, <3>1, <3>2
  <2>2. CASE allResults' \in Merged /\ UNCHANGED <<call, stored>>
    <3>1. CASE allResults[BucketOf[x]] = "ok"
      BY <1>2, <2>2, <3>1 DEF StoredAsReported
    <3>2. CASE \E y \in pending : BucketOf[y] = BucketOf[x] /\ out[y] = "ok"
      BY <2>2, <3>2, <1>0 DEF StoreInv
    <3>3. QED
      BY <1>2, <2>2, <3>1, <3>2, MergedResult
  <2>3. QED
    BY <1>0, <1>2, <2>1, <2>2, ResultSteps
<1>3. ASSUME NEW x \in call', returned'.error \in {"nil", "partial"}, ~resent', Alone(x)',
             allResults'[BucketOf[x]] = "leaderless"
      PROVE  stored'[x] = 0
  <2>1. step' = "return"
    BY <1>0, <1>3 DEF ResultInv
  <2>2. CASE step # "return"
    <3>1. /\ UNCHANGED <<call, pending, out, stored, resent>> /\ allResults' \in Merged
          /\ \A y \in pending : out[y] # "none"
          /\ \A y \in call \ pending : attempt = 1
      BY <1>3, <2>1, <2>2, ReturnSteps
    <3>2. Alone(x) /\ ~resent
      BY <1>3, <3>1 DEF Alone
    <3>3. CASE x \in pending
      BY <1>3, <3>1, <3>2, <3>3, MergedResult DEF StoreInv
    <3>4. CASE x \notin pending
      <4>1. allResults[BucketOf[x]] = "ok"
        BY <2>2, <3>1, <3>2, <3>4 DEF ResultInv
      <4>2. QED
        BY <1>3, <3>1, <3>2, <3>4, <4>1, MergedResult
    <3>5. QED
      BY <3>3, <3>4
  <2>3. CASE step = "return"
    <3>1. UNCHANGED retryVars
      BY <1>0, <1>3, <2>1, <2>3, ResultSteps
    <3>2. QED
      BY <1>3, <3>1 DEF retryVars, StoredAsReported, Alone
  <2>4. QED
    BY <2>2, <2>3
<1>4. QED
  BY <1>1, <1>2, <1>3 DEF StoredAsReported

(* Each step keeps RefusalsReported: the buckets named in the error are    *)
(* those refused for good.                                                 *)
LEMMA RefusalsKept ==
  ASSUME TypeOK, AttemptInv, ResultInv, ResultInv', StoreInv, RefusalsReported, RetryStep
  PROVE  RefusalsReported'
<1>0. /\ pending \subseteq call /\ call \subseteq Batches
      /\ \A x \in Batches : BucketOf[x] \in Buckets
      /\ out \in [Batches -> Answers \cup {"none"}]
      /\ Answers = {"ok", "leaderless", "refused"}
      /\ NotReturned.error = "none"
  BY BucketOfType DEF TypeOK, Answers, NotReturned
<1> SUFFICES ASSUME returned'.error \in {"nil", "partial"} PROVE RefusalsReported'
  BY DEF RefusalsReported
<1>1. step' = "return"
  BY <1>0 DEF ResultInv
<1>2. CASE step # "return"
  <2>1. /\ UNCHANGED <<call, pending, out, stored, resent>> /\ allResults' \in Merged
        /\ \A y \in pending : out[y] # "none"
        /\ \A y \in call \ pending : attempt = 1
        /\ returned'.failures = Terminal /\ (returned'.error = "nil" <=> Terminal = {})
    BY <1>1, <1>2, ReturnSteps
  <2>2. ASSUME NEW x \in call \ pending
        PROVE  stored[x] > 0 /\ allResults[BucketOf[x]] # "none"
               /\ (Alone(x) => allResults[BucketOf[x]] = "ok")
    BY <1>2, <2>1 DEF ResultInv
  <2>3. ASSUME NEW x \in call PROVE allResults'[BucketOf[x]] # "none"
    BY <2>1, <2>2, MergedResult
  <2>4. ASSUME NEW x \in call, Alone(x)
        PROVE  BucketOf[x] \in Terminal <=> allResults'[BucketOf[x]] = "refused"
    <3>1. CASE x \in pending
      BY <2>1, <2>4, <3>1, MergedResult, AnswerOfBucket
    <3>2. CASE x \notin pending
      BY <2>1, <2>2, <2>4, <3>2, MergedResult, AnswerOfBucket
    <3>3. QED
      BY <3>1, <3>2
  <2>5. ASSUME NEW x \in call, Terminal = {}
        PROVE  stored[x] > 0 \/ (x \in pending /\ out[x] = "leaderless")
    <3>1. CASE x \in pending
      BY <1>0, <2>1, <2>5, <3>1, BucketsWithAnswer DEF StoreInv
    <3>2. CASE x \notin pending
      BY <2>2, <3>2
    <3>3. QED
      BY <3>1, <3>2
  <2>6. QED
    BY <2>1, <2>3, <2>4, <2>5 DEF RefusalsReported, Alone
<1>3. CASE step = "return"
  <2>1. CASE call' = {} /\ returned' = returned
    BY <2>1 DEF RefusalsReported
  <2>2. CASE UNCHANGED retryVars
    BY <2>2 DEF retryVars, attemptVars, RefusalsReported, Alone
  <2>3. QED
    BY <1>0, <1>1, <1>3, <2>1, <2>2, ResultSteps
<1>4. QED
  BY <1>2, <1>3

-------------------------------------------------------------------------------
(* The rest of the pipeline *)

(* A step of the call leaves the writer and the cluster alone; it may      *)
(* refresh the routes, meet a failure and append what it stores to the     *)
(* logs.                                                                   *)
LEMMA CallSteps ==
  ASSUME CallStep
  PROVE  /\ UNCHANGED <<writerVars, clusterVars>>
         /\ UNCHANGED routes \/ (AllLed /\ routes' = leader)
         /\ UNCHANGED faultVars \/ Fails
         /\ (UNCHANGED <<log, stored>>) \/ Appended
         /\ step # "return" /\ call' = call
<1>1. UNCHANGED <<writerVars, clusterVars>>
  BY DEF CallStep
<1>2. CASE NoInfo
  BY <1>1, <1>2 DEF NoInfo, NoTableInfo, Abandon
<1>3. CASE Decide
  <2>1. UNCHANGED log
    BY <1>3 DEF Decide
  <2>2. UNCHANGED stored /\ call' = call /\ step # "return"
    BY <1>3 DEF Decide, Succeed, ReturnError, RetryAll, ReturnTerminal, RetryLeaderless,
                Return, NextAttempt
  <2>3. /\ UNCHANGED routes \/ (AllLed /\ routes' = leader)
        /\ UNCHANGED faultVars \/ Fails
    BY <1>3 DEF Decide, Refreshed, NotRefreshed
  <2>4. QED
    BY <1>1, <2>1, <2>2, <2>3
<1>4. CASE AttemptEnds /\ UNCHANGED <<log, routes, faultVars, torn>>
  BY <1>1, <1>4 DEF AttemptEnds
<1>5. ASSUME NEW x \in Batches, Route(x)
      PROVE  /\ UNCHANGED routes \/ (AllLed /\ routes' = leader)
             /\ UNCHANGED faultVars \/ Fails
             /\ UNCHANGED <<log, stored>> /\ step # "return" /\ call' = call
  BY <1>5 DEF Route, Refreshed, NotRefreshed, RouteFound, RouteMissing, Abandon
<1>6. ASSUME NEW s \in Servers, ServerAnswers(s) \/ ServerFails(s)
      PROVE  /\ UNCHANGED routes /\ (UNCHANGED faultVars \/ Fails)
             /\ Appended /\ step # "return" /\ call' = call
  BY <1>6 DEF ServerAnswers, ServerFails, Answered, RequestFails, Abandon
<1>7. QED
  BY <1>1, <1>2, <1>3, <1>4, <1>5, <1>6 DEF CallStep

(* The pipeline's variables, besides the call's, before the first call. *)
LEMMA InitPipelineTypes == PipelineInit => PipelineTypes
<1> SUFFICES ASSUME PipelineInit PROVE PipelineTypes
  OBVIOUS
<1>1. <<>> \in Seq(Batches) /\ 1 .. 0 = {}
  OBVIOUS
<1>2. QED
  BY <1>1 DEF PipelineInit, PipelineTypes

(* Each step keeps the types of the writer, of the routes and of the logs. *)
LEMMA PipelineTypesKept ==
  ASSUME PipelineTypes, [PipelineNext]_vars
  PROVE  PipelineTypes'
<1> USE DEF PipelineTypes
<1>0. <<>> \in Seq(Batches)
  OBVIOUS
<1>1. CASE Accept
  <2>1. UNCHANGED <<flight, leader, elections, log, routes, failures, disturbed>>
    BY <1>1 DEF Accept, clusterVars, faultVars
  <2>2. accepted' \in Nat /\ buffer' \in Seq(Batches)
    BY <1>1 DEF Accept
  <2>3. accepted' = accepted + 1 /\ accepted + 1 \in Batches
    BY <1>1 DEF Accept
  <2>4. 1 .. accepted + 1 = 1 .. accepted \cup {accepted + 1}
    OBVIOUS
  <2>5. QED
    BY <2>1, <2>2, <2>3, <2>4
<1>2. CASE BeginFlush
  <2>1. UNCHANGED <<accepted, leader, elections, log, routes, failures>>
    BY <1>2 DEF BeginFlush, clusterVars
  <2>2. flight' \in Seq(Batches) /\ buffer' \in Seq(Batches)
    BY <1>0, <1>2 DEF BeginFlush
  <2>3. disturbed' \in BOOLEAN
    BY <1>2 DEF BeginFlush
  <2>4. QED
    BY <2>1, <2>2, <2>3
<1>3. CASE EndFlush
  <2>1. UNCHANGED <<accepted, leader, elections, log, routes, failures, disturbed>>
    BY <1>3 DEF EndFlush, clusterVars, faultVars
  <2>2. flight \o buffer \in Seq(Batches)
    BY ConcatProperties
  <2>3. flight' \in Seq(Batches) /\ buffer' \in Seq(Batches)
    BY <1>0, <1>3, <2>2 DEF EndFlush, Restore
  <2>4. QED
    BY <2>1, <2>3
<1>4. CASE CallStep
  <2>1. UNCHANGED <<buffer, flight, accepted, leader, elections>>
    BY <1>4, CallSteps DEF writerVars, clusterVars
  <2>2. routes' \in [Buckets -> Servers \cup {None}]
    BY <1>4, CallSteps
  <2>3. failures' \in Nat /\ disturbed' \in BOOLEAN
    <3>1. UNCHANGED faultVars \/ Fails
      BY <1>4, CallSteps
    <3>2. failures' \in {failures, failures + 1} /\ disturbed' \in {disturbed, TRUE}
      BY <3>1 DEF faultVars, Fails
    <3>3. failures' \in Nat
      BY <3>2
    <3>4. QED
      BY <3>2, <3>3, Zenon
  <2>4. log' \in [Buckets -> Seq(Batches)]
    <3>1. ASSUME NEW b \in Buckets, NEW batches PROVE log[b] \o InOrder(batches) \in Seq(Batches)
      BY InOrderHolds, ConcatProperties
    <3>2. QED
      BY <3>1, <1>4, CallSteps DEF Appended
  <2>5. QED
    BY <2>1, <2>2, <2>3, <2>4
<1>5. CASE RefreshByOther
  BY <1>5 DEF RefreshByOther, writerVars, clusterVars, faultVars
<1>6. ASSUME NEW b \in Buckets, Elect(b) PROVE PipelineTypes'
  <2>1. UNCHANGED <<buffer, flight, accepted, log, routes, failures>>
    BY <1>6 DEF Elect, writerVars
  <2>2. leader' \in [Buckets -> Servers \cup {None}]
    BY <1>6 DEF Elect
  <2>3. elections' \in Nat /\ disturbed' \in BOOLEAN
    BY <1>6 DEF Elect
  <2>4. QED
    BY <2>1, <2>2, <2>3
<1>7. ASSUME NEW b \in Buckets, Recover(b) PROVE PipelineTypes'
  <2>1. UNCHANGED <<buffer, flight, accepted, log, routes, failures, elections, disturbed>>
    BY <1>7 DEF Recover, writerVars, faultVars
  <2>2. leader' \in [Buckets -> Servers \cup {None}]
    BY <1>7 DEF Recover
  <2>3. QED
    BY <2>1, <2>2
<1>8. CASE UNCHANGED vars
  BY <1>8 DEF vars, writerVars, clusterVars, faultVars
<1>9. QED
  BY <1>1, <1>2, <1>3, <1>4, <1>5, <1>6, <1>7, <1>8 DEF PipelineNext

-------------------------------------------------------------------------------
(* The theorems about a call *)

RetryInv ==
  TypeOK /\ PipelineTypes /\ AttemptInv /\ ResultInv /\ StoreInv /\ StoredAsReported
    /\ RefusalsReported

(* The invariant of the call holds before the first call. *)
LEMMA InitRetryInv == PipelineInit => RetryInv
<1> SUFFICES ASSUME PipelineInit PROVE RetryInv
  OBVIOUS
<1>1. Init
  BY DEF PipelineInit
<1>2. TypeOK /\ PipelineTypes
  BY <1>1, InitRetryType, InitPipelineTypes
<1>3. AttemptInv /\ ResultInv
  BY <1>1 DEF Init, AttemptInv, ResultInv
<1>4. StoreInv /\ StoredAsReported
  BY <1>1 DEF Init, StoreInv, StoredAsReported
<1>5. RefusalsReported
  BY <1>1 DEF Init, RefusalsReported, NotReturned
<1>6. QED
  BY <1>2, <1>3, <1>4, <1>5 DEF RetryInv

(* Every step of the pipeline, of the call or not, keeps it. *)
LEMMA RetryInvKept == RetryInv /\ [PipelineNext]_vars => RetryInv'
<1> SUFFICES ASSUME RetryInv, [PipelineNext]_vars PROVE RetryInv'
  OBVIOUS
<1> USE DEF RetryInv
<1>1. RetryStep
  BY RetrySteps
<1>2. TypeOK' /\ PipelineTypes'
  BY <1>1, RetryTypeKept, PipelineTypesKept
<1>3. AttemptInv' /\ StoreInv'
  BY <1>1, AttemptKept, StoreKept
<1>4. ResultInv'
  BY <1>1, <1>2, ResultKept
<1>5. StoredAsReported'
  BY <1>1, <1>2, <1>3, <1>4, AsReportedKept
<1>6. RefusalsReported'
  BY <1>1, <1>4, RefusalsKept
<1>7. QED
  BY <1>2, <1>3, <1>4, <1>5, <1>6

(* AppendLog and UpsertKV (client/table.go) with their one retry: the      *)
(* inductive invariant of the call holds in every state of the pipeline.   *)
THEOREM SpecRetryInv == Spec => []RetryInv
BY InitRetryInv, RetryInvKept, PTL DEF Spec

(* The variables of a write call have their types, whatever the servers    *)
(* answer and the caller does.                                             *)
THEOREM SpecRetryTypeOK == Spec => []TypeOK
<1>1. RetryInv => TypeOK
  BY DEF RetryInv
<1>2. QED
  BY <1>1, SpecRetryInv, PTL

(* client/table.go, AppendLog and UpsertKV: a bucket is acknowledged only  *)
(* for a batch that a server stored, one that is reported leaderless was   *)
(* not stored, and partial failures alone never store a batch twice.       *)
THEOREM SpecStoredAsReported == Spec => []StoredAsReported
<1>1. RetryInv => StoredAsReported
  BY DEF RetryInv
<1>2. QED
  BY <1>1, SpecRetryInv, PTL

(* client/table.go, AppendLog and UpsertKV: a call that returns without a  *)
(* whole request's error has an answer for every bucket, and its error     *)
(* names exactly the buckets refused for good.                             *)
THEOREM SpecRefusalsReported == Spec => []RefusalsReported
<1>1. RetryInv => RefusalsReported
  BY DEF RetryInv
<1>2. QED
  BY <1>1, SpecRetryInv, PTL

AcknowledgedStep ==
  \A x \in call :
    step # "return" /\ Alone(x) /\ allResults[BucketOf[x]] = "ok"
      => allResults'[BucketOf[x]] = "ok" /\ stored'[x] = stored[x]

(* A step of the call leaves an acknowledged batch that has its bucket for *)
(* itself alone.                                                           *)
LEMMA AcknowledgedAlone ==
  ASSUME RetryInv, RetryStep
  PROVE  AcknowledgedStep
<1> SUFFICES ASSUME NEW x \in call, step # "return", Alone(x), allResults[BucketOf[x]] = "ok"
             PROVE  allResults'[BucketOf[x]] = "ok" /\ stored'[x] = stored[x]
  BY DEF AcknowledgedStep
<1>0. /\ TypeOK /\ ResultInv /\ call \subseteq Batches /\ attempt \in {0, 1}
      /\ stored \in [Batches -> Nat] /\ BucketOf[x] \in Buckets
      /\ \A s \in Servers : grouped[s] \subseteq pending
  BY BucketOfType DEF RetryInv, TypeOK, MaxAttempts
<1>1. x \notin pending
  <2>1. NoResults[BucketOf[x]] = "none"
    BY <1>0 DEF NoResults
  <2>2. QED
    BY <1>0, <2>1 DEF ResultInv
<1>2. ASSUME NEW s \in Servers, NEW kept, kept \subseteq grouped[s], Store(kept)
      PROVE  stored'[x] = stored[x]
  BY <1>0, <1>1, <1>2 DEF Store
<1>3. CASE RequestStep
  <2>1. ASSUME NEW s \in Servers, NEW answer, NEW kept, Answered(s, answer, kept)
        PROVE  allResults'[BucketOf[x]] = "ok" /\ stored'[x] = stored[x]
    BY <1>2, <2>1 DEF Answered
  <2>2. ASSUME NEW s \in Servers, NEW kept, RequestFails(s, kept)
        PROVE  allResults'[BucketOf[x]] = "ok" /\ stored'[x] = stored[x]
    BY <1>2, <2>2 DEF RequestFails, Abandon
  <2>3. QED
    BY <1>3, <2>1, <2>2 DEF RequestStep
<1>4. CASE allResults' \in Merged /\ UNCHANGED stored
  BY <1>0, <1>1, <1>4, MergedResult
<1>5. CASE DecideStep
  BY <1>4, <1>5 DEF DecideStep, Succeed, ReturnError, RetryAll, ReturnTerminal,
                    RetryLeaderless, Return, NextAttempt
<1>6. CASE RouteStep \/ AttemptEnds \/ UNCHANGED retryVars
  BY <1>6 DEF RouteStep, NoTableInfo, RouteMissing, RouteFound, Abandon, AttemptEnds,
              retryVars
<1>7. QED
  BY <1>3, <1>5, <1>6 DEF RetryStep, StartCall, EndCall

(* client/table.go, filterBatches and mergeProduceResults: what the first  *)
(* attempt acknowledged is neither sent again nor replaced by the retry.   *)
THEOREM SpecAcknowledgedOnce == Spec => AcknowledgedOnce
<1>1. RetryInv /\ [PipelineNext]_vars => [AcknowledgedStep]_retryVars
  BY RetrySteps, AcknowledgedAlone DEF RetryInv
<1>2. QED
  BY <1>1, SpecRetryInv, PTL DEF Spec, AcknowledgedOnce, AcknowledgedStep

-------------------------------------------------------------------------------
(* Nothing is lost *)

(* A flush is undisturbed while every bucket has a leader and nothing else *)
(* fails; its second attempt then sends every batch to the leader of its   *)
(* bucket, and no batch finds none.                                        *)
Disturbances ==
  /\ ~disturbed => AllLed
  /\ call # {} /\ attempt = 1 /\ ~disturbed =>
       /\ step \in {"route", "send"} =>
            routes = leader /\ \A s \in Servers : \A x \in grouped[s] : leader[BucketOf[x]] = s
       /\ \A x \in pending : out[x] # "leaderless"
  /\ step = "return" /\ returned.error = "nil" /\ ~disturbed =>
       \A x \in pending : out[x] # "leaderless"

(* Nothing has disturbed a flush before the first one. *)
LEMMA InitDisturbances == PipelineInit => Disturbances
<1> SUFFICES ASSUME PipelineInit PROVE Disturbances
  OBVIOUS
<1>1. AllLed
  BY PipelineAssumption DEF PipelineInit, AllLed
<1>2. call = {} /\ pending = {}
  BY DEF PipelineInit, Init
<1>3. QED
  BY <1>1, <1>2 DEF Disturbances

(* Each step keeps that an answer without a leader has a reason in the     *)
(* flush.                                                                  *)
LEMMA DisturbancesKept ==
  ASSUME RetryInv, Disturbances, [PipelineNext]_vars
  PROVE  Disturbances'
<1> USE DEF Disturbances
<1>0. /\ TypeOK /\ AttemptInv /\ pending \subseteq call /\ call \subseteq Batches
      /\ \A s \in Servers : grouped[s] \subseteq pending
      /\ attempt \in {0, 1} /\ disturbed \in BOOLEAN
      /\ leader \in [Buckets -> Servers \cup {None}]
      /\ \A x \in Batches : BucketOf[x] \in Buckets
  BY BucketOfType DEF RetryInv, TypeOK, PipelineTypes, MaxAttempts
<1>1. CASE Accept \/ RefreshByOther \/ UNCHANGED vars
  <2>1. UNCHANGED <<retryVars, leader, disturbed>> /\ routes' \in {routes, leader}
    BY <1>1 DEF Accept, RefreshByOther, vars, clusterVars, faultVars
  <2>2. QED
    BY <2>1 DEF retryVars, attemptVars, AllLed
<1>2. CASE BeginFlush
  <2>1. disturbed' = ~AllLed /\ leader' = leader
    BY <1>2 DEF BeginFlush, clusterVars
  <2>2. attempt' = 0 /\ step' = "route"
    BY <1>2 DEF BeginFlush, StartCall
  <2>3. ~disturbed' => AllLed'
    BY <2>1 DEF AllLed
  <2>4. QED
    BY <2>2, <2>3
<1>3. CASE EndFlush
  BY <1>3 DEF EndFlush, clusterVars, faultVars, AllLed
<1>4. ASSUME NEW b \in Buckets, Elect(b) PROVE Disturbances'
  BY <1>4 DEF Elect
<1>5. ASSUME NEW b \in Buckets, Recover(b) PROVE Disturbances'
  <2>1. disturbed /\ disturbed' = disturbed
    BY <1>5, <1>0 DEF Recover, AllLed, faultVars
  <2>2. QED
    BY <2>1
<1>6. CASE CallStep
  <2>0. /\ UNCHANGED leader /\ step # "return" /\ call' = call
        /\ UNCHANGED faultVars \/ Fails
    BY <1>6, CallSteps DEF clusterVars
  <2>1. CASE Fails
    BY <2>1 DEF Fails
  <2>2. ASSUME UNCHANGED faultVars, ~disturbed PROVE Disturbances'
    <3>0. disturbed' = disturbed /\ AllLed /\ AllLed' /\ ~Fails
      BY <2>0, <2>2 DEF faultVars, Fails, AllLed
    <3>1. CASE NoInfo
      BY <3>0, <3>1 DEF NoInfo
    <3>2. ~NotRefreshed
      BY <3>0 DEF NotRefreshed
    <3>3. ASSUME NEW batches, NextAttempt(batches), routes' = leader PROVE Disturbances'
      <4>1. grouped' = Nowhere /\ out' = Unanswered /\ step' = "route"
        BY <3>3 DEF NextAttempt
      <4>2. \A s \in Servers : grouped'[s] = {}
        BY <4>1 DEF Nowhere
      <4>3. pending' \subseteq Batches => \A x \in pending' : out'[x] # "leaderless"
        BY <4>1 DEF Unanswered
      <4>4. TypeOK'
        BY RetryInvKept DEF RetryInv
      <4>5. QED
        BY <2>0, <3>0, <3>3, <4>1, <4>2, <4>3, <4>4 DEF TypeOK
    <3>4. CASE Decide
      <4>1. CASE Succeed
        <5>1. \A x \in pending : out[x] = "ok"
          BY <4>1, <1>0 DEF Succeed, AttemptInv
        <5>2. step' = "return" /\ UNCHANGED <<pending, out>>
          BY <4>1 DEF Succeed, Return, attemptVars
        <5>3. QED
          BY <3>0, <5>1, <5>2
      <4>2. CASE ReturnError
        <5>1. step' = "return" /\ UNCHANGED <<pending, out, attempt>> /\ returned'.error # "nil"
          BY <4>2 DEF ReturnError, Return, attemptVars
        <5>2. QED
          BY <2>0, <2>2, <3>0, <5>1
      <4>3. CASE ReturnTerminal /\ (Retryable = {} \/ attempt = 1 \/ Terminal # {})
        <5>1. step' = "return" /\ UNCHANGED <<pending, out, attempt, call>>
          BY <4>3 DEF ReturnTerminal, Return, attemptVars
        <5>2. returned'.error = "nil" => Terminal = {}
          BY <4>3 DEF ReturnTerminal, Return
        <5>3. returned'.error = "nil" => \A x \in pending : out[x] # "leaderless"
          BY <2>2, <4>3, <5>2, <1>0, BucketsWithAnswer
        <5>4. QED
          BY <2>2, <3>0, <5>1, <5>3
      <4>4. (RetryAll \/ RetryLeaderless) /\ Refreshed => Disturbances'
        BY <3>3 DEF RetryAll, RetryLeaderless, Refreshed
      <4>5. QED
        BY <3>2, <3>4, <4>1, <4>2, <4>3, <4>4 DEF Decide
    <3>5. CASE AttemptEnds /\ UNCHANGED <<log, routes, faultVars, torn>>
      BY <2>0, <2>2, <3>0, <3>5 DEF AttemptEnds, attemptVars
    <3>6. ASSUME NEW x \in Batches, Route(x) PROVE Disturbances'
      <4>1. PICK s : /\ RouteFound(x, s)
                     /\ \/ routes' = leader /\ s = leader[BucketOf[x]]
                        \/ routes' = routes /\ s = routes[BucketOf[x]]
        <5>1. \/ RouteFound(x, routes[BucketOf[x]]) /\ routes' = routes
              \/ RouteFound(x, leader[BucketOf[x]]) /\ routes' = leader
          <6>1. \/ RouteFound(x, routes[BucketOf[x]]) /\ UNCHANGED <<routes, faultVars>>
                \/ Refreshed /\ RouteFound(x, leader[BucketOf[x]])
                \/ NotRefreshed
            BY <3>6, Zenon DEF Route
          <6>2. QED
            BY <3>2, <6>1 DEF Refreshed
        <5>2. QED
          BY <5>1
      <4>2. /\ step = "route" /\ step' \in {"route", "send"}
            /\ grouped' = [grouped EXCEPT ![s] = @ \cup {x}]
            /\ UNCHANGED <<call, attempt, pending, out>>
        BY <4>1 DEF RouteFound
      <4>3. CASE call # {} /\ attempt = 1
        <5>1. routes = leader /\ routes' = leader /\ s = leader[BucketOf[x]]
          BY <2>2, <4>1, <4>2, <4>3
        <5>2. \A t \in Servers : \A y \in grouped'[t] : y \in grouped[t] \/ (y = x /\ t = s)
          BY <4>2, <1>0 DEF TypeOK
        <5>3. \A t \in Servers : \A y \in grouped'[t] : leader[BucketOf[y]] = t
          BY <2>2, <4>2, <4>3, <5>1, <5>2
        <5>4. QED
          BY <2>0, <2>2, <3>0, <4>2, <4>3, <5>1, <5>3
      <4>4. QED
        BY <2>0, <3>0, <4>2, <4>3
    <3>7. ASSUME NEW s \in Servers, ServerAnswers(s) PROVE Disturbances'
      <4>1. PICK refused \in SUBSET Led(s), kept \in SUBSET Led(s) :
              Answered(s, [x \in grouped[s] |->
                           IF x \notin Led(s) THEN "leaderless"
                           ELSE IF x \in refused THEN "refused" ELSE "ok"], kept)
        BY <3>7 DEF ServerAnswers
      <4>2. /\ step = "send" /\ UNCHANGED <<step, call, attempt, pending>>
            /\ grouped' = [grouped EXCEPT ![s] = {}]
        BY <4>1 DEF Answered
      <4>3. \A x \in Batches : x \in grouped[s] /\ x \in Led(s) => out'[x] # "leaderless"
        BY <4>1 DEF Answered
      <4>4. \A x \in Batches : x \notin grouped[s] => out'[x] = out[x]
        BY <4>1 DEF Answered
      <4>5. CASE call # {} /\ attempt = 1
        <5>1. Led(s) = grouped[s] /\ routes = leader
          BY <2>2, <4>2, <4>5 DEF Led
        <5>2. \A x \in pending : out'[x] # "leaderless"
          BY <2>2, <4>3, <4>4, <4>5, <5>1, <1>0
        <5>3. \A t \in Servers : grouped'[t] \subseteq grouped[t]
          BY <4>2, <1>0 DEF TypeOK
        <5>4. routes' = routes
          BY <3>7 DEF ServerAnswers
        <5>5. \A t \in Servers : \A x \in grouped'[t] : leader[BucketOf[x]] = t
          BY <2>2, <4>2, <4>5, <5>3
        <5>6. QED
          BY <2>0, <3>0, <4>2, <4>5, <5>1, <5>2, <5>4, <5>5
      <4>6. QED
        BY <2>0, <3>0, <4>2, <4>5
    <3>8. ASSUME NEW s \in Servers, ServerFails(s) PROVE Disturbances'
      BY <3>0, <3>8 DEF ServerFails
    <3>9. QED
      BY <1>6, <3>1, <3>4, <3>5, <3>6, <3>7, <3>8 DEF CallStep
  <2>3. CASE UNCHANGED faultVars /\ disturbed
    BY <2>3 DEF faultVars
  <2>4. QED
    BY <2>0, <2>1, <2>2, <2>3
<1>7. QED
  BY <1>1, <1>2, <1>3, <1>4, <1>5, <1>6 DEF PipelineNext

(* The call has the batches of the flight, and what it stored is in the    *)
(* log of its bucket.                                                      *)
LogInv ==
  /\ call = ToSet(flight)
  /\ \A x \in call : stored[x] > 0 => Stored(x)

(* A sequence contains what it has at some index. *)
LEMMA ContainsIs == \A s, e : Contains(s, e) <=> \E i \in 1 .. Len(s) : s[i] = e
BY DEF Contains

(* What is in a sequence's set the sequence contains. *)
LEMMA ToSetContains ==
  ASSUME NEW s \in Seq(Batches), NEW e
  PROVE  e \in ToSet(s) <=> Contains(s, e)
<1>1. DOMAIN s = 1 .. Len(s)
  OBVIOUS
<1>2. QED
  BY <1>1 DEF ToSet, Contains

(* Neither part of a concatenation is lost, *)
LEMMA ContainsConcat ==
  ASSUME NEW s \in Seq(Batches), NEW t \in Seq(Batches), NEW e,
         Contains(s, e) \/ Contains(t, e)
  PROVE  Contains(s \o t, e)
<1>1. /\ Len(s) \in Nat /\ Len(t) \in Nat /\ Len(s \o t) = Len(s) + Len(t)
      /\ \A i \in 1 .. Len(s) : (s \o t)[i] = s[i]
      /\ \A i \in 1 .. Len(t) : (s \o t)[Len(s) + i] = t[i]
  OBVIOUS
<1>2. CASE Contains(s, e)
  <2>1. PICK i \in 1 .. Len(s) : s[i] = e
    BY <1>2 DEF Contains
  <2>2. i \in 1 .. Len(s \o t) /\ (s \o t)[i] = e
    BY <1>1, <2>1
  <2>3. QED
    BY <2>2 DEF Contains
<1>3. CASE Contains(t, e)
  <2>1. PICK i \in 1 .. Len(t) : t[i] = e
    BY <1>3 DEF Contains
  <2>2. Len(s) + i \in 1 .. Len(s \o t) /\ (s \o t)[Len(s) + i] = e
    BY <1>1, <2>1
  <2>3. QED
    BY <2>2 DEF Contains
<1>4. QED
  BY <1>2, <1>3

(* and no part of a sequence that something is appended to. *)
LEMMA ContainsAppend ==
  ASSUME NEW s \in Seq(Batches), NEW a \in Batches, NEW e, e = a \/ Contains(s, e)
  PROVE  Contains(Append(s, a), e)
<1>1. /\ Len(s) \in Nat /\ Len(Append(s, a)) = Len(s) + 1
      /\ \A i \in 1 .. Len(s) : Append(s, a)[i] = s[i]
      /\ Append(s, a)[Len(s) + 1] = a
  OBVIOUS
<1>2. CASE e = a
  <2>1. Len(s) + 1 \in 1 .. Len(Append(s, a))
    BY <1>1
  <2>2. QED
    BY <1>1, <1>2, <2>1 DEF Contains
<1>3. CASE Contains(s, e)
  <2>1. PICK i \in 1 .. Len(s) : s[i] = e
    BY <1>3 DEF Contains
  <2>2. i \in 1 .. Len(Append(s, a)) /\ Append(s, a)[i] = e
    BY <1>1, <2>1
  <2>3. QED
    BY <2>2 DEF Contains
<1>4. QED
  BY <1>2, <1>3

(* A log only grows, by what a call stores.                                *)
LEMMA LogGrows ==
  ASSUME RetryInv, LogInv, [PipelineNext]_vars
  PROVE  /\ \A x \in Batches : Stored(x) => Stored(x)'
         /\ CallStep => \A x \in call : stored'[x] > 0 => Stored(x)'
<1>0. /\ TypeOK /\ PipelineTypes /\ call \subseteq Batches
      /\ stored \in [Batches -> Nat] /\ stored' \in [Batches -> Nat]
      /\ flight \in Seq(Batches)
      /\ \A x \in Batches : BucketOf[x] \in Buckets /\ log[BucketOf[x]] \in Seq(Batches)
  BY RetryInvKept, BucketOfType DEF RetryInv, TypeOK, PipelineTypes
<1>1. CASE ~CallStep
  <2>1. log' = log
    BY <1>1 DEF PipelineNext, Accept, BeginFlush, EndFlush, RefreshByOther, Elect, Recover,
                vars
  <2>2. QED
    BY <1>1, <2>1 DEF Stored
<1>2. CASE UNCHANGED <<log, stored>>
  BY <1>2 DEF Stored, LogInv
<1>3. CASE Appended
  <2>1. SUFFICES ASSUME NEW x \in Batches
        PROVE  /\ Stored(x) => Stored(x)'
               /\ x \in call /\ stored'[x] > 0 => Stored(x)'
    BY <1>0
  <2> DEFINE b == BucketOf[x]
             new == {y \in Batches : BucketOf[y] = b /\ stored'[y] > stored[y]}
  <2>2. log'[b] = log[b] \o InOrder(new)
    BY <1>0, <1>3 DEF Appended
  <2>3. InOrder(new) \in Seq(Batches) /\ log[b] \in Seq(Batches)
    BY <1>0, InOrderHolds
  <2>4. Stored(x) => Stored(x)'
    BY <2>2, <2>3, ContainsConcat DEF Stored
  <2>5. ASSUME x \in call, stored'[x] > stored[x] PROVE Stored(x)'
    <3>1. x \in new
      BY <2>5
    <3>2. PICK i \in 1 .. Len(flight) : flight[i] = x
      BY <1>0, <2>5, ToSetContains DEF LogInv, Contains
    <3>3. Contains(InOrder(new), x)
      BY <1>0, <3>1, <3>2, InOrderHolds DEF Contains
    <3>4. QED
      BY <2>2, <2>3, <3>3, ContainsConcat DEF Stored
  <2>6. ASSUME x \in call, stored'[x] > 0, ~(stored'[x] > stored[x]) PROVE Stored(x)'
    <3>1. stored[x] > 0
      <4>1. stored[x] \in Nat /\ stored'[x] \in Nat
        BY <1>0
      <4>2. QED
        BY <2>6, <4>1
    <3>2. QED
      BY <2>4, <2>6, <3>1 DEF LogInv
  <2>7. QED
    BY <2>4, <2>5, <2>6
<1>4. QED
  BY <1>1, <1>2, <1>3, CallSteps

(* The call's copies are counted as they are appended to the logs. *)
LEMMA LogInvKept ==
  ASSUME RetryInv, LogInv, [PipelineNext]_vars
  PROVE  LogInv'
<1>0. /\ call \subseteq Batches /\ stored \in [Batches -> Nat]
      /\ \A x \in Batches : Stored(x) => Stored(x)'
  BY LogGrows DEF RetryInv, TypeOK
<1>1. CASE Accept \/ RefreshByOther \/ (\E b \in Buckets : Elect(b) \/ Recover(b))
           \/ UNCHANGED vars
  <2>1. UNCHANGED <<call, flight, stored>>
    BY <1>1 DEF Accept, RefreshByOther, Elect, Recover, vars, writerVars, retryVars
  <2>2. QED
    BY <1>0, <2>1 DEF LogInv
<1>2. CASE BeginFlush
  <2>1. call' = ToSet(flight') /\ stored' = NothingStored
    BY <1>2 DEF BeginFlush, StartCall
  <2>2. call' \subseteq Batches
    BY RetryInvKept DEF RetryInv, TypeOK
  <2>3. \A x \in call' : ~(stored'[x] > 0)
    BY <2>1, <2>2 DEF NothingStored
  <2>4. QED
    BY <2>1, <2>3 DEF LogInv
<1>3. CASE EndFlush
  <2>1. call' = {} /\ flight' = <<>>
    BY <1>3 DEF EndFlush
  <2>2. ToSet(<<>>) = {}
    BY DEF ToSet
  <2>3. QED
    BY <2>1, <2>2 DEF LogInv
<1>4. CASE CallStep
  <2>1. call' = call /\ flight' = flight
    BY <1>4, CallSteps DEF writerVars
  <2>2. QED
    BY <1>4, <2>1, LogGrows DEF LogInv
<1>5. QED
  BY <1>1, <1>2, <1>3, <1>4 DEF PipelineNext

(* Each step keeps NothingElseLost: a batch that leaves the buffer is in   *)
(* the call, and one that leaves the call is stored, put back or hidden.   *)
LEMMA NothingElseLostKept ==
  ASSUME RetryInv, Disturbances, LogInv, NothingElseLost, [PipelineNext]_vars
  PROVE  NothingElseLost'
<1>0. /\ buffer \in Seq(Batches) /\ flight \in Seq(Batches) /\ accepted \in Nat
      /\ call \subseteq Batches /\ PipelineAssumption
  BY PipelineAssumption DEF RetryInv, TypeOK, PipelineTypes
<1>1. SUFFICES ASSUME NEW x \in 1 .. accepted'
      PROVE  (Contains(buffer, x) \/ x \in call \/ Stored(x) \/ x \in hidden)'
  BY DEF NothingElseLost
<1>2. CASE Accept
  <2>1. /\ accepted' = accepted + 1 /\ accepted + 1 \in Batches
        /\ buffer' = Append(buffer, accepted + 1)
        /\ UNCHANGED <<call, log, hidden>>
    BY <1>2 DEF Accept, retryVars
  <2>2. x \in 1 .. accepted \/ x = accepted + 1
    BY <1>0, <2>1
  <2>3. Contains(buffer, x) \/ x = accepted + 1 => Contains(buffer', x)
    BY <1>0, <2>1, ContainsAppend
  <2>4. QED
    BY <2>1, <2>2, <2>3 DEF NothingElseLost, Stored
<1>3. ASSUME accepted' = accepted
      PROVE  Contains(buffer, x) \/ x \in call \/ Stored(x) \/ x \in hidden
  BY <1>1, <1>3 DEF NothingElseLost
<1>4. CASE BeginFlush
  <2>1. /\ call = {} /\ call' = ToSet(buffer) /\ UNCHANGED <<accepted, log, hidden>>
    BY <1>4 DEF BeginFlush, StartCall
  <2>2. Contains(buffer, x) => x \in call'
    BY <1>0, <2>1, ToSetContains
  <2>3. QED
    BY <1>3, <2>1, <2>2 DEF Stored
<1>5. CASE EndFlush
  <2>1. step = "return" /\ UNCHANGED <<accepted, log>>
    BY <1>5 DEF EndFlush
  <2>2. CASE returned.error = "nil"
    <3>1. /\ UNCHANGED buffer
          /\ hidden' = IF disturbed
                       THEN hidden \cup {y \in pending : out[y] = "leaderless"}
                       ELSE hidden
      BY <1>5, <2>2 DEF EndFlush
    <3>2. ASSUME x \in call PROVE Stored(x) \/ x \in hidden'
      <4>1. stored[x] > 0 \/ (x \in pending /\ out[x] = "leaderless")
        BY <2>2, <3>2 DEF RetryInv, RefusalsReported
      <4>2. stored[x] > 0 => Stored(x)
        BY <3>2 DEF LogInv
      <4>3. x \in pending /\ out[x] = "leaderless" => disturbed
        BY <2>1, <2>2 DEF Disturbances
      <4>4. QED
        BY <3>1, <4>1, <4>2, <4>3
    <3>3. QED
      BY <1>3, <2>1, <3>1, <3>2 DEF Stored
  <2>3. CASE returned.error # "nil"
    <3>1. buffer' = flight \o buffer /\ UNCHANGED hidden
      BY <1>5, <2>3 DEF EndFlush, Restore
    <3>2. x \in call => Contains(flight, x)
      BY <1>0, ToSetContains DEF LogInv
    <3>3. Contains(buffer, x) \/ Contains(flight, x) => Contains(buffer', x)
      BY <1>0, <3>1, ContainsConcat
    <3>4. QED
      BY <1>3, <2>1, <3>1, <3>2, <3>3 DEF Stored
  <2>4. QED
    BY <2>2, <2>3
<1>6. CASE CallStep
  <2>1. UNCHANGED <<buffer, accepted, hidden, call>>
    BY <1>6, CallSteps DEF writerVars
  <2>2. x \in Batches /\ Stored(x) => Stored(x)'
    BY LogGrows
  <2>3. x \in call \/ Contains(buffer, x) \/ x \in hidden \/ Stored(x)
    BY <1>3, <2>1
  <2>4. x \in Batches
    BY <1>1, <2>1 DEF RetryInv, PipelineTypes
  <2>5. QED
    BY <2>1, <2>2, <2>3, <2>4
<1>7. CASE RefreshByOther \/ (\E b \in Buckets : Elect(b) \/ Recover(b)) \/ UNCHANGED vars
  <2>1. UNCHANGED <<buffer, accepted, hidden, call, log>>
    BY <1>7 DEF RefreshByOther, Elect, Recover, vars, writerVars, retryVars
  <2>2. QED
    BY <1>3, <2>1 DEF Stored
<1>8. QED
  BY <1>2, <1>4, <1>5, <1>6, <1>7 DEF PipelineNext

PipelineInv == RetryInv /\ Disturbances /\ LogInv /\ NothingElseLost

(* client/writer.go, flushPending and restorePending above AppendLog and   *)
(* UpsertKV: no accepted batch is lost but those whose last answer, that   *)
(* there is no leader, was returned as success.                            *)
THEOREM SpecNothingElseLost == Spec => []NothingElseLost
<1>1. PipelineInit => PipelineInv
  <2> SUFFICES ASSUME PipelineInit PROVE LogInv /\ NothingElseLost
    BY InitRetryInv, InitDisturbances DEF PipelineInv
  <2>2. LogInv
    <3>1. ToSet(<<>>) = {}
      BY DEF ToSet
    <3>2. QED
      BY <3>1 DEF PipelineInit, Init, LogInv
  <2>3. NothingElseLost
    <3>1. accepted = 0 /\ 1 .. 0 = {}
      BY DEF PipelineInit
    <3>2. QED
      BY <3>1 DEF NothingElseLost
  <2>4. QED
    BY <2>2, <2>3
<1>2. PipelineInv /\ [PipelineNext]_vars => PipelineInv'
  BY RetryInvKept, DisturbancesKept, LogInvKept, NothingElseLostKept DEF PipelineInv
<1>3. PipelineInv => NothingElseLost
  BY DEF PipelineInv
<1>4. QED
  BY <1>1, <1>2, <1>3, PTL DEF Spec

-------------------------------------------------------------------------------
(* How often a batch is in a log *)

Places(s, x) == {i \in 1 .. Len(s) : s[i] = x}

(* That is a number. *)
LEMMA PlacesFinite ==
  ASSUME NEW s \in Seq(Batches), NEW x
  PROVE  IsFiniteSet(Places(s, x)) /\ Cardinality(Places(s, x)) \in Nat
<1>1. 1 \in Int /\ Len(s) \in Int
  OBVIOUS
<1>2. IsFiniteSet(1 .. Len(s))
  BY <1>1, FS_Interval
<1>3. Places(s, x) \subseteq 1 .. Len(s)
  BY DEF Places
<1>4. IsFiniteSet(Places(s, x))
  BY <1>2, <1>3, FS_Subset
<1>5. QED
  BY <1>4, FS_CardinalityType

(* What is appended has a batch once or not at all. *)
LEMMA PlacesConcat ==
  ASSUME NEW s \in Seq(Batches), NEW t \in Seq(Batches), NEW x,
         \A i, j \in 1 .. Len(t) : t[i] = x /\ t[j] = x => i = j
  PROVE  /\ Cardinality(Places(s \o t, x)) <= Cardinality(Places(s, x)) + 1
         /\ ~Contains(t, x) => Cardinality(Places(s \o t, x)) = Cardinality(Places(s, x))
<1>1. /\ Len(s) \in Nat /\ Len(t) \in Nat /\ Len(s \o t) = Len(s) + Len(t)
      /\ \A i \in 1 .. Len(s) : (s \o t)[i] = s[i]
      /\ \A i \in 1 .. Len(t) : (s \o t)[Len(s) + i] = t[i]
  OBVIOUS
<1>2. \A i \in 1 .. Len(s \o t) :
        i \in 1 .. Len(s) \/ \E j \in 1 .. Len(t) : i = Len(s) + j
  <2> SUFFICES ASSUME NEW i \in 1 .. Len(s \o t), i \notin 1 .. Len(s)
               PROVE  \E j \in 1 .. Len(t) : i = Len(s) + j
    OBVIOUS
  <2>1. i - Len(s) \in 1 .. Len(t) /\ i = Len(s) + (i - Len(s))
    BY <1>1
  <2>2. QED
    BY <2>1
<1>3. IsFiniteSet(Places(s, x)) /\ Cardinality(Places(s, x)) \in Nat
  BY PlacesFinite
<1>4. \A i \in 1 .. Len(s) : i \in 1 .. Len(s \o t)
  BY <1>1
<1>5. \A j \in 1 .. Len(t) : Len(s) + j \in 1 .. Len(s \o t)
  BY <1>1
<1>6. CASE ~Contains(t, x)
  <2>1. \A j \in 1 .. Len(t) : t[j] # x
    BY <1>6 DEF Contains
  <2>2. Places(s \o t, x) = Places(s, x)
    BY <1>1, <1>2, <1>4, <2>1 DEF Places
  <2>3. QED
    BY <1>3, <2>2
<1>7. CASE Contains(t, x)
  <2>1. PICK j \in 1 .. Len(t) : t[j] = x
    BY <1>7 DEF Contains
  <2>2. Places(s \o t, x) = Places(s, x) \cup {Len(s) + j}
    BY <1>1, <1>2, <1>4, <1>5, <2>1 DEF Places
  <2>3. Cardinality(Places(s \o t, x)) \in
          {Cardinality(Places(s, x)), Cardinality(Places(s, x)) + 1}
    BY <1>3, <2>2, FS_AddElement
  <2>4. QED
    BY <1>3, <1>7, <2>3
<1>8. QED
  BY <1>6, <1>7

(* The numbers go up. *)
Rising(s) == \A i, j \in 1 .. Len(s) : i < j => s[i] < s[j]

(* What rises has nothing twice. *)
LEMMA RisingOnce ==
  ASSUME NEW s \in Seq(Batches), Rising(s)
  PROVE  \A i, j \in 1 .. Len(s) : s[i] = s[j] => i = j
<1>1. SUFFICES ASSUME NEW i \in 1 .. Len(s), NEW j \in 1 .. Len(s), i < j
               PROVE  s[i] # s[j]
  <2>1. \A i, j \in 1 .. Len(s) : i < j \/ j < i \/ i = j
    OBVIOUS
  <2>2. QED
    BY <1>1, <2>1
<1>2. s[i] \in Nat /\ s[j] \in Nat /\ s[i] < s[j]
  <2>1. s[i] \in Batches /\ s[j] \in Batches
    OBVIOUS
  <2>2. QED
    BY <1>1, <2>1, PipelineAssumption DEF Rising
<1>3. QED
  BY <1>2

(* What the call appends is in the order of the flight. *)
LEMMA InOrderRises ==
  ASSUME flight \in Seq(Batches), Rising(flight), NEW batches
  PROVE  /\ InOrder(batches) \in Seq(Batches) /\ Rising(InOrder(batches))
         /\ \A i \in 1 .. Len(InOrder(batches)) : InOrder(batches)[i] \in batches
         /\ \A i, j \in 1 .. Len(InOrder(batches)) :
              InOrder(batches)[i] = InOrder(batches)[j] => i = j
<1> DEFINE L == Len(flight)
           Good(s, n) == /\ s \in Seq(Batches) /\ Rising(s)
                         /\ \A j \in 1 .. Len(s) :
                              s[j] \in batches /\ \E i \in 1 .. n : s[j] = flight[i]
<1>0. L \in Nat /\ \A i \in 1 .. L : flight[i] \in Batches
  OBVIOUS
<1>1. PICK upTo :
        /\ upTo = [n \in 0 .. L |->
                     IF n = 0 THEN <<>>
                     ELSE IF flight[n] \in batches THEN Append(upTo[n - 1], flight[n])
                     ELSE upTo[n - 1]]
        /\ InOrder(batches) = upTo[L]
  BY InOrderIs
<1> DEFINE S == {n \in 0 .. L : Good(upTo[n], n)}
<1>d. \A i, j \in 1 .. L : i < j => flight[i] < flight[j]
  BY DEF Rising
<1> HIDE DEF L
<1>2. 0 \in S
  <2>1. upTo[0] = <<>> /\ 0 \in 0 .. L
    BY <1>0, <1>1
  <2>2. <<>> \in Seq(Batches) /\ \A i \in 1 .. Len(<<>>) : FALSE
    OBVIOUS
  <2>3. Good(upTo[0], 0)
    BY <2>1, <2>2 DEF Rising
  <2>4. QED
    BY <2>1, <2>3
<1>3. ASSUME NEW n \in 0 .. L - 1, n \in S PROVE n + 1 \in S
  <2>1. n + 1 \in 1 .. L /\ n + 1 \in 0 .. L /\ n \in 0 .. L /\ n + 1 # 0 /\ (n + 1) - 1 = n
        /\ \A i \in 1 .. n : i \in 1 .. L /\ i \in 1 .. n + 1 /\ i < n + 1
    BY <1>0
  <2>2. upTo[n + 1] = IF flight[n + 1] \in batches THEN Append(upTo[n], flight[n + 1])
                      ELSE upTo[n]
    BY <1>1, <2>1
  <2> DEFINE s == upTo[n]
             e == flight[n + 1]
             t == upTo[n + 1]
  <2>3. s \in Seq(Batches) /\ e \in Batches /\ Good(s, n)
    BY <1>0, <1>3, <2>1
  <2>4. \A i \in 1 .. n : flight[i] < e
    BY <1>d, <2>1
  <2>5. t = IF e \in batches THEN Append(s, e) ELSE s
    BY <2>2
  <2>6. n + 1 \in 1 .. n + 1 /\ e = flight[n + 1]
    BY <1>0, <2>1
  <2> HIDE DEF s, t, e
  <2>7. CASE e \notin batches
    <3>1. t = s
      BY <2>5, <2>7
    <3>2. Good(t, n + 1)
      BY <2>1, <2>3, <3>1
    <3>3. QED
      BY <2>1, <3>2 DEF t
  <2>8. CASE e \in batches
    <3>1. /\ t \in Seq(Batches) /\ Len(s) \in Nat /\ Len(t) = Len(s) + 1
          /\ \A j \in 1 .. Len(s) : t[j] = s[j]
          /\ t[Len(s) + 1] = e
      BY <2>3, <2>5, <2>8
    <3>2. \A j \in 1 .. Len(s) : t[j] < e
      BY <2>3, <2>4, <3>1
    <3>3. \A j \in 1 .. Len(t) : j \in 1 .. Len(s) \/ j = Len(s) + 1
      BY <3>1
    <3>4. Rising(t)
      <4>1. \A i, j \in 1 .. Len(t) : i < j =>
              i \in 1 .. Len(s) /\ (j \in 1 .. Len(s) \/ j = Len(s) + 1)
        BY <3>1, <3>3
      <4>2. QED
        BY <2>3, <3>1, <3>2, <4>1 DEF Rising
    <3>5. \A j \in 1 .. Len(t) : t[j] \in batches /\ \E i \in 1 .. n + 1 : t[j] = flight[i]
      BY <2>1, <2>3, <2>6, <2>8, <3>1, <3>3
    <3>6. Good(t, n + 1)
      BY <3>1, <3>4, <3>5
    <3>7. QED
      BY <2>1, <3>6 DEF t
  <2>9. QED
    BY <2>7, <2>8
<1> HIDE DEF S
<1>4. L \in S
  <2>1. \A i \in 0 .. L - 1 : i \in S => i + 1 \in S
    BY <1>3
  <2>2. \A i \in 0 .. L : i \in S
    BY <1>0, <1>2, <2>1, UpTo
  <2>3. QED
    BY <1>0, <2>2
<1>5. Good(upTo[L], L)
  BY <1>4 DEF S
<1>6. QED
  BY <1>1, <1>5, RisingOnce

-------------------------------------------------------------------------------
(* What the flight and the buffer have, and which routes a call goes by *)

(* What is reported was accepted before what is in flight, and that before *)
(* what is buffered.                                                       *)
AcceptedInOrder ==
  /\ Rising(flight) /\ Rising(buffer)
  /\ \A i \in 1 .. Len(flight), j \in 1 .. Len(buffer) : flight[i] < buffer[j]
  /\ \A i \in 1 .. Len(buffer) : buffer[i] <= accepted
  /\ \A i \in 1 .. Len(flight) : flight[i] <= accepted
  /\ \A x \in reported :
       /\ x \in Batches /\ x <= accepted
       /\ \A i \in 1 .. Len(flight) : x < flight[i]
       /\ \A i \in 1 .. Len(buffer) : x < buffer[i]

(* The second attempt finds every route in the cache, what has an address  *)
(* got it from a route, and there is no answer before all have an address. *)
RoutesInv ==
  /\ call # {} /\ attempt = 1 => \A b \in Buckets : routes[b] # None
  /\ call # {} /\ step \in {"route", "send"} =>
       \A s \in Servers : \A x \in grouped[s] : routes[BucketOf[x]] # None
  /\ step = "route" => \A x \in pending : out[x] = "none"

(* One sequence that rises and goes on above another. *)
LEMMA RisingConcat ==
  ASSUME NEW s \in Seq(Batches), NEW t \in Seq(Batches), Rising(s), Rising(t),
         \A i \in 1 .. Len(s), j \in 1 .. Len(t) : s[i] < t[j]
  PROVE  /\ Rising(s \o t)
         /\ \A i \in 1 .. Len(s \o t) :
              \/ \E j \in 1 .. Len(s) : (s \o t)[i] = s[j]
              \/ \E j \in 1 .. Len(t) : (s \o t)[i] = t[j]
<1> DEFINE u == s \o t
<1>1. /\ Len(s) \in Nat /\ Len(t) \in Nat /\ Len(u) = Len(s) + Len(t)
      /\ \A i \in 1 .. Len(s) : u[i] = s[i]
      /\ \A i \in 1 .. Len(t) : u[Len(s) + i] = t[i]
  OBVIOUS
<1> HIDE DEF u
<1>2. \A i \in 1 .. Len(u) : i \notin 1 .. Len(s) =>
        i - Len(s) \in 1 .. Len(t) /\ i \in Int /\ u[i] = t[i - Len(s)] /\ Len(s) < i
  <2> SUFFICES ASSUME NEW i \in 1 .. Len(u), i \notin 1 .. Len(s)
               PROVE  i - Len(s) \in 1 .. Len(t) /\ i \in Int /\ u[i] = t[i - Len(s)]
                      /\ Len(s) < i
    OBVIOUS
  <2>1. i - Len(s) \in 1 .. Len(t) /\ i = Len(s) + (i - Len(s)) /\ i \in Int /\ Len(s) < i
    BY <1>1
  <2>2. u[Len(s) + (i - Len(s))] = t[i - Len(s)]
    BY <1>1, <2>1
  <2>3. QED
    BY <2>1, <2>2
<1>3. ASSUME NEW i \in 1 .. Len(u), NEW j \in 1 .. Len(u), i < j PROVE u[i] < u[j]
  <2>1. CASE i \in 1 .. Len(s) /\ j \in 1 .. Len(s)
    BY <1>1, <1>3, <2>1 DEF Rising
  <2>2. CASE i \notin 1 .. Len(s) /\ j \notin 1 .. Len(s)
    <3>1. i - Len(s) < j - Len(s)
      BY <1>1, <1>2, <1>3, <2>2
    <3>2. QED
      BY <1>2, <2>2, <3>1 DEF Rising
  <2>3. CASE i \in 1 .. Len(s) /\ j \notin 1 .. Len(s)
    BY <1>1, <1>2, <2>3
  <2>4. CASE i \notin 1 .. Len(s) /\ j \in 1 .. Len(s)
    BY <1>1, <1>2, <1>3, <2>4
  <2>5. QED
    BY <2>1, <2>2, <2>3, <2>4
<1>4. \A i \in 1 .. Len(u) :
        \/ \E j \in 1 .. Len(s) : u[i] = s[j]
        \/ \E j \in 1 .. Len(t) : u[i] = t[j]
  BY <1>1, <1>2
<1>5. QED
  BY <1>3, <1>4 DEF u, Rising

(* There is nothing to order before the first batch. *)
LEMMA InitOrder == PipelineInit => LogInv /\ AcceptedInOrder
<1> SUFFICES ASSUME PipelineInit PROVE LogInv /\ AcceptedInOrder
  OBVIOUS
<1>1. buffer = <<>> /\ flight = <<>> /\ reported = {} /\ call = {}
  BY DEF PipelineInit, Init
<1>2. ToSet(<<>>) = {} /\ \A i \in 1 .. Len(<<>>) : FALSE
  BY DEF ToSet
<1>3. QED
  BY <1>1, <1>2 DEF LogInv, AcceptedInOrder, Rising

(* Each step keeps the order. *)
LEMMA OrderKept ==
  ASSUME PipelineTypes, LogInv, AcceptedInOrder, [PipelineNext]_vars
  PROVE  AcceptedInOrder'
<1> USE DEF AcceptedInOrder
<1>0. /\ buffer \in Seq(Batches) /\ flight \in Seq(Batches) /\ accepted \in Nat
      /\ Len(buffer) \in Nat /\ Len(flight) \in Nat
      /\ \A i \in 1 .. Len(<<>>) : FALSE
      /\ \A i \in 1 .. Len(buffer) : buffer[i] \in Nat
      /\ \A i \in 1 .. Len(flight) : flight[i] \in Nat
  <2>1. buffer \in Seq(Batches) /\ flight \in Seq(Batches) /\ accepted \in Nat
    BY DEF PipelineTypes
  <2>2. \A s \in Seq(Batches) : Len(s) \in Nat /\ \A i \in 1 .. Len(s) : s[i] \in Batches
    OBVIOUS
  <2>3. \A i \in 1 .. Len(<<>>) : FALSE
    OBVIOUS
  <2>4. Batches \subseteq Nat
    BY PipelineAssumption
  <2> HIDE DEF AcceptedInOrder
  <2>5. QED
    BY <2>1, <2>2, <2>3, <2>4
<1>1. CASE Accept
  <2> DEFINE n == accepted + 1
  <2>1. /\ buffer' = Append(buffer, n) /\ accepted' = n /\ n \in Batches
        /\ flight' = flight /\ reported' = reported
    BY <1>1 DEF Accept
  <2>2. /\ Len(buffer') = Len(buffer) + 1 /\ buffer'[Len(buffer) + 1] = n
        /\ \A i \in 1 .. Len(buffer) : buffer'[i] = buffer[i]
    BY <1>0, <2>1
  <2>3. \A i \in 1 .. Len(buffer') : i \in 1 .. Len(buffer) \/ i = Len(buffer) + 1
    BY <1>0, <2>2
  <2>4. \A m \in Nat : m <= accepted => m < n /\ m <= n
    BY <1>0
  <2>5. n <= n
    BY <1>0
  <2> HIDE DEF n
  <2>6. /\ \A i \in 1 .. Len(buffer) : buffer[i] < n /\ buffer[i] <= n
        /\ \A i \in 1 .. Len(flight) : flight[i] < n /\ flight[i] <= n
        /\ \A x \in reported : x < n /\ x <= n
    BY <1>0, <2>4, PipelineAssumption
  <2>7. Rising(buffer')
    <3>1. \A i, j \in 1 .. Len(buffer') : i < j =>
            i \in 1 .. Len(buffer) /\ (j \in 1 .. Len(buffer) \/ j = Len(buffer) + 1)
      BY <1>0, <2>2, <2>3
    <3>2. QED
      BY <2>2, <2>6, <3>1 DEF Rising
  <2>8. \A i \in 1 .. Len(buffer') : buffer'[i] <= n
    BY <2>2, <2>3, <2>5, <2>6
  <2>9. /\ \A i \in 1 .. Len(flight), j \in 1 .. Len(buffer') : flight[i] < buffer'[j]
        /\ \A x \in reported : \A i \in 1 .. Len(buffer') : x < buffer'[i]
    BY <2>2, <2>3, <2>6
  <2>10. QED
    BY <2>1, <2>5, <2>6, <2>7, <2>8, <2>9
<1>2. CASE BeginFlush
  <2>1. flight' = buffer /\ buffer' = <<>> /\ accepted' = accepted /\ reported' = reported
    BY <1>2 DEF BeginFlush
  <2>2. QED
    BY <1>0, <2>1 DEF Rising
<1>3. CASE EndFlush
  <2>1. flight' = <<>> /\ accepted' = accepted
    BY <1>3 DEF EndFlush
  <2>2. CASE buffer' = buffer /\ reported' = reported \cup call
    <3>1. ASSUME NEW x \in call
          PROVE  /\ x \in Batches /\ x <= accepted
                 /\ \A i \in 1 .. Len(buffer) : x < buffer[i]
      <4>1. PICK k \in 1 .. Len(flight) : flight[k] = x
        BY <1>0, <3>1, ToSetContains DEF LogInv, Contains
      <4>2. flight[k] \in Batches
        BY <1>0, <4>1
      <4>3. QED
        BY <1>0, <4>1, <4>2
    <3>2. QED
      BY <1>0, <2>1, <2>2, <3>1 DEF Rising
  <2>3. CASE buffer' = flight \o buffer /\ reported' = reported
    <3>1. /\ Rising(buffer')
          /\ \A i \in 1 .. Len(buffer') :
               \/ \E j \in 1 .. Len(flight) : buffer'[i] = flight[j]
               \/ \E j \in 1 .. Len(buffer) : buffer'[i] = buffer[j]
      <4>1. \A i \in 1 .. Len(flight), j \in 1 .. Len(buffer) : flight[i] < buffer[j]
        OBVIOUS
      <4>2. flight \in Seq(Batches) /\ buffer \in Seq(Batches) /\ Rising(flight) /\ Rising(buffer)
        BY <1>0
      <4>3. /\ Rising(flight \o buffer)
            /\ \A i \in 1 .. Len(flight \o buffer) :
                 \/ \E j \in 1 .. Len(flight) : (flight \o buffer)[i] = flight[j]
                 \/ \E j \in 1 .. Len(buffer) : (flight \o buffer)[i] = buffer[j]
        BY <4>1, <4>2, RisingConcat
      <4>4. QED
        BY <2>3, <4>3
    <3>2. /\ \A i \in 1 .. Len(buffer') : buffer'[i] <= accepted
          /\ \A x \in reported : \A i \in 1 .. Len(buffer') : x < buffer'[i]
      BY <3>1
    <3>3. QED
      BY <1>0, <2>1, <2>3, <3>1, <3>2 DEF Rising
  <2>4. QED
    BY <1>3, <2>2, <2>3 DEF EndFlush, Restore
<1>4. CASE CallStep
  BY <1>4, CallSteps DEF writerVars
<1>5. CASE RefreshByOther \/ (\E b \in Buckets : Elect(b) \/ Recover(b)) \/ UNCHANGED vars
  BY <1>5 DEF RefreshByOther, Elect, Recover, vars, writerVars
<1>6. QED
  BY <1>1, <1>2, <1>3, <1>4, <1>5 DEF PipelineNext

(* What a step of the call changes of its attempt. *)
LEMMA CallRoutes ==
  ASSUME TypeOK, CallStep
  PROVE  /\ step' = "route" =>
              out' = Unanswered \/ (step = "route" /\ UNCHANGED <<pending, out>>)
         /\ attempt' = 1 => attempt = 1 \/ (AllLed /\ routes' = leader)
         /\ step' \in {"route", "send"} =>
              \A t \in Servers : \A y \in grouped'[t] :
                 \/ y \in grouped[t] /\ step \in {"route", "send"}
                 \/ AllLed /\ routes' = leader
                 \/ y \in Batches /\ routes' = routes /\ routes[BucketOf[y]] # None
<1>1. CASE NoInfo
  BY <1>1 DEF NoInfo, NoTableInfo, Abandon
<1>2. CASE Decide
  BY <1>2 DEF Decide, Succeed, ReturnError, RetryAll, ReturnTerminal, RetryLeaderless,
              Return, NextAttempt, Refreshed
<1>3. CASE AttemptEnds /\ UNCHANGED <<log, routes, faultVars, torn>>
  BY <1>3 DEF AttemptEnds
<1>4. ASSUME NEW x \in Batches, Route(x)
      PROVE  /\ step' = "route" => step = "route" /\ UNCHANGED <<pending, out>>
             /\ attempt' = attempt
             /\ step' \in {"route", "send"} =>
                  \A t \in Servers : \A y \in grouped'[t] :
                     \/ y \in grouped[t] /\ step \in {"route", "send"}
                     \/ AllLed /\ routes' = leader
                     \/ y \in Batches /\ routes' = routes /\ routes[BucketOf[y]] # None
  <2>1. CASE RouteMissing(x)
    BY <2>1 DEF RouteMissing, Abandon
  <2>2. CASE Refreshed /\ \E s : RouteFound(x, s)
    BY <2>2 DEF Refreshed, RouteFound
  <2>3. ASSUME NEW s, RouteFound(x, s), routes' = routes, routes[BucketOf[x]] # None
        PROVE  /\ step' = "route" => step = "route" /\ UNCHANGED <<pending, out>>
               /\ attempt' = attempt
               /\ \A t \in Servers : \A y \in grouped'[t] :
                     \/ y \in grouped[t] /\ step \in {"route", "send"}
                     \/ y \in Batches /\ routes' = routes /\ routes[BucketOf[y]] # None
    <3>1. /\ step = "route" /\ UNCHANGED <<attempt, pending, out>>
          /\ grouped' = [grouped EXCEPT ![s] = @ \cup {x}]
      BY <2>3 DEF RouteFound
    <3>2. \A t \in Servers : \A y \in grouped'[t] : y \in grouped[t] \/ y = x
      BY <3>1 DEF TypeOK
    <3>3. QED
      BY <2>3, <3>1, <3>2
  <2>4. QED
    BY <1>4, <2>1, <2>2, <2>3 DEF Route
<1>5. ASSUME NEW s \in Servers, ServerAnswers(s) \/ ServerFails(s)
      PROVE  /\ step' # "route" /\ attempt' = attempt
             /\ step' \in {"route", "send"} =>
                  \A t \in Servers : \A y \in grouped'[t] :
                     y \in grouped[t] /\ step \in {"route", "send"}
  <2>1. CASE ServerAnswers(s)
    <3>1. /\ step = "send" /\ UNCHANGED <<step, attempt>>
          /\ grouped' = [grouped EXCEPT ![s] = {}]
      BY <2>1 DEF ServerAnswers, Answered
    <3>2. QED
      BY <3>1 DEF TypeOK
  <2>2. CASE ServerFails(s)
    BY <2>2 DEF ServerFails, RequestFails, Abandon
  <2>3. QED
    BY <1>5, <2>1, <2>2
<1>6. QED
  BY <1>1, <1>2, <1>3, <1>4, <1>5 DEF CallStep

(* Each step keeps which routes a call goes by. *)
LEMMA RoutesInvKept ==
  ASSUME RetryInv, RoutesInv, [PipelineNext]_vars
  PROVE  RoutesInv'
<1> USE DEF RoutesInv
<1>0. /\ TypeOK /\ TypeOK' /\ PipelineTypes
      /\ \A x \in Batches : BucketOf[x] \in Buckets
      /\ \A t \in Servers : Nowhere[t] = {}
  BY RetryInvKept, BucketOfType DEF RetryInv, Nowhere
<1>1. CASE Accept \/ (\E b \in Buckets : Elect(b) \/ Recover(b)) \/ UNCHANGED vars
  BY <1>1 DEF Accept, Elect, Recover, vars, retryVars, attemptVars
<1>2. ASSUME AllLed, routes' = leader,
             step' = "route" => \A x \in pending' : out'[x] = "none"
      PROVE  RoutesInv'
  <2>1. \A b \in Buckets : routes'[b] # None
    BY <1>2 DEF AllLed
  <2>2. \A s \in Servers : \A x \in grouped'[s] : BucketOf[x] \in Buckets
    BY <1>0 DEF TypeOK
  <2>3. QED
    BY <1>2, <2>1, <2>2
<1>3. CASE RefreshByOther
  BY <1>2, <1>3 DEF RefreshByOther, retryVars, attemptVars
<1>4. \A x \in pending' : Unanswered[x] = "none"
  BY <1>0 DEF TypeOK, Unanswered
<1>5. CASE BeginFlush
  BY <1>0, <1>4, <1>5 DEF BeginFlush, StartCall
<1>6. CASE EndFlush
  BY <1>6 DEF EndFlush
<1>7. CASE CallStep
  <2>1. call' = call /\ (routes' = routes \/ (AllLed /\ routes' = leader))
    BY <1>7, CallSteps
  <2>2. step' = "route" => \A x \in pending' : out'[x] = "none"
    BY <1>0, <1>4, <1>7, CallRoutes
  <2>3. CASE routes' = routes /\ ~(AllLed /\ routes' = leader)
    BY <1>0, <1>7, <2>1, <2>2, <2>3, CallRoutes
  <2>4. QED
    BY <1>2, <2>1, <2>2, <2>3
<1>8. QED
  BY <1>1, <1>3, <1>5, <1>6, <1>7 DEF PipelineNext

-------------------------------------------------------------------------------
(* What may still be stored *)

One(p) == IF p THEN 1 ELSE 0

(* The batches of the attempt that share the bucket of x, and x itself. *)
Mates(x) == {y \in pending : BucketOf[y] = BucketOf[x]}

(* A cached route that a refresh would replace. *)
Stale(b) == routes[b] # None /\ routes[b] # leader[b]

(* The bucket of x may get two different answers in this attempt, *)
Split(x) ==
  \E y \in Mates(x) :
    out[y] # "none" \/ \E s \in Servers : y \in grouped[s] /\ s # routes[BucketOf[x]]

(* or one of its batches may yet find no leader. *)
Torn(x) == \E y \in Mates(x) : Waiting(y) \/ out[y] = "leaderless"

(* The call will return an error. *)
Doomed == \E y \in pending : out[y] = "refused"

(* How often this call may still store x if nothing fails. *)
Due(x) ==
  IF attempt = 1 THEN One(Waiting(x))
  ELSE IF Waiting(x) THEN 1 + One(Shared(x) /\ Split(x))
  ELSE IF out[x] = "leaderless" THEN 1
  ELSE One(Shared(x) /\ Torn(x))

(* And how often this call and the flush after it if it fails. *)
Need(x) ==
  IF x \notin call THEN One(x > accepted \/ Contains(buffer, x))
  ELSE IF step = "return" THEN One(returned.error # "nil")
  ELSE IF step = "decide" /\ err \in {"route", "other"} THEN 1
  ELSE Due(x) + One(Doomed)

(* A stale route that x shares with other batches may split them. *)
Owed(x) == One(Shared(x) /\ Stale(BucketOf[x]))

Elected(x) == IF Shared(x) THEN elections ELSE 0

CopiesInv ==
  \A x \in Batches : Copies(x) + Need(x) + Owed(x) <= 1 + failures + Elected(x)

Counted ==
  \A x \in Batches :
    /\ Copies(x) \in Nat /\ Need(x) \in Nat /\ Owed(x) \in {0, 1} /\ Due(x) \in Nat
    /\ failures \in Nat /\ Elected(x) \in Nat

(* All of these are numbers, *)
LEMMA Numbers == PipelineTypes => Counted
<1> SUFFICES ASSUME PipelineTypes, NEW x \in Batches
             PROVE  /\ Copies(x) \in Nat /\ Need(x) \in Nat /\ Owed(x) \in {0, 1}
                    /\ Due(x) \in Nat /\ failures \in Nat /\ Elected(x) \in Nat
  BY DEF Counted
<1>1. \A p : One(p) \in {0, 1}
  BY DEF One
<1>2. Due(x) \in Nat
  BY <1>1 DEF Due
<1>3. Need(x) \in Nat
  BY <1>1, <1>2 DEF Need
<1>4. Copies(x) \in Nat
  <2>1. log[BucketOf[x]] \in Seq(Batches)
    BY BucketOfType DEF PipelineTypes
  <2>2. Copies(x) = Cardinality(Places(log[BucketOf[x]], x))
    <3>1. \A s \in Seq(Batches) : DOMAIN s = 1 .. Len(s)
      OBVIOUS
    <3>2. {i \in DOMAIN log[BucketOf[x]] : log[BucketOf[x]][i] = x}
            = Places(log[BucketOf[x]], x)
      BY <2>1, <3>1 DEF Places
    <3>3. QED
      BY <3>2 DEF Copies
  <2>3. QED
    BY <2>1, <2>2, PlacesFinite
<1>5. failures \in Nat /\ Elected(x) \in Nat
  BY DEF PipelineTypes, Elected
<1>6. QED
  BY <1>1, <1>2, <1>3, <1>4, <1>5 DEF Owed

(* and so they are after a step. *)
LEMMA NumbersNext == PipelineTypes' => Counted'
BY Numbers, PTL

(* What the call stores is one copy at most in the log. *)
LEMMA CopiesAppended ==
  ASSUME PipelineTypes, AcceptedInOrder, Appended, NEW x \in Batches
  PROVE  /\ Copies(x)' <= Copies(x) + 1 /\ Copies(x)' \in Nat
         /\ ~(stored'[x] > stored[x]) => Copies(x)' = Copies(x)
<1> DEFINE b == BucketOf[x]
           new == {y \in Batches : BucketOf[y] = b /\ stored'[y] > stored[y]}
<1>1. b \in Buckets /\ log[b] \in Seq(Batches) /\ flight \in Seq(Batches)
  BY BucketOfType DEF PipelineTypes
<1>2. log'[b] = log[b] \o InOrder(new)
  BY <1>1 DEF Appended
<1> HIDE DEF new
<1>3. /\ InOrder(new) \in Seq(Batches)
      /\ \A i, j \in 1 .. Len(InOrder(new)) : InOrder(new)[i] = InOrder(new)[j] => i = j
      /\ \A i \in 1 .. Len(InOrder(new)) : InOrder(new)[i] \in new
  BY <1>1, InOrderHolds, InOrderRises DEF AcceptedInOrder
<1>4. /\ Cardinality(Places(log[b] \o InOrder(new), x)) <= Cardinality(Places(log[b], x)) + 1
      /\ ~Contains(InOrder(new), x) =>
           Cardinality(Places(log[b] \o InOrder(new), x)) = Cardinality(Places(log[b], x))
  <2>1. \A i, j \in 1 .. Len(InOrder(new)) :
          InOrder(new)[i] = x /\ InOrder(new)[j] = x => i = j
    BY <1>3
  <2> DEFINE t == InOrder(new)
             s == log[b]
  <2>2. s \in Seq(Batches) /\ t \in Seq(Batches)
        /\ \A i, j \in 1 .. Len(t) : t[i] = x /\ t[j] = x => i = j
    BY <1>1, <1>3, <2>1
  <2> HIDE DEF s, t
  <2>3. /\ Cardinality(Places(s \o t, x)) <= Cardinality(Places(s, x)) + 1
        /\ ~Contains(t, x) => Cardinality(Places(s \o t, x)) = Cardinality(Places(s, x))
    BY <2>2, PlacesConcat
  <2>4. QED
    BY <2>3 DEF s, t
<1>5. ~(stored'[x] > stored[x]) => ~Contains(InOrder(new), x)
  BY <1>3 DEF Contains, new
<1>6. /\ Copies(x) = Cardinality(Places(log[b], x))
      /\ Copies(x)' = Cardinality(Places(log[b] \o InOrder(new), x))
  <2>1. log[b] \o InOrder(new) \in Seq(Batches)
    BY <1>1, <1>3, ConcatProperties
  <2>2. \A s \in Seq(Batches) : DOMAIN s = 1 .. Len(s)
    OBVIOUS
  <2>3. /\ {i \in DOMAIN log[b] : log[b][i] = x} = Places(log[b], x)
        /\ {i \in DOMAIN log'[b] : log'[b][i] = x} = Places(log[b] \o InOrder(new), x)
    BY <1>1, <1>2, <2>1, <2>2 DEF Places
  <2>4. QED
    BY <2>3 DEF Copies
<1>7. Copies(x)' \in Nat
  <2>1. log[b] \o InOrder(new) \in Seq(Batches)
    BY <1>1, <1>3, ConcatProperties
  <2>2. QED
    BY <1>6, <2>1, PlacesFinite
<1>8. QED
  BY <1>4, <1>5, <1>6, <1>7

(* A refresh makes no route stale. *)
LEMMA OwedKept ==
  ASSUME leader' = leader, routes' = routes \/ routes' = leader, NEW x \in Batches
  PROVE  /\ Owed(x)' <= Owed(x)
         /\ routes' = routes => Owed(x)' = Owed(x)
         /\ routes' = leader => Owed(x)' = 0
<1> DEFINE b == BucketOf[x]
<1>1. Owed(x) \in {0, 1} /\ Owed(x)' \in {0, 1}
  BY DEF Owed, One
<1>2. Shared(x)' <=> Shared(x)
  BY DEF Shared
<1>3. ASSUME routes' = leader PROVE Owed(x)' = 0
  <2>1. ~Stale(b)'
    BY <1>3 DEF Stale
  <2>2. QED
    BY <2>1 DEF Owed, One
<1>4. ASSUME routes' = routes PROVE Owed(x)' = Owed(x)
  <2>1. Stale(b)' <=> Stale(b)
    BY <1>4 DEF Stale
  <2>2. QED
    BY <2>1, <1>2 DEF Owed, One
<1>5. QED
  BY <1>1, <1>3, <1>4

(* The budget of a batch that is spent by a step. *)
Spends(x) ==
  Copies(x)' + Need(x)' + Owed(x)' + failures + Elected(x)
    <= Copies(x) + Need(x) + Owed(x) + failures' + Elected(x)'

(* A refresh, and the routes found after it, split a bucket only if its    *)
(* cached route was stale.                                                 *)
LEMMA Regrouped ==
  ASSUME TypeOK, RoutesInv, call # {}, step \in {"route", "send"},
         pending' = pending, out' = out, leader' = leader,
         routes' = routes \/ routes' = leader,
         \A t \in Servers : \A y \in grouped'[t] :
           y \in grouped[t] \/ t = routes'[BucketOf[y]],
         NEW x \in Batches, Split(x)'
  PROVE  Split(x) \/ (routes' = leader /\ Stale(BucketOf[x]))
<1> DEFINE b == BucketOf[x]
<1>1. PICK y \in Mates(x)' :
        out'[y] # "none" \/ \E s \in Servers : y \in grouped'[s] /\ s # routes'[b]
  BY DEF Split
<1>2. y \in Mates(x) /\ BucketOf[y] = b
  BY <1>1 DEF Mates
<1>3. CASE out'[y] # "none"
  BY <1>2, <1>3 DEF Split
<1>4. ASSUME NEW s \in Servers, y \in grouped'[s], s # routes'[b]
      PROVE  Split(x) \/ (routes' = leader /\ Stale(b))
  <2>1. y \in grouped[s]
    BY <1>2, <1>4
  <2>2. routes[b] # None
    BY <1>2, <2>1 DEF RoutesInv
  <2>3. s # routes[b] => Split(x)
    BY <1>2, <2>1 DEF Split
  <2>4. s = routes[b] => routes' = leader /\ Stale(b)
    BY <1>4, <2>2 DEF Stale
  <2>5. QED
    BY <2>3, <2>4
<1>5. QED
  BY <1>1, <1>3, <1>4

(* What is due grows by no more than the split of the bucket. *)
LEMMA DueSplit ==
  ASSUME NEW x \in Batches, UNCHANGED <<attempt, pending, out>>,
         \A y \in Batches : Waiting(y)' <=> Waiting(y), pending \subseteq Batches,
         leader' = leader, routes' = routes \/ routes' = leader,
         Split(x)' => Split(x) \/ (routes' = leader /\ Stale(BucketOf[x]))
  PROVE  Due(x)' + Owed(x)' <= Due(x) + Owed(x) /\ (Doomed' <=> Doomed)
<1>1. Waiting(x)' <=> Waiting(x)
  OBVIOUS
<1>2. Torn(x)' <=> Torn(x)
  BY DEF Torn, Mates
<1>3. Doomed' <=> Doomed
  BY DEF Doomed
<1>4. Shared(x)' <=> Shared(x)
  BY DEF Shared
<1>5. /\ Owed(x)' <= Owed(x) /\ Owed(x) \in {0, 1} /\ Owed(x)' \in {0, 1}
      /\ routes' = routes => Owed(x)' = Owed(x)
      /\ routes' = leader => Owed(x)' = 0
  BY OwedKept DEF Owed, One
<1>6. Shared(x) /\ Stale(BucketOf[x]) => Owed(x) = 1
  BY DEF Owed, One
<1> DEFINE d == One(Shared(x) /\ Split(x))
           e == One(Shared(x)' /\ Split(x)')
<1>7. d \in {0, 1} /\ e \in {0, 1} /\ e + Owed(x)' <= d + Owed(x)
  <2>1. d \in {0, 1} /\ e \in {0, 1}
    BY DEF One
  <2>2. CASE Shared(x) /\ Split(x)
    <3>1. d = 1
      BY <2>2 DEF One
    <3>2. QED
      BY <2>1, <3>1, <1>5
  <2>3. CASE ~(Shared(x) /\ Split(x)) /\ ~(Shared(x)' /\ Split(x)')
    <3>1. d = 0 /\ e = 0
      BY <2>3 DEF One
    <3>2. QED
      BY <3>1, <1>5
  <2>4. CASE ~(Shared(x) /\ Split(x)) /\ Shared(x)' /\ Split(x)'
    <3>1. Owed(x) = 1 /\ Owed(x)' = 0
      BY <2>4, <1>4, <1>5, <1>6
    <3>2. QED
      BY <2>1, <3>1
  <2>5. QED
    BY <2>2, <2>3, <2>4
<1> HIDE DEF d, e
<1>8. CASE attempt = 1
  <2>1. Due(x) = One(Waiting(x)) /\ Due(x)' = One(Waiting(x)')
    BY <1>8 DEF Due
  <2>2. Due(x)' = Due(x) /\ Due(x) \in {0, 1}
    BY <2>1, <1>1 DEF One
  <2>3. QED
    BY <1>3, <1>5, <2>2
<1>9. CASE attempt # 1 /\ Waiting(x)
  <2>1. Due(x) = 1 + d /\ Due(x)' = 1 + e
    BY <1>1, <1>9 DEF Due, d, e
  <2>2. QED
    BY <1>3, <1>5, <1>7, <2>1
<1>10. CASE attempt # 1 /\ ~Waiting(x)
  <2>1. Due(x)' = Due(x) /\ Due(x) \in {0, 1}
    BY <1>1, <1>2, <1>4, <1>10 DEF Due, One
  <2>2. QED
    BY <1>3, <1>5, <2>1
<1>11. QED
  BY <1>8, <1>9, <1>10

(* The writer, the other callers and the cluster: only an election that    *)
(* makes a shared route stale has a price.                                 *)
LEMMA OthersSpend ==
  ASSUME RetryInv, LogInv, AcceptedInOrder, RoutesInv, [PipelineNext]_vars, NEW x \in Batches
  PROVE  Spends(x) \/ CallStep
<1> DEFINE b == BucketOf[x]
<1>0. /\ TypeOK /\ PipelineTypes /\ b \in Buckets /\ accepted \in Nat /\ x \in Nat
      /\ buffer \in Seq(Batches) /\ flight \in Seq(Batches) /\ call \subseteq Batches
      /\ pending \subseteq call
  BY PipelineAssumption, BucketOfType DEF RetryInv, TypeOK, PipelineTypes
<1>n. /\ Copies(x) \in Nat /\ Need(x) \in Nat /\ Owed(x) \in {0, 1} /\ Due(x) \in Nat
      /\ failures \in Nat /\ Elected(x) \in Nat
  BY <1>0, Numbers DEF Counted
<1>s. /\ Copies(x)' \in Nat /\ Need(x)' \in Nat /\ Owed(x)' \in {0, 1} /\ Due(x)' \in Nat
      /\ failures' \in Nat /\ Elected(x)' \in Nat
  <2>1. PipelineTypes'
    BY <1>0, PipelineTypesKept
  <2>2. QED
    BY <2>1, NumbersNext DEF Counted
<1>c. /\ log' = log => Copies(x)' = Copies(x)
      /\ elections' = elections => Elected(x)' = Elected(x)
  BY DEF Copies, Elected, Shared
<1>1. CASE Accept
  <2> DEFINE n == accepted + 1
  <2>1. /\ UNCHANGED <<retryVars, log, failures, elections, leader, routes>>
        /\ buffer' = Append(buffer, n) /\ accepted' = n /\ n \in Batches
    BY <1>1 DEF Accept, clusterVars, faultVars
  <2>2. Owed(x)' = Owed(x)
    BY <2>1, OwedKept
  <2>3. CASE x \in call
    <3>1. Need(x)' = Need(x)
      BY <2>1, <2>3 DEF retryVars, attemptVars, Need, Due, Waiting, Split, Torn, Doomed,
                        Mates, Shared
    <3>2. QED
      BY <1>n, <1>c, <2>1, <2>2, <3>1 DEF Spends
  <2>4. CASE x \notin call
    <3>1. call' = call
      BY <2>1 DEF retryVars
    <3>2. x > n \/ Contains(buffer', x) => x > accepted \/ Contains(buffer, x)
      <4>1. x > n => x > accepted
        BY <1>0
      <4>2. ASSUME Contains(buffer', x) PROVE x > accepted \/ Contains(buffer, x)
        <5>1. PICK i \in 1 .. Len(buffer') : buffer'[i] = x
          BY <4>2 DEF Contains
        <5>2. /\ Len(buffer) \in Nat /\ Len(buffer') = Len(buffer) + 1
              /\ buffer'[Len(buffer) + 1] = n
              /\ \A j \in 1 .. Len(buffer) : buffer'[j] = buffer[j]
          BY <1>0, <2>1
        <5>3. CASE i = Len(buffer) + 1
          BY <1>0, <5>1, <5>2, <5>3
        <5>4. CASE i # Len(buffer) + 1
          <6>1. i \in 1 .. Len(buffer) /\ buffer[i] = x
            BY <5>1, <5>2, <5>4
          <6>2. QED
            BY <6>1 DEF Contains
        <5>5. QED
          BY <5>3, <5>4
      <4>3. QED
        BY <4>1, <4>2
    <3>3. Need(x) = One(x > accepted \/ Contains(buffer, x))
          /\ Need(x)' = One(x > n \/ Contains(buffer', x))
      BY <2>1, <2>4, <3>1 DEF Need
    <3>4. Need(x)' <= Need(x)
      BY <3>2, <3>3 DEF One
    <3>5. QED
      BY <1>n, <1>s, <1>c, <2>1, <2>2, <3>4 DEF Spends
  <2>5. QED
    BY <2>3, <2>4
<1>2. CASE BeginFlush
  <2>1. /\ UNCHANGED <<log, failures, elections, leader, routes, accepted>>
        /\ call = {} /\ call' = ToSet(buffer) /\ buffer' = <<>>
        /\ step' = "route" /\ attempt' = 0 /\ pending' = call' /\ unrouted' = call'
        /\ grouped' = Nowhere /\ out' = Unanswered
    BY <1>2 DEF BeginFlush, StartCall, clusterVars
  <2>2. Owed(x)' = Owed(x)
    BY <2>1, OwedKept
  <2>3. Need(x) = One(x > accepted \/ Contains(buffer, x))
    BY <2>1 DEF Need
  <2>4. x \in call' <=> Contains(buffer, x)
    BY <1>0, <2>1, ToSetContains
  <2>5. CASE x \in call'
    <3>1. Need(x) = 1
      BY <2>3, <2>4, <2>5 DEF One
    <3>2. call' \subseteq Batches
      BY <1>0, <2>1 DEF ToSet
    <3>3. /\ \A y \in pending' : out'[y] = "none"
          /\ \A s \in Servers : grouped'[s] = {}
      BY <2>1, <3>2 DEF Unanswered, Nowhere
    <3>4. Waiting(x)' /\ ~Split(x)' /\ ~Doomed'
      BY <2>1, <2>5, <3>3 DEF Waiting, Split, Mates, Doomed
    <3>5. Need(x)' = 1
      BY <2>1, <2>5, <3>4 DEF Need, Due, One
    <3>6. QED
      BY <1>n, <1>c, <2>1, <2>2, <3>1, <3>5 DEF Spends
  <2>6. CASE x \notin call'
    <3>1. ~Contains(buffer', x)
      BY <2>1 DEF Contains
    <3>2. Need(x)' = One((x > accepted)' \/ Contains(buffer', x))
      BY <2>6 DEF Need
    <3>3. Need(x)' <= Need(x)
      BY <2>1, <2>3, <3>1, <3>2 DEF One
    <3>4. QED
      BY <1>n, <1>s, <1>c, <2>1, <2>2, <3>3 DEF Spends
  <2>7. QED
    BY <2>5, <2>6
<1>3. CASE EndFlush
  <2>1. /\ UNCHANGED <<log, failures, elections, leader, routes, accepted>>
        /\ step = "return" /\ call' = {}
        /\ IF returned.error = "nil" THEN buffer' = buffer ELSE buffer' = flight \o buffer
    BY <1>3 DEF EndFlush, Restore, clusterVars, faultVars
  <2>2. Owed(x)' = Owed(x)
    BY <2>1, OwedKept
  <2>3. Need(x)' = One(x > accepted \/ Contains(buffer', x))
    BY <2>1 DEF Need
  <2>4. x \in call <=> Contains(flight, x)
    BY <1>0, ToSetContains DEF LogInv
  <2>5. CASE x \in call /\ returned.error = "nil"
    <3>1. PICK j \in 1 .. Len(flight) : flight[j] = x
      BY <2>4, <2>5 DEF Contains
    <3>2. ~(x > accepted) /\ ~Contains(buffer, x)
      BY <1>0, <3>1 DEF AcceptedInOrder, Contains
    <3>3. Need(x)' = 0
      BY <2>1, <2>3, <2>5, <3>2 DEF One
    <3>4. QED
      BY <1>n, <1>c, <2>1, <2>2, <3>3 DEF Spends
  <2>6. CASE x \in call /\ returned.error # "nil"
    <3>1. Need(x) = 1
      BY <2>1, <2>6 DEF Need, One
    <3>2. Need(x)' \in {0, 1}
      BY <2>3 DEF One
    <3>3. QED
      BY <1>n, <1>c, <2>1, <2>2, <3>1, <3>2 DEF Spends
  <2>7. CASE x \notin call
    <3>1. Need(x) = One(x > accepted \/ Contains(buffer, x))
      BY <2>7 DEF Need
    <3>2. Contains(buffer', x) => Contains(buffer, x)
      <4>1. CASE buffer' = buffer
        BY <4>1
      <4>2. CASE buffer' = flight \o buffer
        <5>1. \A i \in 1 .. Len(flight \o buffer) :
                \/ \E j \in 1 .. Len(flight) : (flight \o buffer)[i] = flight[j]
                \/ \E j \in 1 .. Len(buffer) : (flight \o buffer)[i] = buffer[j]
          BY <1>0, RisingConcat DEF AcceptedInOrder
        <5>2. QED
          BY <2>4, <2>7, <4>2, <5>1 DEF Contains
      <4>3. QED
        BY <2>1, <4>1, <4>2
    <3>3. Need(x)' <= Need(x)
      BY <2>3, <3>1, <3>2 DEF One
    <3>4. QED
      BY <1>n, <1>s, <1>c, <2>1, <2>2, <3>3 DEF Spends
  <2>8. QED
    BY <2>5, <2>6, <2>7
<1>4. ASSUME UNCHANGED <<retryVars, writerVars>>
      PROVE  /\ x \notin call => Need(x)' = Need(x)
             /\ call' = call /\ step' = step /\ err' = err /\ returned' = returned
             /\ UNCHANGED <<attempt, pending, out, grouped, unrouted>>
  BY <1>4 DEF retryVars, attemptVars, writerVars, Need
<1>5. CASE RefreshByOther
  <2>1. /\ UNCHANGED <<retryVars, writerVars>> /\ routes' = leader
        /\ UNCHANGED <<log, failures, elections, leader>>
    BY <1>5 DEF RefreshByOther, clusterVars, faultVars
  <2>2. Owed(x)' <= Owed(x)
    BY <2>1, OwedKept
  <2>3. CASE /\ x \in call /\ step # "return"
             /\ ~(step = "decide" /\ err \in {"route", "other"})
    <3>1. Need(x) = Due(x) + One(Doomed) /\ Need(x)' = Due(x)' + One(Doomed')
      BY <1>4, <2>1, <2>3 DEF Need
    <3>2. ASSUME Split(x)' PROVE Split(x) \/ (routes' = leader /\ Stale(BucketOf[x]))
      <4>1. CASE step = "decide"
        <5>1. PICK y \in Mates(x)' : TRUE
          BY <3>2 DEF Split
        <5>2. y \in Mates(x) /\ y \in pending
          BY <1>4, <2>1, <5>1 DEF Mates
        <5>3. out[y] # "none"
          BY <2>3, <4>1, <5>2 DEF RetryInv, AttemptInv, TypeOK, Errors
        <5>4. QED
          BY <5>2, <5>3 DEF Split
      <4>2. CASE step # "decide"
        <5>1. step \in {"route", "send"} /\ call # {}
          BY <1>0, <2>3, <4>2 DEF TypeOK
        <5>2. QED
          BY <1>0, <1>4, <2>1, <3>2, <5>1, Regrouped
      <4>3. QED
        BY <4>1, <4>2
    <3>3. Due(x)' + Owed(x)' <= Due(x) + Owed(x) /\ (Doomed' <=> Doomed)
      <4>1. \A y \in Batches : Waiting(y)' <=> Waiting(y)
        BY <1>4, <2>1 DEF Waiting
      <4>2. QED
        BY <1>0, <1>4, <2>1, <3>2, <4>1, DueSplit
    <3>4. One(Doomed') = One(Doomed) /\ One(Doomed) \in {0, 1}
      BY <3>3 DEF One
    <3>5. QED
      BY <1>n, <1>s, <1>c, <2>1, <3>1, <3>3, <3>4 DEF Spends
  <2>4. CASE x \notin call \/ step = "return" \/ (step = "decide" /\ err \in {"route", "other"})
    <3>1. Need(x)' = Need(x)
      BY <1>4, <2>1, <2>4 DEF Need
    <3>2. QED
      BY <1>n, <1>s, <1>c, <2>1, <2>2, <3>1 DEF Spends
  <2>5. QED
    BY <2>3, <2>4
<1>6. ASSUME UNCHANGED <<retryVars, writerVars, routes>> PROVE Need(x)' = Need(x)
  BY <1>6 DEF retryVars, attemptVars, writerVars, Need, Due, Waiting, Split, Torn, Doomed,
              Mates, Shared
<1>7. ASSUME NEW c \in Buckets, Elect(c) PROVE Spends(x)
  <2>1. /\ UNCHANGED <<retryVars, writerVars, routes, log, failures>>
        /\ elections' = elections + 1 /\ elections \in Nat
    BY <1>0, <1>7 DEF Elect, PipelineTypes
  <2>2. Owed(x)' + Elected(x) <= Owed(x) + Elected(x)'
    <3>1. CASE Shared(x)
      <4>1. Elected(x) = elections /\ Elected(x)' = elections + 1
        BY <2>1, <3>1 DEF Elected, Shared
      <4>2. QED
        BY <1>n, <1>s, <2>1, <4>1
    <3>2. CASE ~Shared(x)
      <4>1. Elected(x) = 0 /\ Elected(x)' = 0 /\ Owed(x) = 0 /\ Owed(x)' = 0
        BY <3>2 DEF Elected, Owed, One, Shared
      <4>2. QED
        BY <4>1
    <3>3. QED
      BY <3>1, <3>2
  <2>3. QED
    BY <1>n, <1>s, <1>c, <1>6, <2>1, <2>2 DEF Spends
<1>8. ASSUME NEW c \in Buckets, Recover(c) PROVE Spends(x)
  <2>1. /\ UNCHANGED <<retryVars, writerVars, routes, log, failures, elections>>
        /\ leader[c] = None /\ \E s \in Servers : leader' = [leader EXCEPT ![c] = s]
    BY <1>8 DEF Recover, faultVars
  <2>2. Stale(b)' => Stale(b)
    BY <1>0, <2>1 DEF Stale, PipelineTypes
  <2>3. Owed(x)' <= Owed(x)
    BY <2>2 DEF Owed, One, Shared
  <2>4. QED
    BY <1>n, <1>s, <1>c, <1>6, <2>1, <2>3 DEF Spends
<1>9. CASE UNCHANGED vars
  <2>1. /\ UNCHANGED <<retryVars, writerVars, log, failures, elections, leader, routes>>
    BY <1>9 DEF vars, clusterVars, faultVars
  <2>2. Owed(x)' = Owed(x)
    BY <2>1, OwedKept
  <2>3. QED
    BY <1>n, <1>c, <1>6, <2>1, <2>2 DEF Spends
<1>10. QED
  BY <1>1, <1>2, <1>3, <1>5, <1>7, <1>8, <1>9 DEF PipelineNext

(* While batches look for their routes, all that are due wait. *)
LEMMA RouteSpends ==
  ASSUME RetryInv, RoutesInv, NEW x \in call, NEW y \in Batches, Route(y),
         call' = call, leader' = leader
  PROVE  Need(x)' + Owed(x)' + failures <= Need(x) + Owed(x) + failures'
<1>0. /\ TypeOK /\ PipelineTypes /\ x \in Batches /\ pending \subseteq Batches
      /\ attempt \in {0, 1} /\ call # {} /\ x \in Batches
      /\ BucketOf[y] \in Buckets /\ failures \in Nat
  BY BucketOfType DEF RetryInv, TypeOK, PipelineTypes, MaxAttempts
<1>n. Need(x) \in Nat /\ Owed(x) \in {0, 1} /\ Due(x) \in Nat
  BY <1>0, Numbers DEF Counted
<1>1. ASSUME NEW s, RouteFound(y, s), failures' = failures, s = routes'[BucketOf[y]],
             routes' = routes \/ routes' = leader
      PROVE  Need(x)' + Owed(x)' <= Need(x) + Owed(x)
  <2>1. /\ step = "route" /\ y \in unrouted /\ unrouted' = unrouted \ {y}
        /\ grouped' = [grouped EXCEPT ![s] = @ \cup {y}]
        /\ step' \in {"route", "send"} /\ UNCHANGED <<attempt, pending, out>>
    BY <1>1 DEF RouteFound
  <2>2. \A t \in Servers : grouped'[t] = IF t = s THEN grouped[s] \cup {y} ELSE grouped[t]
    BY <1>0, <2>1 DEF TypeOK
  <2>3. s \in Servers
    <3>1. routes'[BucketOf[y]] \in Servers \cup {None}
      BY <1>0, <1>1 DEF PipelineTypes
    <3>2. s # None
      <4>1. \/ routes' = routes /\ routes[BucketOf[y]] # None
            \/ AllLed /\ routes' = leader
        <5>1. ASSUME RouteMissing(y) PROVE FALSE
          BY <2>1, <5>1 DEF RouteMissing, Abandon
        <5>2. QED
          BY <5>1 DEF Route, Refreshed
      <4>2. QED
        BY <1>0, <1>1, <4>1 DEF AllLed
    <3>3. QED
      BY <1>1, <3>1, <3>2
  <2>4. \A z \in Batches : Waiting(z)' <=> Waiting(z)
    BY <2>1, <2>2, <2>3 DEF Waiting
  <2>5. \A t \in Servers : \A z \in grouped'[t] : z \in grouped[t] \/ t = routes'[BucketOf[z]]
    BY <1>1, <2>2
  <2>6. Split(x)' => Split(x) \/ (routes' = leader /\ Stale(BucketOf[x]))
    BY <1>0, <1>1, <2>1, <2>5, Regrouped
  <2>7. Due(x)' + Owed(x)' <= Due(x) + Owed(x) /\ (Doomed' <=> Doomed)
    BY <1>0, <1>1, <2>1, <2>4, <2>6, DueSplit
  <2>8. Need(x) = Due(x) + One(Doomed) /\ Need(x)' = Due(x)' + One(Doomed')
    BY <2>1 DEF Need
  <2>9. One(Doomed') = One(Doomed) /\ One(Doomed) \in {0, 1}
    BY <2>7 DEF One
  <2>10. Owed(x)' \in {0, 1} /\ Due(x)' \in Nat
    BY DEF Owed, Due, One
  <2>11. QED
    BY <1>n, <2>7, <2>8, <2>9, <2>10
<1>2. ASSUME RouteMissing(y), routes[BucketOf[y]] = None, NotRefreshed
      PROVE  Need(x)' + Owed(x)' + failures <= Need(x) + Owed(x) + failures'
  <2>1. Need(x)' = 1
    BY <1>2 DEF RouteMissing, Abandon, Need
  <2>2. Owed(x)' = Owed(x)
    BY <1>0, <1>2, OwedKept DEF NotRefreshed
  <2>3. Need(x) >= 1
    <3>1. step = "route" /\ y \in unrouted
      BY <1>2 DEF RouteMissing
    <3>2. attempt = 0
      BY <1>0, <1>2 DEF RoutesInv
    <3>3. x \in pending
      BY <3>1, <3>2 DEF RetryInv, ResultInv
    <3>4. Waiting(x)
      BY <3>1, <3>3 DEF RetryInv, RoutesInv, AttemptInv
    <3>5. Need(x) = 1 + One(Shared(x) /\ Split(x)) + One(Doomed)
      BY <3>1, <3>2, <3>4 DEF Need, Due
    <3>6. One(Shared(x) /\ Split(x)) \in {0, 1} /\ One(Doomed) \in {0, 1}
      BY DEF One
    <3>7. QED
      BY <3>5, <3>6
  <2>4. failures' \in {failures, failures + 1}
    BY <1>2 DEF NotRefreshed, Fails, faultVars
  <2>5. QED
    BY <1>0, <1>n, <2>1, <2>2, <2>3, <2>4
<1>3. QED
  <2>1. CASE routes[BucketOf[y]] # None /\ RouteFound(y, routes[BucketOf[y]])
             /\ UNCHANGED <<routes, faultVars>>
    <3>1. failures' = failures /\ routes' = routes
      BY <2>1 DEF faultVars
    <3>2. Need(x)' + Owed(x)' <= Need(x) + Owed(x)
      BY <1>1, <2>1, <3>1
    <3>3. Need(x)' \in Nat /\ Owed(x)' \in {0, 1}
      BY DEF Need, Owed, Due, One
    <3>4. QED
      BY <1>0, <1>n, <3>1, <3>2, <3>3
  <2>2. CASE Refreshed /\ RouteFound(y, leader[BucketOf[y]])
    <3>1. failures' = failures /\ routes' = leader
      BY <2>2 DEF Refreshed, faultVars
    <3>2. Need(x)' + Owed(x)' <= Need(x) + Owed(x)
      BY <1>1, <2>2, <3>1
    <3>3. Need(x)' \in Nat /\ Owed(x)' \in {0, 1}
      BY DEF Need, Owed, Due, One
    <3>4. QED
      BY <1>0, <1>n, <3>1, <3>2, <3>3
  <2>3. QED
    BY <1>2, <2>1, <2>2 DEF Route

(* The answer to a request: what it stores was due, and what it leaves to  *)
(* the second attempt is due then or split before.                         *)
LEMMA AnswerSpends ==
  ASSUME RetryInv, AcceptedInOrder, RoutesInv, NEW x \in call, NEW s \in Servers,
         ServerAnswers(s), call' = call
  PROVE  Copies(x)' + Need(x)' + failures <= Copies(x) + Need(x) + failures'
<1>0. /\ TypeOK /\ PipelineTypes /\ AttemptInv /\ x \in Batches /\ pending \subseteq call
      /\ pending \subseteq Batches /\ attempt \in {0, 1} /\ failures \in Nat
      /\ stored \in [Batches -> Nat]
      /\ \A t \in Servers : grouped[t] \subseteq pending
  BY DEF RetryInv, TypeOK, PipelineTypes, MaxAttempts
<1>n. Copies(x) \in Nat /\ Need(x) \in Nat /\ Due(x) \in Nat
  BY <1>0, Numbers DEF Counted
<1>1. PICK refused \in SUBSET Led(s), kept \in SUBSET Led(s) :
        /\ Answered(s, [y \in grouped[s] |->
                         IF y \notin Led(s) THEN "leaderless"
                         ELSE IF y \in refused THEN "refused" ELSE "ok"], kept)
        /\ IF refused = {} THEN UNCHANGED faultVars ELSE Fails
  BY DEF ServerAnswers
<1> DEFINE answer == [y \in grouped[s] |->
                         IF y \notin Led(s) THEN "leaderless"
                         ELSE IF y \in refused THEN "refused" ELSE "ok"]
           b == BucketOf[x]
<1>2. /\ step = "send" /\ UNCHANGED <<step, attempt, pending, unrouted>>
      /\ out' = [y \in Batches |-> IF y \in grouped[s] THEN answer[y] ELSE out[y]]
      /\ kept \subseteq {y \in grouped[s] : answer[y] = "refused"}
      /\ Store({y \in grouped[s] : answer[y] = "ok"} \cup kept)
      /\ grouped' = [grouped EXCEPT ![s] = {}]
  BY <1>1 DEF Answered
<1>3. /\ \A y \in grouped[s] : out'[y] = IF y \notin Led(s) THEN "leaderless"
                                        ELSE IF y \in refused THEN "refused" ELSE "ok"
      /\ \A y \in Batches : y \notin grouped[s] => out'[y] = out[y]
  BY <1>0, <1>2
<1>4. /\ \A t \in Servers : grouped'[t] = IF t = s THEN {} ELSE grouped[t]
      /\ unrouted = {} /\ unrouted' = {}
  BY <1>0, <1>2 DEF TypeOK, AttemptInv
<1>5. \A y \in Batches : Waiting(y)' <=> Waiting(y) /\ y \notin grouped[s]
  <2>1. \A t \in Servers : \A y \in grouped[s] : y \in grouped[t] => t = s
    BY <1>0, <1>2 DEF AttemptInv
  <2>2. QED
    BY <1>4, <2>1 DEF Waiting
<1>6. Appended
  BY DEF ServerAnswers
<1>7. /\ Copies(x)' <= Copies(x) + 1 /\ Copies(x)' \in Nat
      /\ x \notin grouped[s] \/ x \notin Led(s) => Copies(x)' = Copies(x)
  <2>1. x \notin grouped[s] \/ x \notin Led(s) =>
          x \notin {y \in grouped[s] : answer[y] = "ok"} \cup kept
    BY <1>2
  <2>2. x \notin {y \in grouped[s] : answer[y] = "ok"} \cup kept => stored'[x] = stored[x]
    BY <1>0, <1>2 DEF Store
  <2>3. stored[x] \in Nat
    BY <1>0
  <2>4. QED
    BY <1>0, <1>6, <2>1, <2>2, <2>3, CopiesAppended
<1>8. One(Doomed') + failures <= One(Doomed) + failures'
      /\ One(Doomed) \in {0, 1} /\ One(Doomed') \in {0, 1}
  <2>1. One(Doomed) \in {0, 1} /\ One(Doomed') \in {0, 1}
    BY DEF One
  <2>2. CASE refused = {}
    <3>1. failures' = failures
      BY <1>1, <2>2 DEF faultVars
    <3>2. Doomed' => Doomed
      BY <1>0, <1>2, <1>3, <2>2 DEF Doomed
    <3>3. One(Doomed') <= One(Doomed)
      BY <3>2 DEF One
    <3>4. QED
      BY <1>0, <2>1, <3>1, <3>3
  <2>3. CASE refused # {}
    <3>1. failures' = failures + 1
      BY <1>1, <2>3 DEF Fails
    <3>2. QED
      BY <1>0, <2>1, <3>1
  <2>4. QED
    BY <2>2, <2>3
<1>9. Copies(x)' + Due(x)' <= Copies(x) + Due(x) /\ Due(x)' \in Nat
  <2>0. /\ Due(x)' \in Nat /\ (Shared(x)' <=> Shared(x))
        /\ \A p : One(p) \in {0, 1}
    BY DEF Due, One, Shared
  <2> DEFINE d == One(Shared(x) /\ Split(x))
             e == One(Shared(x)' /\ Split(x)')
             f == One(Shared(x) /\ Torn(x))
             g == One(Shared(x)' /\ Torn(x)')
  <2>1. d \in {0, 1} /\ e \in {0, 1} /\ f \in {0, 1} /\ g \in {0, 1}
    BY DEF One
  <2>2. ASSUME attempt = 1 PROVE Copies(x)' + Due(x)' <= Copies(x) + Due(x)
    <3>1. Due(x) = One(Waiting(x)) /\ Due(x)' = One(Waiting(x)')
      BY <1>2, <2>2 DEF Due
    <3>2. CASE x \in grouped[s]
      <4>1. Waiting(x) /\ ~Waiting(x)'
        BY <1>0, <1>5, <3>2 DEF Waiting
      <4>2. Due(x) = 1 /\ Due(x)' = 0
        BY <3>1, <4>1 DEF One
      <4>3. QED
        BY <1>n, <1>7, <4>2
    <3>3. CASE x \notin grouped[s]
      <4>1. Waiting(x)' <=> Waiting(x)
        BY <1>0, <1>5, <3>3
      <4>2. Due(x)' = Due(x)
        BY <3>1, <4>1 DEF One
      <4>3. QED
        BY <1>n, <1>7, <3>3, <4>2
    <3>4. QED
      BY <3>2, <3>3
  <2>3. ASSUME attempt = 0 PROVE Copies(x)' + Due(x)' <= Copies(x) + Due(x)
    <3>0. x \in pending /\ attempt' # 1 /\ attempt # 1
      BY <1>0, <1>2, <2>3 DEF RetryInv, ResultInv
    <3>1. CASE x \in grouped[s]
      <4>1. Waiting(x) /\ ~Waiting(x)'
        BY <1>0, <1>5, <3>1 DEF Waiting
      <4>2. Due(x) = 1 + d
        BY <3>0, <4>1 DEF Due, d
      <4>3. CASE x \notin Led(s)
        <5>1. out'[x] = "leaderless"
          BY <1>3, <3>1, <4>3
        <5>2. Due(x)' = 1
          BY <3>0, <4>1, <5>1 DEF Due
        <5>3. QED
          BY <1>n, <1>7, <2>1, <4>2, <4>3, <5>2
      <4>4. CASE x \in Led(s)
        <5>1. out'[x] # "leaderless"
          BY <1>3, <3>1, <4>4
        <5>2. Due(x)' = g
          BY <3>0, <4>1, <5>1 DEF Due, g
        <5>3. ASSUME Torn(x)' PROVE Split(x)
          <6>1. PICK y \in Mates(x)' : Waiting(y)' \/ out'[y] = "leaderless"
            BY <5>3 DEF Torn
          <6>2. y \in Mates(x) /\ y \in pending /\ BucketOf[y] = b /\ x \in Mates(x)
            BY <1>2, <3>0, <6>1 DEF Mates
          <6>3. CASE Waiting(y)'
            <7>1. Waiting(y) /\ y \notin grouped[s]
              BY <1>0, <1>5, <6>2, <6>3
            <7>2. PICK t \in Servers : y \in grouped[t]
              BY <1>4, <7>1 DEF Waiting
            <7>3. t # s
              BY <7>1, <7>2
            <7>4. s # routes[b] \/ t # routes[b]
              BY <7>3
            <7>5. QED
              BY <3>1, <6>2, <7>2, <7>4 DEF Split
          <6>4. CASE out'[y] = "leaderless"
            <7>1. leader[b] = s
              BY <4>4 DEF Led
            <7>2. y \notin grouped[s]
              BY <1>3, <6>2, <6>4, <7>1 DEF Led
            <7>3. out[y] # "none"
              BY <1>0, <1>3, <6>2, <6>4, <7>2
            <7>4. QED
              BY <6>2, <7>3 DEF Split
          <6>5. QED
            BY <6>1, <6>3, <6>4
        <5>4. g <= d
          BY <2>0, <5>3 DEF One
        <5>5. QED
          BY <1>n, <1>7, <2>1, <4>2, <5>2, <5>4
      <4>5. QED
        BY <4>3, <4>4
    <3>2. CASE x \notin grouped[s] /\ Waiting(x)
      <4>1. Waiting(x)'
        BY <1>0, <1>5, <3>2
      <4>2. Due(x) = 1 + d /\ Due(x)' = 1 + e
        BY <3>0, <3>2, <4>1 DEF Due, d, e
      <4>3. ASSUME Split(x)' PROVE Split(x)
        <5>1. PICK y \in Mates(x)' :
                out'[y] # "none" \/ \E t \in Servers : y \in grouped'[t] /\ t # routes'[b]
          BY <4>3 DEF Split
        <5>2. y \in Mates(x) /\ y \in pending /\ BucketOf[y] = b /\ x \in Mates(x)
          BY <1>2, <3>0, <5>1 DEF Mates
        <5>3. routes' = routes
          BY DEF ServerAnswers
        <5>4. PICK u \in Servers : x \in grouped[u]
          BY <1>4, <3>2 DEF Waiting
        <5>5. CASE y \in grouped[s]
          <6>1. s # u
            BY <3>2, <5>4
          <6>2. s # routes[b] \/ u # routes[b]
            BY <6>1
          <6>3. QED
            BY <5>2, <5>4, <5>5, <6>2 DEF Split
        <5>6. CASE y \notin grouped[s]
          <6>1. out'[y] = out[y]
            BY <1>0, <1>3, <5>2, <5>6
          <6>2. \A t \in Servers : grouped'[t] \subseteq grouped[t]
            BY <1>4
          <6>3. QED
            BY <5>1, <5>2, <5>3, <6>1, <6>2 DEF Split
        <5>7. QED
          BY <5>5, <5>6
      <4>4. e <= d
        BY <2>0, <4>3 DEF One
      <4>5. QED
        BY <1>n, <1>7, <2>1, <3>2, <4>2, <4>4
    <3>3. CASE x \notin grouped[s] /\ ~Waiting(x)
      <4>1. ~Waiting(x)' /\ out'[x] = out[x]
        BY <1>0, <1>3, <1>5, <3>3
      <4>2. CASE out[x] = "leaderless"
        <5>1. Due(x) = 1 /\ Due(x)' = 1
          BY <3>0, <3>3, <4>1, <4>2 DEF Due
        <5>2. QED
          BY <1>n, <1>7, <3>3, <5>1
      <4>3. CASE out[x] # "leaderless"
        <5>1. Due(x) = f /\ Due(x)' = g
          BY <3>0, <3>3, <4>1, <4>3 DEF Due, f, g
        <5>2. ASSUME Torn(x)' PROVE Torn(x)
          <6>1. PICK y \in Mates(x)' : Waiting(y)' \/ out'[y] = "leaderless"
            BY <5>2 DEF Torn
          <6>2. y \in Mates(x) /\ y \in Batches
            BY <1>0, <1>2, <6>1 DEF Mates
          <6>3. Waiting(y) \/ out[y] = "leaderless"
            BY <1>3, <1>5, <6>1, <6>2 DEF Waiting
          <6>4. QED
            BY <6>2, <6>3 DEF Torn
        <5>3. g <= f
          BY <2>0, <5>2 DEF One
        <5>4. QED
          BY <1>n, <1>7, <2>1, <3>3, <5>1, <5>3
      <4>4. QED
        BY <4>2, <4>3
    <3>4. QED
      BY <3>1, <3>2, <3>3
  <2>4. QED
    BY <1>0, <2>0, <2>2, <2>3
<1>10. Need(x) = Due(x) + One(Doomed) /\ Need(x)' = Due(x)' + One(Doomed')
  BY <1>2 DEF Need
<1>11. failures' \in Nat
  BY <1>0, <1>1 DEF faultVars, Fails
<1>12. QED
  BY <1>0, <1>n, <1>7, <1>8, <1>9, <1>10, <1>11

(* A request that fails may have stored what was due: the failure pays for *)
(* sending it again.                                                       *)
LEMMA FailureSpends ==
  ASSUME RetryInv, AcceptedInOrder, NEW x \in call, NEW s \in Servers, ServerFails(s),
         call' = call
  PROVE  Copies(x)' + Need(x)' + failures <= Copies(x) + Need(x) + failures'
<1>0. /\ TypeOK /\ PipelineTypes /\ x \in Batches /\ failures \in Nat
      /\ stored \in [Batches -> Nat]
  BY DEF RetryInv, TypeOK, PipelineTypes
<1>n. Copies(x) \in Nat /\ Need(x) \in Nat
  BY <1>0, Numbers DEF Counted
<1>1. PICK kept \in SUBSET Led(s) : RequestFails(s, kept)
  BY DEF ServerFails
<1>2. /\ step = "send" /\ kept \subseteq grouped[s] /\ Store(kept) /\ Appended
      /\ step' = "decide" /\ err' \in {"route", "other"} /\ failures' = failures + 1
  BY <1>1 DEF RequestFails, Abandon, ServerFails, Fails
<1>3. Need(x)' = 1
  BY <1>2 DEF Need
<1>4. CASE x \in kept
  <2>1. Copies(x)' <= Copies(x) + 1 /\ Copies(x)' \in Nat
    BY <1>0, <1>2, CopiesAppended
  <2>2. Waiting(x)
    BY <1>2, <1>4 DEF Waiting
  <2>3. Due(x) >= 1 /\ Due(x) \in Nat
    BY <2>2 DEF Due, One
  <2>4. Need(x) = Due(x) + One(Doomed)
    BY <1>2 DEF Need
  <2>5. One(Doomed) \in {0, 1}
    BY DEF One
  <2>6. QED
    BY <1>0, <1>n, <1>2, <1>3, <2>1, <2>3, <2>4, <2>5
<1>5. CASE x \notin kept
  <2>1. stored'[x] = stored[x] /\ stored[x] \in Nat
    BY <1>0, <1>2, <1>5 DEF Store
  <2>2. Copies(x)' = Copies(x)
    BY <1>0, <1>2, <2>1, CopiesAppended
  <2>3. QED
    BY <1>0, <1>n, <1>2, <1>3, <2>2
<1>6. QED
  BY <1>4, <1>5

(* The decision: what is sent again was due, and an error that is returned *)
(* was known.                                                              *)
LEMMA DecisionSpends ==
  ASSUME RetryInv, NEW x \in call, Decide, call' = call, leader' = leader
  PROVE  Need(x)' + Owed(x)' + failures <= Need(x) + Owed(x) + failures'
<1>0. /\ TypeOK /\ PipelineTypes /\ AttemptInv /\ x \in Batches /\ attempt \in {0, 1}
      /\ pending \subseteq Batches /\ pending \subseteq call /\ failures \in Nat
  BY DEF RetryInv, TypeOK, PipelineTypes, MaxAttempts
<1>n. Need(x) \in Nat /\ Owed(x) \in {0, 1} /\ Due(x) \in Nat
  BY <1>0, Numbers DEF Counted
<1>1. /\ \A p : One(p) \in {0, 1}
      /\ Need(x)' \in Nat /\ Owed(x)' \in {0, 1}
  BY DEF One, Need, Due, Owed
<1>2. routes' = routes \/ routes' = leader
  BY DEF Decide, Refreshed, NotRefreshed
<1>3. Owed(x)' <= Owed(x)
  BY <1>0, <1>2, OwedKept
<1>4. failures' \in {failures, failures + 1}
  BY DEF Decide, Refreshed, NotRefreshed, Fails, faultVars
<1>5. SUFFICES Need(x)' <= Need(x)
  BY <1>0, <1>n, <1>1, <1>3, <1>4
<1>6. ASSUME NEW e, NEW named, Return(e, named) PROVE Need(x)' = One(e # "nil")
  BY <1>6 DEF Return, Need
<1>7. CASE Succeed
  <2>1. Need(x)' = 0
    BY <1>6, <1>7 DEF Succeed, One
  <2>2. QED
    BY <1>n, <2>1
<1>8. CASE ReturnError
  <2>1. Need(x) = 1
    BY <1>8 DEF ReturnError, Need
  <2>2. Need(x)' \in {0, 1}
    BY <1>1, <1>6, <1>8 DEF ReturnError
  <2>3. QED
    BY <2>1, <2>2
<1>9. CASE ReturnTerminal
  <2>1. step = "decide" /\ err = "partial"
    BY <1>9 DEF ReturnTerminal
  <2>2. CASE Terminal = {}
    <3>1. Need(x)' = 0
      BY <1>6, <1>9, <2>2 DEF ReturnTerminal, One
    <3>2. QED
      BY <1>n, <3>1
  <2>3. CASE Terminal # {}
    <3>1. Doomed
      BY <2>3 DEF Terminal, BucketsWith, Doomed
    <3>2. Need(x) = Due(x) + 1
      BY <2>1, <3>1 DEF Need, One
    <3>3. Need(x)' \in {0, 1}
      BY <1>1, <1>6, <1>9 DEF ReturnTerminal
    <3>4. QED
      BY <1>n, <3>2, <3>3
  <2>4. QED
    BY <2>2, <2>3
<1>10. ASSUME NEW batches \in SUBSET pending, NextAttempt(batches), attempt = 0
       PROVE  Need(x)' = One(x \in batches)
  <2>1. /\ step' = "route" /\ attempt' = 1 /\ pending' = batches /\ unrouted' = batches
        /\ grouped' = Nowhere /\ out' = Unanswered
    BY <1>10 DEF NextAttempt
  <2>2. Waiting(x)' <=> x \in batches
    BY <2>1 DEF Waiting, Nowhere
  <2>3. ~Doomed'
    BY <1>0, <2>1, <1>10 DEF Doomed, Unanswered
  <2>4. Need(x)' = One(Waiting(x)') + One(Doomed')
    BY <2>1 DEF Need, Due
  <2>5. QED
    BY <2>2, <2>3, <2>4 DEF One
<1>11. CASE RetryAll
  <2>1. Need(x) = 1
    BY <1>11 DEF RetryAll, Need
  <2>2. Need(x)' \in {0, 1}
    BY <1>1, <1>10, <1>11 DEF RetryAll
  <2>3. QED
    BY <2>1, <2>2
<1>12. CASE RetryLeaderless
  <2>1. step = "decide" /\ err = "partial" /\ attempt = 0
    BY <1>12 DEF RetryLeaderless
  <2>2. Need(x)' = One(x \in Filtered)
    BY <1>10, <1>12 DEF RetryLeaderless, Filtered
  <2>3. CASE x \notin Filtered
    BY <1>n, <2>2, <2>3 DEF One
  <2>4. CASE x \in Filtered
    <3>1. PICK y \in pending : out[y] = "leaderless" /\ BucketOf[y] = BucketOf[x]
      BY <2>4 DEF Filtered, Retryable, BucketsWith
    <3>2. Need(x) = Due(x) + One(Doomed) /\ One(Doomed) \in {0, 1}
      BY <1>1, <2>1 DEF Need
    <3>3. Due(x) >= 1
      <4>1. CASE Waiting(x)
        BY <1>1, <2>1, <4>1 DEF Due
      <4>2. CASE ~Waiting(x) /\ out[x] = "leaderless"
        BY <2>1, <4>2 DEF Due
      <4>3. CASE ~Waiting(x) /\ out[x] # "leaderless"
        <5>1. y \in Batches \ {x} /\ y \in Mates(x)
          BY <1>0, <3>1, <4>3 DEF Mates
        <5>2. Shared(x) /\ Torn(x)
          BY <3>1, <5>1 DEF Shared, Torn
        <5>3. QED
          BY <2>1, <4>3, <5>2 DEF Due, One
      <4>4. QED
        BY <4>1, <4>2, <4>3
    <3>4. Need(x)' = 1
      BY <2>2, <2>4 DEF One
    <3>5. QED
      BY <1>n, <3>2, <3>3, <3>4
  <2>5. QED
    BY <2>3, <2>4
<1>13. QED
  BY <1>7, <1>8, <1>9, <1>11, <1>12 DEF Decide

(* A step of the call spends nothing of a batch that is not in it, *)
LEMMA OutsideSpends ==
  ASSUME RetryInv, LogInv, AcceptedInOrder, CallStep, NEW x \in Batches, x \notin call
  PROVE  Copies(x)' + Need(x)' + failures <= Copies(x) + Need(x) + failures'
<1>0. /\ TypeOK /\ PipelineTypes /\ failures \in Nat /\ stored \in [Batches -> Nat]
      /\ \A s \in Servers : grouped[s] \subseteq call
  BY DEF RetryInv, TypeOK, PipelineTypes
<1>n. Copies(x) \in Nat /\ Need(x) \in Nat
  BY <1>0, Numbers DEF Counted
<1>1. /\ UNCHANGED <<buffer, accepted, call>> /\ (log' = log \/ Appended)
      /\ failures' \in {failures, failures + 1}
  BY CallSteps DEF writerVars, faultVars, Fails
<1>2. Need(x)' = Need(x)
  BY <1>1 DEF Need
<1>3. stored'[x] = stored[x]
  <2>1. ASSUME NEW kept, Store(kept), x \notin kept PROVE stored'[x] = stored[x]
    BY <1>0, <2>1 DEF Store
  <2>2. ASSUME NEW s \in Servers, ServerAnswers(s) PROVE stored'[x] = stored[x]
    <3>1. PICK refused \in SUBSET Led(s), kept \in SUBSET Led(s) :
            Answered(s, [y \in grouped[s] |->
                         IF y \notin Led(s) THEN "leaderless"
                         ELSE IF y \in refused THEN "refused" ELSE "ok"], kept)
      BY <2>2 DEF ServerAnswers
    <3> DEFINE answer == [y \in grouped[s] |->
                         IF y \notin Led(s) THEN "leaderless"
                         ELSE IF y \in refused THEN "refused" ELSE "ok"]
    <3>2. Store({y \in grouped[s] : answer[y] = "ok"} \cup kept)
      BY <3>1 DEF Answered
    <3>3. x \notin {y \in grouped[s] : answer[y] = "ok"} \cup kept
      BY <1>0 DEF Led
    <3>4. QED
      BY <2>1, <3>2, <3>3
  <2>3. ASSUME NEW s \in Servers, ServerFails(s) PROVE stored'[x] = stored[x]
    <3>1. PICK kept \in SUBSET Led(s) : RequestFails(s, kept)
      BY <2>3 DEF ServerFails
    <3>2. Store(kept) /\ x \notin kept
      BY <1>0, <3>1 DEF RequestFails
    <3>3. QED
      BY <2>1, <3>2
  <2>4. ASSUME NEW y \in Batches, Route(y) PROVE stored'[x] = stored[x]
    BY <2>4 DEF Route, RouteFound, RouteMissing
  <2>5. NoInfo \/ AttemptEnds => stored'[x] = stored[x]
    BY DEF NoInfo, NoTableInfo, AttemptEnds
  <2>6. Decide => stored'[x] = stored[x]
    BY DEF Decide, Succeed, ReturnError, RetryAll, ReturnTerminal, RetryLeaderless,
           Return, NextAttempt
  <2>7. QED
    BY <2>2, <2>3, <2>4, <2>5, <2>6 DEF CallStep
<1>4. Copies(x)' = Copies(x)
  <2>1. CASE log' = log
    BY <2>1 DEF Copies
  <2>2. CASE Appended
    <3>1. ~(stored'[x] > stored[x])
      BY <1>0, <1>3
    <3>2. QED
      BY <1>0, <2>2, <3>1, CopiesAppended
  <2>3. QED
    BY <1>1, <2>1, <2>2
<1>5. QED
  BY <1>0, <1>n, <1>1, <1>2, <1>4

(* and of one that is no more than what fails. *)
LEMMA CallSpends ==
  ASSUME RetryInv, LogInv, AcceptedInOrder, RoutesInv, CallStep, NEW x \in Batches
  PROVE  Spends(x)
<1>0. TypeOK /\ PipelineTypes /\ failures \in Nat
  BY DEF RetryInv, PipelineTypes
<1>n. /\ Copies(x) \in Nat /\ Need(x) \in Nat /\ Owed(x) \in {0, 1} /\ Due(x) \in Nat
      /\ Elected(x) \in Nat
  BY <1>0, Numbers DEF Counted
<1>1. /\ call' = call /\ leader' = leader /\ elections' = elections
      /\ routes' = routes \/ routes' = leader
      /\ failures' \in {failures, failures + 1}
  BY CallSteps DEF clusterVars, faultVars, Fails
<1>2. /\ Copies(x)' \in Nat /\ Need(x)' \in Nat /\ Owed(x)' \in {0, 1} /\ failures' \in Nat
      /\ Elected(x)' = Elected(x)
  <2>1. PipelineTypes'
    BY <1>0, PipelineTypesKept DEF PipelineNext
  <2>2. QED
    BY <1>1, <2>1, NumbersNext DEF Counted, Elected, Shared
<1>3. Owed(x)' <= Owed(x)
  BY <1>1, OwedKept
<1>4. log' = log => Copies(x)' = Copies(x)
  BY DEF Copies
<1>5. CASE x \notin call
  <2>1. Copies(x)' + Need(x)' + failures <= Copies(x) + Need(x) + failures'
    BY <1>5, OutsideSpends
  <2>2. QED
    BY <1>0, <1>n, <1>2, <1>3, <2>1 DEF Spends
<1>6. CASE x \in call
  <2>1. ASSUME Need(x)' + Owed(x)' + failures <= Need(x) + Owed(x) + failures', log' = log
        PROVE  Spends(x)
    BY <1>0, <1>n, <1>2, <1>4, <2>1 DEF Spends
  <2>2. ASSUME Copies(x)' + Need(x)' + failures <= Copies(x) + Need(x) + failures'
        PROVE  Spends(x)
    BY <1>0, <1>n, <1>2, <1>3, <2>2 DEF Spends
  <2>3. CASE NoInfo
    <3>1. /\ failures' = failures + 1 /\ log' = log
          /\ step' = "decide" /\ err' \in {"route", "other"}
      BY <2>3 DEF NoInfo, NoTableInfo, Abandon, Fails
    <3>2. Need(x)' = 1
      BY <1>1, <1>6, <3>1 DEF Need
    <3>3. QED
      BY <1>0, <1>n, <1>2, <1>3, <1>4, <3>1, <3>2 DEF Spends
  <2>4. CASE Decide
    <3>1. log' = log
      BY <2>4 DEF Decide
    <3>2. QED
      BY <1>1, <1>6, <2>1, <2>4, <3>1, DecisionSpends
  <2>5. CASE AttemptEnds /\ UNCHANGED <<log, routes, faultVars, torn>>
    <3>1. /\ step = "send" /\ step' = "decide" /\ err' \in {"nil", "partial"}
          /\ UNCHANGED <<attempt, pending, unrouted, grouped, out, routes, failures, log>>
      BY <2>5 DEF AttemptEnds, attemptVars, faultVars
    <3>2. Need(x) = Due(x) + One(Doomed) /\ Need(x)' = Due(x)' + One(Doomed)'
      BY <1>1, <1>6, <3>1 DEF Need
    <3>3. Due(x)' = Due(x) /\ One(Doomed)' = One(Doomed)
      BY <3>1 DEF Due, Waiting, Split, Torn, Mates, Shared, Doomed, One
    <3>4. QED
      BY <1>0, <1>n, <1>2, <1>3, <1>4, <3>1, <3>2, <3>3 DEF Spends
  <2>6. ASSUME NEW y \in Batches, Route(y) PROVE Spends(x)
    <3>1. log' = log
      BY <2>6 DEF Route
    <3>2. QED
      BY <1>1, <1>6, <2>1, <2>6, <3>1, RouteSpends
  <2>7. ASSUME NEW s \in Servers, ServerAnswers(s) PROVE Spends(x)
    BY <1>1, <1>6, <2>2, <2>7, AnswerSpends
  <2>8. ASSUME NEW s \in Servers, ServerFails(s) PROVE Spends(x)
    BY <1>1, <1>6, <2>2, <2>8, FailureSpends
  <2>9. QED
    BY <2>3, <2>4, <2>5, <2>6, <2>7, <2>8 DEF CallStep
<1>7. QED
  BY <1>5, <1>6

PaidInv == RetryInv /\ LogInv /\ AcceptedInOrder /\ RoutesInv /\ CopiesInv

(* client/table.go, AppendLog and UpsertKV with their retry of everything, *)
(* below restorePending, which flushes everything again: each failure and, *)
(* for batches that share a bucket, each election pays for one more copy.  *)
THEOREM SpecCopiesNeedFailures == Spec => []CopiesNeedFailures
<1>1. PipelineInit => PaidInv
  <2> SUFFICES ASSUME PipelineInit PROVE PaidInv
    OBVIOUS
  <2>1. RetryInv
    BY InitRetryInv
  <2>2. LogInv /\ AcceptedInOrder
    BY InitOrder
  <2>3. RoutesInv
    BY DEF PipelineInit, Init, RoutesInv
  <2>4. ASSUME NEW x \in Batches
        PROVE  Copies(x) + Need(x) + Owed(x) <= 1 + failures + Elected(x)
    <3>1. BucketOf[x] \in Buckets
      BY BucketOfType
    <3>2. routes[BucketOf[x]] = None /\ log[BucketOf[x]] = <<>> /\ call = {}
      BY <3>1 DEF PipelineInit, Init
    <3>3. Owed(x) = 0
      BY <3>2 DEF Owed, One, Stale
    <3>4. Copies(x) = 0
      <4>1. {i \in DOMAIN <<>> : <<>>[i] = x} = {}
        OBVIOUS
      <4>2. QED
        BY <3>2, <4>1, FS_EmptySet DEF Copies
    <3>5. Need(x) \in {0, 1}
      BY <3>2 DEF Need, One
    <3>6. failures \in Nat /\ Elected(x) \in Nat
      BY <2>1, Numbers DEF RetryInv, Counted
    <3>7. QED
      BY <3>3, <3>4, <3>5, <3>6
  <2>5. QED
    BY <2>1, <2>2, <2>3, <2>4 DEF PaidInv, CopiesInv
<1>2. PaidInv /\ [PipelineNext]_vars => PaidInv'
  <2> SUFFICES ASSUME PaidInv, [PipelineNext]_vars PROVE PaidInv'
    OBVIOUS
  <2>1. RetryInv' /\ LogInv' /\ AcceptedInOrder' /\ RoutesInv'
    BY RetryInvKept, LogInvKept, OrderKept, RoutesInvKept DEF PaidInv, RetryInv
  <2>2. ASSUME NEW x \in Batches
        PROVE  Copies(x)' + Need(x)' + Owed(x)' <= 1 + failures' + Elected(x)'
    <3>1. Spends(x)
      BY OthersSpend, CallSpends DEF PaidInv
    <3>2. /\ Copies(x) \in Nat /\ Need(x) \in Nat /\ Owed(x) \in {0, 1}
          /\ failures \in Nat /\ Elected(x) \in Nat
      BY Numbers DEF PaidInv, RetryInv, Counted
    <3>3. /\ Copies(x)' \in Nat /\ Need(x)' \in Nat /\ Owed(x)' \in {0, 1}
          /\ failures' \in Nat /\ Elected(x)' \in Nat
      BY <2>1, NumbersNext DEF RetryInv, Counted
    <3>4. Copies(x) + Need(x) + Owed(x) <= 1 + failures + Elected(x)
      BY DEF PaidInv, CopiesInv
    <3>5. QED
      BY <3>1, <3>2, <3>3, <3>4 DEF Spends
  <2>3. QED
    BY <2>1, <2>2 DEF PaidInv, CopiesInv
<1>3. PaidInv => CopiesNeedFailures
  <2> SUFFICES ASSUME PaidInv, NEW x \in Batches
               PROVE  Copies(x) <= 1 + failures + (IF Shared(x) THEN elections ELSE 0)
    BY DEF CopiesNeedFailures
  <2>1. /\ Copies(x) \in Nat /\ Need(x) \in Nat /\ Owed(x) \in {0, 1}
        /\ failures \in Nat /\ Elected(x) \in Nat
    BY Numbers DEF PaidInv, RetryInv, Counted
  <2>2. Copies(x) + Need(x) + Owed(x) <= 1 + failures + Elected(x)
    BY DEF PaidInv, CopiesInv
  <2>3. QED
    BY <2>1, <2>2 DEF Elected
<1>4. QED
  BY <1>1, <1>2, <1>3, PTL DEF Spec

-------------------------------------------------------------------------------
(* The last copy of a batch *)

(* The last copy of y is behind all of x. *)
Behind(s, x, y) ==
  \E j \in 1 .. Len(s) : s[j] = y /\ \A i \in 1 .. Len(s) : s[i] = x => i < j

(* A set of places has a last one. *)
LEMMA LastPlace ==
  ASSUME NEW n \in Nat, NEW T, T \subseteq 1 .. n, T # {}
  PROVE  \E m \in T : \A k \in T : k <= m
<1> DEFINE U == {n - k : k \in T}
<1>1. U \subseteq Nat /\ U # {}
  <2>1. \A k \in T : n - k \in Nat /\ n - k \in U
    OBVIOUS
  <2>2. U \subseteq Nat
    BY <2>1
  <2>3. QED
    BY <2>1, <2>2
<1>2. PICK u \in U : \A v \in U : ~(v < u)
  BY <1>1, LeastNumber
<1>3. PICK m \in T : u = n - m
  OBVIOUS
<1>4. ASSUME NEW k \in T PROVE k <= m
  <2>1. ~(n - k < n - m) /\ k \in Int /\ m \in Int
    BY <1>2, <1>3
  <2>2. QED
    BY <2>1
<1>5. QED
  BY <1>4

(* Of a batch that is behind another the last copy is. *)
LEMMA BehindIsLast ==
  ASSUME PipelineTypes, NEW x \in Batches, NEW y \in Batches, BucketOf[x] = BucketOf[y],
         Behind(log[BucketOf[y]], x, y)
  PROVE  LastIndex(x) < LastIndex(y)
<1> DEFINE s == log[BucketOf[y]]
           I == {i \in 1 .. Len(s) : s[i] = x}
           J == {i \in 1 .. Len(s) : s[i] = y}
<1>0. s \in Seq(Batches) /\ Len(s) \in Nat
  BY BucketOfType DEF PipelineTypes
<1>1. /\ LastIndex(x) = IF I # {} THEN Max(I) ELSE 0
      /\ LastIndex(y) = IF J # {} THEN Max(J) ELSE 0
  BY DEF LastIndex, SelectLastInSeq
<1>2. PICK j \in J : \A i \in I : i < j
  BY DEF Behind
<1> HIDE DEF s
<1>3. Max(J) \in J /\ \A k \in J : k <= Max(J)
  <2>1. \E m \in J : \A k \in J : m >= k
    BY <1>0, <1>2, LastPlace
  <2>2. QED
    BY <2>1 DEF Max
<1>4. I # {} => Max(I) \in I
  <2>1. I # {} => \E m \in I : \A k \in I : m >= k
    BY <1>0, LastPlace
  <2>2. QED
    BY <2>1 DEF Max
<1>5. QED
  BY <1>0, <1>1, <1>2, <1>3, <1>4

(* It stays behind when neither is appended, and when it is appended after *)
(* the other.                                                              *)
LEMMA BehindConcat ==
  ASSUME NEW s \in Seq(Batches), NEW t \in Seq(Batches), NEW x, NEW y,
         \/ Behind(s, x, y) /\ \A i \in 1 .. Len(t) : t[i] # x
         \/ \E k \in 1 .. Len(t) : t[k] = y /\ \A i \in 1 .. Len(t) : t[i] = x => i < k
  PROVE  Behind(s \o t, x, y)
<1> DEFINE u == s \o t
<1>1. /\ Len(s) \in Nat /\ Len(t) \in Nat /\ Len(u) = Len(s) + Len(t)
      /\ \A i \in 1 .. Len(s) : u[i] = s[i]
      /\ \A i \in 1 .. Len(t) : u[Len(s) + i] = t[i]
  OBVIOUS
<1> HIDE DEF u
<1>2. \A i \in 1 .. Len(u) : i \notin 1 .. Len(s) =>
        /\ i - Len(s) \in 1 .. Len(t) /\ i \in Int /\ u[i] = t[i - Len(s)]
  <2> SUFFICES ASSUME NEW i \in 1 .. Len(u), i \notin 1 .. Len(s)
               PROVE  i - Len(s) \in 1 .. Len(t) /\ i \in Int /\ u[i] = t[i - Len(s)]
    OBVIOUS
  <2>1. i - Len(s) \in 1 .. Len(t) /\ i = Len(s) + (i - Len(s)) /\ i \in Int
    BY <1>1
  <2>2. u[Len(s) + (i - Len(s))] = t[i - Len(s)]
    BY <1>1, <2>1
  <2>3. QED
    BY <2>1, <2>2
<1>3. CASE Behind(s, x, y) /\ \A i \in 1 .. Len(t) : t[i] # x
  <2>1. PICK j \in 1 .. Len(s) : s[j] = y /\ \A i \in 1 .. Len(s) : s[i] = x => i < j
    BY <1>3 DEF Behind
  <2>2. j \in 1 .. Len(u) /\ u[j] = y
    BY <1>1, <2>1
  <2>3. \A i \in 1 .. Len(u) : u[i] = x => i < j
    BY <1>1, <1>2, <1>3, <2>1
  <2>4. QED
    BY <2>2, <2>3 DEF Behind, u
<1>4. ASSUME NEW k \in 1 .. Len(t), t[k] = y, \A i \in 1 .. Len(t) : t[i] = x => i < k
      PROVE  Behind(u, x, y)
  <2> DEFINE j == Len(s) + k
  <2>1. j \in 1 .. Len(u) /\ u[j] = y /\ j \in Int
    BY <1>1, <1>4
  <2>2. ASSUME NEW i \in 1 .. Len(u), u[i] = x PROVE i < j
    <3>1. CASE i \in 1 .. Len(s)
      BY <1>1, <3>1
    <3>2. CASE i \notin 1 .. Len(s)
      <4>1. i - Len(s) < k
        BY <1>2, <1>4, <2>2, <3>2
      <4>2. QED
        BY <1>1, <1>2, <3>2, <4>1
    <3>3. QED
      BY <3>1, <3>2
  <2> HIDE DEF j
  <2>3. QED
    BY <2>1, <2>2 DEF Behind
<1>5. QED
  BY <1>3, <1>4 DEF u

-------------------------------------------------------------------------------
(* The batches of a bucket travel together *)

(* The last copies of the bucket's batches are in the order they were      *)
(* accepted in, up to those of the call.                                   *)
Settled(b) ==
  \A x \in call \cup reported, y \in call :
    BucketOf[x] = b /\ BucketOf[y] = b /\ x < y => Behind(log[b], x, y)

(* The batches of an attempt are whole buckets, *)
WholeBuckets ==
  step # "return" =>
    \A x \in pending, y \in call : BucketOf[x] = BucketOf[y] => y \in pending

(* which it sends to one server, unless they are torn, and which are       *)
(* answered at once.                                                       *)
Together ==
  call # {} /\ step \in {"route", "send"} =>
    /\ \A t, u \in Servers : \A x \in grouped[t], y \in grouped[u] :
         BucketOf[x] = BucketOf[y] /\ BucketOf[x] \notin torn => t = u
    /\ \A x, y \in pending :
         BucketOf[x] = BucketOf[y] /\ BucketOf[x] \notin torn /\ out[x] # "none"
           => out[y] # "none"

(* A bucket is settled when it is acknowledged, and stays so. *)
SettledInv ==
  /\ step # "return" =>
       /\ attempt = 1 => \A x \in call \ pending :
                           BucketOf[x] \notin torn => Settled(BucketOf[x])
       /\ \A x \in pending :
            /\ BucketOf[x] \notin torn /\ out[x] = "ok"
            /\ \A y \in pending : BucketOf[y] = BucketOf[x] => out[y] # "refused"
            => Settled(BucketOf[x])
  /\ step = "return" /\ returned.error = "nil" =>
       \A x \in call : \/ BucketOf[x] \in torn
                       \/ Settled(BucketOf[x])
                       \/ x \in pending /\ out[x] = "leaderless"

(* LastWriteWins, without the places. *)
ReportedInOrder ==
  \A x, y \in reported \ hidden :
    x < y /\ BucketOf[x] = BucketOf[y] /\ BucketOf[x] \notin torn
      => Behind(log[BucketOf[y]], x, y)

(* Each step keeps that whole buckets are tried again. *)
LEMMA WholeBucketsKept ==
  ASSUME TypeOK, WholeBuckets, RetryStep
  PROVE  WholeBuckets'
<1> USE DEF WholeBuckets
<1>1. ASSUME NEW batches \in SUBSET Batches, StartCall(batches) PROVE WholeBuckets'
  BY <1>1 DEF StartCall
<1>2. CASE EndCall
  BY <1>2 DEF EndCall
<1>3. CASE RouteStep
  BY <1>3 DEF RouteStep, NoTableInfo, RouteMissing, RouteFound, Abandon
<1>4. CASE RequestStep
  BY <1>4 DEF RequestStep, Answered, RequestFails, Abandon
<1>5. CASE AttemptEnds
  BY <1>5 DEF AttemptEnds, attemptVars
<1>6. ASSUME NEW e, NEW named, Return(e, named) PROVE WholeBuckets'
  BY <1>6 DEF Return
<1>7. CASE RetryAll
  BY <1>7 DEF RetryAll, NextAttempt
<1>8. CASE RetryLeaderless
  BY <1>8 DEF RetryLeaderless, NextAttempt, Filtered
<1>9. CASE UNCHANGED retryVars
  BY <1>9 DEF retryVars, attemptVars
<1>10. QED
  BY <1>1, <1>2, <1>3, <1>4, <1>5, <1>6, <1>7, <1>8, <1>9
     DEF RetryStep, DecideStep, Succeed, ReturnError, ReturnTerminal

(* Each step keeps the batches of a bucket together. *)
LEMMA TogetherKept ==
  ASSUME RetryInv, Together, [PipelineNext]_vars
  PROVE  Together'
<1> USE DEF Together
<1>0. /\ TypeOK /\ TypeOK' /\ AttemptInv /\ pending \subseteq call /\ call \subseteq Batches
      /\ \A t \in Servers : grouped[t] \subseteq pending
  BY RetryInvKept DEF RetryInv, TypeOK
<1>1. CASE Accept \/ RefreshByOther \/ (\E b \in Buckets : Elect(b) \/ Recover(b))
           \/ UNCHANGED vars
  <2>1. UNCHANGED <<call, step, grouped, pending, out, torn>>
    BY <1>1 DEF Accept, RefreshByOther, Elect, Recover, vars, retryVars, attemptVars
  <2>2. QED
    BY <2>1
<1>2. ASSUME grouped' = Nowhere, out' = Unanswered PROVE Together'
  <2>1. \A t \in Servers : grouped'[t] = {}
    BY <1>2 DEF Nowhere
  <2>2. \A x \in pending' : out'[x] = "none"
    BY <1>0, <1>2 DEF Unanswered, TypeOK
  <2>3. QED
    BY <2>1, <2>2
<1>3. CASE BeginFlush
  BY <1>2, <1>3 DEF BeginFlush, StartCall
<1>4. CASE EndFlush
  BY <1>4 DEF EndFlush
<1>5. CASE NoInfo
  BY <1>5 DEF NoInfo, NoTableInfo, Abandon
<1>6. CASE Decide
  BY <1>2, <1>6 DEF Decide, Succeed, ReturnError, RetryAll, ReturnTerminal,
                    RetryLeaderless, Return, NextAttempt
<1>7. CASE AttemptEnds
  BY <1>7 DEF AttemptEnds
<1>8. ASSUME NEW x \in Batches, Route(x) PROVE Together'
  <2>1. CASE RouteMissing(x)
    BY <2>1 DEF RouteMissing, Abandon
  <2>2. ASSUME NEW s, RouteFound(x, s) PROVE Together'
    <3>1. /\ step = "route" /\ grouped' = [grouped EXCEPT ![s] = @ \cup {x}]
          /\ UNCHANGED <<call, pending, out>>
      BY <2>2 DEF RouteFound
    <3>2. /\ torn \subseteq torn'
          /\ \A y \in call, t, u \in Servers :
               t # u /\ BucketOf[y] = BucketOf[x] /\ x \in grouped'[t] /\ y \in grouped'[u]
                 => BucketOf[x] \in torn'
      BY <1>8 DEF Route
    <3>3. \A t \in Servers : \A y \in grouped'[t] : y \in call /\ (y \in grouped[t] \/ y = x)
      BY <1>0, <3>1 DEF TypeOK
    <3>4. ASSUME NEW t \in Servers, NEW u \in Servers, NEW y \in grouped'[t],
                 NEW z \in grouped'[u], BucketOf[y] = BucketOf[z], BucketOf[y] \notin torn',
                 t # u, call # {}
          PROVE  FALSE
      <4>1. y # x /\ z # x
        BY <3>2, <3>3, <3>4
      <4>2. y \in grouped[t] /\ z \in grouped[u]
        BY <3>3, <4>1
      <4>3. QED
        BY <3>1, <3>2, <3>4, <4>2
    <3>5. QED
      BY <3>1, <3>2, <3>4
  <2>3. QED
    BY <1>8, <2>1, <2>2 DEF Route
<1>9. ASSUME NEW s \in Servers, ServerAnswers(s), torn' = torn PROVE Together'
  <2>1. PICK answer, kept : answer \in [grouped[s] -> Answers] /\ Answered(s, answer, kept)
    <3>1. PICK refused \in SUBSET Led(s), kept \in SUBSET Led(s) :
            Answered(s, [x \in grouped[s] |->
                         IF x \notin Led(s) THEN "leaderless"
                         ELSE IF x \in refused THEN "refused" ELSE "ok"], kept)
      BY <1>9 DEF ServerAnswers
    <3>2. [x \in grouped[s] |->
                         IF x \notin Led(s) THEN "leaderless"
                         ELSE IF x \in refused THEN "refused" ELSE "ok"]
            \in [grouped[s] -> Answers]
      BY DEF Answers
    <3>3. QED
      BY <3>1, <3>2
  <2>2. /\ step = "send" /\ UNCHANGED <<step, call, pending>>
        /\ out' = [x \in Batches |-> IF x \in grouped[s] THEN answer[x] ELSE out[x]]
        /\ grouped' = [grouped EXCEPT ![s] = {}]
    BY <2>1 DEF Answered
  <2>3. \A t \in Servers : grouped'[t] \subseteq grouped[t]
    BY <1>0, <2>2 DEF TypeOK
  <2>4. /\ \A x \in grouped[s] : out'[x] # "none" /\ out[x] = "none"
        /\ \A x \in pending : x \notin grouped[s] => out'[x] = out[x]
        /\ \A x \in pending : out[x] = "none" => \E t \in Servers : x \in grouped[t]
    <3>1. \A x \in grouped[s] : Waiting(x) /\ x \in Batches
      BY <1>0 DEF Waiting
    <3>2. \A x \in pending : out[x] = "none" => Waiting(x)
      BY <1>0, <2>2 DEF AttemptInv
    <3>3. \A x \in grouped[s] : out[x] = "none" /\ out'[x] = answer[x] /\ answer[x] # "none"
      BY <1>0, <2>1, <2>2, <3>1 DEF AttemptInv, Answers
    <3>4. unrouted = {}
      BY <1>0, <2>2 DEF AttemptInv
    <3>5. QED
      BY <1>0, <2>2, <3>2, <3>3, <3>4 DEF Waiting
  <2>5. ASSUME NEW x \in pending, NEW y \in pending, BucketOf[x] = BucketOf[y],
               BucketOf[x] \notin torn, out'[x] # "none", call # {}
        PROVE  out'[y] # "none"
    <3>1. CASE x \in grouped[s]
      <4>1. out[y] = "none"
        BY <2>2, <2>4, <2>5, <3>1
      <4>2. PICK t \in Servers : y \in grouped[t]
        BY <2>4, <4>1
      <4>3. t = s
        BY <2>2, <2>5, <3>1, <4>2
      <4>4. QED
        BY <2>4, <4>2, <4>3
    <3>2. CASE x \notin grouped[s]
      BY <2>2, <2>4, <2>5, <3>2
    <3>3. QED
      BY <3>1, <3>2
  <2>6. QED
    BY <1>9, <2>2, <2>3, <2>5
<1>10. ASSUME NEW s \in Servers, ServerFails(s) PROVE Together'
  BY <1>10 DEF ServerFails, RequestFails, Abandon
<1>11. QED
  BY <1>1, <1>3, <1>4, <1>5, <1>6, <1>7, <1>8, <1>9, <1>10 DEF PipelineNext, CallStep

(* What is appended for a bucket, if nothing of it is stored. *)
LEMMA SettledStays ==
  ASSUME PipelineTypes, AcceptedInOrder, NEW b \in Buckets, Settled(b),
         UNCHANGED <<call, reported>>, call \subseteq Batches, log' = log \/ Appended,
         \A x \in Batches : BucketOf[x] = b => ~(stored'[x] > stored[x]) \/ log' = log
  PROVE  Settled(b)'
<1>1. log[b] \in Seq(Batches) /\ flight \in Seq(Batches)
  BY DEF PipelineTypes
<1>2. CASE log' = log
  BY <1>2 DEF Settled
<1>3. CASE log' # log
  <2> DEFINE new == {x \in Batches : BucketOf[x] = b /\ stored'[x] > stored[x]}
  <2>1. log'[b] = log[b] \o InOrder(new)
    BY <1>3 DEF Appended
  <2>2. new = {}
    BY <1>3
  <2>3. /\ InOrder(new) \in Seq(Batches)
        /\ \A i \in 1 .. Len(InOrder(new)) : FALSE
    BY <1>1, <2>2, InOrderRises DEF AcceptedInOrder
  <2> HIDE DEF new
  <2>4. \A x, y : Behind(log[b], x, y) => Behind(log'[b], x, y)
    BY <1>1, <2>1, <2>3, BehindConcat
  <2>5. QED
    BY <2>4 DEF Settled
<1>4. QED
  BY <1>2, <1>3

(* What the call stores of a bucket all at once settles it. *)
LEMMA SettledAtOnce ==
  ASSUME PipelineTypes, LogInv, AcceptedInOrder, NEW b \in Buckets, Appended,
         UNCHANGED <<call, reported>>,
         \A x \in call : BucketOf[x] = b => x \in Batches /\ stored'[x] > stored[x],
         \A x \in Batches : stored'[x] > stored[x] => x \in call
  PROVE  Settled(b)'
<1> DEFINE new == {x \in Batches : BucketOf[x] = b /\ stored'[x] > stored[x]}
           t == InOrder(new)
<1>1. log[b] \in Seq(Batches) /\ flight \in Seq(Batches) /\ log'[b] = log[b] \o t
  BY DEF PipelineTypes, Appended
<1>2. /\ t \in Seq(Batches) /\ Rising(t)
      /\ \A i \in 1 .. Len(t) : t[i] \in new
  BY <1>1, InOrderRises DEF AcceptedInOrder
<1>3. \A y \in new : \E k \in 1 .. Len(t) : t[k] = y
  <2>1. ASSUME NEW y \in new PROVE \E k \in 1 .. Len(t) : t[k] = y
    <3>1. PICK i \in 1 .. Len(flight) : flight[i] = y
      BY <1>1, ToSetContains DEF LogInv, Contains
    <3>2. QED
      BY <1>1, <3>1, InOrderHolds
  <2>2. QED
    BY <2>1
<1>4. \A y \in call : BucketOf[y] = b => y \in new
  OBVIOUS
<1>5. \A i \in 1 .. Len(t) : t[i] \in Nat
  BY <1>2, PipelineAssumption
<1> HIDE DEF new, t
<1>6. ASSUME NEW x \in call \cup reported, NEW y \in call, BucketOf[y] = b, x < y
      PROVE  Behind(log'[b], x, y)
  <2>1. PICK k \in 1 .. Len(t) : t[k] = y
    BY <1>3, <1>4, <1>6
  <2>2. ASSUME NEW i \in 1 .. Len(t), t[i] = x PROVE i < k
    <3>1. k < i => t[k] < t[i]
      BY <1>2 DEF Rising
    <3>2. k = i => x = y
      BY <2>1, <2>2
    <3>3. QED
      BY <1>5, <1>6, <2>1, <2>2, <3>1, <3>2
  <2>3. QED
    BY <1>1, <1>2, <2>1, <2>2, BehindConcat
<1>7. QED
  BY <1>6 DEF Settled

OrderInv == LogInv /\ AcceptedInOrder /\ WholeBuckets /\ Together /\ SettledInv

(* A request stores of its own batches only. *)
LEMMA StoresOwn ==
  ASSUME RetryInv, NEW s \in Servers, ServerAnswers(s) \/ ServerFails(s)
  PROVE  \A x \in Batches : stored'[x] > stored[x] => x \in grouped[s]
<1>0. stored \in [Batches -> Nat]
  BY DEF RetryInv, TypeOK
<1>1. ASSUME NEW kept, Store(kept), NEW x \in Batches, x \notin kept
      PROVE  ~(stored'[x] > stored[x])
  BY <1>0, <1>1 DEF Store
<1>2. CASE ServerAnswers(s)
  <2>1. PICK refused \in SUBSET Led(s), kept \in SUBSET Led(s) :
          Answered(s, [x \in grouped[s] |->
                       IF x \notin Led(s) THEN "leaderless"
                       ELSE IF x \in refused THEN "refused" ELSE "ok"], kept)
    BY <1>2 DEF ServerAnswers
  <2> DEFINE answer == [x \in grouped[s] |->
                         IF x \notin Led(s) THEN "leaderless"
                         ELSE IF x \in refused THEN "refused" ELSE "ok"]
  <2>2. Store({x \in grouped[s] : answer[x] = "ok"} \cup kept)
    BY <2>1 DEF Answered
  <2>3. {x \in grouped[s] : answer[x] = "ok"} \cup kept \subseteq grouped[s]
    BY DEF Led
  <2>4. QED
    BY <1>1, <2>2, <2>3
<1>3. CASE ServerFails(s)
  <2>1. PICK kept \in SUBSET Led(s) : RequestFails(s, kept)
    BY <1>3 DEF ServerFails
  <2>2. Store(kept) /\ kept \subseteq grouped[s]
    BY <2>1 DEF RequestFails
  <2>3. QED
    BY <1>1, <2>2
<1>4. QED
  BY <1>2, <1>3

(* A bucket that is acknowledged by one answer is settled by it. *)
LEMMA AnswerSettles ==
  ASSUME RetryInv, OrderInv, NEW s \in Servers, ServerAnswers(s), torn' = torn,
         UNCHANGED <<call, reported>>
  PROVE  SettledInv'
<1>0. /\ TypeOK /\ PipelineTypes /\ AttemptInv /\ pending \subseteq call
      /\ call \subseteq Batches /\ pending \subseteq Batches
      /\ stored \in [Batches -> Nat]
      /\ \A x \in Batches : BucketOf[x] \in Buckets
      /\ \A t \in Servers : grouped[t] \subseteq pending
  BY BucketOfType DEF RetryInv, TypeOK
<1>1. PICK refused \in SUBSET Led(s), kept \in SUBSET Led(s) :
        Answered(s, [y \in grouped[s] |->
                     IF y \notin Led(s) THEN "leaderless"
                     ELSE IF y \in refused THEN "refused" ELSE "ok"], kept)
  BY DEF ServerAnswers
<1> DEFINE answer == [y \in grouped[s] |->
                         IF y \notin Led(s) THEN "leaderless"
                         ELSE IF y \in refused THEN "refused" ELSE "ok"]
<1>2. /\ step = "send" /\ UNCHANGED <<step, attempt, pending, unrouted>>
      /\ out' = [y \in Batches |-> IF y \in grouped[s] THEN answer[y] ELSE out[y]]
      /\ Store({y \in grouped[s] : answer[y] = "ok"} \cup kept)
  BY <1>1 DEF Answered
<1>3. /\ \A y \in grouped[s] : out'[y] = IF y \notin Led(s) THEN "leaderless"
                                        ELSE IF y \in refused THEN "refused" ELSE "ok"
      /\ \A y \in Batches : y \notin grouped[s] => out'[y] = out[y]
  BY <1>0, <1>2
<1>4. Appended /\ unrouted = {}
  BY <1>0, <1>2 DEF ServerAnswers, AttemptInv
<1>5. \A y \in Batches : stored'[y] > stored[y] => y \in grouped[s]
  BY StoresOwn
<1>6. /\ \A y \in pending : out[y] = "none" <=> \E t \in Servers : y \in grouped[t]
  BY <1>0, <1>2, <1>4 DEF AttemptInv, Waiting
<1>7. ASSUME NEW x \in call, Settled(BucketOf[x]),
             \A y \in grouped[s] : BucketOf[y] # BucketOf[x]
      PROVE  Settled(BucketOf[x])'
  <2>1. \A y \in Batches : BucketOf[y] = BucketOf[x] => ~(stored'[y] > stored[y])
    BY <1>5, <1>7
  <2>2. BucketOf[x] \in Buckets
    BY <1>0
  <2>3. QED
    BY <1>0, <1>4, <1>7, <2>1, <2>2, SettledStays DEF OrderInv
<1>8. ASSUME attempt = 1, NEW x \in call \ pending, BucketOf[x] \notin torn
      PROVE  Settled(BucketOf[x])'
  <2>1. \A y \in grouped[s] : BucketOf[y] # BucketOf[x]
    BY <1>0, <1>2, <1>8 DEF OrderInv, WholeBuckets
  <2>2. Settled(BucketOf[x])
    BY <1>2, <1>8 DEF OrderInv, SettledInv
  <2>3. QED
    BY <1>7, <2>1, <2>2
<1>9. ASSUME NEW x \in pending, BucketOf[x] \notin torn, out'[x] = "ok",
             \A y \in pending : BucketOf[y] = BucketOf[x] => out'[y] # "refused"
      PROVE  Settled(BucketOf[x])'
  <2> DEFINE b == BucketOf[x]
  <2>0. /\ call # {}
        /\ \A t, u \in Servers : \A y \in grouped[t], z \in grouped[u] :
             BucketOf[y] = BucketOf[z] /\ BucketOf[y] \notin torn => t = u
        /\ \A y, z \in pending :
             BucketOf[y] = BucketOf[z] /\ BucketOf[y] \notin torn /\ out[y] # "none"
               => out[z] # "none"
    BY <1>0, <1>2, <1>9 DEF OrderInv, Together
  <2>1. CASE x \in grouped[s]
    <3>1. ASSUME NEW y \in call, BucketOf[y] = b PROVE y \in grouped[s]
      <4>1. y \in pending
        BY <1>2, <1>9, <3>1 DEF OrderInv, WholeBuckets
      <4>2. out[x] = "none"
        BY <1>6, <1>9, <2>1
      <4>3. out[y] = "none"
        BY <1>9, <2>0, <3>1, <4>1, <4>2
      <4>4. PICK t \in Servers : y \in grouped[t]
        BY <1>6, <4>1, <4>3
      <4>5. t = s
        BY <1>9, <2>0, <2>1, <3>1, <4>4
      <4>6. QED
        BY <4>4, <4>5
    <3>2. leader[b] = s
      BY <1>3, <1>9, <2>1 DEF Led
    <3>3. ASSUME NEW y \in call, BucketOf[y] = b
          PROVE  y \in Batches /\ stored'[y] > stored[y]
      <4>1. y \in grouped[s] /\ y \in Led(s) /\ y \in pending /\ y \in Batches
        BY <1>0, <3>1, <3>2, <3>3 DEF Led
      <4>2. out'[y] = "ok"
        BY <1>3, <1>9, <3>3, <4>1
      <4>3. answer[y] = "ok"
        BY <1>2, <4>1, <4>2
      <4> HIDE DEF answer
      <4>4. stored'[y] = stored[y] + 1 /\ stored[y] \in Nat
        BY <1>0, <1>2, <4>1, <4>3 DEF Store
      <4>5. QED
        BY <4>1, <4>4
    <3>4. \A y \in Batches : stored'[y] > stored[y] => y \in call
      BY <1>0, <1>5
    <3>5. b \in Buckets
      BY <1>0
    <3> HIDE DEF b
    <3>6. Settled(b)'
      BY <1>0, <1>4, <3>3, <3>4, <3>5, SettledAtOnce DEF OrderInv
    <3>7. QED
      BY <3>6 DEF b
  <2>2. CASE x \notin grouped[s]
    <3>1. out[x] = "ok"
      BY <1>0, <1>3, <1>9, <2>2
    <3>2. \A y \in grouped[s] : BucketOf[y] # b
      BY <1>0, <1>6, <1>9, <2>0, <3>1
    <3>3. \A y \in pending : BucketOf[y] = b => out[y] # "refused"
      BY <1>0, <1>3, <1>9, <3>2
    <3>4. Settled(b)
      BY <1>2, <1>9, <3>1, <3>3 DEF OrderInv, SettledInv
    <3>5. QED
      BY <1>0, <1>7, <3>2, <3>4
  <2>3. QED
    BY <2>1, <2>2
<1>10. QED
  BY <1>2, <1>8, <1>9 DEF SettledInv

(* Each step keeps what is settled. *)
LEMMA SettledKept ==
  ASSUME RetryInv, OrderInv, [PipelineNext]_vars
  PROVE  SettledInv'
<1>0. /\ TypeOK /\ TypeOK' /\ PipelineTypes /\ AttemptInv /\ pending \subseteq call
      /\ call \subseteq Batches /\ attempt \in {0, 1}
      /\ \A x \in Batches : BucketOf[x] \in Buckets
      /\ \A t \in Servers : grouped[t] \subseteq pending
  BY RetryInvKept, BucketOfType DEF RetryInv, TypeOK, MaxAttempts
<1>1. CASE Accept \/ RefreshByOther \/ (\E b \in Buckets : Elect(b) \/ Recover(b))
           \/ UNCHANGED vars
  <2>1. UNCHANGED <<call, step, attempt, pending, out, torn, reported, log, returned>>
    BY <1>1 DEF Accept, RefreshByOther, Elect, Recover, vars, retryVars, attemptVars,
                writerVars
  <2>2. \A b : Settled(b)' <=> Settled(b)
    BY <2>1 DEF Settled
  <2>3. QED
    BY <2>1, <2>2 DEF OrderInv, SettledInv
<1>2. \A x \in pending' : Unanswered[x] = "none"
  BY <1>0 DEF TypeOK, Unanswered
<1>3. CASE BeginFlush
  <2>1. step' = "route" /\ attempt' = 0 /\ out' = Unanswered
    BY <1>3 DEF BeginFlush, StartCall
  <2>2. QED
    BY <1>2, <2>1 DEF SettledInv
<1>4. CASE EndFlush
  <2>1. step' = "return" /\ call' = {}
    BY <1>4 DEF EndFlush
  <2>2. QED
    BY <2>1 DEF SettledInv
<1>5. CASE CallStep
  <2>0. /\ call' = call /\ reported' = reported /\ step # "return"
    BY <1>5, CallSteps DEF writerVars
  <2>1. log' = log => \A b : Settled(b) => Settled(b)'
    BY <2>0 DEF Settled
  <2>2. ASSUME log' = log, UNCHANGED <<attempt, pending>>, torn \subseteq torn', step' # "return",
               out' = Unanswered \/ out' = out
        PROVE  SettledInv'
    <3>1. CASE out' = Unanswered
      BY <1>2, <2>0, <2>1, <2>2, <3>1 DEF OrderInv, SettledInv
    <3>2. CASE out' = out
      BY <2>0, <2>1, <2>2, <3>2 DEF OrderInv, SettledInv
    <3>3. QED
      BY <2>2, <3>1, <3>2
  <2>3. CASE NoInfo /\ torn' = torn
    BY <2>2, <2>3 DEF NoInfo, NoTableInfo, Abandon
  <2>4. CASE AttemptEnds /\ UNCHANGED <<log, routes, faultVars, torn>>
    BY <2>2, <2>4 DEF AttemptEnds, attemptVars
  <2>5. ASSUME NEW x \in Batches, Route(x) PROVE SettledInv'
    <3>1. log' = log /\ torn \subseteq torn'
      BY <2>5 DEF Route
    <3>2. \A s : RouteFound(x, s) => SettledInv'
      BY <2>2, <3>1 DEF RouteFound
    <3>3. RouteMissing(x) => SettledInv'
      BY <2>2, <3>1 DEF RouteMissing, Abandon
    <3>4. QED
      BY <2>5, <3>2, <3>3 DEF Route
  <2>6. ASSUME NEW s \in Servers, ServerAnswers(s), torn' = torn PROVE SettledInv'
    BY <2>0, <2>6, AnswerSettles
  <2>7. ASSUME NEW s \in Servers, ServerFails(s), torn' = torn PROVE SettledInv'
    <3>1. /\ step' = "decide" /\ out' = Unanswered /\ UNCHANGED <<attempt, pending>>
          /\ Appended
      BY <2>7 DEF ServerFails, RequestFails, Abandon
    <3>2. ASSUME attempt = 1, NEW x \in call \ pending, BucketOf[x] \notin torn
          PROVE  Settled(BucketOf[x])'
      <4>1. \A y \in Batches : BucketOf[y] = BucketOf[x] => ~(stored'[y] > stored[y])
        <5>1. \A y \in grouped[s] : BucketOf[y] # BucketOf[x]
          BY <1>0, <2>0, <3>2 DEF OrderInv, WholeBuckets
        <5>2. QED
          BY <2>7, <5>1, StoresOwn
      <4>2. Settled(BucketOf[x]) /\ BucketOf[x] \in Buckets
        BY <1>0, <2>0, <3>2 DEF OrderInv, SettledInv
      <4>3. QED
        BY <1>0, <2>0, <3>1, <4>1, <4>2, SettledStays DEF OrderInv
    <3>3. QED
      BY <1>2, <2>0, <2>7, <3>1, <3>2 DEF SettledInv
  <2>8. CASE Decide /\ torn' = torn
    <3>0. log' = log
      BY <2>8 DEF Decide
    <3>1. ASSUME NEW x \in call, BucketOf[x] \notin torn, step = "decide",
                 err \in {"nil", "partial"}, Terminal = {}
          PROVE  Settled(BucketOf[x]) \/ (x \in pending /\ out[x] = "leaderless")
      <4>1. CASE x \notin pending
        <5>1. attempt = 1
          BY <1>0, <2>0, <4>1 DEF RetryInv, ResultInv
        <5>2. QED
          BY <2>0, <3>1, <4>1, <5>1 DEF OrderInv, SettledInv
      <4>2. CASE x \in pending
        <5>1. \A y \in pending : out[y] # "refused"
          BY <3>1, BucketsWithAnswer
        <5>2. out[x] \in {"ok", "leaderless"}
          BY <1>0, <3>1, <4>2, <5>1 DEF TypeOK, AttemptInv, Answers
        <5>3. QED
          BY <2>0, <3>1, <4>2, <5>1, <5>2 DEF OrderInv, SettledInv
      <4>3. QED
        BY <4>1, <4>2
    <3>2. CASE Succeed
      <4>1. /\ step = "decide" /\ err = "nil" /\ step' = "return"
            /\ UNCHANGED <<pending, out>>
        BY <3>2 DEF Succeed, Return, attemptVars
      <4>2. Terminal = {} /\ \A x \in pending : out[x] = "ok"
        BY <1>0, <4>1 DEF AttemptInv, Terminal, BucketsWith
      <4>3. QED
        BY <2>0, <2>1, <2>8, <3>0, <3>1, <4>1, <4>2 DEF SettledInv
    <3>3. CASE ReturnError
      <4>1. step' = "return" /\ returned'.error # "nil"
        BY <3>3 DEF ReturnError, Return
      <4>2. QED
        BY <4>1 DEF SettledInv
    <3>4. CASE ReturnTerminal
      <4>1. /\ step = "decide" /\ err = "partial" /\ step' = "return"
            /\ UNCHANGED <<pending, out>>
            /\ returned'.error = "nil" => Terminal = {}
        BY <3>4 DEF ReturnTerminal, Return, attemptVars
      <4>2. QED
        BY <2>0, <2>1, <2>8, <3>0, <3>1, <4>1 DEF SettledInv
    <3>5. CASE RetryAll
      <4>1. attempt = 0 /\ pending' = pending /\ out' = Unanswered /\ step' = "route"
        BY <3>5 DEF RetryAll, NextAttempt
      <4>2. pending = call
        BY <2>0, <4>1 DEF RetryInv, ResultInv
      <4>3. QED
        BY <1>2, <2>0, <4>1, <4>2 DEF SettledInv
    <3>6. CASE RetryLeaderless
      <4>1. /\ step = "decide" /\ err = "partial" /\ Terminal = {}
            /\ pending' = Filtered /\ out' = Unanswered /\ step' = "route"
        BY <3>6 DEF RetryLeaderless, NextAttempt
      <4>2. \A x \in pending : out[x] = "leaderless" => x \in Filtered
        BY BucketsWithAnswer
      <4>3. QED
        BY <1>2, <2>0, <2>1, <2>8, <3>0, <3>1, <4>1, <4>2 DEF SettledInv
    <3>7. QED
      BY <2>8, <3>2, <3>3, <3>4, <3>5, <3>6 DEF Decide
  <2>9. QED
    BY <1>5, <2>3, <2>4, <2>5, <2>6, <2>7, <2>8 DEF CallStep
<1>6. QED
  BY <1>1, <1>3, <1>4, <1>5 DEF PipelineNext

(* A call stores nothing of what was reported before, and what a flush     *)
(* reports is settled.                                                     *)
LEMMA ReportedKept ==
  ASSUME RetryInv, Disturbances, OrderInv, ReportedInOrder, [PipelineNext]_vars
  PROVE  ReportedInOrder'
<1>0. /\ PipelineTypes /\ LogInv /\ AcceptedInOrder /\ SettledInv
      /\ Batches \subseteq Nat /\ pending \subseteq call /\ call \subseteq Batches
      /\ reported \subseteq Batches
      /\ \A s \in Servers : grouped[s] \subseteq call
      /\ \A x \in Batches : BucketOf[x] \in Buckets
  BY BucketOfType, PipelineAssumption DEF RetryInv, OrderInv, AcceptedInOrder, TypeOK
<1>1. \A x \in reported, y \in call : x < y
  <2> SUFFICES ASSUME NEW x \in reported, NEW y \in call PROVE x < y
    OBVIOUS
  <2>1. flight \in Seq(Batches) /\ y \in ToSet(flight)
    BY <1>0 DEF PipelineTypes, LogInv
  <2>2. PICK i \in 1 .. Len(flight) : flight[i] = y
    BY <2>1, ToSetContains DEF Contains
  <2>3. QED
    BY <1>0, <2>2 DEF AcceptedInOrder
<1>2. ASSUME UNCHANGED <<log, reported, hidden>>, torn \subseteq torn' PROVE ReportedInOrder'
  BY <1>2 DEF ReportedInOrder
<1>3. CASE Accept \/ BeginFlush \/ RefreshByOther
           \/ (\E b \in Buckets : Elect(b) \/ Recover(b)) \/ UNCHANGED vars
  BY <1>2, <1>3 DEF Accept, BeginFlush, RefreshByOther, Elect, Recover, vars, writerVars
<1>4. CASE EndFlush
  <2>1. step = "return" /\ call # {} /\ UNCHANGED <<log, torn>>
    BY <1>4 DEF EndFlush
  <2>2. CASE returned.error # "nil"
    BY <1>2, <1>4, <2>1, <2>2 DEF EndFlush
  <2>3. CASE returned.error = "nil"
    <3>1. /\ reported' = reported \cup call
          /\ hidden' = IF disturbed THEN hidden \cup {x \in pending : out[x] = "leaderless"}
                       ELSE hidden
      BY <1>4, <2>3 DEF EndFlush
    <3>2. SUFFICES ASSUME NEW x \in reported' \ hidden', NEW y \in reported' \ hidden', x < y,
                          BucketOf[x] = BucketOf[y], BucketOf[x] \notin torn
                   PROVE  Behind(log[BucketOf[y]], x, y)
      BY <2>1 DEF ReportedInOrder
    <3>3. x \in reported \cup call /\ y \in reported \cup call /\ hidden \subseteq hidden'
      BY <3>1, <3>2
    <3>4. CASE y \in call
      <4>1. ~(y \in pending /\ out[y] = "leaderless")
        BY <2>1, <2>3, <3>1, <3>2 DEF Disturbances
      <4>2. Settled(BucketOf[y])
        BY <1>0, <2>1, <2>3, <3>2, <3>4, <4>1 DEF SettledInv
      <4>3. QED
        BY <3>2, <3>3, <3>4, <4>2 DEF Settled
    <3>5. CASE y \notin call
      <4>1. y \in reported
        BY <3>3, <3>5
      <4>2. x \notin call
        <5>1. x \in call => y < x
          BY <1>1, <4>1
        <5>2. x \in Nat /\ y \in Nat
          BY <1>0, <3>3
        <5>3. QED
          BY <3>2, <5>1, <5>2
      <4>3. QED
        BY <3>2, <3>3, <4>1, <4>2 DEF ReportedInOrder
    <3>6. QED
      BY <3>4, <3>5
  <2>4. QED
    BY <2>2, <2>3
<1>5. CASE CallStep
  <2>0. UNCHANGED <<reported, hidden>>
    BY <1>5, CallSteps DEF writerVars
  <2>1. ASSUME NEW s \in Servers, ServerAnswers(s) \/ ServerFails(s), torn' = torn
        PROVE  ReportedInOrder'
    <3>1. Appended /\ \A x \in Batches : stored'[x] > stored[x] => x \in call
      BY <1>0, <2>1, StoresOwn DEF ServerAnswers, ServerFails
    <3>2. SUFFICES ASSUME NEW x \in reported \ hidden, NEW y \in reported \ hidden, x < y,
                          BucketOf[x] = BucketOf[y], BucketOf[x] \notin torn
                   PROVE  Behind(log'[BucketOf[y]], x, y)
      BY <2>0, <2>1 DEF ReportedInOrder
    <3> DEFINE b == BucketOf[y]
               new == {z \in Batches : BucketOf[z] = b /\ stored'[z] > stored[z]}
               t == InOrder(new)
    <3>3. b \in Buckets /\ log[b] \in Seq(Batches) /\ flight \in Seq(Batches)
      BY <1>0, <3>2 DEF PipelineTypes
    <3>4. log'[b] = log[b] \o t
      BY <3>1, <3>3 DEF Appended
    <3>5. x \notin new
      <4>1. x \in Nat /\ ~(x < x)
        BY <1>0, <3>2
      <4>2. x \notin call
        BY <1>1, <3>2, <4>1
      <4>3. QED
        BY <3>1, <4>2
    <3>6. Rising(flight)
      BY <1>0 DEF AcceptedInOrder
    <3> HIDE DEF new
    <3>7. t \in Seq(Batches) /\ \A i \in 1 .. Len(t) : t[i] \in new
      BY <3>3, <3>6, InOrderRises
    <3> HIDE DEF t
    <3>8. \A i \in 1 .. Len(t) : t[i] # x
      BY <3>5, <3>7
    <3>9. Behind(log[b], x, y)
      BY <3>2 DEF ReportedInOrder
    <3> HIDE DEF b
    <3>10. Behind(log[b] \o t, x, y)
      BY <3>3, <3>7, <3>8, <3>9, BehindConcat
    <3>11. QED
      BY <3>4, <3>10 DEF b
  <2>2. CASE torn' = torn /\ (NoInfo \/ Decide)
    BY <1>2, <2>0, <2>2 DEF NoInfo, Decide
  <2>3. CASE AttemptEnds /\ UNCHANGED <<log, routes, faultVars, torn>>
    BY <1>2, <2>0, <2>3
  <2>4. ASSUME NEW x \in Batches, Route(x) PROVE ReportedInOrder'
    BY <1>2, <2>0, <2>4 DEF Route
  <2>5. QED
    BY <1>5, <2>1, <2>2, <2>3, <2>4 DEF CallStep
<1>6. QED
  BY <1>3, <1>4, <1>5 DEF PipelineNext

LastInv == RetryInv /\ Disturbances /\ OrderInv /\ ReportedInOrder

(* client/writer.go, restorePending, which puts back in front what failed, *)
(* over client/table.go, AppendLog and UpsertKV with their retry: of a     *)
(* bucket's batches that are reported the last one accepted was stored     *)
(* last, unless an attempt sent them to two servers.                       *)
THEOREM SpecLastWriteWins == Spec => []LastWriteWins
<1>1. PipelineInit => LastInv
  <2> SUFFICES ASSUME PipelineInit PROVE LastInv
    OBVIOUS
  <2>1. RetryInv /\ Disturbances
    BY InitRetryInv, InitDisturbances
  <2>2. LogInv /\ AcceptedInOrder
    BY InitOrder
  <2>3. WholeBuckets /\ Together /\ SettledInv /\ ReportedInOrder
    <3>1. call = {} /\ pending = {} /\ reported = {}
      BY DEF PipelineInit, Init
    <3>2. QED
      BY <3>1 DEF WholeBuckets, Together, SettledInv, ReportedInOrder
  <2>4. QED
    BY <2>1, <2>2, <2>3 DEF LastInv, OrderInv
<1>2. LastInv /\ [PipelineNext]_vars => LastInv'
  <2> SUFFICES ASSUME LastInv, [PipelineNext]_vars PROVE LastInv'
    OBVIOUS
  <2>1. RetryInv /\ TypeOK /\ PipelineTypes /\ OrderInv /\ RetryStep
    BY RetrySteps DEF LastInv, RetryInv
  <2>2. RetryInv' /\ Disturbances' /\ LogInv'
    BY <2>1, RetryInvKept, DisturbancesKept, LogInvKept DEF LastInv, OrderInv
  <2>3. AcceptedInOrder' /\ WholeBuckets' /\ Together'
    BY <2>1, OrderKept, WholeBucketsKept, TogetherKept DEF OrderInv
  <2>4. SettledInv' /\ ReportedInOrder'
    BY <2>1, SettledKept, ReportedKept DEF LastInv
  <2>5. QED
    BY <2>2, <2>3, <2>4 DEF LastInv, OrderInv
<1>3. LastInv => LastWriteWins
  <2> SUFFICES ASSUME LastInv PROVE LastWriteWins
    OBVIOUS
  <2>1. PipelineTypes /\ reported \subseteq Batches
    BY DEF LastInv, RetryInv, OrderInv, AcceptedInOrder
  <2>2. ASSUME NEW x \in reported \ hidden, NEW y \in reported \ hidden, x < y,
               BucketOf[x] = BucketOf[y], BucketOf[x] \notin torn
        PROVE  LastIndex(x) < LastIndex(y)
    <3>1. Behind(log[BucketOf[y]], x, y) /\ x \in Batches /\ y \in Batches
      BY <2>1, <2>2 DEF LastInv, ReportedInOrder
    <3>2. QED
      BY <2>1, <2>2, <3>1, BehindIsLast
  <2>3. QED
    BY <2>2 DEF LastWriteWins
<1>4. QED
  BY <1>1, <1>2, <1>3, PTL DEF Spec

===============================================================================
