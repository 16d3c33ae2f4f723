------------------------- MODULE BufferedWriterProofs -------------------------
(***************************************************************************)
(* Theorems about BufferedWriter, for every set of callers, every option   *)
(* a writer may be made with and every bound.                              *)
(***************************************************************************)
EXTENDS BufferedWriter, SequenceTheorems, TLAPS

-------------------------------------------------------------------------------
(* Lemmas about the model's operators *)

(* What a Write adds is a sequence of batches, as long as its argument. *)
LEMMA BatchesOfType ==
  ASSUME NEW r \in Seq(Nat), accepted \in Seq(Batch)
  PROVE  BatchesOf(r) \in Seq(Batch) /\ Len(BatchesOf(r)) = Len(r)
<1>1. DOMAIN r = 1 .. Len(r) /\ Len(r) \in Nat /\ Len(accepted) \in Nat
  OBVIOUS
<1>2. \A i \in 1 .. Len(r) : [number |-> Len(accepted) + i, size |-> r[i]] \in Batch
  BY <1>1 DEF Batch
<1>3. BatchesOf(r) = [i \in 1 .. Len(r) |->
                        [number |-> Len(accepted) + i, size |-> r[i]]]
  BY <1>1 DEF BatchesOf
<1>4. BatchesOf(r) \in [1 .. Len(r) -> Batch]
  BY <1>2, <1>3
<1>5. QED
  BY <1>1, <1>4, IsASeq, LenProperties

(* What a call writes is a sequence of sizes, and nothing if it is no      *)
(* Write.                                                                  *)
LEMMA RequestType ==
  ASSUME NEW p \in Callers, call \in [Callers -> Call]
  PROVE  /\ call[p].request \in Seq(Nat)
         /\ call[p].request \in Requests \/ call[p].request = <<>>
<1>1. call[p].request \in Requests \cup {<<>>}
  BY DEF Call
<1>2. <<>> \in Seq(Nat)
  OBVIOUS
<1>3. QED
  BY <1>1, <1>2, WriterAssumption

-------------------------------------------------------------------------------
(* The type invariant, action by action of writer.go. *)
LEMMA InitType == Init => TypeOK
<1> SUFFICES ASSUME Init PROVE TypeOK
  OBVIOUS
<1>1. NoCall \in Call
  BY DEF NoCall, Call
<1>2. /\ <<>> \in Seq(Batch)
      /\ call \in [Callers -> Call]
  BY <1>1 DEF Init
<1>3. closed \in BOOLEAN /\ flushInFlight \in BOOLEAN /\ timer \in BOOLEAN
  BY DEF Init
<1>4. QED
  BY <1>2, <1>3 DEF Init, TypeOK, Flushers, Places

LEMMA NextType == TypeOK /\ [Next]_vars => TypeOK'
<1> SUFFICES ASSUME TypeOK, [Next]_vars PROVE TypeOK'
  OBVIOUS
<1> USE DEF stateVars, bufferVars, flightVars, timerVars, callVars,
            historyVars, Places
<1>1. ASSUME NEW p \in Callers, StartWrite(p) PROVE TypeOK'
  BY <1>1 DEF TypeOK, StartWrite, Call, Flushers
<1>2. ASSUME NEW p \in Callers, StartFlush(p) PROVE TypeOK'
  <2>1. \A c \in Call : \A n \in Nat :
          /\ [c EXCEPT !.mark = n] \in Call
          /\ [c EXCEPT !.mark = n, !.closing = TRUE] \in Call
    BY DEF Call
  <2>2. Len(accepted) \in Nat /\ call[p] \in Call
    BY DEF TypeOK
  <2>3. \E c \in Call : call' = [call EXCEPT ![p] = c]
    <3>1. CASE call' = [call EXCEPT ![p].mark = Len(accepted)]
      BY <3>1, <2>1, <2>2
    <3>2. CASE call' = [call EXCEPT ![p].mark = Len(accepted),
                                    ![p].closing = TRUE]
      BY <3>2, <2>1, <2>2 DEF TypeOK
    <3>3. QED
      BY <3>1, <3>2, <1>2 DEF StartFlush
  <2>4. call' \in [Callers -> Call]
    BY <2>3 DEF TypeOK
  <2>5. QED
    BY <1>2, <2>4 DEF TypeOK, StartFlush, Flushers
<1>3. ASSUME NEW p \in Callers, Cancel(p) PROVE TypeOK'
  BY <1>3 DEF TypeOK, Cancel, Call, Flushers
<1>4. ASSUME NEW p \in Callers, Return(p)
      PROVE  /\ pc' \in [Flushers -> Places]
             /\ call' \in [Callers -> Call]
  BY <1>4 DEF TypeOK, Return, NoCall, Call, Flushers
<1>5. ASSUME NEW p \in Callers, HelperLeaves(p)
      PROVE  helper' \in [Callers -> {"none", "watching", "notifying"}]
  BY <1>5 DEF TypeOK, HelperLeaves
<1>6. ASSUME NEW f \in Flushers,
             NEW next \in Places,
             Broadcast(f, next)
      PROVE  /\ pc' \in [Flushers -> Places]
             /\ call' \in [Callers -> Call]
  BY <1>6 DEF TypeOK, Broadcast, NoCall, Call
<1>7. ASSUME NEW p \in Callers, WriteStep(p) PROVE TypeOK'
  <2>1. CASE WriteClosed(p)
    BY <2>1, <1>4, <1>5 DEF TypeOK, WriteClosed
  <2>2. CASE WriteDirect(p)
    BY <2>2 DEF TypeOK, WriteDirect, Flushers
  <2>3. CASE WriteAccepted(p)
    <3>1. /\ BatchesOf(call[p].request) \in Seq(Batch)
          /\ RequestBytes(call[p].request) \in Nat
      BY BatchesOfType, RequestType, WriterAssumption DEF TypeOK
    <3>2. QED
      BY <3>1, <2>3, <1>4, <1>5, ConcatProperties DEF TypeOK, WriteAccepted
  <2>4. CASE WriteRefused(p)
    BY <2>4, <1>4 DEF TypeOK, WriteRefused
  <2>5. CASE WriteBlocks(p)
    BY <2>5 DEF TypeOK, WriteBlocks, Flushers
  <2>6. CASE WaitCancelled(p)
    BY <2>6, <1>4, <1>5 DEF TypeOK, WaitCancelled
  <2>7. CASE DirectReturns(p)
    <3>1. BatchesOf(call[p].request) \in Seq(Batch)
      BY BatchesOfType, RequestType DEF TypeOK
    <3>2. accepted' \in Seq(Batch) /\ delivered' \in Seq(Batch)
      <4>1. CASE UNCHANGED <<accepted, delivered>>
        BY <4>1 DEF TypeOK
      <4>2. CASE /\ accepted' = accepted \o BatchesOf(call[p].request)
                 /\ delivered' = delivered \o BatchesOf(call[p].request)
        BY <4>2, <3>1, ConcatProperties DEF TypeOK
      <4>3. QED
        BY <4>1, <4>2, <2>7 DEF DirectReturns
    <3>3. UNCHANGED <<stateVars, helper, dropped, failed>>
      BY <2>7 DEF DirectReturns
    <3>4. QED
      BY <3>2, <3>3, <2>7, <1>4 DEF TypeOK, DirectReturns
  <2>8. CASE HelperSeesDone(p)
    BY <2>8 DEF TypeOK, HelperSeesDone
  <2>9. CASE HelperBroadcasts(p)
    <3>1. (IF pc[p] = "waiting" THEN "woken" ELSE pc[p]) \in
            Places
      BY DEF TypeOK, Flushers
    <3>2. p \in Flushers
      BY DEF Flushers
    <3>3. QED
      BY <3>1, <3>2, <2>9, <1>6 DEF TypeOK, HelperBroadcasts
  <2>10. QED
    BY <1>7, <2>1, <2>2, <2>3, <2>4, <2>5, <2>6, <2>7, <2>8, <2>9
       DEF WriteStep
<1>8. ASSUME NEW f \in Flushers, TakePending(f),
             UNCHANGED <<opts, closed, call, helper, historyVars>>,
             callbacks' \in Nat
      PROVE  TypeOK'
  <2>1. timer' \in BOOLEAN /\ flushInFlight' \in BOOLEAN
    BY <1>8 DEF TakePending
  <2>2. pc' \in [Flushers -> Places]
    BY <1>8 DEF TypeOK, TakePending
  <2>3. /\ inflight' = pending /\ inflightBytes' = pendingBytes
        /\ pending' = <<>> /\ pendingBytes' = 0
    BY <1>8 DEF TakePending
  <2>4. QED
    BY <1>8, <2>1, <2>2, <2>3 DEF TypeOK
<1>9. ASSUME NEW p \in Callers, Close(p) PROVE TypeOK'
  <2>1. p \in Flushers
    BY DEF Flushers
  <2>2. QED
    <3>1. closed' \in BOOLEAN /\ timer' \in BOOLEAN
      BY <1>9 DEF Close
    <3>2. Broadcast(p, "idle")
      BY <1>9 DEF Close
    <3>3. /\ pc' \in [Flushers -> Places]
          /\ call' \in [Callers -> Call]
      BY <2>1, <3>2, <1>6
    <3>4. /\ dropped' \in Seq(Batch)
          /\ pending' = <<>> /\ pendingBytes' = 0
          /\ UNCHANGED <<opts, flightVars, callbacks, helper, accepted,
                         delivered, failed>>
      BY <1>9, ConcatProperties DEF Close, TypeOK
    <3>5. QED
      BY <3>1, <3>3, <3>4 DEF TypeOK
<1>10. ASSUME NEW p \in Callers, FlushStep(p) PROVE TypeOK'
  <2>1. CASE FlushRefused(p)
    BY <2>1, <1>4 DEF TypeOK, FlushRefused
  <2>2. CASE BeginFlush(p)
    BY <2>2, <1>8 DEF BeginFlush, Flushers, TypeOK
  <2>3. CASE CloseAfterFlush(p)
    BY <2>3, <1>9 DEF CloseAfterFlush
  <2>4. QED
    BY <1>10, <2>1, <2>2, <2>3 DEF FlushStep
<1>11. ASSUME NEW f \in Flushers, EndOfFlush(f) PROVE TypeOK'
  <2>0. ASSUME NEW next \in {"idle", "close"}, NEW due,
               EndFlush(f, next, due)
        PROVE  /\ pc' \in [Flushers -> Places]
               /\ call' \in [Callers -> Call]
               /\ flushInFlight' \in BOOLEAN /\ timer' \in BOOLEAN
               /\ inflight' = <<>> /\ inflightBytes' = 0
               /\ UNCHANGED <<opts, closed, callbacks, helper>>
    <3>1. flushInFlight' \in BOOLEAN
      BY <2>0 DEF EndFlush
    <3>2. timer' \in BOOLEAN
      BY <2>0 DEF EndFlush
    <3>3. Broadcast(f, next)
      BY <2>0 DEF EndFlush
    <3>4. QED
      BY <3>1, <3>2, <3>3, <2>0, <1>6 DEF EndFlush
  <2>1. CASE FlushSucceeds(f)
    <3>1. \E next \in {"idle", "close"} : EndFlush(f, next, pending # <<>>)
      BY <2>1 DEF FlushSucceeds
    <3>2. QED
      <4>1. delivered' \in Seq(Batch) /\ failed' \in Nat
        BY <2>1, ConcatProperties DEF TypeOK, FlushSucceeds
      <4>2. PICK next \in {"idle", "close"} : EndFlush(f, next, pending # <<>>)
        BY <3>1
      <4>3. QED
        <5>1. UNCHANGED <<bufferVars, accepted, dropped>>
          BY <2>1 DEF FlushSucceeds
        <5>2. QED
          <6>1. /\ pc' \in [Flushers -> Places]
                /\ call' \in [Callers -> Call]
                /\ flushInFlight' \in BOOLEAN /\ timer' \in BOOLEAN
                /\ inflight' = <<>> /\ inflightBytes' = 0
                /\ UNCHANGED <<opts, closed, callbacks, helper>>
            BY <4>2, <2>0
          <6>2. QED
            BY <4>1, <5>1, <6>1 DEF TypeOK
  <2>2. CASE FlushFails(f)
    <3>1. EndFlush(f, "idle", TRUE)
      BY <2>2 DEF FlushFails
    <3>2. pending' \in Seq(Batch) /\ pendingBytes' \in Int /\ failed' \in Nat
      BY <2>2, ConcatProperties DEF TypeOK, FlushFails
    <3>3. QED
      <4>1. UNCHANGED <<accepted, delivered, dropped>>
        BY <2>2 DEF FlushFails
      <4>2. QED
        <5>1. /\ pc' \in [Flushers -> Places]
              /\ call' \in [Callers -> Call]
              /\ flushInFlight' \in BOOLEAN /\ timer' \in BOOLEAN
              /\ inflight' = <<>> /\ inflightBytes' = 0
              /\ UNCHANGED <<opts, closed, callbacks, helper>>
          BY <3>1, <2>0
        <5>2. QED
          BY <3>2, <4>1, <5>1 DEF TypeOK
  <2>3. QED
    BY <1>11, <2>1, <2>2 DEF EndOfFlush
<1>12. CASE TimerFires
  <2>1. timer' \in BOOLEAN
    BY <1>12 DEF TimerFires
  <2>2. callbacks' \in Nat
    BY <1>12 DEF TimerFires, TypeOK
  <2>3. UNCHANGED <<opts, bufferVars, closed, flightVars, callVars, historyVars>>
    BY <1>12 DEF TimerFires
  <2>4. QED
    BY <2>1, <2>2, <2>3 DEF TypeOK
<1>13. CASE Callback
  <2>1. CASE CallbackFlushes
    BY <2>1, <1>8 DEF CallbackFlushes, Flushers, TypeOK
  <2>2. CASE CallbackRefused
    <3>1. timer' \in BOOLEAN
      BY <2>2 DEF TypeOK, CallbackRefused
    <3>2. callbacks' \in Nat
      BY <2>2 DEF TypeOK, CallbackRefused
    <3>3. UNCHANGED <<opts, bufferVars, closed, flightVars, callVars,
                      historyVars>>
      BY <2>2 DEF CallbackRefused
    <3>4. QED
      BY <3>1, <3>2, <3>3 DEF TypeOK
  <2>3. QED
    BY <1>13, <2>1, <2>2 DEF Callback
<1>14. CASE UNCHANGED vars
  BY <1>14 DEF TypeOK, vars
<1>15. ASSUME NEW p \in Callers, PlainClose(p) PROVE TypeOK'
  BY <1>15, <1>9 DEF PlainClose
<1>16. QED
  BY <1>1, <1>2, <1>3, <1>7, <1>10, <1>11, <1>12, <1>13, <1>14, <1>15
     DEF Next

(* Types are kept: no step leaves the writer in a shape the code has not. *)
THEOREM Typing == Spec => []TypeOK
BY InitType, NextType, PTL DEF Spec

-------------------------------------------------------------------------------
(* The steps of the writer sorted by what they do to its batches *)

(* A step that moves no batch and leaves every flush where it is. *)
Quiet ==
  /\ UNCHANGED <<opts, bufferVars, flushInFlight, inflight, closed, historyVars>>
  /\ \A f \in Flushers : pc'[f] = "sending" <=> pc[f] = "sending"
  /\ \A p \in Callers : pc'[p] = "direct" => pc[p] = "direct" \/ Immediate

(* A flush of f begins. *)
Take(f) == TakePending(f) /\ UNCHANGED <<opts, closed, historyVars>>

LEMMA StepKinds ==
  ASSUME TypeOK, [Next]_vars
  PROVE  \/ Quiet
         \/ \E p \in Callers : WriteAccepted(p)
         \/ \E p \in Callers : DirectReturns(p)
         \/ \E f \in Flushers : Take(f)
         \/ \E f \in Flushers : FlushSucceeds(f)
         \/ \E f \in Flushers : FlushFails(f)
         \/ \E p \in Callers : Close(p) /\ pc[p] \in {"idle", "close"}
<1> USE DEF stateVars, bufferVars, flightVars, timerVars, callVars, historyVars
<1>1. ASSUME NEW p \in Callers, StartWrite(p) PROVE Quiet
  BY <1>1 DEF TypeOK, StartWrite, Quiet, Flushers
<1>2. ASSUME NEW p \in Callers, StartFlush(p) PROVE Quiet
  BY <1>2 DEF TypeOK, StartFlush, Quiet, Flushers
<1>3. ASSUME NEW p \in Callers, Cancel(p) PROVE Quiet
  BY <1>3 DEF TypeOK, Cancel, Quiet, Flushers
<1>4. ASSUME NEW p \in Callers, WriteStep(p)
      PROVE  Quiet \/ WriteAccepted(p) \/ DirectReturns(p)
  <2>1. CASE WriteClosed(p)
    BY <2>1 DEF TypeOK, WriteClosed, Return, AtLoopHead, Quiet, Flushers
  <2>2. CASE WriteDirect(p)
    BY <2>2 DEF TypeOK, WriteDirect, AtLoopHead, Quiet, Flushers
  <2>3. CASE WriteRefused(p)
    BY <2>3 DEF TypeOK, WriteRefused, Return, AtLoopHead, Quiet, Flushers
  <2>4. CASE WriteBlocks(p)
    BY <2>4 DEF TypeOK, WriteBlocks, AtLoopHead, Quiet, Flushers
  <2>5. CASE WaitCancelled(p)
    BY <2>5 DEF TypeOK, WaitCancelled, Return, Quiet, Flushers
  <2>6. CASE HelperSeesDone(p)
    BY <2>6 DEF HelperSeesDone, Quiet
  <2>7. CASE HelperBroadcasts(p)
    BY <2>7 DEF TypeOK, HelperBroadcasts, Broadcast, Quiet, Flushers
  <2>8. QED
    BY <1>4, <2>1, <2>2, <2>3, <2>4, <2>5, <2>6, <2>7 DEF WriteStep
<1>5. ASSUME NEW p \in Callers, FlushStep(p)
      PROVE  \/ Quiet
             \/ Take(p)
             \/ Close(p) /\ pc[p] = "close"
  <2>1. CASE FlushRefused(p)
    BY <2>1 DEF TypeOK, FlushRefused, Return, Quiet, Flushers
  <2>2. CASE BeginFlush(p)
    BY <2>2 DEF BeginFlush, Take
  <2>3. CASE CloseAfterFlush(p)
    BY <2>3 DEF CloseAfterFlush
  <2>4. QED
    BY <1>5, <2>1, <2>2, <2>3 DEF FlushStep
<1>6. CASE TimerFires
  BY <1>6 DEF TimerFires, Quiet
<1>7. CASE Callback
  <2>1. CASE CallbackFlushes
    BY <2>1 DEF CallbackFlushes, Take, Flushers
  <2>2. CASE CallbackRefused
    BY <2>2 DEF CallbackRefused, Quiet
  <2>3. QED
    BY <1>7, <2>1, <2>2 DEF Callback, Flushers
<1>8. CASE UNCHANGED vars
  BY <1>8 DEF vars, Quiet
<1>9. QED
  BY <1>1, <1>2, <1>3, <1>4, <1>5, <1>6, <1>7, <1>8
     DEF Next, EndOfFlush, PlainClose, Flushers

-------------------------------------------------------------------------------
(* The inductive invariant *)

LEMMA InitInv == Init => WriterInv
<1> SUFFICES ASSUME Init PROVE WriterInv
  OBVIOUS
<1>1. TypeOK
  BY InitType
<1>2. SingleFlush /\ FlightOwned /\ ImmediateUnbuffered
  BY DEF Init, SingleFlush, FlightOwned, ImmediateUnbuffered, Flushers
<1>3. Conservation
  <2>1. <<>> \o <<>> = <<>>
    BY ConcatEmptySeq
  <2>2. QED
    BY <2>1 DEF Init, Conservation
<1>4. QED
  BY <1>1, <1>2, <1>3 DEF WriterInv

(* Flushes stay exclusive. *)
LEMMA FlushStaysSingle ==
  ASSUME WriterInv, TypeOK', [Next]_vars
  PROVE  SingleFlush' /\ FlightOwned'
<1> USE DEF WriterInv
<1>1. CASE Quiet
  BY <1>1 DEF Quiet, SingleFlush, FlightOwned
<1>2. ASSUME NEW p \in Callers, WriteAccepted(p)
      PROVE  SingleFlush' /\ FlightOwned'
  BY <1>2 DEF WriteAccepted, Return, AtLoopHead, SingleFlush, FlightOwned,
       flightVars, TypeOK, Flushers
<1>3. ASSUME NEW p \in Callers, DirectReturns(p)
      PROVE  SingleFlush' /\ FlightOwned'
  BY <1>3 DEF DirectReturns, Return, SingleFlush, FlightOwned, stateVars,
       flightVars, TypeOK, Flushers
<1>4. ASSUME NEW f \in Flushers, Take(f)
      PROVE  SingleFlush' /\ FlightOwned'
  BY <1>4 DEF Take, TakePending, SingleFlush, FlightOwned, TypeOK
<1>5. ASSUME NEW f \in Flushers, NEW next \in {"idle", "close"}, NEW due,
             EndFlush(f, next, due)
      PROVE  SingleFlush' /\ FlightOwned'
  BY <1>5 DEF EndFlush, Broadcast, SingleFlush, FlightOwned, TypeOK
<1>6. ASSUME NEW f \in Flushers, FlushSucceeds(f)
      PROVE  SingleFlush' /\ FlightOwned'
  BY <1>5, <1>6 DEF FlushSucceeds
<1>7. ASSUME NEW f \in Flushers, FlushFails(f)
      PROVE  SingleFlush' /\ FlightOwned'
  BY <1>5, <1>7 DEF FlushFails
<1>8. ASSUME NEW p \in Callers, Close(p), pc[p] \in {"idle", "close"}
      PROVE  SingleFlush' /\ FlightOwned'
  BY <1>8 DEF Close, Broadcast, SingleFlush, FlightOwned, flightVars, TypeOK,
       Flushers
<1>9. QED
  BY <1>1, <1>2, <1>3, <1>4, <1>6, <1>7, <1>8, StepKinds

(* An unbuffered writer stays empty. *)
LEMMA ImmediateStaysEmpty ==
  ASSUME WriterInv, TypeOK', [Next]_vars
  PROVE  ImmediateUnbuffered'
<1> USE DEF WriterInv, ImmediateUnbuffered, Immediate
<1>1. CASE Quiet
  BY <1>1 DEF Quiet, historyVars, bufferVars
<1>2. ASSUME NEW p \in Callers, WriteAccepted(p) PROVE ImmediateUnbuffered'
  BY <1>2 DEF WriteAccepted, Return, TypeOK, Flushers
<1>3. ASSUME NEW p \in Callers, DirectReturns(p) PROVE ImmediateUnbuffered'
  BY <1>3 DEF DirectReturns, Return, stateVars, flightVars, bufferVars, TypeOK,
       Flushers
<1>4. ASSUME NEW f \in Flushers, Take(f) PROVE ImmediateUnbuffered'
  BY <1>4 DEF Take, TakePending, historyVars, TypeOK, Flushers
<1>5. ASSUME NEW f \in Flushers, FlushSucceeds(f) PROVE ImmediateUnbuffered'
  BY <1>5 DEF FlushSucceeds, EndFlush, Broadcast, bufferVars, TypeOK, Flushers
<1>6. ASSUME NEW f \in Flushers, FlushFails(f) PROVE ImmediateUnbuffered'
  BY <1>6 DEF FlushFails, EndFlush, Broadcast, TypeOK, Flushers
<1>7. ASSUME NEW p \in Callers, Close(p) PROVE ImmediateUnbuffered'
  <2>1. Immediate => dropped' = <<>>
    BY <1>7, ConcatEmptySeq DEF Close
  <2>2. QED
    BY <1>7, <2>1 DEF Close, Broadcast, flightVars, TypeOK, Flushers
<1>8. QED
  BY <1>1, <1>2, <1>3, <1>4, <1>5, <1>6, <1>7, StepKinds

(* The equations of the queue. *)
LEMMA AssocThree ==
  \A a, b, c \in Seq(Batch) :
    /\ a \o b \in Seq(Batch)
    /\ (a \o b) \o c = a \o (b \o c)
BY ConcatAssociative, ConcatProperties

(* Nothing is lost, duplicated or reordered by a step. *)
LEMMA ConservationKept ==
  ASSUME WriterInv, TypeOK', [Next]_vars
  PROVE  Conservation'
<1> USE DEF WriterInv, Conservation
<1>0. /\ pending \in Seq(Batch) /\ inflight \in Seq(Batch)
      /\ delivered \in Seq(Batch) /\ dropped \in Seq(Batch)
      /\ <<>> \in Seq(Batch)
  BY DEF TypeOK
<1>1. CASE Quiet
  BY <1>1 DEF Quiet, historyVars, bufferVars
<1>2. ASSUME NEW p \in Callers, WriteAccepted(p) PROVE Conservation'
  <2> DEFINE new == BatchesOf(call[p].request)
  <2>1. new \in Seq(Batch)
    BY BatchesOfType, RequestType DEF TypeOK
  <2>2. /\ dropped = <<>> /\ UNCHANGED <<dropped, closed, delivered, inflight>>
        /\ accepted' = accepted \o new
        /\ pending' = pending \o new
    BY <1>2 DEF WriteAccepted, flightVars
  <2>3. accepted = delivered \o inflight \o pending
    BY <1>0, <2>2, ConcatEmptySeq, ConcatProperties
  <2>4. delivered \o inflight \o (pending \o new) = accepted'
    <3>1. delivered \o inflight \in Seq(Batch)
      BY <1>0, AssocThree
    <3>2. pending \in Seq(Batch) /\ new \in Seq(Batch)
      BY <1>0, <2>1
    <3>3. ((delivered \o inflight) \o pending) \o new
            = (delivered \o inflight) \o (pending \o new)
      <4> HIDE DEF new
      <4>1. QED
        BY <3>1, <3>2, AssocThree
    <3>4. QED
      BY <3>3, <2>2, <2>3
  <2>5. pending \o new \in Seq(Batch) /\ delivered \o inflight \in Seq(Batch)
    BY <1>0, <2>1, AssocThree
  <2>6. delivered \o inflight \o (pending \o new) \o <<>> = accepted'
    BY <2>4, <2>5, ConcatEmptySeq, ConcatProperties
  <2>7. QED
    BY <2>2, <2>6
<1>3. ASSUME NEW p \in Callers, DirectReturns(p) PROVE Conservation'
  <2>1. /\ pending = <<>> /\ inflight = <<>> /\ dropped = <<>>
        /\ UNCHANGED <<pending, inflight, dropped, closed>>
    BY <1>3 DEF DirectReturns, ImmediateUnbuffered, stateVars, bufferVars,
         flightVars
  <2>2. accepted = delivered
    BY <1>0, <2>1, ConcatEmptySeq
  <2>3. accepted' = delivered'
    <3>1. CASE UNCHANGED <<accepted, delivered>>
      BY <3>1, <2>2
    <3>2. CASE /\ accepted' = accepted \o BatchesOf(call[p].request)
               /\ delivered' = delivered \o BatchesOf(call[p].request)
      BY <3>2, <2>2
    <3>3. QED
      BY <3>1, <3>2, <1>3 DEF DirectReturns
  <2>4. delivered' \in Seq(Batch)
    BY DEF TypeOK
  <2>5. QED
    BY <2>1, <2>3, <2>4, ConcatEmptySeq
<1>4. ASSUME NEW f \in Flushers, Take(f) PROVE Conservation'
  <2>1. /\ inflight = <<>> /\ inflight' = pending /\ pending' = <<>>
        /\ UNCHANGED <<accepted, delivered, dropped, closed>>
    BY <1>4 DEF Take, TakePending, historyVars, FlightOwned
  <2>2. delivered \o pending \in Seq(Batch)
    BY <1>0, AssocThree
  <2>3. delivered \o <<>> \o pending = delivered \o pending \o <<>>
    BY <1>0, <2>2, ConcatEmptySeq
  <2>4. QED
    BY <2>1, <2>3
<1>5. ASSUME NEW f \in Flushers, FlushSucceeds(f) PROVE Conservation'
  <2>1. /\ inflight' = <<>> /\ delivered' = delivered \o inflight
        /\ UNCHANGED <<pending, accepted, dropped, closed>>
    BY <1>5 DEF FlushSucceeds, EndFlush, bufferVars
  <2>2. delivered \o inflight \in Seq(Batch)
    BY <1>0, AssocThree
  <2>3. (delivered \o inflight) \o <<>> = delivered \o inflight
    BY <2>2, ConcatEmptySeq
  <2>4. QED
    BY <2>1, <2>3
<1>6. ASSUME NEW f \in Flushers, FlushFails(f) PROVE Conservation'
  <2>1. /\ inflight' = <<>> /\ pending' = inflight \o pending
        /\ UNCHANGED <<delivered, accepted, dropped, closed>>
    BY <1>6 DEF FlushFails, EndFlush
  <2>2. delivered \o <<>> \o (inflight \o pending) = delivered \o inflight \o pending
    <3>1. delivered \o <<>> = delivered
      BY <1>0, ConcatEmptySeq
    <3>2. (delivered \o inflight) \o pending = delivered \o (inflight \o pending)
      BY <1>0, AssocThree
    <3>3. QED
      BY <3>1, <3>2
  <2>3. QED
    BY <2>1, <2>2
<1>7. ASSUME NEW p \in Callers, Close(p) PROVE Conservation'
  <2>1. /\ closed' = TRUE /\ pending' = <<>> /\ dropped' = pending \o dropped
        /\ UNCHANGED <<delivered, inflight, accepted>>
    BY <1>7 DEF Close, flightVars
  <2> DEFINE sent == delivered \o inflight
  <2>2. sent \in Seq(Batch)
    BY <1>0, AssocThree
  <2>3. sent \o <<>> \o (pending \o dropped) = sent \o pending \o dropped
    <3>1. sent \o <<>> = sent
      BY <2>2, ConcatEmptySeq
    <3>2. (sent \o pending) \o dropped = sent \o (pending \o dropped)
      BY <1>0, <2>2, AssocThree
    <3>3. QED
      BY <3>1, <3>2
  <2>4. QED
    BY <2>1, <2>3
<1>8. QED
  BY <1>1, <1>2, <1>3, <1>4, <1>5, <1>6, <1>7, StepKinds

LEMMA StepInv == WriterInv /\ [Next]_vars => WriterInv'
BY NextType, FlushStaysSingle, ImmediateStaysEmpty, ConservationKept
   DEF WriterInv

LEMMA Invariance == Spec => []WriterInv
BY InitInv, StepInv, PTL DEF Spec

(* Accepted batches are conserved, in order, whatever callers, timer and   *)
(* failing flushes do (Write, beginFlush, restorePending, Close).          *)
THEOREM SpecConserves == Spec => []Conservation
BY Invariance, PTL DEF WriterInv

(* flushInFlight excludes a second flush (beginFlush).                     *)
THEOREM SpecSingleFlush == Spec => []SingleFlush
BY Invariance, PTL DEF WriterInv

(* A closed writer starts no flush (the check in beginFlush against late   *)
(* timer callbacks).                                                       *)
THEOREM SpecNoFlushAfterClose == Spec => NoFlushAfterClose
<1>1. WriterInv /\ [Next]_vars
        => [closed /\ ~flushInFlight
              => ~flushInFlight' /\ UNCHANGED inflight]_vars
  <2> SUFFICES ASSUME WriterInv, [Next]_vars, closed, ~flushInFlight
               PROVE  ~flushInFlight' /\ UNCHANGED inflight
    OBVIOUS
  <2> USE DEF WriterInv, SingleFlush, flightVars
  <2>1. CASE Quiet
    BY <2>1 DEF Quiet
  <2>2. ASSUME NEW f \in Flushers PROVE ~Take(f) /\ ~FlushSucceeds(f) /\ ~FlushFails(f)
    BY <2>2 DEF Take, TakePending, FlushSucceeds, FlushFails, EndFlush
  <2>3. ASSUME NEW p \in Callers, WriteAccepted(p) \/ DirectReturns(p) \/ Close(p)
        PROVE  UNCHANGED <<flushInFlight, inflight>>
    BY <2>3 DEF WriteAccepted, DirectReturns, stateVars, Close
  <2>4. QED
    BY <2>1, <2>2, <2>3, StepKinds
<1>2. QED
  BY <1>1, Invariance, PTL DEF Spec, NoFlushAfterClose

-------------------------------------------------------------------------------
(* What a step does to one caller's call *)

(* A call's mark is set to the batches accepted so far or forgotten, and   *)
(* stays while the call's flush is under way; a call comes to wait only in *)
(* WriteBlocks, to send only by taking the buffer, and to close after a    *)
(* flush of its own.                                                       *)
LEMMA CallSteps ==
  ASSUME TypeOK, [Next]_vars, NEW p \in Callers
  PROVE  /\ call'[p].mark \in {0, Len(accepted), call[p].mark}
         /\ pc'[p] = "sending" =>
              /\ pc[p] = "sending" \/ Take(p)
              /\ call'[p].mark = call[p].mark
         /\ pc'[p] = "close" =>
              \/ ~opts.flushOnClose
              \/ /\ pc[p] = "close" \/ FlushSucceeds(p)
                 /\ call'[p].mark = call[p].mark
         /\ pc'[p] = "waiting" =>
              /\ pc[p] = "waiting" \/ WriteBlocks(p)
              /\ call'[p].request = call[p].request
<1> DEFINE Good ==
         /\ call'[p].mark \in {0, Len(accepted), call[p].mark}
         /\ pc'[p] = "sending" =>
              /\ pc[p] = "sending" \/ Take(p)
              /\ call'[p].mark = call[p].mark
         /\ pc'[p] = "close" =>
              \/ ~opts.flushOnClose
              \/ /\ pc[p] = "close" \/ FlushSucceeds(p)
                 /\ call'[p].mark = call[p].mark
         /\ pc'[p] = "waiting" =>
              /\ pc[p] = "waiting" \/ WriteBlocks(p)
              /\ call'[p].request = call[p].request
<1>0. /\ p \in Flushers /\ pc \in [Flushers -> Places]
      /\ call \in [Callers -> Call] /\ call[p] \in Call
      /\ NoCall.mark = 0
  BY DEF TypeOK, Flushers, NoCall
<1>1. ASSUME UNCHANGED <<pc, call>> PROVE Good
  BY <1>0, <1>1
<1>2. ASSUME NEW q \in Callers, NEW place \in {"idle", "direct"},
             pc' = [pc EXCEPT ![q] = place],
             call' = call \/ call' = [call EXCEPT ![q] = NoCall]
      PROVE  Good
  BY <1>0, <1>2, Zenon DEF Flushers
<1>3. ASSUME NEW q \in Callers, Return(q) PROVE Good
  BY <1>2, <1>3 DEF Return
<1>4. ASSUME NEW f \in Flushers, NEW next, Broadcast(f, next),
             next \notin {"sending", "waiting"},
             f = p /\ next = "close" => pc[p] = "close" \/ FlushSucceeds(p)
      PROVE  Good
  BY <1>0, <1>4 DEF Broadcast
<1>5. ASSUME NEW q \in Callers, StartWrite(q) PROVE Good
  <2>1. PICK r \in Requests : call' = [call EXCEPT ![q].request = r]
    BY <1>5 DEF StartWrite
  <2>2. call'[p].mark = call[p].mark /\ (p # q => call'[p] = call[p])
    BY <2>1, <1>0 DEF Call
  <2>3. QED
    BY <2>2, <1>0, <1>5 DEF StartWrite
<1>6. ASSUME NEW q \in Callers, StartFlush(q) PROVE Good
  <2>1. \/ /\ call' = [call EXCEPT ![q].mark = Len(accepted)]
           /\ pc' = [pc EXCEPT ![q] = "flush"]
        \/ /\ call' = [call EXCEPT ![q].mark = Len(accepted), ![q].closing = TRUE]
           /\ pc' = [pc EXCEPT ![q] = IF opts.flushOnClose THEN "flush" ELSE "close"]
    BY <1>6 DEF StartFlush
  <2>2. p = q => call'[p].mark = Len(accepted)
    BY <2>1, <1>0 DEF Call
  <2>3. p # q => call'[p] = call[p] /\ pc'[p] = pc[p]
    BY <2>1, <1>0
  <2>4. p = q => pc'[p] = "flush" \/ (pc'[p] = "close" /\ ~opts.flushOnClose)
    BY <2>1, <1>0
  <2>5. QED
    BY <2>2, <2>3, <2>4
<1>7. ASSUME NEW q \in Callers, Cancel(q) PROVE Good
  BY <1>0, <1>7 DEF Cancel, Call
<1>8. ASSUME NEW q \in Callers, WriteStep(q) PROVE Good
  <2>1. CASE WriteClosed(q) \/ WriteRefused(q) \/ WaitCancelled(q) \/ WriteAccepted(q)
             \/ DirectReturns(q)
    BY <2>1, <1>3 DEF WriteClosed, WriteRefused, WaitCancelled, WriteAccepted,
         DirectReturns
  <2>2. CASE WriteDirect(q)
    BY <2>2, <1>2 DEF WriteDirect
  <2>3. CASE WriteBlocks(q)
    BY <2>3, <1>0 DEF WriteBlocks
  <2>4. CASE HelperSeesDone(q)
    BY <2>4, <1>1 DEF HelperSeesDone
  <2>5. CASE HelperBroadcasts(q)
    BY <2>5, <1>0 DEF HelperBroadcasts, Broadcast, Flushers
  <2>6. QED
    BY <1>8, <2>1, <2>2, <2>3, <2>4, <2>5 DEF WriteStep
<1>9. ASSUME NEW q \in Callers, PlainClose(q) \/ CloseAfterFlush(q) PROVE Good
  BY <1>9, <1>4 DEF PlainClose, CloseAfterFlush, Close, Flushers
<1>10. ASSUME NEW f \in Flushers, Take(f), UNCHANGED call PROVE Good
  BY <1>10, <1>0 DEF Take, TakePending
<1>11. ASSUME NEW q \in Callers, FlushStep(q) PROVE Good
  <2>1. CASE FlushRefused(q)
    BY <2>1, <1>3 DEF FlushRefused
  <2>2. CASE BeginFlush(q)
    BY <2>2, <1>10 DEF BeginFlush, Take, Flushers
  <2>3. QED
    BY <1>11, <1>9, <2>1, <2>2 DEF FlushStep
<1>12. ASSUME NEW f \in Flushers, EndOfFlush(f) PROVE Good
  <2>1. CASE FlushSucceeds(f)
    BY <2>1, <1>4 DEF FlushSucceeds, EndFlush
  <2>2. CASE FlushFails(f)
    BY <2>2, <1>4 DEF FlushFails, EndFlush
  <2>3. QED
    BY <1>12, <2>1, <2>2 DEF EndOfFlush
<1>13. CASE Callback
  BY <1>13, <1>1, <1>10 DEF Callback, CallbackFlushes, CallbackRefused, callVars,
       Take, Flushers
<1>14. CASE TimerFires \/ UNCHANGED vars
  BY <1>14, <1>1 DEF TimerFires, vars, callVars
<1>15. Good
  BY <1>5, <1>6, <1>7, <1>8, <1>9, <1>11, <1>12, <1>13, <1>14 DEF Next
<1>16. QED
  BY <1>15

(* The lengths of the queue's parts, for the counting arguments. *)
LEMMA Lengths ==
  ASSUME WriterInv
  PROVE  /\ Len(accepted) \in Nat /\ Len(delivered) \in Nat /\ Len(inflight) \in Nat
         /\ Len(pending) \in Nat /\ Len(dropped) \in Nat
         /\ Len(accepted) = Len(delivered) + Len(inflight) + Len(pending) + Len(dropped)
         /\ ~closed => Len(dropped) = 0
<1> USE DEF WriterInv, TypeOK, Conservation
<1>1. /\ delivered \o inflight \in Seq(Batch)
      /\ Len(delivered \o inflight) = Len(delivered) + Len(inflight)
  BY ConcatProperties
<1>2. /\ delivered \o inflight \o pending \in Seq(Batch)
      /\ Len(delivered \o inflight \o pending) = Len(delivered \o inflight) + Len(pending)
  BY <1>1, ConcatProperties
<1>3. Len(accepted) = Len(delivered \o inflight \o pending) + Len(dropped)
  BY <1>2, ConcatProperties
<1>4. QED
  BY <1>1, <1>2, <1>3, LenProperties

-------------------------------------------------------------------------------
(* Flush as a barrier *)

(* What a call of Flush has to cover was accepted, and the two places where*)
(* it is accounted for.                                                    *)
BarrierInv ==
  /\ \A p \in Callers : call[p].mark <= Len(accepted)
  /\ FlushIsBarrier

(* No step takes back what was accepted or delivered. *)
LEMMA HistoryGrows ==
  ASSUME WriterInv, WriterInv', [Next]_vars
  PROVE  Len(accepted) <= Len(accepted') /\ Len(delivered) <= Len(delivered')
<1> USE DEF WriterInv, TypeOK
<1>1. CASE Quiet
  BY <1>1, Lengths DEF Quiet, historyVars
<1>2. ASSUME NEW p \in Callers,
             accepted' = accepted \o BatchesOf(call[p].request) \/ accepted' = accepted,
             delivered' = delivered \o BatchesOf(call[p].request) \/ delivered' = delivered
      PROVE  Len(accepted) <= Len(accepted') /\ Len(delivered) <= Len(delivered')
  <2>1. BatchesOf(call[p].request) \in Seq(Batch)
    BY BatchesOfType, RequestType
  <2> DEFINE new == BatchesOf(call[p].request)
  <2> HIDE DEF new
  <2>2. new \in Seq(Batch) /\ Len(new) \in Nat
    BY <2>1, LenProperties DEF new
  <2>3. /\ Len(accepted \o new) = Len(accepted) + Len(new)
        /\ Len(delivered \o new) = Len(delivered) + Len(new)
    BY <2>2, ConcatProperties
  <2>4. QED
    BY <1>2, <2>2, <2>3, Lengths DEF new
<1>3. ASSUME NEW p \in Callers, WriteAccepted(p) \/ DirectReturns(p)
      PROVE  Len(accepted) <= Len(accepted') /\ Len(delivered) <= Len(delivered')
  BY <1>2, <1>3 DEF WriteAccepted, DirectReturns
<1>4. ASSUME NEW f \in Flushers, Take(f) \/ FlushFails(f)
      PROVE  Len(accepted) <= Len(accepted') /\ Len(delivered) <= Len(delivered')
  <2>1. UNCHANGED <<accepted, delivered>>
    BY <1>4 DEF Take, FlushFails, historyVars
  <2>2. QED
    BY <2>1, Lengths
<1>5. ASSUME NEW f \in Flushers, FlushSucceeds(f)
      PROVE  Len(accepted) <= Len(accepted') /\ Len(delivered) <= Len(delivered')
  BY <1>5, Lengths, ConcatProperties DEF FlushSucceeds
<1>6. ASSUME NEW p \in Callers, Close(p)
      PROVE  Len(accepted) <= Len(accepted') /\ Len(delivered) <= Len(delivered')
  BY <1>6, Lengths DEF Close
<1>7. QED
  BY <1>1, <1>3, <1>4, <1>5, <1>6, StepKinds

LEMMA InitBarrier == Init => BarrierInv
BY DEF Init, BarrierInv, FlushIsBarrier, NoCall, Flushers

(* beginFlush takes all that is accepted and not delivered, so the owner   *)
(* of a flush covers its mark; nobody else ends that flush.                *)
LEMMA BarrierKept ==
  ASSUME WriterInv, WriterInv', BarrierInv, [Next]_vars
  PROVE  BarrierInv'
<1> SUFFICES ASSUME NEW p \in Callers
             PROVE  /\ call'[p].mark <= Len(accepted')
                    /\ pc'[p] = "sending" =>
                         Len(delivered') + Len(inflight') >= call'[p].mark
                    /\ pc'[p] = "close" /\ opts'.flushOnClose =>
                         Len(delivered') >= call'[p].mark
  BY DEF BarrierInv, FlushIsBarrier
<1>0. /\ TypeOK /\ p \in Flushers /\ call[p].mark \in Nat /\ call'[p].mark \in Nat
      /\ call[p].mark <= Len(accepted)
  BY DEF WriterInv, TypeOK, Flushers, Call, BarrierInv
<1>1. call'[p].mark <= Len(accepted')
  BY <1>0, CallSteps, HistoryGrows, Lengths
<1>2. ASSUME pc'[p] = "sending"
      PROVE  Len(delivered') + Len(inflight') >= call'[p].mark
  <2>1. call'[p].mark = call[p].mark
    BY <1>0, <1>2, CallSteps
  <2>2. CASE Take(p)
    <3>1. /\ ~closed /\ inflight = <<>> /\ inflight' = pending
          /\ UNCHANGED delivered
      BY <2>2 DEF Take, TakePending, historyVars, WriterInv, FlightOwned
    <3>2. Len(inflight) = 0
      BY <3>1
    <3>3. QED
      BY <1>0, <2>1, <3>1, <3>2, Lengths
  <2>3. CASE pc[p] = "sending"
    <3>1. Len(delivered) + Len(inflight) >= call'[p].mark
      BY <2>1, <2>3 DEF BarrierInv, FlushIsBarrier
    <3>2. ASSUME NEW f \in Flushers, Take(f) \/ FlushSucceeds(f) \/ FlushFails(f)
          PROVE  FALSE
      <4>1. CASE Take(f)
        BY <2>3, <4>1, <1>0 DEF Take, TakePending, WriterInv, SingleFlush
      <4>2. CASE FlushSucceeds(f) \/ FlushFails(f)
        <5>1. pc[f] = "sending" /\ pc'[f] # "sending"
          BY <4>2 DEF FlushSucceeds, FlushFails, EndFlush, Broadcast
        <5>2. f = p
          BY <5>1, <2>3, <1>0 DEF WriterInv, SingleFlush
        <5>3. QED
          BY <5>1, <5>2, <1>2
      <4>3. QED
        BY <3>2, <4>1, <4>2
    <3>3. UNCHANGED inflight
      BY <3>2, <1>0, StepKinds DEF Quiet, WriteAccepted, DirectReturns, Close, stateVars,
         flightVars
    <3>4. QED
      BY <3>1, <3>3, <1>0, HistoryGrows, Lengths
  <2>4. QED
    BY <1>0, <1>2, <2>2, <2>3, CallSteps
<1>3. ASSUME pc'[p] = "close", opts'.flushOnClose
      PROVE  Len(delivered') >= call'[p].mark
  <2>1. opts' = opts
    BY <1>0, StepKinds DEF Quiet, WriteAccepted, DirectReturns, Take, FlushSucceeds,
       FlushFails, EndFlush, Close, stateVars
  <2>2. /\ pc[p] = "close" \/ FlushSucceeds(p)
        /\ call'[p].mark = call[p].mark
    BY <1>0, <1>3, <2>1, CallSteps
  <2>3. CASE pc[p] = "close"
    BY <2>1, <2>2, <2>3, <1>0, <1>3, HistoryGrows, Lengths DEF BarrierInv, FlushIsBarrier
  <2>4. CASE FlushSucceeds(p)
    <3>1. pc[p] = "sending" /\ delivered' = delivered \o inflight
      BY <2>4 DEF FlushSucceeds, EndFlush
    <3>2. Len(delivered') = Len(delivered) + Len(inflight)
      BY <3>1, ConcatProperties DEF WriterInv, TypeOK
    <3>3. QED
      BY <3>1, <3>2, <2>2 DEF BarrierInv, FlushIsBarrier
  <2>5. QED
    BY <2>2, <2>3, <2>4
<1>4. QED
  BY <1>1, <1>2, <1>3

(* A Flush that returns nil has delivered all that was accepted before it, *)
(* and the Close that follows it in CloseWithContext discards only later   *)
(* batches (Flush, CloseWithContext).                                      *)
THEOREM SpecFlushIsBarrier == Spec => []FlushIsBarrier
<1>1. Spec => []BarrierInv
  BY Invariance, InitBarrier, BarrierKept, PTL DEF Spec
<1>2. BarrierInv => FlushIsBarrier
  BY DEF BarrierInv
<1>3. QED
  BY <1>1, <1>2, PTL

-------------------------------------------------------------------------------
(* The backlog *)

(* What a buffer limit is, and one more of them. *)
LEMMA Limits ==
  ASSUME TypeOK
  PROVE  /\ opts.batches \in Nat \ {0} /\ opts.bytes \in Nat
         /\ (failed + 1) * opts.batches \in Nat
         /\ opts.batches <= (failed + 1) * opts.batches
         /\ (failed + 1) * opts.batches + opts.batches = (failed + 1 + 1) * opts.batches
         /\ 1 * opts.batches = opts.batches
<1>1. opts.batches \in Nat \ {0} /\ opts.bytes \in Nat /\ failed \in Nat
  BY WriterAssumption DEF TypeOK, OptionRecord
<1>2. ASSUME NEW n \in Nat, NEW b \in Nat
      PROVE  /\ (n + 1) * b \in Nat /\ n * b \in Nat
             /\ (n + 1) * b = n * b + b /\ 1 * b = b
             /\ (n + 1) * b + b = (n + 1 + 1) * b
  BY SMT
<1>3. QED
  BY <1>1, <1>2

LEMMA InitBacklog == Init => BacklogBound
BY InitType, Limits DEF Init, BacklogBound

(* Only the pending batches count against the limit, so a flush that fails *)
(* puts one limit's worth back in front of another (restorePending).       *)
LEMMA BacklogKept ==
  ASSUME WriterInv, WriterInv', BacklogBound, [Next]_vars
  PROVE  BacklogBound'
<1> USE DEF BacklogBound
<1>0. /\ TypeOK /\ failed \in Nat /\ Len(pending) \in Nat /\ Len(inflight) \in Nat
  BY Lengths DEF WriterInv, TypeOK
<1>1. CASE Quiet
  BY <1>1 DEF Quiet, historyVars, bufferVars
<1>2. ASSUME NEW p \in Callers, WriteAccepted(p) PROVE BacklogBound'
  <2>1. /\ UNCHANGED <<flushInFlight, inflight, failed, opts>>
        /\ pending' = pending \o BatchesOf(call[p].request)
        /\ HasCapacity(call[p].request)
    BY <1>2 DEF WriteAccepted, flightVars
  <2>2. /\ BatchesOf(call[p].request) \in Seq(Batch)
        /\ Len(BatchesOf(call[p].request)) = Len(call[p].request)
    BY BatchesOfType, RequestType, <1>0 DEF TypeOK
  <2>3. Len(pending') = Len(pending) + Len(call[p].request)
    <3> DEFINE new == BatchesOf(call[p].request)
    <3>1. new \in Seq(Batch) /\ pending \in Seq(Batch)
      BY <2>2, <1>0 DEF TypeOK
    <3> HIDE DEF new
    <3>2. Len(pending \o new) = Len(pending) + Len(new)
      BY <3>1, ConcatProperties
    <3>3. QED
      BY <2>1, <2>2, <3>2 DEF new
  <2>4. Len(pending') <= opts.batches
    BY <2>1, <2>3 DEF HasCapacity
  <2>5. Len(pending') \in Nat
    BY Lengths
  <2>6. Len(pending') <= (failed + 1) * opts.batches
    <3> DEFINE limit == (failed + 1) * opts.batches
    <3>1. opts.batches <= limit /\ limit \in Nat /\ opts.batches \in Nat
      BY <1>0, Limits
    <3> HIDE DEF limit
    <3>2. Len(pending') <= limit
      BY <2>4, <2>5, <3>1
    <3>3. QED
      BY <3>2 DEF limit
  <2>7. QED
    BY <2>1, <2>4, <2>6
<1>3. ASSUME NEW p \in Callers, DirectReturns(p) PROVE BacklogBound'
  BY <1>3 DEF DirectReturns, stateVars, bufferVars, flightVars
<1>4. ASSUME NEW f \in Flushers, Take(f) PROVE BacklogBound'
  <2>1. /\ ~flushInFlight /\ flushInFlight' /\ inflight' = pending /\ pending' = <<>>
        /\ UNCHANGED <<failed, opts>>
    BY <1>4 DEF Take, TakePending, historyVars
  <2>2. Len(pending') = 0
    BY <2>1
  <2>3. QED
    BY <2>1, <2>2, <1>0, Limits
<1>5. ASSUME NEW f \in Flushers, FlushSucceeds(f) PROVE BacklogBound'
  <2>1. pc[f] = "sending"
    BY <1>5 DEF FlushSucceeds, EndFlush
  <2>2. flushInFlight
    BY <2>1 DEF WriterInv, SingleFlush
  <2>3. ~flushInFlight' /\ failed' = 0 /\ UNCHANGED <<pending, opts>>
    BY <1>5 DEF FlushSucceeds, EndFlush, bufferVars
  <2>4. QED
    BY <2>2, <2>3, <1>0, Limits
<1>6. ASSUME NEW f \in Flushers, FlushFails(f) PROVE BacklogBound'
  <2>1. pc[f] = "sending"
    BY <1>6 DEF FlushFails, EndFlush
  <2>2. flushInFlight
    BY <2>1 DEF WriterInv, SingleFlush
  <2>3. /\ ~flushInFlight' /\ failed' = failed + 1 /\ UNCHANGED opts
        /\ pending' = inflight \o pending
    BY <1>6 DEF FlushFails, EndFlush
  <2>4. Len(pending') = Len(inflight) + Len(pending)
    BY <2>3, <1>0, ConcatProperties DEF TypeOK
  <2>5. Len(pending') <= (failed + 1) * opts.batches + opts.batches
    BY <2>2, <2>4, <1>0, Limits
  <2>6. QED
    BY <2>3, <2>5, <1>0, Limits
<1>7. ASSUME NEW p \in Callers, Close(p) PROVE BacklogBound'
  <2>1. pending' = <<>> /\ UNCHANGED <<opts, flushInFlight, inflight, failed>>
    BY <1>7 DEF Close, flightVars
  <2>2. Len(pending') = 0
    BY <2>1
  <2>3. QED
    BY <2>1, <2>2, <1>0, Limits
<1>8. QED
  BY <1>0, <1>1, <1>2, <1>3, <1>4, <1>5, <1>6, <1>7, StepKinds

(* The batches held grow by at most one limit with each failed flush       *)
(* (hasCapacity, restorePending).                                          *)
THEOREM SpecBacklogBound == Spec => []BacklogBound
BY Invariance, InitBacklog, BacklogKept, PTL DEF Spec

-------------------------------------------------------------------------------
(* Wake-ups *)

(* Room is made only by beginFlush, whose flag is set until its broadcast, *)
(* and by Close, which broadcasts itself.                                  *)
LEMMA WakeupKept ==
  ASSUME WriterInv, WriterInv', NoLostWakeup, [Next]_vars
  PROVE  NoLostWakeup'
<1> SUFFICES ASSUME NEW p \in Callers, pc'[p] = "waiting"
             PROVE  ~closed' /\ (HasCapacity(call[p].request)' => flushInFlight')
  BY DEF NoLostWakeup
<1>0. /\ TypeOK /\ p \in Flushers /\ call'[p].request = call[p].request
      /\ call[p].request \in Seq(Nat)
      /\ pc[p] = "waiting" \/ WriteBlocks(p)
  BY RequestType, CallSteps DEF WriterInv, TypeOK, Flushers
<1>1. CASE WriteBlocks(p)
  BY <1>0, <1>1 DEF WriteBlocks, HasCapacity, stateVars, bufferVars
<1>2. CASE pc[p] = "waiting"
  <2>0. ~closed /\ (HasCapacity(call[p].request) => flushInFlight)
    BY <1>2 DEF NoLostWakeup
  <2>1. CASE UNCHANGED <<opts, bufferVars, closed, flushInFlight>>
    BY <1>0, <2>0, <2>1 DEF HasCapacity, bufferVars
  <2>2. ASSUME NEW q \in Callers, WriteAccepted(q)
        PROVE  ~closed' /\ (HasCapacity(call[p].request)' => flushInFlight')
    <3>1. /\ UNCHANGED <<opts, closed, flushInFlight>>
          /\ pending' = pending \o BatchesOf(call[q].request)
          /\ pendingBytes' = pendingBytes + RequestBytes(call[q].request)
      BY <2>2 DEF WriteAccepted, flightVars
    <3>2. BatchesOf(call[q].request) \in Seq(Batch)
      BY <1>0, BatchesOfType, RequestType DEF TypeOK
    <3>3. Len(pending) <= Len(pending') /\ Len(pending') \in Nat /\ Len(pending) \in Nat
      BY <3>1, <3>2, <1>0, ConcatProperties, LenProperties DEF TypeOK
    <3>4. \A c \in Callers : RequestBytes(call[c].request) \in Nat
      <4>1. \A c \in Callers : call[c].request \in Requests \cup {<<>>}
        BY <1>0 DEF TypeOK, Call
      <4>2. QED
        BY <4>1, WriterAssumption
    <3>5. HasCapacity(call[p].request)' => HasCapacity(call[p].request)
      <4>1. /\ pendingBytes \in Int /\ pendingBytes' \in Int /\ opts.bytes \in Nat
            /\ opts.batches \in Nat /\ Len(call[p].request) \in Nat
        BY <1>0, Limits, LenProperties DEF WriterInv, TypeOK
      <4>2. pendingBytes <= pendingBytes'
        BY <3>1, <3>4, <4>1
      <4> DEFINE size == RequestBytes(call[p].request)
      <4>3. size \in Nat /\ size' = size
        BY <1>0, <3>4, Zenon
      <4>4. HasCapacity(call[p].request)'
              <=> /\ Len(pending') + Len(call[p].request) <= opts.batches
                  /\ opts.bytes > 0 => pendingBytes' + size <= opts.bytes
        BY <3>1, <4>3, <1>0 DEF HasCapacity
      <4>5. HasCapacity(call[p].request)
              <=> /\ Len(pending) + Len(call[p].request) <= opts.batches
                  /\ opts.bytes > 0 => pendingBytes + size <= opts.bytes
        BY DEF HasCapacity
      <4> HIDE DEF size
      <4>6. /\ Len(pending') + Len(call[p].request) <= opts.batches
              => Len(pending) + Len(call[p].request) <= opts.batches
            /\ pendingBytes' + size <= opts.bytes => pendingBytes + size <= opts.bytes
        BY <3>3, <4>1, <4>2, <4>3
      <4>7. QED
        BY <4>4, <4>5, <4>6
    <3>6. QED
      BY <2>0, <3>1, <3>5
  <2>3. ASSUME NEW q \in Callers, DirectReturns(q)
        PROVE  ~closed' /\ (HasCapacity(call[p].request)' => flushInFlight')
    BY <2>1, <2>3 DEF DirectReturns, stateVars, flightVars
  <2>4. ASSUME NEW f \in Flushers, Take(f)
        PROVE  ~closed' /\ (HasCapacity(call[p].request)' => flushInFlight')
    BY <2>0, <2>4 DEF Take, TakePending
  <2>5. ASSUME NEW f \in Flushers, NEW next \in {"idle", "close"}, Broadcast(f, next)
        PROVE  FALSE
    BY <1>0, <2>5 DEF Broadcast
  <2>6. ASSUME NEW f \in Flushers PROVE ~FlushSucceeds(f) /\ ~FlushFails(f)
    BY <2>5 DEF FlushSucceeds, FlushFails, EndFlush
  <2>7. ASSUME NEW q \in Callers PROVE ~Close(q)
    BY <2>5 DEF Close, Flushers
  <2>8. QED
    BY <1>0, <2>1, <2>2, <2>3, <2>4, <2>6, <2>7, StepKinds DEF Quiet
<1>3. QED
  BY <1>0, <1>1, <1>2

(* A Write asleep on a buffer that has room again will be woken, and none  *)
(* sleeps on a closed writer (waitOnAppendCond, finishFlush, Close).       *)
THEOREM SpecNoLostWakeup == Spec => []NoLostWakeup
<1>1. Init => NoLostWakeup
  BY DEF Init, NoLostWakeup, Flushers
<1>2. QED
  BY <1>1, Invariance, WakeupKept, PTL DEF Spec

-------------------------------------------------------------------------------
(* The refinement *)

(* The two ends of a concatenation. *)
LEMMA ConcatEnds ==
  ASSUME NEW S, NEW s \in Seq(S), NEW t \in Seq(S)
  PROVE  /\ SubSeq(s \o t, 1, Len(s)) = s
         /\ SubSeq(s \o t, Len(s) + 1, Len(s \o t)) = t
         /\ IsPrefix(s, s \o t)
         /\ Len(s) \in 0 .. Len(s \o t)
<1>0. /\ s \o t \in Seq(S) /\ Len(s \o t) = Len(s) + Len(t)
      /\ Len(s) \in Nat /\ Len(t) \in Nat /\ Len(s \o t) \in Nat
  BY ConcatProperties, LenProperties
<1>1. SubSeq(s \o t, 1, Len(s)) = s
  <2>1. CASE s = <<>>
    BY <2>1, <1>0, SubSeqEmpty
  <2>2. CASE s # <<>>
    <3>1. Len(s) >= 1
      BY <2>2, <1>0
    <3>2. SubSeq(s \o t, 1, Len(s)) = SubSeq(s, 1, Len(s))
      BY <1>0, <3>1, SubSeqOfConcat1
    <3>3. QED
      BY <3>2, SubSeqFull
  <2>3. QED
    BY <2>1, <2>2
<1>2. SubSeq(s \o t, Len(s) + 1, Len(s \o t)) = t
  <2>1. CASE t = <<>>
    BY <2>1, <1>0, SubSeqEmpty
  <2>2. CASE t # <<>>
    <3>1. Len(t) >= 1
      BY <2>2, <1>0
    <3>2. SubSeq(s \o t, Len(s) + 1, Len(s) + Len(t))
            = SubSeq(t, Len(s) + 1 - Len(s), Len(s) + Len(t) - Len(s))
      BY <1>0, <3>1, SubSeqOfConcat2
    <3>3. Len(s) + 1 - Len(s) = 1 /\ Len(s) + Len(t) - Len(s) = Len(t)
      BY <1>0
    <3>4. QED
      BY <3>2, <3>3, <1>0, SubSeqFull
  <2>3. QED
    BY <2>1, <2>2
<1>3. IsPrefix(s, s \o t)
  BY <1>0, <1>1, SubSeqFull DEF IsPrefix
<1>4. QED
  BY <1>0, <1>1, <1>2, <1>3

LEMMA InitQueue == Init => Queue!QueueInit
<1> SUFFICES ASSUME Init PROVE Queue!QueueInit
  OBVIOUS
<1>1. <<>> \o <<>> = <<>>
  BY ConcatEmptySeq
<1>2. QED
  BY <1>1 DEF Init, Queue!QueueInit

(* Write appends to the queue or passes through, a flush that succeeds     *)
(* delivers what it took, Close gives up what no flush has taken, and no   *)
(* other step shows: neither does a flush that begins or fails.            *)
LEMMA QueueStep ==
  ASSUME WriterInv, WriterInv', [Next]_vars
  PROVE  [Queue!QueueNext]_(Queue!queueVars)
<1> DEFINE queue == inflight \o pending
           Goal == Queue!QueueNext \/ UNCHANGED <<delivered, queue, closed>>
<1>0. /\ TypeOK /\ pending \in Seq(Batch) /\ inflight \in Seq(Batch)
      /\ delivered \in Seq(Batch) /\ queue \in Seq(Batch) /\ queue' \in Seq(Batch)
  BY ConcatProperties DEF WriterInv, TypeOK
<1>1. ASSUME Quiet PROVE Goal
  BY <1>1 DEF Quiet, historyVars, bufferVars
<1>2. ASSUME NEW p \in Callers, WriteAccepted(p) PROVE Goal
  <2> DEFINE new == BatchesOf(call[p].request)
  <2>1. /\ ~closed /\ inflight' = inflight /\ pending' = pending \o new
        /\ UNCHANGED <<delivered, closed>>
    BY <1>2 DEF WriteAccepted, flightVars
  <2>2. new \in Seq(Batch)
    BY <1>0, BatchesOfType, RequestType DEF TypeOK
  <2> HIDE DEF new
  <2>3. queue' = queue \o new
    BY <2>1, <2>2, <1>0, AssocThree
  <2>4. IsPrefix(queue, queue')
    <3> HIDE DEF queue
    <3>1. QED
      BY <2>2, <2>3, <1>0, ConcatEnds
  <2>5. Queue!Accept
    BY <2>1, <2>4, <1>0 DEF Queue!Accept, IsPrefix, Queue!IsPrefix
  <2>6. QED
    BY <2>5 DEF Queue!QueueNext
<1>3. ASSUME NEW p \in Callers, DirectReturns(p) PROVE Goal
  <2>1. /\ pending = <<>> /\ inflight = <<>>
        /\ UNCHANGED <<pending, inflight, closed>>
    BY <1>3 DEF DirectReturns, WriterInv, ImmediateUnbuffered, stateVars, bufferVars,
         flightVars
  <2>2. queue = <<>> /\ queue' = queue
    BY <2>1, ConcatEmptySeq
  <2>3. CASE UNCHANGED delivered
    BY <2>1, <2>2, <2>3
  <2>4. CASE delivered' = delivered \o BatchesOf(call[p].request)
    <3>1. BatchesOf(call[p].request) \in Seq(Batch)
      BY <1>0, BatchesOfType, RequestType DEF TypeOK
    <3>2. delivered' \in Seq(Batch) /\ IsPrefix(delivered, delivered')
      BY <2>4, <3>1, <1>0, ConcatProperties, ConcatEnds
    <3>3. Queue!PassThrough
      BY <2>1, <2>2, <3>2 DEF Queue!PassThrough, IsPrefix, Queue!IsPrefix
    <3>4. QED
      BY <3>3 DEF Queue!QueueNext
  <2>5. QED
    BY <1>3, <2>3, <2>4 DEF DirectReturns
<1>4. ASSUME NEW f \in Flushers, Take(f) PROVE Goal
  <2>1. /\ inflight = <<>> /\ inflight' = pending /\ pending' = <<>>
        /\ UNCHANGED <<delivered, closed>>
    BY <1>4 DEF Take, TakePending, historyVars, WriterInv, FlightOwned
  <2>2. queue' = queue
    BY <2>1, <1>0, ConcatEmptySeq
  <2>3. QED
    BY <2>1, <2>2
<1>5. ASSUME NEW f \in Flushers, FlushSucceeds(f) PROVE Goal
  <2>1. /\ inflight' = <<>> /\ delivered' = delivered \o inflight
        /\ UNCHANGED <<pending, closed>>
    BY <1>5 DEF FlushSucceeds, EndFlush, bufferVars
  <2>2. queue' = pending
    BY <2>1, <1>0, ConcatEmptySeq
  <2>3. /\ Len(inflight) \in 0 .. Len(queue)
        /\ SubSeq(queue, 1, Len(inflight)) = inflight
        /\ SubSeq(queue, Len(inflight) + 1, Len(queue)) = pending
    BY <1>0, ConcatEnds
  <2>4. Queue!Deliver
    BY <2>1, <2>2, <2>3 DEF Queue!Deliver
  <2>5. QED
    BY <2>4 DEF Queue!QueueNext
<1>6. ASSUME NEW f \in Flushers, FlushFails(f) PROVE Goal
  <2>1. /\ inflight' = <<>> /\ pending' = inflight \o pending
        /\ UNCHANGED <<delivered, closed>>
    BY <1>6 DEF FlushFails, EndFlush
  <2>2. queue' = queue
    BY <2>1, <1>0, ConcatEmptySeq
  <2>3. QED
    BY <2>1, <2>2
<1>7. ASSUME NEW p \in Callers, Close(p) PROVE Goal
  <2>1. closed' = TRUE /\ pending' = <<>> /\ UNCHANGED <<delivered, inflight>>
    BY <1>7 DEF Close, flightVars
  <2>2. queue' = inflight
    BY <2>1, <1>0, ConcatEmptySeq
  <2>3. Len(inflight) \in 0 .. Len(queue) /\ SubSeq(queue, 1, Len(inflight)) = inflight
    BY <1>0, ConcatEnds
  <2>4. Queue!Shut
    BY <2>1, <2>2, <2>3 DEF Queue!Shut
  <2>5. QED
    BY <2>4 DEF Queue!QueueNext
<1>8. Goal
  BY <1>0, <1>1, <1>2, <1>3, <1>4, <1>5, <1>6, <1>7, StepKinds
<1>9. QED
  BY <1>8 DEF Queue!queueVars

(* The writer implements the queue of WriteQueue: batches leave in the     *)
(* order of acceptance, at most once, and none is given up before Close.   *)
THEOREM SpecImplementsQueue == Spec => ImplementsQueue
BY InitQueue, Invariance, QueueStep, PTL DEF Spec, ImplementsQueue, Queue!QueueSpec
===============================================================================
