---------------------------- MODULE BufferedWriter ----------------------------
(***************************************************************************)
(* client/writer.go: AppendWriter and, statement for statement the same,   *)
(* UpsertWriter.  Callers write, flush and close one shared writer while   *)
(* its linger timer fires flushes of its own.                              *)
(*                                                                         *)
(* The writer's mutex makes each of its critical sections one action; what *)
(* runs outside of it (the write function, the wait on the condition       *)
(* variable, the goroutine that watches a blocked caller's context, a      *)
(* fired timer callback) is a program counter between two actions.         *)
(***************************************************************************)
EXTENDS Integers, SequencesExt

CONSTANTS
  Callers,          \* the goroutines that share the writer
  LingerTimer,      \* the goroutine of the callback that flushes
  Requests,         \* what one Write may carry: the batches' sizes in bytes
  Options,          \* the AppendOptions a writer may be made with
  AcceptBound,      \* bounds of the instance: Writes stop at this many batches,
  FailureBound,     \* the write function fails this often in a row,
  CallbackBound     \* and this many timer callbacks await the processor

(* Options are what withDefaults and flushOnClose make of what the caller  *)
(* set: linger stands for Linger > 0, no bytes for no limit on the bytes.  *)
OptionRecord ==
  [batches : Nat \ {0}, bytes : Nat, linger : BOOLEAN, block : BOOLEAN,
   flushOnClose : BOOLEAN]

(* bucketRecordBatchBytes of a Write's argument. *)
RequestBytes(r) == FoldSeq(LAMBDA size, sum : size + sum, 0, r)

ASSUME WriterAssumption ==
  /\ LingerTimer \notin Callers
  /\ Requests \subseteq Seq(Nat) \ {<<>>}
  /\ \A r \in Requests \cup {<<>>} : RequestBytes(r) \in Nat
  /\ Options \subseteq OptionRecord
  /\ AcceptBound \in Nat /\ FailureBound \in Nat /\ CallbackBound \in Nat

(* A batch: its number in the order of acceptance and its length. *)
Batch == [number : Nat, size : Nat]

(* A call: what it writes, whether its context is done, whether its Flush  *)
(* is CloseWithContext's, and how many batches were accepted before it.    *)
Call == [request : Requests \cup {<<>>}, ctxDone : BOOLEAN,
         closing : BOOLEAN, mark : Nat]

NoCall == [request |-> <<>>, ctxDone |-> FALSE, closing |-> FALSE, mark |-> 0]

Flushers == Callers \cup {LingerTimer}

(* Where a goroutine is: outside, about to run Write's loop, in cond.Wait, *)
(* out of it again, in the write function of an unbuffered Write, about to *)
(* run beginFlush, holding a flush, and about to run Close.                *)
Places == {"idle", "write", "waiting", "woken", "direct", "flush", "sending",
           "close"}

VARIABLES
  opts,             \* appendWriterState.opts, never changed
  pending,          \* appendWriterState.pending
  pendingBytes,     \* appendWriterState.pendingBytes
  closed,           \* appendWriterState.closed
  flushInFlight,    \* appendWriterState.flushInFlight
  timer,            \* TRUE iff appendWriterState.timer is set and has not fired
  callbacks,        \* callbacks of fired timers that have not entered Flush
  inflight,         \* Flush's local: what beginFlush took
  inflightBytes,    \* Flush's local: the bytes beginFlush took
  pc,               \* where each goroutine is
  call,             \* the arguments and the context of each caller's call
  helper,           \* the goroutine waitOnAppendCond starts
  accepted,         \* history: the batches Write returned nil for
  delivered,        \* history: the batches the write function succeeded with
  dropped,          \* history: the batches Close discarded
  failed            \* history: failed flushes since the last one that succeeded

bufferVars == <<pending, pendingBytes>>
flightVars == <<flushInFlight, inflight, inflightBytes>>
timerVars  == <<timer, callbacks>>
callVars   == <<pc, call, helper>>
historyVars == <<accepted, delivered, dropped, failed>>
stateVars == <<opts, bufferVars, closed, flightVars, timerVars>>
vars == <<stateVars, callVars, historyVars>>

(* bucketRecordBatchBytes of batches the writer holds. *)
Bytes(batches) == FoldSeq(LAMBDA b, sum : b.size + sum, 0, batches)

(* The batches a Write of r adds, numbered on from the ones accepted. *)
BatchesOf(r) ==
  [i \in DOMAIN r |-> [number |-> Len(accepted) + i, size |-> r[i]]]

TypeOK ==
  /\ opts \in Options
  /\ pending \in Seq(Batch) /\ pendingBytes \in Int
  /\ inflight \in Seq(Batch) /\ inflightBytes \in Int
  /\ closed \in BOOLEAN /\ flushInFlight \in BOOLEAN /\ timer \in BOOLEAN
  /\ callbacks \in Nat
  /\ pc \in [Flushers -> Places]
  /\ call \in [Callers -> Call]
  /\ helper \in [Callers -> {"none", "watching", "notifying"}]
  /\ accepted \in Seq(Batch)
  /\ delivered \in Seq(Batch)
  /\ dropped \in Seq(Batch)
  /\ failed \in Nat

Init ==
  /\ opts \in Options
  /\ pending = <<>> /\ pendingBytes = 0
  /\ inflight = <<>> /\ inflightBytes = 0
  /\ closed = FALSE /\ flushInFlight = FALSE /\ timer = FALSE
  /\ callbacks = 0
  /\ pc = [f \in Flushers |-> "idle"]
  /\ call = [p \in Callers |-> NoCall]
  /\ helper = [p \in Callers |-> "none"]
  /\ accepted = <<>> /\ delivered = <<>> /\ dropped = <<>>
  /\ failed = 0

-------------------------------------------------------------------------------
(* Options *)

(* A writer that neither buffers nor lingers sends in Write itself. *)
Immediate == opts.batches <= 1 /\ opts.bytes = 0 /\ ~opts.linger

(* Faulty variant: compares before it adds. *)
HasCapacityBeforeAdding(r) ==
  /\ Len(pending) < opts.batches
  /\ opts.bytes > 0 => pendingBytes < opts.bytes

(* Only the pending batches count, not the ones a flush has in flight. *)
HasCapacity(r) ==
  /\ Len(pending) + Len(r) <= opts.batches
  /\ opts.bytes > 0 => pendingBytes + RequestBytes(r) <= opts.bytes

-------------------------------------------------------------------------------
(* Write *)

(* A caller enters Write with a live context.  A goroutine whose last call *)
(* left its helper behind is another goroutine from here on.               *)
StartWrite(p) ==
  /\ pc[p] = "idle" /\ helper[p] = "none"
  /\ Len(accepted) < AcceptBound
  /\ \E r \in Requests : call' = [call EXCEPT ![p].request = r]
  /\ pc' = [pc EXCEPT ![p] = "write"]
  /\ UNCHANGED <<stateVars, helper, historyVars>>

(* p's call is over. *)
Return(p) ==
  /\ pc' = [pc EXCEPT ![p] = "idle"]
  /\ call' = [call EXCEPT ![p] = NoCall]

(* The head of Write's loop, reached on entry and after a wait that its    *)
(* context survived.                                                       *)
AtLoopHead(p) ==
  \/ pc[p] = "write"
  \/ pc[p] = "woken" /\ ~call[p].ctxDone

(* close(done): a helper that has not seen the context end goes away. *)
HelperLeaves(p) ==
  helper' = [helper EXCEPT ![p] = IF @ = "watching" THEN "none" ELSE @]

WriteClosed(p) ==
  /\ AtLoopHead(p)
  /\ closed
  /\ Return(p)
  /\ HelperLeaves(p)
  /\ UNCHANGED <<stateVars, historyVars>>

WriteDirect(p) ==
  /\ AtLoopHead(p)
  /\ ~closed /\ Immediate
  /\ pc' = [pc EXCEPT ![p] = "direct"]
  /\ UNCHANGED <<stateVars, call, helper, historyVars>>

WriteAccepted(p) ==
  /\ AtLoopHead(p)
  /\ ~closed /\ ~Immediate /\ HasCapacity(call[p].request)
  /\ pending' = pending \o BatchesOf(call[p].request)
  /\ pendingBytes' = pendingBytes + RequestBytes(call[p].request)
  /\ accepted' = accepted \o BatchesOf(call[p].request)
  /\ timer' = (timer \/ (opts.linger /\ ~flushInFlight))
  /\ Return(p)
  /\ HelperLeaves(p)
  /\ UNCHANGED <<opts, closed, flightVars, callbacks, delivered, dropped,
                 failed>>

(* ErrBufferFull *)
WriteRefused(p) ==
  /\ AtLoopHead(p)
  /\ ~closed /\ ~Immediate /\ ~HasCapacity(call[p].request) /\ ~opts.block
  /\ Return(p)
  /\ UNCHANGED <<stateVars, helper, historyVars>>

WriteBlocks(p) ==
  /\ AtLoopHead(p)
  /\ ~closed /\ ~Immediate /\ ~HasCapacity(call[p].request) /\ opts.block
  /\ pc' = [pc EXCEPT ![p] = "waiting"]
  /\ helper' = [helper EXCEPT ![p] = "watching"]
  /\ UNCHANGED <<stateVars, call, historyVars>>

(* waitOnAppendCond returns ctx.Err(). *)
WaitCancelled(p) ==
  /\ pc[p] = "woken" /\ call[p].ctxDone
  /\ Return(p)
  /\ HelperLeaves(p)
  /\ UNCHANGED <<stateVars, historyVars>>

(* The write function of an unbuffered Write returns, outside the mutex. *)
DirectReturns(p) ==
  /\ pc[p] = "direct"
  /\ Return(p)
  /\ \/ /\ accepted' = accepted \o BatchesOf(call[p].request)
        /\ delivered' = delivered \o BatchesOf(call[p].request)
     \/ UNCHANGED <<accepted, delivered>>
  /\ UNCHANGED <<stateVars, helper, dropped, failed>>

-------------------------------------------------------------------------------
(* Waiting on the condition variable *)

(* The context of a call ends: at any time, seen where the code looks. *)
Cancel(p) ==
  /\ pc[p] \in {"waiting", "woken", "flush"} /\ ~call[p].ctxDone
  /\ call' = [call EXCEPT ![p].ctxDone = TRUE]
  /\ UNCHANGED <<stateVars, pc, helper, historyVars>>

(* Every waiting caller is woken, f moves on to next. *)
Broadcast(f, next) ==
  /\ pc' = [q \in Flushers |->
              IF q = f THEN next
              ELSE IF pc[q] = "waiting" THEN "woken" ELSE pc[q]]
  /\ call' = [q \in Callers |->
                IF q = f /\ next = "idle" THEN NoCall ELSE call[q]]

(* The helper's select takes ctx.Done(), then it needs the mutex. *)
HelperSeesDone(p) ==
  /\ helper[p] = "watching" /\ call[p].ctxDone
  /\ helper' = [helper EXCEPT ![p] = "notifying"]
  /\ UNCHANGED <<stateVars, pc, call, historyVars>>

(* Faulty variant: the helper wakes nobody. *)
HelperSilent(p) ==
  /\ helper[p] = "notifying"
  /\ helper' = [helper EXCEPT ![p] = "none"]
  /\ UNCHANGED <<stateVars, pc, call, historyVars>>

HelperBroadcasts(p) ==
  /\ helper[p] = "notifying"
  /\ helper' = [helper EXCEPT ![p] = "none"]
  /\ Broadcast(p, IF pc[p] = "waiting" THEN "woken" ELSE pc[p])
  /\ UNCHANGED <<stateVars, historyVars>>

-------------------------------------------------------------------------------
(* Flush *)

(* Flush, or the first critical section of CloseWithContext on an open     *)
(* writer, which goes on to Flush if FlushOnClose and to Close otherwise.  *)
StartFlush(p) ==
  /\ pc[p] = "idle" /\ helper[p] = "none"
  /\ \/ /\ call' = [call EXCEPT ![p].mark = Len(accepted)]
        /\ pc' = [pc EXCEPT ![p] = "flush"]
     \/ /\ ~closed
        /\ call' = [call EXCEPT ![p].mark = Len(accepted),
                                     ![p].closing = TRUE]
        /\ pc' = [pc EXCEPT ![p] =
                     IF opts.flushOnClose THEN "flush" ELSE "close"]
  /\ UNCHANGED <<stateVars, helper, accepted, delivered, dropped, failed>>

(* Flush returns before it owns the buffer: its context is done, the       *)
(* writer is closed, or another flush is in flight.  The last comes after  *)
(* beginFlush has stopped the timer.                                       *)
FlushRefused(p) ==
  /\ pc[p] = "flush"
  /\ \/ call[p].ctxDone /\ UNCHANGED timer
     \/ closed /\ UNCHANGED timer
     \/ ~closed /\ flushInFlight /\ timer' = FALSE
  /\ Return(p)
  /\ UNCHANGED <<opts, bufferVars, closed, flightVars, callbacks, helper,
                 historyVars>>

(* Faulty variants of beginFlush: no look at flushInFlight, none at closed, *)
(* only the first batch of the buffer taken.                                *)
TakeConcurrently(f) ==
  /\ ~closed
  /\ timer' = FALSE
  /\ flushInFlight' = TRUE
  /\ inflight' = pending /\ inflightBytes' = pendingBytes
  /\ pending' = <<>> /\ pendingBytes' = 0
  /\ pc' = [pc EXCEPT ![f] = "sending"]

TakeThoughClosed(f) ==
  /\ ~flushInFlight
  /\ timer' = FALSE
  /\ flushInFlight' = TRUE
  /\ inflight' = pending /\ inflightBytes' = pendingBytes
  /\ pending' = <<>> /\ pendingBytes' = 0
  /\ pc' = [pc EXCEPT ![f] = "sending"]

TakeFirst(f) ==
  /\ ~closed /\ ~flushInFlight
  /\ timer' = FALSE
  /\ flushInFlight' = TRUE
  /\ inflight' = IF pending = <<>> THEN <<>> ELSE <<Head(pending)>>
  /\ pending' = IF pending = <<>> THEN <<>> ELSE Tail(pending)
  /\ inflightBytes' = Bytes(inflight')
  /\ pendingBytes' = Bytes(pending')
  /\ pc' = [pc EXCEPT ![f] = "sending"]

(* beginFlush's success: f takes the whole buffer. *)
TakePending(f) ==
  /\ ~closed /\ ~flushInFlight
  /\ timer' = FALSE
  /\ flushInFlight' = TRUE
  /\ inflight' = pending /\ inflightBytes' = pendingBytes
  /\ pending' = <<>> /\ pendingBytes' = 0
  /\ pc' = [pc EXCEPT ![f] = "sending"]

BeginFlush(p) ==
  /\ pc[p] = "flush"
  /\ TakePending(p)
  /\ UNCHANGED <<opts, closed, callbacks, call, helper, historyVars>>

(* Faulty variant: no linger flush is scheduled for what came meanwhile. *)
EndFlushUnscheduled(f, next, due) ==
  /\ pc[f] = "sending"
  /\ flushInFlight' = FALSE
  /\ inflight' = <<>> /\ inflightBytes' = 0
  /\ Broadcast(f, next)
  /\ UNCHANGED <<opts, closed, callbacks, helper, timer>>

(* finishFlush, restorePending: schedule the next linger flush if one is   *)
(* due, then wake the blocked callers.                                     *)
EndFlush(f, next, due) ==
  /\ pc[f] = "sending"
  /\ flushInFlight' = FALSE
  /\ inflight' = <<>> /\ inflightBytes' = 0
  /\ timer' = (timer \/ (opts.linger /\ ~closed /\ due))
  /\ Broadcast(f, next)
  /\ UNCHANGED <<opts, closed, callbacks, helper>>

(* There was nothing to send, or the write function succeeded. *)
FlushSucceeds(f) ==
  /\ EndFlush(f,
              IF f \in Callers /\ call[f].closing THEN "close" ELSE "idle",
              pending # <<>>)
  /\ delivered' = delivered \o inflight
  /\ failed' = 0
  /\ UNCHANGED <<bufferVars, accepted, dropped>>

(* Faulty variant: put back behind what came meanwhile. *)
FlushFailsToBack(f) ==
  /\ inflight # <<>> /\ failed < FailureBound
  /\ EndFlush(f, "idle", TRUE)
  /\ pending' = pending \o inflight
  /\ pendingBytes' = pendingBytes + inflightBytes
  /\ failed' = failed + 1
  /\ UNCHANGED <<accepted, delivered, dropped>>

(* Faulty variant: the bytes put back are not counted again. *)
FlushFailsUncounted(f) ==
  /\ inflight # <<>> /\ failed < FailureBound
  /\ EndFlush(f, "idle", TRUE)
  /\ pending' = inflight \o pending
  /\ failed' = failed + 1
  /\ UNCHANGED <<pendingBytes, accepted, delivered, dropped>>

(* The write function fails: all it was given goes back to the front. *)
FlushFails(f) ==
  /\ inflight # <<>> /\ failed < FailureBound
  /\ EndFlush(f, "idle", TRUE)
  /\ pending' = inflight \o pending
  /\ pendingBytes' = pendingBytes + inflightBytes
  /\ failed' = failed + 1
  /\ UNCHANGED <<accepted, delivered, dropped>>

-------------------------------------------------------------------------------
(* The linger timer *)

TimerFires ==
  /\ timer /\ callbacks < CallbackBound
  /\ timer' = FALSE
  /\ callbacks' = callbacks + 1
  /\ UNCHANGED <<opts, bufferVars, closed, flightVars, callVars,
                 historyVars>>

(* A callback calls Flush with a context it makes itself, which is live    *)
(* then, and ignores what it returns.                                      *)
CallbackFlushes ==
  /\ callbacks > 0
  /\ callbacks' = callbacks - 1
  /\ TakePending(LingerTimer)
  /\ UNCHANGED <<opts, closed, call, helper, historyVars>>

CallbackRefused ==
  /\ callbacks > 0
  /\ callbacks' = callbacks - 1
  /\ closed \/ flushInFlight
  /\ timer' = (timer /\ closed)
  /\ UNCHANGED <<opts, bufferVars, closed, flightVars, callVars,
                 historyVars>>

-------------------------------------------------------------------------------
(* Close *)

(* Faulty variant: Close does not broadcast. *)
CloseSilently(p) ==
  /\ closed' = TRUE
  /\ timer' = FALSE
  /\ dropped' = pending \o dropped
  /\ pending' = <<>> /\ pendingBytes' = 0
  /\ Return(p)
  /\ UNCHANGED <<opts, flightVars, callbacks, helper, accepted, delivered,
                 failed>>

Close(p) ==
  /\ closed' = TRUE
  /\ timer' = FALSE
  /\ dropped' = pending \o dropped
  /\ pending' = <<>> /\ pendingBytes' = 0
  /\ Broadcast(p, "idle")
  /\ UNCHANGED <<opts, flightVars, callbacks, helper, accepted, delivered,
                 failed>>

(* Close is called by itself, or as the end of CloseWithContext. *)
PlainClose(p) == pc[p] = "idle" /\ Close(p)
CloseAfterFlush(p) == pc[p] = "close" /\ Close(p)

-------------------------------------------------------------------------------
WriteStep(p) ==
  \/ WriteClosed(p) \/ WriteDirect(p) \/ WriteAccepted(p) \/ WriteRefused(p)
  \/ WriteBlocks(p) \/ WaitCancelled(p) \/ DirectReturns(p)
  \/ HelperSeesDone(p) \/ HelperBroadcasts(p)

FlushStep(p) == FlushRefused(p) \/ BeginFlush(p) \/ CloseAfterFlush(p)

EndOfFlush(f) == FlushSucceeds(f) \/ FlushFails(f)

Callback == CallbackFlushes \/ CallbackRefused

Next ==
  \/ \E p \in Callers :
       \/ StartWrite(p) \/ StartFlush(p) \/ PlainClose(p) \/ Cancel(p)
       \/ WriteStep(p) \/ FlushStep(p)
  \/ \E f \in Flushers : EndOfFlush(f)
  \/ TimerFires \/ Callback

Spec == Init /\ [][Next]_vars

(* Goroutines that can run do run, timers fire and write functions return. *)
(* No caller has to make another call or to cancel one.                    *)
Fairness ==
  /\ \A p \in Callers :
       /\ WF_vars(WriteClosed(p) \/ WriteDirect(p) \/ WriteAccepted(p)
                    \/ WriteRefused(p) \/ WriteBlocks(p) \/ WaitCancelled(p))
       /\ WF_vars(DirectReturns(p))
       /\ WF_vars(HelperSeesDone(p))
       /\ WF_vars(HelperBroadcasts(p))
       /\ WF_vars(FlushStep(p))
  /\ \A f \in Flushers : WF_vars(EndOfFlush(f))
  /\ WF_vars(TimerFires)
  /\ WF_vars(Callback)

FairSpec == Spec /\ Fairness

-------------------------------------------------------------------------------
(* Safety *)

(* Every batch a Write accepted is, in the order of acceptance, delivered, *)
(* in the flush under way, buffered, or discarded by a Close: concurrent   *)
(* Writes, flushes that fail and put their batches back, linger callbacks  *)
(* and Close neither lose, duplicate nor reorder one.                      *)
Conservation ==
  /\ accepted = delivered \o inflight \o pending \o dropped
  /\ ~closed => dropped = <<>>

(* flushInFlight makes flushes exclusive: what beginFlush took belongs to  *)
(* one goroutine, and while one is at it the flag is set.                  *)
SingleFlush ==
  /\ \A f, g \in Flushers : pc[f] = "sending" /\ pc[g] = "sending" => f = g
  /\ flushInFlight <=> \E f \in Flushers : pc[f] = "sending"

(* A Flush that returns nil has sent all that was accepted before it was   *)
(* called, whatever other flushes failed in between: so has the one of     *)
(* CloseWithContext, and what Close discards after it was accepted later.  *)
FlushIsBarrier ==
  \A p \in Callers :
    /\ pc[p] = "sending" => Len(delivered) + Len(inflight) >= call[p].mark
    /\ pc[p] = "close" /\ opts.flushOnClose => Len(delivered) >= call[p].mark

(* The buffer limit does not bound the backlog, since the batches in       *)
(* flight do not count and come back when the flush fails: it grows by at  *)
(* most one limit with each failed flush.                                  *)
BacklogBound ==
  /\ ~flushInFlight => Len(pending) <= (failed + 1) * opts.batches
  /\ flushInFlight => /\ Len(pending) <= opts.batches
                      /\ Len(inflight) <= (failed + 1) * opts.batches

(* What hasCapacityLocked compares with the limit are the bytes of the     *)
(* batches that are buffered, however often failed flushes put theirs back *)
(* while Writes added others and Close threw all away.                     *)
BytesCounted ==
  /\ pendingBytes = Bytes(pending)
  /\ inflightBytes = Bytes(inflight)

(* No lost wake-up: a Write that sleeps on the condition variable though   *)
(* its batches would fit will be woken, for the flush that made room has   *)
(* yet to broadcast; and none sleeps on a closed writer.                   *)
NoLostWakeup ==
  \A p \in Callers :
    pc[p] = "waiting" => /\ ~closed
                         /\ HasCapacity(call[p].request) => flushInFlight

(* A closed writer starts no flush: callbacks of timers that Close came    *)
(* too late to stop send nothing, also if a failed flush put batches back. *)
NoFlushAfterClose ==
  [][closed /\ ~flushInFlight => ~flushInFlight' /\ UNCHANGED inflight]_vars

-------------------------------------------------------------------------------
(* The inductive invariant behind the safety properties *)

(* beginFlush's batches exist only while the flag is set. *)
FlightOwned == ~flushInFlight => inflight = <<>>

(* Only an unbuffered writer sends in Write, and it never buffers. *)
ImmediateUnbuffered ==
  /\ \A p \in Callers : pc[p] = "direct" => Immediate
  /\ Immediate => pending = <<>> /\ inflight = <<>> /\ dropped = <<>>

WriterInv ==
  TypeOK /\ SingleFlush /\ FlightOwned /\ ImmediateUnbuffered /\ Conservation

-------------------------------------------------------------------------------
(* Liveness *)

(* A Write blocked on a full buffer returns once its context is done. *)
CancelledWriteReturns ==
  \A p \in Callers : (pc[p] = "waiting" /\ call[p].ctxDone) ~> pc[p] = "idle"

(* Close lets every blocked Write return. *)
CloseReleasesWriters ==
  \A p \in Callers :
    (closed /\ pc[p] \in {"waiting", "woken"}) ~> pc[p] = "idle"

(* With linger, what was accepted is delivered without any further call,   *)
(* unless the writer is closed first.                                      *)
LingerDelivers ==
  \A n \in 1 .. AcceptBound :
    (opts.linger /\ ~Immediate /\ Len(accepted) >= n)
      ~> (Len(delivered) >= n \/ closed)

-------------------------------------------------------------------------------
(* The writer implements the queue it promises. *)
Queue == INSTANCE WriteQueue WITH
           queue <- inflight \o pending, open <- ~closed

ImplementsQueue == Queue!QueueSpec
===============================================================================
