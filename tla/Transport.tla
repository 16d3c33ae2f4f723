------------------------------- MODULE Transport -------------------------------
(***************************************************************************)
(* internal/transport/client.go: the calls of one address, multiplexed on  *)
(* the connection the client keeps for it.  A call looks the connection up *)
(* (getConn dials and shakes hands while it holds the client's mutex),     *)
(* registers itself under its request ID, writes its request and selects   *)
(* on its context, the end of the connection and its channel; readLoop     *)
(* hands each answer to the channel of the call it belongs to.             *)
(*                                                                         *)
(* A request ID is the call itself: Client.requests gives every call its   *)
(* own.  The server answers in any order, or not; connections fail.        *)
(***************************************************************************)
EXTENDS Naturals

CONSTANTS
  Calls,            \* the calls of Invoke
  Cancellable,      \* the calls whose context may end
  ConnectionBound,  \* bound of the instance: dials that succeed
  NoCall            \* not a call

ASSUME TransportAssumption ==
  NoCall \notin Calls /\ Cancellable \subseteq Calls /\ ConnectionBound \in Nat

Connections == 1 .. ConnectionBound
None == 0

VARIABLES
  mu,               \* the call that holds Client.mu through a handshake
  pool,             \* Client.conns at this address
  dialed,           \* how many connections were dialed
  ready,            \* history: the connections that negotiated
  socket,           \* connection.conn: open, lost by the peer, closed by Close
  reader,           \* where connection.readLoop is
  pending,          \* connection.pending
  toFail,           \* the entries failAll's Range has yet to visit
  target,           \* the entry failAll sends to
  ending,           \* TRUE iff readLoop ends after failAll
  unanswered,       \* the requests the server has and has not answered
  pc,               \* where each call is
  conn,             \* the connection of each call
  ch,               \* pendingCall.ch, of capacity one
  ctxDone           \* the calls whose context has ended

clientVars == <<mu, pool, dialed, ready>>
readVars == <<reader, toFail, target, ending>>
callVars == <<pc, conn, ctxDone>>
vars == <<clientVars, socket, readVars, pending, unanswered, callVars, ch>>

TypeOK ==
  /\ mu \in Calls \cup {NoCall}
  /\ pool \in Connections \cup {None}
  /\ dialed \in Connections \cup {None}
  /\ ready \subseteq Connections
  /\ socket \in [Connections -> {"undialed", "open", "lost", "closed"}]
  /\ reader \in [Connections -> {"reading", "failing", "done"}]
  /\ pending \in [Connections -> SUBSET Calls]
  /\ toFail \in [Connections -> SUBSET Calls]
  /\ target \in [Connections -> Calls \cup {NoCall}]
  /\ ending \in [Connections -> BOOLEAN]
  /\ unanswered \in [Connections -> SUBSET Calls]
  /\ pc \in [Calls -> {"start", "dial", "handshake", "store", "write", "wait",
                       "done"}]
  /\ conn \in [Calls -> Connections \cup {None}]
  /\ \A k \in Calls :
       pc[k] \in {"handshake", "store", "write", "wait"} => conn[k] # None
  /\ ch \in [Calls -> {"empty", "answer", "error"}]
  /\ ctxDone \subseteq Cancellable

Init ==
  /\ mu = NoCall /\ pool = None /\ dialed = None /\ ready = {}
  /\ socket = [c \in Connections |-> "undialed"]
  /\ reader = [c \in Connections |-> "reading"]
  /\ pending = [c \in Connections |-> {}]
  /\ toFail = [c \in Connections |-> {}]
  /\ target = [c \in Connections |-> NoCall]
  /\ ending = [c \in Connections |-> FALSE]
  /\ unanswered = [c \in Connections |-> {}]
  /\ pc = [k \in Calls |-> "start"]
  /\ conn = [k \in Calls |-> None]
  /\ ch = [k \in Calls |-> "empty"]
  /\ ctxDone = {}

-------------------------------------------------------------------------------
(* getConn *)

Goto(k, place) == pc' = [pc EXCEPT ![k] = place]

(* k goes on with the pooled connection. *)
UsePooled(k) ==
  /\ mu = NoCall /\ pool # None
  /\ conn' = [conn EXCEPT ![k] = pool]
  /\ Goto(k, "store")
  /\ UNCHANGED <<clientVars, socket, readVars, pending, unanswered, ch, ctxDone>>

(* The first look, under the mutex. *)
LookUp(k) ==
  /\ pc[k] = "start"
  /\ \/ UsePooled(k)
     \/ /\ mu = NoCall /\ pool = None
        /\ Goto(k, "dial")
        /\ UNCHANGED <<clientVars, socket, readVars, pending, unanswered, conn,
                       ch, ctxDone>>

(* The second look, after the mutex was free in between. *)
LookAgain(k) == pc[k] = "dial" /\ UsePooled(k)

(* Faulty variants: no second look; the connection is pooled at once. *)
DialBlindly(k) ==
  /\ pc[k] = "dial" /\ mu = NoCall /\ dialed < ConnectionBound
  /\ mu' = k
  /\ dialed' = dialed + 1
  /\ socket' = [socket EXCEPT ![dialed'] = "open"]
  /\ conn' = [conn EXCEPT ![k] = dialed']
  /\ Goto(k, "handshake")
  /\ UNCHANGED <<pool, ready, readVars, pending, unanswered, ch, ctxDone>>

DialPooled(k) ==
  /\ pc[k] = "dial" /\ mu = NoCall /\ pool = None /\ dialed < ConnectionBound
  /\ dialed' = dialed + 1
  /\ pool' = dialed'
  /\ socket' = [socket EXCEPT ![dialed'] = "open"]
  /\ conn' = [conn EXCEPT ![k] = dialed']
  /\ Goto(k, "handshake")
  /\ UNCHANGED <<mu, ready, readVars, pending, unanswered, ch, ctxDone>>

(* The mutex stays locked until the handshake is over. *)
Dial(k) ==
  /\ pc[k] = "dial" /\ mu = NoCall /\ pool = None /\ dialed < ConnectionBound
  /\ mu' = k
  /\ dialed' = dialed + 1
  /\ socket' = [socket EXCEPT ![dialed'] = "open"]
  /\ conn' = [conn EXCEPT ![k] = dialed']
  /\ Goto(k, "handshake")
  /\ UNCHANGED <<pool, ready, readVars, pending, unanswered, ch, ctxDone>>

DialFails(k) ==
  /\ pc[k] = "dial" /\ mu = NoCall /\ pool = None
  /\ Goto(k, "done")
  /\ UNCHANGED <<clientVars, socket, readVars, pending, unanswered, conn, ch,
                 ctxDone>>

(* negotiate and authenticate; their requests are answered or fail. *)
HandshakeSucceeds(k) ==
  /\ pc[k] = "handshake"
  /\ reader[conn[k]] = "reading" /\ socket[conn[k]] = "open"
  /\ ready' = ready \cup {conn[k]}
  /\ pool' = conn[k]
  /\ mu' = NoCall
  /\ Goto(k, "store")
  /\ UNCHANGED <<dialed, socket, readVars, pending, unanswered, conn, ch,
                 ctxDone>>

HandshakeFails(k) ==
  /\ pc[k] = "handshake"
  /\ socket' = [socket EXCEPT ![conn[k]] = "closed"]
  /\ mu' = NoCall
  /\ Goto(k, "done")
  /\ UNCHANGED <<pool, dialed, ready, readVars, pending, unanswered, conn, ch,
                 ctxDone>>

-------------------------------------------------------------------------------
(* connection.invoke *)

StoreCall(k) ==
  /\ pc[k] = "store"
  /\ pending' = [pending EXCEPT ![conn[k]] = @ \cup {k}]
  /\ Goto(k, "write")
  /\ UNCHANGED <<clientVars, socket, readVars, unanswered, conn, ch, ctxDone>>

(* invoke returns, its deferred Delete with it. *)
Return(k) ==
  /\ Goto(k, "done")
  /\ pending' = [pending EXCEPT ![conn[k]] = @ \ {k}]
  /\ UNCHANGED <<clientVars, socket, readVars, unanswered, conn, ctxDone>>

(* A write on a lost connection may still succeed here. *)
WriteRequest(k) ==
  /\ pc[k] = "write" /\ socket[conn[k]] \in {"open", "lost"}
  /\ unanswered' = IF socket[conn[k]] = "lost" THEN unanswered
                   ELSE [unanswered EXCEPT ![conn[k]] = @ \cup {k}]
  /\ Goto(k, "wait")
  /\ UNCHANGED <<clientVars, socket, readVars, pending, conn, ch, ctxDone>>

(* The connection is gone or the write deadline has passed. *)
WriteFails(k) == pc[k] = "write" /\ Return(k) /\ UNCHANGED ch

(* The select: any branch that is ready. *)
Receive(k) ==
  /\ pc[k] = "wait" /\ ch[k] # "empty"
  /\ ch' = [ch EXCEPT ![k] = "empty"]
  /\ Return(k)

SeeClosed(k) ==
  /\ pc[k] = "wait" /\ reader[conn[k]] = "done"
  /\ Return(k) /\ UNCHANGED ch

(* Faulty variant: the pending entry stays. *)
CancelledLeavingEntry(k) ==
  /\ pc[k] = "wait" /\ k \in ctxDone
  /\ Goto(k, "done")
  /\ UNCHANGED <<clientVars, socket, readVars, pending, unanswered, conn,
                 ctxDone, ch>>

SeeCancelled(k) ==
  /\ pc[k] = "wait" /\ k \in ctxDone
  /\ Return(k) /\ UNCHANGED ch

Cancel(k) ==
  /\ k \in Cancellable \ ctxDone /\ pc[k] = "wait"
  /\ ctxDone' = ctxDone \cup {k}
  /\ UNCHANGED <<clientVars, socket, readVars, pending, unanswered, pc, conn, ch>>

-------------------------------------------------------------------------------
(* connection.readLoop *)

(* resolve, or resolveError with a request ID: the answer goes to the call *)
(* it names, and is dropped if that call is not pending any more.          *)
ReadAnswer(c, k) ==
  /\ reader[c] = "reading" /\ socket[c] = "open" /\ k \in unanswered[c]
  /\ unanswered' = [unanswered EXCEPT ![c] = @ \ {k}]
  /\ IF k \in pending[c]
       THEN ch[k] = "empty" /\ ch' = [ch EXCEPT ![k] = "answer"]
       ELSE UNCHANGED ch
  /\ UNCHANGED <<clientVars, socket, readVars, pending, callVars>>

(* failAll begins: for a failure without a request ID, or for good. *)
FailAll(c, last) ==
  /\ reader' = [reader EXCEPT ![c] = "failing"]
  /\ toFail' = [toFail EXCEPT ![c] = pending[c]]
  /\ ending' = [ending EXCEPT ![c] = last]
  /\ UNCHANGED <<clientVars, socket, target, pending, unanswered, callVars, ch>>

ReadFailure(c) ==
  /\ reader[c] = "reading" /\ socket[c] = "open" /\ pending[c] # {}
  /\ FailAll(c, FALSE)

(* The connection has ended, or a frame makes no sense. *)
ReadFails(c) ==
  /\ reader[c] = "reading" /\ socket[c] # "undialed"
  /\ FailAll(c, TRUE)

(* Range loads an entry.  One stored meanwhile may be visited too. *)
VisitEntry(c, k) ==
  /\ reader[c] = "failing" /\ target[c] = NoCall /\ k \in pending[c]
  /\ target' = [target EXCEPT ![c] = k]
  /\ UNCHANGED <<clientVars, socket, reader, toFail, ending, pending,
                 unanswered, callVars, ch>>

(* Faulty variant: the entry is deleted, the call not told. *)
DropEntry(c) ==
  /\ reader[c] = "failing" /\ target[c] # NoCall
  /\ pending' = [pending EXCEPT ![c] = @ \ {target[c]}]
  /\ toFail' = [toFail EXCEPT ![c] = @ \ {target[c]}]
  /\ target' = [target EXCEPT ![c] = NoCall]
  /\ UNCHANGED <<clientVars, socket, reader, ending, unanswered, callVars, ch>>

(* The send blocks while the call's channel is full. *)
FailEntry(c) ==
  /\ reader[c] = "failing" /\ target[c] # NoCall
  /\ ch[target[c]] = "empty"
  /\ ch' = [ch EXCEPT ![target[c]] = "error"]
  /\ pending' = [pending EXCEPT ![c] = @ \ {target[c]}]
  /\ toFail' = [toFail EXCEPT ![c] = @ \ {target[c]}]
  /\ target' = [target EXCEPT ![c] = NoCall]
  /\ UNCHANGED <<clientVars, socket, reader, ending, unanswered, callVars>>

(* Faulty variant: readLoop ends without closing connection.closed. *)
FailedAllUnclosed(c) ==
  /\ reader[c] = "failing" /\ target[c] = NoCall
  /\ toFail[c] \cap pending[c] = {}
  /\ reader' = [reader EXCEPT ![c] = IF ending[c] THEN "gone" ELSE "reading"]
  /\ toFail' = [toFail EXCEPT ![c] = {}]
  /\ UNCHANGED <<clientVars, socket, target, ending, pending, unanswered,
                 callVars, ch>>

(* The Range is over: close(c.closed), or the next frame. *)
FailedAll(c) ==
  /\ reader[c] = "failing" /\ target[c] = NoCall
  /\ toFail[c] \cap pending[c] = {}
  /\ reader' = [reader EXCEPT ![c] = IF ending[c] THEN "done" ELSE "reading"]
  /\ toFail' = [toFail EXCEPT ![c] = {}]
  /\ UNCHANGED <<clientVars, socket, target, ending, pending, unanswered,
                 callVars, ch>>

-------------------------------------------------------------------------------
(* The peer ends the connection. *)
Lose(c) ==
  /\ socket[c] = "open"
  /\ socket' = [socket EXCEPT ![c] = "lost"]
  /\ UNCHANGED <<clientVars, readVars, pending, unanswered, callVars, ch>>

(* Client.Close waits for the mutex; a later Invoke dials again. *)
Close ==
  /\ mu = NoCall /\ pool # None
  /\ socket' = [socket EXCEPT ![pool] = "closed"]
  /\ pool' = None
  /\ UNCHANGED <<mu, dialed, ready, readVars, pending, unanswered, callVars, ch>>

GetConn(k) ==
  \/ LookUp(k) \/ LookAgain(k) \/ Dial(k) \/ DialFails(k)
  \/ HandshakeSucceeds(k) \/ HandshakeFails(k)

Invoke(k) ==
  \/ StoreCall(k) \/ WriteRequest(k) \/ WriteFails(k)
  \/ Receive(k) \/ SeeClosed(k) \/ SeeCancelled(k)

ReadLoop(c) ==
  \/ ReadFails(c) \/ FailEntry(c) \/ FailedAll(c)
  \/ \E k \in Calls : VisitEntry(c, k)

Next ==
  \/ \E k \in Calls : GetConn(k) \/ Invoke(k) \/ Cancel(k)
  \/ \E c \in Connections :
       \/ ReadLoop(c) \/ ReadFailure(c) \/ Lose(c)
       \/ \E k \in Calls : ReadAnswer(c, k)
  \/ Close

Spec == Init /\ [][Next]_vars

(* Goroutines that can run do run, and a lost connection is noticed.  The  *)
(* server owes nobody an answer.                                           *)
Fairness ==
  /\ \A k \in Calls : WF_vars(Invoke(k))
  /\ \A c \in Connections :
       /\ WF_vars(socket[c] # "open" /\ ReadFails(c))
       /\ WF_vars(FailEntry(c) \/ FailedAll(c) \/ \E k \in Calls : VisitEntry(c, k))

FairSpec == Spec /\ Fairness

-------------------------------------------------------------------------------
(* Safety *)

(* No connection is lost sight of: one that was dialed and not closed is   *)
(* in the pool, where Close finds it, or in its handshake, whatever calls  *)
(* raced to dial it.                                                       *)
NoLeakedConnection ==
  \A c \in Connections :
    socket[c] \in {"open", "lost"}
      => \/ pool = c
         \/ \E k \in Calls : mu = k /\ pc[k] = "handshake" /\ conn[k] = c

(* No call writes before its connection has negotiated, also when another  *)
(* call dialed it.                                                         *)
HandshakeBeforeUse ==
  /\ pool # None => pool \in ready
  /\ \A k \in Calls : pc[k] \in {"store", "write", "wait"} => conn[k] \in ready

(* The map of pending calls does not grow: an entry belongs to a call that *)
(* is under way on this connection, however its predecessors ended.        *)
NoStaleEntries ==
  \A c \in Connections, k \in Calls :
    k \in pending[c] => pc[k] \in {"write", "wait"} /\ conn[k] = c

(* No answer goes astray: a call that waits on a connection that reads has *)
(* its answer in its channel or may still get it from the server.          *)
NoLostAnswer ==
  \A k \in Calls :
    pc[k] = "wait" /\ ch[k] = "empty" /\ socket[conn[k]] = "open"
                   /\ reader[conn[k]] = "reading"
      => k \in unanswered[conn[k]] /\ k \in pending[conn[k]]

-------------------------------------------------------------------------------
(* Liveness *)

(* A call does not outlive its connection.  Where contexts can end it may, *)
(* because of what follows.                                                *)
LostConnectionEndsCalls ==
  \A k \in Calls :
    (pc[k] = "wait" /\ socket[conn[k]] # "open") ~> pc[k] = "done"

(* failAll sends to a call that took its context's end over an answer in   *)
(* its channel, which nobody will empty.                                   *)
Stuck(c) ==
  /\ reader[c] = "failing" /\ target[c] # NoCall
  /\ pc[target[c]] = "done" /\ ch[target[c]] # "empty"

(* Nothing else keeps a call on a lost connection: wherever failAll's      *)
(* range finds its entry, or passes it by, the call returns, or readLoop   *)
(* is stuck in a send to a call that has left.                             *)
OnlyStuckLoopsHoldCalls ==
  \A k \in Calls :
    (pc[k] = "wait" /\ socket[conn[k]] # "open")
      ~> (pc[k] = "done" \/ \E c \in Connections : c = conn[k] /\ Stuck(c))
===============================================================================
