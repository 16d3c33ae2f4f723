---------------------------- MODULE TransportProofs ----------------------------
(***************************************************************************)
(* Theorems about Transport, for any number of calls and connections,      *)
(* whichever of the calls may be cancelled.                                *)
(***************************************************************************)
EXTENDS Transport, TLAPS

(* The calls that have got their connection from getConn. *)
Using == {"store", "write", "wait"}

(* The handshake is made by the call that holds the mutex, and only while  *)
(* there is no connection to share.                                        *)
OneHandshake ==
  \A k \in Calls : pc[k] = "handshake" => mu = k /\ pool = None

(* Connections are numbered as they are dialed. *)
DialedInOrder == pool <= dialed /\ \A k \in Calls : conn[k] <= dialed

(* A call whose channel is empty can still be found by readLoop. *)
EntryKept ==
  \A k \in Calls :
    pc[k] \in {"write", "wait"} /\ ch[k] = "empty" => k \in pending[conn[k]]

(* The server owes an answer to a call that waits on an open connection,   *)
(* whether readLoop reads or is in failAll.                                *)
AnswerOwed ==
  \A k \in Calls :
    pc[k] = "wait" /\ ch[k] = "empty" /\ socket[conn[k]] = "open"
      => k \in unanswered[conn[k]]

TransportInv ==
  /\ TypeOK /\ OneHandshake /\ DialedInOrder
  /\ NoLeakedConnection /\ HandshakeBeforeUse
  /\ NoStaleEntries /\ EntryKept /\ AnswerOwed

-------------------------------------------------------------------------------
(* The type invariant *)

LEMMA InitType == Init => TypeOK
BY TransportAssumption DEF Init, TypeOK, Connections, None

LEMMA GetConnType ==
  ASSUME TypeOK, NEW k \in Calls, GetConn(k)
  PROVE  TypeOK'
<1> USE TransportAssumption DEF TypeOK, Connections, None, Goto, readVars,
        clientVars
<1>1. CASE LookUp(k)
  <2>1. CASE UsePooled(k)
    BY <2>1 DEF UsePooled
  <2>2. CASE ~ UsePooled(k)
    BY <1>1, <2>2 DEF LookUp
  <2>3. QED
    BY <2>1, <2>2
<1>2. CASE LookAgain(k)
  BY <1>2 DEF LookAgain, UsePooled
<1>3. CASE Dial(k)
  <2>1. dialed' \in Connections
    BY <1>3 DEF Dial
  <2>2. QED
    BY <1>3, <2>1 DEF Dial
<1>4. CASE DialFails(k)
  BY <1>4 DEF DialFails
<1>5. CASE HandshakeSucceeds(k)
  BY <1>5 DEF HandshakeSucceeds
<1>6. CASE HandshakeFails(k)
  BY <1>6 DEF HandshakeFails
<1>7. QED
  BY <1>1, <1>2, <1>3, <1>4, <1>5, <1>6 DEF GetConn

LEMMA InvokeType ==
  ASSUME TypeOK, NEW k \in Calls, Invoke(k)
  PROVE  TypeOK'
<1> USE TransportAssumption DEF TypeOK, Connections, None, Goto, readVars,
        clientVars, Return
<1>1. CASE StoreCall(k)
  BY <1>1 DEF StoreCall
<1>2. CASE WriteRequest(k)
  BY <1>2 DEF WriteRequest
<1>3. CASE WriteFails(k)
  BY <1>3 DEF WriteFails
<1>4. CASE Receive(k)
  BY <1>4 DEF Receive
<1>5. CASE SeeClosed(k)
  BY <1>5 DEF SeeClosed
<1>6. CASE SeeCancelled(k)
  BY <1>6 DEF SeeCancelled
<1>7. QED
  BY <1>1, <1>2, <1>3, <1>4, <1>5, <1>6 DEF Invoke

LEMMA ReaderType ==
  ASSUME TypeOK, NEW c \in Connections,
         \/ ReadLoop(c) \/ ReadFailure(c) \/ Lose(c)
         \/ \E k \in Calls : ReadAnswer(c, k)
  PROVE  TypeOK'
<1> USE TransportAssumption DEF TypeOK, None, readVars, clientVars, callVars
<1>1. ASSUME NEW last \in BOOLEAN, FailAll(c, last) PROVE TypeOK'
  <2>1. ending' \in [Connections -> BOOLEAN]
    BY <1>1, Zenon DEF FailAll
  <2>2. reader' \in [Connections -> {"reading", "failing", "done"}]
    BY <1>1 DEF FailAll
  <2>3. toFail' \in [Connections -> SUBSET Calls]
    BY <1>1 DEF FailAll
  <2>4. QED
    BY <1>1, <2>1, <2>2, <2>3 DEF FailAll
<1>2. ASSUME NEW k \in Calls, VisitEntry(c, k) PROVE TypeOK'
  BY <1>2 DEF VisitEntry
<1>3. CASE FailEntry(c)
  BY <1>3 DEF FailEntry
<1>4. CASE FailedAll(c)
  BY <1>4 DEF FailedAll
<1>5. CASE Lose(c)
  BY <1>5 DEF Lose
<1>6. ASSUME NEW k \in Calls, ReadAnswer(c, k) PROVE TypeOK'
  BY <1>6 DEF ReadAnswer
<1>7. QED
  BY <1>1, <1>2, <1>3, <1>4, <1>5, <1>6 DEF ReadLoop, ReadFails, ReadFailure

LEMMA NextType == TypeOK /\ [Next]_vars => TypeOK'
<1> SUFFICES ASSUME TypeOK, [Next]_vars PROVE TypeOK'
  OBVIOUS
<1>1. ASSUME NEW k \in Calls, Cancel(k) PROVE TypeOK'
  BY <1>1 DEF Cancel, TypeOK, clientVars, readVars
<1>2. CASE Close
  BY <1>2 DEF Close, TypeOK, readVars, callVars, None
<1>3. CASE UNCHANGED vars
  BY <1>3 DEF vars, clientVars, readVars, callVars, TypeOK
<1>4. QED
  BY <1>1, <1>2, <1>3, GetConnType, InvokeType, ReaderType DEF Next

-------------------------------------------------------------------------------
(* The pool.  A step that is not in getConn or Close leaves it alone.      *)

PoolInv ==
  /\ OneHandshake /\ DialedInOrder
  /\ NoLeakedConnection /\ HandshakeBeforeUse

(* Steps after getConn: a call goes on, or ends, with the connection it    *)
(* has; an open connection may be lost.                                    *)
AwayFromPool ==
  /\ UNCHANGED <<clientVars, conn>>
  /\ \A k \in Calls : \/ pc'[k] = pc[k]
                      \/ pc[k] \in Using /\ pc'[k] \in Using \cup {"done"}
  /\ \A c \in Connections : \/ socket'[c] = socket[c]
                            \/ socket[c] = "open" /\ socket'[c] = "lost"

LEMMA AwayKeepsPool ==
  ASSUME TypeOK, PoolInv, AwayFromPool
  PROVE  PoolInv'
<1> USE DEF PoolInv, AwayFromPool, clientVars, Using
<1>1. OneHandshake'
  BY DEF OneHandshake
<1>2. DialedInOrder'
  BY DEF DialedInOrder
<1>3. NoLeakedConnection'
  <2> SUFFICES ASSUME NEW c \in Connections, socket'[c] \in {"open", "lost"}
               PROVE  \/ pool' = c
                      \/ \E k \in Calls : mu' = k /\ pc'[k] = "handshake"
                                          /\ conn'[k] = c
    BY DEF NoLeakedConnection
  <2>1. socket[c] \in {"open", "lost"}
    OBVIOUS
  <2>2. QED
    BY <2>1 DEF NoLeakedConnection
<1>4. HandshakeBeforeUse'
  BY DEF HandshakeBeforeUse
<1>5. QED
  BY <1>1, <1>2, <1>3, <1>4

LEMMA AwayActions ==
  ASSUME TypeOK,
         \/ \E k \in Calls : Invoke(k) \/ Cancel(k)
         \/ \E c \in Connections :
              \/ ReadLoop(c) \/ ReadFailure(c) \/ Lose(c)
              \/ \E k \in Calls : ReadAnswer(c, k)
         \/ UNCHANGED vars
  PROVE  AwayFromPool
<1> USE DEF AwayFromPool, clientVars, callVars, Using, TypeOK
<1>1. ASSUME NEW k \in Calls, Invoke(k) PROVE AwayFromPool
  <2> USE DEF Goto, Return
  <2>1. CASE StoreCall(k)
    BY <2>1 DEF StoreCall
  <2>2. CASE WriteRequest(k)
    BY <2>2 DEF WriteRequest
  <2>3. CASE WriteFails(k)
    BY <2>3 DEF WriteFails
  <2>4. CASE Receive(k) \/ SeeClosed(k) \/ SeeCancelled(k)
    BY <2>4 DEF Receive, SeeClosed, SeeCancelled
  <2>5. QED
    BY <1>1, <2>1, <2>2, <2>3, <2>4 DEF Invoke
<1>2. ASSUME NEW k \in Calls, Cancel(k) PROVE AwayFromPool
  BY <1>2 DEF Cancel
<1>3. ASSUME NEW c \in Connections, ReadLoop(c) \/ ReadFailure(c)
      PROVE  AwayFromPool
  BY <1>3 DEF ReadLoop, ReadFailure, ReadFails, FailAll, VisitEntry,
       FailEntry, FailedAll
<1>4. ASSUME NEW c \in Connections, Lose(c) PROVE AwayFromPool
  BY <1>4 DEF Lose
<1>5. ASSUME NEW c \in Connections, NEW k \in Calls, ReadAnswer(c, k)
      PROVE  AwayFromPool
  BY <1>5 DEF ReadAnswer
<1>6. CASE UNCHANGED vars
  BY <1>6 DEF vars
<1>7. QED
  BY <1>1, <1>2, <1>3, <1>4, <1>5, <1>6

LEMMA PoolKept ==
  ASSUME TypeOK, PoolInv, [Next]_vars
  PROVE  PoolInv'
<1> USE DEF PoolInv, OneHandshake, DialedInOrder, NoLeakedConnection,
        HandshakeBeforeUse, Goto, clientVars
<1> USE TransportAssumption DEF TypeOK, None, Connections
<1>1. ASSUME NEW k \in Calls, pc[k] \in {"start", "dial"}, UsePooled(k)
      PROVE  PoolInv'
  BY <1>1 DEF UsePooled
<1>2. ASSUME NEW k \in Calls, LookUp(k), ~UsePooled(k) PROVE PoolInv'
  BY <1>2 DEF LookUp
<1>3. ASSUME NEW k \in Calls, Dial(k) PROVE PoolInv'
  <2> USE <1>3 DEF Dial
  <2>1. /\ dialed' = dialed + 1 /\ dialed' \in Connections
        /\ conn' = [conn EXCEPT ![k] = dialed']
        /\ pc' = [pc EXCEPT ![k] = "handshake"]
        /\ socket' = [socket EXCEPT ![dialed'] = "open"]
        /\ mu = NoCall /\ mu' = k /\ pool = None /\ pool' = None
        /\ ready' = ready
    OBVIOUS
  <2>2. OneHandshake'
    BY <2>1
  <2>3. DialedInOrder'
    <3>1. dialed \in Nat /\ dialed' \in Nat /\ dialed <= dialed'
      BY <2>1
    <3>2. ASSUME NEW j \in Calls PROVE conn'[j] <= dialed'
      <4>1. conn[j] \in Nat /\ conn[j] <= dialed
        OBVIOUS
      <4>2. conn'[j] = IF j = k THEN dialed' ELSE conn[j]
        BY <2>1
      <4>3. QED
        BY <4>1, <4>2, <3>1
    <3>3. pool' <= dialed'
      BY <2>1, <3>1
    <3>4. QED
      BY <3>2, <3>3
  <2>4. NoLeakedConnection'
    BY <2>1
  <2>5. HandshakeBeforeUse'
    BY <2>1
  <2>6. QED
    BY <2>2, <2>3, <2>4, <2>5
<1>4. ASSUME NEW k \in Calls, DialFails(k) PROVE PoolInv'
  BY <1>4 DEF DialFails
<1>5. ASSUME NEW k \in Calls, HandshakeSucceeds(k) PROVE PoolInv'
  BY <1>5 DEF HandshakeSucceeds
<1>6. ASSUME NEW k \in Calls, HandshakeFails(k) PROVE PoolInv'
  BY <1>6 DEF HandshakeFails
<1>7. CASE Close
  BY <1>7 DEF Close, callVars
<1>8. QED
  BY <1>1, <1>2, <1>3, <1>4, <1>5, <1>6, <1>7, AwayActions, AwayKeepsPool
     DEF Next, GetConn, LookUp, LookAgain

-------------------------------------------------------------------------------
(* The pending calls *)

CallsInv == NoStaleEntries /\ EntryKept /\ AnswerOwed

(* Steps of getConn and Close touch no call that has stored its entry, and *)
(* open no connection such a call is on.                                   *)
AwayFromCalls ==
  /\ UNCHANGED <<pending, unanswered, ch>>
  /\ \A k \in Calls :
       \/ pc[k] \in {"write", "wait"} /\ pc'[k] = pc[k] /\ conn'[k] = conn[k]
          /\ socket'[conn[k]] \in {socket[conn[k]], "lost", "closed"}
       \/ pc[k] \notin {"write", "wait"} /\ pc'[k] \notin {"write", "wait"}

LEMMA AwayKeepsCalls ==
  ASSUME TypeOK, CallsInv, AwayFromCalls
  PROVE  CallsInv'
<1> USE DEF CallsInv, AwayFromCalls
<1>1. NoStaleEntries'
  BY DEF NoStaleEntries
<1>2. EntryKept'
  BY DEF EntryKept
<1>3. AnswerOwed'
  BY DEF AnswerOwed
<1>4. QED
  BY <1>1, <1>2, <1>3

LEMMA PoolActions ==
  ASSUME TypeOK, PoolInv, (\E k \in Calls : GetConn(k) \/ Cancel(k)) \/ Close
                          \/ (\E c \in Connections : Lose(c)) \/ UNCHANGED vars
  PROVE  AwayFromCalls
<1> USE DEF AwayFromCalls, TypeOK, Goto, callVars
<1>1. ASSUME NEW k \in Calls, GetConn(k) PROVE AwayFromCalls
  <2>1. ASSUME pc[k] \in {"start", "dial"}, UsePooled(k) PROVE AwayFromCalls
    BY <2>1 DEF UsePooled
  <2>2. CASE LookUp(k) /\ ~UsePooled(k)
    BY <2>2 DEF LookUp
  <2>3. CASE Dial(k)
    <3>1. \A j \in Calls : pc[j] \in {"write", "wait"} => conn[j] # dialed'
      <4> SUFFICES ASSUME NEW j \in Calls PROVE conn[j] # dialed'
        OBVIOUS
      <4>1. conn[j] \in Nat /\ conn[j] <= dialed /\ dialed \in Nat
        BY DEF PoolInv, DialedInOrder, Connections, None
      <4>2. QED
        BY <2>3, <4>1 DEF Dial
    <3>2. QED
      BY <2>3, <3>1 DEF Dial
  <2>4. CASE DialFails(k)
    BY <2>4 DEF DialFails
  <2>5. CASE HandshakeSucceeds(k)
    BY <2>5 DEF HandshakeSucceeds
  <2>6. CASE HandshakeFails(k)
    BY <2>6 DEF HandshakeFails
  <2>7. QED
    BY <1>1, <2>1, <2>2, <2>3, <2>4, <2>5, <2>6 DEF GetConn, LookUp, LookAgain
<1>2. ASSUME NEW k \in Calls, Cancel(k) PROVE AwayFromCalls
  BY <1>2 DEF Cancel
<1>3. CASE Close
  BY <1>3 DEF Close
<1>4. ASSUME NEW c \in Connections, Lose(c) PROVE AwayFromCalls
  BY <1>4 DEF Lose
<1>5. CASE UNCHANGED vars
  BY <1>5 DEF vars
<1>6. QED
  BY <1>1, <1>2, <1>3, <1>4, <1>5

LEMMA CallsKept ==
  ASSUME TypeOK, PoolInv, CallsInv, [Next]_vars
  PROVE  CallsInv'
<1> USE DEF CallsInv, NoStaleEntries, EntryKept, AnswerOwed, Goto, callVars,
        TypeOK
<1>1. ASSUME NEW k \in Calls, StoreCall(k) PROVE CallsInv'
  BY <1>1 DEF StoreCall
<1>2. ASSUME NEW k \in Calls, WriteRequest(k) PROVE CallsInv'
  BY <1>2 DEF WriteRequest
<1>3. ASSUME NEW k \in Calls, Return(k), pc[k] \in {"write", "wait"},
             \/ UNCHANGED ch
             \/ ch' = [ch EXCEPT ![k] = "empty"]
      PROVE  CallsInv'
  BY <1>3 DEF Return
<1>4. ASSUME NEW c \in Connections, NEW k \in Calls, ReadAnswer(c, k)
      PROVE  CallsInv'
  BY <1>4 DEF ReadAnswer
<1>5. ASSUME NEW c \in Connections, NEW last \in BOOLEAN, FailAll(c, last)
      PROVE  CallsInv'
  BY <1>5 DEF FailAll
<1>6. ASSUME NEW c \in Connections, NEW k \in Calls, VisitEntry(c, k)
      PROVE  CallsInv'
  BY <1>6 DEF VisitEntry
<1>7. ASSUME NEW c \in Connections, FailEntry(c) PROVE CallsInv'
  BY <1>7 DEF FailEntry
<1>8. ASSUME NEW c \in Connections, FailedAll(c) PROVE CallsInv'
  BY <1>8 DEF FailedAll
<1>9. ASSUME NEW k \in Calls, Invoke(k) PROVE CallsInv'
  BY <1>1, <1>2, <1>3, <1>9 DEF Invoke, WriteFails, Receive, SeeClosed,
     SeeCancelled
<1>10. ASSUME NEW c \in Connections,
              \/ ReadLoop(c) \/ ReadFailure(c)
              \/ \E k \in Calls : ReadAnswer(c, k)
       PROVE  CallsInv'
  BY <1>4, <1>5, <1>6, <1>7, <1>8, <1>10 DEF ReadLoop, ReadFails, ReadFailure
<1>11. CASE (\E k \in Calls : GetConn(k) \/ Cancel(k)) \/ Close
            \/ (\E c \in Connections : Lose(c)) \/ UNCHANGED vars
  BY <1>11, PoolActions, AwayKeepsCalls
<1>12. QED
  BY <1>9, <1>10, <1>11 DEF Next

-------------------------------------------------------------------------------
(* The theorems *)

LEMMA InitInv == Init => TransportInv
BY InitType DEF Init, TransportInv, OneHandshake, DialedInOrder,
   NoLeakedConnection, HandshakeBeforeUse, NoStaleEntries, EntryKept,
   AnswerOwed, None

LEMMA StepInv == TransportInv /\ [Next]_vars => TransportInv'
BY NextType, PoolKept, CallsKept DEF TransportInv, PoolInv, CallsInv

LEMMA Invariance == Spec => []TransportInv
BY InitInv, StepInv, PTL DEF Spec

(* Every variable of the client, its connections and calls has its type.   *)
THEOREM Typing == Spec => []TypeOK
<1>1. TransportInv => TypeOK
  BY DEF TransportInv
<1>2. QED
  BY <1>1, Invariance, PTL

(* However calls race to dial, fail to shake hands or are closed under way,*)
(* getConn loses no connection: what is dialed and not closed is in the    *)
(* pool or in its handshake.                                               *)
THEOREM SpecNoLeakedConnection == Spec => []NoLeakedConnection
<1>1. TransportInv => NoLeakedConnection
  BY DEF TransportInv
<1>2. QED
  BY <1>1, Invariance, PTL

(* No call uses a connection before negotiate and authenticate are done.   *)
THEOREM SpecHandshakeBeforeUse == Spec => []HandshakeBeforeUse
<1>1. TransportInv => HandshakeBeforeUse
  BY DEF TransportInv
<1>2. QED
  BY <1>1, Invariance, PTL

(* connection.pending holds only calls that are under way on it.           *)
THEOREM SpecNoStaleEntries == Spec => []NoStaleEntries
<1>1. TransportInv => NoStaleEntries
  BY DEF TransportInv
<1>2. QED
  BY <1>1, Invariance, PTL

(* While readLoop reads, a waiting call has its answer or may still get    *)
(* it.  The inductive form holds during failAll as well.                   *)
THEOREM SpecNoLostAnswer == Spec => []NoLostAnswer
<1>1. TransportInv => NoLostAnswer
  BY DEF TransportInv, NoLostAnswer, EntryKept, AnswerOwed
<1>2. QED
  BY <1>1, Invariance, PTL
===============================================================================
