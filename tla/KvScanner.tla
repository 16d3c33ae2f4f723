------------------------------- MODULE KvScanner -------------------------------
(***************************************************************************)
(* client/scanner.go and ScanRows of client/row.go: one scanner of one     *)
(* bucket.  Next fetches a page from the session that its first call opens *)
(* on a tablet server, Close ends the session; ScanRows calls Next until   *)
(* there is no more, then Close.  A caller who has the scanner itself may  *)
(* call either at any time, and Next again after an error.                 *)
(*                                                                         *)
(* The servers are the environment.  A server counts the calls of each     *)
(* session, as the client's call_seq_id implies: it answers the call it    *)
(* expects and refuses any other, and may refuse any call for reasons of   *)
(* its own.  A call that is given up may reach the server late, or never.  *)
(***************************************************************************)
EXTENDS Naturals, FiniteSets, Sequences

CONSTANTS
  Servers,          \* the tablet servers
  RowCount,         \* how many rows the bucket has: 1, 2, ...
  SessionBound,     \* bound of the instance: sessions opened
  CallBound,        \* bound of the instance: calls answered
  LateBound         \* bound of the instance: requests on their way at once

ASSUME ScannerAssumption ==
  /\ Servers # {}
  /\ RowCount \in Nat /\ SessionBound \in Nat
  /\ CallBound \in Nat \ {0} /\ LateBound \in Nat

NoID == 0

VARIABLES
  direct,           \* TRUE iff the caller uses the scanner itself
  phase,            \* "scan", "close" or "done", of ScanRows
  failing,          \* TRUE iff ScanRows returns an error
  emptyPages,       \* ScanRows' count of empty pages in a row
  scannerID,        \* KVScanner.scannerID
  callSeqID,        \* KVScanner.callSeqID
  started,          \* KVScanner.started
  rows,             \* history: the rows Next returned, in that order
  retried,          \* history: Next was called after an error
  erred,            \* history: a call of Next has returned an error
  orphaned,         \* history: an opening call that was sent, or a Close, was
                    \* not answered
  leader,           \* the server that has the bucket
  moved,            \* history: the leader has changed
  sessions,         \* the sessions opened: server, next call, position
  late              \* requests given up that may still reach their server

scannerVars == <<scannerID, callSeqID, started>>
scanVars == <<direct, phase, failing, emptyPages>>
historyVars == <<rows, retried, erred, orphaned>>
clusterVars == <<leader, moved, sessions, late>>
vars == <<scannerVars, scanVars, historyVars, clusterVars>>

Request == [kind : {"open", "page", "close"}, to : Servers,
            id : 0 .. SessionBound, seq : 0 .. CallBound - 1]

TypeOK ==
  /\ direct \in BOOLEAN /\ failing \in BOOLEAN
  /\ phase \in {"scan", "close", "done"}
  /\ emptyPages \in 0 .. 2
  /\ scannerID \in 0 .. Len(sessions)
  /\ callSeqID \in 0 .. CallBound
  /\ started \in BOOLEAN /\ (started <=> callSeqID > 0)
  /\ rows \in Seq(1 .. RowCount)
  /\ retried \in BOOLEAN /\ erred \in BOOLEAN /\ orphaned \in BOOLEAN
  /\ leader \in Servers /\ moved \in BOOLEAN
  /\ sessions \in Seq([at : Servers, expect : 1 .. CallBound,
                       pos : 0 .. RowCount, open : BOOLEAN])
  /\ Len(sessions) <= SessionBound
  /\ late \subseteq Request

Init ==
  /\ direct \in BOOLEAN /\ phase = "scan" /\ failing = FALSE /\ emptyPages = 0
  /\ scannerID = NoID /\ callSeqID = 0 /\ started = FALSE
  /\ rows = <<>>
  /\ retried = FALSE /\ erred = FALSE /\ orphaned = FALSE
  /\ leader \in Servers /\ moved = FALSE
  /\ sessions = <<>> /\ late = {}

-------------------------------------------------------------------------------
(* The tablet server at r.to: the sessions and the answer it makes of r.   *)

Outcome(newSessions, code, id, page, more) ==
  [sessions |-> newSessions, code |-> code, id |-> id, page |-> page,
   more |-> more]

(* Refused with a code in the answer, or with an error for an answer,      *)
(* which Invoke returns as its own.                                        *)
Refusals == {Outcome(sessions, code, NoID, <<>>, FALSE) : code \in {"code", "error"}}

Page(pos, n) == [i \in 1 .. n |-> pos + i]

(* n rows, perhaps none; the last page says so, or an empty one after it.  *)
Pages(pos) ==
  {p \in (0 .. RowCount - pos) \X BOOLEAN : p[2] \/ pos + p[1] = RowCount}

(* A session that has answered r and is at row pos. *)
Session(r, pos) == [at |-> r.to, expect |-> r.seq + 1, pos |-> pos, open |-> TRUE]

Opened(r) ==
  {Outcome(Append(sessions, Session(r, p[1])), "ok", Len(sessions) + 1,
           Page(0, p[1]), p[2]) :
     p \in IF Len(sessions) < SessionBound THEN Pages(0) ELSE {}}

Serves(r) ==
  /\ r.id \in DOMAIN sessions
  /\ sessions[r.id].open /\ sessions[r.id].at = r.to

Paged(r) ==
  LET pos == sessions[r.id].pos IN
  {Outcome([sessions EXCEPT ![r.id] = Session(r, pos + p[1])], "ok", NoID,
           Page(pos, p[1]), p[2]) : p \in Pages(pos)}

Ended(r) ==
  {Outcome([sessions EXCEPT ![r.id].open = FALSE], "ok", NoID, <<>>, FALSE)}

Outcomes(r) ==
  IF r.kind = "close" THEN IF Serves(r) THEN Ended(r) ELSE Refusals
  ELSE Refusals \cup
       IF r.kind = "open" THEN Opened(r)
       ELSE IF Serves(r) /\ sessions[r.id].expect = r.seq THEN Paged(r)
       ELSE {}

-------------------------------------------------------------------------------
(* KVScanner *)

(* Once started, a call names the session, even if it has none. *)
NextRequest ==
  [kind |-> IF started THEN "page" ELSE "open", to |-> leader, id |-> scannerID,
   seq |-> callSeqID]

CloseRequest ==
  [kind |-> "close", to |-> leader, id |-> scannerID, seq |-> 0]

(* Faulty variant: empty pages are not counted. *)
ScanRowsPatiently(error, page, more) ==
  /\ failing' = error
  /\ phase' = IF ~failing' /\ more THEN "scan" ELSE "close"
  /\ UNCHANGED <<direct, emptyPages>>

(* What ScanRows does with what Next returned: go on, or have Close run    *)
(* and return.                                                             *)
ScanRows(error, page, more) ==
  /\ emptyPages' = IF error THEN emptyPages
                   ELSE IF page # <<>> THEN 0
                   ELSE IF more THEN emptyPages + 1 ELSE emptyPages
  /\ failing' = (error \/ emptyPages' >= 2)
  /\ phase' = IF ~failing' /\ more THEN "scan" ELSE "close"
  /\ UNCHANGED direct

(* Faulty variant: ScanRows goes on after an error. *)
NextReturnsLeniently(error, page, more) ==
  /\ rows' = rows \o page
  /\ erred' = (erred \/ error) /\ retried' = (retried \/ (direct /\ erred))
  /\ IF direct \/ error THEN UNCHANGED scanVars ELSE ScanRows(error, page, more)

NextReturns(error, page, more) ==
  /\ rows' = rows \o page
  /\ erred' = (erred \/ error) /\ retried' = (retried \/ erred)
  /\ IF direct THEN UNCHANGED scanVars ELSE ScanRows(error, page, more)

(* Faulty variant: the scanner is not marked as started. *)
CountUnstarted(o) ==
  /\ started' = started /\ callSeqID' = callSeqID + 1
  /\ scannerID' = IF o.id # NoID THEN o.id ELSE scannerID

(* An answer counts, whatever its code. *)
Count(o) ==
  /\ started' = TRUE /\ callSeqID' = callSeqID + 1
  /\ scannerID' = IF o.id # NoID THEN o.id ELSE scannerID

(* The records of the page may not decode; only ScanRows decodes them. *)
NextAnswered ==
  /\ phase = "scan" /\ callSeqID < CallBound
  /\ \E o \in Outcomes(NextRequest) :
       /\ sessions' = o.sessions
       /\ IF o.code = "error" THEN UNCHANGED scannerVars
          ELSE Count(o)
       /\ \/ NextReturns(o.code # "ok", o.page, o.more)
          \/ ~direct /\ o.page # <<>> /\ NextReturns(TRUE, o.page, o.more)
  /\ UNCHANGED <<orphaned, leader, moved, late>>

(* No TableInfo, no route, or a request that is not answered: it was lost, *)
(* or is under way, or was served and its answer lost.                     *)
GivenUp(r) ==
  /\ \/ UNCHANGED <<sessions, late>>
     \/ Cardinality(late) < LateBound /\ late' = late \cup {r} /\ UNCHANGED sessions
     \/ UNCHANGED late /\ \E o \in Outcomes(r) : sessions' = o.sessions
  /\ UNCHANGED <<leader, moved>>

NextFails ==
  /\ phase = "scan" /\ callSeqID < CallBound
  /\ GivenUp(NextRequest)
  /\ NextReturns(TRUE, <<>>, FALSE)
  /\ orphaned' = (orphaned \/ (~started /\ <<sessions, late>>' # <<sessions, late>>))
  /\ UNCHANGED scannerVars

Closing == phase = "close" \/ direct

CloseReturns ==
  /\ phase' = IF direct THEN phase ELSE "done"
  /\ UNCHANGED <<direct, failing, emptyPages, scannerVars, rows, retried, erred>>

(* Faulty variant: a scan that failed is not closed. *)
NoSessionUnlessFailing == scannerID = NoID \/ failing

(* There is nothing to close. *)
NoSession == scannerID = NoID

CloseUnneeded ==
  /\ Closing /\ NoSession
  /\ CloseReturns
  /\ UNCHANGED <<clusterVars, orphaned>>

(* Close looks at no code in the answer. *)
CloseAnswered ==
  /\ Closing /\ ~NoSession
  /\ \E o \in Outcomes(CloseRequest) : sessions' = o.sessions
  /\ CloseReturns
  /\ UNCHANGED <<orphaned, leader, moved, late>>

CloseFails ==
  /\ Closing /\ ~NoSession
  /\ GivenUp(CloseRequest)
  /\ orphaned' = TRUE
  /\ CloseReturns

-------------------------------------------------------------------------------
(* The cluster *)

(* A request that was given up arrives, or is lost for good. *)
Arrives(r) ==
  /\ r \in late
  /\ late' = late \ {r}
  /\ \/ UNCHANGED sessions
     \/ \E o \in Outcomes(r) : sessions' = o.sessions
  /\ UNCHANGED <<scannerVars, scanVars, historyVars, leader, moved>>

(* A server drops a session that has been idle. *)
Expires(i) ==
  /\ sessions[i].open
  /\ sessions' = [sessions EXCEPT ![i].open = FALSE]
  /\ UNCHANGED <<scannerVars, scanVars, historyVars, leader, moved, late>>

(* The bucket has another leader, and the metadata says so. *)
LeaderMoves ==
  /\ leader' \in Servers \ {leader}
  /\ moved' = TRUE
  /\ UNCHANGED <<scannerVars, scanVars, historyVars, sessions, late>>

Next == NextAnswered \/ NextFails

Close == CloseUnneeded \/ CloseAnswered \/ CloseFails

Cluster ==
  \/ \E r \in late : Arrives(r)
  \/ \E i \in DOMAIN sessions : Expires(i)
  \/ LeaderMoves

Step == Next \/ Close \/ Cluster

Spec == Init /\ [][Step]_vars

(* ScanRows goes on while it can.  Servers need not answer. *)
FairSpec == Spec /\ WF_vars(~direct /\ (Next \/ Close))

-------------------------------------------------------------------------------
(* Safety *)

(* Next returns no row twice, and leaves none out unless it is called      *)
(* again after an error.  (It then may: an answer that was lost has moved  *)
(* the session on, the call that repeats it is refused and counted, and    *)
(* the one after that is the call the server expects.)                     *)
RowsInOrder ==
  /\ \A i, j \in DOMAIN rows : i < j => rows[i] < rows[j]
  /\ ~retried => rows = Page(0, Len(rows))

(* ScanRows returns all the rows or an error, also if answers are lost or  *)
(* late, sessions expire and the bucket moves under way.                   *)
ScanComplete ==
  ~direct /\ phase # "scan" /\ ~failing => rows = Page(0, RowCount)

(* ScanRows leaves no session behind on the server, however it ends: only  *)
(* the answer to the call that opens it, or its Close, lost on the way, or *)
(* another leader keep it there till it expires.                           *)
NoSessionLeft ==
  ~direct /\ phase = "done" /\ ~orphaned /\ ~moved
    => \A i \in DOMAIN sessions : ~sessions[i].open

-------------------------------------------------------------------------------
(* Liveness *)

(* A server that keeps announcing rows and sends none does not keep        *)
(* ScanRows for ever.                                                      *)
ScanRowsReturns == <>(direct \/ phase = "done")
===============================================================================
