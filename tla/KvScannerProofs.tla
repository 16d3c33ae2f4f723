---------------------------- MODULE KvScannerProofs ----------------------------
(***************************************************************************)
(* Theorems about KvScanner, for any number of servers, of rows and of     *)
(* sessions, calls and late requests.                                      *)
(***************************************************************************)
EXTENDS KvScanner, SequenceTheorems, TLAPS

Sessions == [at : Servers, expect : 1 .. CallBound, pos : 0 .. RowCount, open : BOOLEAN]

(* What a server makes of a request is one of four. *)

RefusedAs(o) ==
  o.sessions = sessions /\ o.code # "ok" /\ o.id = NoID /\ o.page = <<>>

OpenedAs(r, o) ==
  /\ r.kind = "open" /\ Len(sessions) < SessionBound
  /\ \E n \in 0 .. RowCount :
       /\ o.sessions = Append(sessions, Session(r, n))
       /\ o.code = "ok" /\ o.id = Len(sessions) + 1 /\ o.page = Page(0, n)
       /\ o.more \/ n = RowCount

PagedAs(r, o) ==
  /\ r.kind = "page" /\ Serves(r) /\ sessions[r.id].expect = r.seq
  /\ \E n \in 0 .. RowCount - sessions[r.id].pos :
       /\ o.sessions = [sessions EXCEPT ![r.id] = Session(r, sessions[r.id].pos + n)]
       /\ o.code = "ok" /\ o.id = NoID /\ o.page = Page(sessions[r.id].pos, n)
       /\ o.more \/ sessions[r.id].pos + n = RowCount

EndedAs(r, o) ==
  /\ r.kind = "close" /\ Serves(r)
  /\ o.sessions = [sessions EXCEPT ![r.id].open = FALSE]

(* No session is taken back: it keeps its server, moves on, may end. *)
Grown(old, new) ==
  \A i \in DOMAIN old :
    /\ i \in DOMAIN new
    /\ new[i].at = old[i].at /\ new[i].pos >= old[i].pos
    /\ new[i].open => old[i].open

-------------------------------------------------------------------------------
(* The inductive invariant *)

(* Only an answer to the first call gives the scanner a session and rows. *)
Sessionless ==
  /\ ~started => scannerID = NoID
  /\ scannerID = NoID => rows = <<>>

(* The session is at the last row returned, or past it. *)
RowsBehind ==
  scannerID # NoID => \A i \in DOMAIN rows : rows[i] <= sessions[scannerID].pos

(* As long as no call has failed the session and the caller agree. *)
InStep ==
  ~erred => /\ ~retried
            /\ scannerID # NoID => sessions[scannerID].pos = Len(rows)
            /\ \A r \in late : r.kind = "close"

(* An error ends ScanRows, and so do two empty pages. *)
ErrorsEnd ==
  ~direct => /\ ~failing => ~erred
             /\ phase = "scan" => ~failing /\ emptyPages < 2

(* The server has no open session but the scanner's, and will have none. *)
OnlySession ==
  ~orphaned => /\ \A i \in DOMAIN sessions : i # scannerID => ~sessions[i].open
               /\ \A r \in late : r.kind # "open"

(* All that was sent went to the server that is still the leader. *)
AtLeader ==
  ~moved => /\ \A i \in DOMAIN sessions : sessions[i].at = leader
            /\ \A r \in late : r.to = leader

ScannerInv ==
  /\ TypeOK /\ ErrorsEnd
  /\ Sessionless /\ RowsBehind /\ InStep /\ RowsInOrder /\ ScanComplete
  /\ OnlySession /\ AtLeader /\ NoSessionLeft

-------------------------------------------------------------------------------
(* The server *)

LEMMA OutcomeKinds ==
  ASSUME NEW r \in Request, NEW o \in Outcomes(r)
  PROVE  RefusedAs(o) \/ OpenedAs(r, o) \/ PagedAs(r, o) \/ EndedAs(r, o)
<1>1. ASSUME o \in Refusals PROVE RefusedAs(o)
  BY <1>1 DEF Refusals, Outcome, RefusedAs
<1>2. ASSUME r.kind = "open", o \in Opened(r) PROVE OpenedAs(r, o)
  <2>1. Len(sessions) < SessionBound
    BY <1>2 DEF Opened
  <2>2. PICK p \in Pages(0) :
          o = Outcome(Append(sessions, Session(r, p[1])), "ok", Len(sessions) + 1,
                      Page(0, p[1]), p[2])
    BY <1>2, <2>1 DEF Opened
  <2>3. p[1] \in 0 .. RowCount /\ (p[2] \/ p[1] = RowCount)
    BY ScannerAssumption DEF Pages
  <2>4. QED
    BY <1>2, <2>1, <2>2, <2>3 DEF Outcome, OpenedAs
<1>3. ASSUME r.kind = "page", Serves(r), sessions[r.id].expect = r.seq, o \in Paged(r)
      PROVE  PagedAs(r, o)
  BY <1>3 DEF Paged, Outcome, PagedAs, Pages
<1>4. ASSUME r.kind = "close", Serves(r), o \in Ended(r) PROVE EndedAs(r, o)
  BY <1>4 DEF Ended, Outcome, EndedAs
<1>5. r.kind \in {"open", "page", "close"}
  BY DEF Request
<1>6. CASE r.kind = "open"
  BY <1>1, <1>2, <1>6 DEF Outcomes
<1>7. CASE r.kind = "page"
  BY <1>1, <1>3, <1>7 DEF Outcomes
<1>8. CASE r.kind = "close"
  BY <1>1, <1>4, <1>8 DEF Outcomes
<1>9. QED
  BY <1>5, <1>6, <1>7, <1>8

LEMMA PageType ==
  ASSUME NEW p \in Nat, NEW n \in Nat
  PROVE  /\ Page(p, n) \in Seq(Nat) /\ Len(Page(p, n)) = n
         /\ \A i \in 1 .. n : Page(p, n)[i] = p + i
         /\ p + n <= RowCount => Page(p, n) \in Seq(1 .. RowCount)
<1>1. Page(p, n) \in [1 .. n -> Nat]
  BY DEF Page
<1>2. ASSUME p + n <= RowCount PROVE Page(p, n) \in [1 .. n -> 1 .. RowCount]
  BY <1>2, ScannerAssumption DEF Page
<1>3. QED
  BY <1>1, <1>2 DEF Page

LEMMA SessionsType ==
  ASSUME TypeOK
  PROVE  /\ sessions \in Seq(Sessions) /\ Grown(sessions, sessions)
         /\ DOMAIN sessions = 1 .. Len(sessions) /\ Len(sessions) \in Nat
         /\ \A i \in DOMAIN sessions :
              sessions[i] \in Sessions /\ sessions[i].pos \in 0 .. RowCount
<1>1. sessions \in Seq(Sessions)
  BY DEF TypeOK, Sessions
<1>2. \A s \in Sessions : s.pos \in 0 .. RowCount
  BY DEF Sessions
<1>3. \A i \in DOMAIN sessions : sessions[i] \in Sessions
  BY <1>1
<1>4. Grown(sessions, sessions)
  BY <1>2, <1>3, ScannerAssumption DEF Grown
<1>5. QED
  BY <1>1, <1>2, <1>3, <1>4

LEMMA EndedSession ==
  ASSUME TypeOK, NEW i \in DOMAIN sessions
  PROVE  LET new == [sessions EXCEPT ![i].open = FALSE] IN
         /\ new \in Seq(Sessions) /\ Len(new) = Len(sessions)
         /\ Grown(sessions, new) /\ ~new[i].open
<1> DEFINE s == [sessions[i] EXCEPT !.open = FALSE]
<1>1. sessions[i] \in Sessions /\ i \in 1 .. Len(sessions)
  BY SessionsType
<1>2. s \in Sessions /\ s.at = sessions[i].at /\ ~s.open /\ s.pos = sessions[i].pos
  BY <1>1 DEF Sessions
<1>3. [sessions EXCEPT ![i].open = FALSE] = [sessions EXCEPT ![i] = s]
  OBVIOUS
<1> DEFINE new == [sessions EXCEPT ![i] = s]
<1> HIDE DEF s
<1>4. /\ new \in Seq(Sessions) /\ Len(new) = Len(sessions)
      /\ \A j \in 1 .. Len(sessions) : new[j] = IF j = i THEN s ELSE sessions[j]
  BY <1>1, <1>2, SessionsType, ExceptSeq
<1>5. DOMAIN new = DOMAIN sessions
  OBVIOUS
<1> HIDE DEF new
<1>6. Grown(sessions, new) /\ ~new[i].open
  BY <1>1, <1>2, <1>4, <1>5, SessionsType, ScannerAssumption DEF Grown
<1>7. QED
  BY <1>3, <1>4, <1>6 DEF new

(* The sessions keep their type and are not taken back, and a call that    *)
(* does not open a session leaves as many as there were.                   *)
LEMMA OutcomeSessions ==
  ASSUME TypeOK, NEW r \in Request, NEW o \in Outcomes(r)
  PROVE  /\ o.sessions \in Seq(Sessions)
         /\ Len(o.sessions) <= SessionBound
         /\ Grown(sessions, o.sessions)
         /\ Len(o.sessions) = IF OpenedAs(r, o) THEN Len(sessions) + 1 ELSE Len(sessions)
<1>0. sessions \in Seq(Sessions) /\ Grown(sessions, sessions)
  BY SessionsType
<1>1. ASSUME RefusedAs(o) PROVE o.sessions = sessions
  BY <1>1 DEF RefusedAs
<1>2. ASSUME OpenedAs(r, o)
      PROVE  /\ o.sessions \in Seq(Sessions) /\ Len(o.sessions) = Len(sessions) + 1
             /\ Grown(sessions, o.sessions)
  <2>1. PICK n \in 0 .. RowCount : o.sessions = Append(sessions, Session(r, n))
    BY <1>2 DEF OpenedAs
  <2>2. Session(r, n) \in Sessions
    BY ScannerAssumption DEF Session, Sessions, Request
  <2>3. /\ o.sessions \in Seq(Sessions) /\ Len(o.sessions) = Len(sessions) + 1
        /\ \A i \in 1 .. Len(sessions) : o.sessions[i] = sessions[i]
    BY <1>0, <2>1, <2>2, AppendProperties
  <2>4. DOMAIN sessions \subseteq DOMAIN o.sessions
    BY <1>0, <2>3
  <2>5. QED
    BY <2>3, <2>4, SessionsType DEF Grown
<1>3. ASSUME PagedAs(r, o)
      PROVE  /\ o.sessions \in Seq(Sessions) /\ Len(o.sessions) = Len(sessions)
             /\ Grown(sessions, o.sessions)
  <2>1. PICK n \in 0 .. RowCount - sessions[r.id].pos :
          o.sessions = [sessions EXCEPT ![r.id] = Session(r, sessions[r.id].pos + n)]
    BY <1>3 DEF PagedAs
  <2>2. /\ r.id \in 1 .. Len(sessions) /\ sessions[r.id].pos \in 0 .. RowCount
        /\ sessions[r.id].at = r.to /\ sessions[r.id].open
    BY <1>3, SessionsType DEF PagedAs, Serves
  <2> DEFINE s == Session(r, sessions[r.id].pos + n)
  <2>3. s.at = r.to /\ s.pos = sessions[r.id].pos + n
    BY DEF Session
  <2>4. s \in Sessions /\ s.pos >= sessions[r.id].pos
    BY <2>2, ScannerAssumption DEF Session, Sessions, Request
  <2> HIDE DEF s
  <2>5. QED
    BY <1>0, <2>1, <2>2, <2>3, <2>4, SessionsType, ExceptSeq DEF Grown, s
<1>4. ASSUME EndedAs(r, o)
      PROVE  /\ o.sessions \in Seq(Sessions) /\ Len(o.sessions) = Len(sessions)
             /\ Grown(sessions, o.sessions)
  <2>1. r.id \in DOMAIN sessions
    BY <1>4 DEF EndedAs, Serves
  <2>2. QED
    BY <1>4, <2>1, EndedSession DEF EndedAs
<1>5. QED
  <2>1. /\ Len(sessions) <= SessionBound /\ Len(sessions) \in Nat
        /\ SessionBound \in Nat
    BY <1>0, ScannerAssumption DEF TypeOK
  <2>2. CASE OpenedAs(r, o)
    BY <1>2, <2>1, <2>2 DEF OpenedAs
  <2>3. CASE ~OpenedAs(r, o)
    BY <1>0, <1>1, <1>3, <1>4, <2>1, <2>3, OutcomeKinds
  <2>4. QED
    BY <2>2, <2>3

(* What Next gets: rows of the bucket, and a session that is there. *)
LEMMA OutcomePage ==
  ASSUME TypeOK, NEW r \in Request, r.kind # "close", NEW o \in Outcomes(r)
  PROVE  o.page \in Seq(1 .. RowCount) /\ o.id \in 0 .. Len(o.sessions)
<1>1. Len(sessions) \in Nat /\ Len(o.sessions) \in Nat
  BY SessionsType, OutcomeSessions
<1>2. CASE RefusedAs(o)
  BY <1>1, <1>2 DEF RefusedAs, NoID
<1>3. CASE OpenedAs(r, o)
  <2>1. PICK n \in 0 .. RowCount : o.id = Len(sessions) + 1 /\ o.page = Page(0, n)
    BY <1>3 DEF OpenedAs
  <2>2. n \in Nat /\ 0 \in Nat /\ 0 + n <= RowCount
    BY ScannerAssumption
  <2>3. Page(0, n) \in Seq(1 .. RowCount)
    BY <2>2, PageType
  <2>4. Len(o.sessions) = Len(sessions) + 1
    BY <1>3, OutcomeSessions
  <2>5. QED
    BY <1>1, <2>1, <2>3, <2>4
<1>4. CASE PagedAs(r, o)
  <2>1. sessions[r.id].pos \in 0 .. RowCount
    BY <1>4, SessionsType DEF PagedAs, Serves
  <2>2. PICK n \in 0 .. RowCount - sessions[r.id].pos :
          o.id = NoID /\ o.page = Page(sessions[r.id].pos, n)
    BY <1>4 DEF PagedAs
  <2>3. n \in Nat /\ sessions[r.id].pos + n <= RowCount
    BY <2>1, ScannerAssumption
  <2>4. Page(sessions[r.id].pos, n) \in Seq(1 .. RowCount)
    <3>1. sessions[r.id].pos \in Nat
      BY <2>1
    <3>2. QED
      BY <2>3, <3>1, PageType
  <2>5. QED
    BY <1>1, <2>2, <2>4 DEF NoID
<1>5. QED
  BY <1>2, <1>3, <1>4, OutcomeKinds DEF EndedAs

-------------------------------------------------------------------------------
(* The type invariant *)

ReturnTypes ==
  /\ direct \in BOOLEAN /\ failing \in BOOLEAN
  /\ phase \in {"scan", "close", "done"}
  /\ emptyPages \in 0 .. 2
  /\ rows \in Seq(1 .. RowCount)
  /\ retried \in BOOLEAN /\ erred \in BOOLEAN

SessionTypes ==
  /\ scannerID \in 0 .. Len(sessions)
  /\ callSeqID \in 0 .. CallBound
  /\ started \in BOOLEAN /\ (started <=> callSeqID > 0)
  /\ leader \in Servers /\ moved \in BOOLEAN /\ orphaned \in BOOLEAN
  /\ sessions \in Seq(Sessions)
  /\ Len(sessions) <= SessionBound
  /\ late \subseteq Request

LEMMA TypeParts ==
  /\ TypeOK <=> ReturnTypes /\ SessionTypes
  /\ TypeOK' <=> ReturnTypes' /\ SessionTypes'
BY DEF TypeOK, ReturnTypes, SessionTypes, Sessions

(* ScanRows goes on only after a call that succeeded. *)
LEMMA Returns ==
  ASSUME ReturnTypes, ErrorsEnd, phase = "scan", NEW error \in BOOLEAN,
         NEW page \in Seq(1 .. RowCount), NEW more, NextReturns(error, page, more)
  PROVE  ReturnTypes' /\ ErrorsEnd'
<1>1. rows' \in Seq(1 .. RowCount)
  BY ConcatProperties DEF ReturnTypes, NextReturns
<1>2. retried' \in BOOLEAN /\ erred' \in BOOLEAN
  BY DEF ReturnTypes, NextReturns
<1>3. CASE direct
  BY <1>1, <1>2, <1>3 DEF ReturnTypes, ErrorsEnd, NextReturns, scanVars
<1>4. CASE ~direct
  <2>1. ScanRows(error, page, more) /\ erred' = (erred \/ error) /\ ~erred
        /\ ~failing /\ emptyPages \in 0 .. 1
    BY <1>4 DEF NextReturns, ErrorsEnd, ReturnTypes
  <2>2. direct' = direct /\ emptyPages' \in 0 .. 2
    BY <2>1 DEF ScanRows
  <2>3. failing' = (error \/ emptyPages' >= 2)
    BY <2>1 DEF ScanRows
  <2>4. phase' = IF ~failing' /\ more THEN "scan" ELSE "close"
    BY <2>1 DEF ScanRows
  <2>5. failing' \in BOOLEAN /\ phase' \in {"scan", "close", "done"}
    BY <2>3, <2>4
  <2>6. ErrorsEnd'
    <3>1. ~failing' => ~error /\ ~(emptyPages' >= 2)
      BY <2>3
    <3>2. ~failing' => ~erred' /\ emptyPages' < 2
      BY <2>1, <2>2, <3>1
    <3>3. phase' = "scan" => ~failing'
      BY <2>4
    <3>4. QED
      BY <3>2, <3>3 DEF ErrorsEnd
  <2>7. QED
    BY <1>1, <1>2, <2>2, <2>5, <2>6 DEF ReturnTypes
<1>5. QED
  BY <1>3, <1>4 DEF ReturnTypes

LEMMA RequestTypes ==
  ASSUME TypeOK
  PROVE  /\ callSeqID < CallBound => NextRequest \in Request /\ NextRequest.kind # "close"
         /\ CloseRequest \in Request
<1>1. scannerID \in 0 .. SessionBound
  BY ScannerAssumption, SessionsType DEF TypeOK
<1>2. callSeqID < CallBound => callSeqID \in 0 .. CallBound - 1
  BY ScannerAssumption DEF TypeOK
<1>3. 0 \in 0 .. CallBound - 1
  BY ScannerAssumption
<1>4. QED
  BY <1>1, <1>2, <1>3 DEF NextRequest, CloseRequest, Request, TypeOK

(* The sessions after a step: as typed, and none taken back. *)
SessionsGrow ==
  /\ sessions' \in Seq(Sessions) /\ Len(sessions') <= SessionBound
  /\ Len(sessions') \in Nat /\ Len(sessions') >= Len(sessions)
  /\ Grown(sessions, sessions')

LEMMA OutcomeGrows ==
  ASSUME TypeOK, NEW r \in Request,
         sessions' = sessions \/ \E o \in Outcomes(r) : sessions' = o.sessions
  PROVE  SessionsGrow
<1>1. Len(sessions) \in Nat /\ Len(sessions) <= SessionBound
  BY SessionsType DEF TypeOK
<1>2. CASE sessions' = sessions
  BY <1>1, <1>2, SessionsType DEF SessionsGrow
<1>3. ASSUME NEW o \in Outcomes(r), sessions' = o.sessions PROVE SessionsGrow
  <2>1. /\ o.sessions \in Seq(Sessions) /\ Len(o.sessions) <= SessionBound
        /\ Grown(sessions, o.sessions)
        /\ Len(o.sessions) = IF OpenedAs(r, o) THEN Len(sessions) + 1 ELSE Len(sessions)
    BY OutcomeSessions
  <2>2. QED
    BY <1>1, <1>3, <2>1 DEF SessionsGrow
<1>4. QED
  BY <1>2, <1>3

LEMMA NextType ==
  TypeOK /\ ErrorsEnd /\ [Step]_vars => TypeOK' /\ ErrorsEnd' /\ SessionsGrow
<1> SUFFICES ASSUME TypeOK, ErrorsEnd, [Step]_vars
             PROVE  TypeOK' /\ ErrorsEnd' /\ SessionsGrow
  OBVIOUS
<1>0. ReturnTypes /\ SessionTypes /\ Len(sessions) \in Nat
  BY TypeParts, SessionsType
<1>a. ASSUME UNCHANGED scanVars, UNCHANGED <<rows, retried, erred>>
      PROVE  ReturnTypes' /\ ErrorsEnd'
  BY <1>0, <1>a DEF ReturnTypes, ErrorsEnd, scanVars
<1>b. ASSUME UNCHANGED scannerVars, SessionsGrow, leader' \in Servers,
             moved' \in BOOLEAN, orphaned' \in BOOLEAN, late' \subseteq Request
      PROVE  SessionTypes'
  BY <1>0, <1>b DEF SessionTypes, SessionsGrow, scannerVars
<1>c. leader \in Servers /\ moved \in BOOLEAN /\ orphaned \in BOOLEAN
      /\ late \subseteq Request
  BY <1>0 DEF SessionTypes
<1>d. ASSUME CloseReturns PROVE ReturnTypes' /\ ErrorsEnd' /\ UNCHANGED scannerVars
  BY <1>0, <1>d DEF CloseReturns, ReturnTypes, ErrorsEnd, scannerVars
<1>1. CASE NextAnswered
  <2>1. PICK o \in Outcomes(NextRequest) :
          /\ sessions' = o.sessions
          /\ IF o.code = "error" THEN UNCHANGED scannerVars ELSE Count(o)
          /\ \/ NextReturns(o.code # "ok", o.page, o.more)
             \/ NextReturns(TRUE, o.page, o.more)
    BY <1>1 DEF NextAnswered
  <2>2. phase = "scan" /\ callSeqID < CallBound /\ NextRequest \in Request
        /\ NextRequest.kind # "close"
        /\ UNCHANGED <<orphaned, leader, moved, late>>
    BY <1>1, RequestTypes DEF NextAnswered
  <2>3. o.page \in Seq(1 .. RowCount) /\ o.id \in 0 .. Len(o.sessions)
    BY <2>2, OutcomePage
  <2>4. SessionsGrow
    BY <2>1, <2>2, OutcomeGrows
  <2>5. ReturnTypes' /\ ErrorsEnd'
    <3>1. (o.code # "ok") \in BOOLEAN
      OBVIOUS
    <3>2. QED
      BY <1>0, <2>1, <2>2, <2>3, <3>1, Returns
  <2>6. SessionTypes'
    <3>1. CASE o.code = "error"
      BY <1>b, <1>c, <2>1, <2>2, <2>4, <3>1
    <3>2. CASE o.code # "error"
      <4>1. /\ started' = TRUE /\ callSeqID' = callSeqID + 1
            /\ scannerID' = IF o.id # NoID THEN o.id ELSE scannerID
        BY <2>1, <3>2 DEF Count
      <4>2. callSeqID' \in 0 .. CallBound /\ callSeqID' > 0
        BY <1>0, <2>2, <4>1, ScannerAssumption DEF SessionTypes
      <4>3. scannerID' \in 0 .. Len(sessions')
        BY <1>0, <2>1, <2>3, <2>4, <4>1 DEF SessionTypes, SessionsGrow
      <4>4. QED
        BY <1>c, <2>2, <2>4, <4>1, <4>2, <4>3 DEF SessionTypes, SessionsGrow
    <3>3. QED
      BY <3>1, <3>2
  <2>7. QED
    BY <2>4, <2>5, <2>6, TypeParts
<1>2. CASE NextFails
  <2>1. phase = "scan" /\ NextRequest \in Request /\ GivenUp(NextRequest)
        /\ NextReturns(TRUE, <<>>, FALSE) /\ UNCHANGED scannerVars
        /\ orphaned' \in BOOLEAN
    BY <1>2, RequestTypes DEF NextFails
  <2>2. ReturnTypes' /\ ErrorsEnd'
    <3>1. <<>> \in Seq(1 .. RowCount) /\ TRUE \in BOOLEAN
      OBVIOUS
    <3>2. QED
      BY <1>0, <2>1, <3>1, Returns
  <2>3. SessionsGrow /\ late' \subseteq Request /\ UNCHANGED <<leader, moved>>
    BY <1>c, <2>1, OutcomeGrows DEF GivenUp
  <2>4. QED
    BY <1>b, <1>c, <2>1, <2>2, <2>3, TypeParts
<1>3. CASE CloseUnneeded
  <2>1. SessionsGrow
    BY <1>3, RequestTypes, OutcomeGrows
       DEF CloseUnneeded, clusterVars
  <2>2. QED
    BY <1>b, <1>c, <1>d, <1>3, <2>1, TypeParts DEF CloseUnneeded, clusterVars
<1>4. CASE CloseAnswered
  <2>1. SessionsGrow
    BY <1>4, RequestTypes, OutcomeGrows DEF CloseAnswered
  <2>2. QED
    BY <1>b, <1>c, <1>d, <1>4, <2>1, TypeParts DEF CloseAnswered
<1>5. CASE CloseFails
  <2>1. SessionsGrow /\ late' \subseteq Request /\ UNCHANGED <<leader, moved>>
    BY <1>c, <1>5, RequestTypes, OutcomeGrows DEF CloseFails, GivenUp
  <2>2. QED
    BY <1>b, <1>c, <1>d, <1>5, <2>1, TypeParts DEF CloseFails
<1>6. ASSUME NEW r \in late, Arrives(r) PROVE TypeOK' /\ ErrorsEnd' /\ SessionsGrow
  <2>1. r \in Request
    BY <1>c
  <2>2. SessionsGrow /\ late' \subseteq Request
    BY <1>c, <1>6, <2>1, OutcomeGrows DEF Arrives
  <2>3. QED
    BY <1>a, <1>b, <1>c, <1>6, <2>2, TypeParts DEF Arrives, historyVars
<1>7. ASSUME NEW i \in DOMAIN sessions, Expires(i)
      PROVE  TypeOK' /\ ErrorsEnd' /\ SessionsGrow
  <2>1. SessionsGrow
    <3>1. sessions' = [sessions EXCEPT ![i].open = FALSE]
      BY <1>7 DEF Expires
    <3>2. /\ sessions' \in Seq(Sessions) /\ Len(sessions') = Len(sessions)
          /\ Grown(sessions, sessions')
      BY <3>1, EndedSession
    <3>3. QED
      BY <1>0, <3>2 DEF SessionsGrow, SessionTypes
  <2>2. QED
    BY <1>a, <1>b, <1>c, <1>7, <2>1, TypeParts DEF Expires, historyVars
<1>8. CASE LeaderMoves \/ UNCHANGED vars
  <2>1. SessionsGrow
    BY <1>8, RequestTypes, OutcomeGrows DEF LeaderMoves, vars, clusterVars
  <2>2. QED
    BY <1>a, <1>b, <1>c, <1>8, <2>1, TypeParts
       DEF LeaderMoves, vars, historyVars, clusterVars
<1>9. QED
  BY <1>1, <1>2, <1>3, <1>4, <1>5, <1>6, <1>7, <1>8 DEF Step, Next, Close, Cluster

-------------------------------------------------------------------------------
(* The rows *)

Sorted(s) == \A i, j \in DOMAIN s : i < j => s[i] < s[j]

(* A page from where the session is goes after the rows there are. *)
LEMMA PageAppended ==
  ASSUME NEW s \in Seq(1 .. RowCount), NEW p \in Nat, NEW n \in Nat, p + n <= RowCount,
         Sorted(s), \A i \in DOMAIN s : s[i] <= p
  PROVE  /\ s \o Page(p, n) \in Seq(1 .. RowCount)
         /\ Len(s \o Page(p, n)) = Len(s) + n
         /\ Sorted(s \o Page(p, n))
         /\ \A i \in DOMAIN (s \o Page(p, n)) : (s \o Page(p, n))[i] <= p + n
         /\ s = Page(0, Len(s)) /\ p = Len(s)
              => s \o Page(p, n) = Page(0, Len(s \o Page(p, n)))
<1> DEFINE g == Page(p, n)
           t == s \o g
<1>1. /\ g \in Seq(1 .. RowCount) /\ Len(g) = n
      /\ \A i \in 1 .. n : g[i] = p + i
  BY PageType
<1> HIDE DEF g
<1>2. /\ t \in Seq(1 .. RowCount) /\ Len(t) = Len(s) + n
      /\ \A i \in 1 .. Len(s) + n : t[i] = IF i <= Len(s) THEN s[i] ELSE g[i - Len(s)]
  BY <1>1, ConcatProperties
<1>3. /\ DOMAIN s = 1 .. Len(s) /\ Len(s) \in Nat /\ DOMAIN t = 1 .. Len(s) + n
      /\ \A i \in 1 .. Len(s) : s[i] \in Nat
  BY <1>2, ScannerAssumption
<1> HIDE DEF t
<1>4. \A i \in 1 .. Len(s) + n : IF i <= Len(s) THEN t[i] = s[i] /\ t[i] <= p
                                ELSE t[i] = p + (i - Len(s))
  <2> SUFFICES ASSUME NEW i \in 1 .. Len(s) + n
               PROVE  IF i <= Len(s) THEN t[i] = s[i] /\ t[i] <= p
                      ELSE t[i] = p + (i - Len(s))
    OBVIOUS
  <2>1. CASE i <= Len(s)
    BY <1>2, <1>3, <2>1
  <2>2. CASE ~(i <= Len(s))
    <3>1. i - Len(s) \in 1 .. n
      BY <1>3, <2>2
    <3>2. QED
      BY <1>1, <1>2, <2>2, <3>1
  <2>3. QED
    BY <2>1, <2>2
<1>5. Sorted(t)
  BY <1>3, <1>4 DEF Sorted
<1>6. \A i \in DOMAIN t : t[i] <= p + n
  BY <1>3, <1>4
<1>7. ASSUME s = Page(0, Len(s)), p = Len(s) PROVE t = Page(0, Len(t))
  <2>0. 0 \in Nat /\ Len(t) \in Nat
    BY <1>2, <1>3
  <2>1. \A i \in 1 .. Len(s) : s[i] = i
    <3>1. \A i \in 1 .. Len(s) : Page(0, Len(s))[i] = 0 + i
      BY <1>3, <2>0, PageType
    <3>2. QED
      BY <1>3, <1>7, <3>1
  <2>2. /\ Page(0, Len(t)) \in Seq(Nat) /\ Len(Page(0, Len(t))) = Len(t)
        /\ \A i \in 1 .. Len(t) : Page(0, Len(t))[i] = 0 + i
    BY <2>0, PageType
  <2>3. \A i \in 1 .. Len(t) : t[i] = i
    BY <1>2, <1>3, <1>4, <1>7, <2>1
  <2>4. t \in Seq(Nat)
    BY <1>2, ScannerAssumption
  <2>5. QED
    <3>1. \A i \in 1 .. Len(t) : t[i] = Page(0, Len(t))[i]
      BY <2>0, <2>2, <2>3
    <3>2. QED
      BY <2>2, <2>4, <3>1, SeqEqual
<1>8. QED
  BY <1>2, <1>5, <1>6, <1>7 DEF g, t

RowsInv == Sessionless /\ RowsBehind /\ RowsInOrder /\ InStep /\ ScanComplete

(* A step that returns no row. *)
LEMMA NoRows ==
  ASSUME TypeOK, RowsInv, SessionsGrow, rows' = rows, scannerID' = scannerID,
         ~started' => ~started, ~retried' => ~retried
  PROVE  Sessionless' /\ RowsBehind' /\ RowsInOrder'
<1>1. Sessionless'
  BY DEF RowsInv, Sessionless
<1>2. RowsInOrder'
  BY DEF RowsInv, RowsInOrder
<1>3. ASSUME scannerID # NoID, NEW i \in DOMAIN rows
      PROVE  rows[i] <= sessions'[scannerID].pos
  <2>1. scannerID \in DOMAIN sessions
    BY <1>3, SessionsType DEF TypeOK, NoID
  <2>2. /\ sessions[scannerID].pos \in Nat /\ rows[i] \in Nat
        /\ rows[i] <= sessions[scannerID].pos
    BY <1>3, <2>1, SessionsType, ScannerAssumption DEF TypeOK, RowsInv, RowsBehind
  <2>3. sessions'[scannerID] \in Sessions /\ sessions'[scannerID].pos >= sessions[scannerID].pos
    BY <2>1 DEF SessionsGrow, Grown
  <2>4. \A s \in Sessions : s.pos \in 0 .. RowCount
    BY DEF Sessions
  <2>5. sessions'[scannerID].pos \in Nat
    BY <2>3, <2>4, ScannerAssumption
  <2>6. QED
    BY <2>2, <2>3, <2>5
<1>4. QED
  BY <1>1, <1>2, <1>3 DEF RowsBehind

(* A call of Next that succeeds has the rows that follow. *)
LEMMA RowsFetched ==
  ASSUME RowsInv, ErrorsEnd, TypeOK, phase = "scan",
         NEW p \in Nat, NEW n \in Nat, p + n <= RowCount,
         \A i \in DOMAIN rows : rows[i] <= p,
         ~erred => p = Len(rows),
         NEW error \in BOOLEAN, NEW more, more \/ p + n = RowCount,
         NextReturns(error, Page(p, n), more),
         started', scannerID' # NoID, sessions'[scannerID'].pos = p + n, late' = late
  PROVE  RowsInv'
<1>1. rows \in Seq(1 .. RowCount) /\ Sorted(rows) /\ Len(rows) \in Nat
  BY DEF TypeOK, RowsInv, RowsInOrder, Sorted
<1>2. /\ rows' = rows \o Page(p, n)
      /\ erred' = (erred \/ error) /\ retried' = (retried \/ erred)
  BY DEF NextReturns
<1>3. ~erred => rows = Page(0, Len(rows)) /\ p = Len(rows) /\ ~retried
  BY DEF RowsInv, InStep, RowsInOrder
<1>4. /\ Len(rows') = Len(rows) + n /\ Sorted(rows')
      /\ \A i \in DOMAIN rows' : rows'[i] <= p + n
      /\ rows = Page(0, Len(rows)) /\ p = Len(rows) => rows' = Page(0, Len(rows'))
  BY <1>1, <1>2, PageAppended
<1>5. Sessionless' /\ RowsBehind'
  BY <1>4 DEF Sessionless, RowsBehind
<1>6. ~retried' => rows' = Page(0, Len(rows'))
  BY <1>2, <1>3, <1>4
<1>7. RowsInOrder'
  BY <1>4, <1>6 DEF RowsInOrder, Sorted
<1>8. InStep'
  BY <1>1, <1>2, <1>3, <1>4 DEF RowsInv, InStep
<1>9. ScanComplete'
  <2>1. SUFFICES ASSUME ~direct', phase' # "scan", ~failing'
                 PROVE  rows' = Page(0, RowCount)
    BY DEF ScanComplete
  <2>2. ~direct /\ ScanRows(error, Page(p, n), more)
    BY <2>1 DEF NextReturns, ScanRows, scanVars
  <2>3. ~failing /\ ~erred
    BY <2>2 DEF ErrorsEnd
  <2>4. ~more
    BY <2>1, <2>2 DEF ScanRows
  <2>5. rows' = Page(0, Len(rows')) /\ Len(rows') = RowCount
    BY <1>1, <1>3, <1>4, <2>3, <2>4
  <2>6. QED
    BY <2>5
<1>10. QED
  BY <1>5, <1>7, <1>8, <1>9 DEF RowsInv

(* Only a page moves a session on. *)
LEMMA CloseKeepsPlace ==
  ASSUME TypeOK, NEW r \in Request, r.kind = "close",
         sessions' = sessions \/ \E o \in Outcomes(r) : sessions' = o.sessions
  PROVE  \A i \in DOMAIN sessions : sessions'[i].pos = sessions[i].pos
<1>1. ASSUME NEW o \in Outcomes(r), sessions' = o.sessions
      PROVE  \A i \in DOMAIN sessions : sessions'[i].pos = sessions[i].pos
  <2>1. CASE RefusedAs(o)
    BY <1>1, <2>1 DEF RefusedAs
  <2>2. CASE EndedAs(r, o)
    <3>1. r.id \in DOMAIN sessions /\ sessions' = [sessions EXCEPT ![r.id].open = FALSE]
      BY <1>1, <2>2 DEF EndedAs, Serves
    <3>2. [sessions[r.id] EXCEPT !.open = FALSE].pos = sessions[r.id].pos
      BY <3>1, SessionsType DEF Sessions
    <3>3. QED
      BY <3>1, <3>2
  <2>3. QED
    BY <2>1, <2>2, OutcomeKinds DEF OpenedAs, PagedAs
<1>2. QED
  BY <1>1

LEMMA RowsKept ==
  TypeOK /\ ErrorsEnd /\ RowsInv /\ [Step]_vars => RowsInv'
<1> SUFFICES ASSUME TypeOK, ErrorsEnd, RowsInv, [Step]_vars PROVE RowsInv'
  OBVIOUS
<1>0. SessionsGrow /\ rows \in Seq(1 .. RowCount) /\ late \subseteq Request
  BY NextType DEF TypeOK
<1>a. rows \o <<>> = rows
  BY <1>0, ConcatEmptySeq
<1>b. ASSUME UNCHANGED scannerVars, UNCHANGED <<rows, retried, erred>>,
             \A r \in late' : r \in late \/ r.kind = "close",
             ~erred => \A i \in DOMAIN sessions : sessions'[i].pos = sessions[i].pos,
             UNCHANGED scanVars \/ (CloseReturns /\ Closing)
      PROVE  RowsInv'
  <2>1. Sessionless' /\ RowsBehind' /\ RowsInOrder'
    BY <1>0, <1>b, NoRows DEF scannerVars
  <2>2. scannerID # NoID => scannerID \in DOMAIN sessions
    BY SessionsType DEF TypeOK, NoID
  <2>3. InStep'
    BY <1>b, <2>2 DEF RowsInv, InStep, scannerVars
  <2>4. ScanComplete'
    BY <1>b DEF RowsInv, ScanComplete, scanVars, CloseReturns, Closing
  <2>5. QED
    BY <2>1, <2>3, <2>4 DEF RowsInv
<1>c. ASSUME UNCHANGED scannerVars, UNCHANGED scanVars, UNCHANGED historyVars,
             late' \subseteq late,
             ~erred => \A i \in DOMAIN sessions : sessions'[i].pos = sessions[i].pos
      PROVE  RowsInv'
  <2>1. UNCHANGED <<rows, retried, erred>>
    BY <1>c DEF historyVars
  <2>2. \A r \in late' : r \in late \/ r.kind = "close"
    BY <1>c
  <2>3. QED
    BY <1>b, <1>c, <2>1, <2>2
<1>1. CASE NextAnswered
  <2>1. PICK o \in Outcomes(NextRequest), error \in BOOLEAN :
          /\ sessions' = o.sessions
          /\ IF o.code = "error" THEN UNCHANGED scannerVars ELSE Count(o)
          /\ o.code # "ok" => error
          /\ NextReturns(error, o.page, o.more)
    <3>1. PICK o \in Outcomes(NextRequest) :
            /\ sessions' = o.sessions
            /\ IF o.code = "error" THEN UNCHANGED scannerVars ELSE Count(o)
            /\ \/ NextReturns(o.code # "ok", o.page, o.more)
               \/ NextReturns(TRUE, o.page, o.more)
      BY <1>1 DEF NextAnswered
    <3>2. (o.code # "ok") \in BOOLEAN /\ TRUE \in BOOLEAN
      OBVIOUS
    <3>3. QED
      BY <3>1, <3>2
  <2>2. phase = "scan" /\ NextRequest \in Request /\ NextRequest.kind # "close"
        /\ late' = late
    BY <1>1, RequestTypes DEF NextAnswered
  <2>3. CASE RefusedAs(o)
    <3>1. /\ rows' = rows /\ erred' /\ retried' = (retried \/ erred)
          /\ scannerID' = scannerID /\ (~started' => ~started)
      BY <1>a, <2>1, <2>3 DEF NextReturns, RefusedAs, Count, scannerVars
    <3>2. Sessionless' /\ RowsBehind' /\ RowsInOrder'
      BY <1>0, <3>1, NoRows
    <3>3. ScanComplete'
      BY <2>1, <2>2, <2>3 DEF RefusedAs, NextReturns, ScanRows, ScanComplete, scanVars
    <3>4. QED
      BY <3>1, <3>2, <3>3 DEF RowsInv, InStep
  <2>4. CASE OpenedAs(NextRequest, o)
    <3>1. PICK n \in 0 .. RowCount :
            /\ o.sessions = Append(sessions, Session(NextRequest, n))
            /\ o.code = "ok" /\ o.id = Len(sessions) + 1 /\ o.page = Page(0, n)
            /\ o.more \/ n = RowCount
      BY <2>4 DEF OpenedAs
    <3>2. started' /\ scannerID' = Len(sessions) + 1
      BY <2>1, <3>1, SessionsType DEF Count, NoID
    <3>3. sessions'[Len(sessions) + 1].pos = n
      <4>1. sessions \in Seq(Sessions \cup {Session(NextRequest, n)})
        BY SessionsType
      <4>2. sessions'[Len(sessions) + 1] = Session(NextRequest, n)
        BY <2>1, <3>1, <4>1, AppendProperties
      <4>3. QED
        BY <4>2 DEF Session
    <3>4. rows = <<>>
      BY <2>4 DEF OpenedAs, NextRequest, RowsInv, Sessionless
    <3>5. /\ 0 \in Nat /\ n \in Nat /\ 0 + n <= RowCount
          /\ o.more \/ 0 + n = RowCount
          /\ sessions'[scannerID'].pos = 0 + n
          /\ scannerID' # NoID
      BY <3>1, <3>2, <3>3, ScannerAssumption, SessionsType DEF NoID
    <3>6. Len(rows) = 0 /\ \A i \in DOMAIN rows : rows[i] <= 0
      BY <3>4
    <3>7. NextReturns(error, Page(0, n), o.more)
      BY <2>1, <3>1
    <3>8. QED
      BY <2>2, <3>2, <3>5, <3>6, <3>7, RowsFetched
  <2>5. CASE PagedAs(NextRequest, o)
    <3> DEFINE p == sessions[scannerID].pos
    <3>0. NextRequest.id = scannerID
      BY DEF NextRequest
    <3>1. PICK n \in 0 .. RowCount - p :
            /\ o.sessions = [sessions EXCEPT ![scannerID] = Session(NextRequest, p + n)]
            /\ o.code = "ok" /\ o.id = NoID /\ o.page = Page(p, n)
            /\ o.more \/ p + n = RowCount
      BY <2>5, <3>0 DEF PagedAs
    <3>2. scannerID \in DOMAIN sessions /\ scannerID # NoID
      BY <2>5, <3>0, SessionsType DEF PagedAs, Serves, NoID
    <3>3. started' /\ scannerID' = scannerID
      BY <2>1, <3>1 DEF Count
    <3>4. sessions'[scannerID'].pos = p + n
      BY <2>1, <3>1, <3>2, <3>3 DEF Session
    <3>5. p \in Nat /\ n \in Nat /\ p + n <= RowCount
      BY <3>2, SessionsType, ScannerAssumption
    <3>6. (\A i \in DOMAIN rows : rows[i] <= p) /\ (~erred => p = Len(rows))
      BY <3>2 DEF RowsInv, RowsBehind, InStep
    <3>7. NextReturns(error, Page(p, n), o.more) /\ scannerID' # NoID
      BY <2>1, <3>1, <3>2, <3>3
    <3> HIDE DEF p
    <3>8. QED
      BY <2>2, <3>1, <3>3, <3>4, <3>5, <3>6, <3>7, RowsFetched
  <2>6. QED
    BY <2>2, <2>3, <2>4, <2>5, OutcomeKinds DEF EndedAs
<1>2. CASE NextFails
  <2>1. /\ rows' = rows /\ erred' /\ retried' = (retried \/ erred)
        /\ UNCHANGED scannerVars /\ NextReturns(TRUE, <<>>, FALSE)
    BY <1>2, <1>a DEF NextFails, NextReturns
  <2>2. Sessionless' /\ RowsBehind' /\ RowsInOrder'
    BY <1>0, <2>1, NoRows DEF scannerVars
  <2>3. ScanComplete'
    BY <1>2 DEF NextFails, NextReturns, ScanRows, ScanComplete, scanVars
  <2>4. QED
    BY <2>1, <2>2, <2>3 DEF RowsInv, InStep
<1>3. CASE CloseUnneeded
  BY <1>b, <1>3 DEF CloseUnneeded, CloseReturns, clusterVars, scannerVars
<1>4. CASE CloseAnswered
  <2>1. \A i \in DOMAIN sessions : sessions'[i].pos = sessions[i].pos
    BY <1>4, RequestTypes, CloseKeepsPlace DEF CloseAnswered, CloseRequest
  <2>2. QED
    BY <1>b, <1>4, <2>1 DEF CloseAnswered, CloseReturns, scannerVars
<1>5. CASE CloseFails
  <2>1. /\ sessions' = sessions \/ \E o \in Outcomes(CloseRequest) : sessions' = o.sessions
        /\ late' \subseteq late \cup {CloseRequest}
    BY <1>5 DEF CloseFails, GivenUp
  <2>2. CloseRequest.kind = "close"
    BY DEF CloseRequest
  <2>3. \A i \in DOMAIN sessions : sessions'[i].pos = sessions[i].pos
    BY <2>1, <2>2, RequestTypes, CloseKeepsPlace
  <2>4. QED
    BY <1>b, <1>5, <2>1, <2>2, <2>3 DEF CloseFails, CloseReturns, scannerVars
<1>6. ASSUME NEW r \in late, Arrives(r) PROVE RowsInv'
  <2>1. ASSUME ~erred PROVE \A i \in DOMAIN sessions : sessions'[i].pos = sessions[i].pos
    <3>1. r.kind = "close"
      BY <2>1 DEF RowsInv, InStep
    <3>2. QED
      BY <1>0, <1>6, <3>1, CloseKeepsPlace DEF Arrives
  <2>2. QED
    BY <1>c, <1>6, <2>1 DEF Arrives
<1>7. ASSUME NEW i \in DOMAIN sessions, Expires(i) PROVE RowsInv'
  <2>1. sessions' = [sessions EXCEPT ![i].open = FALSE]
    BY <1>7 DEF Expires
  <2>2. [sessions[i] EXCEPT !.open = FALSE].pos = sessions[i].pos
    BY SessionsType DEF Sessions
  <2>3. \A j \in DOMAIN sessions : sessions'[j].pos = sessions[j].pos
    BY <2>1, <2>2
  <2>4. QED
    BY <1>c, <1>7, <2>3 DEF Expires
<1>8. CASE LeaderMoves \/ UNCHANGED vars
  BY <1>c, <1>8 DEF LeaderMoves, vars, clusterVars
<1>9. QED
  BY <1>1, <1>2, <1>3, <1>4, <1>5, <1>6, <1>7, <1>8 DEF Step, Next, Close, Cluster

-------------------------------------------------------------------------------
(* The session *)

EndInv == OnlySession /\ AtLeader /\ NoSessionLeft

(* Only the call that opens a session adds one, at the server it went to. *)
LEMMA OutcomeAdds ==
  ASSUME TypeOK, NEW r \in Request,
         sessions' = sessions \/ \E o \in Outcomes(r) : sessions' = o.sessions
  PROVE  /\ r.kind # "open" => DOMAIN sessions' = DOMAIN sessions
         /\ \A i \in DOMAIN sessions' \ DOMAIN sessions : sessions'[i].at = r.to
<1>1. SessionsGrow /\ DOMAIN sessions = 1 .. Len(sessions) /\ Len(sessions) \in Nat
  BY OutcomeGrows, SessionsType
<1>2. ASSUME NEW o \in Outcomes(r), sessions' = o.sessions
      PROVE  /\ r.kind # "open" => DOMAIN sessions' = DOMAIN sessions
             /\ \A i \in DOMAIN sessions' \ DOMAIN sessions : sessions'[i].at = r.to
  <2>1. /\ Len(sessions') = IF OpenedAs(r, o) THEN Len(sessions) + 1 ELSE Len(sessions)
        /\ DOMAIN sessions' = 1 .. Len(sessions')
    BY <1>1, <1>2, OutcomeSessions DEF SessionsGrow
  <2>2. CASE ~OpenedAs(r, o)
    BY <1>1, <2>1, <2>2
  <2>3. CASE OpenedAs(r, o)
    <3>1. PICK n \in 0 .. RowCount : sessions' = Append(sessions, Session(r, n))
      BY <1>2, <2>3 DEF OpenedAs
    <3>2. sessions \in Seq(Sessions \cup {Session(r, n)})
      BY SessionsType
    <3>3. sessions'[Len(sessions) + 1] = Session(r, n)
      BY <3>1, <3>2, AppendProperties
    <3>4. \A i \in DOMAIN sessions' \ DOMAIN sessions : i = Len(sessions) + 1
      BY <1>1, <2>1, <2>3
    <3>5. QED
      BY <2>3, <3>3, <3>4 DEF OpenedAs, Session
  <2>4. QED
    BY <2>2, <2>3
<1>3. QED
  BY <1>2

LEMMA AtLeaderKept ==
  ASSUME TypeOK, AtLeader, NEW r \in Request, ~moved => r.to = leader,
         sessions' = sessions \/ \E o \in Outcomes(r) : sessions' = o.sessions,
         late' \subseteq late \cup {r}, UNCHANGED <<leader, moved>>
  PROVE  AtLeader'
<1>1. \A i \in DOMAIN sessions : i \in DOMAIN sessions' /\ sessions'[i].at = sessions[i].at
  BY OutcomeGrows DEF SessionsGrow, Grown
<1>2. \A i \in DOMAIN sessions' \ DOMAIN sessions : sessions'[i].at = r.to
  BY OutcomeAdds
<1>3. QED
  BY <1>1, <1>2 DEF AtLeader

(* No session is added, and the scanner keeps the one it has. *)
LEMMA OnlySessionKept ==
  ASSUME TypeOK, OnlySession, SessionsGrow, DOMAIN sessions' = DOMAIN sessions,
         scannerID' = scannerID, ~orphaned' => ~orphaned,
         \A r \in late' : r \in late \/ r.kind # "open"
  PROVE  OnlySession'
<1>1. \A i \in DOMAIN sessions : sessions'[i].open => sessions[i].open
  BY DEF SessionsGrow, Grown
<1>2. QED
  BY <1>1 DEF OnlySession

(* After ScanRows has returned no session is opened. *)
LEMMA NoneReopened ==
  ASSUME TypeOK, NoSessionLeft, SessionsGrow, UNCHANGED <<direct, phase>>,
         ~orphaned' => ~orphaned, ~moved' => ~moved,
         ~orphaned => DOMAIN sessions' = DOMAIN sessions
  PROVE  NoSessionLeft'
<1>1. \A i \in DOMAIN sessions : sessions'[i].open => sessions[i].open
  BY DEF SessionsGrow, Grown
<1>2. QED
  BY <1>1 DEF NoSessionLeft

LEMMA EndKept ==
  TypeOK /\ ErrorsEnd /\ Sessionless /\ EndInv /\ [Step]_vars => EndInv'
<1> SUFFICES ASSUME TypeOK, ErrorsEnd, Sessionless, EndInv, [Step]_vars PROVE EndInv'
  OBVIOUS
<1>0. /\ SessionsGrow /\ late \subseteq Request /\ OnlySession /\ AtLeader
      /\ NoSessionLeft /\ DOMAIN sessions = 1 .. Len(sessions) /\ Len(sessions) \in Nat
  BY NextType, SessionsType DEF TypeOK, EndInv
<1>a. NextRequest.to = leader /\ CloseRequest.to = leader /\ CloseRequest.kind = "close"
      /\ CloseRequest.id = scannerID
  BY DEF NextRequest, CloseRequest
<1>b. ASSUME phase = "scan", NEW error, NEW page, NEW more, NextReturns(error, page, more)
      PROVE  NoSessionLeft'
  BY <1>b DEF NextReturns, ScanRows, NoSessionLeft, scanVars
<1>1. CASE NextAnswered
  <2>1. PICK o \in Outcomes(NextRequest) :
          /\ sessions' = o.sessions
          /\ IF o.code = "error" THEN UNCHANGED scannerVars ELSE Count(o)
          /\ \/ NextReturns(o.code # "ok", o.page, o.more)
             \/ NextReturns(TRUE, o.page, o.more)
    BY <1>1 DEF NextAnswered
  <2>2. /\ phase = "scan" /\ NextRequest \in Request /\ NextRequest.kind # "close"
        /\ UNCHANGED <<orphaned, leader, moved, late>>
    BY <1>1, RequestTypes DEF NextAnswered
  <2>3. AtLeader'
    BY <1>0, <1>a, <2>1, <2>2, AtLeaderKept
  <2>4. NoSessionLeft'
    BY <1>b, <2>1, <2>2
  <2>5. OnlySession'
    <3>1. CASE OpenedAs(NextRequest, o)
      <4>1. scannerID = NoID
        BY <3>1 DEF OpenedAs, NextRequest, Sessionless
      <4>2. /\ DOMAIN sessions' = 1 .. Len(sessions) + 1 /\ o.code = "ok"
            /\ o.id = Len(sessions) + 1
        BY <1>0, <2>1, <2>2, <3>1, OutcomeSessions DEF OpenedAs, SessionsGrow
      <4>3. scannerID' = Len(sessions) + 1
        BY <1>0, <2>1, <4>2 DEF Count, NoID
      <4>4. \A i \in DOMAIN sessions : sessions'[i].open => sessions[i].open
        BY <1>0 DEF SessionsGrow, Grown
      <4>5. \A i \in DOMAIN sessions : i # NoID
        BY <1>0 DEF NoID
      <4>6. \A i \in DOMAIN sessions' : i # scannerID' => i \in DOMAIN sessions
        BY <1>0, <4>2, <4>3
      <4>7. QED
        BY <1>0, <2>2, <4>1, <4>4, <4>5, <4>6 DEF OnlySession
    <3>2. CASE ~OpenedAs(NextRequest, o)
      <4>1. DOMAIN sessions' = DOMAIN sessions
        BY <1>0, <2>1, <2>2, <3>2, OutcomeSessions DEF SessionsGrow
      <4>2. RefusedAs(o) \/ PagedAs(NextRequest, o)
        BY <2>2, <3>2, OutcomeKinds DEF EndedAs
      <4>3. scannerID' = scannerID
        BY <2>1, <4>2 DEF RefusedAs, PagedAs, Count, scannerVars
      <4>4. QED
        BY <1>0, <2>2, <4>1, <4>3, OnlySessionKept
    <3>3. QED
      BY <3>1, <3>2
  <2>6. QED
    BY <2>3, <2>4, <2>5 DEF EndInv
<1>2. CASE NextFails
  <2>1. /\ phase = "scan" /\ NextRequest \in Request /\ NextReturns(TRUE, <<>>, FALSE)
        /\ sessions' = sessions \/ \E o \in Outcomes(NextRequest) : sessions' = o.sessions
        /\ late' \subseteq late \cup {NextRequest}
        /\ UNCHANGED <<leader, moved, scannerID>>
        /\ ~orphaned' => ~orphaned
    BY <1>2, RequestTypes DEF NextFails, GivenUp, scannerVars
  <2>2. AtLeader'
    BY <1>0, <1>a, <2>1, AtLeaderKept
  <2>3. NoSessionLeft'
    BY <1>b, <2>1
  <2>4. CASE started
    <3>1. NextRequest.kind # "open"
      BY <2>4 DEF NextRequest
    <3>2. DOMAIN sessions' = DOMAIN sessions
      BY <2>1, <3>1, OutcomeAdds
    <3>3. OnlySession'
      BY <1>0, <2>1, <3>1, <3>2, OnlySessionKept
    <3>4. QED
      BY <2>2, <2>3, <3>3 DEF EndInv
  <2>5. CASE ~started
    <3>1. ~orphaned' => UNCHANGED <<sessions, late>>
      BY <1>2, <2>5 DEF NextFails
    <3>2. OnlySession'
      BY <1>0, <2>1, <3>1 DEF OnlySession
    <3>3. QED
      BY <2>2, <2>3, <3>2 DEF EndInv
  <2>6. QED
    BY <2>4, <2>5
<1>3. CASE CloseUnneeded
  <2>1. /\ scannerID = NoID /\ UNCHANGED <<scannerID, orphaned, leader, moved, sessions, late>>
    BY <1>3 DEF CloseUnneeded, NoSession, clusterVars, CloseReturns, scannerVars
  <2>2. OnlySession' /\ AtLeader'
    BY <1>0, <2>1 DEF OnlySession, AtLeader
  <2>3. NoSessionLeft'
    <3>1. \A i \in DOMAIN sessions : i # scannerID
      BY <1>0, <2>1 DEF NoID
    <3>2. QED
      BY <1>0, <2>1, <3>1 DEF OnlySession, NoSessionLeft
  <2>4. QED
    BY <2>2, <2>3 DEF EndInv
<1>4. CASE CloseAnswered
  <2>1. PICK o \in Outcomes(CloseRequest) : sessions' = o.sessions
    BY <1>4 DEF CloseAnswered
  <2>2. /\ CloseRequest \in Request /\ UNCHANGED <<scannerID, orphaned, leader, moved, late>>
    BY <1>4, RequestTypes DEF CloseAnswered, CloseReturns, scannerVars
  <2>3. AtLeader'
    BY <1>0, <1>a, <2>1, <2>2, AtLeaderKept
  <2>4. DOMAIN sessions' = DOMAIN sessions
    BY <1>a, <2>1, <2>2, OutcomeAdds
  <2>5. OnlySession'
    BY <1>0, <2>2, <2>4, OnlySessionKept
  <2>6. NoSessionLeft'
    <3>1. SUFFICES ASSUME ~orphaned, ~moved, NEW i \in DOMAIN sessions', sessions'[i].open
                   PROVE  FALSE
      BY <2>2 DEF NoSessionLeft
    <3>2. i = scannerID
      BY <2>2, <2>5, <3>1 DEF OnlySession
    <3>3. sessions[scannerID].open /\ sessions[scannerID].at = leader
      BY <1>0, <2>4, <3>1, <3>2 DEF SessionsGrow, Grown, AtLeader
    <3>4. Serves(CloseRequest)
      BY <1>a, <2>4, <3>2, <3>3 DEF Serves
    <3>5. sessions' = [sessions EXCEPT ![scannerID].open = FALSE]
      BY <1>a, <2>1, <3>4 DEF Outcomes, Ended, Outcome
    <3>6. ~sessions'[scannerID].open
      BY <2>4, <3>2, <3>5, EndedSession
    <3>7. QED
      BY <3>1, <3>2, <3>6
  <2>7. QED
    BY <2>3, <2>5, <2>6 DEF EndInv
<1>5. CASE CloseFails
  <2>1. /\ CloseRequest \in Request /\ orphaned'
        /\ sessions' = sessions \/ \E o \in Outcomes(CloseRequest) : sessions' = o.sessions
        /\ late' \subseteq late \cup {CloseRequest}
        /\ UNCHANGED <<leader, moved>>
    BY <1>5, RequestTypes DEF CloseFails, GivenUp
  <2>2. AtLeader'
    BY <1>0, <1>a, <2>1, AtLeaderKept
  <2>3. QED
    BY <2>1, <2>2 DEF EndInv, OnlySession, NoSessionLeft
<1>6. ASSUME NEW r \in late, Arrives(r) PROVE EndInv'
  <2>1. /\ r \in Request
        /\ sessions' = sessions \/ \E o \in Outcomes(r) : sessions' = o.sessions
        /\ late' \subseteq late
        /\ UNCHANGED <<direct, phase, scannerID, orphaned, leader, moved>>
    BY <1>0, <1>6 DEF Arrives, scannerVars, scanVars, historyVars
  <2>2. AtLeader'
    <3>1. ~moved => r.to = leader
      BY <1>0 DEF AtLeader
    <3>2. QED
      BY <1>0, <2>1, <3>1, AtLeaderKept
  <2>3. ~orphaned => DOMAIN sessions' = DOMAIN sessions
    BY <1>0, <2>1, OutcomeAdds DEF OnlySession
  <2>4. NoSessionLeft'
    BY <1>0, <2>1, <2>3, NoneReopened
  <2>5. OnlySession'
    <3>1. CASE orphaned
      BY <2>1, <3>1 DEF OnlySession
    <3>2. CASE ~orphaned
      BY <1>0, <2>1, <2>3, <3>2, OnlySessionKept
    <3>3. QED
      BY <3>1, <3>2
  <2>6. QED
    BY <2>2, <2>4, <2>5 DEF EndInv
<1>7. ASSUME NEW i \in DOMAIN sessions, Expires(i) PROVE EndInv'
  <2>1. /\ sessions' = [sessions EXCEPT ![i].open = FALSE]
        /\ UNCHANGED <<direct, phase, scannerID, orphaned, leader, moved, late>>
    BY <1>7 DEF Expires, scannerVars, scanVars, historyVars
  <2>2. DOMAIN sessions' = DOMAIN sessions
    BY <2>1
  <2>3. AtLeader'
    BY <1>0, <2>1, <2>2 DEF AtLeader, SessionsGrow, Grown
  <2>4. QED
    BY <1>0, <2>1, <2>2, <2>3, OnlySessionKept, NoneReopened DEF EndInv
<1>8. CASE LeaderMoves
  <2>1. moved' /\ UNCHANGED <<direct, phase, scannerID, orphaned, sessions, late>>
    BY <1>8 DEF LeaderMoves, scannerVars, scanVars, historyVars
  <2>2. QED
    BY <1>0, <2>1 DEF EndInv, OnlySession, AtLeader, NoSessionLeft
<1>9. CASE UNCHANGED vars
  BY <1>0, <1>9 DEF vars, scannerVars, scanVars, historyVars, clusterVars, EndInv,
     OnlySession, AtLeader, NoSessionLeft
<1>10. QED
  BY <1>1, <1>2, <1>3, <1>4, <1>5, <1>6, <1>7, <1>8, <1>9
     DEF Step, Next, Close, Cluster

-------------------------------------------------------------------------------
(* The theorems *)

LEMMA InitInv == Init => ScannerInv
<1> SUFFICES ASSUME Init PROVE ScannerInv
  OBVIOUS
<1>1. rows = <<>> /\ Len(rows) = 0 /\ sessions = <<>> /\ Len(sessions) = 0
  BY DEF Init
<1>2. TypeOK
  <2>1. ReturnTypes
    <3>1. rows \in Seq(1 .. RowCount) /\ emptyPages \in 0 .. 2
      BY <1>1 DEF Init
    <3>2. QED
      BY <3>1 DEF Init, ReturnTypes
  <2>2. SessionTypes
    <3>1. sessions \in Seq(Sessions) /\ Len(sessions) <= SessionBound
      BY <1>1, ScannerAssumption
    <3>2. scannerID \in 0 .. Len(sessions) /\ callSeqID \in 0 .. CallBound
          /\ ~(callSeqID > 0)
      BY <1>1, ScannerAssumption DEF Init, NoID
    <3>3. QED
      BY <3>1, <3>2 DEF Init, SessionTypes
  <2>3. QED
    BY <2>1, <2>2, TypeParts
<1>3. Page(0, 0) = <<>>
  BY PageType
<1>4. RowsInv
  BY <1>1, <1>3 DEF Init, RowsInv, Sessionless, RowsBehind, RowsInOrder, InStep, ScanComplete
<1>5. ErrorsEnd /\ EndInv
  BY <1>1 DEF Init, ErrorsEnd, EndInv, OnlySession, AtLeader, NoSessionLeft
<1>6. QED
  BY <1>2, <1>4, <1>5 DEF ScannerInv, RowsInv, EndInv

LEMMA StepInv == ScannerInv /\ [Step]_vars => ScannerInv'
BY NextType, RowsKept, EndKept DEF ScannerInv, RowsInv, EndInv

LEMMA Invariance == Spec => []ScannerInv
BY InitInv, StepInv, PTL DEF Spec

(* Scanner, ScanRows and servers keep their types; the calls that are      *)
(* answered are counted up to the bound of the instance.                   *)
THEOREM Typing == Spec => []TypeOK
<1>1. ScannerInv => TypeOK
  BY DEF ScannerInv
<1>2. QED
  BY <1>1, Invariance, PTL

(* KVScanner.Next: no row twice, and none left out unless the caller goes  *)
(* on after an error.                                                      *)
THEOREM SpecRowsInOrder == Spec => []RowsInOrder
<1>1. ScannerInv => RowsInOrder
  BY DEF ScannerInv
<1>2. QED
  BY <1>1, Invariance, PTL

(* ScanRows returns all the rows of the bucket, or an error. *)
THEOREM SpecScanComplete == Spec => []ScanComplete
<1>1. ScannerInv => ScanComplete
  BY DEF ScannerInv
<1>2. QED
  BY <1>1, Invariance, PTL

(* ScanRows, however it ends, leaves no session open on the server, unless *)
(* an answer was lost or the bucket moved.                                 *)
THEOREM SpecNoSessionLeft == Spec => []NoSessionLeft
<1>1. ScannerInv => NoSessionLeft
  BY DEF ScannerInv
<1>2. QED
  BY <1>1, Invariance, PTL
===============================================================================
