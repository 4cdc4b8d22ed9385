-------------------------- MODULE PgCaptureProofs --------------------------
(***************************************************************************)
(* Proofs about PgCapture, for every set of transactions, every number of  *)
(* requests and every timing parameter.                                    *)
(***************************************************************************)
EXTENDS PgCapture, TrafficProofs

\* Seen from the driver, the application and the stream, every step is one of
\* theirs.
LEMMA StepsAreTraffic ==
    ASSUME TypeOK, [Next]_vars
    PROVE  TrafficStep
<1> USE DEF TrafficStep, QuietStep, DriverStep, Waiting
<1>1. BeginWindow \/ Answer \/ Application => TrafficStep
  BY DEF BeginWindow, Answer, Application
<1>2. Poll \/ Swap \/ Stop => TrafficStep
  BY DEF Poll, Swap, Stop, TypeOK, Phases
<1>3. Pump \/ StreamDies => TrafficStep
  BY DEF Pump, StreamDies
<1>4. Tick => TrafficStep
  BY DEF Tick, Pumping, TypeOK
<1>5. UNCHANGED vars => TrafficStep
  BY DEF vars
<1> QED
  BY <1>1, <1>2, <1>3, <1>4, <1>5 DEF Next, TakeWindow

LEMMA InitTypes == ASSUME Init PROVE TypeOK /\ TrafficInv
<1>1. TrafficInv
  BY TrafficInitInv DEF Init
<1>2. windowStart \in 0..lastCommitLSN /\ lastCommitLSN \in Nat
  BY DEF Init
<1>3. err \in BOOLEAN /\ changes \in SUBSET Txn
  BY DEF Init
<1> QED
  BY <1>1, <1>2, <1>3 DEF TypeOK, TrafficInv

LEMMA NextTypes ==
    ASSUME TypeOK, CurOK, [Next]_vars
    PROVE  TypeOK' /\ CurOK'
<1>1. TrafficTypeOK' /\ CurOK'
  BY StepsAreTraffic, TrafficTypes DEF TypeOK
<1>2. /\ changes' \in SUBSET Txn
      /\ lastCommitLSN' \in Nat
      /\ windowStart' \in 0..lastCommitLSN'
      /\ err' \in BOOLEAN
  <2> USE DEF TypeOK
  <2>1. CASE Pump
    <3>1. Head(stream) \in Message
      BY <2>1 DEF Pump, Deliver, TrafficTypeOK
    <3> QED
      BY <2>1, <3>1 DEF Pump, HandleWAL, Message
  <2>2. CASE BeginWindow
    BY <2>2 DEF BeginWindow
  <2>3. CASE StreamDies \/ Swap
    BY <2>3 DEF StreamDies, Swap
  <2>4. CASE UNCHANGED captureVars
    BY <2>4 DEF captureVars
  <2>5. Answer \/ Application \/ Stop \/ Poll \/ Tick \/ UNCHANGED vars => UNCHANGED captureVars
    BY DEF Answer, Application, Stop, Poll, Tick, vars
  <2> QED
    BY <2>1, <2>2, <2>3, <2>4, <2>5 DEF Next, TakeWindow
<1> QED
  BY <1>1, <1>2 DEF TypeOK

\* Type correctness; in particular a window never starts after the last commit
\* decoded.
THEOREM TypeCorrect == Spec => []TypeOK
<1>1. Init => TypeOK /\ CurOK
  BY InitTypes DEF TrafficInv
<1>2. TypeOK /\ CurOK /\ [Next]_vars => TypeOK' /\ CurOK'
  BY NextTypes
<1> QED
  BY <1>1, <1>2, PTL DEF Spec

----------------------------------------------------------------------------
(* ReportedOnce.  A row is reported twice unless it is in one place at a    *)
(* time on its way, and is gone when it is thrown away.                     *)

\* A row in the buffer was committed, has left the stream and is in no write-set;
\* a row in a write-set has left the stream.
RowsApart ==
    /\ changes \subseteq Committed \ Rows(stream)
    /\ \A r \in Req : writeset[r] \cap (changes \cup Rows(stream)) = {}

IInv == TypeOK /\ TrafficInv /\ RowsApart /\ ReportedOnce

LEMMA NothingMoves ==
    ASSUME IInv, UNCHANGED <<stream, stage, cause, changes, writeset>>
    PROVE  RowsApart' /\ ReportedOnce'
  BY DEF IInv, RowsApart, ReportedOnce, Committed, Rows

LEMMA NewWindowKeeps ==
    ASSUME IInv, BeginWindow
    PROVE  RowsApart' /\ ReportedOnce'
  BY DEF BeginWindow, OpenWindow, appVars, streamVars, IInv, RowsApart, ReportedOnce,
         Committed, Rows

LEMMA SwapKeeps ==
    ASSUME IInv, Swap
    PROVE  RowsApart' /\ ReportedOnce'
<1> USE DEF Swap, ReturnRows, appVars, streamVars
<1>1. cur \in Req /\ cur \in Nat /\ Waiting
  BY DEF IInv, TrafficInv, CurOK, Waiting, Req, TrafficTypeOK
<1>2. /\ writeset'[cur] = changes
      /\ \A r \in Req \ {cur} : writeset'[r] = writeset[r]
  BY <1>1 DEF IInv, TrafficInv, TrafficTypeOK
<1>3. Rows(stream)' = Rows(stream) /\ Committed' = Committed /\ changes' = {}
  BY DEF Rows, Committed
<1>4. RowsApart'
  BY <1>1, <1>2, <1>3 DEF IInv, RowsApart
<1>5. ReportedOnce'
  <2> SUFFICES ASSUME NEW r \in Req, NEW t \in writeset'[r]
               PROVE  /\ t \in Committed /\ cause[t] \in 1..r
                      /\ \A s \in Req \ {r} : t \notin writeset'[s]
    BY <1>3 DEF ReportedOnce
  <2>1. CASE r = cur
    BY <1>2, <2>1 DEF IInv, TrafficInv, RowsApart, Committed, Causes
  <2>2. CASE r # cur
    BY <1>1, <1>2, <2>2 DEF IInv, ReportedOnce, RowsApart
  <2> QED
    BY <2>1, <2>2
<1> QED
  BY <1>4, <1>5

LEMMA PumpKeeps ==
    ASSUME IInv, Pump
    PROVE  RowsApart' /\ ReportedOnce'
<1> DEFINE m == Head(stream)
<1>1. TrafficInv /\ Deliver /\ UNCHANGED <<writeset, stage, cause>>
  BY DEF IInv, Pump, Deliver, driverVars, appVars
<1>2. /\ m \in Message
      /\ m.txn \in Committed
      /\ m.kind # "row" => Rows(stream)' = Rows(stream)
      /\ m.kind = "row" => /\ Rows(stream)' = Rows(stream) \ {m.txn}
                           /\ m.txn \in Rows(stream)
  BY <1>1, DeliverKeeps
<1>3. /\ changes' = IF m.kind = "row" THEN changes \cup {m.txn} ELSE changes
      /\ Committed' = Committed
  BY <1>1 DEF Pump, HandleWAL, Committed
<1> HIDE DEF m
<1>4. RowsApart'
  BY <1>1, <1>2, <1>3 DEF IInv, RowsApart
<1>5. ReportedOnce'
  BY <1>1, <1>3 DEF IInv, ReportedOnce
<1> QED
  BY <1>4, <1>5

LEMMA ApplicationKeeps ==
    ASSUME IInv, Application
    PROVE  RowsApart' /\ ReportedOnce'
<1>1. /\ UNCHANGED <<cur, writeset, changes>>
      /\ Committed \subseteq Committed'
      /\ \A x \in Committed : cause'[x] = cause[x]
      /\ Rows(stream)' = Rows(stream) \cup (Committed' \ Committed)
  BY OutsideKeeps DEF IInv, Application, captureVars
<1>2. \A r \in Req : writeset[r] \subseteq Committed
  BY DEF IInv, ReportedOnce
<1> QED
  BY <1>1, <1>2 DEF IInv, RowsApart, ReportedOnce

LEMMA InitKeeps == Init => IInv
<1>1. Init => Rows(stream) = {} /\ Committed = {}
  BY DEF Init, TrafficInit, Rows, Committed
<1> QED
  BY <1>1, InitTypes DEF Init, TrafficInit, IInv, RowsApart, ReportedOnce

LEMMA NextKeeps == ASSUME IInv, [Next]_vars PROVE IInv'
<1>1. TypeOK' /\ TrafficInv'
  BY NextTypes, StepsAreTraffic, TrafficNext DEF IInv, TrafficInv
<1> USE DEF captureVars, appVars, streamVars
<1>2. Answer \/ Stop \/ Poll => UNCHANGED <<stream, stage, cause, changes, writeset>>
  BY DEF Answer, Respond, Stop, Goto, Poll, ReturnError
<1>3. StreamDies \/ Tick \/ UNCHANGED vars => UNCHANGED <<stream, stage, cause, changes, writeset>>
  BY DEF StreamDies, Tick, Pass, vars, trafficVars
<1> QED
  BY <1>1, <1>2, <1>3, NothingMoves, NewWindowKeeps, SwapKeeps, PumpKeeps, ApplicationKeeps
     DEF Next, TakeWindow, IInv

LEMMA AlwaysIInv == Spec => []IInv
<1>1. Init => IInv
  BY InitKeeps
<1>2. IInv /\ [Next]_vars => IInv'
  BY NextKeeps
<1> QED
  BY <1>1, <1>2, PTL DEF Spec

\* Whatever fails and however slow the stream is, no row is reported for two
\* requests or for one that had not caused it yet.
THEOREM RowsReportedOnce == Spec => []ReportedOnce
<1>1. IInv => ReportedOnce
  BY DEF IInv
<1> QED
  BY <1>1, AlwaysIInv, PTL

----------------------------------------------------------------------------
(* What is promised from some state on.                                     *)

\* Row t was decoded before request r opened its window.
Late(r, t) ==
    /\ t \in Committed
    /\ t \notin Rows(stream)
    /\ t \notin writeset[r]
    /\ t \in changes => cur < r /\ ~Waiting

LEMMA LateKeeps ==
    ASSUME IInv, NEW r \in Req, NEW t \in Txn, Late(r, t), [Next]_vars
    PROVE  Late(r, t)'
<1> USE DEF captureVars
<1>0. /\ cur \in Nat /\ r \in Nat
      /\ writeset \in [Req -> SUBSET Txn]
      /\ Waiting => cur \in Req
  BY DEF IInv, TypeOK, TrafficTypeOK, TrafficInv, CurOK, Req
<1>1. ASSUME UNCHANGED <<stream, stage, cur, changes, writeset>>, Waiting' => Waiting
      PROVE  Late(r, t)'
  BY <1>1 DEF Late, Committed, Rows
<1>2. CASE BeginWindow
  BY <1>2 DEF BeginWindow, OpenWindow, appVars, streamVars, Late, Committed, Rows
<1>3. CASE Swap
  <2>1. t \notin changes /\ cur \in Req
    BY <1>0, <1>3 DEF Swap, Late, Waiting
  <2> QED
    BY <1>0, <1>3, <2>1 DEF Swap, ReturnRows, appVars, streamVars, Late, Committed, Rows
<1>4. CASE Answer \/ Stop \/ Poll
  BY <1>1, <1>4 DEF Answer, Respond, Stop, Poll, Goto, ReturnError, Waiting, appVars, streamVars
<1>5. CASE StreamDies \/ Tick \/ UNCHANGED vars
  BY <1>1, <1>5 DEF StreamDies, Tick, Pass, vars, trafficVars, Waiting, appVars
<1>6. CASE Pump
  <2>1. /\ Head(stream).kind # "row" => Rows(stream)' = Rows(stream)
        /\ Head(stream).kind = "row" => /\ Rows(stream)' = Rows(stream) \ {Head(stream).txn}
                                         /\ Head(stream).txn \in Rows(stream)
    BY <1>6, DeliverKeeps DEF Pump, IInv
  <2>2. t \in changes' => t \in changes
    BY <1>6, <2>1 DEF Pump, HandleWAL, Late
  <2> QED
    BY <1>6, <2>1, <2>2 DEF Pump, Deliver, driverVars, appVars, Late, Committed, Waiting
<1>7. CASE Application
  <2>1. /\ UNCHANGED <<cur, writeset, changes>>
        /\ Committed \subseteq Committed'
        /\ Rows(stream)' = Rows(stream) \cup (Committed' \ Committed)
    BY <1>7, OutsideKeeps DEF IInv, Application, captureVars
  <2>2. Waiting' => Waiting
    BY <1>7 DEF Application, Outside, SendFails, Send, GiveUp, Goto, ReturnError, Begin,
                Commit, Rollback, driverVars, Waiting
  <2> QED
    BY <2>1, <2>2 DEF Late
<1> QED
  BY <1>2, <1>3, <1>4, <1>5, <1>6, <1>7 DEF Next, TakeWindow

\* A row that was decoded before a window opened is in no write-set of that
\* request, although the window closes at the first commit it sees.
THEOREM LateRowsAreGone == Spec => LateRowsDiscarded
<1>1. ASSUME NEW r \in Req, NEW t \in Txn
      PROVE  Spec => []((t \in changes /\ pc = "idle" /\ cur < r) => [](t \notin writeset[r]))
  <2>1. IInv /\ t \in changes /\ pc = "idle" /\ cur < r => Late(r, t)
    BY DEF IInv, RowsApart, Late, Waiting
  <2>2. IInv /\ Late(r, t) /\ [Next]_vars => Late(r, t)'
    BY LateKeeps
  <2>3. Late(r, t) => t \notin writeset[r]
    BY DEF Late
  <2> QED
    BY <2>1, <2>2, <2>3, AlwaysIInv, PTL DEF Spec
<1> QED
  BY <1>1 DEF LateRowsDiscarded

\* Request r got past BeginWindow after the stream had died.
Doomed(r) ==
    /\ err
    /\ outcome[r] # "ok"
    /\ cur >= r
    /\ cur = r => pc \in {"send", "http", "poll", "idle", "stopped"}

LEMMA DoomedKeeps ==
    ASSUME IInv, NEW r \in Req, Doomed(r), [Next]_vars
    PROVE  Doomed(r)'
<1> USE DEF Doomed, captureVars
<1>0. /\ cur \in Nat /\ r \in Nat
      /\ outcome \in [Req -> {"none", "ok", "error"}]
  BY DEF IInv, TypeOK, TrafficTypeOK, Req
<1>1. CASE BeginWindow
  BY <1>0, <1>1 DEF BeginWindow, OpenWindow
<1>2. CASE Answer
  BY <1>2 DEF Answer, Respond
<1>3. CASE Poll
  BY <1>0, <1>3 DEF Poll, ReturnError
<1>4. CASE Swap
  BY <1>0, <1>4 DEF Swap, ReturnRows
<1>5. CASE Stop
  BY <1>5 DEF Stop, Goto
<1>6. CASE Pump \/ StreamDies
  BY <1>6 DEF Pump, StreamDies, Pumping
<1>7. CASE Application
  <2>1. CASE SendFails \/ GiveUp
    BY <1>0, <1>7, <2>1 DEF Application, SendFails, GiveUp, ReturnError
  <2>2. CASE Send \/ \E t \in Txn : Begin(t) \/ Commit(t) \/ Rollback(t)
    BY <1>7, <2>2 DEF Application, Send, Goto, Begin, Commit, Rollback, driverVars
  <2> QED
    BY <1>7, <2>1, <2>2 DEF Application, Outside
<1>8. CASE Tick \/ UNCHANGED vars
  BY <1>8 DEF Tick, Pass, vars, trafficVars
<1> QED
  BY <1>1, <1>2, <1>3, <1>4, <1>5, <1>6, <1>7, <1>8 DEF Next, TakeWindow

\* A request whose window opened on a dead replication connection is never given
\* a write-set, empty or not.
THEOREM DeadStreamIsReported == Spec => DeadStreamNeverVouches
<1>1. ASSUME NEW r \in Req
      PROVE  Spec => [](err /\ cur = r /\ pc \in {"send", "http"} => [](outcome[r] # "ok"))
  <2>1. IInv /\ err /\ cur = r /\ pc \in {"send", "http"} => Doomed(r)
    BY DEF IInv, TrafficInv, FreshWindows, Waiting, Doomed, Req
  <2>2. IInv /\ Doomed(r) /\ [Next]_vars => Doomed(r)'
    BY DoomedKeeps
  <2>3. Doomed(r) => outcome[r] # "ok"
    BY DEF Doomed
  <2> QED
    BY <2>1, <2>2, <2>3, AlwaysIInv, PTL DEF Spec
<1> QED
  BY <1>1 DEF DeadStreamNeverVouches
----------------------------------------------------------------------------
(* The contract of writeset.Source.  In the calm environment, for a request *)
(* that runs one transaction, everything it wrote has left the stream when  *)
(* its window closes, whichever of its conditions closes it.                *)

Calm == CalmTraffic /\ OneTrx /\ MaxLag < Quiet /\ MaxLag <= Timeout

\* The rows of the request in progress are in the stream or in the buffer.
Own == IF Waiting THEN changes \cup Rows(stream) = RowsOf(cur) ELSE changes = {}

\* A request has one transaction, unless it was rolled back.
Alone ==
    \A t, u \in Txn :
        {stage[t], stage[u]} \subseteq {"active", "committed"} /\ cause[t] = cause[u] => t = u

\* The stream carries one transaction at most, and the commit that closes a
\* window is the last message in it.
Pipe ==
    \/ /\ stream = <<>>
       /\ Waiting /\ lastCommitLSN > windowStart => RowsOf(cur) # {}
    \/ /\ lastCommitLSN = windowStart
       /\ \E t \in RowsOf(cur) :
            stream \in {<<[txn |-> t, kind |-> "row"], [txn |-> t, kind |-> "commit"]>>,
                        <<[txn |-> t, kind |-> "commit"]>>}

CalmInv == IInv /\ ~err /\ Timely /\ Settled({}) /\ Own /\ Alone /\ Pipe

LEMMA NoRows == stream = <<>> => Rows(stream) = {}
  BY DEF Rows

LEMMA RowsStay ==
    ASSUME UNCHANGED <<stage, cause>>
    PROVE  \A r : RowsOf(r)' = RowsOf(r)
  BY DEF RowsOf, Committed

\* Steps that move no row.
LEMMA StillCalm ==
    ASSUME CalmInv, UNCHANGED <<stage, cause, stream, changes, lastCommitLSN, windowStart, err>>,
           UNCHANGED <<cur, writeset, outcome>>, Waiting' <=> Waiting, Timely'
    PROVE  ~err' /\ Timely' /\ Settled({})' /\ Own' /\ Alone' /\ Pipe'
<1>1. \A r : RowsOf(r)' = RowsOf(r)
  BY RowsStay
<1>2. Rows(stream)' = Rows(stream)
  BY DEF Rows
<1>3. Settled({})'
  BY SettledStays DEF CalmInv, Closed
<1>4. Own'
  BY <1>1, <1>2 DEF CalmInv, Own
<1>5. Alone'
  BY DEF CalmInv, Alone
<1>6. Pipe'
  BY <1>1 DEF CalmInv, Pipe
<1> QED
  BY <1>3, <1>4, <1>5, <1>6 DEF CalmInv

\* The loop of TakeWindow is left only with nothing in the stream.
LEMMA WindowOverCalm ==
    ASSUME Calm, CalmInv, pc = "poll", WindowOver
    PROVE  stream = <<>>
<1>1. TypeOK /\ TrafficTypeOK /\ Overdue /\ Pipe
  BY DEF CalmInv, IInv, TypeOK, Timely
<1>2. CASE lastCommitLSN > windowStart
  <2>1. lastCommitLSN # windowStart
    BY <1>1, <1>2 DEF TypeOK
  <2> QED
    BY <1>1, <2>1 DEF Pipe
<1>3. CASE elapsed >= Quiet \/ elapsed > Timeout
  <2>1. elapsed \in Nat /\ MaxLag \in Nat /\ Quiet \in Nat /\ Timeout \in Nat
    BY <1>1, Ages, TrafficAssumption DEF TrafficTypeOK
  <2>2. elapsed > MaxLag
    BY <1>3, <2>1 DEF Calm
  <2> QED
    BY <1>1, <2>2, LagOver
<1> QED
  BY <1>2, <1>3 DEF WindowOver

LEMMA BeginWindowCalm ==
    ASSUME CalmInv, BeginWindow
    PROVE  ~err' /\ Timely' /\ Settled({})' /\ Own' /\ Alone' /\ Pipe'
<1>1. /\ pc = "idle" /\ pc' = "send" /\ cur' = cur + 1 /\ changes' = {}
      /\ windowStart' = lastCommitLSN /\ lastCommitLSN' = lastCommitLSN
      /\ UNCHANGED <<outcome, writeset, stage, cause, serving, stream, lag, err>>
  BY DEF BeginWindow, OpenWindow, appVars, streamVars
<1>2. cur \in Nat /\ Req \subseteq Nat /\ lastCommitLSN \in Nat
  BY DEF CalmInv, IInv, TypeOK, TrafficTypeOK, Req
<1>3. stream = <<>>
  BY <1>1 DEF CalmInv, Timely, Delivered
<1>4. Timely'
  BY <1>1, <1>3, PhaseCalm DEF CalmInv, appVars, streamVars
<1>5. Settled({})'
  <2>1. \A r \in Req : Closed(r)' => Closed(r)
    BY <1>1, <1>2 DEF Closed, Waiting
  <2> QED
    BY <1>1, <2>1, SettledStays DEF CalmInv
<1>6. RowsOf(cur + 1) = {}
  <2>1. \A t \in Committed : cause[t] \in 1..cur
    BY DEF CalmInv, IInv, TrafficInv, Causes, Committed
  <2> QED
    BY <1>2, <2>1 DEF RowsOf
<1>7. RowsOf(cur)' = RowsOf(cur + 1)
  BY <1>1 DEF RowsOf, Committed
<1>8. Own'
  BY <1>1, <1>3, <1>6, <1>7 DEF Own, Waiting, Rows
<1>9. Alone' /\ Pipe'
  BY <1>1, <1>2, <1>3 DEF CalmInv, Alone, Pipe
<1> QED
  BY <1>1, <1>4, <1>5, <1>8, <1>9 DEF CalmInv

LEMMA SwapCalm ==
    ASSUME CalmInv, Swap
    PROVE  /\ ~err' /\ Timely' /\ Settled({})' /\ Own' /\ Alone' /\ Pipe'
           /\ changes = RowsOf(cur)
<1>1. /\ pc = "swap" /\ pc' = "idle" /\ changes' = {} /\ cur' = cur
      /\ outcome' = [outcome EXCEPT ![cur] = "ok"]
      /\ writeset' = [writeset EXCEPT ![cur] = changes]
      /\ UNCHANGED <<stage, cause, serving, stream, lag, lastCommitLSN, windowStart, err>>
  BY DEF Swap, ReturnRows, appVars, streamVars
<1>2. /\ cur \in Req /\ Req \subseteq Nat
      /\ writeset \in [Req -> SUBSET Txn]
      /\ outcome \in [Req -> {"none", "ok", "error"}]
  BY <1>1 DEF CalmInv, IInv, TrafficInv, CurOK, Waiting, TrafficTypeOK, Req
<1>3. stream = <<>>
  BY <1>1 DEF CalmInv, Timely, Delivered
<1>4. Timely'
  BY <1>1, <1>3, PhaseCalm DEF CalmInv, appVars, streamVars
<1>5. changes = RowsOf(cur)
  BY <1>1, <1>3, NoRows DEF CalmInv, Own, Waiting
<1>6. \A r : RowsOf(r)' = RowsOf(r)
  BY <1>1, RowsStay
<1>7. Settled({})'
  <2> SUFFICES ASSUME NEW r \in Req, Closed(r)'
               PROVE  writeset'[r] = RowsOf(r) \ {} /\ outcome'[r] = "ok"
    BY <1>6 DEF Settled
  <2>1. CASE r = cur
    BY <1>1, <1>2, <1>5, <2>1
  <2>2. CASE r # cur
    <3>1. Closed(r)
      BY <1>1, <2>2 DEF Closed
    <3>2. writeset'[r] = writeset[r] /\ outcome'[r] = outcome[r]
      BY <1>1, <1>2, <2>2
    <3> QED
      BY <3>1, <3>2 DEF CalmInv, Settled
  <2> QED
    BY <2>1, <2>2
<1>8. Own' /\ Alone' /\ Pipe'
  BY <1>1, <1>3 DEF CalmInv, Own, Alone, Pipe, Waiting
<1> QED
  BY <1>1, <1>4, <1>5, <1>7, <1>8 DEF CalmInv

\* A message read: of the two that a transaction sends, the row is the first.
LEMMA PumpCalm ==
    ASSUME CalmInv, Pump
    PROVE  ~err' /\ Timely' /\ Settled({})' /\ Own' /\ Alone' /\ Pipe'
<1> DEFINE m == Head(stream)
<1>1. /\ Deliver /\ stream # <<>> /\ stream' = Tail(stream)
      /\ UNCHANGED <<pc, cur, elapsed, outcome, writeset, stage, cause, windowStart, err>>
  BY DEF Pump, Deliver, driverVars, appVars
<1>2. /\ m \in Message
      /\ m.kind # "row" => Rows(stream)' = Rows(stream)
      /\ m.kind = "row" => /\ Rows(stream)' = Rows(stream) \ {m.txn}
                           /\ m.txn \in Rows(stream)
  BY <1>1, DeliverKeeps DEF CalmInv, IInv
<1>3. /\ changes' = IF m.kind = "row" THEN changes \cup {m.txn} ELSE changes
      /\ lastCommitLSN' = IF m.kind = "row" THEN lastCommitLSN ELSE lastCommitLSN + 1
  BY <1>2 DEF Pump, HandleWAL, Message
<1>4. \A r : RowsOf(r)' = RowsOf(r)
  BY <1>1, RowsStay
<1>5. Timely'
  BY <1>1, DeliverCalm DEF CalmInv, IInv, TypeOK
<1>6. Settled({})'
  BY <1>1, SettledStays DEF CalmInv, Closed, Waiting
<1>7. Waiting
  BY <1>1 DEF CalmInv, Timely, Delivered, Waiting
<1>8. Own'
  <2>1. changes \cup Rows(stream) = RowsOf(cur)
    BY <1>7 DEF CalmInv, Own
  <2>2. changes' \cup Rows(stream)' = changes \cup Rows(stream)
    BY <1>2, <1>3
  <2>3. Waiting'
    BY <1>1, <1>7 DEF Waiting
  <2> HIDE DEF m
  <2> QED
    BY <1>1, <1>4, <2>1, <2>2, <2>3 DEF Own
<1>9. Alone'
  BY <1>1 DEF CalmInv, Alone
<1>10. Pipe'
  <2>1. lastCommitLSN = windowStart
    BY <1>1 DEF CalmInv, Pipe
  <2>2. PICK t \in RowsOf(cur) :
          \/ stream = <<[txn |-> t, kind |-> "row"], [txn |-> t, kind |-> "commit"]>>
          \/ stream = <<[txn |-> t, kind |-> "commit"]>>
    BY <1>1 DEF CalmInv, Pipe
  <2>3. CASE stream = <<[txn |-> t, kind |-> "row"], [txn |-> t, kind |-> "commit"]>>
    <3>1. m.kind = "row" /\ Tail(stream) = <<[txn |-> t, kind |-> "commit"]>>
      BY <2>3
    <3>2. lastCommitLSN' = windowStart'
      BY <1>1, <1>3, <2>1, <3>1
    <3> HIDE DEF m
    <3> QED
      BY <1>1, <1>4, <3>1, <3>2 DEF Pipe
  <2>4. CASE stream = <<[txn |-> t, kind |-> "commit"]>>
    <3>1. Tail(stream) = <<>>
      BY <2>4
    <3>2. RowsOf(cur)' # {}
      BY <1>1, <1>4, <2>2
    <3> QED
      BY <1>1, <3>1, <3>2 DEF Pipe
  <2> QED
    BY <2>2, <2>3, <2>4
<1> QED
  BY <1>1, <1>5, <1>6, <1>8, <1>9, <1>10 DEF CalmInv

LEMMA BeginCalm ==
    ASSUME Calm, CalmInv, NEW t \in Txn, Begin(t), UNCHANGED captureVars
    PROVE  Own' /\ Alone' /\ Pipe'
<1>1. PICK r \in serving :
        /\ \A u \in Txn : cause[u] = r => stage[u] = "aborted"
        /\ cause' = [cause EXCEPT ![t] = r]
  BY DEF Begin, Calm
<1>2. /\ stage' = [stage EXCEPT ![t] = "active"] /\ stage[t] = "new"
      /\ UNCHANGED <<pc, cur, stream, changes, lastCommitLSN, windowStart>>
      /\ stage \in [Txn -> {"new", "active", "committed", "aborted"}]
      /\ cause \in [Txn -> 0..N]
  BY DEF Begin, driverVars, streamVars, captureVars, CalmInv, IInv, TypeOK, TrafficTypeOK
<1>3. \A x : RowsOf(x)' = RowsOf(x)
  <2>1. stage'[t] # "committed"
    BY <1>2
  <2> QED
    BY <2>1, RowsOfTxn DEF CalmInv, IInv, TypeOK
<1>4. Rows(stream)' = Rows(stream)
  BY <1>2 DEF Rows
<1>5. Own' /\ Pipe'
  BY <1>2, <1>3, <1>4 DEF CalmInv, Own, Pipe, Waiting
<1>6. Alone'
  <2> SUFFICES ASSUME NEW x \in Txn, NEW u \in Txn,
                      stage'[x] \in {"active", "committed"}, stage'[u] \in {"active", "committed"},
                      cause'[x] = cause'[u]
               PROVE  x = u
    BY DEF Alone
  <2>1. ASSUME NEW y \in Txn, y # t, cause'[y] = r
        PROVE  stage'[y] = "aborted"
    BY <1>1, <1>2, <2>1
  <2>2. CASE x # t /\ u # t
    <3>1. stage'[x] = stage[x] /\ stage'[u] = stage[u] /\ cause'[x] = cause[x] /\ cause'[u] = cause[u]
      BY <1>1, <1>2, <2>2
    <3> QED
      BY <3>1 DEF CalmInv, Alone
  <2>3. cause'[t] = r
    BY <1>1, <1>2
  <2> QED
    BY <2>1, <2>2, <2>3
<1> QED
  BY <1>5, <1>6

LEMMA CommitCalm ==
    ASSUME CalmInv, NEW t \in Txn, Commit(t), UNCHANGED captureVars
    PROVE  Own' /\ Alone' /\ Pipe'
<1> DEFINE row == [txn |-> t, kind |-> "row"]
           mark == [txn |-> t, kind |-> "commit"]
<1>1. /\ stage[t] = "active" /\ stage' = [stage EXCEPT ![t] = "committed"]
      /\ stream' = stream \o <<row, mark>>
      /\ UNCHANGED <<pc, cur, cause, changes, lastCommitLSN, windowStart>>
      /\ stage \in [Txn -> {"new", "active", "committed", "aborted"}]
  BY DEF Commit, driverVars, captureVars, CalmInv, IInv, TypeOK, TrafficTypeOK
<1> HIDE DEF row, mark
<1>2. pc = "http" /\ cause[t] = cur
  BY <1>1 DEF CalmInv, Timely, Orderly, Active
<1>3. stage'[t] = "committed" /\ \A x \in Txn \ {t} : stage'[x] = stage[x]
  BY <1>1
<1>4. RowsOf(cur) = {}
  <2> SUFFICES ASSUME NEW u \in RowsOf(cur) PROVE FALSE
    OBVIOUS
  <2>1. u \in Txn /\ stage[u] = "committed" /\ cause[u] = cause[t]
    BY <1>2 DEF RowsOf, Committed
  <2>2. u = t
    BY <1>1, <2>1 DEF CalmInv, Alone
  <2> QED
    BY <1>1, <2>1, <2>2
<1>5. RowsOf(cur)' = {t}
  BY <1>1, <1>2, <1>3, <1>4, RowsOfTxn DEF CalmInv, IInv, TypeOK
<1>6. stream = <<>> /\ ~(lastCommitLSN > windowStart)
  BY <1>2, <1>4 DEF CalmInv, Pipe, Waiting
<1>7. stream' = <<row, mark>>
  BY <1>1, <1>6
<1>8. lastCommitLSN' = windowStart'
  BY <1>1, <1>6 DEF CalmInv, IInv, TypeOK
<1>9. Pipe'
  BY <1>5, <1>7, <1>8 DEF Pipe, row, mark
<1>10. Own'
  <2>1. changes \cup Rows(stream) = RowsOf(cur)
    BY <1>2 DEF CalmInv, Own, Waiting
  <2>2. Rows(stream)' = Rows(stream) \cup {t}
    <3>1. Rows(stream)' = Rows(stream) \cup (Committed' \ Committed)
      BY OutsideKeeps DEF Outside, CalmInv, IInv
    <3>2. Committed' \ Committed = {t}
      BY <1>1, <1>3 DEF Committed
    <3> QED
      BY <3>1, <3>2
  <2> QED
    BY <1>1, <1>2, <1>4, <1>5, <2>1, <2>2 DEF Own, Waiting
<1>11. Alone'
  <2> SUFFICES ASSUME NEW x \in Txn, NEW u \in Txn,
                      stage'[x] \in {"active", "committed"}, stage'[u] \in {"active", "committed"},
                      cause[x] = cause[u]
               PROVE  x = u
    BY <1>1 DEF Alone
  <2>1. stage[x] \in {"active", "committed"} /\ stage[u] \in {"active", "committed"}
    BY <1>1, <1>3
  <2> QED
    BY <2>1 DEF CalmInv, Alone
<1> QED
  BY <1>9, <1>10, <1>11

LEMMA ApplicationCalm ==
    ASSUME Calm, CalmInv, Application
    PROVE  ~err' /\ Timely' /\ Settled({})' /\ Own' /\ Alone' /\ Pipe'
<1>1. CalmTraffic /\ TrafficInv /\ Timely /\ Settled({}) /\ Outside /\ UNCHANGED captureVars
  BY DEF Calm, CalmInv, IInv, Application
<1>2. ~err' /\ Timely' /\ Settled({})'
  BY <1>1, OutsideCalm, OutsideSettled DEF CalmInv, captureVars
<1>3. UNCHANGED <<cur, writeset, outcome>>
  BY <1>1, OutsideCalm
<1>4. CASE pc = "send" /\ pc' = "http" /\ UNCHANGED <<stage, cause, streamVars>>
  <2>1. Waiting' <=> Waiting
    BY <1>4 DEF Waiting
  <2>2. UNCHANGED <<stage, cause, stream, changes, lastCommitLSN, windowStart, err>>
    BY <1>1, <1>4 DEF streamVars, captureVars
  <2> QED
    BY <1>2, <1>3, <2>1, <2>2, StillCalm
<1>5. ASSUME NEW t \in Txn, Rollback(t)
      PROVE  Own' /\ Alone' /\ Pipe'
  <2>1. /\ stage' = [stage EXCEPT ![t] = "aborted"]
        /\ stage \in [Txn -> {"new", "active", "committed", "aborted"}]
        /\ UNCHANGED <<pc, cur, cause, stream, changes, lastCommitLSN, windowStart>>
    BY <1>1, <1>5 DEF Rollback, driverVars, streamVars, captureVars, TrafficInv, TrafficTypeOK
  <2>2. \A x : RowsOf(x)' = RowsOf(x)
    <3>1. stage'[t] # "committed"
      BY <2>1
    <3> QED
      BY <1>1, <1>5, <3>1, RowsOfTxn DEF TrafficInv
  <2>3. Rows(stream)' = Rows(stream)
    BY <2>1 DEF Rows
  <2>4. Own' /\ Pipe'
    BY <2>1, <2>2, <2>3 DEF CalmInv, Own, Pipe, Waiting
  <2>5. \A x \in Txn : stage'[x] \in {"active", "committed"} => stage[x] = stage'[x]
    BY <2>1
  <2>6. Alone'
    <3> SUFFICES ASSUME NEW x \in Txn, NEW u \in Txn,
                        stage'[x] \in {"active", "committed"}, stage'[u] \in {"active", "committed"},
                        cause[x] = cause[u]
                 PROVE  x = u
      BY <2>1 DEF Alone
    <3> QED
      BY <2>5 DEF CalmInv, Alone
  <2> QED
    BY <2>4, <2>6
<1> QED
  BY <1>1, <1>2, <1>4, <1>5, BeginCalm, CommitCalm, OutsideCalm

LEMMA NextCalm ==
    ASSUME Calm, CalmInv, [Next]_vars
    PROVE  CalmInv'
<1>1. IInv'
  BY NextKeeps DEF CalmInv
<1> SUFFICES ~err' /\ Timely' /\ Settled({})' /\ Own' /\ Alone' /\ Pipe'
  BY <1>1 DEF CalmInv
<1>2. CASE Answer
  <2>1. Timely'
    BY <1>2, RespondCalm DEF Answer, Calm, CalmInv, IInv, TypeOK
  <2>2. /\ UNCHANGED <<stage, cause, stream, changes, lastCommitLSN, windowStart, err>>
        /\ UNCHANGED <<cur, writeset, outcome>> /\ (Waiting' <=> Waiting)
    BY <1>2 DEF Answer, Respond, Waiting, streamVars, captureVars
  <2> QED
    BY <2>1, <2>2, StillCalm
<1>3. CASE Poll
  <2>1. /\ pc = "poll" /\ pc' = (IF WindowOver THEN "swap" ELSE "poll")
        /\ UNCHANGED <<cur, elapsed, outcome, writeset>>
        /\ UNCHANGED <<appVars, streamVars, captureVars>>
    BY <1>3 DEF Poll, Goto, CalmInv
  <2>2. WindowOver => stream = <<>>
    BY <2>1, WindowOverCalm
  <2>3. Timely'
    BY <2>1, <2>2, PhaseCalm DEF CalmInv
  <2>4. Waiting' <=> Waiting
    BY <2>1 DEF Waiting
  <2> QED
    BY <2>1, <2>3, <2>4, StillCalm DEF appVars, streamVars, captureVars
<1>4. CASE Stop
  <2>1. /\ pc = "idle" /\ pc' = "stopped"
        /\ UNCHANGED <<cur, elapsed, outcome, writeset>>
        /\ UNCHANGED <<appVars, streamVars, captureVars>>
    BY <1>4 DEF Stop, Goto
  <2>2. Timely'
    BY <2>1, PhaseCalm DEF CalmInv, Timely, Delivered
  <2>3. Waiting' <=> Waiting
    BY <2>1 DEF Waiting
  <2> QED
    BY <2>1, <2>2, <2>3, StillCalm DEF appVars, streamVars, captureVars
<1>5. CASE Tick
  <2>1. Pass(TRUE) /\ UNCHANGED captureVars
    BY <1>5 DEF Tick, Pumping, CalmInv
  <2>2. Timely'
    BY <2>1, PassCalm DEF Calm, CalmInv, IInv, TypeOK
  <2>3. /\ UNCHANGED <<stage, cause, stream, changes, lastCommitLSN, windowStart, err>>
        /\ UNCHANGED <<cur, writeset, outcome>> /\ (Waiting' <=> Waiting)
    BY <2>1 DEF Pass, Waiting, appVars, captureVars
  <2> QED
    BY <2>2, <2>3, StillCalm
<1>6. CASE UNCHANGED vars
  <2>1. /\ UNCHANGED <<stage, cause, stream, changes, lastCommitLSN, windowStart, err>>
        /\ UNCHANGED <<cur, writeset, outcome>> /\ (Waiting' <=> Waiting)
    BY <1>6 DEF vars, trafficVars, captureVars, Waiting
  <2>2. UNCHANGED <<pc, elapsed, serving, lag>>
    BY <1>6 DEF vars, trafficVars
  <2>3. Timely'
    BY <2>1, <2>2 DEF CalmInv, Timely, Orderly, Overdue, Delivered, Active, InFlight
  <2> QED
    BY <2>1, <2>3, StillCalm
<1>7. ~StreamDies
  BY DEF StreamDies, Calm, CalmTraffic
<1> QED
  BY <1>2, <1>3, <1>4, <1>5, <1>6, <1>7, BeginWindowCalm, SwapCalm, PumpCalm, ApplicationCalm
     DEF Next, TakeWindow

\* Steps that the contract does not see.
LEMMA Unseen ==
    ASSUME UNCHANGED <<stage, cause, cur, writeset, outcome>>,
           pc \in {"idle", "stopped"} <=> pc' \in {"idle", "stopped"}
    PROVE  UNCHANGED Contract!vars
<1>1. [r \in Req |-> RowsOf(r)]' = [r \in Req |-> RowsOf(r)]
  BY RowsStay
<1> QED
  BY <1>1 DEF Contract!vars

LEMMA TransactionsKeepTheContract ==
    ASSUME CalmInv, NEW t \in Txn, Begin(t) \/ Commit(t) \/ Rollback(t)
    PROVE  [Contract!Next]_(Contract!vars)
<1>1. \A r : RowsOf(r)' = IF stage'[t] = "committed" /\ cause[t] = r
                          THEN RowsOf(r) \cup {t} ELSE RowsOf(r)
  BY RowsOfTxn DEF CalmInv, IInv, TypeOK
<1>2. UNCHANGED <<pc, cur, outcome, writeset>>
  BY DEF Begin, Commit, Rollback, driverVars
<1>3. CASE stage'[t] # "committed"
  <2>1. [r \in Req |-> RowsOf(r)]' = [r \in Req |-> RowsOf(r)]
    BY <1>1, <1>3
  <2> QED
    BY <1>2, <2>1 DEF Contract!vars
<1>4. CASE stage'[t] = "committed"
  <2>1. stage[t] = "active"
    BY <1>4 DEF Begin, Commit, Rollback, CalmInv, IInv, TypeOK, TrafficTypeOK
  <2>2. cause[t] = cur /\ pc = "http"
    BY <2>1 DEF CalmInv, Timely, Orderly, Active
  <2>3. \A r \in Req : t \notin RowsOf(r)
    BY <2>1 DEF RowsOf, Committed
  <2>4. cur \in Req
    BY <2>2 DEF CalmInv, IInv, TrafficInv, CurOK, Waiting
  <2> DEFINE wrote == [r \in Req |-> RowsOf(r)]
  <2>5. wrote' = [wrote EXCEPT ![cur] = @ \cup {t}]
    BY <1>1, <1>4, <2>2, <2>4
  <2>6. Contract!Write(t)
    BY <1>2, <2>2, <2>3, <2>5 DEF Contract!Write, Req
  <2> QED
    BY <2>6 DEF Contract!Next
<1> QED
  BY <1>3, <1>4

LEMMA StepsKeepTheContract ==
    ASSUME Calm, CalmInv, [Next]_vars
    PROVE  [Contract!Next]_(Contract!vars)
<1>1. CASE BeginWindow
  <2>1. /\ pc = "idle" /\ cur < N /\ pc' = "send" /\ cur' = cur + 1
        /\ UNCHANGED <<outcome, writeset, stage, cause>>
    BY <1>1 DEF BeginWindow, OpenWindow, appVars
  <2>2. [r \in Req |-> RowsOf(r)]' = [r \in Req |-> RowsOf(r)]
    BY <2>1, RowsStay
  <2>3. Contract!BeginWindow
    BY <2>1, <2>2 DEF Contract!BeginWindow
  <2> QED
    BY <2>3 DEF Contract!Next
<1>2. CASE Swap
  <2>1. /\ pc = "swap" /\ pc' = "idle" /\ cur' = cur
        /\ outcome' = [outcome EXCEPT ![cur] = "ok"]
        /\ writeset' = [writeset EXCEPT ![cur] = changes]
        /\ UNCHANGED <<stage, cause>>
    BY <1>2 DEF Swap, ReturnRows, appVars
  <2>2. changes = RowsOf(cur)
    BY <1>2, SwapCalm
  <2>3. cur \in Req
    BY <2>1 DEF CalmInv, IInv, TrafficInv, CurOK, Waiting
  <2>4. [r \in Req |-> RowsOf(r)]' = [r \in Req |-> RowsOf(r)]
    BY <2>1, RowsStay
  <2>5. [r \in Req |-> RowsOf(r)][cur] = RowsOf(cur)
    BY <2>3
  <2>6. Contract!TakeWindow
    BY <2>1, <2>2, <2>4, <2>5 DEF Contract!TakeWindow
  <2> QED
    BY <2>6 DEF Contract!Next
<1>3. CASE Answer \/ Poll \/ Stop \/ Tick \/ Pump \/ UNCHANGED vars
  <2>1. /\ UNCHANGED <<stage, cause, cur, writeset, outcome>>
        /\ pc \in {"idle", "stopped"} <=> pc' \in {"idle", "stopped"}
    <3>1. CASE Answer
      BY <3>1 DEF Answer, Respond
    <3>2. CASE Poll \/ Stop
      BY <3>2 DEF Poll, Stop, Goto, appVars, CalmInv
    <3>3. CASE Tick
      BY <3>3 DEF Tick, Pass, appVars
    <3>4. CASE Pump \/ UNCHANGED vars
      BY <3>4 DEF Pump, Deliver, driverVars, appVars, vars, trafficVars
    <3> QED
      BY <1>3, <3>1, <3>2, <3>3, <3>4
  <2> QED
    BY <2>1, Unseen
<1>4. CASE Application
  <2>1. CASE pc = "send" /\ pc' = "http" /\ UNCHANGED <<stage, cause, streamVars>>
    <3>1. UNCHANGED <<cur, writeset, outcome>>
      BY <1>4, OutsideCalm DEF Application, Calm, CalmInv, IInv
    <3> QED
      BY <2>1, <3>1, Unseen
  <2>2. \/ pc = "send" /\ pc' = "http" /\ UNCHANGED <<stage, cause, streamVars>>
        \/ \E t \in Txn : Begin(t) \/ Commit(t) \/ Rollback(t)
    BY <1>4, OutsideCalm DEF Application, Calm, CalmInv, IInv
  <2> QED
    BY <2>1, <2>2, TransactionsKeepTheContract
<1>5. ~StreamDies
  BY DEF StreamDies, Calm, CalmTraffic
<1> QED
  BY <1>1, <1>2, <1>3, <1>4, <1>5 DEF Next, TakeWindow

LEMMA CalmInitially == ASSUME Init PROVE CalmInv /\ Contract!Init
<1>1. IInv /\ ~err /\ Timely /\ Settled({}) /\ Own
  BY InitKeeps, CalmInit DEF Init, TrafficInit, Own, Waiting
<1>2. Alone
  BY DEF Init, TrafficInit, Alone
<1>3. Pipe
  BY DEF Init, TrafficInit, Pipe, Waiting
<1>4. Contract!Init
  BY DEF Init, TrafficInit, NoReq, Contract!Init, RowsOf, Committed, Req
<1> QED
  BY <1>1, <1>2, <1>3, <1>4 DEF CalmInv

\* For a request that runs one transaction the capture implements the contract
\* of writeset.Source (writeset.go:18), provided that nothing fails, nothing is
\* written after the answer and the stream's delay is shorter than both
\* quiet_ms and timeout_ms -- for every number of requests and transactions.
THEOREM CalmKeepsTheContract == ASSUME Calm PROVE Spec => Contract!Spec
<1>1. Init => CalmInv /\ Contract!Init
  BY CalmInitially
<1>2. CalmInv /\ [Next]_vars => CalmInv'
  BY NextCalm
<1>3. CalmInv /\ [Next]_vars => [Contract!Next]_(Contract!vars)
  BY StepsKeepTheContract
<1> QED
  BY <1>1, <1>2, <1>3, PTL DEF Spec, Contract!Spec

\* "TakeWindow returns the request's write-set" (the comment above it): there a
\* request that got a write-set got all of its rows and no others.
THEOREM CalmIsExact == ASSUME Calm PROVE Spec => []ReturnsTheRequestsWriteset
<1>1. Init => CalmInv
  BY CalmInitially
<1>2. CalmInv /\ [Next]_vars => CalmInv'
  BY NextCalm
<1>3. CalmInv => ReturnsTheRequestsWriteset
  <2> SUFFICES ASSUME CalmInv, NEW r \in Req, outcome[r] = "ok"
               PROVE  writeset[r] = RowsOf(r)
    BY DEF ReturnsTheRequestsWriteset
  <2>1. cur \in Nat /\ r \in Nat
    BY DEF CalmInv, IInv, TypeOK, TrafficTypeOK, Req
  <2>2. Closed(r)
    BY <2>1 DEF CalmInv, IInv, TrafficInv, FreshWindows, Closed
  <2> QED
    BY <2>2 DEF CalmInv, Settled
<1> QED
  BY <1>1, <1>2, <1>3, PTL DEF Spec
=============================================================================
