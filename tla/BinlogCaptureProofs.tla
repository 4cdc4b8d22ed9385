------------------------ MODULE BinlogCaptureProofs ------------------------
(***************************************************************************)
(* Proofs about BinlogCapture, for every set of transactions, every number *)
(* of requests and every timing parameter.                                 *)
(***************************************************************************)
EXTENDS BinlogCapture, TrafficProofs

\* Seen from the driver, the application and the stream, every step is one of
\* theirs.
LEMMA StepsAreTraffic ==
    ASSUME TypeOK, [Next]_vars
    PROVE  TrafficStep
<1> USE DEF TrafficStep, QuietStep, DriverStep, Waiting
<1>1. BeginWindow \/ Answer \/ Application => TrafficStep
  BY DEF BeginWindow, Answer, Application
<1>2. Poll \/ NoActiveTrx \/ ActiveTrx => TrafficStep
  BY DEF Poll, NoActiveTrx, ActiveTrx, CloseOrRetry, Phases
<1>3. Swap \/ Stop => TrafficStep
  BY DEF Swap, Stop, TypeOK
<1>4. Pump \/ StreamDies => TrafficStep
  BY DEF Pump, StreamDies
<1>5. Tick => TrafficStep
  BY DEF Tick, Pumping, TypeOK
<1>6. UNCHANGED vars => TrafficStep
  BY DEF vars
<1> QED
  BY <1>1, <1>2, <1>3, <1>4, <1>5, <1>6 DEF Next, TakeWindow

LEMMA InitTypes == ASSUME Init PROVE TypeOK /\ CurOK
<1>1. TrafficInv
  BY TrafficInitInv DEF Init
<1>2. NoEvent \in -1..Horizon
  BY Ages DEF NoEvent
<1> QED
  BY <1>1, <1>2 DEF Init, TypeOK, TrafficInv

\* Type correctness needs CurOK: outcome and writeset are updated at cur.
LEMMA NextTypes ==
    ASSUME TypeOK, CurOK, [Next]_vars
    PROVE  TypeOK' /\ CurOK'
<1>1. TrafficTypeOK' /\ CurOK'
  BY StepsAreTraffic, TrafficTypes DEF TypeOK
<1>2. /\ changes' \in SUBSET Txn
      /\ lastEvent' \in -1..Horizon
      /\ err' \in BOOLEAN
  <2> USE DEF TypeOK
  <2>1. CASE Pump
    <3>1. Head(stream) \in Message
      BY <2>1 DEF Pump, Deliver, TrafficTypeOK
    <3>2. Normalize(Head(stream)) \in SUBSET Txn
      BY <3>1 DEF Normalize, Message
    <3> QED
      BY <2>1, <3>2, Ages DEF Pump
  <2>2. CASE Tick
    BY <2>2, Ages DEF Tick, NoEvent
  <2>3. CASE BeginWindow \/ StreamDies \/ Swap
    <3>1. NoEvent \in -1..Horizon
      BY Ages DEF NoEvent
    <3> QED
      BY <2>3, <3>1 DEF BeginWindow, StreamDies, Swap
  <2>4. UNCHANGED captureVars =>
            changes' \in SUBSET Txn /\ lastEvent' \in -1..Horizon /\ err' \in BOOLEAN
    BY DEF captureVars
  <2>5. Answer \/ Application \/ Stop \/ Poll \/ NoActiveTrx \/ ActiveTrx \/ UNCHANGED vars
            => UNCHANGED captureVars
    BY DEF Answer, Application, Stop, Poll, NoActiveTrx, ActiveTrx, vars
  <2> QED
    BY <2>1, <2>2, <2>3, <2>4, <2>5 DEF Next, TakeWindow
<1> QED
  BY <1>1, <1>2 DEF TypeOK

\* Type correctness of the whole module: every age stays within the horizon,
\* the driver within the corpus.
THEOREM TypeCorrect == Spec => []TypeOK
<1>1. Init => TypeOK /\ CurOK
  BY InitTypes
<1>2. TypeOK /\ CurOK /\ [Next]_vars => TypeOK' /\ CurOK'
  BY NextTypes
<1> QED
  BY <1>1, <1>2, PTL DEF Spec

----------------------------------------------------------------------------
(* Conservation.  By itself it is not inductive: Swap overwrites            *)
(* writeset[cur], which loses nothing only because it is still empty        *)
(* (FreshWindows); Pump moves the head of the stream, which reports nothing *)
(* twice only because a row is in the stream once (RowsOnce) and only after *)
(* its commit (StreamCommitted).                                            *)

BufferCommitted == changes \subseteq Committed \ SystemTxn

IInv ==
    /\ TypeOK
    /\ TrafficInv
    /\ BufferCommitted
    /\ Conservation
    /\ NeverBlamedEarly

LEMMA InitIInv == ASSUME Init PROVE IInv
<1>1. TypeOK /\ TrafficInv
  BY InitTypes, TrafficInitInv DEF Init
<1>2. Rows(stream) = {} /\ Committed = {}
  BY DEF Init, TrafficInit, Rows, Committed
<1> QED
  BY <1>1, <1>2
     DEF Init, TrafficInit, IInv, BufferCommitted, Conservation, NeverBlamedEarly

\* A step that moves no row.
LEMMA NothingMoves ==
    ASSUME IInv, UNCHANGED <<stream, stage, cause, changes, writeset>>
    PROVE  BufferCommitted' /\ Conservation' /\ NeverBlamedEarly'
  BY DEF IInv, BufferCommitted, Conservation, NeverBlamedEarly, Committed, Rows

\* The buffer becomes the write-set of the open request.
LEMMA SwapKeeps ==
    ASSUME IInv, Swap
    PROVE  BufferCommitted' /\ Conservation' /\ NeverBlamedEarly'
<1> USE DEF Swap, ReturnRows, appVars, streamVars
<1>1. cur \in Req /\ cur \in Nat /\ Waiting
  BY DEF IInv, TrafficInv, CurOK, Waiting, Req, TrafficTypeOK
<1>2. /\ writeset[cur] = {}
      /\ writeset'[cur] = changes
      /\ \A r \in Req \ {cur} : writeset'[r] = writeset[r]
  BY <1>1 DEF IInv, TrafficInv, FreshWindows, TrafficTypeOK
<1>3. Rows(stream)' = Rows(stream) /\ Committed' = Committed /\ changes' = {}
  BY DEF Rows, Committed
<1>4. Conservation'
  <2>1. \A t \in Committed \ SystemTxn :
            t \in Rows(stream) \/ \E r \in Req : t \in writeset'[r]
    BY <1>1, <1>2 DEF IInv, Conservation
  <2>2. \A r \in Req : \A t \in writeset'[r] :
            t \notin Rows(stream) /\ \A q \in Req \ {r} : t \notin writeset'[q]
    BY <1>1, <1>2 DEF IInv, Conservation
  <2> QED
    BY <1>3, <2>1, <2>2 DEF Conservation
<1>5. NeverBlamedEarly'
  <2> SUFFICES ASSUME NEW r \in Req, NEW t \in writeset'[r]
               PROVE  t \in Committed \ SystemTxn /\ cause[t] \in 1..r
    BY <1>3 DEF NeverBlamedEarly
  <2>1. CASE r = cur
    BY <1>2, <2>1 DEF IInv, TrafficInv, BufferCommitted, Committed, Causes
  <2>2. CASE r # cur
    BY <1>2, <2>2 DEF IInv, NeverBlamedEarly
  <2> QED
    BY <2>1, <2>2
<1> QED
  BY <1>3, <1>4, <1>5 DEF BufferCommitted

\* A row leaves the stream and enters the buffer, unless it is skipped.
LEMMA PumpKeeps ==
    ASSUME IInv, Pump
    PROVE  BufferCommitted' /\ Conservation' /\ NeverBlamedEarly'
<1> DEFINE m == Head(stream)
<1>1. TrafficInv /\ Deliver /\ UNCHANGED <<writeset, stage, cause>>
  BY DEF IInv, Pump, Deliver, driverVars, appVars
<1>2. /\ m \in Message
      /\ m.txn \in Committed
      /\ m.kind # "row" => Rows(stream)' = Rows(stream)
      /\ m.kind = "row" => /\ Rows(stream)' = Rows(stream) \ {m.txn}
                           /\ m.txn \in Rows(stream)
  BY <1>1, DeliverKeeps
<1>3. changes' = changes \cup Normalize(m) /\ Committed' = Committed
  BY <1>1 DEF Pump, Committed
<1> HIDE DEF m
<1>4. BufferCommitted' /\ NeverBlamedEarly'
  BY <1>1, <1>2, <1>3 DEF IInv, BufferCommitted, Normalize, NeverBlamedEarly
<1>5. Conservation'
  <2>1. CASE m.kind = "row" /\ m.txn \notin SystemTxn
    <3>1. changes' = changes \cup {m.txn} /\ Rows(stream)' = Rows(stream) \ {m.txn}
      BY <1>2, <1>3, <2>1 DEF Normalize
    <3>2. m.txn \in Rows(stream) /\ \A r \in Req : m.txn \notin writeset[r]
      BY <1>2, <2>1 DEF IInv, Conservation
    <3> QED
      BY <1>1, <1>3, <3>1, <3>2 DEF IInv, Conservation
  <2>2. CASE ~(m.kind = "row" /\ m.txn \notin SystemTxn)
    <3>1. changes' = changes
      BY <1>3, <2>2 DEF Normalize
    <3>2. \/ Rows(stream)' = Rows(stream)
          \/ Rows(stream)' = Rows(stream) \ {m.txn} /\ m.txn \in SystemTxn
      BY <1>2, <2>2
    <3> QED
      BY <1>1, <1>3, <3>1, <3>2 DEF IInv, Conservation
  <2> QED
    BY <2>1, <2>2
<1> QED
  BY <1>4, <1>5

\* The application puts rows into the stream that are nowhere yet.
LEMMA ApplicationKeeps ==
    ASSUME IInv, Application
    PROVE  BufferCommitted' /\ Conservation' /\ NeverBlamedEarly'
<1>1. /\ UNCHANGED <<cur, writeset, changes>>
      /\ Committed \subseteq Committed'
      /\ \A x \in Committed : cause'[x] = cause[x]
      /\ Rows(stream)' = Rows(stream) \cup (Committed' \ Committed)
  BY OutsideKeeps DEF IInv, Application, captureVars
<1>2. /\ changes \subseteq Committed
      /\ \A r \in Req : writeset[r] \subseteq Committed
  BY DEF IInv, BufferCommitted, NeverBlamedEarly
<1>3. BufferCommitted' /\ NeverBlamedEarly'
  BY <1>1 DEF IInv, BufferCommitted, NeverBlamedEarly
<1>4. Conservation'
  BY <1>1, <1>2 DEF IInv, Conservation
<1> QED
  BY <1>3, <1>4

LEMMA NextIInv == ASSUME IInv, [Next]_vars PROVE IInv'
<1>1. TypeOK' /\ TrafficInv'
  BY NextTypes, StepsAreTraffic, TrafficNext DEF IInv, TrafficInv
<1> USE DEF captureVars, appVars, streamVars
<1>2. BeginWindow \/ Answer \/ Stop => UNCHANGED <<stream, stage, cause, changes, writeset>>
  BY DEF BeginWindow, OpenWindow, Answer, Respond, Stop, Goto
<1>3. Poll \/ NoActiveTrx \/ ActiveTrx => UNCHANGED <<stream, stage, cause, changes, writeset>>
  BY DEF Poll, NoActiveTrx, ActiveTrx, CloseOrRetry, Goto, ReturnError
<1>4. StreamDies \/ Tick \/ UNCHANGED vars => UNCHANGED <<stream, stage, cause, changes, writeset>>
  BY DEF StreamDies, Tick, Pass, vars, trafficVars
<1> QED
  BY <1>1, <1>2, <1>3, <1>4, NothingMoves, SwapKeeps, PumpKeeps, ApplicationKeeps
     DEF Next, TakeWindow, IInv

\* No interleaving of the pump, the driver's goroutine, failing requests and a
\* dying stream loses a committed row or reports it for two requests.
THEOREM RowsConserved == Spec => []Conservation
<1>1. Init => IInv
  BY InitIInv
<1>2. IInv /\ [Next]_vars => IInv'
  BY NextIInv
<1>3. IInv => Conservation
  BY DEF IInv
<1> QED
  BY <1>1, <1>2, <1>3, PTL DEF Spec

\* A row is only ever reported for the request that caused it or a later one,
\* and only once its transaction has committed.
THEOREM BlameIsNeverEarly == Spec => []NeverBlamedEarly
<1>1. Init => IInv
  BY InitIInv
<1>2. IInv /\ [Next]_vars => IInv'
  BY NextIInv
<1>3. IInv => NeverBlamedEarly
  BY DEF IInv
<1> QED
  BY <1>1, <1>2, <1>3, PTL DEF Spec

----------------------------------------------------------------------------
(* What is promised from some state on: each promise is kept by an         *)
(* invariant of its own, which that state establishes.                     *)

LEMMA AlwaysIInv == Spec => []IInv
<1>1. Init => IInv
  BY InitIInv
<1>2. IInv /\ [Next]_vars => IInv'
  BY NextIInv
<1> QED
  BY <1>1, <1>2, PTL DEF Spec

\* Request r got past BeginWindow after the stream had died.
Doomed(r) ==
    /\ err
    /\ outcome[r] # "ok"
    /\ cur >= r
    /\ cur = r => pc \in {"send", "http", "poll", "idle", "stopped"}

LEMMA DoomedKeeps ==
    ASSUME IInv, NEW r \in Req, Doomed(r), [Next]_vars
    PROVE  Doomed(r)'
<1> USE DEF Doomed, captureVars
<1>0. /\ cur \in Nat /\ r \in Nat
      /\ outcome \in [Req -> {"none", "ok", "error"}]
  BY DEF IInv, TypeOK, TrafficTypeOK, Req
<1>1. CASE BeginWindow
  BY <1>0, <1>1 DEF BeginWindow, OpenWindow
<1>2. CASE Answer
  BY <1>2 DEF Answer, Respond
<1>3. CASE Poll
  BY <1>0, <1>3 DEF Poll, ReturnError
<1>4. CASE NoActiveTrx \/ ActiveTrx \/ Swap
  <2>1. cur # r
    BY <1>4 DEF NoActiveTrx, ActiveTrx, Swap
  <2>2. CASE NoActiveTrx \/ ActiveTrx
    BY <2>1, <2>2 DEF NoActiveTrx, ActiveTrx, CloseOrRetry, Goto
  <2>3. CASE Swap
    BY <1>0, <2>1, <2>3 DEF Swap, ReturnRows
  <2> QED
    BY <1>4, <2>2, <2>3
<1>5. CASE Stop
  BY <1>5 DEF Stop, Goto
<1>6. CASE Pump \/ StreamDies
  BY <1>6 DEF Pump, StreamDies, Pumping
<1>7. CASE Application
  <2>1. CASE SendFails \/ GiveUp
    BY <1>0, <1>7, <2>1 DEF Application, SendFails, GiveUp, ReturnError
  <2>2. CASE Send \/ \E t \in Txn : Begin(t) \/ Commit(t) \/ Rollback(t)
    BY <1>7, <2>2 DEF Application, Send, Goto, Begin, Commit, Rollback, driverVars
  <2> QED
    BY <1>7, <2>1, <2>2 DEF Application, Outside
<1>8. CASE Tick \/ UNCHANGED vars
  BY <1>8 DEF Tick, Pass, vars, trafficVars
<1> QED
  BY <1>1, <1>2, <1>3, <1>4, <1>5, <1>6, <1>7, <1>8 DEF Next, TakeWindow

\* A request whose window opened on a dead stream is never given a write-set,
\* empty or not.
THEOREM DeadStreamIsReported == Spec => DeadStreamNeverVouches
<1>1. ASSUME NEW r \in Req
      PROVE  Spec => [](err /\ cur = r /\ pc \in {"send", "http"} => [](outcome[r] # "ok"))
  <2>1. IInv /\ err /\ cur = r /\ pc \in {"send", "http"} => Doomed(r)
    BY DEF IInv, TrafficInv, FreshWindows, Waiting, Doomed, Req
  <2>2. IInv /\ Doomed(r) /\ [Next]_vars => Doomed(r)'
    BY DoomedKeeps
  <2>3. Doomed(r) => outcome[r] # "ok"
    BY DEF Doomed
  <2> QED
    BY <2>1, <2>2, <2>3, AlwaysIInv, PTL DEF Spec
<1> QED
  BY <1>1 DEF DeadStreamNeverVouches

\* Row t was in the buffer before request r opened its window: it waits there
\* until the window is closed.
Waits(r, t) ==
    \/ t \in changes /\ cur = r - 1 /\ pc = "idle" /\ outcome[r] # "ok"
    \/ t \in changes /\ cur = r /\ Waiting /\ outcome[r] # "ok"
    \/ /\ cur >= r
       /\ cur = r => ~Waiting
       /\ outcome[r] = "ok" => t \in writeset[r]

LEMMA WaitsKeeps ==
    ASSUME IInv, NEW r \in Req, NEW t \in Txn, Waits(r, t), [Next]_vars
    PROVE  Waits(r, t)'
<1> USE DEF captureVars
<1>0. /\ cur \in Nat /\ r \in Nat /\ r <= N /\ N \in Nat
      /\ outcome \in [Req -> {"none", "ok", "error"}]
      /\ writeset \in [Req -> SUBSET Txn]
  BY TrafficAssumption DEF IInv, TypeOK, TrafficTypeOK, Req
<1>1. CASE BeginWindow
  BY <1>0, <1>1 DEF Waits, BeginWindow, OpenWindow, Waiting
<1>2. ASSUME UNCHANGED <<cur, outcome, writeset>>, changes \subseteq changes',
             \/ pc' = pc
             \/ Waiting /\ Waiting'
             \/ pc = "idle" /\ cur = N /\ ~Waiting'
      PROVE  Waits(r, t)'
  BY <1>0, <1>2 DEF Waits, Waiting
<1>3. ASSUME Waiting, ReturnError, UNCHANGED changes
      PROVE  Waits(r, t)'
  BY <1>0, <1>3 DEF Waits, ReturnError, Waiting
<1>4. CASE Swap
  BY <1>0, <1>4 DEF Waits, Swap, ReturnRows, Waiting
<1>5. CASE Poll \/ NoActiveTrx \/ ActiveTrx \/ Answer
  BY <1>2, <1>3, <1>5
     DEF Poll, NoActiveTrx, ActiveTrx, CloseOrRetry, Goto, Answer, Respond, Waiting
<1>6. CASE Stop \/ Pump \/ StreamDies \/ Tick \/ UNCHANGED vars
  BY <1>2, <1>6
     DEF Stop, Goto, Waiting, Pump, Deliver, driverVars, StreamDies, Tick, Pass, vars, trafficVars
<1>7. CASE Application
  <2>1. CASE SendFails \/ GiveUp
    BY <1>3, <1>7, <2>1 DEF Application, SendFails, GiveUp, Waiting
  <2>2. CASE Send \/ \E u \in Txn : Begin(u) \/ Commit(u) \/ Rollback(u)
    BY <1>2, <1>7, <2>2 DEF Application, Send, Goto, Begin, Commit, Rollback, driverVars, Waiting
  <2> QED
    BY <1>7, <2>1, <2>2 DEF Application, Outside
<1> QED
  BY <1>1, <1>4, <1>5, <1>6, <1>7 DEF Next, TakeWindow

\* What the buffer holds when a window opens is in that request's write-set, if
\* it gets one: BeginWindow's warning says where the row went.
THEOREM LeftoversAreNotLost == Spec => LeftoversGoNext
<1>1. ASSUME NEW r \in Req, NEW t \in Txn \ SystemTxn
      PROVE  Spec => [](t \in changes /\ pc = "idle" /\ cur = r - 1
                           => [](outcome[r] = "ok" => t \in writeset[r]))
  <2>1. IInv /\ t \in changes /\ pc = "idle" /\ cur = r - 1 => Waits(r, t)
    BY DEF IInv, TrafficInv, FreshWindows, TrafficTypeOK, Waits, Req
  <2>2. IInv /\ Waits(r, t) /\ [Next]_vars => Waits(r, t)'
    BY WaitsKeeps
  <2>3. Waits(r, t) => (outcome[r] = "ok" => t \in writeset[r])
    BY DEF Waits
  <2> QED
    BY <2>1, <2>2, <2>3, AlwaysIInv, PTL DEF Spec
<1> QED
  BY <1>1 DEF LeftoversGoNext

----------------------------------------------------------------------------
(* The contract of writeset.Source.  In the calm environment everything a   *)
(* request wrote has left the stream when its window closes: the quiet      *)
(* period is counted from the last row, which may be older than the answer  *)
(* by as much as the HTTP call took, and exceeds that and the stream's      *)
(* delay together.                                                          *)

Calm == CalmTraffic /\ MaxLag + HttpTimeout < Quiet /\ MaxLag <= Timeout

\* The rows of the request in progress are in the stream or in the buffer.
Own ==
    IF Waiting THEN changes \cup (Rows(stream) \ SystemTxn) = RowsOf(cur) \ SystemTxn
    ELSE changes = {}

\* c.lastEvent lies within the open window.
Recent ==
    /\ pc = "send" => lastEvent = NoEvent
    /\ pc = "http" => lastEvent <= elapsed /\ lastEvent <= HttpTimeout
    /\ pc \in {"poll", "trx"} => lastEvent <= elapsed + HttpTimeout

CalmInv == IInv /\ ~err /\ Timely /\ Settled(SystemTxn) /\ Own /\ Recent

LEMMA NoRows == stream = <<>> => Rows(stream) = {}
  BY DEF Rows

LEMMA RowsStay ==
    ASSUME UNCHANGED <<stage, cause>>
    PROVE  \A r : RowsOf(r)' = RowsOf(r)
  BY DEF RowsOf, Committed

\* The numbers that Recent compares.
LEMMA Clocks ==
    TypeOK => /\ elapsed \in Nat /\ elapsed <= Horizon
              /\ lastEvent \in Int /\ lastEvent <= Horizon /\ lastEvent >= -1
              /\ HttpTimeout \in Nat /\ MaxLag \in Nat /\ Quiet \in Nat /\ Timeout \in Nat
              /\ Horizon = Quiet + Timeout + HttpTimeout + 1
<1> SUFFICES ASSUME TypeOK
             PROVE  /\ elapsed \in 0..Horizon /\ lastEvent \in -1..Horizon
                    /\ HttpTimeout \in Nat /\ MaxLag \in Nat /\ Quiet \in Nat /\ Timeout \in Nat
                    /\ Horizon = Quiet + Timeout + HttpTimeout + 1
  BY Ages
<1> QED
  BY TrafficAssumption DEF TypeOK, TrafficTypeOK, Horizon

\* Steps that move no row.
LEMMA StillCalm ==
    ASSUME CalmInv, UNCHANGED <<stage, cause, stream, changes, err>>,
           UNCHANGED <<cur, writeset, outcome>>, Waiting' <=> Waiting, Timely'
    PROVE  ~err' /\ Timely' /\ Settled(SystemTxn)' /\ Own'
<1>1. \A r : RowsOf(r)' = RowsOf(r)
  BY RowsStay
<1>2. Rows(stream)' = Rows(stream)
  BY DEF Rows
<1>3. Settled(SystemTxn)'
  BY SettledStays DEF CalmInv, Closed
<1>4. Own'
  BY <1>1, <1>2 DEF CalmInv, Own
<1> QED
  BY <1>3, <1>4 DEF CalmInv

\* The loop of TakeWindow is left only with nothing in the stream.
LEMMA WindowOverCalm ==
    ASSUME Calm, CalmInv, pc = "poll", QuietEnough \/ elapsed > Timeout
    PROVE  stream = <<>>
<1>1. TypeOK /\ TrafficTypeOK /\ Overdue /\ Recent
  BY DEF CalmInv, IInv, TypeOK, Timely
<1>2. lastEvent <= elapsed + HttpTimeout
  BY <1>1 DEF Recent
<1>3. elapsed > MaxLag
  BY <1>1, <1>2, Clocks DEF Calm, QuietEnough, SinceLast
<1> QED
  BY <1>1, <1>3, LagOver

LEMMA BeginWindowCalm ==
    ASSUME CalmInv, BeginWindow
    PROVE  ~err' /\ Timely' /\ Settled(SystemTxn)' /\ Own' /\ Recent'
<1>1. /\ pc = "idle" /\ pc' = "send" /\ cur' = cur + 1 /\ lastEvent' = NoEvent
      /\ UNCHANGED <<outcome, writeset, stage, cause, serving, stream, lag, changes, err>>
  BY DEF BeginWindow, OpenWindow, appVars, streamVars
<1>2. cur \in Nat /\ Req \subseteq Nat
  BY DEF CalmInv, IInv, TypeOK, TrafficTypeOK, Req
<1>3. stream = <<>> /\ changes = {}
  BY <1>1 DEF CalmInv, Timely, Delivered, Own, Waiting
<1>4. Timely'
  BY <1>1, <1>3, PhaseCalm DEF CalmInv, appVars, streamVars
<1>5. Settled(SystemTxn)'
  <2>1. \A r \in Req : Closed(r)' => Closed(r)
    BY <1>1, <1>2 DEF Closed, Waiting
  <2> QED
    BY <1>1, <2>1, SettledStays DEF CalmInv
<1>6. RowsOf(cur + 1) = {}
  <2>1. \A t \in Committed : cause[t] \in 1..cur
    BY DEF CalmInv, IInv, TrafficInv, Causes, Committed
  <2> QED
    BY <1>2, <2>1 DEF RowsOf
<1>7. RowsOf(cur)' = RowsOf(cur + 1)
  BY <1>1 DEF RowsOf, Committed
<1>8. Own'
  BY <1>1, <1>3, <1>6, <1>7 DEF Own, Waiting, Rows
<1>9. Recent'
  BY <1>1 DEF Recent
<1> QED
  BY <1>1, <1>4, <1>5, <1>8, <1>9 DEF CalmInv

LEMMA SwapCalm ==
    ASSUME CalmInv, Swap
    PROVE  /\ ~err' /\ Timely' /\ Settled(SystemTxn)' /\ Own' /\ Recent'
           /\ changes = RowsOf(cur) \ SystemTxn
<1>1. /\ pc = "swap" /\ pc' = "idle" /\ changes' = {} /\ cur' = cur
      /\ outcome' = [outcome EXCEPT ![cur] = "ok"]
      /\ writeset' = [writeset EXCEPT ![cur] = changes]
      /\ UNCHANGED <<stage, cause, serving, stream, lag, err>>
  BY DEF Swap, ReturnRows, appVars, streamVars
<1>2. /\ cur \in Req /\ Req \subseteq Nat
      /\ writeset \in [Req -> SUBSET Txn]
      /\ outcome \in [Req -> {"none", "ok", "error"}]
  BY <1>1 DEF CalmInv, IInv, TrafficInv, CurOK, Waiting, TrafficTypeOK, Req
<1>3. stream = <<>>
  BY <1>1 DEF CalmInv, Timely, Delivered
<1>4. Timely'
  BY <1>1, <1>3, PhaseCalm DEF CalmInv, appVars, streamVars
<1>5. changes = RowsOf(cur) \ SystemTxn
  BY <1>1, <1>3, NoRows DEF CalmInv, Own, Waiting
<1>6. \A r : RowsOf(r)' = RowsOf(r)
  BY <1>1, RowsStay
<1>7. Settled(SystemTxn)'
  <2> SUFFICES ASSUME NEW r \in Req, Closed(r)'
               PROVE  writeset'[r] = RowsOf(r) \ SystemTxn /\ outcome'[r] = "ok"
    BY <1>6 DEF Settled
  <2>1. CASE r = cur
    BY <1>1, <1>2, <1>5, <2>1
  <2>2. CASE r # cur
    <3>1. Closed(r)
      BY <1>1, <2>2 DEF Closed
    <3>2. writeset'[r] = writeset[r] /\ outcome'[r] = outcome[r]
      BY <1>1, <1>2, <2>2
    <3> QED
      BY <3>1, <3>2 DEF CalmInv, Settled
  <2> QED
    BY <2>1, <2>2
<1>8. Own' /\ Recent'
  BY <1>1 DEF Own, Recent, Waiting
<1> QED
  BY <1>1, <1>4, <1>5, <1>7, <1>8 DEF CalmInv

\* A message read: a row of the request in progress, one of a system schema,
\* or none.
LEMMA PumpCalm ==
    ASSUME CalmInv, Pump
    PROVE  ~err' /\ Timely' /\ Settled(SystemTxn)' /\ Own' /\ Recent'
<1> DEFINE m == Head(stream)
<1>1. /\ Deliver /\ stream # <<>>
      /\ UNCHANGED <<pc, cur, elapsed, outcome, writeset, stage, cause, err>>
      /\ changes' = changes \cup Normalize(m)
      /\ lastEvent' \in {0, lastEvent}
  BY DEF Pump, Deliver, driverVars, appVars
<1>2. /\ m.kind # "row" => Rows(stream)' = Rows(stream)
      /\ m.kind = "row" => /\ Rows(stream)' = Rows(stream) \ {m.txn}
                           /\ m.txn \in Rows(stream)
  BY <1>1, DeliverKeeps DEF CalmInv, IInv
<1> HIDE DEF m
<1>3. \A r : RowsOf(r)' = RowsOf(r)
  BY <1>1, RowsStay
<1>4. Timely'
  BY <1>1, DeliverCalm DEF CalmInv, IInv, TypeOK
<1>5. Settled(SystemTxn)'
  BY <1>1, SettledStays DEF CalmInv, Closed, Waiting
<1>6. pc \in {"http", "poll"} /\ Waiting /\ Waiting'
  BY <1>1 DEF CalmInv, Timely, Delivered, Waiting
<1>7. Own'
  <2>1. changes \cup (Rows(stream) \ SystemTxn) = RowsOf(cur) \ SystemTxn
    BY <1>6 DEF CalmInv, Own
  <2>2. changes' \cup (Rows(stream)' \ SystemTxn) = changes \cup (Rows(stream) \ SystemTxn)
    BY <1>1, <1>2 DEF Normalize
  <2> QED
    BY <1>1, <1>3, <1>6, <2>1, <2>2 DEF Own
<1>8. Recent'
  BY <1>1, <1>6, Clocks DEF CalmInv, IInv, Recent
<1> QED
  BY <1>1, <1>4, <1>5, <1>7, <1>8 DEF CalmInv

LEMMA TransactionCalm ==
    ASSUME CalmInv, NEW t \in Txn, Begin(t) \/ Commit(t) \/ Rollback(t), UNCHANGED captureVars
    PROVE  Own' /\ Recent'
<1>1. /\ UNCHANGED <<pc, cur, elapsed, changes, lastEvent>>
      /\ TrafficTypeOK
  BY DEF Begin, Commit, Rollback, driverVars, captureVars, CalmInv, IInv, TypeOK
<1>2. \A r : RowsOf(r)' = IF stage'[t] = "committed" /\ cause[t] = r
                          THEN RowsOf(r) \cup {t} ELSE RowsOf(r)
  BY <1>1, RowsOfTxn
<1>3. Rows(stream)' = IF stage'[t] = "committed" THEN Rows(stream) \cup {t} ELSE Rows(stream)
  <2>1. CASE Begin(t) \/ Rollback(t)
    <3>1. stage'[t] # "committed" /\ UNCHANGED stream
      BY <1>1, <2>1 DEF Begin, Rollback, streamVars, TrafficTypeOK
    <3> QED
      BY <3>1 DEF Rows
  <2>2. CASE Commit(t)
    <3>1. Rows(stream)' = Rows(stream) \cup (Committed' \ Committed)
      BY <2>2, OutsideKeeps DEF Outside, CalmInv, IInv
    <3>2. stage'[t] = "committed" /\ Committed' \ Committed = {t}
      BY <1>1, <2>2 DEF Commit, Committed, TrafficTypeOK
    <3> QED
      BY <3>1, <3>2
  <2> QED
    BY <2>1, <2>2
<1>4. stage'[t] = "committed" => cause[t] = cur /\ Waiting
  BY <1>1 DEF Begin, Commit, Rollback, CalmInv, Timely, Orderly, Active, Waiting, TrafficTypeOK
<1>5. Own'
  BY <1>1, <1>2, <1>3, <1>4 DEF CalmInv, Own, Waiting
<1>6. Recent'
  BY <1>1 DEF CalmInv, Recent
<1> QED
  BY <1>5, <1>6

LEMMA ApplicationCalm ==
    ASSUME Calm, CalmInv, Application
    PROVE  ~err' /\ Timely' /\ Settled(SystemTxn)' /\ Own' /\ Recent'
<1>1. CalmTraffic /\ TrafficInv /\ Timely /\ Settled(SystemTxn) /\ Outside /\ UNCHANGED captureVars
  BY DEF Calm, CalmInv, IInv, Application
<1>2. ~err' /\ Timely' /\ Settled(SystemTxn)'
  BY <1>1, OutsideCalm, OutsideSettled DEF CalmInv, captureVars
<1>3. UNCHANGED <<cur, elapsed, writeset, outcome>>
  BY <1>1, OutsideCalm
<1>4. CASE pc = "send" /\ pc' = "http" /\ UNCHANGED <<stage, cause, streamVars>>
  <2>1. Waiting' <=> Waiting
    BY <1>4 DEF Waiting
  <2>2. UNCHANGED <<stage, cause, stream, changes, lastEvent, err>>
    BY <1>1, <1>4 DEF streamVars, captureVars
  <2>3. lastEvent = NoEvent
    BY <1>4 DEF CalmInv, Recent
  <2>4. Recent'
    BY <1>3, <1>4, <2>2, <2>3, Clocks DEF CalmInv, IInv, Recent, NoEvent
  <2> QED
    BY <1>2, <1>3, <2>1, <2>2, <2>4, StillCalm
<1> QED
  BY <1>1, <1>2, <1>4, TransactionCalm, OutsideCalm

LEMMA TickCalm ==
    ASSUME Calm, CalmInv, Tick
    PROVE  ~err' /\ Timely' /\ Settled(SystemTxn)' /\ Own' /\ Recent'
<1>1. Pass(TRUE)
  BY DEF Tick, Pumping, CalmInv
<1>2. Timely'
  BY <1>1, PassCalm DEF Calm, CalmInv, IInv, TypeOK
<1>3. /\ UNCHANGED <<stage, cause, stream, changes, err>>
      /\ UNCHANGED <<pc, cur, writeset, outcome>> /\ (Waiting' <=> Waiting)
  BY <1>1 DEF Tick, Pass, Waiting, appVars
<1>4. /\ pc = "http" => elapsed < HttpTimeout
      /\ elapsed' = Older(elapsed)
      /\ lastEvent' = IF lastEvent = NoEvent THEN NoEvent ELSE Older(lastEvent)
  BY <1>1 DEF Pass, Tick
<1>5. Recent'
  <2>1. Recent /\ TypeOK
    BY DEF CalmInv, IInv
  <2>2. pc = "send" => Recent'
    BY <1>3, <1>4, <2>1 DEF Recent
  <2>3. pc = "http" => Recent'
    <3>1. pc = "http" => lastEvent' <= elapsed' /\ lastEvent' <= HttpTimeout
      BY <1>4, <2>1, Clocks DEF Recent, Older, NoEvent
    <3> QED
      BY <1>3, <3>1 DEF Recent
  <2>4. pc \in {"poll", "trx"} => Recent'
    <3>1. pc \in {"poll", "trx"} => lastEvent' <= elapsed' + HttpTimeout
      BY <1>4, <2>1, Clocks DEF Recent, Older, NoEvent
    <3> QED
      BY <1>3, <3>1 DEF Recent
  <2> QED
    BY <1>3, <2>2, <2>3, <2>4 DEF Recent
<1> QED
  BY <1>2, <1>3, <1>5, StillCalm

LEMMA NextCalm ==
    ASSUME Calm, CalmInv, [Next]_vars
    PROVE  CalmInv'
<1>1. IInv'
  BY NextIInv DEF CalmInv
<1> SUFFICES ~err' /\ Timely' /\ Settled(SystemTxn)' /\ Own' /\ Recent'
  BY <1>1 DEF CalmInv
<1>2. CASE Answer
  <2>1. Timely'
    BY <1>2, RespondCalm DEF Answer, Calm, CalmInv, IInv, TypeOK
  <2>2. /\ pc = "http" /\ pc' = "poll" /\ elapsed' = 0
        /\ UNCHANGED <<stage, cause, stream, changes, lastEvent, err>>
        /\ UNCHANGED <<cur, writeset, outcome>> /\ (Waiting' <=> Waiting)
    BY <1>2 DEF Answer, Respond, Waiting, streamVars, captureVars
  <2>3. Recent'
    BY <2>2, Clocks DEF CalmInv, IInv, Recent
  <2> QED
    BY <2>1, <2>2, <2>3, StillCalm
<1>3. CASE Poll
  <2>1. /\ pc = "poll" /\ pc' \in {"poll", "trx", "swap"}
        /\ UNCHANGED <<cur, elapsed, outcome, writeset>>
        /\ UNCHANGED <<appVars, streamVars, captureVars>>
        /\ pc' # "poll" => QuietEnough \/ elapsed > Timeout
    BY <1>3 DEF Poll, CloseOrRetry, Goto, CalmInv
  <2>2. pc' # "poll" => stream = <<>>
    BY <2>1, WindowOverCalm
  <2>3. Timely'
    BY <2>1, <2>2, PhaseCalm DEF CalmInv
  <2>4. (Waiting' <=> Waiting) /\ Recent'
    BY <2>1 DEF Waiting, CalmInv, Recent, captureVars
  <2> QED
    BY <2>1, <2>3, <2>4, StillCalm DEF appVars, streamVars, captureVars
<1>4. CASE NoActiveTrx \/ Stop
  <2>1. /\ \/ pc = "trx" /\ pc' = "swap"
           \/ pc = "idle" /\ pc' = "stopped"
        /\ UNCHANGED <<cur, elapsed, outcome, writeset>>
        /\ UNCHANGED <<appVars, streamVars, captureVars>>
    BY <1>4 DEF NoActiveTrx, Stop, Goto
  <2>2. Timely'
    BY <2>1, PhaseCalm DEF CalmInv, Timely, Delivered
  <2>3. (Waiting' <=> Waiting) /\ Recent'
    BY <2>1 DEF Waiting, Recent
  <2> QED
    BY <2>1, <2>2, <2>3, StillCalm DEF appVars, streamVars, captureVars
<1>5. CASE UNCHANGED vars
  <2>1. /\ UNCHANGED <<stage, cause, stream, changes, lastEvent, err>>
        /\ UNCHANGED <<cur, writeset, outcome>> /\ (Waiting' <=> Waiting)
    BY <1>5 DEF vars, trafficVars, captureVars, Waiting
  <2>2. UNCHANGED <<pc, elapsed, serving, lag>>
    BY <1>5 DEF vars, trafficVars
  <2>3. Timely'
    BY <2>1, <2>2 DEF CalmInv, Timely, Orderly, Overdue, Delivered, Active, InFlight
  <2>4. Recent'
    BY <2>1, <2>2 DEF CalmInv, Recent
  <2> QED
    BY <2>1, <2>3, <2>4, StillCalm
<1>6. ~StreamDies /\ ~ActiveTrx
  BY DEF StreamDies, ActiveTrx, Calm, CalmTraffic, CalmInv, Timely, Orderly
<1> QED
  BY <1>2, <1>3, <1>4, <1>5, <1>6, BeginWindowCalm, SwapCalm, PumpCalm, ApplicationCalm, TickCalm
     DEF Next, TakeWindow

\* The rows a request wrote, as the contract counts them.
Wrote == [r \in Req |-> RowsOf(r) \ SystemTxn]

LEMMA WroteStays ==
    ASSUME UNCHANGED <<stage, cause>>
    PROVE  Wrote' = Wrote
  BY RowsStay DEF Wrote

\* Steps that the contract does not see.
LEMMA Unseen ==
    ASSUME UNCHANGED <<stage, cause, cur, writeset, outcome>>,
           pc \in {"idle", "stopped"} <=> pc' \in {"idle", "stopped"}
    PROVE  UNCHANGED Contract!vars
<1>1. Wrote' = Wrote
  BY WroteStays
<1> QED
  BY <1>1 DEF Contract!vars, Wrote

LEMMA TransactionsKeepTheContract ==
    ASSUME CalmInv, NEW t \in Txn, Begin(t) \/ Commit(t) \/ Rollback(t)
    PROVE  [Contract!Next]_(Contract!vars)
<1>1. \A r : RowsOf(r)' = IF stage'[t] = "committed" /\ cause[t] = r
                          THEN RowsOf(r) \cup {t} ELSE RowsOf(r)
  BY RowsOfTxn DEF CalmInv, IInv, TypeOK
<1>2. UNCHANGED <<pc, cur, outcome, writeset>>
  BY DEF Begin, Commit, Rollback, driverVars
<1>3. CASE stage'[t] # "committed" \/ t \in SystemTxn
  <2>1. Wrote' = Wrote
    BY <1>1, <1>3 DEF Wrote
  <2> QED
    BY <1>2, <2>1 DEF Contract!vars, Wrote
<1>4. CASE stage'[t] = "committed" /\ t \notin SystemTxn
  <2>1. stage[t] = "active"
    BY <1>4 DEF Begin, Commit, Rollback, CalmInv, IInv, TypeOK, TrafficTypeOK
  <2>2. cause[t] = cur /\ pc = "http"
    BY <2>1 DEF CalmInv, Timely, Orderly, Active
  <2>3. \A r \in Req : t \notin Wrote[r]
    BY <2>1 DEF Wrote, RowsOf, Committed
  <2>4. cur \in Req
    BY <2>2 DEF CalmInv, IInv, TrafficInv, CurOK, Waiting
  <2>5. Wrote' = [Wrote EXCEPT ![cur] = @ \cup {t}]
    BY <1>1, <1>4, <2>2, <2>4 DEF Wrote
  <2>6. Contract!Write(t)
    BY <1>2, <2>2, <2>3, <2>5 DEF Contract!Write, Req, Wrote
  <2> QED
    BY <2>6 DEF Contract!Next
<1> QED
  BY <1>3, <1>4

LEMMA StepsKeepTheContract ==
    ASSUME Calm, CalmInv, [Next]_vars
    PROVE  [Contract!Next]_(Contract!vars)
<1>1. CASE BeginWindow
  <2>1. /\ pc = "idle" /\ cur < N /\ pc' = "send" /\ cur' = cur + 1
        /\ UNCHANGED <<outcome, writeset, stage, cause>>
    BY <1>1 DEF BeginWindow, OpenWindow, appVars
  <2>2. Wrote' = Wrote
    BY <2>1, WroteStays
  <2>3. Contract!BeginWindow
    BY <2>1, <2>2 DEF Contract!BeginWindow, Wrote
  <2> QED
    BY <2>3 DEF Contract!Next
<1>2. CASE Swap
  <2>1. /\ pc = "swap" /\ pc' = "idle" /\ cur' = cur
        /\ outcome' = [outcome EXCEPT ![cur] = "ok"]
        /\ writeset' = [writeset EXCEPT ![cur] = changes]
        /\ UNCHANGED <<stage, cause>>
    BY <1>2 DEF Swap, ReturnRows, appVars
  <2>2. cur \in Req
    BY <2>1 DEF CalmInv, IInv, TrafficInv, CurOK, Waiting
  <2>3. changes = Wrote[cur]
    BY <1>2, <2>2, SwapCalm DEF Wrote
  <2>4. Wrote' = Wrote
    BY <2>1, WroteStays
  <2>5. Contract!TakeWindow
    BY <2>1, <2>3, <2>4 DEF Contract!TakeWindow, Wrote
  <2> QED
    BY <2>5 DEF Contract!Next
<1>3. CASE Answer \/ Poll \/ NoActiveTrx \/ Stop \/ Tick \/ Pump \/ UNCHANGED vars
  <2>1. /\ UNCHANGED <<stage, cause, cur, writeset, outcome>>
        /\ pc \in {"idle", "stopped"} <=> pc' \in {"idle", "stopped"}
    <3>1. CASE Answer
      BY <3>1 DEF Answer, Respond
    <3>2. CASE Poll \/ NoActiveTrx \/ Stop
      BY <3>2 DEF Poll, CloseOrRetry, NoActiveTrx, Stop, Goto, appVars, CalmInv
    <3>3. CASE Tick
      BY <3>3 DEF Tick, Pass, appVars
    <3>4. CASE Pump \/ UNCHANGED vars
      BY <3>4 DEF Pump, Deliver, driverVars, appVars, vars, trafficVars
    <3> QED
      BY <1>3, <3>1, <3>2, <3>3, <3>4
  <2> QED
    BY <2>1, Unseen
<1>4. CASE Application
  <2>1. CASE pc = "send" /\ pc' = "http" /\ UNCHANGED <<stage, cause, streamVars>>
    <3>1. UNCHANGED <<cur, writeset, outcome>>
      BY <1>4, OutsideCalm DEF Application, Calm, CalmInv, IInv
    <3> QED
      BY <2>1, <3>1, Unseen
  <2>2. \/ pc = "send" /\ pc' = "http" /\ UNCHANGED <<stage, cause, streamVars>>
        \/ \E t \in Txn : Begin(t) \/ Commit(t) \/ Rollback(t)
    BY <1>4, OutsideCalm DEF Application, Calm, CalmInv, IInv
  <2> QED
    BY <2>1, <2>2, TransactionsKeepTheContract
<1>5. ~StreamDies /\ ~ActiveTrx
  BY DEF StreamDies, ActiveTrx, Calm, CalmTraffic, CalmInv, Timely, Orderly
<1> QED
  BY <1>1, <1>2, <1>3, <1>4, <1>5 DEF Next, TakeWindow

LEMMA CalmInitially == ASSUME Init PROVE CalmInv /\ Contract!Init
<1>1. IInv /\ ~err /\ Timely /\ Settled(SystemTxn) /\ Own /\ Recent
  BY InitIInv, CalmInit DEF Init, TrafficInit, Own, Waiting, Recent
<1>2. Contract!Init
  BY DEF Init, TrafficInit, NoReq, Contract!Init, RowsOf, Committed, Req
<1> QED
  BY <1>1, <1>2 DEF CalmInv

\* The capture implements the contract of writeset.Source (writeset.go:18),
\* system schemas left out, provided that nothing fails, nothing is written
\* after the answer and the stream's delay is bounded: by timeout_ms, and
\* together with the time an HTTP call may take by quiet_ms -- for every number
\* of requests, and of transactions per request.
THEOREM CalmKeepsTheContract == ASSUME Calm PROVE Spec => Contract!Spec
<1>1. Init => CalmInv /\ Contract!Init
  BY CalmInitially
<1>2. CalmInv /\ [Next]_vars => CalmInv'
  BY NextCalm
<1>3. CalmInv /\ [Next]_vars => [Contract!Next]_(Contract!vars)
  BY StepsKeepTheContract
<1> QED
  BY <1>1, <1>2, <1>3, PTL DEF Spec, Contract!Spec

\* README.md:156: there a request that got a write-set got exactly its own rows.
THEOREM CalmIsExact == ASSUME Calm PROVE Spec => []ExactAttribution
<1>1. Init => CalmInv
  BY CalmInitially
<1>2. CalmInv /\ [Next]_vars => CalmInv'
  BY NextCalm
<1>3. CalmInv => ExactAttribution
  <2> SUFFICES ASSUME CalmInv, NEW r \in Req, outcome[r] = "ok"
               PROVE  writeset[r] = RowsOf(r) \ SystemTxn
    BY DEF ExactAttribution
  <2>1. cur \in Nat /\ r \in Nat
    BY DEF CalmInv, IInv, TypeOK, TrafficTypeOK, Req
  <2>2. Closed(r)
    BY <2>1 DEF CalmInv, IInv, TrafficInv, FreshWindows, Closed
  <2> QED
    BY <2>2 DEF CalmInv, Settled
<1> QED
  BY <1>1, <1>2, <1>3, PTL DEF Spec
=============================================================================
