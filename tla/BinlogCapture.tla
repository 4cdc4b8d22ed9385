--------------------------- MODULE BinlogCapture ---------------------------
(***************************************************************************)
(* The MySQL write-set source (internal/binlog/capture.go) under the       *)
(* driver of ReplayTraffic.  The pump goroutine appends the rows it reads  *)
(* from the binlog to c.changes; BeginWindow and TakeWindow, called by the *)
(* driver's goroutine, cut that buffer into one write-set per request.     *)
(*                                                                         *)
(* c.changes is a set here: its order is lost by diff.NormalizeWriteset,   *)
(* and Conservation shows that no row is in it twice.                      *)
(***************************************************************************)
EXTENDS ReplayTraffic

CONSTANTS
    TrxCheck,   \* attribution.check_innodb_trx
    SystemTxn   \* transactions on the system schemas, which the pump skips

ASSUME CaptureAssumption ==
    /\ TrxCheck \in BOOLEAN
    /\ SystemTxn \subseteq Txn

VARIABLES
    changes,    \* c.changes: rows read from the binlog and not yet taken
    lastEvent,  \* ticks since c.lastEvent, NoEvent when it is the zero time
    err         \* c.err # nil: the binlog stream died

captureVars == <<changes, lastEvent, err>>
vars == <<trafficVars, captureVars>>

NoEvent == -1

TypeOK ==
    /\ TrafficTypeOK
    /\ changes \in SUBSET Txn
    /\ lastEvent \in -1..Horizon
    /\ err \in BOOLEAN

Init ==
    /\ TrafficInit
    /\ changes = {}
    /\ lastEvent = NoEvent
    /\ err = FALSE

----------------------------------------------------------------------------
(* The pump goroutine.  It returns when the stream dies or Stop is called. *)

Pumping == ~err /\ pc # "stopped"

\* Mutant of Normalize: the system schemas are not skipped.
NormalizeSystemToo(m) == IF m.kind = "row" THEN {m.txn} ELSE {}

\* The rows normalize returns for a binlog event; every event but a
\* RowsEvent, and every event of a system schema, gives none.
Normalize(m) == IF m.kind = "row" /\ m.txn \notin SystemTxn THEN {m.txn} ELSE {}

Pump ==
    /\ Pumping
    /\ Deliver
    /\ LET rows == Normalize(Head(stream)) IN
        /\ changes' = changes \cup rows
        /\ lastEvent' = IF rows = {} THEN lastEvent ELSE 0
    /\ UNCHANGED err

StreamDies ==
    /\ MayFail
    /\ Pumping
    /\ err' = TRUE
    /\ UNCHANGED <<trafficVars, changes, lastEvent>>

----------------------------------------------------------------------------
(* The window.                                                             *)

\* Mutant of BeginWindow: leftovers are thrown away, as PgCapture does.
BeginWindowDiscards ==
    /\ OpenWindow
    /\ lastEvent' = NoEvent
    /\ changes' = {}
    /\ UNCHANGED <<appVars, streamVars, err>>

\* Rows that arrived since the last window stay in the buffer: the code logs
\* a warning and leaves them to this request.
BeginWindow ==
    /\ OpenWindow
    /\ lastEvent' = NoEvent
    /\ UNCHANGED <<appVars, streamVars, changes, err>>

\* Mutant of SinceLast: the zero time is taken for an event long ago.
SinceLastEver == IF lastEvent = NoEvent THEN Horizon ELSE lastEvent

\* time.Since(last), where a window without events counts from its opening.
SinceLast == IF lastEvent = NoEvent THEN elapsed ELSE lastEvent

QuietEnough == SinceLast >= Quiet

\* Mutant of CloseOrRetry: the deadline is never tested.
RetryForever == Goto("poll")

\* The deadline is tested only after the quiet test has failed.
CloseOrRetry == Goto(IF elapsed > Timeout THEN "swap" ELSE "poll")

\* Mutant of Poll: the stream's error is not looked at.
PollBlindly ==
    /\ pc = "poll"
    /\ IF ~QuietEnough THEN CloseOrRetry ELSE Goto(IF TrxCheck THEN "trx" ELSE "swap")
    /\ UNCHANGED <<appVars, streamVars, captureVars>>

\* One turn of TakeWindow's loop up to the innodb_trx query.  c.err and
\* c.lastEvent are read under one lock; a sleep between turns lasts as long
\* as the clock lets it.
Poll ==
    /\ pc = "poll"
    /\ IF err THEN ReturnError
       ELSE IF ~QuietEnough THEN CloseOrRetry
       ELSE Goto(IF TrxCheck THEN "trx" ELSE "swap")
    /\ UNCHANGED <<appVars, streamVars, captureVars>>

\* hasActiveTrx: a failed query counts as "no active transaction".
NoActiveTrx ==
    /\ pc = "trx"
    /\ Active = {} \/ MayFail
    /\ Goto("swap")
    /\ UNCHANGED <<appVars, streamVars, captureVars>>

ActiveTrx ==
    /\ pc = "trx"
    /\ Active # {}
    /\ CloseOrRetry
    /\ UNCHANGED <<appVars, streamVars, captureVars>>

\* After the loop, under the lock again: c.err is not looked at a second time.
Swap ==
    /\ pc = "swap"
    /\ ReturnRows(changes)
    /\ changes' = {}
    /\ UNCHANGED <<appVars, streamVars, lastEvent, err>>

TakeWindow == Poll \/ NoActiveTrx \/ ActiveTrx \/ Swap

\* The run is over: the deferred Stop ends the pump.
Stop ==
    /\ pc = "idle"
    /\ cur = N
    /\ Goto("stopped")
    /\ UNCHANGED <<appVars, streamVars, captureVars>>

----------------------------------------------------------------------------

Answer == Respond /\ UNCHANGED captureVars

Application == Outside /\ UNCHANGED captureVars

Tick ==
    /\ pc # "stopped"
    /\ Pass(Pumping)
    /\ lastEvent' = IF lastEvent = NoEvent THEN NoEvent ELSE Older(lastEvent)
    /\ UNCHANGED <<changes, err>>

Next ==
    \/ BeginWindow
    \/ Answer
    \/ TakeWindow
    \/ Stop
    \/ Pump
    \/ StreamDies
    \/ Application
    \/ Tick

Spec == Init /\ [][Next]_vars

\* The driver's goroutine runs, its HTTP client times out, the clock ticks.
\* Nothing is asked of the database: neither of the stream nor of the
\* transactions the application holds open.
Fairness ==
    /\ WF_vars(BeginWindow)
    /\ WF_vars(Send /\ UNCHANGED captureVars)
    /\ WF_vars(GiveUp /\ UNCHANGED captureVars)
    /\ WF_vars(TakeWindow)
    /\ WF_vars(Tick)

FairSpec == Spec /\ Fairness

----------------------------------------------------------------------------
(* Properties.                                                             *)

\* Every row the application committed is in exactly one place: still in the
\* stream, in the buffer, or in the write-set of exactly one request.  A
\* TakeWindow that races the pump, a request that fails between BeginWindow
\* and TakeWindow, a stream that dies: none of them loses a row or reports it
\* twice.
Conservation ==
    /\ \A t \in Committed \ SystemTxn :
           \/ t \in Rows(stream)
           \/ t \in changes
           \/ \E r \in Req : t \in writeset[r]
    /\ \A t \in changes : t \notin Rows(stream)
    /\ \A r \in Req : \A t \in writeset[r] :
           /\ t \notin Rows(stream) \cup changes
           /\ \A s \in Req \ {r} : t \notin writeset[s]

\* A request is never blamed for the write of a later one, for a write that
\* was rolled back, or for one of a system schema: a row surfaces in the
\* window of the request that caused it or in a later one.
NeverBlamedEarly ==
    \A r \in Req : \A t \in writeset[r] :
        t \in Committed \ SystemTxn /\ cause[t] \in 1..r

\* README.md:156: only writes that commit after their window may surface
\* elsewhere.  When the application writes nothing after it has answered and
\* every request is answered, a request that got a write-set got exactly its
\* own rows.
ExactAttribution ==
    \A r \in Req : outcome[r] = "ok" => writeset[r] = RowsOf(r) \ SystemTxn

\* The same as an implementation of the interface's contract (writeset.go):
\* windows open and close in turn, a closed window's rows never change, and no
\* row is committed outside of a window.
Contract == INSTANCE WindowContract WITH
    last <- cur,
    open <- pc \notin {"idle", "stopped"},
    wrote <- [r \in Req |-> RowsOf(r) \ SystemTxn],
    reported <- writeset,
    result <- outcome

\* Once a window is opened on a dead stream, its request gets no write-set:
\* an empty one would read as "this request wrote nothing".
DeadStreamNeverVouches ==
    \A r \in Req :
        [](err /\ cur = r /\ pc \in {"send", "http"} => [](outcome[r] # "ok"))

\* BeginWindow's warning: row changes that arrived between windows are
\* attributed to the next request that gets a write-set.
LeftoversGoNext ==
    \A r \in Req, t \in Txn \ SystemTxn :
        [](t \in changes /\ pc = "idle" /\ cur = r - 1
               => [](outcome[r] = "ok" => t \in writeset[r]))

\* Whatever the database does, every window is closed and every request of the
\* corpus gets a result: a stream that never falls silent and a transaction
\* that never ends are cut off by timeout_ms.
EveryRequestReturns == \A r \in Req : <>(outcome[r] # "none")
=============================================================================
