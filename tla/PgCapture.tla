----------------------------- MODULE PgCapture -----------------------------
(***************************************************************************)
(* The PostgreSQL write-set source (internal/pg/capture.go) under the      *)
(* driver of ReplayTraffic.  It shares the windows' interface with         *)
(* BinlogCapture and differs in three ways: BeginWindow throws the buffer  *)
(* away, a window closes at the first commit decoded after it opened, and  *)
(* without any row it closes after a quiet time.                           *)
(***************************************************************************)
EXTENDS ReplayTraffic

VARIABLES
    changes,        \* c.changes: rows decoded and not yet taken
    lastCommitLSN,  \* commits decoded so far: LSNs grow in commit order
    windowStart,    \* lastCommitLSN when the current window opened
    err             \* c.err # nil: the replication stream died

captureVars == <<changes, lastCommitLSN, windowStart, err>>
vars == <<trafficVars, captureVars>>

TypeOK ==
    /\ TrafficTypeOK
    /\ changes \in SUBSET Txn
    /\ lastCommitLSN \in Nat
    /\ windowStart \in 0..lastCommitLSN
    /\ err \in BOOLEAN

Init ==
    /\ TrafficInit
    /\ changes = {}
    /\ lastCommitLSN = 0
    /\ windowStart = 0
    /\ err = FALSE

----------------------------------------------------------------------------
(* The pump goroutine: record for a row, the commit branch of handleWAL.   *)

Pumping == ~err /\ pc # "stopped"

HandleWAL(m) ==
    \/ /\ m.kind = "row"
       /\ changes' = changes \cup {m.txn}
       /\ UNCHANGED lastCommitLSN
    \/ /\ m.kind = "commit"
       /\ lastCommitLSN' = lastCommitLSN + 1
       /\ UNCHANGED changes

\* Mutant of Pump: the position in the log does not advance.
PumpRereads ==
    /\ Pumping
    /\ stream # <<>>
    /\ HandleWAL(Head(stream))
    /\ UNCHANGED <<trafficVars, windowStart, err>>

Pump ==
    /\ Pumping
    /\ Deliver
    /\ HandleWAL(Head(stream))
    /\ UNCHANGED <<windowStart, err>>

StreamDies ==
    /\ MayFail
    /\ Pumping
    /\ err' = TRUE
    /\ UNCHANGED <<trafficVars, changes, lastCommitLSN, windowStart>>

----------------------------------------------------------------------------
(* The window.                                                             *)

\* Mutants of BeginWindow: the window starts where the previous one did; the
\* buffer is not emptied.
BeginWindowStale ==
    /\ OpenWindow
    /\ changes' = {}
    /\ UNCHANGED <<appVars, streamVars, lastCommitLSN, windowStart, err>>

BeginWindowKeeps ==
    /\ OpenWindow
    /\ windowStart' = lastCommitLSN
    /\ UNCHANGED <<appVars, streamVars, changes, lastCommitLSN, err>>

BeginWindow ==
    /\ OpenWindow
    /\ changes' = {}
    /\ windowStart' = lastCommitLSN
    /\ UNCHANGED <<appVars, streamVars, lastCommitLSN, err>>

\* Mutant of WindowOver: there is no deadline.
WindowOverSometime == lastCommitLSN > windowStart \/ (changes = {} /\ elapsed >= Quiet)

\* The conditions that end TakeWindow's loop: a commit of this window was
\* decoded, nothing came for the quiet time, the deadline has passed.
WindowOver ==
    \/ lastCommitLSN > windowStart
    \/ changes = {} /\ elapsed >= Quiet
    \/ elapsed > Timeout

Poll ==
    /\ pc = "poll"
    /\ IF err THEN ReturnError ELSE Goto(IF WindowOver THEN "swap" ELSE "poll")
    /\ UNCHANGED <<appVars, streamVars, captureVars>>

\* The lock was released after the test: what arrived since is taken too.
Swap ==
    /\ pc = "swap"
    /\ ReturnRows(changes)
    /\ changes' = {}
    /\ UNCHANGED <<appVars, streamVars, lastCommitLSN, windowStart, err>>

TakeWindow == Poll \/ Swap

Stop ==
    /\ pc = "idle"
    /\ cur = N
    /\ Goto("stopped")
    /\ UNCHANGED <<appVars, streamVars, captureVars>>

----------------------------------------------------------------------------

Answer == Respond /\ UNCHANGED captureVars

Application == Outside /\ UNCHANGED captureVars

Tick ==
    /\ pc # "stopped"
    /\ Pass(Pumping)
    /\ UNCHANGED captureVars

Next ==
    \/ BeginWindow
    \/ Answer
    \/ TakeWindow
    \/ Stop
    \/ Pump
    \/ StreamDies
    \/ Application
    \/ Tick

Spec == Init /\ [][Next]_vars

\* As in BinlogCapture: the driver runs, its HTTP client times out, the clock
\* ticks, and the database owes nothing.
Fairness ==
    /\ WF_vars(BeginWindow)
    /\ WF_vars(Send /\ UNCHANGED captureVars)
    /\ WF_vars(GiveUp /\ UNCHANGED captureVars)
    /\ WF_vars(TakeWindow)
    /\ WF_vars(Tick)

FairSpec == Spec /\ Fairness

----------------------------------------------------------------------------
(* Properties.                                                             *)

\* No row is reported for two requests, for a request before the one that
\* caused it, or out of a transaction that was rolled back -- whatever fails.
ReportedOnce ==
    \A r \in Req : \A t \in writeset[r] :
        /\ t \in Committed /\ cause[t] \in 1..r
        /\ \A s \in Req \ {r} : t \notin writeset[s]

\* BeginWindow discards: a row decoded before a window opens is in no
\* write-set of that request or a later one.
LateRowsDiscarded ==
    \A r \in Req, t \in Txn :
        []((t \in changes /\ pc = "idle" /\ cur < r) => [](t \notin writeset[r]))

\* A window that opens on a dead stream gives no write-set, not an empty one.
DeadStreamNeverVouches ==
    \A r \in Req :
        [](err /\ cur = r /\ pc \in {"send", "http"} => [](outcome[r] # "ok"))

\* "TakeWindow returns the request's write-set" (the comment above it): a
\* request that got one got all of its own rows and no others.
ReturnsTheRequestsWriteset ==
    \A r \in Req : outcome[r] = "ok" => writeset[r] = RowsOf(r)

\* The same as an implementation of the interface's contract: windows open and
\* close in turn, a closed window's rows never change, and no row is committed
\* outside of a window.
Contract == INSTANCE WindowContract WITH
    last <- cur,
    open <- pc \notin {"idle", "stopped"},
    wrote <- [r \in Req |-> RowsOf(r)],
    reported <- writeset,
    result <- outcome

\* Every request of the corpus gets a result, whatever the database does.
EveryRequestReturns == \A r \in Req : <>(outcome[r] # "none")
=============================================================================
