--------------------------- MODULE ReplayTraffic ---------------------------
(***************************************************************************)
(* What every write-set source of mocking-box works inside: the driver     *)
(* that fires requests at one stack one after the other                    *)
(* (internal/replay/replay.go, fireStack), the application under test that *)
(* commits transactions while it serves them, and the database's change    *)
(* stream, which delivers every committed transaction, in commit order and *)
(* with a delay.  BinlogCapture and PgCapture add the two implementations  *)
(* of writeset.Source.                                                     *)
(*                                                                         *)
(* The application and the database are outside the repository: their      *)
(* actions are what the code of fireStack, pump and handleWAL relies on.   *)
(* Time is counted in ticks; a tick stands for one polling period.  Ages   *)
(* are relative and saturate at Horizon, beyond which no test of the code  *)
(* tells two of them apart.                                                *)
(***************************************************************************)
EXTENDS Integers, Sequences, FiniteSets

CONSTANTS
    Txn,          \* transactions the application may run
    N,            \* requests of the corpus
    Quiet,        \* attribution.quiet_ms, in ticks
    Timeout,      \* attribution.timeout_ms, in ticks
    HttpTimeout,  \* http_timeout_s, in ticks
    Background,   \* may the application keep writing after it has answered?
    OneTrx,       \* does a request commit at most one transaction?
    MayFail,      \* may a request fail on the client's side?
    Prompt,       \* is the change stream's delay bounded by MaxLag?
    MaxLag        \* ... and by how many ticks

ASSUME TrafficAssumption ==
    /\ N \in Nat \ {0}
    /\ Quiet \in Nat \ {0}
    /\ Timeout \in Nat
    /\ HttpTimeout \in Nat
    /\ MaxLag \in Nat
    /\ Background \in BOOLEAN
    /\ OneTrx \in BOOLEAN
    /\ MayFail \in BOOLEAN
    /\ Prompt \in BOOLEAN

Req == 1..N
NoReq == 0

\* The largest age the code compares anything with.
Horizon == Quiet + Timeout + HttpTimeout + 1

VARIABLES
    pc,       \* where fireStack is
    cur,      \* the request being fired, NoReq before the first
    elapsed,  \* ticks since fireStack entered its present wait
    outcome,  \* what fireStack returned for each request
    writeset, \* the rows it returned
    stage,    \* the life of each transaction
    cause,    \* the request on whose behalf it was begun
    serving,  \* requests whose handler is still running in the application
    stream,   \* the change stream between the database and the capture
    lag       \* how long a transaction has been in the stream

trafficVars ==
    <<pc, cur, elapsed, outcome, writeset, stage, cause, serving, stream, lag>>
driverVars == <<pc, cur, elapsed, outcome, writeset>>
appVars == <<stage, cause, serving>>
streamVars == <<stream, lag>>

Phases == {"idle", "send", "http", "poll", "trx", "swap", "stopped"}
Message == [txn : Txn, kind : {"row", "commit"}]

TrafficTypeOK ==
    /\ pc \in Phases
    /\ cur \in 0..N
    /\ elapsed \in 0..Horizon
    /\ outcome \in [Req -> {"none", "ok", "error"}]
    /\ writeset \in [Req -> SUBSET Txn]
    /\ stage \in [Txn -> {"new", "active", "committed", "aborted"}]
    /\ cause \in [Txn -> 0..N]
    /\ serving \in SUBSET Req
    /\ stream \in Seq(Message)
    /\ lag \in [Txn -> 0..MaxLag]

TrafficInit ==
    /\ pc = "idle"
    /\ cur = NoReq
    /\ elapsed = 0
    /\ outcome = [r \in Req |-> "none"]
    /\ writeset = [r \in Req |-> {}]
    /\ stage = [t \in Txn |-> "new"]
    /\ cause = [t \in Txn |-> NoReq]
    /\ serving = {}
    /\ stream = <<>>
    /\ lag = [t \in Txn |-> 0]

Older(age) == IF age < Horizon THEN age + 1 ELSE age

Committed == {t \in Txn : stage[t] = "committed"}
RowsOf(r) == {t \in Committed : cause[t] = r}
Active == {t \in Txn : stage[t] = "active"}
InFlight == {stream[i].txn : i \in DOMAIN stream}
Rows(s) == {t \in Txn : \E i \in DOMAIN s : s[i] = [txn |-> t, kind |-> "row"]}

----------------------------------------------------------------------------
(* fireStack: BeginWindow, client.Do, TakeWindow.                          *)

OpenWindow ==
    /\ pc = "idle"
    /\ cur < N
    /\ cur' = cur + 1
    /\ pc' = "send"
    /\ elapsed' = 0
    /\ UNCHANGED <<outcome, writeset>>

ReturnError ==
    /\ outcome' = [outcome EXCEPT ![cur] = "error"]
    /\ pc' = "idle"
    /\ elapsed' = 0
    /\ UNCHANGED <<cur, writeset>>

ReturnRows(rows) ==
    /\ outcome' = [outcome EXCEPT ![cur] = "ok"]
    /\ writeset' = [writeset EXCEPT ![cur] = rows]
    /\ pc' = "idle"
    /\ elapsed' = 0
    /\ UNCHANGED cur

Goto(phase) ==
    /\ pc' = phase
    /\ UNCHANGED <<cur, elapsed, outcome, writeset>>

\* The request never reaches the application: its body cannot be encoded, the
\* URL cannot be built, the connection is refused.
SendFails ==
    /\ MayFail
    /\ pc = "send"
    /\ ReturnError
    /\ UNCHANGED <<appVars, streamVars>>

Send ==
    /\ pc = "send"
    /\ Goto("http")
    /\ serving' = serving \cup {cur}
    /\ UNCHANGED <<stage, cause, streamVars>>

\* The client gives up on a request the application has received (timeout,
\* reset, unreadable body): fireStack returns and never calls TakeWindow.
GiveUp ==
    /\ MayFail
    /\ pc = "http"
    /\ ReturnError
    /\ UNCHANGED <<appVars, streamVars>>

\* The answer arrives and fireStack enters TakeWindow.
Respond ==
    /\ pc = "http"
    /\ cur \in serving
    /\ Background \/ \A t \in Active : cause[t] # cur
    /\ serving' = IF Background THEN serving ELSE serving \ {cur}
    /\ pc' = "poll"
    /\ elapsed' = 0
    /\ UNCHANGED <<cur, outcome, writeset, stage, cause, streamVars>>

----------------------------------------------------------------------------
(* The application and the database.                                       *)

Begin(t) ==
    /\ stage[t] = "new"
    /\ \E r \in serving :
        /\ OneTrx => \A u \in Txn : cause[u] = r => stage[u] = "aborted"
        /\ cause' = [cause EXCEPT ![t] = r]
    /\ stage' = [stage EXCEPT ![t] = "active"]
    /\ UNCHANGED <<driverVars, serving, streamVars>>

\* A transaction that writes several rows behaves, for everything modelled
\* here, as several that commit back to back.
Commit(t) ==
    /\ stage[t] = "active"
    /\ stage' = [stage EXCEPT ![t] = "committed"]
    /\ stream' = stream \o <<[txn |-> t, kind |-> "row"], [txn |-> t, kind |-> "commit"]>>
    /\ UNCHANGED <<driverVars, cause, serving, lag>>

Rollback(t) ==
    /\ stage[t] = "active"
    /\ stage' = [stage EXCEPT ![t] = "aborted"]
    /\ UNCHANGED <<driverVars, cause, serving, streamVars>>

Deliver ==
    /\ stream # <<>>
    /\ stream' = Tail(stream)
    /\ UNCHANGED <<driverVars, appVars, lag>>

\* Time passes.  The HTTP client's own timeout bounds the wait for an answer;
\* a live stream with a bounded delay delivers before the bound is passed.
Pass(streaming) ==
    /\ pc = "http" => elapsed < HttpTimeout
    /\ (Prompt /\ streaming) => \A t \in InFlight : lag[t] < MaxLag
    /\ elapsed' = Older(elapsed)
    /\ lag' = [t \in Txn |-> IF t \in InFlight /\ lag[t] < MaxLag
                             THEN lag[t] + 1 ELSE lag[t]]
    /\ UNCHANGED <<pc, cur, outcome, writeset, appVars, stream>>

\* Everything that neither the capture nor the clock takes part in.
Outside ==
    \/ SendFails
    \/ Send
    \/ GiveUp
    \/ \E t \in Txn : Begin(t) \/ Commit(t) \/ Rollback(t)
=============================================================================
