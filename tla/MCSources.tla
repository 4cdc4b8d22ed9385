----------------------------- MODULE MCSources -----------------------------
(***************************************************************************)
(* Both implementations of writeset.Source (wscapture/factory.go chooses   *)
(* one by the datastore's type), each in the calm environment in which the *)
(* interface's contract is kept: nothing fails, nothing is written after   *)
(* the answer, and the stream's delay -- for the binlog together with the  *)
(* longest response -- is below quiet_ms.  For PostgreSQL a request runs   *)
(* one transaction there.  A third environment, the wild one, lets         *)
(* everything fail around the PostgreSQL capture.  The environment is      *)
(* chosen at the start; the constants of the configuration are those of    *)
(* the calm PostgreSQL capture.                                            *)
(***************************************************************************)
EXTENDS MCPgCapture

VARIABLES
    env,        \* the environment
    lastEvent   \* the one variable that only BinlogCapture has

allVars == <<vars, env, lastEvent>>

Wild == INSTANCE PgCapture WITH
    MaxLag <- 0,
    Background <- TRUE, OneTrx <- FALSE, MayFail <- TRUE, Prompt <- FALSE

Binlog == INSTANCE BinlogCapture WITH
    Txn <- Txns, SystemTxn <- {t3}, OneTrx <- FALSE, TrxCheck <- TRUE

SourcesInit ==
    \/ /\ env \in {"calm postgres", "wild postgres"}
       /\ Init
       /\ lastEvent = Binlog!NoEvent
    \/ /\ env = "calm mysql"
       /\ Binlog!Init
       /\ lastCommitLSN = 0
       /\ windowStart = 0

SourcesNext ==
    /\ \/ env = "calm postgres" /\ Next /\ UNCHANGED lastEvent
       \/ env = "wild postgres" /\ Wild!Next /\ UNCHANGED lastEvent
       \/ env = "calm mysql" /\ Binlog!Next /\ UNCHANGED <<lastCommitLSN, windowStart>>
    /\ UNCHANGED env

\* The fairness of PgCapture is asked in the wild environment alone: in the calm
\* ones only safety is checked.
WildFairness ==
    /\ WF_vars(env = "wild postgres" /\ Wild!BeginWindow)
    /\ WF_vars(env = "wild postgres" /\ Wild!Send /\ UNCHANGED captureVars)
    /\ WF_vars(env = "wild postgres" /\ Wild!GiveUp /\ UNCHANGED captureVars)
    /\ WF_vars(env = "wild postgres" /\ Wild!TakeWindow)
    /\ WF_vars(env = "wild postgres" /\ Wild!Tick)

SourcesSpec == SourcesInit /\ [][SourcesNext]_allVars /\ WildFairness

----------------------------------------------------------------------------
(* Properties.                                                             *)

\* In its calm environment each capture implements the contract of
\* writeset.Source (writeset.go:18): windows open and close in turn, a closed
\* window's rows never change, and "TakeWindow returns the request's write-set"
\* (pg/capture.go:280), exactly the rows committed meanwhile.
PostgresKeepsTheContract ==
    /\ env = "calm postgres" => Contract!Init
    /\ [][env = "calm postgres" => Contract!Next]_(Contract!vars)

BinlogKeepsTheContract ==
    /\ env = "calm mysql" => Binlog!Contract!Init
    /\ [][env = "calm mysql" => Binlog!Contract!Next]_(Binlog!Contract!vars)

\* In the wild environment every request of the corpus gets a result all the
\* same, whatever the database and the stream do: the deadline of TakeWindow cuts
\* off what never falls silent.
EveryRequestReturnsWhenWild == env = "wild postgres" => EveryRequestReturns
=============================================================================
