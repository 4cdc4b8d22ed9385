--------------------------- MODULE DaemonCapture ---------------------------
(***************************************************************************)
(* The collector daemon's captures (internal/agent/daemon.go): commands    *)
(* start and stop them, each runs in a goroutine of its own that ends when *)
(* it is cancelled or on its own, and an auto-stop timer bounds each.      *)
(* d.mu guards the daemon's fields; a timer that has fired and a goroutine *)
(* whose capture has failed both wait for it before they act on "the"      *)
(* capture.                                                                *)
(***************************************************************************)
EXTENDS Naturals, FiniteSets

CONSTANT MaxCaptures  \* start commands the dashboard sends

ASSUME DaemonAssumption == MaxCaptures \in Nat

Capture == 1..MaxCaptures
None == 0

VARIABLES
    up,         \* RunDaemon's loop is running
    started,    \* captures started so far; the latest is d.capName, d.stopCap
    running,    \* d.running
    autoStop,   \* the capture whose timer d.autoStop holds, None when nil
    timer,      \* each capture's time.AfterFunc
    runner,     \* each capture's goroutine
    cancelled,  \* captures whose context is cancelled
    quick       \* does a capture open, or report its failure, before the next
                \* command or timer is served?  A property of the run, not of
                \* the code: commands are a heartbeat's 3 seconds apart, while
                \* opening a socket may wait for a name server.

captureVars == <<up, started, running, autoStop, timer, runner, cancelled, quick>>

CaptureTypeOK ==
    /\ up \in BOOLEAN
    /\ started \in 0..MaxCaptures
    /\ running \in BOOLEAN
    /\ autoStop \in {None} \cup Capture
    /\ timer \in [Capture -> {"unset", "armed", "fired", "over"}]
    /\ runner \in [Capture -> {"unborn", "opening", "live", "failed", "ended"}]
    /\ cancelled \in SUBSET Capture
    /\ quick \in BOOLEAN

CaptureInit ==
    /\ up = TRUE
    /\ started = 0
    /\ running = FALSE
    /\ autoStop = None
    /\ timer = [c \in Capture |-> "unset"]
    /\ runner = [c \in Capture |-> "unborn"]
    /\ cancelled = {}
    /\ quick \in BOOLEAN

Settled == quick => \A c \in Capture : runner[c] \notin {"opening", "failed"}

\* Timer.Stop prevents a timer from firing, not the function of one that has
\* fired from running.
Disarmed(f) ==
    IF autoStop # None /\ f[autoStop] = "armed" THEN [f EXCEPT ![autoStop] = "over"] ELSE f

\* Mutants of StartCapture: no timer is armed; a running capture is no obstacle.
StartUntimed ==
    /\ up
    /\ Settled
    /\ ~running
    /\ started < MaxCaptures
    /\ started' = started + 1
    /\ runner' = [runner EXCEPT ![started'] = "opening"]
    /\ running' = TRUE
    /\ UNCHANGED <<up, timer, autoStop, cancelled, quick>>

StartAnyway ==
    /\ up
    /\ Settled
    /\ started < MaxCaptures
    /\ started' = started + 1
    /\ runner' = [runner EXCEPT ![started'] = "opening"]
    /\ timer' = [timer EXCEPT ![started'] = "armed"]
    /\ autoStop' = started'
    /\ running' = TRUE
    /\ UNCHANGED <<up, cancelled, quick>>

\* A start command; one that arrives while a capture runs is ignored.
StartCapture ==
    /\ up
    /\ Settled
    /\ ~running
    /\ started < MaxCaptures
    /\ LET c == started + 1 IN
        /\ started' = c
        /\ runner' = [runner EXCEPT ![c] = "opening"]
        /\ timer' = [timer EXCEPT ![c] = "armed"]
        /\ autoStop' = c
    /\ running' = TRUE
    /\ UNCHANGED <<up, cancelled, quick>>

\* Mutant of StopCapture: d.running is not reset.
StopWithoutReset(timers) ==
    /\ timer' = IF running THEN Disarmed(timers) ELSE timers
    /\ autoStop' = IF running THEN None ELSE autoStop
    /\ cancelled' = IF running THEN cancelled \cup {started} ELSE cancelled
    /\ UNCHANGED <<running>>

\* stopCapture, from whatever timers the caller has left: nothing happens
\* unless d.running; otherwise the latest capture is cancelled.
StopCapture(timers) ==
    IF running
    THEN /\ timer' = Disarmed(timers)
         /\ autoStop' = None
         /\ cancelled' = cancelled \cup {started}
         /\ running' = FALSE
    ELSE /\ timer' = timers
         /\ UNCHANGED <<autoStop, cancelled, running>>

StopCommand ==
    /\ up
    /\ Settled
    /\ running
    /\ StopCapture(timer)
    /\ UNCHANGED <<up, started, runner, quick>>

Shutdown ==
    /\ up
    /\ up' = FALSE
    /\ StopCapture(timer)
    /\ UNCHANGED <<started, runner, quick>>

\* The time is up: the timer's goroutine starts and asks for d.mu ...
TimerFires(c) ==
    /\ timer[c] = "armed"
    /\ timer' = [timer EXCEPT ![c] = "fired"]
    /\ UNCHANGED <<up, started, running, autoStop, runner, cancelled, quick>>

\* ... gets it and calls stopCapture.
AutoStop(c) ==
    /\ timer[c] = "fired"
    /\ Settled
    /\ StopCapture([timer EXCEPT ![c] = "over"])
    /\ UNCHANGED <<up, started, runner, quick>>

\* RunLive and RunMirror open their interface or socket first, and do not look
\* at the context meanwhile.
RunnerOpens(c) ==
    /\ runner[c] = "opening"
    /\ runner' = [runner EXCEPT ![c] = "live"]
    /\ UNCHANGED <<up, started, running, autoStop, timer, cancelled, quick>>

\* Mutant of RunnerEnds: the capture loop does not look at its context.
RunnerEndsUnasked(c) ==
    /\ runner[c] = "live"
    /\ c \notin cancelled
    /\ runner' = [runner EXCEPT ![c] = "ended"]
    /\ UNCHANGED <<up, started, running, autoStop, timer, cancelled, quick>>

\* They return nil: the capture was cancelled, or its packets have run out.
RunnerEnds(c) ==
    /\ runner[c] = "live"
    /\ runner' = [runner EXCEPT ![c] = "ended"]
    /\ UNCHANGED <<up, started, running, autoStop, timer, cancelled, quick>>

\* They return an error -- on opening, or on reading while not cancelled -- and
\* the goroutine has closed the output and asks for d.mu ...
RunnerFails(c) ==
    /\ runner[c] = "opening" \/ (runner[c] = "live" /\ c \notin cancelled)
    /\ runner' = [runner EXCEPT ![c] = "failed"]
    /\ UNCHANGED <<up, started, running, autoStop, timer, cancelled, quick>>

\* ... gets it and resets the daemon's fields, whichever capture they are of.
ReportFailure(c) ==
    /\ runner[c] = "failed"
    /\ runner' = [runner EXCEPT ![c] = "ended"]
    /\ running' = FALSE
    /\ timer' = Disarmed(timer)
    /\ autoStop' = None
    /\ UNCHANGED <<up, started, cancelled, quick>>

CaptureNext ==
    \/ StartCapture
    \/ StopCommand
    \/ Shutdown
    \/ \E c \in Capture :
        \/ TimerFires(c) \/ AutoStop(c)
        \/ RunnerOpens(c) \/ RunnerEnds(c) \/ RunnerFails(c) \/ ReportFailure(c)

CaptureSpec == CaptureInit /\ [][CaptureNext]_captureVars

\* Timers fire, goroutines that wait for d.mu get it, opening ends, a cancelled
\* capture returns.  No command is ever promised to arrive.
CaptureFairness ==
    \A c \in Capture :
        /\ WF_captureVars(RunnerOpens(c))
        /\ WF_captureVars(ReportFailure(c))
        /\ WF_captureVars(TimerFires(c))
        /\ WF_captureVars(AutoStop(c))
        /\ WF_captureVars(RunnerEnds(c) /\ c \in cancelled)

CaptureFairSpec == CaptureSpec /\ CaptureFairness

----------------------------------------------------------------------------
(* Properties.                                                             *)

Recording == {c \in Capture : runner[c] \in {"opening", "live"}}

\* daemon.go:59, "a forgotten or disconnected agent never records forever
\* (disk safety)": a capture that records has been told to stop, or a timer
\* that will tell it is armed.
StopIsComing ==
    \A c \in Recording : c \in cancelled \/ timer[c] \in {"armed", "fired"}

\* The code keeps that promise while no capture fails behind the back of the
\* next one.
StopIsComingWhenQuick == quick => StopIsComing

\* Under the same condition at most one capture records that was not told to
\* stop: two would write to two files, and the daemon could stop only the later.
OneCapture == quick => Cardinality(Recording \ cancelled) <= 1

\* ... and every capture ends without a command from the dashboard.
EveryCaptureEnds ==
    \A c \in Capture : (quick /\ runner[c] = "live") ~> runner[c] # "live"

\* A capture the daemon calls running can be stopped, however late others
\* fail: it is the latest, and its cancellation is still to be given.
RunningIsStoppable == running => started \in Capture \ cancelled
=============================================================================
