--------------------------- MODULE DashboardJobs ---------------------------
(***************************************************************************)
(* The dashboard's replay jobs (internal/ui/ui.go, runVerify and           *)
(* runReplay) on PostgreSQL stacks, with the part of PgCapture that lives  *)
(* in the database: a publication and a temporary replication slot whose   *)
(* names depend on the stack alone (internal/pg/capture.go, Start and      *)
(* Stop), so that two jobs share them.  MCP clients start a job and poll   *)
(* for its report (internal/mcp/tools.go).                                 *)
(***************************************************************************)
EXTENDS Naturals, FiniteSets

CONSTANT MaxJobs  \* jobs the clients ask for

ASSUME JobsAssumption == MaxJobs \in Nat

Job == 1..MaxJobs
None == 0
Stack == {"old", "new"}

VARIABLES
    kind,        \* "live" replays against both stacks, "verify" against new
    job,         \* each job's goroutine
    capture,     \* each job's capture of each stack
    publication, \* the job that created a stack's publication, None if dropped
    slot,        \* the job whose connection holds a stack's slot, or None
    running,     \* replayST.Running
    lastReport,  \* the job whose report replayST.LastReport names, or None
    result,      \* how each job ended
    fresh,       \* the jobs that were started when all earlier ones were over and
                 \* no connection held a slot
    answer       \* the job whose report or error each client was given

vars ==
    <<kind, job, capture, publication, slot, running, lastReport, result, fresh, answer>>

TypeOK ==
    /\ kind \in [Job -> {"live", "verify"}]
    /\ job \in [Job -> {"unasked", "starting", "firing", "stopping", "over"}]
    /\ capture \in [Job -> [Stack -> {"off", "published", "streaming", "dead",
                                      "closed", "stopped"}]]
    /\ publication \in [Stack -> Job \cup {None}]
    /\ slot \in [Stack -> Job \cup {None}]
    /\ running \in BOOLEAN
    /\ lastReport \in Job \cup {None}
    /\ result \in [Job -> {"none", "report", "broken", "unwritten", "failed", "taken"}]
    /\ fresh \in SUBSET Job
    /\ answer \in [Job -> Job \cup {None}]

Init ==
    /\ kind \in [Job -> {"live", "verify"}]
    /\ job = [j \in Job |-> "unasked"]
    /\ capture = [j \in Job |-> [s \in Stack |-> "off"]]
    /\ publication = [s \in Stack |-> None]
    /\ slot = [s \in Stack |-> None]
    /\ running = FALSE
    /\ lastReport = None
    /\ result = [j \in Job |-> "none"]
    /\ fresh = {}
    /\ answer = [j \in Job |-> None]

Stacks(j) == IF kind[j] = "live" THEN Stack ELSE {"new"}

\* Runner takes the old stack before the new one, in Start and in Stop.
Before(s) == IF s = "new" THEN {"old"} ELSE {}

SetCapture(j, s, state) == capture' = [capture EXCEPT ![j][s] = state]

----------------------------------------------------------------------------
(* The job.                                                                *)

\* Do all earlier jobs leave j alone?
Undisturbed(j) ==
    /\ \A i \in Job : i < j => job[i] = "over"
    /\ \A s \in Stack : slot[s] = None

\* Mutant of ReplayStart: the fields of the previous job's status stay.
ReplayStartStale(j) ==
    /\ job[j] = "unasked"
    /\ ~running
    /\ \A i \in Job : i < j => job[i] # "unasked"
    /\ running' = TRUE
    /\ job' = [job EXCEPT ![j] = "starting"]
    /\ fresh' = fresh \cup IF Undisturbed(j) THEN {j} ELSE {}
    /\ UNCHANGED <<kind, capture, publication, slot, lastReport, result, answer>>

\* replayStart: refused while replayST.Running; the status starts afresh.
ReplayStart(j) ==
    /\ job[j] = "unasked"
    /\ ~running
    /\ \A i \in Job : i < j => job[i] # "unasked"
    /\ running' = TRUE
    /\ lastReport' = None
    /\ job' = [job EXCEPT ![j] = "starting"]
    /\ fresh' = fresh \cup IF Undisturbed(j) THEN {j} ELSE {}
    /\ UNCHANGED <<kind, capture, publication, slot, result, answer>>

\* Mutant of Publish: the old publication is dropped, none is created.
PublishDropsOnly(j, s) ==
    /\ job[j] = "starting"
    /\ s \in Stacks(j) /\ capture[j][s] = "off"
    /\ publication' = [publication EXCEPT ![s] = None]
    /\ SetCapture(j, s, "published")
    /\ UNCHANGED <<kind, job, slot, running, lastReport, result, fresh, answer>>

\* Capture.Start on the admin connection: drop the publication that has this
\* name, create it anew.
Publish(j, s) ==
    /\ job[j] = "starting"
    /\ s \in Stacks(j) /\ capture[j][s] = "off"
    /\ \A p \in Before(s) \cap Stacks(j) : capture[j][p] \in {"streaming", "dead"}
    /\ publication' = [publication EXCEPT ![s] = j]
    /\ SetCapture(j, s, "published")
    /\ UNCHANGED <<kind, job, slot, running, lastReport, result, fresh, answer>>

\* ... and on the replication connection: drop the slot that has this name,
\* which fails silently while a connection uses it, create it and stream.
Stream(j, s) ==
    /\ job[j] = "starting"
    /\ capture[j][s] = "published"
    /\ slot[s] = None
    /\ slot' = [slot EXCEPT ![s] = j]
    /\ SetCapture(j, s, "streaming")
    /\ UNCHANGED <<kind, job, publication, running, lastReport, result, fresh, answer>>

Finish(j, how, state) ==
    /\ running' = FALSE
    /\ lastReport' = IF how \in {"report", "broken"} THEN j ELSE lastReport
    /\ result' = [result EXCEPT ![j] = how]
    /\ job' = [job EXCEPT ![j] = state]

\* A Start that fails -- the name of the slot is taken, or a connection
\* fails -- ends the job without Stop: what was started stays.
StartFails(j) ==
    /\ job[j] = "starting"
    /\ \E s \in Stacks(j) :
        \/ capture[j][s] = "published" /\ slot[s] # None /\ Finish(j, "taken", "over")
        \/ capture[j][s] \in {"off", "published"} /\ Finish(j, "failed", "over")
    /\ UNCHANGED <<kind, capture, publication, slot, fresh, answer>>

Fire(j) ==
    /\ job[j] = "starting"
    /\ \A s \in Stacks(j) : capture[j][s] \in {"streaming", "dead"}
    /\ job' = [job EXCEPT ![j] = "firing"]
    /\ UNCHANGED <<kind, capture, publication, slot, running, lastReport, result, fresh, answer>>

\* Decoding fails once the publication is gone; every later window is an error.
StreamDies(j, s) ==
    /\ job[j] \in {"starting", "firing"}
    /\ capture[j][s] = "streaming"
    /\ publication[s] = None
    /\ SetCapture(j, s, "dead")
    /\ UNCHANGED <<kind, job, publication, slot, running, lastReport, result, fresh, answer>>

\* The report is written, which may fail, and Running reset; the deferred Stop
\* is yet to come.
Report(j) ==
    /\ job[j] = "firing"
    /\ \/ Finish(j, "unwritten", "stopping")
       \/ Finish(j, IF \A s \in Stacks(j) : capture[j][s] = "streaming"
                    THEN "report" ELSE "broken", "stopping")
    /\ UNCHANGED <<kind, capture, publication, slot, fresh, answer>>

\* Mutants of CloseStream: the replication connection stays open; Stop waits
\* for a dead stream to answer.
CloseStreamNever(j, s) ==
    /\ job[j] = "stopping"
    /\ s \in Stacks(j) /\ capture[j][s] \in {"streaming", "dead"}
    /\ SetCapture(j, s, "closed")
    /\ UNCHANGED <<kind, job, publication, slot, running, lastReport, result, fresh, answer>>

CloseStreamAlive(j, s) ==
    /\ job[j] = "stopping"
    /\ s \in Stacks(j) /\ capture[j][s] = "streaming"
    /\ slot' = [slot EXCEPT ![s] = IF @ = j THEN None ELSE @]
    /\ SetCapture(j, s, "closed")
    /\ UNCHANGED <<kind, job, publication, running, lastReport, result, fresh, answer>>

\* Capture.Stop closes the replication connection, which frees the slot, ...
CloseStream(j, s) ==
    /\ job[j] = "stopping"
    /\ s \in Stacks(j) /\ capture[j][s] \in {"streaming", "dead"}
    /\ \A p \in Before(s) \cap Stacks(j) : capture[j][p] = "stopped"
    /\ slot' = [slot EXCEPT ![s] = IF @ = j THEN None ELSE @]
    /\ SetCapture(j, s, "closed")
    /\ UNCHANGED <<kind, job, publication, running, lastReport, result, fresh, answer>>

\* Mutant of DropPublication: the name does not tell the stacks apart.
DropPublications(j, s) ==
    /\ capture[j][s] = "closed"
    /\ publication' = [p \in Stack |-> None]
    /\ SetCapture(j, s, "stopped")
    /\ UNCHANGED <<kind, job, slot, running, lastReport, result, fresh, answer>>

\* ... then drops the publication of this name, whoever created it.
DropPublication(j, s) ==
    /\ capture[j][s] = "closed"
    /\ publication' = [publication EXCEPT ![s] = None]
    /\ SetCapture(j, s, "stopped")
    /\ UNCHANGED <<kind, job, slot, running, lastReport, result, fresh, answer>>

Over(j) ==
    /\ job[j] = "stopping"
    /\ \A s \in Stacks(j) : capture[j][s] = "stopped"
    /\ job' = [job EXCEPT ![j] = "over"]
    /\ UNCHANGED <<kind, capture, publication, slot, running, lastReport, result, fresh, answer>>

----------------------------------------------------------------------------
(* The client.                                                             *)

\* The job that was asked for last: the one replayST is about.
Latest == CHOOSE i \in Job : job[i] # "unasked" /\ \A k \in Job : job[k] # "unasked" => k <= i

\* pollReplay: the first status that is not running answers the client, with
\* the report it names (or an error when it names none).
PollReplay(j) ==
    /\ job[j] # "unasked"
    /\ answer[j] = None
    /\ ~running
    /\ answer' = [answer EXCEPT ![j] = IF lastReport # None THEN lastReport ELSE Latest]
    /\ UNCHANGED <<kind, job, capture, publication, slot, running, lastReport, result, fresh>>

Start(j) == StartFails(j) \/ \E s \in Stack : Publish(j, s) \/ Stream(j, s)

Runs(j) ==
    \/ Fire(j) \/ Report(j) \/ Over(j)
    \/ \E s \in Stack : CloseStream(j, s) \/ DropPublication(j, s)

Next ==
    \E j \in Job :
        \/ ReplayStart(j) \/ Start(j) \/ Runs(j) \/ PollReplay(j)
        \/ \E s \in Stack : StreamDies(j, s)

Spec == Init /\ [][Next]_vars

\* A job's goroutine runs on: requests, write-set windows and Stop take a
\* bounded time.  Start takes as long as the database likes: it has neither a
\* timeout nor a context, and both the creation of a slot (open transactions)
\* and ALTER TABLE (locks) may wait for the applications for ever.
FairSpec == Spec /\ \A j \in Job : WF_vars(Runs(j))

----------------------------------------------------------------------------
(* Properties, for any number of jobs started while earlier ones stop, fail *)
(* to start, or have left their slot and publication behind.               *)

\* replayST.Running keeps jobs apart: at most one is between its start and its
\* report, and Running says whether there is one.
OneJob ==
    LET Busy == {j \in Job : job[j] \in {"starting", "firing"}} IN
    /\ Cardinality(Busy) <= 1
    /\ running <=> Busy # {}

\* capture.go:90, "drop a stale slot, then create fresh": a job that finds all
\* earlier ones over and no slot held -- whatever publications they left --
\* finds its names free and loses no stream.
EveryJobReports == \A j \in fresh : result[j] \notin {"taken", "broken"}

\* capture.go:20, "creates a temporary publication + slot on Start and drops
\* them on Stop": a job that was stopped has left neither behind, though others
\* replaced its publication or took its slot's name meanwhile.  (A Start that
\* fails is not followed by Stop.)
NothingLeftBehind ==
    \A j \in Job : job[j] = "over" /\ result[j] \notin {"failed", "taken"} =>
        \A s \in Stack : slot[s] # j /\ publication[s] # j

\* Nothing but its own Stop takes the publication from a job that was started
\* when all others were over, however many are started once it has reported.
DropsItsOwn ==
    [][\A s \in Stack : publication[s] \in fresh /\ publication'[s] = None
            => capture'[publication[s]][s] = "stopped"]_vars

\* A client is answered with the job that was asked for last: its own unless
\* another was started before it looked, and never one before its own.
AnswersAreLatest == [][\A j \in Job : answer'[j] # answer[j] => answer'[j] = Latest]_vars

\* A job that was accepted comes to an end, unless its Start never returns.
JobsEnd ==
    \A j \in Job :
        <>[](job[j] = "starting") \/ (job[j] # "unasked" ~> job[j] = "over")
=============================================================================
