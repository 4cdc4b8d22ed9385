----------------------------- MODULE Recorder ------------------------------
(***************************************************************************)
(* The recording reverse proxy (internal/capture/capture.go): one          *)
(* goroutine per client request, serMu around a request's attribution      *)
(* window, mu around the output file, and Stop, which closes the server,   *)
(* the write-set source and the file one after the other while handlers    *)
(* are still running.                                                      *)
(*                                                                         *)
(* Every request the upstream executes commits one row, named after the    *)
(* request.  The source delivers rows without delay and keeps what no      *)
(* window took, as binlog.Capture does: delays are BinlogCapture's         *)
(* subject.                                                                *)
(***************************************************************************)
EXTENDS Naturals, FiniteSets, SequencesExt

CONSTANTS
    Req,          \* the requests clients send
    Free,         \* nobody holds serMu
    Leaving,      \* when a client may drop the connection: "waiting", "copying"
    MayStop,      \* may the operator stop the session at any time?
    MayFail       \* may the upstream, the file or the source fail?

ASSUME RecorderAssumption ==
    /\ Free \notin Req
    /\ Leaving \subseteq {"waiting", "copying"}
    /\ MayStop \in BOOLEAN
    /\ MayFail \in BOOLEAN

VARIABLES
    opts,      \* capture.Options as the caller gave them
    session,   \* how far Start and Stop have come
    pc,        \* each request's handler goroutine
    serMu,     \* the holder of r.serMu, or Free
    answered,  \* the requests whose ex.status the response has set
    ws,        \* what TakeWindow gave each handler
    executed,  \* the requests the upstream has executed, in order
    late,      \* those it executed after the proxy had given them up
    changes,   \* the source's buffer of rows no window has taken
    srcErr,    \* the source's sticky stream error
    file,      \* the entries written to the output file
    count      \* r.count

vars ==
    <<opts, session, pc, serMu, answered, ws, executed, late, changes, srcErr, file, count>>

Unattributed == [known |-> FALSE, rows |-> {}]      \* a nil write-set
Attributed(rows) == [known |-> TRUE, rows |-> rows]

Modes == [golden : BOOLEAN, serialize : BOOLEAN, source : BOOLEAN]
Windows == [known : BOOLEAN, rows : SUBSET Req]
Entries == [req : Req, answered : BOOLEAN, ws : Windows]

TypeOK ==
    /\ opts \in Modes
    /\ session \in {"new", "failed", "up", "serverClosed", "sourceStopped", "stopped"}
    /\ pc \in [Req -> {"new", "locking", "opening", "proxying", "copying",
                       "taking", "recording", "forwarding", "done", "panicked"}]
    /\ serMu \in Req \cup {Free}
    /\ answered \in SUBSET Req
    /\ ws \in [Req -> Windows]
    /\ executed \in Seq(Req)
    /\ late \in SUBSET Req
    /\ changes \in SUBSET Req
    /\ srcErr \in BOOLEAN
    /\ file \in Seq(Entries)
    /\ count \in Nat

\* Mutant of Serialized: a source does not force serialization.
SerializedOnRequest(o) == o.serialize

\* Start forces Serialize when there is a source.
Serialized(o) == o.serialize \/ o.source

\* What both callers ask for: a source only with golden; Serialize is Start's.
Asked == {o \in Modes : ~o.serialize /\ (o.source => o.golden)}

Init ==
    /\ \E o \in Asked : opts = [o EXCEPT !.serialize = Serialized(o)]
    /\ session = "new"
    /\ pc = [r \in Req |-> "new"]
    /\ serMu = Free
    /\ answered = {}
    /\ ws = [r \in Req |-> Unattributed]
    /\ executed = <<>>
    /\ late = {}
    /\ changes = {}
    /\ srcErr = FALSE
    /\ file = <<>>
    /\ count = 0

SourceRunning == opts.source /\ ~srcErr /\ session \in {"up", "serverClosed"}
OutputOpen == session \in {"up", "serverClosed", "sourceStopped"}

At(r, from) == pc[r] = from
Move(r, to) == pc' = [pc EXCEPT ![r] = to]

----------------------------------------------------------------------------
(* Start and Stop.                                                         *)

\* The file is opened, the source started, and the listener has not failed
\* within 150 ms; otherwise Start gives back what it had opened.
Start ==
    /\ session = "new"
    /\ session' \in IF MayFail THEN {"up", "failed"} ELSE {"up"}
    /\ UNCHANGED <<opts, pc, serMu, answered, ws, executed, late, changes, srcErr, file, count>>

\* srv.Close: no new request; handlers are not waited for.
CloseServer ==
    /\ MayStop
    /\ session = "up"
    /\ session' = "serverClosed"
    /\ UNCHANGED <<opts, pc, serMu, answered, ws, executed, late, changes, srcErr, file, count>>

StopSource ==
    /\ session = "serverClosed"
    /\ session' = "sourceStopped"
    /\ UNCHANGED <<opts, pc, serMu, answered, ws, executed, late, changes, srcErr, file, count>>

CloseOutputs ==
    /\ session = "sourceStopped"
    /\ session' = "stopped"
    /\ UNCHANGED <<opts, pc, serMu, answered, ws, executed, late, changes, srcErr, file, count>>

StreamDies ==
    /\ MayFail
    /\ SourceRunning
    /\ srcErr' = TRUE
    /\ UNCHANGED <<opts, session, pc, serMu, answered, ws, executed, late, changes, file, count>>

----------------------------------------------------------------------------
(* The handler.                                                            *)

\* The client's request is read in full before anything is locked.
Receive(r) ==
    /\ session = "up"
    /\ At(r, "new")
    /\ Move(r, IF ~opts.golden THEN "recording"
               ELSE IF opts.serialize THEN "locking" ELSE "opening")
    /\ UNCHANGED <<opts, session, serMu, answered, ws, executed, late, changes,
                   srcErr, file, count>>

Lock(r) ==
    /\ At(r, "locking")
    /\ serMu = Free
    /\ serMu' = r
    /\ Move(r, "opening")
    /\ UNCHANGED <<opts, session, answered, ws, executed, late, changes, srcErr, file, count>>

\* BeginWindow leaves the rows between windows to this request.
OpenWindow(r) ==
    /\ At(r, "opening")
    /\ Move(r, "proxying")
    /\ UNCHANGED <<opts, session, serMu, answered, ws, executed, late, changes,
                   srcErr, file, count>>

\* The upstream executes the request and commits its row.
Commit(r) ==
    /\ r \notin ToSet(executed)
    /\ executed' = Append(executed, r)
    /\ changes' = IF SourceRunning THEN changes \cup {r} ELSE changes
    /\ UNCHANGED <<opts, session, pc, serMu, answered, ws, srcErr, file, count>>

RoundTrip(r) == pc[r] \in {"proxying", "forwarding"}

Execute(r) ==
    /\ RoundTrip(r)
    /\ Commit(r)
    /\ UNCHANGED late

\* A round trip that is given up is cancelled on the proxy's side only: the
\* upstream still has the request, and may execute it at any time after.
GivenUp(r) ==
    \/ pc[r] \in {"taking", "done", "panicked"}
    \/ opts.golden /\ At(r, "recording")

ExecuteLate(r) ==
    /\ GivenUp(r)
    /\ Commit(r)
    /\ late' = late \cup {r}

\* ModifyResponse notes status and body before they are copied to the client.
Answer(r) ==
    /\ At(r, "proxying")
    /\ r \in ToSet(executed)
    /\ answered' = answered \cup {r}
    /\ Move(r, "copying")
    /\ UNCHANGED <<opts, session, serMu, ws, executed, late, changes, srcErr, file, count>>

\* ErrorHandler: 502 for whoever is left, ex stays empty and the handler goes on.
\* The upstream failed, or the context was cancelled: the client left while it
\* waited, or srv.Close closed its connection.
UpstreamFails(r) ==
    /\ MayFail \/ session # "up" \/ "waiting" \in Leaving
    /\ At(r, "proxying")
    /\ Move(r, "taking")
    /\ UNCHANGED <<opts, session, serMu, answered, ws, executed, late, changes,
                   srcErr, file, count>>

\* Mutant of Copied: serMu is released once the client has its answer.
CopiedAndUnlocked(r) ==
    /\ At(r, "copying")
    /\ Move(r, "taking")
    /\ serMu' = IF serMu = r THEN Free ELSE serMu
    /\ UNCHANGED <<opts, session, answered, ws, executed, late, changes, srcErr, file, count>>

Copied(r) ==
    /\ At(r, "copying")
    /\ Move(r, "taking")
    /\ UNCHANGED <<opts, session, serMu, answered, ws, executed, late, changes,
                   srcErr, file, count>>

Unlock(r) == serMu' = IF serMu = r THEN Free ELSE serMu

\* Mutant of CopyAborts: the Unlock is not deferred.
CopyAbortsLocked(r) ==
    /\ "copying" \in Leaving \/ session # "up"
    /\ At(r, "copying")
    /\ Move(r, "panicked")
    /\ UNCHANGED <<opts, session, serMu, answered, ws, executed, late, changes,
                   srcErr, file, count>>

\* ReverseProxy panics with ErrAbortHandler when the client is gone; only the
\* deferred Unlock still runs.
CopyAborts(r) ==
    /\ "copying" \in Leaving \/ session # "up"
    /\ At(r, "copying")
    /\ Move(r, "panicked")
    /\ Unlock(r)
    /\ UNCHANGED <<opts, session, answered, ws, executed, late, changes, srcErr, file, count>>

\* TakeWindow after a stream error fails and the write-set stays nil.
TakeWindow(r) ==
    /\ At(r, "taking")
    /\ Move(r, "recording")
    /\ IF opts.source /\ ~srcErr
       THEN /\ ws' = [ws EXCEPT ![r] = Attributed(changes)]
            /\ changes' = {}
       ELSE UNCHANGED <<ws, changes>>
    /\ UNCHANGED <<opts, session, serMu, answered, executed, late, srcErr, file, count>>

\* recordGolden and recordRequest, under mu.  A write error is noted and not
\* counted; a file that Stop has closed meanwhile is nil -- recordGolden
\* panics on it, recordRequest gets an error and goes on.
After(r) == IF opts.golden THEN Move(r, "done") /\ Unlock(r)
            ELSE Move(r, "forwarding") /\ UNCHANGED serMu

Record(r) ==
    /\ At(r, "recording")
    /\ OutputOpen
    /\ file' = Append(file, [req |-> r, answered |-> r \in answered, ws |-> ws[r]])
    /\ count' = count + 1
    /\ After(r)
    /\ UNCHANGED <<opts, session, answered, ws, executed, late, changes, srcErr>>

\* Mutant of WriteFails: the entry is counted all the same.
WriteFailsCounted(r) ==
    /\ At(r, "recording")
    /\ MayFail \/ ~OutputOpen
    /\ count' = count + 1
    /\ After(r)
    /\ UNCHANGED <<opts, session, answered, ws, executed, late, changes, srcErr, file>>

WriteFails(r) ==
    /\ At(r, "recording")
    /\ MayFail \/ ~OutputOpen
    /\ IF opts.golden /\ ~OutputOpen THEN Move(r, "panicked") /\ Unlock(r) ELSE After(r)
    /\ UNCHANGED <<opts, session, answered, ws, executed, late, changes, srcErr, file, count>>

\* Requests-only mode: the exchange after the request was recorded.
Forwarded(r) ==
    /\ At(r, "forwarding")
    /\ MayFail \/ session # "up" \/ "waiting" \in Leaving \/ r \in ToSet(executed)
    /\ Move(r, "done")
    /\ UNCHANGED <<opts, session, serMu, answered, ws, executed, late, changes,
                   srcErr, file, count>>

Handler(r) ==
    \/ Lock(r) \/ OpenWindow(r) \/ Execute(r) \/ Answer(r) \/ UpstreamFails(r)
    \/ Copied(r) \/ CopyAborts(r) \/ TakeWindow(r) \/ Record(r) \/ WriteFails(r)
    \/ Forwarded(r)

Next ==
    \/ Start \/ CloseServer \/ StopSource \/ CloseOutputs \/ StreamDies
    \/ \E r \in Req : Receive(r) \/ Handler(r) \/ ExecuteLate(r)

Spec == Init /\ [][Next]_vars

\* Goroutines are scheduled and the upstream answers or fails in the end -- but
\* need never execute what was given up; sync.Mutex hands serMu to a waiter that
\* is starving.
FairSpec ==
    /\ Spec
    /\ \A r \in Req : WF_vars(Handler(r)) /\ SF_vars(Lock(r))

----------------------------------------------------------------------------
(* Properties.                                                             *)

\* golden.go:36, "nil = not attributable at capture": a recorded write-set
\* that is not nil is exactly what its request wrote.
WritesetsExact ==
    \A i \in DOMAIN file :
        LET e == file[i] IN
        e.ws.known => e.ws.rows = {e.req} \cap ToSet(executed)

\* A client that leaves while its answer is copied takes no window (ReverseProxy
\* panics), one that leaves before it frees serMu for the next: the rows of
\* these requests have no entry of their own.
Strays == late \cup {r \in Req : pc[r] = "panicked"}

\* Whoever leaves, fails or stops the session, strays are all that can be wrong
\* in a write-set: it blames an entry for no other request that was answered,
\* and while the session is up it lacks no row of an entry that was executed in
\* its round trip.  It takes the serMu of a session with a source, a TakeWindow
\* on every path, and nil -- not an empty write-set -- for a dead stream.
OnlyStraysAreMisattributed ==
    \A i \in DOMAIN file :
        LET e == file[i] IN
        e.ws.known =>
            /\ e.ws.rows \subseteq {e.req} \cup Strays
            /\ session = "up" => (({e.req} \cap ToSet(executed)) \ late) \subseteq e.ws.rows

\* A serialized session replays in the order it ran: the file lists the
\* requests in the order in which the upstream executed them, although
\* clients arrive, wait and are answered in any order.  Only one that was
\* executed late comes before later ones that were executed first.
FileInExecutionOrder ==
    opts.golden /\ opts.serialize =>
        \A i, j \in DOMAIN file, k, l \in DOMAIN executed :
            /\ i < j /\ file[i].req \notin late
            /\ file[i].req = executed[k] /\ file[j].req = executed[l]
            => k < l

\* count is what the operator is told: the number of lines in the file, each
\* of a different request, whatever failed to be written.
CountMatchesFile ==
    /\ count = Len(file)
    /\ \A i, j \in DOMAIN file : file[i].req = file[j].req => i = j

\* A client that leaves, a panic on the closed file or a Stop never leaves
\* serMu locked: in the end every handler that has started is over.
HandlersEnd ==
    <>[](\A r \in Req : pc[r] \in {"new", "done", "panicked"})
=============================================================================
