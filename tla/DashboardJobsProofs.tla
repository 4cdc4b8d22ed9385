------------------------ MODULE DashboardJobsProofs ------------------------
(***************************************************************************)
(* Proofs about DashboardJobs, for every number of jobs, wherever a Start  *)
(* fails and however the Stop of one job overlaps with the next ones.      *)
(***************************************************************************)
EXTENDS DashboardJobs, FiniteSetTheorems, TLAPS

Asked == {j \in Job : job[j] # "unasked"}

Busy == {j \in Job : job[j] \in {"starting", "firing"}}

\* Jobs are asked for in order; only the last may be busy, and Running says so.
Sequential ==
    /\ \E n \in 0..MaxJobs : Asked = 1..n
    /\ \A j \in Busy, k \in Asked : k <= j
    /\ running <=> Busy # {}

\* The report that replayST names is never one of an earlier job.
Current == lastReport # None => lastReport \in Asked /\ \A k \in Asked : k <= lastReport

FailedToStart(j) == result[j] \in {"failed", "taken"}

\* What a job may have of a stack, by where it is.
Allowed(j) ==
    CASE job[j] = "unasked" -> {"off"}
      [] job[j] = "starting" -> {"off", "published", "streaming", "dead"}
      [] job[j] = "firing" -> {"streaming", "dead"}
      [] job[j] = "stopping" -> {"streaming", "dead", "closed", "stopped"}
      [] OTHER -> IF FailedToStart(j) THEN {"off", "published", "streaming", "dead"}
                                      ELSE {"stopped"}

Phases ==
    /\ \A j \in Job, s \in Stack :
          capture[j][s] \in IF s \in Stacks(j) THEN Allowed(j) ELSE {"off"}
    /\ \A j \in Job : job[j] \in {"unasked", "starting", "firing"} => result[j] = "none"
    /\ \A j \in Job : FailedToStart(j) => job[j] = "over"

\* A slot or publication is that of a job that has not let go of it; nobody
\* after that job has touched the publication.
Holds ==
    \A j \in Job, s \in Stack :
        /\ slot[s] = j => capture[j][s] \in {"streaming", "dead"}
        /\ publication[s] = j => capture[j][s] \in {"published", "streaming", "dead", "closed"}
        /\ publication[s] = j => \A k \in Job : k > j => capture[k][s] = "off"

\* A job that found no other at work has what it took.
Fresh ==
    \A j \in fresh :
        /\ j \in Asked
        /\ \A i \in Job : i < j => job[i] = "over"
        /\ result[j] \notin {"taken", "broken"}
        /\ j \in Busy => \A s \in Stack :
              /\ slot[s] \in {None, j}
              /\ capture[j][s] # "dead"
              /\ capture[j][s] # "off" => publication[s] = j

IInv == TypeOK /\ Sequential /\ Current /\ Phases /\ Holds /\ Fresh

----------------------------------------------------------------------------

LEMMA JobFacts == None \notin Job /\ \A j \in Job : j \in Nat /\ j >= 1 /\ j <= MaxJobs
  BY JobsAssumption DEF None, Job

LEMMA InitIInv == ASSUME Init PROVE IInv
<1> USE JobsAssumption DEF Init
<1>1. None \notin Job /\ Asked = {} /\ Busy = {}
  BY DEF None, Job, Asked, Busy
<1>2. TypeOK
  <2>1. running \in BOOLEAN
    OBVIOUS
  <2> QED
    BY <2>1 DEF TypeOK
<1>3. Sequential
  <2>1. 0 \in 0..MaxJobs /\ Asked = 1..0
    BY <1>1
  <2> QED
    BY <1>1, <2>1 DEF Sequential
<1>4. Current /\ Phases /\ Holds /\ Fresh
  BY <1>1 DEF Current, Phases, Allowed, FailedToStart, Holds, Fresh
<1> QED
  BY <1>2, <1>3, <1>4 DEF IInv

\* The two-level update of capture.
LEMMA CaptureSet ==
    ASSUME TypeOK, NEW j \in Job, NEW s \in Stack,
           NEW state \in {"published", "streaming", "dead", "closed", "stopped"},
           SetCapture(j, s, state)
    PROVE  /\ capture' \in [Job -> [Stack -> {"off", "published", "streaming", "dead",
                                              "closed", "stopped"}]]
           /\ \A i \in Job, p \in Stack :
                capture'[i][p] = IF i = j /\ p = s THEN state ELSE capture[i][p]
  BY DEF SetCapture, TypeOK

\* A step of job j that leaves it where it is, and does something to a stack.
OnStack(j, s) ==
    Publish(j, s) \/ Stream(j, s) \/ StreamDies(j, s) \/ CloseStream(j, s) \/ DropPublication(j, s)

\* Such a step changes one stack's publication or slot and one capture.
LEMMA OnStackChanges ==
    ASSUME TypeOK, NEW j \in Job, NEW s \in Stack, OnStack(j, s)
    PROVE  /\ UNCHANGED <<kind, job, running, lastReport, result, fresh, answer>>
           /\ publication' \in [Stack -> Job \cup {None}] /\ slot' \in [Stack -> Job \cup {None}]
           /\ \A p \in Stack \ {s} : publication'[p] = publication[p] /\ slot'[p] = slot[p]
           /\ \E state \in {"published", "streaming", "dead", "closed", "stopped"} :
                 SetCapture(j, s, state)
<1>1. UNCHANGED <<kind, job, running, lastReport, result, fresh, answer>>
  BY DEF OnStack, Publish, Stream, StreamDies, CloseStream, DropPublication
<1>2. \/ publication' = publication
      \/ publication' = [publication EXCEPT ![s] = j]
      \/ publication' = [publication EXCEPT ![s] = None]
  BY DEF OnStack, Publish, Stream, StreamDies, CloseStream, DropPublication
<1>3. \/ slot' = slot
      \/ slot' = [slot EXCEPT ![s] = j]
      \/ slot' = [slot EXCEPT ![s] = IF @ = j THEN None ELSE @]
  BY DEF OnStack, Publish, Stream, StreamDies, CloseStream, DropPublication
<1>4. /\ publication' \in [Stack -> Job \cup {None}]
      /\ \A p \in Stack \ {s} : publication'[p] = publication[p]
  BY <1>2 DEF TypeOK
<1>5. /\ slot' \in [Stack -> Job \cup {None}]
      /\ \A p \in Stack \ {s} : slot'[p] = slot[p]
  BY <1>3 DEF TypeOK
<1>6. \E state \in {"published", "streaming", "dead", "closed", "stopped"} : SetCapture(j, s, state)
  BY DEF OnStack, Publish, Stream, StreamDies, CloseStream, DropPublication
<1> QED
  BY <1>1, <1>4, <1>5, <1>6

\* What the steps do to their stack.
Takes(j, s, from, to, pub, held) ==
    /\ capture[j][s] = from /\ capture'[j][s] = to
    /\ publication'[s] = pub /\ slot'[s] = held

LEMMA OnStackTakes ==
    ASSUME TypeOK, NEW j \in Job, NEW s \in Stack, OnStack(j, s)
    PROVE  \/ /\ Takes(j, s, "off", "published", j, slot[s])
              /\ job[j] = "starting" /\ s \in Stacks(j)
           \/ /\ Takes(j, s, "published", "streaming", publication[s], j)
              /\ job[j] = "starting" /\ slot[s] = None
           \/ /\ Takes(j, s, "streaming", "dead", publication[s], slot[s])
              /\ job[j] \in {"starting", "firing"} /\ publication[s] = None
           \/ /\ \E from \in {"streaming", "dead"} :
                    Takes(j, s, from, "closed", publication[s],
                          IF slot[s] = j THEN None ELSE slot[s])
              /\ job[j] = "stopping"
           \/ Takes(j, s, "closed", "stopped", None, slot[s])
<1>1. \A t \in {"published", "streaming", "dead", "closed", "stopped"} :
        SetCapture(j, s, t) => capture'[j][s] = t
  BY CaptureSet
<1>2. CASE Publish(j, s)
  BY <1>1, <1>2 DEF Publish, Takes, TypeOK
<1>3. CASE Stream(j, s)
  BY <1>1, <1>3 DEF Stream, Takes, TypeOK
<1>4. CASE StreamDies(j, s)
  BY <1>1, <1>4 DEF StreamDies, Takes, TypeOK
<1>5. CASE CloseStream(j, s)
  BY <1>1, <1>5 DEF CloseStream, Takes, TypeOK
<1>6. CASE DropPublication(j, s)
  BY <1>1, <1>6 DEF DropPublication, Takes, TypeOK
<1> QED
  BY <1>2, <1>3, <1>4, <1>5, <1>6 DEF OnStack

LEMMA OnStackKeeps ==
    ASSUME IInv, NEW j \in Job, NEW s \in Stack, OnStack(j, s)
    PROVE  IInv'
<1> USE DEF IInv
<1>1. /\ UNCHANGED <<kind, job, running, lastReport, result, fresh, answer>>
      /\ publication' \in [Stack -> Job \cup {None}] /\ slot' \in [Stack -> Job \cup {None}]
      /\ \A p \in Stack \ {s} : publication'[p] = publication[p] /\ slot'[p] = slot[p]
  BY OnStackChanges
<1>2. PICK state \in {"published", "streaming", "dead", "closed", "stopped"} :
          SetCapture(j, s, state)
  BY OnStackChanges
<1>3. /\ capture' \in [Job -> [Stack -> {"off", "published", "streaming", "dead",
                                         "closed", "stopped"}]]
      /\ \A i \in Job, p \in Stack :
           capture'[i][p] = IF i = j /\ p = s THEN state ELSE capture[i][p]
  BY <1>2, CaptureSet
<1>4. \/ /\ Takes(j, s, "off", "published", j, slot[s])
         /\ job[j] = "starting" /\ s \in Stacks(j)
      \/ /\ Takes(j, s, "published", "streaming", publication[s], j)
         /\ job[j] = "starting" /\ slot[s] = None
      \/ /\ Takes(j, s, "streaming", "dead", publication[s], slot[s])
         /\ job[j] \in {"starting", "firing"} /\ publication[s] = None
      \/ /\ \E from \in {"streaming", "dead"} :
               Takes(j, s, from, "closed", publication[s],
                     IF slot[s] = j THEN None ELSE slot[s])
         /\ job[j] = "stopping"
      \/ Takes(j, s, "closed", "stopped", None, slot[s])
  BY OnStackTakes
<1>5. capture'[j][s] = state
  BY <1>3
<1>6. TypeOK'
  BY <1>1, <1>3 DEF TypeOK
<1>7. Sequential' /\ Current'
  BY <1>1 DEF Sequential, Current, Asked, Busy
<1>8. capture[j][s] \in IF s \in Stacks(j) THEN Allowed(j) ELSE {"off"}
  BY DEF Phases
<1>9. Phases'
  <2>1. \A i \in Job : Allowed(i)' = Allowed(i) /\ Stacks(i)' = Stacks(i)
    BY <1>1 DEF Allowed, Stacks, FailedToStart
  <2>2. s \in Stacks(j) /\ state \in Allowed(j)
    BY <1>4, <1>5, <1>8 DEF Takes, Allowed
  <2>3. \A i \in Job, p \in Stack :
           capture'[i][p] \in IF p \in Stacks(i) THEN Allowed(i) ELSE {"off"}
    BY <1>3, <2>2 DEF Phases
  <2> QED
    BY <1>1, <2>1, <2>3 DEF Phases, FailedToStart
<1>10. Holds'
  <2> SUFFICES ASSUME NEW i \in Job, NEW p \in Stack
               PROVE  /\ slot'[p] = i => capture'[i][p] \in {"streaming", "dead"}
                      /\ publication'[p] = i =>
                            capture'[i][p] \in {"published", "streaming", "dead", "closed"}
                      /\ publication'[p] = i => \A k \in Job : k > i => capture'[k][p] = "off"
    BY DEF Holds
  <2>1. /\ slot[p] = i => capture[i][p] \in {"streaming", "dead"}
        /\ publication[p] = i => capture[i][p] \in {"published", "streaming", "dead", "closed"}
        /\ publication[p] = i => \A k \in Job : k > i => capture[k][p] = "off"
    BY DEF Holds
  <2>2. CASE p # s
    BY <1>1, <1>3, <2>1, <2>2
  <2>3. CASE p = s /\ i = j
    <3>1. slot'[s] = j => state \in {"streaming", "dead"}
      BY <1>4, <1>5, <2>1, <2>3, JobFacts DEF Takes
    <3>2. publication'[s] = j => state \in {"published", "streaming", "dead", "closed"}
      BY <1>4, <1>5, <2>1, <2>3, JobFacts DEF Takes
    <3>3. publication'[s] = j /\ publication[s] # j => job[j] = "starting"
      BY <1>4, JobFacts DEF Takes
    <3>4. job[j] = "starting" => \A k \in Job : k > j => capture[k][s] = "off"
      <4> SUFFICES ASSUME job[j] = "starting", NEW k \in Job, k > j PROVE capture[k][s] = "off"
        OBVIOUS
      <4>1. ~(k <= j)
        BY JobFacts
      <4>2. job[k] = "unasked"
        BY <4>1 DEF Sequential, Busy, Asked
      <4> QED
        BY <4>2 DEF Phases, Allowed
    <3>5. publication'[s] = j => \A k \in Job : k > j => capture'[k][s] = "off"
      <4> SUFFICES ASSUME publication'[s] = j, NEW k \in Job, k > j PROVE capture'[k][s] = "off"
        OBVIOUS
      <4>1. k # j
        BY JobFacts
      <4> QED
        BY <1>3, <2>1, <2>3, <3>3, <3>4, <4>1
    <3> QED
      BY <1>5, <2>3, <3>1, <3>2, <3>5
  <2>4. CASE p = s /\ i # j
    <3>1. capture'[i][s] = capture[i][s] /\ i # None
      BY <1>3, <2>4, JobFacts
    <3>2. slot'[s] = i => slot[s] = i
      BY <1>4, <2>4, <3>1 DEF Takes
    <3>3. publication'[s] = i => publication[s] = i
      BY <1>4, <2>4, <3>1 DEF Takes
    <3>4. publication'[s] = i => \A k \in Job : k > i => capture'[k][s] = "off"
      <4> SUFFICES ASSUME publication'[s] = i, NEW k \in Job, k > i PROVE capture'[k][s] = "off"
        OBVIOUS
      <4>1. capture[k][s] = "off"
        BY <2>1, <2>4, <3>3
      <4>2. k # j
        BY <1>4, <2>4, <3>3, <4>1 DEF Takes
      <4> QED
        BY <1>3, <4>1, <4>2
    <3> QED
      BY <2>1, <2>4, <3>1, <3>2, <3>3, <3>4
  <2> QED
    BY <2>2, <2>3, <2>4
<1>11. Fresh'
  <2> SUFFICES ASSUME NEW i \in fresh, i \in Busy, NEW p \in Stack
               PROVE  /\ slot'[p] \in {None, i}
                      /\ capture'[i][p] # "dead"
                      /\ capture'[i][p] # "off" => publication'[p] = i
    BY <1>1 DEF Fresh, Asked, Busy
  <2>1. /\ slot[p] \in {None, i}
        /\ capture[i][p] # "dead"
        /\ capture[i][p] # "off" => publication[p] = i
        /\ \A k \in Job : k < i => job[k] = "over"
        /\ i \in Job
    BY DEF Fresh, TypeOK
  <2>2. i = j
    <3>1. job[j] # "over" /\ j \in Asked
      BY <1>4, <1>8 DEF Takes, Allowed, Asked
    <3>2. j <= i
      BY <3>1 DEF Sequential
    <3> QED
      BY <2>1, <3>1, <3>2, JobFacts
  <2>3. CASE p # s
    BY <1>1, <1>3, <2>1, <2>3
  <2>4. CASE p = s
    <3>1. job[j] \in {"starting", "firing"}
      BY <2>2 DEF Busy
    <3>2. capture[j][s] # "closed"
      BY <1>8, <3>1 DEF Allowed
    <3> QED
      BY <1>4, <1>5, <2>1, <2>2, <2>4, <3>1, <3>2, JobFacts DEF Takes
  <2> QED
    BY <2>3, <2>4
<1> QED
  BY <1>6, <1>7, <1>9, <1>10, <1>11

----------------------------------------------------------------------------

LEMMA ReplayStartKeeps == ASSUME IInv, NEW j \in Job, ReplayStart(j) PROVE IInv'
<1> USE DEF IInv
<1>1. /\ job' = [job EXCEPT ![j] = "starting"] /\ running' = TRUE /\ lastReport' = None
      /\ UNCHANGED <<kind, capture, publication, slot, result, answer>>
      /\ fresh' = fresh \cup IF Undisturbed(j) THEN {j} ELSE {}
      /\ j \notin Asked /\ \A i \in Job : i < j => i \in Asked
      /\ ~running
  BY DEF ReplayStart, Asked
<1>2. TypeOK'
  BY <1>1 DEF TypeOK
<1>3. Busy = {}
  BY <1>1 DEF Sequential
<1>4. /\ Asked' = Asked \cup {j} /\ Busy' = {j}
      /\ \A i \in Job \ {j} : job'[i] = job[i]
      /\ job'[j] = "starting"
  <2>1. job'[j] = "starting" /\ \A i \in Job \ {j} : job'[i] = job[i]
    BY <1>1 DEF TypeOK
  <2>2. Asked' = Asked \cup {j}
    BY <2>1 DEF Asked
  <2>3. Busy' = Busy \cup {j}
    BY <2>1 DEF Busy
  <2> QED
    BY <1>3, <2>1, <2>2, <2>3
<1>5. Sequential'
  <2>1. PICK n \in 0..MaxJobs : Asked = 1..n
    BY DEF Sequential
  <2>2. j = n + 1
    BY <1>1, <2>1, JobsAssumption DEF Job
  <2>3. Asked' = 1..(n + 1) /\ n + 1 \in 0..MaxJobs
    BY <1>4, <2>1, <2>2, JobsAssumption DEF Job
  <2>4. \A k \in Asked' : k <= j
    BY <2>2, <2>3
  <2> QED
    BY <1>1, <1>4, <2>3, <2>4 DEF Sequential
<1>6. Current'
  BY <1>1 DEF Current
<1>7. ~FailedToStart(j) /\ \A s \in Stack : capture[j][s] = "off"
  BY <1>1 DEF Phases, Allowed, Asked
<1>8. Phases'
  <2>1. \A i \in Job \ {j} : Allowed(i)' = Allowed(i) /\ Stacks(i)' = Stacks(i)
    BY <1>1, <1>4 DEF Allowed, Stacks, FailedToStart
  <2>2. "off" \in Allowed(j)' /\ Stacks(j)' = Stacks(j)
    BY <1>1, <1>4 DEF Allowed, Stacks
  <2>3. \A i \in Job, s \in Stack :
           capture'[i][s] \in IF s \in Stacks(i)' THEN Allowed(i)' ELSE {"off"}
    BY <1>1, <1>7, <2>1, <2>2 DEF Phases
  <2>4. result[j] = "none"
    BY <1>1 DEF Phases, Asked
  <2> QED
    BY <1>1, <1>4, <2>3, <2>4 DEF Phases, FailedToStart
<1>9. Holds'
  BY <1>1 DEF Holds
<1>10. Fresh'
  <2> SUFFICES ASSUME NEW i \in fresh'
               PROVE  /\ i \in Asked'
                      /\ \A k \in Job : k < i => job'[k] = "over"
                      /\ result'[i] \notin {"taken", "broken"}
                      /\ i \in Busy' => \A s \in Stack :
                            /\ slot'[s] \in {None, i}
                            /\ capture'[i][s] # "dead"
                            /\ capture'[i][s] # "off" => publication'[s] = i
    BY DEF Fresh
  <2>1. CASE i \in fresh
    <3>1. i \in Asked /\ i # j /\ i \in Job /\ ~(j < i)
      BY <1>1, <2>1 DEF Fresh, Asked
    <3> QED
      BY <1>1, <1>4, <2>1, <3>1 DEF Fresh
  <2>2. CASE i = j /\ Undisturbed(j)
    <3>1. result[j] \notin {"taken", "broken"}
      BY <1>1 DEF Phases, Asked
    <3>2. \A k \in Job : k < j => k # j
      BY JobFacts
    <3> QED
      BY <1>1, <1>4, <1>7, <2>2, <3>1, <3>2 DEF Undisturbed
  <2> QED
    BY <1>1, <2>1, <2>2
<1> QED
  BY <1>2, <1>5, <1>6, <1>8, <1>9, <1>10

\* A job goes on to its next phase.
LEMMA PhaseKeeps ==
    ASSUME IInv, NEW j \in Job, StartFails(j) \/ Fire(j) \/ Report(j) \/ Over(j)
    PROVE  IInv'
<1> USE DEF IInv
<1>1. /\ UNCHANGED <<kind, capture, publication, slot, fresh, answer>>
      /\ \/ /\ StartFails(j) /\ job[j] = "starting"
            /\ \E how \in {"taken", "failed"} : Finish(j, how, "over")
         \/ /\ Fire(j) /\ job[j] = "starting" /\ job' = [job EXCEPT ![j] = "firing"]
            /\ UNCHANGED <<running, lastReport, result>>
         \/ /\ Report(j) /\ job[j] = "firing"
            /\ \E how \in {"report", "broken", "unwritten"} : Finish(j, how, "stopping")
         \/ /\ Over(j) /\ job[j] = "stopping" /\ job' = [job EXCEPT ![j] = "over"]
            /\ UNCHANGED <<running, lastReport, result>>
  BY DEF StartFails, Fire, Report, Over
<1>2. /\ j \in Asked
      /\ job' \in [Job -> {"unasked", "starting", "firing", "stopping", "over"}]
      /\ \A i \in Job \ {j} : job'[i] = job[i] /\ result'[i] = result[i]
      /\ result' \in [Job -> {"none", "report", "broken", "unwritten", "failed", "taken"}]
      /\ \/ /\ job[j] = "starting" /\ job'[j] = "over"
            /\ result'[j] \in {"taken", "failed"} /\ StartFails(j)
         \/ /\ job[j] = "starting" /\ job'[j] = "firing"
            /\ result'[j] = result[j] /\ Fire(j)
         \/ /\ job[j] = "firing" /\ job'[j] = "stopping"
            /\ result'[j] \in {"report", "broken", "unwritten"} /\ Report(j)
         \/ /\ job[j] = "stopping" /\ job'[j] = "over"
            /\ result'[j] = result[j] /\ Over(j)
  <2>1. ASSUME NEW how \in {"report", "broken", "unwritten", "failed", "taken"},
               NEW state \in {"firing", "stopping", "over"}, Finish(j, how, state)
        PROVE  /\ job' \in [Job -> {"unasked", "starting", "firing", "stopping", "over"}]
               /\ \A i \in Job \ {j} : job'[i] = job[i] /\ result'[i] = result[i]
               /\ result' \in [Job -> {"none", "report", "broken", "unwritten", "failed", "taken"}]
               /\ job'[j] = state /\ result'[j] = how
    BY <2>1 DEF Finish, TypeOK
  <2>2. CASE StartFails(j) \/ Report(j)
    BY <1>1, <2>1, <2>2 DEF Asked, Fire, Over, StartFails, Report
  <2>3. CASE Fire(j) \/ Over(j)
    BY <1>1, <2>3 DEF Asked, StartFails, Report, Fire, Over, TypeOK
  <2> QED
    BY <2>2, <2>3
<1>3. Asked' = Asked
  BY <1>2 DEF Asked
<1>4. /\ lastReport' \in {lastReport, j}
      /\ lastReport' # lastReport => j \in Busy
      /\ running' \in BOOLEAN
  BY <1>1 DEF Finish, Busy, TypeOK
<1>5. TypeOK'
  BY <1>1, <1>2, <1>4 DEF TypeOK
<1>6. Sequential'
  <2>1. CASE StartFails(j) \/ Report(j)
    <3>1. j \in Busy /\ ~running' /\ job'[j] \notin {"starting", "firing"}
      BY <1>2, <2>1 DEF StartFails, Report, Finish, Busy
    <3>2. Busy' = {}
      <4> SUFFICES ASSUME NEW i \in Job, job'[i] \in {"starting", "firing"} PROVE FALSE
        BY DEF Busy
      <4>1. i # j /\ i \in Busy /\ i \in Asked
        BY <1>2, <3>1 DEF Busy, Asked
      <4>2. i <= j /\ j <= i
        BY <1>2, <3>1, <4>1 DEF Sequential
      <4> QED
        BY <4>1, <4>2, JobFacts
    <3> QED
      BY <1>3, <3>1, <3>2 DEF Sequential
  <2>2. CASE Fire(j) \/ Over(j)
    <3>1. running' = running
      BY <2>2 DEF Fire, Over
    <3>2. job[j] \in {"starting", "firing"} <=> job'[j] \in {"starting", "firing"}
      BY <1>2, <2>2 DEF Fire, Over, TypeOK
    <3>3. Busy' = Busy
      BY <1>2, <3>2 DEF Busy
    <3> QED
      BY <1>3, <3>1, <3>3 DEF Sequential
  <2> QED
    BY <2>1, <2>2
<1>7. Current'
  BY <1>2, <1>3, <1>4 DEF Current, Sequential
<1>8. Phases'
  <2>1. \A i \in Job : Stacks(i)' = Stacks(i)
    BY <1>1 DEF Stacks
  <2>2. \A i \in Job \ {j} : Allowed(i)' = Allowed(i) /\ (FailedToStart(i)' => FailedToStart(i))
    BY <1>2 DEF Allowed, FailedToStart
  <2>3. ASSUME NEW s \in Stack
        PROVE  capture[j][s] \in IF s \in Stacks(j) THEN Allowed(j)' ELSE {"off"}
    <3>1. capture[j][s] \in IF s \in Stacks(j) THEN Allowed(j) ELSE {"off"}
      BY DEF Phases
    <3>2. FailedToStart(j) => job[j] = "over"
      BY DEF Phases
    <3> QED
      BY <1>2, <3>1, <3>2 DEF Allowed, FailedToStart, Fire, Over
  <2>4. /\ FailedToStart(j)' => job'[j] = "over"
        /\ job'[j] \in {"unasked", "starting", "firing"} => result'[j] = "none"
    BY <1>2 DEF Phases, FailedToStart
  <2> QED
    BY <1>1, <1>2, <2>1, <2>2, <2>3, <2>4 DEF Phases, FailedToStart
<1>9. Holds'
  BY <1>1 DEF Holds
<1>10. Fresh'
  <2> SUFFICES ASSUME NEW i \in fresh
               PROVE  /\ i \in Asked
                      /\ \A k \in Job : k < i => job'[k] = "over"
                      /\ result'[i] \notin {"taken", "broken"}
                      /\ i \in Busy' => \A s \in Stack :
                            /\ slot[s] \in {None, i}
                            /\ capture[i][s] # "dead"
                            /\ capture[i][s] # "off" => publication[s] = i
    BY <1>1, <1>3 DEF Fresh
  <2>1. /\ i \in Asked /\ i \in Job
        /\ \A k \in Job : k < i => job[k] = "over"
        /\ result[i] \notin {"taken", "broken"}
        /\ i \in Busy => \A s \in Stack :
              /\ slot[s] \in {None, i}
              /\ capture[i][s] # "dead"
              /\ capture[i][s] # "off" => publication[s] = i
    BY DEF Fresh, Asked
  <2>2. \A k \in Job : k < i => job'[k] = "over"
    BY <1>2, <2>1
  <2>3. i \in Busy' => i \in Busy
    BY <1>2, <2>1 DEF Busy
  <2>4. result'[i] \notin {"taken", "broken"}
    <3>1. CASE i # j
      BY <1>2, <2>1, <3>1
    <3>2. CASE i = j /\ StartFails(j)
      <4>1. \A s \in Stack : capture[j][s] = "published" => slot[s] = None
        BY <2>1, <3>2 DEF StartFails, Busy, Holds
      <4>2. \A s \in Stacks(j) : s \in Stack
        BY DEF Stacks, Stack
      <4>3. Finish(j, "failed", "over")
        BY <3>2, <4>1, <4>2 DEF StartFails
      <4> QED
        BY <3>2, <4>3 DEF Finish, TypeOK
    <3>3. CASE i = j /\ Report(j)
      <4>1. \A s \in Stacks(j) : s \in Stack /\ capture[j][s] = "streaming"
        BY <2>1, <3>3 DEF Report, Busy, Phases, Allowed, Stacks, Stack
      <4>2. \E how \in {"unwritten", "report"} : Finish(j, how, "stopping")
        BY <3>3, <4>1 DEF Report
      <4> QED
        BY <3>3, <4>2 DEF Finish, TypeOK
    <3>4. CASE i = j /\ (Fire(j) \/ Over(j))
      BY <2>1, <3>4 DEF Fire, Over
    <3> QED
      BY <3>1, <3>2, <3>3, <3>4
  <2> QED
    BY <2>1, <2>2, <2>3, <2>4
<1> QED
  BY <1>5, <1>6, <1>7, <1>8, <1>9, <1>10

\* The latest job is the last of those that were asked for.
LEMMA LatestIs ==
    ASSUME Sequential, Asked # {}
    PROVE  Latest \in Asked /\ \A k \in Asked : k <= Latest
<1>1. PICK n \in 0..MaxJobs : Asked = 1..n
  BY DEF Sequential
<1>2. n \in Asked /\ \A k \in Asked : k <= n
  BY <1>1, JobsAssumption
<1>3. \E i \in Job : job[i] # "unasked" /\ \A k \in Job : job[k] # "unasked" => k <= i
  BY <1>2 DEF Asked
<1>4. /\ Latest \in Job /\ job[Latest] # "unasked"
      /\ \A k \in Job : job[k] # "unasked" => k <= Latest
  BY <1>3 DEF Latest
<1> QED
  BY <1>4 DEF Asked

LEMMA PollKeeps == ASSUME IInv, NEW j \in Job, PollReplay(j) PROVE IInv'
<1> USE DEF IInv
<1>1. /\ UNCHANGED <<kind, job, capture, publication, slot, running, lastReport, result, fresh>>
      /\ j \in Asked
  BY DEF PollReplay, Asked
<1>2. Latest \in Job
  BY <1>1, LatestIs DEF Asked
<1>3. /\ answer' = [answer EXCEPT ![j] = IF lastReport # None THEN lastReport ELSE Latest]
      /\ lastReport \in Job \cup {None}
  BY DEF PollReplay, TypeOK
<1>4. TypeOK'
  BY <1>1, <1>2, <1>3 DEF TypeOK
<1>5. Sequential' /\ Current'
  BY <1>1 DEF Sequential, Current, Asked, Busy
<1>6. Phases' /\ Holds' /\ Fresh'
  BY <1>1 DEF Phases, Allowed, FailedToStart, Stacks, Holds, Fresh, Asked, Busy
<1> QED
  BY <1>4, <1>5, <1>6

----------------------------------------------------------------------------

LEMMA NextCases ==
    ASSUME Next
    PROVE  \E j \in Job :
              \/ ReplayStart(j) \/ PollReplay(j)
              \/ StartFails(j) \/ Fire(j) \/ Report(j) \/ Over(j)
              \/ \E s \in Stack : OnStack(j, s)
  BY DEF Next, Start, Runs, OnStack

LEMMA NextIInv == ASSUME IInv, [Next]_vars PROVE IInv'
<1>1. CASE Next
  <2>1. PICK j \in Job : \/ ReplayStart(j) \/ PollReplay(j)
                         \/ StartFails(j) \/ Fire(j) \/ Report(j) \/ Over(j)
                         \/ \E s \in Stack : OnStack(j, s)
    BY <1>1, NextCases
  <2> QED
    BY <2>1, ReplayStartKeeps, PollKeeps, PhaseKeeps, OnStackKeeps
<1>2. CASE UNCHANGED vars
  <2>1. TypeOK'
    BY <1>2 DEF vars, IInv, TypeOK
  <2>2. Sequential' /\ Current'
    BY <1>2 DEF vars, IInv, Sequential, Current, Asked, Busy
  <2>3. Phases' /\ Holds' /\ Fresh'
    BY <1>2 DEF vars, IInv, Phases, Allowed, FailedToStart, Stacks, Holds, Fresh, Asked, Busy
  <2> QED
    BY <2>1, <2>2, <2>3 DEF IInv
<1> QED
  BY <1>1, <1>2

LEMMA Invariant == Spec => []IInv
<1>1. Init => IInv
  BY InitIInv
<1>2. IInv /\ [Next]_vars => IInv'
  BY NextIInv
<1> QED
  BY <1>1, <1>2, PTL DEF Spec

\* Every variable keeps to its values: in particular, PollReplay always finds
\* a job to name (internal/mcp/tools.go, pollReplay).
THEOREM TypeCorrect == Spec => []TypeOK
<1>1. IInv => TypeOK
  BY DEF IInv
<1> QED
  BY <1>1, Invariant, PTL

\* The one test of replayST.Running in replayStart, under its mutex, keeps jobs
\* apart however many are asked for (internal/ui/ui.go, replayStart).
THEOREM OneJobAtATime == Spec => []OneJob
<1>1. ASSUME IInv PROVE OneJob
  <2>1. /\ running <=> Busy # {}
        /\ \A i, j \in Busy : i <= j /\ i \in Nat
    BY <1>1, JobFacts DEF IInv, Sequential, Busy, Asked
  <2>2. CASE Busy = {}
    BY <2>1, <2>2, FS_EmptySet DEF OneJob, Busy
  <2>3. CASE Busy # {}
    <3>1. PICK j \in Busy : TRUE
      BY <2>3
    <3>2. \A i \in Busy : i = j
      BY <2>1, <3>1
    <3>3. Busy = {j}
      BY <3>1, <3>2
    <3> QED
      BY <2>1, <3>3, FS_Singleton DEF OneJob, Busy
  <2> QED
    BY <2>2, <2>3
<1> QED
  BY <1>1, Invariant, PTL

\* A job that is started when all earlier ones are over finds its names free and
\* keeps its streams, whatever those left behind (internal/pg/capture.go, Start).
THEOREM FreshJobsReport == Spec => []EveryJobReports
<1>1. IInv => EveryJobReports
  BY DEF IInv, Fresh, EveryJobReports
<1> QED
  BY <1>1, Invariant, PTL

\* A job that was stopped holds no slot and no publication, however its Stop
\* overlapped with other jobs (internal/pg/capture.go, Stop).
THEOREM StoppedJobsCleanUp == Spec => []NothingLeftBehind
<1>1. ASSUME IInv, NEW j \in Job, job[j] = "over", ~FailedToStart(j), NEW s \in Stack
      PROVE  slot[s] # j /\ publication[s] # j
  <2>1. capture[j][s] \in {"off", "stopped"}
    BY <1>1 DEF IInv, Phases, Allowed
  <2> QED
    BY <1>1, <2>1 DEF IInv, Holds
<1>2. IInv => NothingLeftBehind
  BY <1>1 DEF NothingLeftBehind, FailedToStart
<1> QED
  BY <1>2, Invariant, PTL

\* Although jobs overlap on the one status, a client is never answered with a
\* job before the one asked for last (internal/mcp/tools.go, pollReplay).
THEOREM AnswersNeverStale == Spec => AnswersAreLatest
<1>1. ASSUME IInv, Next, NEW j \in Job, answer'[j] # answer[j]
      PROVE  answer'[j] = Latest
  <2>1. PICK i \in Job : PollReplay(i)
    <3>1. ~\E k \in Job, s \in Stack : OnStack(k, s)
      BY <1>1, OnStackChanges DEF IInv
    <3>2. ~\E k \in Job : ReplayStart(k) \/ StartFails(k) \/ Fire(k) \/ Report(k) \/ Over(k)
      BY <1>1 DEF ReplayStart, StartFails, Fire, Report, Over
    <3> QED
      BY <1>1, <3>1, <3>2, NextCases
  <2>2. i \in Asked /\ Sequential /\ Current
    BY <1>1, <2>1 DEF PollReplay, Asked, IInv
  <2>3. Latest \in Asked /\ \A k \in Asked : k <= Latest
    BY <2>2, LatestIs
  <2>4. lastReport # None => lastReport = Latest
    BY <2>2, <2>3, JobFacts DEF Current, Asked
  <2>5. answer' = [answer EXCEPT ![i] = Latest]
    BY <2>1, <2>4 DEF PollReplay
  <2> QED
    BY <1>1, <2>5 DEF IInv, TypeOK
<1>2. IInv /\ [Next]_vars =>
        [\A j \in Job : answer'[j] # answer[j] => answer'[j] = Latest]_vars
  BY <1>1
<1> QED
  BY <1>2, Invariant, PTL DEF Spec, AnswersAreLatest

\* Although DropPublication goes by the name alone, only its own Stop takes the
\* publication of a job that was started when all others were over
\* (internal/pg/capture.go, Stop).
THEOREM FreshKeepTheirs == Spec => DropsItsOwn
<1>1. ASSUME IInv, Next, NEW s \in Stack, publication[s] \in fresh, publication'[s] = None
      PROVE  capture'[publication[s]][s] = "stopped"
  <2>1. publication[s] \in Job /\ publication'[s] # publication[s]
    BY <1>1, JobFacts DEF IInv, TypeOK
  <2>2. PICK j \in Job, p \in Stack : OnStack(j, p)
    BY <1>1, <2>1, NextCases DEF ReplayStart, PollReplay, StartFails, Fire, Report, Over
  <2>3. p = s
    BY <1>1, <2>1, <2>2, OnStackChanges DEF IInv
  <2>4. Takes(j, s, "closed", "stopped", None, slot[s])
    BY <1>1, <2>1, <2>2, <2>3, OnStackTakes, JobFacts DEF IInv, Takes
  <2>5. job[j] = "stopping"
    BY <1>1, <2>4 DEF IInv, Phases, Allowed, Takes, TypeOK
  <2>6. ~(j > publication[s])
    BY <1>1, <2>1, <2>4 DEF IInv, Holds, Takes
  <2>7. ~(j < publication[s])
    BY <1>1, <2>5 DEF IInv, Fresh
  <2>8. j = publication[s]
    BY <2>1, <2>6, <2>7, JobFacts
  <2> QED
    BY <2>4, <2>8 DEF Takes
<1>2. IInv /\ [Next]_vars =>
        [\A s \in Stack : publication[s] \in fresh /\ publication'[s] = None
            => capture'[publication[s]][s] = "stopped"]_vars
  BY <1>1
<1> QED
  BY <1>2, Invariant, PTL DEF Spec, DropsItsOwn
=============================================================================
