--------------------------- MODULE RecorderProofs ---------------------------
(***************************************************************************)
(* Proofs about Recorder, for every number of requests in flight and       *)
(* whatever fails or stops.                                                *)
(***************************************************************************)
EXTENDS Recorder, TLAPS

\* Facts about appending, in the form the steps need them.
LEMMA Appended ==
    ASSUME NEW S, NEW s \in Seq(S), NEW e \in S
    PROVE  /\ DOMAIN s = 1..Len(s) /\ Len(s) \in Nat
           /\ DOMAIN Append(s, e) = DOMAIN s \cup {Len(s) + 1}
           /\ Len(s) + 1 \notin DOMAIN s
           /\ Append(s, e)[Len(s) + 1] = e
           /\ \A i \in DOMAIN s : i < Len(s) + 1 /\ Append(s, e)[i] = s[i]
           /\ Len(Append(s, e)) = Len(s) + 1
           /\ ToSet(Append(s, e)) = ToSet(s) \cup {e}
           /\ Append(s, e) \in Seq(S)
           /\ \A i \in DOMAIN s : s[i] \in S
<1>1. /\ DOMAIN s = 1..Len(s) /\ Len(s) \in Nat
      /\ DOMAIN Append(s, e) = 1..(Len(s) + 1)
      /\ Append(s, e)[Len(s) + 1] = e
      /\ \A i \in 1..Len(s) : Append(s, e)[i] = s[i]
      /\ Len(Append(s, e)) = Len(s) + 1
      /\ Append(s, e) \in Seq(S)
      /\ \A i \in 1..Len(s) : s[i] \in S
  OBVIOUS
<1>2. DOMAIN Append(s, e) = DOMAIN s \cup {Len(s) + 1}
  BY <1>1
<1>3. ToSet(Append(s, e)) = ToSet(s) \cup {e}
  BY <1>1 DEF ToSet
<1> QED
  BY <1>1, <1>2, <1>3

\* What Record writes for a handler.
Entry(r) == [req |-> r, answered |-> r \in answered, ws |-> ws[r]]

LEMMA EntryTyped ==
    ASSUME TypeOK, NEW r \in Req
    PROVE  Entry(r) \in Entries /\ Entry(r).req = r /\ Entry(r).ws = ws[r]
<1>1. ws[r] \in Windows
  BY DEF TypeOK
<1>2. (r \in answered) \in BOOLEAN
  OBVIOUS
<1> QED
  BY <1>1, <1>2 DEF Entry, Entries

LEMMA EntriesOfFile ==
    ASSUME TypeOK
    PROVE  /\ file \in Seq(Entries)
           /\ \A i \in DOMAIN file : file[i] \in Entries /\ file[i].req \in Req
<1>1. file \in Seq(Entries)
  BY DEF TypeOK
<1>2. ASSUME NEW S, NEW s \in Seq(S), NEW i \in DOMAIN s
      PROVE  s[i] \in S
  BY <1>2
<1>3. \A i \in DOMAIN file : file[i] \in Entries
  BY <1>1, <1>2
<1> QED
  BY <1>1, <1>3 DEF Entries

----------------------------------------------------------------------------
(* Types.                                                                  *)

LEMMA RecordTypes ==
    ASSUME TypeOK, NEW r \in Req, Record(r)
    PROVE  file' \in Seq(Entries) /\ count' \in Nat
<1>1. file' = Append(file, Entry(r)) /\ count' = count + 1
  BY DEF Record, Entry
<1>2. Append(file, Entry(r)) \in Seq(Entries)
  BY EntryTyped, EntriesOfFile, Appended
<1>3. count' \in Nat
  <2>1. count \in Nat
    BY DEF TypeOK
  <2> QED
    BY <1>1, <2>1
<1> QED
  BY <1>1, <1>2, <1>3

LEMMA NextTypes == ASSUME TypeOK, [Next]_vars PROVE TypeOK'
<1> USE DEF TypeOK
<1>1. CASE Start \/ CloseServer \/ StopSource \/ CloseOutputs \/ StreamDies
  BY <1>1 DEF Start, CloseServer, StopSource, CloseOutputs, StreamDies
<1>2. ASSUME NEW r \in Req, Receive(r) \/ Lock(r) \/ OpenWindow(r) \/ Answer(r)
                            \/ UpstreamFails(r) \/ Copied(r) \/ CopyAborts(r) \/ Forwarded(r)
      PROVE  TypeOK'
  BY <1>2 DEF Receive, Lock, OpenWindow, Answer, UpstreamFails, Copied, CopyAborts, Forwarded,
              Move, Unlock
<1>3. ASSUME NEW r \in Req, Execute(r) \/ ExecuteLate(r)
      PROVE  TypeOK'
  <2>1. Commit(r) /\ late' \in SUBSET Req
    BY <1>3 DEF Execute, ExecuteLate
  <2>2. executed' \in Seq(Req)
    BY <2>1, Appended DEF Commit
  <2> QED
    BY <2>1, <2>2 DEF Commit
<1>4. ASSUME NEW r \in Req, TakeWindow(r)
      PROVE  TypeOK'
  <2>1. Attributed(changes) \in Windows
    BY DEF Attributed, Windows
  <2>2. ws' \in [Req -> Windows] /\ changes' \in SUBSET Req
    BY <1>4, <2>1 DEF TakeWindow
  <2> QED
    BY <1>4, <2>2 DEF TakeWindow, Move
<1>5. ASSUME NEW r \in Req, After(r)
      PROVE  /\ pc' \in [Req -> {"new", "locking", "opening", "proxying", "copying",
                                 "taking", "recording", "forwarding", "done", "panicked"}]
             /\ serMu' \in Req \cup {Free}
  BY <1>5 DEF After, Move, Unlock
<1>6. ASSUME NEW r \in Req, Record(r)
      PROVE  TypeOK'
  <2>1. file' \in Seq(Entries) /\ count' \in Nat
    BY <1>6, RecordTypes
  <2> QED
    BY <1>5, <1>6, <2>1 DEF Record
<1>7. ASSUME NEW r \in Req, WriteFails(r)
      PROVE  TypeOK'
  BY <1>5, <1>7 DEF WriteFails, Move, Unlock
<1>8. CASE UNCHANGED vars
  BY <1>8 DEF vars
<1> QED
  BY <1>1, <1>2, <1>3, <1>4, <1>6, <1>7, <1>8 DEF Next, Handler

LEMMA InitTypes == Init => TypeOK
<1> SUFFICES ASSUME Init PROVE TypeOK
  OBVIOUS
<1>1. opts \in Modes
  <2>1. PICK o \in Modes : opts = [o EXCEPT !.serialize = Serialized(o)]
    BY DEF Init, Asked
  <2>2. Serialized(o) \in BOOLEAN
    BY DEF Serialized, Modes
  <2> HIDE DEF Serialized
  <2> QED
    BY <2>1, <2>2 DEF Modes
<1>2. ws \in [Req -> Windows]
  BY DEF Init, Unattributed, Windows
<1>3. executed \in Seq(Req) /\ file \in Seq(Entries)
  BY DEF Init
<1> QED
  BY <1>1, <1>2, <1>3 DEF Init, TypeOK

\* Type correctness: the file only ever holds entries, whatever is cut short.
THEOREM TypeCorrect == Spec => []TypeOK
<1> QED
  BY InitTypes, NextTypes, PTL DEF Spec

----------------------------------------------------------------------------
(* CountMatchesFile.  A handler that is still to record is not in the file. *)

Filed ==
    /\ count = Len(file)
    /\ \A i \in DOMAIN file : pc[file[i].req] \in {"forwarding", "done"}
    /\ \A i, j \in DOMAIN file : file[i].req = file[j].req => i = j

\* A handler moves on without writing: it was not past the file, or stays so.
LEMMA FiledKept ==
    ASSUME TypeOK, Filed, UNCHANGED <<file, count>>,
           \A r \in Req : pc[r] \in {"forwarding", "done"} => pc'[r] \in {"forwarding", "done"}
    PROVE  Filed'
<1> QED
  BY EntriesOfFile DEF Filed

LEMMA NextFiled == ASSUME TypeOK, Filed, [Next]_vars PROVE Filed'
<1>1. ASSUME NEW r \in Req, Record(r)
      PROVE  Filed'
  <2>1. Entry(r) \in Entries /\ Entry(r).req = r
    BY EntryTyped
  <2>2. file \in Seq(Entries) /\ file' = Append(file, Entry(r)) /\ count' = count + 1
    BY <1>1, EntriesOfFile DEF Record, Entry
  <2>3. /\ pc[r] = "recording"
        /\ pc'[r] \in {"forwarding", "done"}
        /\ \A q \in Req \ {r} : pc'[q] = pc[q]
    BY <1>1 DEF Record, After, At, Move, TypeOK
  <2>4. \A i \in DOMAIN file : file[i].req # r /\ file[i].req \in Req
    BY <2>3, EntriesOfFile DEF Filed
  <2>5. /\ DOMAIN file' = DOMAIN file \cup {Len(file) + 1}
        /\ file'[Len(file) + 1].req = r
        /\ \A i \in DOMAIN file : file'[i] = file[i]
        /\ Len(file') = Len(file) + 1
    BY <2>1, <2>2, Appended
  <2> QED
    BY <2>2, <2>3, <2>4, <2>5 DEF Filed
<1>2. ASSUME NEW r \in Req,
             \/ Receive(r) \/ Lock(r) \/ OpenWindow(r) \/ Execute(r) \/ ExecuteLate(r)
             \/ Answer(r) \/ UpstreamFails(r) \/ Copied(r) \/ CopyAborts(r) \/ TakeWindow(r)
             \/ WriteFails(r) \/ Forwarded(r)
      PROVE  Filed'
  BY <1>2, FiledKept
     DEF Receive, Lock, OpenWindow, Execute, ExecuteLate, Commit, Answer, UpstreamFails, Copied,
         CopyAborts, TakeWindow, WriteFails, Forwarded, After, At, Move, TypeOK
<1>3. CASE Start \/ CloseServer \/ StopSource \/ CloseOutputs \/ StreamDies \/ UNCHANGED vars
  BY <1>3, FiledKept DEF Start, CloseServer, StopSource, CloseOutputs, StreamDies, vars
<1> QED
  BY <1>1, <1>2, <1>3 DEF Next, Handler

LEMMA InitFiled == Init => Filed
  BY DEF Init, Filed

\* Whatever write fails and whenever the session is stopped, count is the
\* number of entries in the file, each of another request.
THEOREM CountAlwaysMatches == Spec => []CountMatchesFile
<1>1. Init => TypeOK /\ Filed
  BY InitTypes, InitFiled
<1>2. TypeOK /\ Filed /\ [Next]_vars => TypeOK' /\ Filed'
  BY NextTypes, NextFiled
<1>3. Filed => CountMatchesFile
  BY DEF Filed, CountMatchesFile
<1> QED
  BY <1>1, <1>2, <1>3, PTL DEF Spec

----------------------------------------------------------------------------
(* FileInExecutionOrder.  From Lock to its end a handler is alone, so what  *)
(* the upstream executes for it comes after every entry of the file.        *)

Inside == {"opening", "proxying", "copying", "taking", "recording"}

\* How handlers move: a serialized session's hold serMu while they are inside;
\* only a request-only session's forward after they have recorded.
Disciplined ==
    /\ opts.source => opts.serialize
    /\ opts.golden => \A r \in Req : pc[r] # "forwarding"
    /\ ~opts.golden => \A r \in Req : pc[r] \in {"new", "recording", "forwarding", "done"}
    /\ opts.golden /\ opts.serialize => \A r \in Req : pc[r] \in Inside => serMu = r
    /\ \A r \in Req : pc[r] \in {"new", "locking", "opening"} => r \notin ToSet(executed)

LEMMA ExecutedGrows ==
    ASSUME TypeOK, NEW r \in Req, Execute(r) \/ ExecuteLate(r)
    PROVE  /\ executed' = Append(executed, r)
           /\ ToSet(executed') = ToSet(executed) \cup {r}
           /\ executed \in Seq(Req)
           /\ r \notin ToSet(executed)
<1>1. executed \in Seq(Req) /\ executed' = Append(executed, r) /\ r \notin ToSet(executed)
  BY DEF Execute, ExecuteLate, Commit, TypeOK
<1> QED
  BY <1>1, Appended

LEMMA NextDisciplined == ASSUME TypeOK, Disciplined, [Next]_vars PROVE Disciplined'
<1>1. pc \in [Req -> {"new", "locking", "opening", "proxying", "copying",
                      "taking", "recording", "forwarding", "done", "panicked"}]
  BY DEF TypeOK
<1>2. Free \notin Req
  BY RecorderAssumption
<1>3. ASSUME NEW r \in Req, Execute(r) \/ ExecuteLate(r)
      PROVE  Disciplined'
  <2>1. pc[r] \notin {"new", "locking", "opening"} /\ UNCHANGED <<opts, pc, serMu>>
    BY <1>3 DEF Execute, ExecuteLate, Commit, RoundTrip, GivenUp, At
  <2>2. ToSet(executed') = ToSet(executed) \cup {r}
    BY <1>3, ExecutedGrows
  <2> QED
    BY <2>1, <2>2 DEF Disciplined
<1>4. ASSUME NEW r \in Req, Receive(r)
      PROVE  Disciplined'
  BY <1>1, <1>4 DEF Receive, At, Move, Disciplined, Inside
<1>5. ASSUME NEW r \in Req, Lock(r)
      PROVE  Disciplined'
  BY <1>1, <1>2, <1>5 DEF Lock, At, Move, Disciplined, Inside
<1>6. ASSUME NEW r \in Req, OpenWindow(r) \/ Answer(r) \/ UpstreamFails(r) \/ Copied(r)
      PROVE  Disciplined'
  BY <1>1, <1>6 DEF OpenWindow, Answer, UpstreamFails, Copied, At, Move, Disciplined, Inside
<1>7. ASSUME NEW r \in Req, TakeWindow(r)
      PROVE  Disciplined'
  BY <1>1, <1>7 DEF TakeWindow, At, Move, Disciplined, Inside
<1>8. ASSUME NEW r \in Req, CopyAborts(r) \/ Record(r) \/ WriteFails(r) \/ Forwarded(r)
      PROVE  Disciplined'
  <2>1. /\ pc[r] \in {"copying", "recording", "forwarding"}
        /\ \A q \in Req \ {r} : pc'[q] = pc[q]
        /\ pc'[r] \in {"done", "panicked", "forwarding"}
        /\ opts.golden => pc'[r] \in {"done", "panicked"}
        /\ ~opts.golden => pc[r] # "copying" /\ pc'[r] \in {"done", "forwarding"}
        /\ serMu' \in {serMu, IF serMu = r THEN Free ELSE serMu}
        /\ UNCHANGED <<opts, executed>>
    BY <1>1, <1>8
       DEF CopyAborts, Record, WriteFails, Forwarded, After, At, Move, Unlock, Disciplined
  <2> QED
    BY <1>1, <2>1 DEF Disciplined, Inside
<1>9. CASE Start \/ CloseServer \/ StopSource \/ CloseOutputs \/ StreamDies \/ UNCHANGED vars
  BY <1>9 DEF Start, CloseServer, StopSource, CloseOutputs, StreamDies, vars, Disciplined
<1> QED
  BY <1>3, <1>4, <1>5, <1>6, <1>7, <1>8, <1>9 DEF Next, Handler

LEMMA InitDisciplined == Init => Disciplined
<1> SUFFICES ASSUME Init PROVE Disciplined
  OBVIOUS
<1>1. opts.source => opts.serialize
  <2>1. PICK o \in Modes : opts = [o EXCEPT !.serialize = Serialized(o)]
    BY DEF Init, Asked
  <2>2. opts.serialize = Serialized(o) /\ opts.source = o.source
    BY <2>1 DEF Modes
  <2> QED
    BY <2>2 DEF Serialized
<1>2. \A r \in Req : pc[r] = "new" /\ r \notin ToSet(executed)
  BY DEF Init, ToSet
<1> QED
  BY <1>1, <1>2 DEF Disciplined, Inside

\* Was a executed late, or before b if both were executed at all?
FirstThen(a, b) ==
    a \in late \/ \A k, l \in DOMAIN executed : executed[k] = a /\ executed[l] = b => k < l

\* What is in the file was executed before what is being served, or late.
Behind ==
    opts.golden /\ opts.serialize =>
        /\ \A i, j \in DOMAIN file : i < j => FirstThen(file[i].req, file[j].req)
        /\ \A r \in Req : pc[r] \in Inside => \A i \in DOMAIN file : FirstThen(file[i].req, r)

LEMMA NextBehind ==
    ASSUME TypeOK, Filed, Disciplined, Behind, [Next]_vars
    PROVE  Behind'
<1> SUFFICES ASSUME opts'.golden /\ opts'.serialize PROVE Behind'
  BY DEF Behind
<1>1. opts' = opts
  BY DEF Next, vars, Start, CloseServer, StopSource, CloseOutputs, StreamDies, Receive, Handler,
         Lock, OpenWindow, Execute, ExecuteLate, Commit, Answer, UpstreamFails, Copied, CopyAborts,
         TakeWindow, Record, WriteFails, Forwarded
<1>2. /\ \A i, j \in DOMAIN file : i < j => FirstThen(file[i].req, file[j].req)
      /\ \A r \in Req : pc[r] \in Inside => \A i \in DOMAIN file : FirstThen(file[i].req, r)
      /\ \A r \in Req : pc[r] \in Inside => serMu = r
      /\ \A r \in Req : pc[r] # "forwarding"
      /\ opts.golden /\ opts.serialize
  BY <1>1 DEF Behind, Disciplined
<1>3. /\ pc \in [Req -> {"new", "locking", "opening", "proxying", "copying",
                         "taking", "recording", "forwarding", "done", "panicked"}]
      /\ \A i \in DOMAIN file : file[i].req \in Req
  BY EntriesOfFile DEF TypeOK
<1>4. ASSUME UNCHANGED <<file, executed, late>>,
             \A r \in Req : pc'[r] \in Inside => pc[r] \in Inside \/ r \notin ToSet(executed)
      PROVE  Behind'
  <2>1. \A r \in Req : r \notin ToSet(executed) => \A a : FirstThen(a, r)
    BY DEF FirstThen, ToSet
  <2>2. \A a, b : FirstThen(a, b)' <=> FirstThen(a, b)
    BY <1>4 DEF FirstThen
  <2> QED
    BY <1>2, <1>4, <2>1, <2>2 DEF Behind
<1>5. ASSUME NEW r \in Req, Execute(r) \/ ExecuteLate(r)
      PROVE  Behind'
  <2>1. UNCHANGED <<pc, file>>
    BY <1>5 DEF Execute, ExecuteLate, Commit
  <2>2. executed' = Append(executed, r) /\ executed \in Seq(Req) /\ r \notin ToSet(executed)
    BY <1>5, ExecutedGrows
  <2>3. /\ DOMAIN executed' = DOMAIN executed \cup {Len(executed) + 1}
        /\ executed'[Len(executed) + 1] = r
        /\ \A k \in DOMAIN executed : k < Len(executed) + 1 /\ executed'[k] = executed[k]
    BY <2>2, Appended
  <2>4. late \subseteq late'
    BY <1>5 DEF Execute, ExecuteLate
  <2>5. \A a, b : a # r /\ FirstThen(a, b) => FirstThen(a, b)'
    BY <2>3, <2>4 DEF FirstThen
  \* Of an entry in the file, r is executed late.
  <2>6. ASSUME NEW i \in DOMAIN file, file[i].req = r
        PROVE  r \in late'
    <3>1. ~RoundTrip(r)
      BY <1>2, <2>6 DEF Filed, RoundTrip
    <3> QED
      BY <1>5, <3>1 DEF Execute, ExecuteLate
  <2>7. \A i \in DOMAIN file : \A b : FirstThen(file[i].req, b) => FirstThen(file[i].req, b)'
    BY <2>1, <2>5, <2>6 DEF FirstThen
  <2> QED
    BY <1>2, <2>1, <2>7 DEF Behind
<1>6. ASSUME NEW r \in Req, Record(r)
      PROVE  Behind'
  <2>1. /\ pc[r] = "recording" /\ pc[r] \in Inside
        /\ pc'[r] = "done" /\ \A q \in Req \ {r} : pc'[q] = pc[q]
        /\ UNCHANGED <<executed, late>>
        /\ file' = Append(file, Entry(r))
    BY <1>2, <1>3, <1>6 DEF Record, After, At, Move, Inside, Entry
  <2>2. /\ DOMAIN file' = DOMAIN file \cup {Len(file) + 1}
        /\ file'[Len(file) + 1].req = r
        /\ \A i \in DOMAIN file : i < Len(file) + 1 /\ file'[i] = file[i]
        /\ Len(file) \in Nat /\ DOMAIN file = 1..Len(file)
    BY <2>1, EntryTyped, EntriesOfFile, Appended
  <2>3. \A q \in Req : pc'[q] \notin Inside
    BY <1>2, <2>1, RecorderAssumption DEF Inside
  <2>4. \A a, b : FirstThen(a, b)' <=> FirstThen(a, b)
    BY <2>1 DEF FirstThen
  <2>5. ASSUME NEW i \in DOMAIN file', NEW j \in DOMAIN file', i < j
        PROVE  FirstThen(file'[i].req, file'[j].req)
    <3>1. i \in DOMAIN file
      BY <2>2, <2>5
    <3>2. CASE j \in DOMAIN file
      BY <1>2, <2>2, <2>5, <3>1, <3>2
    <3>3. CASE j = Len(file) + 1
      BY <1>2, <2>1, <2>2, <3>1, <3>3
    <3> QED
      BY <2>2, <3>2, <3>3
  <2> QED
    BY <2>3, <2>4, <2>5 DEF Behind
<1>7. ASSUME NEW r \in Req, Receive(r) \/ Lock(r) \/ OpenWindow(r)
      PROVE  Behind'
  <2>1. r \notin ToSet(executed)
    BY <1>7 DEF Receive, Lock, OpenWindow, At, Disciplined
  <2> QED
    BY <1>3, <1>4, <1>7, <2>1 DEF Receive, Lock, OpenWindow, At, Move
<1>8. ASSUME NEW r \in Req, \/ Answer(r) \/ UpstreamFails(r) \/ Copied(r) \/ CopyAborts(r)
                            \/ TakeWindow(r) \/ WriteFails(r) \/ Forwarded(r)
      PROVE  Behind'
  BY <1>3, <1>4, <1>8
     DEF Answer, UpstreamFails, Copied, CopyAborts, TakeWindow, WriteFails, Forwarded, After, At,
         Move, Inside
<1>9. CASE Start \/ CloseServer \/ StopSource \/ CloseOutputs \/ StreamDies \/ UNCHANGED vars
  <2>1. UNCHANGED <<pc, file, executed, late>>
    BY <1>9 DEF Start, CloseServer, StopSource, CloseOutputs, StreamDies, vars
  <2> QED
    BY <1>4, <2>1
<1> QED
  BY <1>5, <1>6, <1>7, <1>8, <1>9 DEF Next, Handler

LEMMA InitBehind == Init => Behind
<1> SUFFICES ASSUME Init PROVE Behind
  OBVIOUS
<1>1. DOMAIN file = {}
  BY DEF Init
<1> QED
  BY <1>1 DEF Behind

\* A serialized session's file lists the requests in the order in which the
\* upstream executed them, whatever clients leave, writes fail or Stop cuts off,
\* but for those it executed after their round trip was given up.
THEOREM FileAlwaysInOrder == Spec => []FileInExecutionOrder
<1> DEFINE IInv == TypeOK /\ Filed /\ Disciplined /\ Behind
<1>1. Init => IInv
  BY InitTypes, InitFiled, InitDisciplined, InitBehind
<1>2. IInv /\ [Next]_vars => IInv'
  BY NextTypes, NextFiled, NextDisciplined, NextBehind
<1>3. IInv => FileInExecutionOrder
  BY DEF Behind, FirstThen, FileInExecutionOrder
<1> QED
  BY <1>1, <1>2, <1>3, PTL DEF Spec

----------------------------------------------------------------------------
(* OnlyStraysAreMisattributed.  A window closes before the next one opens,  *)
(* so what it takes belongs to its own request or to a stray.               *)

HoldsRows == {"proxying", "copying", "taking"}

\* No row is blamed on another request than its own, unless it is a stray's.
Blamed ==
    /\ \A i \in DOMAIN file : file[i].ws.known =>
          opts.golden /\ file[i].ws.rows \subseteq {file[i].req} \cup Strays
    /\ \A r \in Req : ws[r].known => ws[r].rows \subseteq {r} \cup Strays
    /\ ~opts.golden => \A r \in Req : ~ws[r].known
    /\ opts.golden /\ opts.source /\ ~srcErr =>
          changes \subseteq {r \in Req : pc[r] \in HoldsRows} \cup Strays

LEMMA StraysStay == ASSUME TypeOK, [Next]_vars PROVE Strays \subseteq Strays'
<1>1. ASSUME NEW q \in Req, pc[q] = "panicked"
      PROVE  pc'[q] = "panicked"
  <2>1. ASSUME NEW r \in Req, Receive(r) \/ Lock(r) \/ OpenWindow(r) \/ Answer(r)
                             \/ UpstreamFails(r) \/ Copied(r) \/ CopyAborts(r)
        PROVE  pc'[q] = "panicked"
    BY <1>1, <2>1
       DEF Receive, Lock, OpenWindow, Answer, UpstreamFails, Copied, CopyAborts, At, Move, TypeOK
  <2>2. ASSUME NEW r \in Req, TakeWindow(r) \/ Record(r) \/ WriteFails(r) \/ Forwarded(r)
        PROVE  pc'[q] = "panicked"
    BY <1>1, <2>2 DEF TakeWindow, Record, WriteFails, Forwarded, After, At, Move, TypeOK
  <2>3. ASSUME UNCHANGED pc
        PROVE  pc'[q] = "panicked"
    BY <1>1, <2>3
  <2>4. ASSUME NEW r \in Req, Execute(r) \/ ExecuteLate(r)
        PROVE  UNCHANGED pc
    BY <2>4 DEF Execute, ExecuteLate, Commit
  <2>5. CASE Start \/ CloseServer \/ StopSource \/ CloseOutputs \/ StreamDies \/ UNCHANGED vars
    BY <2>3, <2>5 DEF Start, CloseServer, StopSource, CloseOutputs, StreamDies, vars
  <2> QED
    BY <2>1, <2>2, <2>3, <2>4, <2>5 DEF Next, Handler
<1>2. late \subseteq late'
  BY DEF Next, vars, Start, CloseServer, StopSource, CloseOutputs, StreamDies, Receive,
         Handler, Lock, OpenWindow, Execute, ExecuteLate, Commit, Answer, UpstreamFails, Copied,
         CopyAborts, TakeWindow, Record, WriteFails, Forwarded
<1> QED
  BY <1>1, <1>2 DEF Strays

LEMMA NextBlamed ==
    ASSUME TypeOK, Disciplined, Blamed, [Next]_vars
    PROVE  Blamed'
<1>1. Strays \subseteq Strays'
  BY StraysStay
<1>2. /\ pc \in [Req -> {"new", "locking", "opening", "proxying", "copying",
                         "taking", "recording", "forwarding", "done", "panicked"}]
      /\ changes \subseteq Req
  BY DEF TypeOK
\* A step that records nothing and takes nothing.
<1>3. ASSUME UNCHANGED <<opts, ws, file>>,
             srcErr' = srcErr \/ srcErr',
             opts.golden /\ opts.source /\ ~srcErr' =>
                changes' \subseteq {r \in Req : pc'[r] \in HoldsRows} \cup Strays'
      PROVE  Blamed'
  BY <1>1, <1>3 DEF Blamed
<1>4. ASSUME NEW r \in Req, UNCHANGED <<opts, ws, file, changes, srcErr>>,
             \A q \in Req \ {r} : pc'[q] = pc[q],
             pc[r] \in HoldsRows => pc'[r] \in HoldsRows \cup {"panicked"}
      PROVE  Blamed'
  <2>1. {q \in Req : pc[q] \in HoldsRows} \subseteq {q \in Req : pc'[q] \in HoldsRows} \cup Strays'
    BY <1>4 DEF Strays
  <2> QED
    BY <1>1, <1>3, <1>4, <2>1 DEF Blamed
<1>5. ASSUME NEW r \in Req,
             \/ Receive(r) \/ Lock(r) \/ OpenWindow(r) \/ Answer(r) \/ UpstreamFails(r)
             \/ Copied(r) \/ CopyAborts(r) \/ Forwarded(r)
      PROVE  Blamed'
  BY <1>2, <1>4, <1>5
     DEF Receive, Lock, OpenWindow, Answer, UpstreamFails, Copied, CopyAborts, Forwarded, At, Move,
         HoldsRows
<1>6. ASSUME NEW r \in Req, WriteFails(r)
      PROVE  Blamed'
  BY <1>2, <1>4, <1>6 DEF WriteFails, After, At, Move, HoldsRows
<1>7. ASSUME NEW r \in Req, Execute(r)
      PROVE  Blamed'
  <2>1. /\ UNCHANGED <<opts, pc, ws, file, srcErr>>
        /\ changes' \subseteq changes \cup {r}
        /\ opts.golden => pc[r] \in HoldsRows
    BY <1>7 DEF Execute, RoundTrip, Commit, Disciplined, HoldsRows
  <2> QED
    BY <1>1, <1>3, <2>1 DEF Blamed
<1>8. ASSUME NEW r \in Req, ExecuteLate(r)
      PROVE  Blamed'
  <2>1. /\ UNCHANGED <<opts, pc, ws, file, srcErr>>
        /\ changes' \subseteq changes \cup {r}
        /\ r \in Strays'
    BY <1>8 DEF ExecuteLate, Commit, Strays
  <2> QED
    BY <1>1, <1>3, <2>1 DEF Blamed
<1>9. ASSUME NEW r \in Req, Record(r)
      PROVE  Blamed'
  <2>1. /\ pc[r] = "recording" /\ \A q \in Req \ {r} : pc'[q] = pc[q]
        /\ UNCHANGED <<opts, ws, changes, srcErr>>
        /\ file' = Append(file, Entry(r))
    BY <1>2, <1>9 DEF Record, After, At, Move, Entry
  <2>2. /\ DOMAIN file' = DOMAIN file \cup {Len(file) + 1}
        /\ file'[Len(file) + 1].req = r
        /\ file'[Len(file) + 1].ws = ws[r]
        /\ \A i \in DOMAIN file : file'[i] = file[i]
    BY <2>1, EntryTyped, EntriesOfFile, Appended
  <2>3. \A i \in DOMAIN file' : file'[i].ws.known =>
            opts.golden /\ file'[i].ws.rows \subseteq {file'[i].req} \cup Strays'
    BY <1>1, <2>2, EntriesOfFile DEF Blamed
  <2>4. {q \in Req : pc[q] \in HoldsRows} \subseteq {q \in Req : pc'[q] \in HoldsRows}
    BY <2>1 DEF HoldsRows
  <2> QED
    BY <1>1, <2>1, <2>3, <2>4 DEF Blamed
<1>10. ASSUME NEW r \in Req, TakeWindow(r)
       PROVE  Blamed'
  <2>1. /\ pc[r] = "taking" /\ pc'[r] = "recording" /\ \A q \in Req \ {r} : pc'[q] = pc[q]
        /\ UNCHANGED <<opts, executed, late, srcErr, file>>
    BY <1>2, <1>10 DEF TakeWindow, At, Move
  <2>2. CASE opts.source /\ ~srcErr
    <3>1. ws' = [ws EXCEPT ![r] = Attributed(changes)] /\ changes' = {}
      BY <1>10, <2>2 DEF TakeWindow
    <3>2. ws'[r].rows = changes /\ \A q \in Req \ {r} : ws'[q] = ws[q]
      BY <3>1 DEF Attributed, TypeOK
    <3>3. opts.golden /\ opts.serialize
      BY <2>1, <2>2 DEF Disciplined
    <3>4. \A q \in Req \ {r} : pc[q] \notin HoldsRows
      BY <2>1, <3>3 DEF Disciplined, Inside, HoldsRows
    <3>5. changes \subseteq {r} \cup Strays
      BY <2>2, <3>3, <3>4 DEF Blamed
    <3> QED
      BY <1>1, <2>1, <3>1, <3>2, <3>3, <3>5 DEF Blamed
  <2>3. CASE opts.source /\ srcErr
    BY <1>1, <1>3, <1>10, <2>1, <2>3 DEF TakeWindow
  <2>4. CASE ~opts.source
    BY <1>1, <1>3, <1>10, <2>1, <2>4 DEF TakeWindow
  <2> QED
    BY <2>2, <2>3, <2>4
<1>11. CASE Start \/ CloseServer \/ StopSource \/ CloseOutputs \/ StreamDies \/ UNCHANGED vars
  <2>1. UNCHANGED <<opts, pc, ws, changes, file>> /\ (srcErr' = srcErr \/ srcErr')
    BY <1>11 DEF Start, CloseServer, StopSource, CloseOutputs, StreamDies, vars
  <2> QED
    BY <1>1, <1>3, <2>1 DEF Blamed
<1> QED
  BY <1>5, <1>6, <1>7, <1>8, <1>9, <1>10, <1>11 DEF Next, Handler

BeforeTaking == {"new", "locking", "opening", "proxying", "copying", "taking"}

Ran(r) == ({r} \cap ToSet(executed)) \ late

\* While the session is up, no entry lacks a row of its own.
Whole ==
    /\ session = "new" => \A r \in Req : pc[r] = "new"
    /\ \A r \in Req : pc[r] \in BeforeTaking => ~ws[r].known
    /\ session \in {"new", "up"} =>
          /\ \A i \in DOMAIN file : file[i].ws.known => Ran(file[i].req) \subseteq file[i].ws.rows
          /\ \A r \in Req : pc[r] = "recording" /\ ws[r].known => Ran(r) \subseteq ws[r].rows
          /\ opts.golden /\ opts.source /\ ~srcErr =>
                \A r \in Req : pc[r] \in HoldsRows => Ran(r) \subseteq changes

LEMMA NextWhole ==
    ASSUME TypeOK, Filed, Disciplined, Blamed, Whole, [Next]_vars
    PROVE  Whole'
<1>1. /\ pc \in [Req -> {"new", "locking", "opening", "proxying", "copying",
                         "taking", "recording", "forwarding", "done", "panicked"}]
      /\ \A i \in DOMAIN file : file[i].req \in Req
  BY EntriesOfFile DEF TypeOK
\* A step that only moves r.
<1>2. ASSUME NEW r \in Req, UNCHANGED <<opts, session, ws, executed, late, changes, srcErr, file>>,
             pc[r] # "new" \/ session = "up",
             \A q \in Req \ {r} : pc'[q] = pc[q],
             pc'[r] \in BeforeTaking => pc[r] \in BeforeTaking,
             pc'[r] = "recording" => pc[r] = "recording" \/ ~ws[r].known,
             r \notin ToSet(executed) \/ (pc'[r] \in HoldsRows => pc[r] \in HoldsRows)
      PROVE  Whole'
  <2>1. session # "new"
    BY <1>2 DEF Whole
  <2>2. \A q : Ran(q)' = Ran(q)
    BY <1>2 DEF Ran
  <2>3. r \notin ToSet(executed) => Ran(r) = {}
    BY DEF Ran
  <2> QED
    BY <1>2, <2>1, <2>2, <2>3 DEF Whole
<1>3. ASSUME NEW r \in Req, Receive(r)
      PROVE  Whole'
  <2>1. pc[r] = "new" /\ session = "up" /\ r \notin ToSet(executed) /\ ~ws[r].known
    BY <1>3 DEF Receive, At, Disciplined, Whole, BeforeTaking
  <2> QED
    BY <1>1, <1>2, <1>3, <2>1 DEF Receive, At, Move, BeforeTaking
<1>4. ASSUME NEW r \in Req, Lock(r) \/ OpenWindow(r)
      PROVE  Whole'
  <2>1. r \notin ToSet(executed)
    BY <1>4 DEF Lock, OpenWindow, At, Disciplined
  <2> QED
    BY <1>1, <1>2, <1>4, <2>1 DEF Lock, OpenWindow, At, Move, BeforeTaking
<1>5. ASSUME NEW r \in Req,
             Answer(r) \/ UpstreamFails(r) \/ Copied(r) \/ CopyAborts(r) \/ Forwarded(r)
      PROVE  Whole'
  BY <1>1, <1>2, <1>5
     DEF Answer, UpstreamFails, Copied, CopyAborts, Forwarded, At, Move, BeforeTaking, HoldsRows
<1>6. ASSUME NEW r \in Req, WriteFails(r)
      PROVE  Whole'
  <2>1. /\ pc[r] = "recording" /\ \A q \in Req \ {r} : pc'[q] = pc[q]
        /\ pc'[r] \in {"done", "forwarding", "panicked"}
        /\ UNCHANGED <<opts, session, ws, executed, late, changes, srcErr, file>>
    BY <1>1, <1>6 DEF WriteFails, After, At, Move
  <2> QED
    BY <1>2, <2>1 DEF BeforeTaking, HoldsRows
<1>7. ASSUME NEW r \in Req, Record(r)
      PROVE  Whole'
  <2>1. /\ pc[r] = "recording" /\ \A q \in Req \ {r} : pc'[q] = pc[q]
        /\ pc'[r] \in {"done", "forwarding"}
        /\ UNCHANGED <<opts, session, ws, executed, late, changes, srcErr>>
        /\ file' = Append(file, Entry(r))
    BY <1>1, <1>7 DEF Record, After, At, Move, Entry
  <2>2. /\ DOMAIN file' = DOMAIN file \cup {Len(file) + 1}
        /\ file'[Len(file) + 1].req = r
        /\ file'[Len(file) + 1].ws = ws[r]
        /\ \A i \in DOMAIN file : file'[i] = file[i]
    BY <2>1, EntryTyped, EntriesOfFile, Appended
  <2>3. \A q : Ran(q)' = Ran(q)
    BY <2>1 DEF Ran
  <2>4. session \in {"new", "up"} => \A i \in DOMAIN file' :
            file'[i].ws.known => Ran(file'[i].req) \subseteq file'[i].ws.rows
    BY <2>1, <2>2 DEF Whole
  <2>5. session # "new"
    BY <2>1 DEF Whole
  <2> QED
    BY <2>1, <2>3, <2>4, <2>5 DEF Whole, BeforeTaking, HoldsRows
<1>8. ASSUME NEW r \in Req, Execute(r)
      PROVE  Whole'
  <2>1. /\ pc[r] \in {"proxying", "forwarding"}
        /\ UNCHANGED <<opts, session, pc, ws, srcErr, file, late>>
        /\ changes' = IF SourceRunning THEN changes \cup {r} ELSE changes
    BY <1>8 DEF Execute, RoundTrip, Commit
  <2>2. ToSet(executed') = ToSet(executed) \cup {r}
    BY <1>8, ExecutedGrows
  <2>3. \A q \in Req \ {r} : Ran(q)' = Ran(q)
    BY <2>1, <2>2 DEF Ran
  <2>4. Ran(r)' \subseteq {r}
    BY DEF Ran
  <2>5. session # "new"
    BY <2>1 DEF Whole
  <2>6. session = "up" /\ opts.source /\ ~srcErr => changes' = changes \cup {r}
    BY <2>1 DEF SourceRunning
  <2>7. \A i \in DOMAIN file : file[i].req = r => ~file[i].ws.known
    <3> SUFFICES ASSUME NEW i \in DOMAIN file, file[i].req = r, file[i].ws.known
                 PROVE  FALSE
      OBVIOUS
    <3>1. opts.golden
      BY DEF Blamed
    <3> QED
      BY <2>1, <3>1 DEF Filed, Disciplined
  <2> QED
    BY <1>1, <2>1, <2>3, <2>4, <2>5, <2>6, <2>7 DEF Whole
<1>9. ASSUME NEW r \in Req, ExecuteLate(r)
      PROVE  Whole'
  <2>1. /\ UNCHANGED <<opts, session, pc, ws, srcErr, file>>
        /\ changes \subseteq changes' /\ late' = late \cup {r}
    BY <1>9 DEF ExecuteLate, Commit
  <2>2. ToSet(executed') = ToSet(executed) \cup {r}
    BY <1>9, ExecutedGrows
  <2>3. \A q : Ran(q)' \subseteq Ran(q)
    BY <2>1, <2>2 DEF Ran
  <2> QED
    BY <1>1, <2>1, <2>3 DEF Whole
<1>10. ASSUME NEW r \in Req, TakeWindow(r)
       PROVE  Whole'
  <2>1. /\ pc[r] = "taking" /\ pc'[r] = "recording" /\ \A q \in Req \ {r} : pc'[q] = pc[q]
        /\ UNCHANGED <<opts, session, executed, late, srcErr, file>>
    BY <1>1, <1>10 DEF TakeWindow, At, Move
  <2>2. session # "new" /\ opts.golden /\ ~ws[r].known
    BY <2>1 DEF Whole, Disciplined, BeforeTaking
  <2>3. \A q : Ran(q)' = Ran(q)
    BY <2>1 DEF Ran
  <2>4. \A q \in Req \ {r} : ws'[q] = ws[q]
    BY <1>10 DEF TakeWindow, TypeOK
  <2>5. CASE opts.source /\ ~srcErr
    <3>1. ws'[r].rows = changes
      BY <1>10, <2>5 DEF TakeWindow, Attributed, TypeOK, Windows
    <3>2. \A q \in Req \ {r} : pc[q] \notin HoldsRows
      BY <2>1, <2>2, <2>5 DEF Disciplined, Inside, HoldsRows
    <3>3. session = "up" => Ran(r) \subseteq ws'[r].rows
      BY <2>1, <2>2, <2>5, <3>1 DEF Whole, HoldsRows
    <3>4. \A q \in Req : pc'[q] \notin HoldsRows
      BY <2>1, <3>2 DEF HoldsRows
    <3> QED
      BY <2>1, <2>2, <2>3, <2>4, <3>3, <3>4 DEF Whole, BeforeTaking
  <2>6. CASE ~(opts.source /\ ~srcErr)
    <3>1. UNCHANGED <<ws, changes>>
      BY <1>10, <2>6 DEF TakeWindow
    <3> QED
      BY <2>1, <2>2, <2>3, <2>6, <3>1 DEF Whole, BeforeTaking, HoldsRows
  <2> QED
    BY <2>5, <2>6
<1>11. CASE Start \/ CloseServer \/ StopSource \/ CloseOutputs \/ StreamDies \/ UNCHANGED vars
  <2>1. /\ UNCHANGED <<opts, pc, ws, executed, late, changes, file>>
        /\ srcErr' = srcErr \/ srcErr'
        /\ session' = "new" => session = "new"
        /\ session' \in {"new", "up"} => session \in {"new", "up"}
    BY <1>11 DEF Start, CloseServer, StopSource, CloseOutputs, StreamDies, vars
  <2>2. \A q : Ran(q)' = Ran(q)
    BY <2>1 DEF Ran
  <2> QED
    BY <2>1, <2>2 DEF Whole
<1> QED
  BY <1>3, <1>4, <1>5, <1>6, <1>7, <1>8, <1>9, <1>10, <1>11 DEF Next, Handler

\* Whoever leaves, fails or stops, a recorded write-set is its request's own
\* rows and strays', however many requests are in flight; while the session is
\* up none of its own is missing.
THEOREM MisattributionIsStrays == Spec => []OnlyStraysAreMisattributed
<1> DEFINE IInv == TypeOK /\ Filed /\ Disciplined /\ Blamed /\ Whole
<1>1. Init => IInv
  <2> SUFFICES ASSUME Init PROVE Blamed /\ Whole
    BY InitTypes, InitFiled, InitDisciplined
  <2>1. /\ file = <<>> /\ executed = <<>> /\ changes = {}
        /\ \A r \in Req : pc[r] = "new" /\ ~ws[r].known
    BY DEF Init, Unattributed
  <2>2. \A r : Ran(r) = {}
    BY <2>1 DEF Ran, ToSet
  <2>3. DOMAIN file = {}
    BY <2>1
  <2> QED
    BY <2>1, <2>2, <2>3 DEF Blamed, Whole
<1>2. IInv /\ [Next]_vars => IInv'
  BY NextTypes, NextFiled, NextDisciplined, NextBlamed, NextWhole
<1>3. IInv => OnlyStraysAreMisattributed
  BY DEF Blamed, Whole, Ran, OnlyStraysAreMisattributed
<1> QED
  BY <1>1, <1>2, <1>3, PTL DEF Spec
=============================================================================
