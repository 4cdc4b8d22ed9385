--------------------------- MODULE TrafficProofs ---------------------------
(***************************************************************************)
(* What the proofs about both captures need to know of ReplayTraffic: the  *)
(* types of its variables, and where the rows of a stream go when it is    *)
(* read or a transaction commits.                                          *)
(***************************************************************************)
EXTENDS ReplayTraffic, TLAPS

\* The driver is past BeginWindow: it works for a request of the corpus.
Waiting == pc \in {"send", "http", "poll", "trx", "swap"}

CurOK == Waiting => cur \in Req

\* A request whose window is not closed yet has no write-set and no outcome.
FreshWindows ==
    \A r \in Req : (r > cur \/ (r = cur /\ Waiting)) => writeset[r] = {} /\ outcome[r] = "none"

StreamCommitted == \A i \in DOMAIN stream : stream[i].txn \in Committed

RowsOnce(s) ==
    \A i, j \in DOMAIN s : s[i].kind = "row" /\ s[i] = s[j] => i = j

\* A transaction belongs to a request that was fired.
Causes ==
    /\ serving \subseteq 1..cur
    /\ \A t \in Txn : stage[t] # "new" => cause[t] \in 1..cur

TrafficInv ==
    /\ TrafficTypeOK
    /\ CurOK
    /\ FreshWindows
    /\ StreamCommitted
    /\ RowsOnce(stream)
    /\ Causes

----------------------------------------------------------------------------
(* Types.                                                                  *)

\* Ages saturate at the horizon, which every bound of the code is below.
LEMMA Ages ==
    /\ Horizon \in Nat \ {0}
    /\ \A a \in 0..Horizon : Older(a) \in 0..Horizon
  BY TrafficAssumption DEF Horizon, Older

\* The driver's steps leave its variables in their types.
LEMMA DriverTypes ==
    ASSUME TrafficTypeOK, cur \in Req, NEW rows \in SUBSET Txn,
           \/ ReturnError
           \/ ReturnRows(rows)
           \/ \E phase \in Phases : Goto(phase)
    PROVE  /\ pc' \in Phases
           /\ cur' \in 0..N
           /\ elapsed' \in 0..Horizon
           /\ outcome' \in [Req -> {"none", "ok", "error"}]
           /\ writeset' \in [Req -> SUBSET Txn]
<1> USE TrafficAssumption DEF TrafficTypeOK, Phases, Req, Horizon
<1>1. CASE ReturnError
  BY <1>1 DEF ReturnError
<1>2. CASE ReturnRows(rows)
  BY <1>2 DEF ReturnRows
<1>3. ASSUME NEW phase \in Phases, Goto(phase)
      PROVE  /\ pc' \in Phases
             /\ UNCHANGED <<cur, elapsed, outcome, writeset>>
  BY <1>3 DEF Goto
<1> QED
  BY <1>1, <1>2, <1>3

----------------------------------------------------------------------------
(* The rows of a stream.                                                   *)

\* A commit puts exactly its own row into the stream.
LEMMA RowsOfCommit ==
    ASSUME NEW s \in Seq(Message), NEW t \in Txn, RowsOnce(s), t \notin Rows(s)
    PROVE  LET u == s \o <<[txn |-> t, kind |-> "row"], [txn |-> t, kind |-> "commit"]>>
           IN  /\ Rows(u) = Rows(s) \cup {t}
               /\ RowsOnce(u)
               /\ DOMAIN u = 1..(Len(s) + 2)
               /\ \A i \in DOMAIN s : u[i] = s[i]
               /\ u[Len(s) + 1].txn = t
               /\ u[Len(s) + 2].txn = t
<1> DEFINE row == [txn |-> t, kind |-> "row"]
           mark == [txn |-> t, kind |-> "commit"]
           u == s \o <<row, mark>>
<1>1. /\ DOMAIN s = 1..Len(s)
      /\ DOMAIN u = 1..(Len(s) + 2)
      /\ \A i \in 1..Len(s) : u[i] = s[i]
      /\ u[Len(s) + 1] = row
      /\ u[Len(s) + 2] = mark
      /\ Len(s) \in Nat
  OBVIOUS
<1>2. mark.kind = "commit" /\ row.kind = "row" /\ row.txn = t /\ mark.txn = t
  OBVIOUS
<1> HIDE DEF u, row, mark
<1>3. \A i \in DOMAIN u : i \in DOMAIN s \/ i = Len(s) + 1 \/ i = Len(s) + 2
  BY <1>1
<1>4. \A i \in DOMAIN s : s[i] # row
  BY DEF Rows, row
<1>5. RowsOnce(u)
  <2> SUFFICES ASSUME NEW i \in DOMAIN u, NEW j \in DOMAIN u,
                      u[i].kind = "row", u[i] = u[j]
               PROVE  i = j
    BY DEF RowsOnce
  <2> QED
    BY <1>1, <1>2, <1>3, <1>4 DEF RowsOnce
<1>6. Rows(u) = Rows(s) \cup {t}
  <2>1. \A x \in Txn : x \in Rows(s) => x \in Rows(u)
    BY <1>1 DEF Rows
  <2>2. t \in Rows(u)
    BY <1>1 DEF Rows, row
  <2>3. ASSUME NEW x \in Txn, x \in Rows(u)
        PROVE  x \in Rows(s) \cup {t}
    <3>1. PICK i \in DOMAIN u : u[i] = [txn |-> x, kind |-> "row"]
      BY <2>3 DEF Rows
    <3> QED
      BY <1>1, <1>2, <1>3, <3>1 DEF Rows
  <2> QED
    BY <2>1, <2>2, <2>3 DEF Rows
<1> QED
  BY <1>1, <1>2, <1>5, <1>6 DEF u, row, mark

\* Reading the head of the stream takes exactly its row out of it.
LEMMA RowsOfRead ==
    ASSUME NEW s \in Seq(Message), s # <<>>, RowsOnce(s)
    PROVE  /\ RowsOnce(Tail(s))
           /\ DOMAIN Tail(s) = 1..(Len(s) - 1)
           /\ \A i \in DOMAIN Tail(s) : Tail(s)[i] = s[i + 1] /\ i + 1 \in DOMAIN s
           /\ Head(s).kind # "row" => Rows(Tail(s)) = Rows(s)
           /\ Head(s).kind = "row" => /\ Rows(Tail(s)) = Rows(s) \ {Head(s).txn}
                                       /\ Head(s).txn \in Rows(s)
           /\ Head(s) = s[1] /\ 1 \in DOMAIN s
<1>1. /\ Len(s) \in Nat \ {0}
      /\ DOMAIN s = 1..Len(s)
      /\ Head(s) = s[1]
      /\ DOMAIN Tail(s) = 1..(Len(s) - 1)
      /\ \A i \in 1..(Len(s) - 1) : Tail(s)[i] = s[i + 1]
  OBVIOUS
<1>2. \A i \in DOMAIN s : s[i] \in Message
  OBVIOUS
<1>3. RowsOnce(Tail(s))
  BY <1>1 DEF RowsOnce
<1>4. \A x \in Txn : x \in Rows(Tail(s)) <=>
                     \E i \in 2..Len(s) : s[i] = [txn |-> x, kind |-> "row"]
  <2>1. ASSUME NEW x \in Txn, NEW i \in 2..Len(s), s[i] = [txn |-> x, kind |-> "row"]
        PROVE  x \in Rows(Tail(s))
    <3>1. i - 1 \in DOMAIN Tail(s) /\ Tail(s)[i - 1] = s[i]
      BY <1>1
    <3> QED
      BY <2>1, <3>1 DEF Rows
  <2>2. ASSUME NEW x \in Txn, x \in Rows(Tail(s))
        PROVE  \E i \in 2..Len(s) : s[i] = [txn |-> x, kind |-> "row"]
    <3>1. PICK j \in DOMAIN Tail(s) : Tail(s)[j] = [txn |-> x, kind |-> "row"]
      BY <2>2 DEF Rows
    <3> WITNESS j + 1 \in 2..Len(s)
    <3> QED
      BY <1>1, <3>1
  <2> QED
    BY <2>1, <2>2
<1>5. \A x \in Txn : x \in Rows(s) <=>
          s[1] = [txn |-> x, kind |-> "row"] \/ x \in Rows(Tail(s))
  BY <1>1, <1>4 DEF Rows
<1>6. \A x \in Txn : s[1] = [txn |-> x, kind |-> "row"]
                        => s[1].kind = "row" /\ s[1].txn = x
  OBVIOUS
<1>7. s[1].kind = "row" => s[1] = [txn |-> s[1].txn, kind |-> "row"] /\ s[1].txn \in Txn
  BY <1>1, <1>2 DEF Message
<1>8. s[1].kind = "row" => s[1].txn \notin Rows(Tail(s))
  BY <1>1, <1>4, <1>7 DEF RowsOnce
<1>9. Rows(s) \subseteq Txn /\ Rows(Tail(s)) \subseteq Txn
  BY DEF Rows
<1>10. s[1].kind # "row" => Rows(Tail(s)) = Rows(s)
  BY <1>5, <1>6, <1>9
<1>11. s[1].kind = "row" => Rows(Tail(s)) = Rows(s) \ {s[1].txn} /\ s[1].txn \in Rows(s)
  BY <1>5, <1>6, <1>7, <1>8, <1>9
<1>12. \A i \in DOMAIN Tail(s) : Tail(s)[i] = s[i + 1] /\ i + 1 \in DOMAIN s
  BY <1>1
<1> QED
  BY <1>1, <1>3, <1>10, <1>11, <1>12

----------------------------------------------------------------------------
(* The steps of the driver, the application and the stream, whatever the   *)
(* capture does in them.                                                   *)

\* TakeWindow and Stop: the driver goes on, or a window is closed.
DriverStep ==
    /\ \/ Waiting /\ ReturnError
       \/ Waiting /\ \E rows \in SUBSET Txn : ReturnRows(rows)
       \/ Waiting /\ \E phase \in Phases : Goto(phase)
       \/ Goto("stopped")
    /\ UNCHANGED <<appVars, streamVars>>

\* Steps that leave alone what the database did.
QuietStep ==
    \/ OpenWindow /\ UNCHANGED <<appVars, streamVars>>
    \/ Respond
    \/ DriverStep
    \/ \E streaming \in BOOLEAN : Pass(streaming)
    \/ UNCHANGED trafficVars

TrafficStep == QuietStep \/ Deliver \/ Outside

LEMMA TrafficTypes ==
    ASSUME TrafficTypeOK, CurOK, TrafficStep
    PROVE  TrafficTypeOK' /\ CurOK'
<1> USE DEF Waiting
<1>1. CASE OpenWindow /\ UNCHANGED <<appVars, streamVars>>
  BY <1>1, TrafficAssumption
     DEF OpenWindow, TrafficTypeOK, CurOK, Phases, Req, appVars, streamVars, Horizon
<1>2. CASE Respond
  BY <1>2, TrafficAssumption
     DEF Respond, TrafficTypeOK, CurOK, Phases, Req, appVars, streamVars, Horizon
<1>3. CASE DriverStep \/ SendFails \/ GiveUp
  <2>1. CASE Goto("stopped") /\ UNCHANGED <<appVars, streamVars>>
    BY <2>1 DEF Goto, TrafficTypeOK, CurOK, Phases, appVars, streamVars
  <2>2. ASSUME cur \in Req, NEW rows \in SUBSET Txn,
               \/ ReturnError
               \/ ReturnRows(rows)
               \/ \E phase \in Phases : Goto(phase),
               UNCHANGED <<appVars, streamVars>>
        PROVE  TrafficTypeOK' /\ CurOK'
    <3>1. /\ pc' \in Phases
          /\ cur' \in 0..N
          /\ elapsed' \in 0..Horizon
          /\ outcome' \in [Req -> {"none", "ok", "error"}]
          /\ writeset' \in [Req -> SUBSET Txn]
      BY <2>2, DriverTypes
    <3>2. cur' = cur
      BY <2>2 DEF ReturnError, ReturnRows, Goto
    <3> QED
      BY <2>2, <3>1, <3>2 DEF TrafficTypeOK, CurOK, appVars, streamVars
  <2>3. {} \in SUBSET Txn
    OBVIOUS
  <2>4. Waiting /\ ReturnError /\ UNCHANGED <<appVars, streamVars>>
            => TrafficTypeOK' /\ CurOK'
    BY <2>2, <2>3 DEF CurOK
  <2>5. Waiting /\ (\E rows \in SUBSET Txn : ReturnRows(rows)) /\ UNCHANGED <<appVars, streamVars>>
            => TrafficTypeOK' /\ CurOK'
    BY <2>2 DEF CurOK
  <2>6. Waiting /\ (\E phase \in Phases : Goto(phase)) /\ UNCHANGED <<appVars, streamVars>>
            => TrafficTypeOK' /\ CurOK'
    BY <2>2, <2>3 DEF CurOK
  <2>7. SendFails \/ GiveUp => Waiting /\ ReturnError /\ UNCHANGED <<appVars, streamVars>>
    BY DEF SendFails, GiveUp
  <2> HIDE DEF Waiting
  <2> QED
    BY <1>3, <2>1, <2>4, <2>5, <2>6, <2>7 DEF DriverStep
<1>4. ASSUME NEW streaming \in BOOLEAN, Pass(streaming)
      PROVE  TrafficTypeOK' /\ CurOK'
  <2>1. elapsed' \in 0..Horizon
    BY <1>4, Ages DEF Pass, TrafficTypeOK
  <2>2. lag' \in [Txn -> 0..MaxLag]
    BY <1>4, TrafficAssumption DEF Pass, TrafficTypeOK
  <2> QED
    BY <1>4, <2>1, <2>2 DEF Pass, TrafficTypeOK, CurOK, appVars
<1>5. CASE UNCHANGED trafficVars
  BY <1>5 DEF trafficVars, TrafficTypeOK, CurOK
<1>6. CASE Deliver
  <2>1. stream' \in Seq(Message)
    BY <1>6 DEF Deliver, TrafficTypeOK
  <2> QED
    BY <1>6, <2>1 DEF Deliver, TrafficTypeOK, CurOK, driverVars, appVars
<1>7. CASE Send
  BY <1>7 DEF Send, Goto, TrafficTypeOK, CurOK, Phases, streamVars
<1>8. ASSUME NEW t \in Txn, Begin(t)
      PROVE  TrafficTypeOK' /\ CurOK'
  BY <1>8, TrafficAssumption
     DEF Begin, TrafficTypeOK, CurOK, Req, driverVars, streamVars
<1>9. ASSUME NEW t \in Txn, Commit(t)
      PROVE  TrafficTypeOK' /\ CurOK'
  <2>1. stream' \in Seq(Message)
    BY <1>9 DEF Commit, Message, TrafficTypeOK
  <2> QED
    BY <1>9, <2>1 DEF Commit, TrafficTypeOK, CurOK, driverVars
<1>10. ASSUME NEW t \in Txn, Rollback(t)
       PROVE  TrafficTypeOK' /\ CurOK'
  BY <1>10 DEF Rollback, TrafficTypeOK, CurOK, driverVars, streamVars
<1> QED
  BY <1>1, <1>2, <1>3, <1>4, <1>5, <1>6, <1>7, <1>8, <1>9, <1>10
     DEF TrafficStep, QuietStep, Outside

LEMMA TrafficInitInv == ASSUME TrafficInit PROVE TrafficInv
<1> USE TrafficAssumption DEF TrafficInit
<1>1. pc \in Phases /\ cur \in 0..N /\ cause \in [Txn -> 0..N]
  BY DEF Phases, NoReq
<1>2. elapsed \in 0..Horizon /\ lag \in [Txn -> 0..MaxLag]
  BY Ages
<1>3. stream \in Seq(Message) /\ DOMAIN stream = {}
  OBVIOUS
<1> QED
  BY <1>1, <1>2, <1>3
     DEF TrafficInv, TrafficTypeOK, CurOK, Waiting, FreshWindows, StreamCommitted,
         RowsOnce, Causes

\* What a quiet step leaves as it is.
LEMMA QuietLeaves ==
    ASSUME QuietStep
    PROVE  UNCHANGED <<stream, stage, cause>>
  BY DEF QuietStep, OpenWindow, Respond, DriverStep, Pass, trafficVars, appVars, streamVars

LEMMA QuietKeeps ==
    ASSUME TrafficInv, QuietStep
    PROVE  FreshWindows' /\ StreamCommitted' /\ RowsOnce(stream)' /\ Causes'
<1>1. UNCHANGED <<stream, stage, cause>>
  BY QuietLeaves
<1>2. StreamCommitted' /\ RowsOnce(stream)'
  BY <1>1 DEF TrafficInv, StreamCommitted, RowsOnce, Committed
<1>3. cur \in Nat /\ cur' \in Nat /\ cur <= cur'
  BY DEF QuietStep, OpenWindow, Respond, DriverStep, ReturnError, ReturnRows, Goto, Pass,
         trafficVars, TrafficInv, TrafficTypeOK
<1>4. serving' \subseteq serving
  BY DEF QuietStep, Respond, DriverStep, Pass, trafficVars, appVars, streamVars
<1>5. Causes'
  BY <1>1, <1>3, <1>4 DEF TrafficInv, Causes, TrafficTypeOK
<1>6. /\ \A r \in Req \ {cur} : writeset'[r] = writeset[r] /\ outcome'[r] = outcome[r]
      /\ \/ UNCHANGED <<writeset, outcome>> /\ cur' = cur /\ (Waiting' => Waiting)
         \/ UNCHANGED <<writeset, outcome>> /\ cur' = cur + 1
         \/ cur' = cur /\ ~Waiting'
  BY DEF QuietStep, OpenWindow, Respond, DriverStep, ReturnError, ReturnRows, Goto, Pass,
         trafficVars, Waiting, TrafficInv, TrafficTypeOK
<1>7. FreshWindows'
  <2>1. CASE UNCHANGED <<writeset, outcome>> /\ cur' = cur /\ (Waiting' => Waiting)
    BY <2>1 DEF TrafficInv, FreshWindows
  <2>2. CASE UNCHANGED <<writeset, outcome>> /\ cur' = cur + 1
    BY <1>3, <2>2 DEF TrafficInv, FreshWindows, Req
  <2>3. CASE cur' = cur /\ ~Waiting'
    BY <1>3, <1>6, <2>3 DEF TrafficInv, FreshWindows, Req
  <2> QED
    BY <1>6, <2>1, <2>2, <2>3
<1> QED
  BY <1>2, <1>5, <1>7

\* Where the rows are after a message was read.
LEMMA DeliverKeeps ==
    ASSUME TrafficInv, Deliver
    PROVE  /\ FreshWindows' /\ StreamCommitted' /\ RowsOnce(stream)' /\ Causes'
           /\ Head(stream) \in Message
           /\ Head(stream).txn \in Committed
           /\ Head(stream).kind # "row" => Rows(stream)' = Rows(stream)
           /\ Head(stream).kind = "row" => /\ Rows(stream)' = Rows(stream) \ {Head(stream).txn}
                                            /\ Head(stream).txn \in Rows(stream)
<1> USE DEF Deliver, driverVars, appVars
<1>1. stream \in Seq(Message) /\ stream # <<>> /\ RowsOnce(stream)
  BY DEF TrafficInv, TrafficTypeOK
<1>2. /\ RowsOnce(stream')
      /\ \A i \in DOMAIN stream' : stream'[i] = stream[i + 1] /\ i + 1 \in DOMAIN stream
      /\ Head(stream).kind # "row" => Rows(stream') = Rows(stream)
      /\ Head(stream).kind = "row" => /\ Rows(stream') = Rows(stream) \ {Head(stream).txn}
                                       /\ Head(stream).txn \in Rows(stream)
      /\ Head(stream) = stream[1] /\ 1 \in DOMAIN stream
  BY <1>1, RowsOfRead
<1>3. Rows(stream)' = Rows(stream') /\ RowsOnce(stream)' = RowsOnce(stream')
  BY DEF Rows, RowsOnce
<1>4. Head(stream) \in Message
  BY <1>1
<1>5. Committed' = Committed
  BY DEF Committed
<1>6. StreamCommitted' /\ Head(stream).txn \in Committed
  BY <1>2, <1>5 DEF TrafficInv, StreamCommitted
<1>7. FreshWindows' /\ Causes'
  BY DEF TrafficInv, FreshWindows, Waiting, Causes
<1> QED
  BY <1>2, <1>3, <1>4, <1>6, <1>7

\* What the application may do to rows: it puts new ones into the stream.
LEMMA OutsideKeeps ==
    ASSUME TrafficInv, Outside
    PROVE  /\ FreshWindows' /\ StreamCommitted' /\ RowsOnce(stream)' /\ Causes'
           /\ UNCHANGED <<cur, writeset>>
           /\ Committed \subseteq Committed'
           /\ \A x \in Committed : cause'[x] = cause[x]
           /\ Rows(stream)' = Rows(stream) \cup (Committed' \ Committed)
<1> USE DEF TrafficInv
<1>1. CASE SendFails \/ GiveUp
  <2>1. QuietStep
    BY <1>1 DEF SendFails, GiveUp, QuietStep, DriverStep, Waiting
  <2>2. UNCHANGED <<stream, stage, cause, cur, writeset>>
    BY <1>1, <2>1, QuietLeaves DEF SendFails, GiveUp, ReturnError
  <2> QED
    BY <2>1, <2>2, QuietKeeps DEF Committed, Rows
<1>2. CASE Send
  <2>1. UNCHANGED <<stream, stage, cause, cur, writeset, outcome>> /\ Waiting /\ cur \in Req
    BY <1>2 DEF Send, Goto, streamVars, Waiting, CurOK
  <2>2. Causes'
    BY <1>2, <2>1 DEF Send, Causes, Req
  <2> QED
    BY <2>1, <2>2 DEF Committed, Rows, FreshWindows, StreamCommitted, RowsOnce
<1>3. ASSUME NEW t \in Txn, Begin(t) \/ Rollback(t)
      PROVE  /\ FreshWindows' /\ StreamCommitted' /\ RowsOnce(stream)' /\ Causes'
             /\ UNCHANGED <<cur, writeset>>
             /\ Committed' = Committed
             /\ \A x \in Committed : cause'[x] = cause[x]
             /\ Rows(stream)' = Rows(stream)
  <2> USE DEF Begin, Rollback, driverVars, streamVars
  <2>1. t \notin Committed /\ Committed' = Committed
    BY <1>3 DEF Committed, TrafficTypeOK
  <2>2. \A x \in Committed : cause'[x] = cause[x]
    BY <1>3, <2>1 DEF Committed, TrafficTypeOK
  <2>3. Rows(stream)' = Rows(stream)
    BY <1>3 DEF Rows
  <2>4. Causes'
    <3> USE DEF Causes, TrafficTypeOK
    <3>1. CASE Begin(t)
      <4>1. PICK r \in serving : cause' = [cause EXCEPT ![t] = r]
        BY <3>1
      <4>2. \A x \in Txn : stage'[x] # "new" => x = t \/ stage[x] # "new"
        BY <3>1
      <4>3. cause'[t] \in 1..cur /\ \A x \in Txn \ {t} : cause'[x] = cause[x]
        BY <4>1
      <4> QED
        BY <3>1, <4>2, <4>3
    <3>2. CASE Rollback(t)
      BY <3>2
    <3> QED
      BY <1>3, <3>1, <3>2
  <2>5. FreshWindows' /\ StreamCommitted' /\ RowsOnce(stream)' /\ UNCHANGED <<cur, writeset>>
    BY <1>3, <2>1 DEF FreshWindows, Waiting, StreamCommitted, RowsOnce
  <2> QED
    BY <2>1, <2>2, <2>3, <2>4, <2>5
<1>4. ASSUME NEW t \in Txn, Commit(t)
      PROVE  /\ FreshWindows' /\ StreamCommitted' /\ RowsOnce(stream)' /\ Causes'
             /\ UNCHANGED <<cur, writeset, cause>>
             /\ Committed' = Committed \cup {t} /\ t \notin Committed
             /\ Rows(stream)' = Rows(stream) \cup {t}
  <2> USE <1>4 DEF Commit, driverVars
  <2>1. Committed' = Committed \cup {t} /\ t \notin Committed
    BY DEF Committed, TrafficTypeOK
  <2>2. t \notin Rows(stream)
    BY <2>1 DEF Rows, StreamCommitted
  <2>3. stream \in Seq(Message) /\ RowsOnce(stream)
    BY DEF TrafficTypeOK
  <2>4. /\ Rows(stream') = Rows(stream) \cup {t}
        /\ RowsOnce(stream')
        /\ DOMAIN stream' = 1..(Len(stream) + 2)
        /\ \A i \in DOMAIN stream : stream'[i] = stream[i]
        /\ stream'[Len(stream) + 1].txn = t
        /\ stream'[Len(stream) + 2].txn = t
    BY <2>2, <2>3, RowsOfCommit
  <2>5. \A i \in DOMAIN stream' : i \in DOMAIN stream \/ i = Len(stream) + 1 \/ i = Len(stream) + 2
    BY <2>3, <2>4
  <2>6. StreamCommitted'
    BY <2>1, <2>4, <2>5 DEF StreamCommitted
  <2>7. Rows(stream)' = Rows(stream')
    BY DEF Rows
  <2>8. FreshWindows' /\ RowsOnce(stream)'
    BY <2>4 DEF FreshWindows, Waiting, RowsOnce
  <2>9. Causes'
    BY DEF Causes, TrafficTypeOK
  <2> QED
    BY <2>1, <2>4, <2>6, <2>7, <2>8, <2>9
<1> QED
  BY <1>1, <1>2, <1>3, <1>4 DEF Outside

LEMMA TrafficNext ==
    ASSUME TrafficInv, TrafficStep
    PROVE  TrafficInv'
<1>1. TrafficTypeOK' /\ CurOK'
  BY TrafficTypes DEF TrafficInv
<1> QED
  BY <1>1, QuietKeeps, DeliverKeeps, OutsideKeeps DEF TrafficStep, TrafficInv
----------------------------------------------------------------------------
(* The calm environment of the contract: nothing fails, nothing is written  *)
(* after the answer, and the stream's delay is bounded.  Then transactions   *)
(* run inside of their request's HTTP call alone, and what they wrote has    *)
(* left the stream once more than MaxLag ticks have passed after the answer. *)

CalmTraffic == ~MayFail /\ ~Background /\ Prompt

Orderly ==
    /\ \A r \in serving : r = cur /\ pc = "http"
    /\ \A t \in Active : cause[t] = cur /\ pc = "http"

Overdue == pc \in {"poll", "trx"} => \A t \in InFlight : elapsed <= lag[t]

Delivered == pc \notin {"http", "poll"} => stream = <<>>

Timely == Orderly /\ Overdue /\ Delivered

\* A window that was closed returned its request's rows, those of S left out.
Closed(r) == r < cur \/ (r = cur /\ ~Waiting)
Settled(S) == \A r \in Req : Closed(r) => writeset[r] = RowsOf(r) \ S /\ outcome[r] = "ok"

LEMMA CalmInit == ASSUME TrafficInit PROVE Timely /\ \A S : Settled(S)
<1>1. serving = {} /\ Active = {} /\ stream = <<>> /\ pc = "idle" /\ cur = 0
  BY DEF TrafficInit, Active, NoReq
<1> QED
  BY <1>1 DEF Timely, Orderly, Overdue, Delivered, Settled, Closed, Req

LEMMA InFlightTypes == TrafficTypeOK => InFlight \subseteq Txn
<1> SUFFICES ASSUME TrafficTypeOK, NEW i \in DOMAIN stream PROVE stream[i].txn \in Txn
  BY DEF InFlight
<1>1. stream \in Seq(Message)
  BY DEF TrafficTypeOK
<1>2. stream[i] \in Message
  BY <1>1
<1> QED
  BY <1>2 DEF Message

\* After MaxLag ticks nothing is in the stream.
LEMMA LagOver ==
    ASSUME TrafficTypeOK, Overdue, pc \in {"poll", "trx"}, elapsed > MaxLag
    PROVE  stream = <<>>
<1> SUFFICES ASSUME stream # <<>> PROVE FALSE
  OBVIOUS
<1>1. stream \in Seq(Message) /\ 1 \in DOMAIN stream /\ stream[1] \in Message
  BY DEF TrafficTypeOK
<1>2. stream[1].txn \in Txn /\ stream[1].txn \in InFlight
  BY <1>1 DEF Message, InFlight
<1>3. lag[stream[1].txn] \in 0..MaxLag /\ elapsed \in Nat
  <2>1. lag \in [Txn -> 0..MaxLag] /\ elapsed \in 0..Horizon
    BY DEF TrafficTypeOK
  <2>2. elapsed \in Nat
    BY <2>1, Ages
  <2> QED
    BY <1>2, <2>1, <2>2
<1>4. elapsed <= lag[stream[1].txn]
  BY <1>2 DEF Overdue
<1> QED
  BY <1>3, <1>4, TrafficAssumption

\* The driver's steps but for the answer: a window is left open only with
\* nothing in the stream.
LEMMA PhaseCalm ==
    ASSUME Timely, UNCHANGED <<appVars, streamVars>>,
           pc # "http", pc' # "http",
           cur' = cur \/ pc = "idle",
           pc' \in {"poll", "trx"} => pc \in {"poll", "trx"} /\ elapsed' = elapsed,
           pc' # "poll" => stream = <<>>
    PROVE  Timely'
<1>1. serving = {} /\ Active = {} /\ Active' = Active /\ InFlight' = InFlight
  BY DEF Timely, Orderly, appVars, streamVars, Active, InFlight
<1>2. Orderly'
  BY <1>1 DEF Orderly, appVars
<1>3. Overdue'
  BY <1>1 DEF Timely, Overdue, streamVars
<1>4. Delivered'
  BY DEF Delivered, streamVars
<1> QED
  BY <1>2, <1>3, <1>4 DEF Timely

LEMMA RespondCalm ==
    ASSUME CalmTraffic, TrafficTypeOK, Timely, Respond
    PROVE  Timely'
<1>1. /\ pc = "http" /\ pc' = "poll" /\ elapsed' = 0
      /\ serving' = serving \ {cur} /\ \A t \in Active : cause[t] # cur
      /\ UNCHANGED <<cur, stage, cause, stream, lag>>
  BY DEF Respond, CalmTraffic, streamVars
<1>2. serving' = {} /\ Active' = {}
  BY <1>1 DEF Timely, Orderly, Active
<1>3. InFlight' = InFlight /\ InFlight \subseteq Txn
  BY <1>1, InFlightTypes DEF InFlight
<1>4. Overdue'
  BY <1>1, <1>3 DEF Overdue, TrafficTypeOK
<1> QED
  BY <1>1, <1>2, <1>4 DEF Timely, Orderly, Delivered

LEMMA DeliverCalm ==
    ASSUME TrafficTypeOK, Timely, Deliver
    PROVE  Timely'
<1>1. UNCHANGED <<pc, cur, elapsed, serving, stage, cause, lag>> /\ stream' = Tail(stream)
  BY DEF Deliver, driverVars, appVars
<1>2. stream \in Seq(Message) /\ stream # <<>>
  BY DEF Deliver, TrafficTypeOK
<1>3. DOMAIN Tail(stream) = 1..(Len(stream) - 1)
      /\ \A i \in 1..(Len(stream) - 1) : Tail(stream)[i] = stream[i + 1] /\ i + 1 \in DOMAIN stream
  BY <1>2
<1>4. InFlight' \subseteq InFlight
  BY <1>1, <1>3 DEF InFlight
<1>5. Active' = Active
  BY <1>1 DEF Active
<1>6. Orderly'
  BY <1>1, <1>5 DEF Timely, Orderly
<1>7. Overdue'
  BY <1>1, <1>4 DEF Timely, Overdue
<1>8. Delivered'
  BY <1>1, <1>2 DEF Timely, Delivered
<1> QED
  BY <1>6, <1>7, <1>8 DEF Timely

LEMMA PassCalm ==
    ASSUME CalmTraffic, TrafficTypeOK, Timely, Pass(TRUE)
    PROVE  Timely'
<1>1. /\ UNCHANGED <<pc, cur, stage, cause, serving, stream>>
      /\ \A t \in InFlight : lag[t] < MaxLag
      /\ elapsed' = Older(elapsed)
      /\ lag' = [t \in Txn |-> IF t \in InFlight /\ lag[t] < MaxLag THEN lag[t] + 1 ELSE lag[t]]
  BY DEF Pass, CalmTraffic, appVars
<1>2. Active' = Active /\ InFlight' = InFlight /\ InFlight \subseteq Txn
  BY <1>1, InFlightTypes DEF Active, InFlight
<1>3. elapsed \in Nat /\ elapsed' <= elapsed + 1 /\ elapsed' \in Nat
  BY <1>1, Ages DEF TrafficTypeOK, Older
<1>4. \A t \in InFlight : lag'[t] = lag[t] + 1 /\ lag[t] \in Nat
  BY <1>1, <1>2, TrafficAssumption DEF TrafficTypeOK
<1>5. Overdue'
  <2> SUFFICES ASSUME pc \in {"poll", "trx"}, NEW t \in InFlight
               PROVE  elapsed' <= lag'[t]
    BY <1>1, <1>2 DEF Overdue
  <2>1. elapsed <= lag[t]
    BY DEF Timely, Overdue
  <2> QED
    BY <1>3, <1>4, <2>1
<1>6. Orderly' /\ Delivered'
  BY <1>1, <1>2 DEF Timely, Orderly, Delivered
<1> QED
  BY <1>5, <1>6 DEF Timely

\* The application in the calm environment: it runs while it is asked to.
LEMMA OutsideCalm ==
    ASSUME CalmTraffic, TrafficInv, Timely, Outside
    PROVE  /\ Timely'
           /\ UNCHANGED <<cur, elapsed, writeset, outcome>>
           /\ \/ pc = "send" /\ pc' = "http" /\ UNCHANGED <<stage, cause, streamVars>>
              \/ /\ pc = "http" /\ pc' = "http"
                 /\ \E t \in Txn : Begin(t) \/ Commit(t) \/ Rollback(t)
<1> USE DEF Timely
<1>1. Send \/ \E t \in Txn : Begin(t) \/ Commit(t) \/ Rollback(t)
  BY DEF Outside, SendFails, GiveUp, CalmTraffic
<1>2. CASE Send
  <2>1. /\ pc = "send" /\ pc' = "http"
        /\ UNCHANGED <<cur, elapsed, outcome, writeset, stage, cause, streamVars>>
        /\ serving' = serving \cup {cur}
    BY <1>2, Zenon DEF Send, Goto
  <2>2. serving = {} /\ Active = {} /\ Active' = Active
    BY <2>1 DEF Orderly, Active
  <2>3. Timely'
    BY <2>1, <2>2 DEF Orderly, Overdue, Delivered
  <2> QED
    BY <2>1, <2>3
<1>3. ASSUME NEW t \in Txn, Begin(t) \/ Commit(t) \/ Rollback(t)
      PROVE  pc = "http" /\ UNCHANGED driverVars /\ Timely'
  <2>1. UNCHANGED driverVars
    BY <1>3 DEF Begin, Commit, Rollback
  <2>2. CASE Begin(t)
    <3>1. PICK r \in serving : cause' = [cause EXCEPT ![t] = r]
      BY <2>2 DEF Begin
    <3>2. pc = "http" /\ r = cur /\ UNCHANGED <<serving, pc, cur>>
      BY <2>1, <2>2, <3>1 DEF Orderly, Begin, driverVars
    <3>3. Active' \subseteq Active \cup {t} /\ cause \in [Txn -> 0..N]
      BY <2>2 DEF Begin, Active, TrafficInv, TrafficTypeOK
    <3>4. \A x \in Active' : cause'[x] = cur
      BY <3>1, <3>2, <3>3 DEF Orderly, Active
    <3> QED
      BY <2>1, <3>2, <3>4 DEF Orderly, Overdue, Delivered, driverVars
  <2>3. CASE Commit(t) \/ Rollback(t)
    <3>1. t \in Active /\ UNCHANGED <<serving, cause>>
      BY <2>3 DEF Commit, Rollback, Active
    <3>2. pc = "http" /\ UNCHANGED <<pc, cur>>
      BY <2>1, <3>1 DEF Orderly, driverVars
    <3>3. Active' \subseteq Active
      BY <2>3 DEF Commit, Rollback, Active, TrafficInv, TrafficTypeOK
    <3> QED
      BY <2>1, <3>1, <3>2, <3>3 DEF Orderly, Overdue, Delivered
  <2> QED
    BY <1>3, <2>1, <2>2, <2>3
<1> QED
  BY <1>1, <1>2, <1>3 DEF driverVars

\* What a transaction does to the rows of the requests: a commit adds its own to
\* those of the request in progress.
LEMMA RowsOfTxn ==
    ASSUME TrafficTypeOK, NEW t \in Txn, Begin(t) \/ Commit(t) \/ Rollback(t)
    PROVE  \A r : RowsOf(r)' = IF stage'[t] = "committed" /\ cause[t] = r
                               THEN RowsOf(r) \cup {t} ELSE RowsOf(r)
<1>1. CASE Begin(t) \/ Rollback(t)
  <2>1. /\ stage'[t] \in {"active", "aborted"}
        /\ \A x \in Txn \ {t} : stage'[x] = stage[x] /\ cause'[x] = cause[x]
        /\ stage[t] # "committed"
    BY <1>1 DEF Begin, Rollback, TrafficTypeOK
  <2> QED
    BY <2>1 DEF RowsOf, Committed
<1>2. CASE Commit(t)
  <2>1. /\ stage'[t] = "committed" /\ cause' = cause
        /\ \A x \in Txn \ {t} : stage'[x] = stage[x]
    BY <1>2 DEF Commit, TrafficTypeOK
  <2> QED
    BY <2>1 DEF RowsOf, Committed
<1> QED
  BY <1>1, <1>2

\* Settled requests stay so.
LEMMA SettledStays ==
    ASSUME NEW S, Settled(S), UNCHANGED <<stage, cause, writeset, outcome>>,
           \A r \in Req : Closed(r)' => Closed(r)
    PROVE  Settled(S)'
  BY DEF Settled, RowsOf, Committed

LEMMA OutsideSettled ==
    ASSUME CalmTraffic, TrafficInv, Timely, Outside, NEW S, Settled(S)
    PROVE  Settled(S)'
<1>1. CASE pc = "send" /\ pc' = "http" /\ UNCHANGED <<stage, cause, streamVars>>
  <2>1. UNCHANGED <<cur, writeset, outcome>>
    BY OutsideCalm
  <2>2. \A r \in Req : Closed(r)' => Closed(r)
    BY <1>1, <2>1 DEF Closed, Waiting
  <2> QED
    BY <1>1, <2>1, <2>2, SettledStays
<1>2. ASSUME NEW t \in Txn, Begin(t) \/ Commit(t) \/ Rollback(t), pc = "http", pc' = "http"
      PROVE  Settled(S)'
  <2>1. UNCHANGED <<cur, writeset, outcome>>
    BY OutsideCalm
  <2>2. \A r \in Req : Closed(r)' => r < cur
    BY <1>2, <2>1 DEF Closed, Waiting
  <2>3. stage'[t] = "committed" => cause[t] = cur
    BY <1>2 DEF Timely, Orderly, Active, Begin, Commit, Rollback, TrafficInv, TrafficTypeOK
  <2>4. \A r : RowsOf(r)' = IF stage'[t] = "committed" /\ cause[t] = r
                            THEN RowsOf(r) \cup {t} ELSE RowsOf(r)
    BY <1>2, RowsOfTxn DEF TrafficInv
  <2>5. cur \in Nat /\ Req \subseteq Nat
    BY DEF TrafficInv, TrafficTypeOK, Req
  <2>6. \A r \in Req : Closed(r)' => Closed(r) /\ RowsOf(r)' = RowsOf(r)
    BY <2>2, <2>3, <2>4, <2>5 DEF Closed
  <2> QED
    BY <2>1, <2>6 DEF Settled
<1> QED
  BY <1>1, <1>2, OutsideCalm
=============================================================================
