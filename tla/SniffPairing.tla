---------------------------- MODULE SniffPairing ----------------------------
(***************************************************************************)
(* The passive sniffer (internal/sniff): packets of both directions of     *)
(* every TCP connection are reassembled into streams, the streams parsed   *)
(* into HTTP messages, requests and responses of a connection paired first *)
(* in first out, sampled, and written to a file that golden.Read and       *)
(* corpus.Load sort by the time each request was parsed -- by its text.    *)
(*                                                                         *)
(* An exchange is a number, given in the order in which requests are sent; *)
(* its request and its response are one packet each.  The message -e is    *)
(* the "100 Continue" that precedes response e, 0 a response whose request *)
(* was sent before the capture began.  Clients, server and network are     *)
(* outside the repository, and so is the reassembler (gopacket's           *)
(* tcpassembly), which hands a half of a connection its bytes in order and *)
(* holds them back behind a missing packet, or a missing handshake, until  *)
(* it is flushed.  Its HandlePacket returns when the parser asks for more  *)
(* bytes: a packet that is not held is parsed before the next one is read. *)
(* When the parser never asks, the call never returns.                     *)
(***************************************************************************)
EXTENDS Integers, Sequences, FiniteSets

CONSTANTS
    Conn,   \* connection keys: addresses and ports, which may be used again
    N,      \* exchanges
    Faults, \* things that go wrong for the capture, and pauses, in one behaviour, at most
    Places, \* digits of a fraction of a second
    Clock   \* the time when the n-th request has just been sent

\* A time is its seconds and the digits of its fraction.
Time == Nat \X [1..Places -> 0..9]

Earlier(a, b) ==
    \/ a[1] < b[1]
    \/ a[1] = b[1] /\ \E i \in 1..Places :
            a[2][i] < b[2][i] /\ \A k \in 1..(i - 1) : a[2][k] = b[2][k]

ASSUME SniffAssumption ==
    /\ IsFiniteSet(Conn) /\ N \in Nat /\ Faults \in Nat /\ Places \in Nat
    /\ Clock \in [0..N -> Time]
    /\ \A m, n \in 0..N : m < n => Earlier(Clock[m], Clock[n])

Exch == 1..N
Before == 0       \* the exchange in progress when the capture begins
NoExch == N + 1
Gap == N + 1      \* in held: a packet that was never seen
Dir == {"req", "resp"}
Half == Conn \X Dir

VARIABLES
    \* the traffic
    open,       \* connections between a client and the server
    sent,       \* exchanges sent so far
    kind,       \* what each of them is
    owed,       \* the exchange a connection waits for, or NoExch
    \* the capture
    phase,      \* "running", "flushing" once stopped, "done"
    half,       \* the stream of each direction and its parser
    held,       \* what the reassembler, or a parser in a body, holds back
    requests,   \* conn.requests of each key
    responses,  \* conn.responses
    ts,         \* pendingRequest.ts, an argument of Clock
    file,       \* the output's lines
    \* known to an observer only
    faults,     \* how much has gone wrong, or paused
    clean,      \* the keys on which nothing has
    prompt,     \* requests parsed as they arrived
    complete,   \* exchanges of a clean key whose packets were both seen
    sampled     \* exchanges left out by sampling

trafficVars == <<open, sent, kind, owed>>
streamVars == <<half, held>>
pairVars == <<requests, responses, ts, file, prompt, sampled>>
ghostVars == <<faults, clean>>
vars == <<trafficVars, streamVars, pairVars, ghostVars, phase, complete>>

Kinds == {"read", "write", "head", "expect"}
IsReadKind(k) == k \in {"read", "head"}
IsRead(e) == IsReadKind(kind[e])
Line == [req : Exch, resp : Int, ts : 0..N, clean : BOOLEAN]

TypeOK ==
    /\ open \subseteq Conn
    /\ sent \in 0..N
    /\ kind \in [Exch -> Kinds]
    /\ owed \in [Conn -> 0..NoExch]
    /\ phase \in {"running", "flushing", "done"}
    /\ half \in [Half -> {"none", "live", "holding", "body", "dead", "stuck"}]
    /\ held \in [Half -> Seq(Int)]
    /\ requests \in [Conn -> Seq(Exch)]
    /\ responses \in [Conn -> Seq(Int)]
    /\ ts \in [Exch -> 0..N]
    /\ file \in Seq(Line)
    /\ faults \in 0..Faults
    /\ clean \subseteq Conn
    /\ prompt \subseteq Exch
    /\ complete \subseteq Exch \X Conn
    /\ sampled \subseteq Exch

\* Connections may be open already, with a response due or not; of these the
\* reassembler has seen no handshake.
Init ==
    /\ open \in SUBSET Conn
    /\ sent = 0
    /\ kind = [e \in Exch |-> "read"]
    /\ owed \in [Conn -> {Before, NoExch}]
    /\ \A c \in Conn \ open : owed[c] = NoExch
    /\ phase = "running"
    /\ half = [h \in Half |-> IF h[1] \in open THEN "holding" ELSE "none"]
    /\ held = [h \in Half |-> IF owed[h[1]] = Before THEN <<Gap>> ELSE <<>>]
    /\ requests = [c \in Conn |-> <<>>]
    /\ responses = [c \in Conn |-> <<>>]
    /\ ts = [e \in Exch |-> 0]
    /\ file = <<>>
    /\ clean = {c \in Conn : owed[c] = NoExch}
    /\ faults = Cardinality(Conn \ clean)
    /\ faults <= Faults
    /\ prompt = {}
    /\ complete = {}
    /\ sampled = {}

----------------------------------------------------------------------------
(* Pairing and output: addRequest, addResponse, match and Output.Sink.     *)

Shorter(m, n) == IF m < n THEN m ELSE n

\* Ways to keep some of n lines: which ones, in order.
Selection(n) ==
    {s \in UNION {[1..m -> 1..n] : m \in 0..n} :
        \A i, j \in DOMAIN s : i < j => s[i] < s[j]}

\* The lines s are written, the others left out.
Keep(pairs, s) ==
    /\ file' = file \o [i \in DOMAIN s |-> pairs[s[i]]]
    /\ sampled' = sampled \cup {pairs[i].req : i \in DOMAIN pairs \ {s[j] : j \in DOMAIN s}}

\* Mutant of Sink: writes are sampled like reads.
SinkSamplesAll(pairs) == \E s \in Selection(Len(pairs)) : Keep(pairs, s)

\* A read may be sampled out, a write never (SampleAllWrites).  Writing itself is
\* golden.Writer.Append, whose failures are part of Recorder.
Sink(pairs) ==
    \E s \in Selection(Len(pairs)) :
        /\ Keep(pairs, s)
        /\ \A i \in DOMAIN pairs : ~IsReadKind(kind'[pairs[i].req]) => \E j \in DOMAIN s : s[j] = i

\* Mutants of Match: responses are taken from the other end; an exchange is stamped
\* when it is complete.
MatchNewest(c, R, S) ==
    LET n == Shorter(Len(R), Len(S)) IN
    /\ requests' = [requests EXCEPT ![c] = SubSeq(R, n + 1, Len(R))]
    /\ responses' = [responses EXCEPT ![c] = SubSeq(S, 1, Len(S) - n)]
    /\ Sink([i \in 1..n |-> [req |-> R[i], resp |-> S[Len(S) + 1 - i], ts |-> ts'[R[i]],
                             clean |-> c \in clean']])

MatchStamps(c, R, S) ==
    LET n == Shorter(Len(R), Len(S)) IN
    /\ requests' = [requests EXCEPT ![c] = SubSeq(R, n + 1, Len(R))]
    /\ responses' = [responses EXCEPT ![c] = SubSeq(S, n + 1, Len(S))]
    /\ Sink([i \in 1..n |-> [req |-> R[i], resp |-> S[i], ts |-> Len(file) + i,
                             clean |-> c \in clean']])

Match(c, R, S) ==
    LET n == Shorter(Len(R), Len(S)) IN
    /\ requests' = [requests EXCEPT ![c] = SubSeq(R, n + 1, Len(R))]
    /\ responses' = [responses EXCEPT ![c] = SubSeq(S, n + 1, Len(S))]
    /\ Sink([i \in 1..n |-> [req |-> R[i], resp |-> S[i], ts |-> ts'[R[i]],
                             clean |-> c \in clean']])

\* The parser of a half has read the messages ms.  Requests are stamped with
\* the time of parsing, not of the packet; the clock stands still between two
\* requests of the clients.
Parse(h, ms) ==
    LET c == h[1] IN
    IF h[2] = "req"
    THEN /\ ts' = [e \in Exch |-> IF \E i \in DOMAIN ms : ms[i] = e THEN sent' ELSE ts[e]]
         /\ Match(c, requests[c] \o ms, responses[c])
    ELSE /\ UNCHANGED ts
         /\ Match(c, requests[c], responses[c] \o ms)

----------------------------------------------------------------------------
(* HandlePacket, and consume on the other end of a stream.                 *)

\* A parser that fails discards the rest of its stream -- unless the text of the
\* error, which quotes the line it could not parse, contains "closed" or "EOF"
\* (errIsClosed): then it only returns, and the reassembler waits for it for ever,
\* in RunLive at once and with all streams, in RunMirror when it comes back to this
\* one.
Failed(h) == {"stuck", IF h[1] \in open THEN "dead" ELSE "none"}

IsHead(m) == m \in Exch /\ kind[m] = "head"

\* A packet with message m of half h is handled.  http.ReadResponse is not
\* told the request: the answer to a HEAD request is taken to have a body and
\* swallows the answers after it, until their bytes suffice; what is left of
\* the last one is not HTTP.  A packet for a parser that is stuck is the last one
\* that is read: no step.
Arrives(h, m) ==
    \/ /\ half[h] = "live"
       /\ IF h[2] = "resp" /\ IsHead(m)
          THEN /\ half' = [half EXCEPT ![h] = "body"]
               /\ held' = [held EXCEPT ![h] = <<m>>]
               /\ UNCHANGED pairVars
          ELSE /\ Parse(h, <<m>>)
               /\ prompt' = IF h[2] = "req" THEN prompt \cup {m} ELSE prompt
               /\ UNCHANGED <<half, held>>
    \/ /\ half[h] = "holding"
       /\ held' = [held EXCEPT ![h] = Append(@, m)]
       /\ UNCHANGED <<half, pairVars>>
    \/ /\ half[h] = "body"
       /\ \/ UNCHANGED <<half, held, pairVars>>
          \/ /\ Parse(h, held[h])
             /\ half' \in {[half EXCEPT ![h] = s] : s \in Failed(h)}
             /\ held' = [held EXCEPT ![h] = <<>>]
             /\ UNCHANGED prompt
    \/ /\ half[h] \in {"dead", "none"}
       /\ UNCHANGED <<half, held, pairVars>>

WithGap(s) == IF s # <<>> /\ s[Len(s)] = Gap THEN s ELSE Append(s, Gap)

\* A packet of half h is missing from the capture: everything after it is held.
IsLost(h) ==
    /\ half' = [half EXCEPT ![h] = IF @ = "live" THEN "holding" ELSE @]
    /\ held' = [held EXCEPT ![h] = IF half[h] \in {"live", "holding"} THEN WithGap(@) ELSE @]
    /\ UNCHANGED pairVars

\* A message of half h pauses for longer than FlushOld allows: its stream is closed
\* on it.  What has been seen of it may pass for a message; the rest begins a stream
\* of its own, as if something were missing before it.
IsCut(h, m) ==
    /\ half[h] \notin {"none", "stuck"}
    /\ half' = [half EXCEPT ![h] = "holding"]
    /\ \E part \in {<<>>} \cup (IF half[h] \in {"live", "holding"} THEN {<<m>>} ELSE {}) :
        held' = [held EXCEPT ![h] = WithGap(@ \o part)]
    /\ UNCHANGED pairVars

\* Something goes wrong on the keys of C; a mere pause is counted with C empty.
Spoils(C) ==
    /\ faults < Faults
    /\ faults' = faults + 1
    /\ clean' = clean \ C

\* A packet goes by, which the parser may not expect.
Packet(h, m, expected) ==
    \/ /\ IF expected THEN UNCHANGED ghostVars ELSE Spoils({h[1]})
       /\ Arrives(h, m)
    \/ /\ Spoils({h[1]})
       /\ IsLost(h) \/ IsCut(h, m)

----------------------------------------------------------------------------
(* The traffic the capture sees while it runs.                             *)

\* A client connects, from an address and port that may have been used before.
\* The pairer still knows that key (conns is never emptied): only without
\* leftovers is it clean again.
Connect(c) ==
    /\ phase = "running"
    /\ c \notin open
    /\ \A d \in Dir : half[<<c, d>>] = "none"
    /\ open' = open \cup {c}
    /\ half' = [half EXCEPT ![<<c, "req">>] = "live", ![<<c, "resp">>] = "live"]
    /\ clean' = IF requests[c] = <<>> /\ responses[c] = <<>> THEN clean \cup {c} ELSE clean \ {c}
    /\ UNCHANGED <<sent, kind, owed, held, pairVars, faults, phase, complete>>

Send(c) ==
    /\ phase = "running"
    /\ c \in open
    /\ owed[c] = NoExch
    /\ sent < N
    /\ sent' = sent + 1
    /\ owed' = [owed EXCEPT ![c] = sent + 1]
    /\ \E k \in Kinds :
        /\ kind' = [kind EXCEPT ![sent + 1] = k]
        /\ Packet(<<c, "req">>, sent + 1, k \in {"read", "write"})
    /\ UNCHANGED <<open, phase, complete>>

\* "100 Continue": an answer of its own to the parser.
Continue(c) ==
    /\ phase = "running"
    /\ c \in open
    /\ owed[c] \in Exch
    /\ kind[owed[c]] = "expect"
    /\ kind' = [kind EXCEPT ![owed[c]] = "write"]
    /\ Packet(<<c, "resp">>, -owed[c], TRUE)
    /\ UNCHANGED <<open, sent, owed, phase, complete>>

Answer(c) ==
    /\ phase = "running"
    /\ c \in open
    /\ owed[c] # NoExch
    /\ owed[c] \in Exch => kind[owed[c]] # "expect"
    /\ UNCHANGED <<open, sent, kind, phase>>
    /\ Packet(<<c, "resp">>, owed[c], TRUE)
    /\ owed' = [owed EXCEPT ![c] = NoExch]
    /\ complete' = IF c \in clean' /\ owed[c] \in Exch
                    THEN complete \cup {<<owed[c], c>>} ELSE complete

\* The connection ends, perhaps before an answer has come.
Close(c) ==
    /\ phase = "running"
    /\ c \in open
    /\ open' = open \ {c}
    /\ owed' = [owed EXCEPT ![c] = NoExch]
    /\ IF owed[c] \in Exch THEN Spoils({c}) ELSE UNCHANGED ghostVars
    /\ UNCHANGED <<sent, kind, streamVars, pairVars, phase, complete>>

----------------------------------------------------------------------------
(* Flushing: FlushOld every five seconds, Flush at the end.                *)

\* The messages before the next gap, without a gap at the beginning, and what
\* is behind them.
Started(s) == IF s # <<>> /\ Head(s) = Gap THEN Tail(s) ELSE s

RunLength(s) ==
    CHOOSE n \in 0..Len(s) :
        /\ \A i \in 1..n : s[i] # Gap
        /\ n < Len(s) => s[n + 1] = Gap

Run(s) == SubSeq(s, 1, RunLength(s))
Rest(s) == SubSeq(s, RunLength(s) + 1, Len(s))

\* A half that has something to flush: held packets, or the end of the stream.
Flushable(h) ==
    /\ half[h] = "holding"
    /\ h[1] \notin open \/ \E i \in DOMAIN held[h] : held[h][i] # Gap

\* What becomes of a half whose held packets have been delivered.
AfterFlush(h, rest) ==
    IF rest # <<>> THEN "holding" ELSE IF h[1] \in open THEN "live" ELSE "none"

\* One skipFlush.  After a gap the parser may find itself in the middle of a
\* message: then it discards the stream.
FlushOld(h) ==
    /\ Flushable(h)
    /\ UNCHANGED <<trafficVars, phase, ghostVars, complete>>
    /\ LET s == Started(held[h]) IN
        \/ /\ Parse(h, Run(s))
           /\ held' = [held EXCEPT ![h] = Rest(s)]
           /\ half' = [half EXCEPT ![h] = AfterFlush(h, Rest(s))]
        \/ /\ s # held[h]
           /\ held' = [held EXCEPT ![h] = <<>>]
           /\ half' \in {[half EXCEPT ![h] = f] : f \in Failed(h)}
           /\ UNCHANGED <<requests, responses, ts, file, sampled>>
    /\ UNCHANGED prompt

\* FlushOlderThan closes a stream on which nothing has come for a while, though its
\* connection is open: the parser reads EOF.  The next packet begins another stream,
\* of which the reassembler has seen no handshake.
IdleClose(h) ==
    /\ phase = "running"
    /\ h[1] \in open
    /\ half[h] \in {"live", "body", "dead"}
    /\ Spoils({})
    /\ UNCHANGED <<trafficVars, phase, complete>>
    /\ half' = [half EXCEPT ![h] = "holding"]
    /\ held' = [held EXCEPT ![h] = <<>>]
    /\ IF half[h] = "body" THEN Parse(h, held[h]) /\ UNCHANGED prompt ELSE UNCHANGED pairVars

\* Mutant of EndOfStream: a parser that gave up does not read to the end
\* (DiscardBytesToEOF), and its stream blocks.
EndOfStreamUnread(h) ==
    /\ h[1] \notin open
    /\ half[h] \in {"live", "body"}
    /\ UNCHANGED <<trafficVars, phase, ghostVars, complete>>
    /\ half' = [half EXCEPT ![h] = "none"]
    /\ held' = [held EXCEPT ![h] = <<>>]
    /\ IF half[h] = "body" THEN Parse(h, held[h]) /\ UNCHANGED prompt ELSE UNCHANGED pairVars

\* The stream of a closed connection ends: its parser reads EOF, and a body it
\* was waiting for ends with it.
EndOfStream(h) ==
    /\ h[1] \notin open
    /\ half[h] \in {"live", "body", "dead"}
    /\ UNCHANGED <<trafficVars, phase, ghostVars, complete>>
    /\ half' = [half EXCEPT ![h] = "none"]
    /\ held' = [held EXCEPT ![h] = <<>>]
    /\ IF half[h] = "body" THEN Parse(h, held[h]) /\ UNCHANGED prompt ELSE UNCHANGED pairVars

\* RunMirror flushes in a goroutine of its own, while packets are handled.  The
\* reassembler collects what it delivers in one slice for all connections: the
\* held packets of one may go to the stream of another.
FlushRaces(h, g) ==
    /\ phase = "running"
    /\ Flushable(h)
    /\ half[g] = "live" /\ g # h /\ g[2] = h[2]
    /\ Spoils({h[1], g[1]})
    /\ UNCHANGED <<trafficVars, prompt, phase>>
    /\ LET s == Started(held[h]) IN
        /\ Parse(g, Run(s))
        /\ held' = [held EXCEPT ![h] = Rest(s)]
        /\ half' = [half EXCEPT ![h] = AfterFlush(h, Rest(s))]
    /\ complete' = {x \in complete : x[2] \notin {h[1], g[1]}}

\* The stop channel is closed: no packet is read any more, every stream ends.
Stop ==
    /\ phase = "running"
    /\ phase' = "flushing"
    /\ open' = {}
    /\ UNCHANGED <<sent, kind, owed, streamVars, pairVars, ghostVars, complete>>

\* wg.Wait has returned.
Flushed ==
    /\ phase = "flushing"
    /\ \A h \in Half : half[h] = "none"
    /\ phase' = "done"
    /\ UNCHANGED <<trafficVars, streamVars, pairVars, ghostVars, complete>>

----------------------------------------------------------------------------

Next ==
    \/ \E c \in Conn : Connect(c) \/ Send(c) \/ Continue(c) \/ Answer(c) \/ Close(c)
    \/ \E h \in Half : FlushOld(h) \/ IdleClose(h) \/ EndOfStream(h)
    \/ \E h, g \in Half : FlushRaces(h, g)
    \/ Stop
    \/ Flushed

Spec == Init /\ [][Next]_vars

\* FlushAll goes through the streams one after the other, and the parsers that still
\* read do so to the end.
Flush == Flushed \/ \E h \in Half : FlushOld(h) \/ EndOfStream(h)

Fairness == WF_vars(Flush)

FairSpec == Spec /\ Fairness

----------------------------------------------------------------------------
(* Properties.                                                             *)

\* The recorded response of a request is its own, however requests and
\* responses of other connections interleave with it, however late one half is
\* flushed, and whatever goes wrong elsewhere ("request/response pairing (FIFO
\* per connection)", sniff.go:163) -- as long as nothing has gone wrong on its
\* key, leftovers of an earlier connection with the same key included.
PairsAreRight == \A i \in DOMAIN file : file[i].clean => file[i].resp = file[i].req

\* RFC3339Nano: digits of the fraction are written up to the last that is not 0,
\* then comes a "Z", which is greater than any digit.
Z == 10
Char(f, i) == IF \E k \in i..Places : f[k] # 0 THEN f[i] ELSE Z

SameText(a, b) == a[1] = b[1] /\ \A i \in 1..Places : Char(a[2], i) = Char(b[2], i)

TextBefore(a, b) ==
    \/ a[1] < b[1]
    \/ a[1] = b[1] /\ \E i \in 1..Places :
            /\ Char(a[2], i) < Char(b[2], i)
            /\ \A k \in 1..(i - 1) : Char(a[2], k) = Char(b[2], k)

\* The digits of a begin those of b, like .1Z and .15Z: the shorter text is the
\* greater one.
CutsShort(a, b) ==
    a[1] = b[1] /\ \A i \in 1..Places : Char(a[2], i) \in {Char(b[2], i), Z}

\* golden.Read and corpus.Load sort the lines by the text of ts, lines of one text
\* stay in file order.
LoadedBefore(i, j) ==
    LET a == Clock[file[i].ts]
        b == Clock[file[j].ts]
    IN TextBefore(a, b) \/ (SameText(a, b) /\ i < j)

\* "exchanges are ordered by it before writing, so the replayable sequence
\* approximates the upstream's real execution order even when concurrent
\* responses complete out of order" (sniff.go:39): requests that were parsed as
\* they arrived are loaded in the order in which they were sent, in whatever
\* order they were answered and written -- except for two of one second the
\* digits of whose times begin alike up to the last of the earlier one's.
LoadedInArrivalOrder ==
    \A i, j \in DOMAIN file :
        ( /\ {file[i].req, file[j].req} \subseteq prompt
          /\ file[i].req < file[j].req
          /\ ~CutsShort(Clock[file[i].ts], Clock[file[j].ts]) )
            => LoadedBefore(i, j)

\* "Writes (non-GET/HEAD) are always kept" (sniff.go:256), and a read is kept or
\* sampled out: an exchange of a clean key whose packets were both seen is in the
\* file, with its own response, as soon as neither half holds anything back.
CompleteExchangesAreKept ==
    \A x \in complete :
        (\A d \in Dir : half[<<x[2], d>>] \in {"live", "none"}) =>
            \/ \E i \in DOMAIN file : file[i].req = x[1] /\ file[i].resp = x[1]
            \/ x[1] \in sampled /\ IsRead(x[1])

\* "Flush finishes all streams (end of file / shutdown) and waits for parsers"
\* (sniff.go:94), whatever they hold, wait for or have given up -- unless one has
\* given up without reading on.
FlushEnds == (phase = "flushing") ~> (phase = "done" \/ \E h \in Half : half[h] = "stuck")
=============================================================================
