------------------------- MODULE SniffPairingProofs -------------------------
(***************************************************************************)
(* Proofs about SniffPairing, for every set of connections and any number  *)
(* of exchanges and faults.                                                *)
(***************************************************************************)
EXTENDS SniffPairing, SequenceTheorems, FiniteSetTheorems, TLAPS

----------------------------------------------------------------------------
(* Sequences.                                                              *)

\* A non-empty set of natural numbers has a least one.
LEMMA Least ==
    ASSUME NEW T, T \subseteq Nat, T # {}
    PROVE  \E x \in T : \A y \in T : x <= y
<1>1. PICK x \in T : \A y \in T : <<y, x>> \notin OpToRel(<, Nat)
  BY NatLessThanWellFounded, WFMin
<1>2. \A y \in T : ~(y < x)
  BY <1>1 DEF OpToRel
<1> QED
  BY <1>2

\* What RunLength chooses exists: the run ends at the first gap, or with s.
LEMMA RunEnds ==
    ASSUME NEW s \in Seq(Int)
    PROVE  /\ RunLength(s) \in 0..Len(s)
           /\ \A i \in 1..RunLength(s) : s[i] # Gap
           /\ RunLength(s) < Len(s) => s[RunLength(s) + 1] = Gap
<1> DEFINE G == {i \in 1..Len(s) : s[i] = Gap}
           Ends(n) == (\A i \in 1..n : s[i] # Gap) /\ (n < Len(s) => s[n + 1] = Gap)
<1>1. Len(s) \in Nat
  OBVIOUS
<1>2. \E n \in 0..Len(s) : Ends(n)
  <2>1. CASE G = {}
    <3>1. Len(s) \in 0..Len(s) /\ Ends(Len(s))
      BY <1>1, <2>1
    <3> QED
      BY <3>1
  <2>2. CASE G # {}
    <3>0. G \subseteq Nat
      OBVIOUS
    <3>1. PICK x \in G : \A y \in G : x <= y
      <4> HIDE DEF G
      <4> QED
        BY <2>2, <3>0, Least
    <3>2. x - 1 \in 0..Len(s) /\ Ends(x - 1)
      BY <1>1, <3>1
    <3> QED
      BY <3>2
  <2> QED
    BY <2>1, <2>2
<1> QED
  BY <1>2 DEF RunLength

\* The messages before a gap, and a sequence without one.
LEMMA RunTypes ==
    ASSUME NEW s \in Seq(Int)
    PROVE  /\ Run(s) \in Seq(Int)
           /\ Rest(s) \in Seq(Int)
           /\ \A S \in SUBSET Int : s \in Seq(S \cup {Gap}) => Run(s) \in Seq(S)
           /\ \A S \in SUBSET Int : s \in Seq(S) => Rest(s) \in Seq(S)
<1>1. /\ Len(s) \in Nat /\ RunLength(s) \in 0..Len(s)
      /\ \A i \in 1..RunLength(s) : s[i] # Gap
  BY RunEnds
<1>2. ASSUME NEW S, s \in Seq(S \cup {Gap})
      PROVE  Run(s) \in Seq(S)
  <2>1. \A i \in 1..RunLength(s) : s[i] \in S
    BY <1>1, <1>2
  <2> QED
    BY <1>1, <2>1, SubSeqProperties DEF Run
<1>3. ASSUME NEW S, s \in Seq(S)
      PROVE  Rest(s) \in Seq(S)
  <2>1. \A i \in (RunLength(s) + 1)..Len(s) : s[i] \in S
    BY <1>1, <1>3
  <2> QED
    BY <1>1, <2>1, SubSeqProperties DEF Rest
<1>4. s \in Seq(Int \cup {Gap})
  OBVIOUS
<1> QED
  BY <1>2, <1>3, <1>4

LEMMA RunOfAll ==
    ASSUME NEW s \in Seq(Int), \A i \in 1..Len(s) : s[i] # Gap
    PROVE  Run(s) = s /\ Rest(s) = <<>> /\ Started(s) = s
<1>1. RunLength(s) = Len(s)
  BY RunEnds
<1>2. Run(s) = s
  BY <1>1, SubSeqFull DEF Run
<1>3. Rest(s) = <<>>
  BY <1>1, SubSeqEmpty DEF Rest
<1>4. Started(s) = s
  BY DEF Started
<1> QED
  BY <1>2, <1>3, <1>4

LEMMA StartedTypes ==
    ASSUME NEW S, NEW s \in Seq(S)
    PROVE  Started(s) \in Seq(S)
  BY HeadTailProperties DEF Started

\* Taking n elements off the front of a sequence takes them off any longer one.
LEMMA Dropped ==
    ASSUME NEW S, NEW s \in Seq(S), NEW n \in 0..Len(s)
    PROVE  /\ SubSeq(s, n + 1, Len(s)) \in Seq(S)
           /\ Len(SubSeq(s, n + 1, Len(s))) = Len(s) - n
           /\ \A i \in 1..(Len(s) - n) : SubSeq(s, n + 1, Len(s))[i] = s[n + i]
<1>1. Len(s) \in Nat /\ n \in Nat /\ n <= Len(s)
  OBVIOUS
<1>2. \A i \in (n + 1)..Len(s) : s[i] \in S
  BY <1>1
<1> DEFINE D == SubSeq(s, n + 1, Len(s))
<1>3. /\ D \in Seq(S)
      /\ Len(D) = IF n + 1 <= Len(s) THEN Len(s) - (n + 1) + 1 ELSE 0
      /\ \A i \in 1..(Len(s) - (n + 1) + 1) : D[i] = s[(n + 1) + i - 1]
  BY <1>1, <1>2, SubSeqProperties
<1> HIDE DEF D
<1>4. Len(D) = Len(s) - n
  BY <1>1, <1>3
<1>5. \A i \in 1..(Len(s) - n) : D[i] = s[n + i]
  <2> SUFFICES ASSUME NEW i \in 1..(Len(s) - n) PROVE D[i] = s[n + i]
    OBVIOUS
  <2>1. i \in 1..(Len(s) - (n + 1) + 1) /\ (n + 1) + i - 1 = n + i
    BY <1>1
  <2> QED
    BY <1>3, <2>1
<1> QED
  BY <1>3, <1>4, <1>5 DEF D

LEMMA DropConcat ==
    ASSUME NEW R \in Seq(Int), NEW A \in Seq(Int), NEW n \in 0..Len(R)
    PROVE  SubSeq(R, n + 1, Len(R)) \o A = SubSeq(R \o A, n + 1, Len(R \o A))
<1> DEFINE Q == R \o A
           D == SubSeq(R, n + 1, Len(R))
           E == SubSeq(Q, n + 1, Len(Q))
<1>1. Len(R) \in Nat /\ Len(A) \in Nat /\ n \in Nat /\ n <= Len(R)
  OBVIOUS
<1>2. /\ Q \in Seq(Int) /\ Len(Q) = Len(R) + Len(A)
      /\ \A i \in 1..(Len(R) + Len(A)) :
            Q[i] = IF i <= Len(R) THEN R[i] ELSE A[i - Len(R)]
  BY ConcatProperties
<1> HIDE DEF Q
<1>3. /\ D \in Seq(Int) /\ Len(D) = Len(R) - n
      /\ \A i \in 1..(Len(R) - n) : D[i] = R[n + i]
  BY Dropped
<1>4. n \in 0..Len(Q) /\ Len(Q) - n = Len(R) + Len(A) - n
  BY <1>1, <1>2
<1>5. /\ E \in Seq(Int) /\ Len(E) = Len(R) + Len(A) - n
      /\ \A i \in 1..(Len(R) + Len(A) - n) : E[i] = Q[n + i]
  BY <1>2, <1>4, Dropped
<1> HIDE DEF D, E
<1>6. /\ D \o A \in Seq(Int) /\ Len(D \o A) = Len(D) + Len(A)
      /\ \A i \in 1..(Len(D) + Len(A)) :
            (D \o A)[i] = IF i <= Len(D) THEN D[i] ELSE A[i - Len(D)]
  BY <1>3, ConcatProperties
<1>7. ASSUME NEW i \in 1..(Len(R) - n + Len(A))
      PROVE  (D \o A)[i] = E[i]
  <2>1. Len(D) = Len(R) - n
    BY <1>3
  <2>2. i \in 1..(Len(D) + Len(A)) /\ i \in 1..(Len(R) + Len(A) - n)
    BY <1>1, <2>1
  <2>3. n + i \in 1..(Len(R) + Len(A)) /\ (n + i) - Len(R) = i - Len(D)
    BY <1>1, <2>1
  <2>4. E[i] = IF n + i <= Len(R) THEN R[n + i] ELSE A[i - Len(D)]
    BY <1>2, <1>5, <2>2, <2>3
  <2>5. (D \o A)[i] = IF i <= Len(D) THEN D[i] ELSE A[i - Len(D)]
    BY <1>6, <2>2
  <2>6. i <= Len(D) => D[i] = R[n + i]
    <3>1. i <= Len(D) => i \in 1..(Len(R) - n)
      BY <1>1, <2>1
    <3> QED
      BY <1>3, <3>1
  <2>7. i <= Len(D) <=> n + i <= Len(R)
    BY <1>1, <2>1
  <2> QED
    BY <2>4, <2>5, <2>6, <2>7
<1>8. D \o A = E
  <2>1. Len(D \o A) = Len(E)
    BY <1>1, <1>3, <1>5, <1>6
  <2>2. Len(E) = Len(R) - n + Len(A)
    BY <1>1, <1>5
  <2>3. \A i \in 1..Len(E) : (D \o A)[i] = E[i]
    BY <1>7, <2>2
  <2> QED
    BY <1>5, <1>6, <2>1, <2>3, SeqEqual
<1> QED
  BY <1>8 DEF D, E, Q

LEMMA InPrefix ==
    \A l, k \in Nat : \A m \in 0..l : \A i \in 1..m : i \in 1..(l + k) /\ i <= l
  OBVIOUS

\* What match does to the requests R and the responses S of a key when A and B
\* are still to come: what is taken off is alike, and one of them is used up.
LEMMA MatchAligned ==
    ASSUME NEW R \in Seq(Int), NEW S \in Seq(Int), NEW A \in Seq(Int), NEW B \in Seq(Int),
           R \o A = S \o B
    PROVE  LET n == Shorter(Len(R), Len(S)) IN
           /\ \A i \in 1..n : R[i] = S[i]
           /\ SubSeq(R, n + 1, Len(R)) \o A = SubSeq(S, n + 1, Len(S)) \o B
           /\ SubSeq(R, n + 1, Len(R)) = <<>> \/ SubSeq(S, n + 1, Len(S)) = <<>>
<1> DEFINE n == Shorter(Len(R), Len(S))
<1>1. /\ Len(R) \in Nat /\ Len(S) \in Nat /\ Len(A) \in Nat /\ Len(B) \in Nat
      /\ n \in 0..Len(R) /\ n \in 0..Len(S) /\ (n = Len(R) \/ n = Len(S))
  BY DEF Shorter
<1> HIDE DEF n
<1>2. ASSUME NEW i \in 1..n
      PROVE  R[i] = S[i]
  <2>1. /\ i \in 1..(Len(R) + Len(A)) /\ i <= Len(R)
        /\ i \in 1..(Len(S) + Len(B)) /\ i <= Len(S)
    BY <1>1, InPrefix, Zenon
  <2>2. (R \o A)[i] = R[i]
    <3>1. \A k \in 1..(Len(R) + Len(A)) :
              (R \o A)[k] = IF k <= Len(R) THEN R[k] ELSE A[k - Len(R)]
      BY ConcatProperties
    <3> QED
      BY <2>1, <3>1
  <2>3. (S \o B)[i] = S[i]
    <3>1. \A k \in 1..(Len(S) + Len(B)) :
              (S \o B)[k] = IF k <= Len(S) THEN S[k] ELSE B[k - Len(S)]
      BY ConcatProperties
    <3> QED
      BY <2>1, <3>1
  <2> QED
    BY <2>2, <2>3
<1>3. SubSeq(R, n + 1, Len(R)) \o A = SubSeq(S, n + 1, Len(S)) \o B
  <2> DEFINE U == R \o A
             V == S \o B
             X == SubSeq(R, n + 1, Len(R)) \o A
             Y == SubSeq(S, n + 1, Len(S)) \o B
  <2>1. X = SubSeq(U, n + 1, Len(U))
    BY <1>1, DropConcat
  <2>2. Y = SubSeq(V, n + 1, Len(V))
    BY <1>1, DropConcat
  <2>3. U = V
    OBVIOUS
  <2>4. SubSeq(U, n + 1, Len(U)) = SubSeq(V, n + 1, Len(V))
    BY <2>3, Zenon
  <2> HIDE DEF U, V, X, Y
  <2>5. X = Y
    BY <2>1, <2>2, <2>4, Zenon
  <2> QED
    BY <2>5, Zenon DEF X, Y
<1>4. SubSeq(R, n + 1, Len(R)) = <<>> \/ SubSeq(S, n + 1, Len(S)) = <<>>
  <2>1. SubSeq(R, Len(R) + 1, Len(R)) = <<>>
    BY SubSeqEmpty
  <2>2. SubSeq(S, Len(S) + 1, Len(S)) = <<>>
    BY SubSeqEmpty
  <2> QED
    BY <1>1, <2>1, <2>2
<1> QED
  BY <1>2, <1>3, <1>4 DEF n

----------------------------------------------------------------------------
(* The invariant.                                                          *)

\* Halves that parse, discard or hang hold nothing back, requests have no bodies to
\* wait for, and an open connection has streams.
Holding ==
    /\ \A h \in Half : half[h] \in {"live", "none", "dead", "stuck"} => held[h] = <<>>
    /\ \A c \in Conn : half[<<c, "req">>] # "body" /\ held[<<c, "req">>] \in Seq(Exch \cup {Gap})
    /\ \A c \in open, d \in Dir : half[<<c, d>>] # "none"

\* Only what was sent is awaited, and only on an open connection.
Awaited ==
    /\ \A c \in Conn : owed[c] \in Exch => owed[c] <= sent
    /\ phase = "running" => \A c \in Conn \ open : owed[c] = NoExch

\* The response a key still waits for.
Due(c) == IF owed[c] \in Exch THEN <<owed[c]>> ELSE <<>>

\* Why PairsAreRight holds: on a clean key the requests that wait for a pair and
\* those held back are the responses in either place and the one still due.
InStep(c) ==
    /\ \A d \in Dir : half[<<c, d>>] \in {"live", "holding", "none"}
                        /\ held[<<c, d>>] \in Seq(Exch)
    /\ requests[c] \o held[<<c, "req">>] = responses[c] \o (held[<<c, "resp">>] \o Due(c))
    /\ requests[c] = <<>> \/ responses[c] = <<>>

Aligned ==
    \A c \in clean :
        /\ owed[c] # Before
        /\ owed[c] \in Exch => kind[owed[c]] \in {"read", "write"}
        /\ InStep(c)

\* Why LoadedInArrivalOrder holds: a prompt request has the time at which it was
\* sent, and none is parsed a second time.
Stamped ==
    /\ prompt \subseteq 1..sent
    /\ \A e \in prompt : ts[e] = e
    /\ \A c \in Conn :
        /\ requests[c] \in Seq(1..sent)
        /\ held[<<c, "req">>] \in Seq(((1..sent) \ prompt) \cup {Gap})
    /\ \A i \in DOMAIN file :
        file[i].req <= sent /\ (file[i].req \in prompt => file[i].ts = ts[file[i].req])

----------------------------------------------------------------------------
(* Parsing and pairing.                                                    *)

\* Every line of the file is an old one or one of pairs.
AddsOnly(pairs) ==
    \A k \in DOMAIN file' :
        \/ k \in DOMAIN file /\ file'[k] = file[k]
        \/ \E i \in DOMAIN pairs : file'[k] = pairs[i]

LEMMA SinkAdds ==
    ASSUME TypeOK, NEW pairs \in Seq(Line), Sink(pairs)
    PROVE  /\ file' \in Seq(Line)
           /\ sampled' \in SUBSET Exch
           /\ AddsOnly(pairs)
<1>1. PICK s \in Selection(Len(pairs)) : Keep(pairs, s)
  BY DEF Sink
<1>2. PICK m \in 0..Len(pairs) : s \in [1..m -> 1..Len(pairs)]
  BY <1>1 DEF Selection
<1> DEFINE new == [i \in DOMAIN s |-> pairs[s[i]]]
<1>3. /\ Len(pairs) \in Nat /\ DOMAIN pairs = 1..Len(pairs) /\ m \in Nat
      /\ \A i \in 1..Len(pairs) : pairs[i] \in Line
  OBVIOUS
<1>4. /\ new \in [1..m -> Line]
      /\ \A i \in 1..m : s[i] \in DOMAIN pairs /\ new[i] = pairs[s[i]]
  BY <1>2, <1>3
<1>5. new \in Seq(Line) /\ Len(new) = m
  BY <1>3, <1>4
<1> HIDE DEF new
<1>6. file \in Seq(Line) /\ file' = file \o new
  BY <1>1 DEF Keep, TypeOK, new
<1>7. /\ file' \in Seq(Line)
      /\ Len(file') = Len(file) + m
      /\ \A k \in 1..(Len(file) + m) :
            file'[k] = IF k <= Len(file) THEN file[k] ELSE new[k - Len(file)]
  BY <1>5, <1>6, ConcatProperties
<1>8. AddsOnly(pairs)
  <2> SUFFICES ASSUME NEW k \in DOMAIN file'
               PROVE  \/ k \in DOMAIN file /\ file'[k] = file[k]
                      \/ \E i \in DOMAIN pairs : file'[k] = pairs[i]
    BY DEF AddsOnly
  <2>1. k \in 1..(Len(file) + m) /\ Len(file) \in Nat /\ DOMAIN file = 1..Len(file)
    BY <1>3, <1>6, <1>7
  <2>2. CASE k <= Len(file)
    BY <1>7, <2>1, <2>2
  <2>3. CASE k > Len(file)
    <3>1. k - Len(file) \in 1..m /\ file'[k] = new[k - Len(file)]
      BY <1>3, <1>7, <2>1, <2>3
    <3> QED
      BY <1>4, <3>1
  <2> QED
    BY <2>1, <2>2, <2>3
<1>9. sampled' \in SUBSET Exch
  <2>1. \A i \in DOMAIN pairs : pairs[i].req \in Exch
    BY <1>3 DEF Line
  <2> QED
    BY <1>1, <2>1 DEF Keep, TypeOK
<1> QED
  BY <1>7, <1>8, <1>9

\* The requests and the responses of key h[1] when ms has been parsed on half h.
Requested(h, ms) == IF h[2] = "req" THEN requests[h[1]] \o ms ELSE requests[h[1]]
Responded(h, ms) == IF h[2] = "req" THEN responses[h[1]] ELSE responses[h[1]] \o ms
Paired(h, ms) == Shorter(Len(Requested(h, ms)), Len(Responded(h, ms)))

\* Messages that the parser of h may read.
Readable(h, ms) == ms \in Seq(Int) /\ (h[2] = "req" => ms \in Seq(Exch))

\* What Parse does, whatever the half.
Parsing(h, ms) ==
    LET c == h[1]
        R == Requested(h, ms)
        S == Responded(h, ms)
        n == Paired(h, ms)
    IN /\ R \in Seq(Exch) /\ S \in Seq(Int)
       /\ ts' \in [Exch -> 0..N]
       /\ requests' = [requests EXCEPT ![c] = SubSeq(R, n + 1, Len(R))]
       /\ responses' = [responses EXCEPT ![c] = SubSeq(S, n + 1, Len(S))]
       /\ file' \in Seq(Line) /\ sampled' \in SUBSET Exch
       /\ AddsOnly([i \in 1..n |-> [req |-> R[i], resp |-> S[i], ts |-> ts'[R[i]],
                                    clean |-> c \in clean']])

\* The clock never passes the number of exchanges.
Counts == sent' \in 0..N

\* How Parse stamps.
Stamps(h, ms) ==
    \A e \in Exch :
        ts'[e] = IF h[2] = "req" /\ \E i \in DOMAIN ms : ms[i] = e THEN sent' ELSE ts[e]

LEMMA ParseStamps ==
    ASSUME TypeOK, Counts, NEW h \in Half, NEW ms, Parse(h, ms)
    PROVE  Stamps(h, ms) /\ ts' \in [Exch -> 0..N]
<1>1. ts \in [Exch -> 0..N] /\ sent' \in 0..N
  BY DEF TypeOK, Counts
<1>2. CASE h[2] = "req"
  <2>1. ts' = [e \in Exch |-> IF \E i \in DOMAIN ms : ms[i] = e THEN sent' ELSE ts[e]]
    BY <1>2 DEF Parse
  <2> QED
    BY <1>1, <1>2, <2>1 DEF Stamps
<1>3. CASE h[2] # "req"
  BY <1>1, <1>3 DEF Parse, Stamps
<1> QED
  BY <1>2, <1>3

\* The lines that result.
Pairs(h, ms) ==
    [i \in 1..Paired(h, ms) |->
        [req |-> Requested(h, ms)[i], resp |-> Responded(h, ms)[i],
         ts |-> ts'[Requested(h, ms)[i]], clean |-> h[1] \in clean']]

LEMMA ParseSinks ==
    ASSUME TypeOK, Counts, NEW h \in Half, NEW ms, Readable(h, ms), Parse(h, ms)
    PROVE  Parsing(h, ms) /\ Pairs(h, ms) \in Seq(Line) /\ Sink(Pairs(h, ms))
<1> DEFINE c == h[1]
           R == Requested(h, ms)
           S == Responded(h, ms)
           n == Paired(h, ms)
           pairs == [i \in 1..n |-> [req |-> R[i], resp |-> S[i], ts |-> ts'[R[i]],
                                     clean |-> c \in clean']]
<1>1. c \in Conn /\ requests[c] \in Seq(Exch) /\ responses[c] \in Seq(Int)
  BY DEF Half, TypeOK
<1>2. R \in Seq(Exch) /\ S \in Seq(Int)
  BY <1>1, ConcatProperties DEF Requested, Responded, Readable
<1>3. Match(c, R, S)
  BY DEF Parse, Requested, Responded
<1>4. ts' \in [Exch -> 0..N]
  BY ParseStamps
<1>5. /\ n = Shorter(Len(R), Len(S))
      /\ n \in Nat /\ n <= Len(R) /\ n <= Len(S)
  BY <1>2 DEF Paired, Shorter
<1> HIDE DEF R, S, n, c
<1>6. ASSUME NEW i \in 1..n
      PROVE  [req |-> R[i], resp |-> S[i], ts |-> ts'[R[i]], clean |-> c \in clean'] \in Line
  <2>1. R[i] \in Exch /\ S[i] \in Int
    BY <1>2, <1>5
  <2>2. ts'[R[i]] \in 0..N
    BY <1>4, <2>1
  <2>3. (c \in clean') \in BOOLEAN
    OBVIOUS
  <2> QED
    BY <2>1, <2>2, <2>3 DEF Line
<1>7. pairs \in Seq(Line)
  BY <1>5, <1>6
<1>8. /\ requests' = [requests EXCEPT ![c] = SubSeq(R, n + 1, Len(R))]
      /\ responses' = [responses EXCEPT ![c] = SubSeq(S, n + 1, Len(S))]
      /\ Sink(pairs)
  BY <1>3, <1>5 DEF Match
<1>9. file' \in Seq(Line) /\ sampled' \in SUBSET Exch /\ AddsOnly(pairs)
  <2> HIDE DEF pairs
  <2> QED
    BY <1>7, <1>8, SinkAdds
<1> QED
  BY <1>2, <1>4, <1>7, <1>8, <1>9 DEF Parsing, Pairs, R, S, n, c

LEMMA ParseParses ==
    ASSUME TypeOK, Counts, NEW h \in Half, NEW ms, Readable(h, ms), Parse(h, ms)
    PROVE  Parsing(h, ms)
  BY ParseSinks

----------------------------------------------------------------------------
(* Packets.                                                                *)

\* Messages that may go by on half h.
Sendable(h, m) == m \in Int /\ (h[2] = "req" => m \in Exch)

\* What a packet may do to h: parse it, keep it, or, to a parser in a body, give
\* that to read.
LEMMA ArrivesCases ==
    ASSUME TypeOK, Holding, NEW h \in Half, NEW m, Sendable(h, m), Arrives(h, m)
    PROVE  \/ /\ half[h] = "live" /\ UNCHANGED <<half, held>>
              /\ Readable(h, <<m>>) /\ Parse(h, <<m>>)
              /\ prompt' = IF h[2] = "req" THEN prompt \cup {m} ELSE prompt
           \/ /\ half[h] = "live" /\ h[2] = "resp" /\ IsHead(m)
              /\ half' = [half EXCEPT ![h] = "body"]
              /\ held' = [held EXCEPT ![h] = <<m>>]
              /\ UNCHANGED pairVars
           \/ /\ half[h] = "holding"
              /\ held' = [held EXCEPT ![h] = Append(@, m)]
              /\ UNCHANGED <<half, pairVars>>
           \/ /\ half[h] = "body" /\ h[2] = "resp"
              /\ Readable(h, held[h]) /\ Parse(h, held[h])
              /\ half' \in {[half EXCEPT ![h] = f] : f \in Failed(h)}
              /\ held' = [held EXCEPT ![h] = <<>>]
              /\ UNCHANGED prompt
           \/ /\ half[h] \in {"body", "dead", "none"}
              /\ UNCHANGED <<half, held, pairVars>>
<1>1. Readable(h, <<m>>)
  BY DEF Sendable, Readable
<1>2. half[h] = "body" => h[2] = "resp" /\ Readable(h, held[h])
  BY DEF Holding, Half, Dir, TypeOK, Readable
<1> QED
  BY <1>1, <1>2 DEF Arrives

\* The types of what a step on halves and pairs changes.
StreamTypes ==
    /\ half' \in [Half -> {"none", "live", "holding", "body", "dead", "stuck"}]
    /\ held' \in [Half -> Seq(Int)]
PairTypes ==
    /\ requests' \in [Conn -> Seq(Exch)] /\ responses' \in [Conn -> Seq(Int)]
    /\ ts' \in [Exch -> 0..N]
    /\ file' \in Seq(Line) /\ sampled' \in SUBSET Exch

LEMMA ParseTypes ==
    ASSUME TypeOK, Counts, NEW h \in Half, NEW ms, Readable(h, ms), Parse(h, ms)
    PROVE  PairTypes
<1>1. /\ h[1] \in Conn
      /\ requests \in [Conn -> Seq(Exch)] /\ responses \in [Conn -> Seq(Int)]
  BY DEF Half, TypeOK
<1>2. Parsing(h, ms)
  BY ParseParses
<1> DEFINE R == Requested(h, ms)
           S == Responded(h, ms)
           n == Paired(h, ms)
<1>3. /\ R \in Seq(Exch) /\ S \in Seq(Int)
      /\ n \in Nat
      /\ requests' = [requests EXCEPT ![h[1]] = SubSeq(R, n + 1, Len(R))]
      /\ responses' = [responses EXCEPT ![h[1]] = SubSeq(S, n + 1, Len(S))]
  BY <1>2 DEF Parsing, Paired, Shorter
<1> HIDE DEF R, S, n
<1>4. SubSeq(R, n + 1, Len(R)) \in Seq(Exch) /\ SubSeq(S, n + 1, Len(S)) \in Seq(Int)
  BY <1>3, SubSeqProperties
<1>5. requests' \in [Conn -> Seq(Exch)] /\ responses' \in [Conn -> Seq(Int)]
  BY <1>1, <1>3, <1>4
<1>6. /\ ts' \in [Exch -> 0..N]
      /\ file' \in Seq(Line) /\ sampled' \in SUBSET Exch
  BY <1>2 DEF Parsing
<1> QED
  BY <1>5, <1>6 DEF PairTypes

\* Holding, one half at a time.
HoldsWell(h) ==
    /\ half'[h] \in {"live", "none", "dead", "stuck"} => held'[h] = <<>>
    /\ h[2] = "req" => half'[h] # "body" /\ held'[h] \in Seq(Exch \cup {Gap})
    /\ h[1] \in open' => half'[h] # "none"

LEMMA HoldingByHalf ==
    ASSUME open' \subseteq Conn, \A h \in Half : HoldsWell(h)
    PROVE  Holding'
  BY DEF Holding, HoldsWell, Half, Dir

LEMMA HeldWell ==
    ASSUME Holding, NEW h \in Half
    PROVE  /\ half[h] \in {"live", "none", "dead", "stuck"} => held[h] = <<>>
           /\ h[2] = "req" => half[h] # "body" /\ held[h] \in Seq(Exch \cup {Gap})
           /\ h[1] \in open => half[h] # "none"
<1>1. h[1] \in Conn /\ h[2] \in Dir /\ h = <<h[1], h[2]>>
  BY DEF Half
<1>2. /\ half[h] = half[<<h[1], h[2]>>] /\ held[h] = held[<<h[1], h[2]>>]
      /\ h[2] = "req" => half[h] = half[<<h[1], "req">>] /\ held[h] = held[<<h[1], "req">>]
  BY <1>1
<1> QED
  BY <1>1, <1>2 DEF Holding

\* A parser gives up.
Fails(h) ==
    /\ half' \in {[half EXCEPT ![h] = f] : f \in Failed(h)}
    /\ held' = [held EXCEPT ![h] = <<>>]

LEMMA FailsElsewhere ==
    ASSUME TypeOK, NEW h \in Half, Fails(h), NEW g \in Half, g # h
    PROVE  half'[g] = half[g] /\ held'[g] = held[g]
  BY DEF Fails, TypeOK

LEMMA FailsWell ==
    ASSUME TypeOK, NEW h \in Half, Fails(h), open' = open
    PROVE  HoldsWell(h)
<1>1. /\ half \in [Half -> {"none", "live", "holding", "body", "dead", "stuck"}]
      /\ held \in [Half -> Seq(Int)]
  BY DEF TypeOK
<1>2. PICK f \in Failed(h) : half' = [half EXCEPT ![h] = f]
  BY DEF Fails
<1>3. half'[h] = f /\ held'[h] = <<>>
  BY <1>1, <1>2 DEF Fails
<1>4. f \in {"none", "dead", "stuck"} /\ (f = "none" => h[1] \notin open)
  BY <1>2 DEF Failed
<1> QED
  BY <1>3, <1>4, EmptySeq DEF HoldsWell

LEMMA FailsTypes ==
    ASSUME TypeOK, Holding, NEW h \in Half, Fails(h), open' = open
    PROVE  StreamTypes /\ Holding'
<1>1. /\ half \in [Half -> {"none", "live", "holding", "body", "dead", "stuck"}]
      /\ held \in [Half -> Seq(Int)]
      /\ open \subseteq Conn /\ <<>> \in Seq(Int)
  BY EmptySeq DEF TypeOK
<1>2. half' \in [Half -> {"none", "live", "holding", "body", "dead", "stuck"}]
  BY <1>1 DEF Fails, Failed
<1>3. StreamTypes
  BY <1>1, <1>2 DEF StreamTypes, Fails
<1>4. ASSUME NEW g \in Half
      PROVE  HoldsWell(g)
  <2>1. CASE g # h
    BY <1>1, <2>1, FailsElsewhere, HeldWell DEF HoldsWell
  <2>2. CASE g = h
    BY <2>2, FailsWell
  <2> QED
    BY <2>1, <2>2
<1>5. Holding'
  BY <1>1, <1>4, HoldingByHalf
<1> QED
  BY <1>3, <1>5

LEMMA ArrivesTypes ==
    ASSUME TypeOK, Holding, Counts, NEW h \in Half, NEW m, Sendable(h, m), Arrives(h, m),
           open' = open
    PROVE  StreamTypes /\ PairTypes /\ prompt' \in SUBSET Exch /\ Holding'
<1>1. /\ half \in [Half -> {"none", "live", "holding", "body", "dead", "stuck"}]
      /\ held \in [Half -> Seq(Int)]
      /\ prompt \in SUBSET Exch /\ open \subseteq Conn
      /\ m \in Int
  BY DEF TypeOK, Sendable
<1>2. UNCHANGED pairVars => PairTypes /\ prompt' \in SUBSET Exch
  BY DEF TypeOK, PairTypes, pairVars
<1>3. (\E ms : Readable(h, ms) /\ Parse(h, ms)) => PairTypes
  BY ParseTypes
<1>4. h[2] = "req" => m \in Exch
  BY DEF Sendable
<1>5. PairTypes /\ prompt' \in SUBSET Exch
  BY <1>1, <1>2, <1>3, <1>4, ArrivesCases
<1>6. \/ UNCHANGED <<half, held>>
      \/ /\ h[2] = "resp"
         /\ half' = [half EXCEPT ![h] = "body"]
         /\ held' = [held EXCEPT ![h] = <<m>>]
      \/ half[h] = "holding" /\ half' = half /\ held' = [held EXCEPT ![h] = Append(@, m)]
      \/ Fails(h)
  BY ArrivesCases DEF Fails
<1>7. StreamTypes
  <2>1. /\ <<m>> \in Seq(Int) /\ <<>> \in Seq(Int)
        /\ held[h] \in Seq(Int) /\ Append(held[h], m) \in Seq(Int)
    BY <1>1
  <2>2. CASE Fails(h)
    BY <2>2, FailsTypes
  <2> QED
    BY <1>1, <1>6, <2>1, <2>2 DEF StreamTypes
<1>8. ASSUME NEW g \in Half
      PROVE  HoldsWell(g)
  <2>1. CASE g # h \/ UNCHANGED <<half, held>>
    <3>1. half'[g] = half[g] /\ held'[g] = held[g]
      BY <1>1, <1>6, <2>1, FailsElsewhere
    <3> QED
      BY <1>1, <3>1, HeldWell DEF HoldsWell
  <2>2. CASE /\ g = h /\ h[2] = "resp"
             /\ half' = [half EXCEPT ![h] = "body"]
             /\ held' = [held EXCEPT ![h] = <<m>>]
    BY <1>1, <2>2 DEF HoldsWell
  <2>3. CASE /\ g = h /\ half[h] = "holding" /\ half' = half
             /\ held' = [held EXCEPT ![h] = Append(@, m)]
    <3>1. h[2] = "req" => Append(held[h], m) \in Seq(Exch \cup {Gap})
      BY <1>4, HeldWell, AppendProperties
    <3> QED
      BY <1>1, <2>3, <3>1 DEF HoldsWell
  <2>4. CASE g = h /\ Fails(h)
    BY <1>1, <2>4, FailsWell
  <2> QED
    BY <1>6, <2>1, <2>2, <2>3, <2>4
<1>9. Holding'
  BY <1>1, <1>8, HoldingByHalf
<1> QED
  BY <1>5, <1>7, <1>9

LEMMA WithGapTypes ==
    ASSUME NEW S, NEW s \in Seq(S)
    PROVE  WithGap(s) \in Seq(S \cup {Gap})
<1>1. s \in Seq(S \cup {Gap})
  BY SeqMonotonic
<1>2. Append(s, Gap) \in Seq(S \cup {Gap})
  BY <1>1, AppendProperties
<1> QED
  BY <1>1, <1>2 DEF WithGap

\* A half holds back s and a gap.
Breaks(h, s) ==
    /\ half' = [half EXCEPT ![h] = "holding"]
    /\ held' = [held EXCEPT ![h] = WithGap(s)]

\* What may be left of a message before a pause: nothing, or something that passes
\* for the message.
LEMMA CutCases ==
    ASSUME NEW h, NEW m, IsCut(h, m)
    PROVE  /\ half[h] \notin {"none", "stuck"}
           /\ \/ Breaks(h, held[h] \o <<>>)
              \/ half[h] \in {"live", "holding"} /\ Breaks(h, held[h] \o <<m>>)
           /\ UNCHANGED pairVars
  BY DEF IsCut, Breaks

\* What is left is an older sequence, perhaps with m behind it.
Longer(s, t, m) == s = t \o <<>> \/ s = t \o <<m>>

LEMMA LongerTypes ==
    ASSUME NEW S, NEW t \in Seq(S), NEW m \in S, NEW s, Longer(s, t, m)
    PROVE  s \in Seq(S)
<1>1. t \o <<>> = t /\ t \o <<m>> = Append(t, m)
  BY ConcatEmptySeq, AppendIsConcat
<1>2. Append(t, m) \in Seq(S)
  BY AppendProperties
<1> QED
  BY <1>1, <1>2 DEF Longer

LEMMA IsCutTypes ==
    ASSUME TypeOK, Holding, NEW h \in Half, NEW m, Sendable(h, m), IsCut(h, m), open' = open
    PROVE  StreamTypes /\ PairTypes /\ prompt' \in SUBSET Exch /\ Holding'
<1>1. /\ half \in [Half -> {"none", "live", "holding", "body", "dead", "stuck"}]
      /\ held \in [Half -> Seq(Int)]
      /\ open \subseteq Conn /\ Gap \in Int
  BY SniffAssumption DEF TypeOK, Gap
<1>2. PairTypes /\ prompt' \in SUBSET Exch
  BY CutCases DEF TypeOK, PairTypes, pairVars
<1>3. PICK s : Breaks(h, s) /\ Longer(s, held[h], m)
  BY CutCases DEF Longer
<1>4. m \in Int /\ held[h] \in Seq(Int)
  BY <1>1 DEF Sendable
<1>5. s \in Seq(Int)
  BY <1>3, <1>4, LongerTypes
<1>6. h[2] = "req" => s \in Seq(Exch \cup {Gap})
  <2> SUFFICES ASSUME h[2] = "req"
               PROVE  s \in Seq(Exch \cup {Gap})
    OBVIOUS
  <2>1. m \in Exch \cup {Gap} /\ held[h] \in Seq(Exch \cup {Gap})
    BY HeldWell DEF Sendable
  <2> QED
    BY <1>3, <2>1, LongerTypes
<1>7. WithGap(s) \in Seq(Int)
  <2>1. Append(s, Gap) \in Seq(Int)
    BY <1>1, <1>5, AppendProperties
  <2> QED
    BY <1>5, <2>1 DEF WithGap
<1>8. h[2] = "req" => WithGap(s) \in Seq(Exch \cup {Gap})
  <2>1. (Exch \cup {Gap}) \cup {Gap} = Exch \cup {Gap}
    OBVIOUS
  <2> QED
    BY <1>6, <2>1, WithGapTypes
<1> HIDE DEF WithGap
<1>9. StreamTypes
  BY <1>1, <1>3, <1>7 DEF StreamTypes, Breaks
<1>10. ASSUME NEW g \in Half
       PROVE  HoldsWell(g)
  <2>1. CASE g # h
    BY <1>1, <1>3, <2>1, HeldWell DEF HoldsWell, Breaks
  <2>2. CASE g = h
    BY <1>1, <1>3, <1>8, <2>2 DEF HoldsWell, Breaks
  <2> QED
    BY <2>1, <2>2
<1>11. Holding'
  BY <1>1, <1>10, HoldingByHalf
<1> QED
  BY <1>2, <1>9, <1>11

LEMMA IsLostTypes ==
    ASSUME TypeOK, Holding, NEW h \in Half, IsLost(h), open' = open
    PROVE  StreamTypes /\ PairTypes /\ prompt' \in SUBSET Exch /\ Holding'
<1>1. /\ half \in [Half -> {"none", "live", "holding", "body", "dead", "stuck"}]
      /\ held \in [Half -> Seq(Int)]
      /\ open \subseteq Conn /\ Gap \in Int
  BY SniffAssumption DEF TypeOK, Gap
<1>2. PairTypes /\ prompt' \in SUBSET Exch
  BY DEF IsLost, TypeOK, PairTypes, pairVars
<1>3. WithGap(held[h]) \in Seq(Int)
  <2>1. Append(held[h], Gap) \in Seq(Int)
    BY <1>1, AppendProperties
  <2> QED
    BY <1>1, <2>1 DEF WithGap
<1>4. h[2] = "req" => WithGap(held[h]) \in Seq(Exch \cup {Gap})
  <2>1. (Exch \cup {Gap}) \cup {Gap} = Exch \cup {Gap}
    OBVIOUS
  <2> QED
    BY <2>1, HeldWell, WithGapTypes
<1>5. StreamTypes
  BY <1>1, <1>3 DEF StreamTypes, IsLost
<1>6. ASSUME NEW g \in Half
      PROVE  HoldsWell(g)
  <2>1. CASE g # h
    BY <1>1, <2>1, HeldWell DEF HoldsWell, IsLost
  <2>2. CASE g = h /\ half[h] \in {"live", "holding"}
    BY <1>1, <1>4, <2>2 DEF HoldsWell, IsLost
  <2>3. CASE g = h /\ half[h] \notin {"live", "holding"}
    BY <1>1, <2>3, HeldWell DEF HoldsWell, IsLost
  <2> QED
    BY <2>1, <2>2, <2>3
<1>7. Holding'
  BY <1>1, <1>6, HoldingByHalf
<1> QED
  BY <1>2, <1>5, <1>7

GhostTypes == faults' \in 0..Faults /\ clean' \in SUBSET Conn

LEMMA SpoilsTypes ==
    ASSUME TypeOK, NEW C, Spoils(C)
    PROVE  GhostTypes
  BY SniffAssumption DEF TypeOK, Spoils, GhostTypes

LEMMA PacketTypes ==
    ASSUME TypeOK, Holding, NEW h \in Half, NEW m, Sendable(h, m), NEW expected,
           Packet(h, m, expected), open' = open, Counts
    PROVE  StreamTypes /\ PairTypes /\ prompt' \in SUBSET Exch /\ Holding' /\ GhostTypes
<1>1. Arrives(h, m) \/ IsLost(h) \/ IsCut(h, m)
  BY DEF Packet
<1>2. UNCHANGED ghostVars \/ \E C : Spoils(C)
  BY DEF Packet
<1>3. GhostTypes
  BY <1>2, SpoilsTypes DEF GhostTypes, ghostVars, TypeOK
<1> QED
  BY <1>1, <1>3, ArrivesTypes, IsLostTypes, IsCutTypes

\* What a flush delivers from half h may be read by any parser of its direction.
LEMMA FlushReads ==
    ASSUME TypeOK, Holding, NEW h \in Half, NEW g \in Half, g[2] = h[2]
    PROVE  /\ Readable(g, Run(Started(held[h])))
           /\ Rest(Started(held[h])) \in Seq(Int)
           /\ h[2] = "req" => Rest(Started(held[h])) \in Seq(Exch \cup {Gap})
<1> DEFINE s == Started(held[h])
<1>1. s \in Seq(Int)
  BY StartedTypes DEF TypeOK
<1>2. h[2] = "req" => s \in Seq(Exch \cup {Gap})
  BY HeldWell, StartedTypes
<1>3. Exch \in SUBSET Int /\ Exch \cup {Gap} \in SUBSET Int
  BY SniffAssumption DEF Exch, Gap
<1> HIDE DEF s
<1>4. /\ Run(s) \in Seq(Int) /\ Rest(s) \in Seq(Int)
      /\ h[2] = "req" => Run(s) \in Seq(Exch) /\ Rest(s) \in Seq(Exch \cup {Gap})
  BY <1>1, <1>2, <1>3, RunTypes
<1> QED
  BY <1>4 DEF s, Readable

LEMMA FlushTypes ==
    ASSUME TypeOK, Holding, NEW h \in Half, NEW rest \in Seq(Int),
           h[2] = "req" => rest \in Seq(Exch \cup {Gap}),
           held' = [held EXCEPT ![h] = rest],
           half' = [half EXCEPT ![h] = AfterFlush(h, rest)],
           open' = open
    PROVE  StreamTypes /\ Holding'
<1>1. /\ half \in [Half -> {"none", "live", "holding", "body", "dead", "stuck"}]
      /\ held \in [Half -> Seq(Int)]
      /\ open \subseteq Conn
  BY DEF TypeOK
<1>2. StreamTypes
  BY <1>1 DEF StreamTypes, AfterFlush
<1>3. ASSUME NEW g \in Half
      PROVE  HoldsWell(g)
  <2>1. CASE g # h
    BY <1>1, <2>1, HeldWell DEF HoldsWell
  <2>2. CASE g = h
    BY <1>1, <2>2 DEF HoldsWell, AfterFlush
  <2> QED
    BY <2>1, <2>2
<1>4. Holding'
  BY <1>1, <1>3, HoldingByHalf
<1> QED
  BY <1>2, <1>4

\* A half that is emptied.
LEMMA EmptiedTypes ==
    ASSUME TypeOK, Holding, NEW h \in Half, NEW to \in {"none", "holding"},
           held' = [held EXCEPT ![h] = <<>>],
           half' = [half EXCEPT ![h] = to],
           to = "none" => h[1] \notin open,
           open' = open
    PROVE  StreamTypes /\ Holding'
<1>1. /\ half \in [Half -> {"none", "live", "holding", "body", "dead", "stuck"}]
      /\ held \in [Half -> Seq(Int)]
      /\ open \subseteq Conn
      /\ <<>> \in Seq(Int) /\ <<>> \in Seq(Exch \cup {Gap})
  BY EmptySeq DEF TypeOK
<1>2. StreamTypes
  BY <1>1 DEF StreamTypes
<1>3. ASSUME NEW g \in Half
      PROVE  HoldsWell(g)
  <2>1. CASE g # h
    BY <1>1, <2>1, HeldWell DEF HoldsWell
  <2>2. CASE g = h
    BY <1>1, <2>2 DEF HoldsWell
  <2> QED
    BY <2>1, <2>2
<1>4. Holding'
  BY <1>1, <1>3, HoldingByHalf
<1> QED
  BY <1>2, <1>4

\* The rest of the types.
TrafficTypes ==
    /\ open' \in SUBSET Conn
    /\ sent' \in 0..N
    /\ kind' \in [Exch -> Kinds]
    /\ owed' \in [Conn -> 0..NoExch]
    /\ phase' \in {"running", "flushing", "done"}
    /\ complete' \in SUBSET (Exch \X Conn)

LEMMA AllTypes ==
    ASSUME TrafficTypes, StreamTypes, PairTypes, GhostTypes, prompt' \in SUBSET Exch
    PROVE  TypeOK'
  BY DEF TypeOK, TrafficTypes, StreamTypes, PairTypes, GhostTypes

LEMMA PairsStay == ASSUME TypeOK, UNCHANGED pairVars PROVE PairTypes /\ prompt' \in SUBSET Exch
  BY DEF TypeOK, PairTypes, pairVars

LEMMA StreamsStay ==
    ASSUME TypeOK, Holding, UNCHANGED streamVars, open' \subseteq open
    PROVE  StreamTypes /\ Holding'
<1>1. \A h \in Half : HoldsWell(h)
  BY HeldWell DEF HoldsWell, streamVars
<1> QED
  BY <1>1, HoldingByHalf DEF TypeOK, StreamTypes, streamVars

LEMMA ConnectTypes ==
    ASSUME TypeOK, Holding, NEW c \in Conn, Connect(c)
    PROVE  TypeOK' /\ Holding'
<1>1. /\ half \in [Half -> {"none", "live", "holding", "body", "dead", "stuck"}]
      /\ held \in [Half -> Seq(Int)] /\ open \subseteq Conn
      /\ <<c, "req">> \in Half /\ <<c, "resp">> \in Half
      /\ half[<<c, "req">>] = "none" /\ half[<<c, "resp">>] = "none"
  BY DEF TypeOK, Connect, Half, Dir
<1>2. /\ half' = [half EXCEPT ![<<c, "req">>] = "live", ![<<c, "resp">>] = "live"]
      /\ held' = held /\ open' = open \cup {c}
  BY DEF Connect
<1>3. ASSUME NEW g \in Half
      PROVE  HoldsWell(g)
  <2>1. CASE g[1] = c
    <3>1. g \in {<<c, "req">>, <<c, "resp">>}
      BY <2>1 DEF Half, Dir
    <3> QED
      BY <1>1, <1>2, <3>1, HeldWell DEF HoldsWell
  <2>2. CASE g[1] # c
    <3>1. half'[g] = half[g]
      BY <1>1, <1>2, <2>2
    <3> QED
      BY <1>2, <2>2, <3>1, HeldWell DEF HoldsWell
  <2> QED
    BY <2>1, <2>2
<1>4. Holding'
  BY <1>1, <1>2, <1>3, HoldingByHalf
<1>5. StreamTypes
  BY <1>1, <1>2 DEF StreamTypes
<1>6. PairTypes /\ prompt' \in SUBSET Exch
  BY PairsStay DEF Connect
<1>7. TrafficTypes /\ GhostTypes
  BY DEF TypeOK, Connect, TrafficTypes, GhostTypes
<1> QED
  BY <1>4, <1>5, <1>6, <1>7, AllTypes

\* A step that handles a packet.
LEMMA TrafficTypesSuffice ==
    ASSUME TypeOK, Holding, NEW h \in Half, NEW m, Sendable(h, m), NEW expected,
           Packet(h, m, expected), open' = open, TrafficTypes
    PROVE  TypeOK' /\ Holding'
<1>1. Counts
  BY DEF Counts, TrafficTypes
<1> QED
  BY <1>1, PacketTypes, AllTypes

LEMMA SendTypes ==
    ASSUME TypeOK, Holding, NEW c \in Conn, Send(c)
    PROVE  TypeOK' /\ Holding'
<1>1. PICK k \in Kinds :
        /\ kind' = [kind EXCEPT ![sent + 1] = k]
        /\ Packet(<<c, "req">>, sent + 1, k \in {"read", "write"})
  BY DEF Send
<1>2. sent + 1 \in Exch /\ sent + 1 \in 0..N /\ sent + 1 \in 0..NoExch /\ sent + 1 \in Int
  BY SniffAssumption DEF TypeOK, Send, Exch, NoExch
<1>3. <<c, "req">> \in Half /\ Sendable(<<c, "req">>, sent + 1)
  BY <1>2 DEF Half, Dir, Sendable
<1>4. TrafficTypes /\ open' = open
  BY <1>1, <1>2 DEF TypeOK, Send, TrafficTypes
<1> QED
  BY <1>1, <1>3, <1>4, TrafficTypesSuffice

LEMMA ContinueTypes ==
    ASSUME TypeOK, Holding, NEW c \in Conn, Continue(c)
    PROVE  TypeOK' /\ Holding'
<1>1. <<c, "resp">> \in Half /\ Sendable(<<c, "resp">>, -owed[c])
  BY SniffAssumption DEF Half, Dir, Sendable, Continue, Exch
<1>2. "write" \in Kinds
  BY DEF Kinds
<1>3. TrafficTypes /\ open' = open
  BY <1>2 DEF TypeOK, Continue, TrafficTypes
<1>4. Packet(<<c, "resp">>, -owed[c], TRUE)
  BY DEF Continue
<1> QED
  BY <1>1, <1>3, <1>4, TrafficTypesSuffice, Zenon

LEMMA AnswerTypes ==
    ASSUME TypeOK, Holding, NEW c \in Conn, Answer(c)
    PROVE  TypeOK' /\ Holding'
<1>1. <<c, "resp">> \in Half /\ Sendable(<<c, "resp">>, owed[c])
  BY SniffAssumption DEF Half, Dir, Sendable, TypeOK
<1>2. NoExch \in 0..NoExch
  BY SniffAssumption DEF NoExch
<1>3. TrafficTypes /\ open' = open
  <2>1. /\ open \subseteq Conn /\ sent \in 0..N /\ kind \in [Exch -> Kinds]
        /\ phase \in {"running", "flushing", "done"}
        /\ owed \in [Conn -> 0..NoExch] /\ complete \subseteq Exch \X Conn
    BY DEF TypeOK
  <2>2. /\ UNCHANGED <<open, sent, kind, phase>>
        /\ owed' = [owed EXCEPT ![c] = NoExch]
        /\ complete' = IF c \in clean' /\ owed[c] \in Exch
                        THEN complete \cup {<<owed[c], c>>} ELSE complete
    BY DEF Answer
  <2>3. owed' \in [Conn -> 0..NoExch]
    BY <1>2, <2>1, <2>2
  <2>4. complete' \subseteq Exch \X Conn
    BY <2>1, <2>2
  <2> QED
    BY <2>1, <2>2, <2>3, <2>4 DEF TrafficTypes
<1>4. Packet(<<c, "resp">>, owed[c], TRUE)
  BY DEF Answer
<1> QED
  BY <1>1, <1>3, <1>4, TrafficTypesSuffice, Zenon

LEMMA CloseTypes ==
    ASSUME TypeOK, Holding, NEW c \in Conn, Close(c)
    PROVE  TypeOK' /\ Holding'
<1>1. NoExch \in 0..NoExch
  BY SniffAssumption DEF NoExch
<1>2. GhostTypes
  BY SpoilsTypes DEF Close, TypeOK, GhostTypes, ghostVars
<1>3. TrafficTypes
  BY <1>1 DEF TypeOK, Close, TrafficTypes
<1>4. StreamTypes /\ Holding' /\ PairTypes /\ prompt' \in SUBSET Exch
  BY StreamsStay, PairsStay DEF Close
<1> QED
  BY <1>2, <1>3, <1>4, AllTypes

LEMMA FlushOldTypes ==
    ASSUME TypeOK, Holding, NEW h \in Half, FlushOld(h)
    PROVE  TypeOK' /\ Holding'
<1> DEFINE s == Started(held[h])
<1>1. Readable(h, Run(s)) /\ Rest(s) \in Seq(Int)
      /\ (h[2] = "req" => Rest(s) \in Seq(Exch \cup {Gap}))
  BY FlushReads
<1>2. TrafficTypes /\ GhostTypes /\ open' = open /\ prompt' \in SUBSET Exch /\ Counts
  BY DEF TypeOK, FlushOld, TrafficTypes, GhostTypes, Counts, trafficVars, ghostVars
<1>3. CASE /\ Parse(h, Run(s))
           /\ held' = [held EXCEPT ![h] = Rest(s)]
           /\ half' = [half EXCEPT ![h] = AfterFlush(h, Rest(s))]
  <2> HIDE DEF s
  <2>1. PairTypes
    BY <1>1, <1>2, <1>3, ParseTypes
  <2>2. StreamTypes /\ Holding'
    BY <1>1, <1>2, <1>3, FlushTypes
  <2> QED
    BY <1>2, <2>1, <2>2, AllTypes
<1>4. CASE Fails(h) /\ UNCHANGED <<requests, responses, ts, file, sampled>>
  <2>1. PairTypes
    BY <1>4 DEF TypeOK, PairTypes
  <2> QED
    BY <1>2, <1>4, <2>1, FailsTypes, AllTypes
<1> QED
  BY <1>3, <1>4 DEF FlushOld, Fails

\* What EndOfStream and IdleClose have in common: the parser reads EOF.
LEMMA EofTypes ==
    ASSUME TypeOK, Holding, Counts, NEW h \in Half,
           IF half[h] = "body" THEN Parse(h, held[h]) /\ UNCHANGED prompt ELSE UNCHANGED pairVars
    PROVE  PairTypes /\ prompt' \in SUBSET Exch
<1>1. half[h] = "body" => Readable(h, held[h])
  BY HeldWell DEF TypeOK, Readable
<1> QED
  BY <1>1, ParseTypes, PairsStay DEF TypeOK

LEMMA EndOfStreamTypes ==
    ASSUME TypeOK, Holding, NEW h \in Half, EndOfStream(h)
    PROVE  TypeOK' /\ Holding'
<1>1. TrafficTypes /\ GhostTypes /\ open' = open /\ Counts
  BY DEF TypeOK, EndOfStream, TrafficTypes, GhostTypes, Counts, trafficVars, ghostVars
<1>2. StreamTypes /\ Holding'
  BY <1>1, EmptiedTypes DEF EndOfStream
<1>3. PairTypes /\ prompt' \in SUBSET Exch
  BY <1>1, EofTypes DEF EndOfStream
<1> QED
  BY <1>1, <1>2, <1>3, AllTypes

LEMMA IdleCloseTypes ==
    ASSUME TypeOK, Holding, NEW h \in Half, IdleClose(h)
    PROVE  TypeOK' /\ Holding'
<1>1. TrafficTypes /\ open' = open /\ Counts
  BY DEF TypeOK, IdleClose, TrafficTypes, Counts, trafficVars
<1>2. GhostTypes
  BY SpoilsTypes DEF IdleClose
<1>3. StreamTypes /\ Holding'
  BY <1>1, EmptiedTypes DEF IdleClose
<1>4. PairTypes /\ prompt' \in SUBSET Exch
  BY <1>1, EofTypes DEF IdleClose
<1> QED
  BY <1>1, <1>2, <1>3, <1>4, AllTypes

LEMMA FlushRacesTypes ==
    ASSUME TypeOK, Holding, NEW h \in Half, NEW g \in Half, FlushRaces(h, g)
    PROVE  TypeOK' /\ Holding'
<1> DEFINE s == Started(held[h])
<1>1. g[2] = h[2] /\ Parse(g, Run(s))
      /\ held' = [held EXCEPT ![h] = Rest(s)]
      /\ half' = [half EXCEPT ![h] = AfterFlush(h, Rest(s))]
  BY DEF FlushRaces
<1>2. Readable(g, Run(s)) /\ Rest(s) \in Seq(Int)
      /\ (h[2] = "req" => Rest(s) \in Seq(Exch \cup {Gap}))
  BY <1>1, FlushReads
<1>3. TrafficTypes /\ GhostTypes /\ open' = open /\ prompt' \in SUBSET Exch /\ Counts
  BY SpoilsTypes DEF TypeOK, FlushRaces, TrafficTypes, Counts, trafficVars
<1> HIDE DEF s
<1>4. PairTypes
  BY <1>1, <1>2, <1>3, ParseTypes
<1>5. StreamTypes /\ Holding'
  BY <1>1, <1>2, <1>3, FlushTypes
<1> QED
  BY <1>3, <1>4, <1>5, AllTypes

LEMMA NextTypes == ASSUME TypeOK, Holding, [Next]_vars PROVE TypeOK' /\ Holding'
<1>1. ASSUME Stop \/ Flushed \/ UNCHANGED vars
      PROVE  TypeOK' /\ Holding'
  <2>1. /\ UNCHANGED <<streamVars, pairVars, ghostVars>> /\ open' \subseteq open
        /\ TrafficTypes
    BY <1>1 DEF Stop, Flushed, vars, TypeOK, TrafficTypes, trafficVars, streamVars, pairVars,
         ghostVars
  <2>2. GhostTypes
    BY <2>1 DEF TypeOK, GhostTypes, ghostVars
  <2> QED
    BY <2>1, <2>2, StreamsStay, PairsStay, AllTypes
<1> QED
  BY <1>1, ConnectTypes, SendTypes, ContinueTypes, AnswerTypes, CloseTypes, FlushOldTypes,
     IdleCloseTypes, EndOfStreamTypes, FlushRacesTypes DEF Next

LEMMA InitTypes == ASSUME Init PROVE TypeOK /\ Holding
<1>1. N \in Nat /\ Faults \in Nat /\ NoExch \in 0..NoExch /\ Before \in 0..NoExch
  BY SniffAssumption DEF NoExch, Before
<1>2. /\ half \in [Half -> {"none", "holding"}]
      /\ held \in [Half -> {<<>>, <<Gap>>}]
      /\ <<Gap>> \in Seq(Int) /\ <<>> \in Seq(Int)
      /\ <<Gap>> \in Seq(Exch \cup {Gap}) /\ <<>> \in Seq(Exch \cup {Gap})
  BY <1>1 DEF Init, Gap
<1>3. TypeOK
  <2>1. faults \in 0..Faults
    <3>1. IsFiniteSet(Conn \ clean)
      BY SniffAssumption, FS_Difference
    <3>2. faults \in Nat /\ faults <= Faults
      BY <3>1, FS_CardinalityType DEF Init
    <3> QED
      BY <1>1, <3>2
  <2> QED
    BY <1>1, <1>2, <2>1 DEF Init, TypeOK, Kinds
<1>4. ASSUME NEW h \in Half, half[h] = "none"
      PROVE  held[h] = <<>>
  <2>1. h[1] \in Conn \ open
    BY <1>4 DEF Init, Half
  <2>2. owed[h[1]] # Before
    BY <1>1, <2>1 DEF Init, Before, NoExch
  <2> QED
    BY <2>2 DEF Init
<1>5. Holding
  <2>1. \A c \in Conn : <<c, "req">> \in Half
    BY DEF Half, Dir
  <2>2. \A c \in open, d \in Dir : <<c, d>> \in Half /\ half[<<c, d>>] = "holding"
    BY <1>3 DEF Half, Init, TypeOK
  <2> QED
    BY <1>2, <1>4, <2>1, <2>2 DEF Holding
<1> QED
  BY <1>3, <1>5

\* Streams, parsers, pairing and file keep their types for every number of
\* connections and exchanges; parsers of requests never wait for a body.
THEOREM TypeCorrect == Spec => []TypeOK
<1>1. Spec => [](TypeOK /\ Holding)
  BY InitTypes, NextTypes, PTL DEF Spec
<1> QED
  BY <1>1, PTL

----------------------------------------------------------------------------
(* PairsAreRight.                                                          *)

\* Only key c is touched.
Others(c) ==
    \A b \in Conn \ {c} :
        /\ requests'[b] = requests[b] /\ responses'[b] = responses[b]
        /\ \A d \in Dir : half'[<<b, d>>] = half[<<b, d>>] /\ held'[<<b, d>>] = held[<<b, d>>]

LEMMA OthersInStep ==
    ASSUME NEW c, Others(c), NEW b \in Conn \ {c}, InStep(b), owed'[b] = owed[b]
    PROVE  InStep(b)'
  BY DEF Others, InStep, Due, Dir

\* When A and B are still to come on the two halves of a clean key, its new lines
\* are pairs, and what waits is in step again.
StillToCome(h, ms, A, B) == h[1] \in clean' => Requested(h, ms) \o A = Responded(h, ms) \o B

PairsLeft(h, A, B) ==
    /\ PairsAreRight'
    /\ h[1] \in clean' =>
         /\ requests'[h[1]] \o A = responses'[h[1]] \o B
         /\ requests'[h[1]] = <<>> \/ responses'[h[1]] = <<>>
    /\ \A b \in Conn \ {h[1]} : requests'[b] = requests[b] /\ responses'[b] = responses[b]

LEMMA ParsePairs ==
    ASSUME TypeOK, Counts, PairsAreRight, NEW h \in Half, NEW ms, Readable(h, ms), Parse(h, ms),
           NEW A \in Seq(Int), NEW B \in Seq(Int), StillToCome(h, ms, A, B)
    PROVE  PairsLeft(h, A, B)
<1> DEFINE R == Requested(h, ms)
           S == Responded(h, ms)
           n == Paired(h, ms)
           pairs == [i \in 1..n |-> [req |-> R[i], resp |-> S[i], ts |-> ts'[R[i]],
                                     clean |-> h[1] \in clean']]
<1>1. /\ h[1] \in Conn
      /\ requests \in [Conn -> Seq(Exch)] /\ responses \in [Conn -> Seq(Int)]
  BY DEF Half, TypeOK
<1>2. /\ R \in Seq(Exch) /\ S \in Seq(Int)
      /\ requests' = [requests EXCEPT ![h[1]] = SubSeq(R, n + 1, Len(R))]
      /\ responses' = [responses EXCEPT ![h[1]] = SubSeq(S, n + 1, Len(S))]
      /\ AddsOnly(pairs)
  BY ParseParses DEF Parsing
<1>3. R \in Seq(Int) /\ n = Shorter(Len(R), Len(S))
  <2>1. Exch \subseteq Int
    BY DEF Exch
  <2> QED
    BY <1>2, <2>1, SeqMonotonic DEF Paired
<1>4. \A i \in DOMAIN pairs :
        pairs[i].req = R[i] /\ pairs[i].resp = S[i] /\ (pairs[i].clean <=> h[1] \in clean')
  OBVIOUS
<1>5. DOMAIN pairs = 1..n
  OBVIOUS
<1> HIDE DEF R, S, n, pairs
<1>6. h[1] \in clean' =>
        /\ \A i \in 1..n : R[i] = S[i]
        /\ SubSeq(R, n + 1, Len(R)) \o A = SubSeq(S, n + 1, Len(S)) \o B
        /\ SubSeq(R, n + 1, Len(R)) = <<>> \/ SubSeq(S, n + 1, Len(S)) = <<>>
  <2> SUFFICES ASSUME h[1] \in clean'
               PROVE  /\ \A i \in 1..n : R[i] = S[i]
                      /\ SubSeq(R, n + 1, Len(R)) \o A = SubSeq(S, n + 1, Len(S)) \o B
                      /\ SubSeq(R, n + 1, Len(R)) = <<>> \/ SubSeq(S, n + 1, Len(S)) = <<>>
    OBVIOUS
  <2>1. R \o A = S \o B
    BY DEF R, S, StillToCome
  <2>2. R \in Seq(Int) /\ S \in Seq(Int)
    BY <1>2, <1>3
  <2>3. LET k == Shorter(Len(R), Len(S)) IN
        /\ \A i \in 1..k : R[i] = S[i]
        /\ SubSeq(R, k + 1, Len(R)) \o A = SubSeq(S, k + 1, Len(S)) \o B
        /\ SubSeq(R, k + 1, Len(R)) = <<>> \/ SubSeq(S, k + 1, Len(S)) = <<>>
    BY <2>1, <2>2, MatchAligned, Zenon
  <2> QED
    BY <1>3, <2>3
<1>7. PairsAreRight'
  <2> SUFFICES ASSUME NEW k \in DOMAIN file', file'[k].clean
               PROVE  file'[k].resp = file'[k].req
    BY DEF PairsAreRight
  <2>1. CASE k \in DOMAIN file /\ file'[k] = file[k]
    BY <2>1 DEF PairsAreRight
  <2>2. CASE \E i \in DOMAIN pairs : file'[k] = pairs[i]
    BY <1>4, <1>5, <1>6, <2>2
  <2> QED
    BY <1>2, <2>1, <2>2 DEF AddsOnly
<1>8. h[1] \in clean' =>
        /\ requests'[h[1]] \o A = responses'[h[1]] \o B
        /\ requests'[h[1]] = <<>> \/ responses'[h[1]] = <<>>
  <2>1. /\ requests'[h[1]] = SubSeq(R, n + 1, Len(R))
        /\ responses'[h[1]] = SubSeq(S, n + 1, Len(S))
    BY <1>1, <1>2
  <2> QED
    BY <1>6, <2>1
<1>9. \A b \in Conn \ {h[1]} : requests'[b] = requests[b] /\ responses'[b] = responses[b]
  BY <1>1, <1>2
<1> QED
  BY <1>7, <1>8, <1>9 DEF PairsLeft

LEMMA Associative ==
    ASSUME NEW T, NEW r \in Seq(T), NEW s \in Seq(T), NEW t \in Seq(T)
    PROVE  (r \o s) \o t = r \o (s \o t)
  OBVIOUS

Associates(r, s, t) == (r \o s) \o t = r \o (s \o t)

LEMMA AllAssociate == \A T : \A r, s, t \in Seq(T) : Associates(r, s, t)
  BY Associative DEF Associates

LEMMA AssociativeInt ==
    ASSUME NEW r \in Seq(Int), NEW s \in Seq(Int), NEW t \in Seq(Int)
    PROVE  (r \o s) \o t = r \o (s \o t)
  OBVIOUS

\* The requests R and A, in this order, are the responses S, B and D.
Even(R, A, S, B, D) == R \o A = S \o (B \o D)

\* x is parsed, or held back, on one of two halves that are in step.
LEMMA ConcatMoves ==
    ASSUME NEW T, NEW r \in Seq(T), NEW q \in Seq(T), NEW s \in Seq(T), NEW p \in Seq(T),
           NEW x \in Seq(T)
    PROVE  /\ q = <<>> /\ Even(r, q, s, p, <<>>) => Even(r \o x, q, s, p, x)
           /\ p = <<>> /\ Even(r, q, s, p, x) => Even(r, q, s \o x, p, <<>>)
           /\ Even(r, q, s, p, <<>>) => Even(r, q \o x, s, p, x)
           /\ Even(r, q, s, p, x) => Even(r, q, s, p \o x, <<>>)
<1>1. r \o x \in Seq(T) /\ p \o x \in Seq(T) /\ s \o x \in Seq(T)
  BY ConcatProperties
<1>2. /\ p \o <<>> = p /\ r \o <<>> = r /\ (r \o x) \o <<>> = r \o x
      /\ <<>> \o x = x /\ <<>> \o <<>> = <<>>
      /\ (s \o x) \o <<>> = s \o x /\ (p \o x) \o <<>> = p \o x
  BY <1>1, ConcatEmptySeq
<1>a. Associates(s, p, x) /\ Associates(r, q, x)
  BY AllAssociate, Zenon
<1>3. (s \o p) \o x = s \o (p \o x)
  BY <1>a DEF Associates
<1>4. (r \o q) \o x = r \o (q \o x)
  BY <1>a DEF Associates
<1>5. ASSUME q = <<>>, r \o q = s \o (p \o <<>>)
      PROVE  (r \o x) \o q = s \o (p \o x)
  BY <1>2, <1>3, <1>5
<1>6. ASSUME p = <<>>, r \o q = s \o (p \o x)
      PROVE  r \o q = (s \o x) \o (p \o <<>>)
  BY <1>2, <1>6
<1>7. ASSUME r \o q = s \o (p \o <<>>)
      PROVE  r \o (q \o x) = s \o (p \o x)
  BY <1>2, <1>3, <1>4, <1>7
<1>8. ASSUME r \o q = s \o (p \o x)
      PROVE  r \o q = s \o ((p \o x) \o <<>>)
  BY <1>2, <1>8
<1> QED
  BY <1>5, <1>6, <1>7, <1>8 DEF Even

\* The packet that was due, or one that makes a response due.
Expected(c, d, m) ==
    /\ c \in open /\ m \in Exch
    /\ \/ d = "req" /\ Due(c) = <<>> /\ Due(c)' = <<m>>
       \/ d = "resp" /\ Due(c) = <<m>> /\ Due(c)' = <<>> /\ ~IsHead(m)

LEMMA ArrivesInStep ==
    ASSUME TypeOK, Holding, Counts, PairsAreRight, NEW c \in Conn, NEW d \in Dir, NEW m,
           Sendable(<<c, d>>, m), Arrives(<<c, d>>, m),
           c \in clean' => InStep(c) /\ Expected(c, d, m)
    PROVE  PairsAreRight' /\ Others(c) /\ (c \in clean' => InStep(c)')
<1> DEFINE h == <<c, d>>
           q == held[<<c, "req">>]
           p == held[<<c, "resp">>]
<1>1. /\ h \in Half /\ h[1] = c /\ h[2] = d
      /\ <<c, "req">> \in Half /\ <<c, "resp">> \in Half
      /\ half \in [Half -> {"none", "live", "holding", "body", "dead", "stuck"}]
      /\ held \in [Half -> Seq(Int)]
      /\ requests \in [Conn -> Seq(Exch)] /\ responses \in [Conn -> Seq(Int)]
      /\ d = "req" \/ d = "resp"
  BY DEF Half, Dir, TypeOK
<1>2. /\ requests[c] \in Seq(Int) /\ responses[c] \in Seq(Int)
      /\ q \in Seq(Int) /\ p \in Seq(Int) /\ m \in Int
  <2>1. Exch \subseteq Int
    BY DEF Exch
  <2> QED
    BY <1>1, <2>1, SeqMonotonic DEF Sendable
<1>3. UNCHANGED pairVars => UNCHANGED <<requests, responses, file>>
  BY DEF pairVars
<1>4. \A b \in Conn \ {c}, e \in Dir : <<b, e>> \in Half /\ <<b, e>> # h
  BY DEF Half
<1>5. c \in clean' => half[h] \in {"live", "holding"}
  <2> SUFFICES ASSUME c \in clean' PROVE half[h] \in {"live", "holding"}
    OBVIOUS
  <2>1. InStep(c) /\ h[1] \in open
    BY <1>1 DEF Expected
  <2>2. half[h] \in {"live", "holding", "none"}
    BY <2>1, Zenon DEF InStep
  <2>3. half[h] # "none"
    <3>1. h \in Half /\ h[1] \in open
      BY <1>1, <2>1, Zenon
    <3> HIDE DEF h
    <3> QED
      BY <3>1, HeldWell, Zenon
  <2> QED
    BY <2>2, <2>3
<1>0. c \in clean' => requests[c] \o q = responses[c] \o (p \o Due(c))
  BY DEF InStep
<1>11. /\ q = <<>> /\ requests[c] \o q = responses[c] \o (p \o <<>>)
            => (requests[c] \o <<m>>) \o q = responses[c] \o (p \o <<m>>)
       /\ p = <<>> /\ requests[c] \o q = responses[c] \o (p \o <<m>>)
            => requests[c] \o q = (responses[c] \o <<m>>) \o (p \o <<>>)
       /\ requests[c] \o q = responses[c] \o (p \o <<>>)
            => requests[c] \o Append(q, m) = responses[c] \o (p \o <<m>>)
       /\ requests[c] \o q = responses[c] \o (p \o <<m>>)
            => requests[c] \o q = responses[c] \o (Append(p, m) \o <<>>)
  <2> HIDE DEF q, p
  <2>1. <<m>> \in Seq(Int)
    BY <1>2
  <2>2. /\ q = <<>> /\ Even(requests[c], q, responses[c], p, <<>>)
                => Even(requests[c] \o <<m>>, q, responses[c], p, <<m>>)
        /\ p = <<>> /\ Even(requests[c], q, responses[c], p, <<m>>)
                => Even(requests[c], q, responses[c] \o <<m>>, p, <<>>)
        /\ Even(requests[c], q, responses[c], p, <<>>)
                => Even(requests[c], q \o <<m>>, responses[c], p, <<m>>)
        /\ Even(requests[c], q, responses[c], p, <<m>>)
                => Even(requests[c], q, responses[c], p \o <<m>>, <<>>)
    BY <1>2, <2>1, ConcatMoves, Zenon
  <2>3. Append(q, m) = q \o <<m>> /\ Append(p, m) = p \o <<m>>
    BY <1>2, AppendIsConcat DEF q, p
  <2> QED
    BY <2>2, <2>3 DEF Even
<1>6. CASE /\ half[h] = "live" /\ UNCHANGED <<half, held>>
           /\ Readable(h, <<m>>) /\ Parse(h, <<m>>)
  <2> DEFINE B == IF d = "req" THEN p \o <<m>> ELSE p \o <<>>
  <2>1. /\ q \in Seq(Int) /\ B \in Seq(Int)
        /\ Requested(h, <<m>>) = IF d = "req" THEN requests[c] \o <<m>> ELSE requests[c]
        /\ Responded(h, <<m>>) = IF d = "req" THEN responses[c] ELSE responses[c] \o <<m>>
    <3>1. <<m>> \in Seq(Int) /\ <<>> \in Seq(Int)
      BY <1>2
    <3>2. p \o <<m>> \in Seq(Int) /\ p \o <<>> \in Seq(Int)
      BY <1>2, <3>1, ConcatProperties
    <3> QED
      BY <1>1, <1>2, <3>2 DEF Requested, Responded
  <2>2. held[h] = <<>>
    BY <1>1, <1>6, HeldWell
  <2>3. c \in clean' => Requested(h, <<m>>) \o q = Responded(h, <<m>>) \o B
    <3> SUFFICES ASSUME c \in clean' PROVE Requested(h, <<m>>) \o q = Responded(h, <<m>>) \o B
      OBVIOUS
    <3>1. CASE d = "req"
      <4>1. q = <<>> /\ requests[c] \o q = responses[c] \o (p \o <<>>)
        BY <1>0, <2>2, <3>1 DEF Expected
      <4> QED
        BY <1>11, <2>1, <3>1, <4>1
    <3>2. CASE d = "resp"
      <4>1. p = <<>> /\ requests[c] \o q = responses[c] \o (p \o <<m>>)
        BY <1>0, <2>2, <3>2 DEF Expected
      <4> QED
        BY <1>11, <2>1, <3>2, <4>1
    <3> QED
      BY <1>1, <3>1, <3>2
  <2>4. c \in clean' => B = p \o Due(c)'
    BY <1>1 DEF Expected
  <2> HIDE DEF B, q, p
  <2>5. /\ PairsAreRight'
        /\ c \in clean' => /\ requests'[c] \o q = responses'[c] \o B
                           /\ requests'[c] = <<>> \/ responses'[c] = <<>>
        /\ \A b \in Conn \ {c} : requests'[b] = requests[b] /\ responses'[b] = responses[b]
    <3>1. h \in Half /\ Readable(h, <<m>>) /\ Parse(h, <<m>>) /\ StillToCome(h, <<m>>, q, B)
      BY <1>1, <1>6, <2>3 DEF StillToCome
    <3>2. q \in Seq(Int) /\ B \in Seq(Int)
      BY <2>1
    <3> HIDE DEF h
    <3>3. PairsLeft(h, q, B)
      BY <3>1, <3>2, ParsePairs
    <3> QED
      BY <1>1, <3>3 DEF PairsLeft
  <2>6. Others(c)
    BY <1>6, <2>5 DEF Others
  <2>7. c \in clean' => InStep(c)'
    BY <1>6, <2>4, <2>5 DEF InStep, q, p, Due
  <2> QED
    BY <2>5, <2>6, <2>7
<1>7. CASE /\ half[h] = "holding"
           /\ held' = [held EXCEPT ![h] = Append(@, m)]
           /\ UNCHANGED <<half, pairVars>>
  <2>1. PairsAreRight' /\ Others(c)
    BY <1>1, <1>3, <1>4, <1>7 DEF PairsAreRight, Others
  <2>2. ASSUME c \in clean'
        PROVE  InStep(c)'
    <3>1. \A e \in Dir : half'[<<c, e>>] = half[<<c, e>>] /\ held'[<<c, e>>] \in Seq(Exch)
      <4>1. /\ \A e \in Dir : <<c, e>> \in Half /\ held[<<c, e>>] \in Seq(Exch)
            /\ m \in Exch
        BY <2>2 DEF Half, InStep, Expected
      <4>2. Append(held[h], m) \in Seq(Exch)
        BY <1>1, <4>1, AppendProperties
      <4>3. \A e \in Dir : held'[<<c, e>>] \in {held[<<c, e>>], Append(held[h], m)}
        <5>1. \A g \in Half : held'[g] \in {held[g], Append(held[h], m)}
          <6>1. held \in [Half -> Seq(Int)] /\ held' = [held EXCEPT ![h] = Append(held[h], m)]
            BY <1>1, <1>7
          <6> HIDE DEF h
          <6> QED
            BY <6>1
        <5> QED
          BY <4>1, <5>1
      <4> QED
        BY <1>7, <4>1, <4>2, <4>3
    <3>2. requests[c] \o held'[<<c, "req">>] = responses[c] \o (held'[<<c, "resp">>] \o Due(c)')
      <4>1. CASE d = "req"
        <5>1. requests[c] \o q = responses[c] \o (p \o <<>>) /\ Due(c)' = <<m>>
          BY <1>0, <2>2, <4>1 DEF Expected
        <5>2. held'[<<c, "req">>] = Append(q, m) /\ held'[<<c, "resp">>] = p
          BY <1>1, <1>7, <4>1
        <5> QED
          BY <1>11, <5>1, <5>2
      <4>2. CASE d = "resp"
        <5>1. requests[c] \o q = responses[c] \o (p \o <<m>>) /\ Due(c)' = <<>>
          BY <1>0, <2>2, <4>2 DEF Expected
        <5>2. held'[<<c, "req">>] = q /\ held'[<<c, "resp">>] = Append(p, m)
          BY <1>1, <1>7, <4>2
        <5>3. requests[c] \o q = responses[c] \o (Append(p, m) \o <<>>)
          BY <1>11, <5>1, Zenon
        <5> QED
          BY <5>1, <5>2, <5>3, Zenon
      <4> QED
        BY <1>1, <4>1, <4>2
    <3>3. requests'[c] = requests[c] /\ responses'[c] = responses[c]
      BY <1>3, <1>7
    <3>4. /\ requests'[c] = <<>> \/ responses'[c] = <<>>
          /\ \A e \in Dir : half[<<c, e>>] \in {"live", "holding", "none"}
      BY <2>2, <3>3 DEF InStep
    <3>5. requests'[c] \o held'[<<c, "req">>]
            = responses'[c] \o (held'[<<c, "resp">>] \o Due(c)')
      BY <3>2, <3>3
    <3> QED
      BY <3>1, <3>4, <3>5 DEF InStep
  <2> QED
    BY <2>1, <2>2
<1>8. CASE half[h] \in {"live", "holding"} /\ IsHead(m) /\ d = "resp"
           /\ half' = [half EXCEPT ![h] = "body"]
           /\ held' = [held EXCEPT ![h] = <<m>>]
           /\ UNCHANGED pairVars
  <2>1. PairsAreRight' /\ Others(c)
    BY <1>1, <1>3, <1>4, <1>8 DEF PairsAreRight, Others
  <2> QED
    BY <1>8, <2>1 DEF Expected
<1>9. CASE half[h] \in {"body", "dead", "none"} /\ UNCHANGED <<half, held, pairVars>>
  BY <1>1, <1>3, <1>4, <1>5, <1>9 DEF PairsAreRight, Others
<1>10. CASE half[h] = "body" /\ Readable(h, held[h]) /\ Parse(h, held[h]) /\ Fails(h)
  <2>1. c \notin clean' /\ <<>> \in Seq(Int)
    BY <1>5, <1>10
  <2>2. /\ PairsAreRight'
        /\ \A b \in Conn \ {c} : requests'[b] = requests[b] /\ responses'[b] = responses[b]
    <3>1. StillToCome(h, held[h], <<>>, <<>>)
      BY <1>1, <2>1 DEF StillToCome
    <3>2. PairsLeft(h, <<>>, <<>>)
      BY <1>1, <1>10, <2>1, <3>1, ParsePairs
    <3> QED
      BY <1>1, <3>2 DEF PairsLeft
  <2>3. Others(c)
    BY <1>1, <1>4, <1>10, <2>2, FailsElsewhere DEF Others
  <2> QED
    BY <2>1, <2>2, <2>3
<1> QED
  BY <1>1, <1>6, <1>7, <1>8, <1>9, <1>10, ArrivesCases DEF Fails

\* What a packet does to its own key, and that it does nothing to another.
LEMMA PacketInStep ==
    ASSUME TypeOK, Holding, Counts, PairsAreRight, NEW c \in Conn, NEW d \in Dir, NEW m,
           NEW expected, Sendable(<<c, d>>, m), Packet(<<c, d>>, m, expected),
           c \in clean /\ expected => InStep(c) /\ Expected(c, d, m)
    PROVE  /\ PairsAreRight' /\ Others(c) /\ clean' \subseteq clean
           /\ c \in clean' => expected /\ c \in clean /\ InStep(c)'
<1>1. <<c, d>> \in Half /\ \A b \in Conn \ {c}, e \in Dir : <<b, e>> \in Half /\ <<b, e>> # <<c, d>>
  BY DEF Half
<1>2. CASE /\ Arrives(<<c, d>>, m)
           /\ IF expected THEN UNCHANGED ghostVars ELSE Spoils({c})
  <2>1. clean' \subseteq clean /\ (c \in clean' => expected /\ c \in clean)
    BY <1>2 DEF ghostVars, Spoils
  <2>2. PairsAreRight' /\ Others(c) /\ (c \in clean' => InStep(c)')
    BY <1>2, <2>1, ArrivesInStep
  <2> QED
    BY <2>1, <2>2
<1>3. CASE Spoils({c}) /\ IsLost(<<c, d>>)
  <2>1. clean' \subseteq clean /\ c \notin clean'
    BY <1>3 DEF Spoils
  <2>2. PairsAreRight' /\ Others(c)
    BY <1>1, <1>3 DEF IsLost, pairVars, PairsAreRight, Others, TypeOK
  <2> QED
    BY <2>1, <2>2
<1>4. CASE Spoils({c}) /\ IsCut(<<c, d>>, m)
  <2>1. clean' \subseteq clean /\ c \notin clean'
    BY <1>4 DEF Spoils
  <2>2. PICK s : Breaks(<<c, d>>, s) /\ UNCHANGED pairVars
    BY <1>4, CutCases
  <2>3. PairsAreRight' /\ Others(c)
    BY <1>1, <2>2 DEF Breaks, pairVars, PairsAreRight, Others, TypeOK
  <2> QED
    BY <2>1, <2>3
<1> QED
  BY <1>2, <1>3, <1>4 DEF Packet

\* A step that touches one key keeps the others aligned.
LEMMA AlignedElsewhere ==
    ASSUME Aligned, NEW c \in Conn, Others(c), clean' \subseteq Conn, clean' \ {c} \subseteq clean,
           \A b \in Conn \ {c} :
               /\ owed'[b] = owed[b]
               /\ owed[b] \in Exch /\ kind[owed[b]] \in {"read", "write"}
                    => kind'[owed[b]] \in {"read", "write"},
           c \in clean' => /\ owed'[c] # Before
                           /\ owed'[c] \in Exch => kind'[owed'[c]] \in {"read", "write"}
                           /\ InStep(c)'
    PROVE  Aligned'
<1> SUFFICES ASSUME NEW b \in clean', b # c
             PROVE  /\ owed'[b] # Before
                    /\ owed'[b] \in Exch => kind'[owed'[b]] \in {"read", "write"}
                    /\ InStep(b)'
  BY DEF Aligned
<1>1. b \in Conn \ {c} /\ b \in clean /\ owed'[b] = owed[b]
  OBVIOUS
<1>2. InStep(b)'
  BY <1>1, OthersInStep DEF Aligned
<1> QED
  BY <1>1, <1>2 DEF Aligned

\* The numbers that are no exchanges.
LEMMA NotExch == NoExch \notin Exch /\ Before \notin Exch /\ NoExch # Before /\ Gap \notin Exch
                 /\ \A x \in 0..NoExch : x \in Exch \/ x = Before \/ x = NoExch
  BY SniffAssumption DEF Exch, NoExch, Before, Gap

Right == Awaited /\ Aligned /\ PairsAreRight

LEMMA ConnectRight ==
    ASSUME TypeOK, Holding, Right, TypeOK', NEW c \in Conn, Connect(c)
    PROVE  Right'
<1>1. /\ half \in [Half -> {"none", "live", "holding", "body", "dead", "stuck"}]
      /\ <<c, "req">> \in Half /\ <<c, "resp">> \in Half /\ <<c, "req">> # <<c, "resp">>
      /\ half[<<c, "req">>] = "none" /\ half[<<c, "resp">>] = "none"
      /\ \A b \in Conn \ {c}, e \in Dir :
            <<b, e>> \in Half /\ <<b, e>> # <<c, "req">> /\ <<b, e>> # <<c, "resp">>
  BY DEF TypeOK, Connect, Half, Dir
<1>2. /\ half' = [half EXCEPT ![<<c, "req">>] = "live", ![<<c, "resp">>] = "live"]
      /\ UNCHANGED <<held, owed, kind, sent, phase, requests, responses, file>>
      /\ phase = "running" /\ c \notin open /\ open' = open \cup {c}
      /\ clean' = IF requests[c] = <<>> /\ responses[c] = <<>>
                  THEN clean \cup {c} ELSE clean \ {c}
  BY DEF Connect, pairVars
<1>3. Others(c)
  BY <1>1, <1>2 DEF Others
<1>4. Awaited' /\ owed[c] = NoExch
  BY <1>2 DEF Awaited, Right
<1>5. PairsAreRight'
  BY <1>2 DEF PairsAreRight, Right
<1>6. ASSUME c \in clean'
      PROVE  InStep(c)'
  <2>1. requests'[c] = <<>> /\ responses'[c] = <<>> /\ Due(c)' = <<>>
    BY <1>2, <1>4, <1>6, NotExch DEF Due
  <2>2. held'[<<c, "req">>] = <<>> /\ held'[<<c, "resp">>] = <<>>
    BY <1>1, <1>2, HeldWell
  <2>3. \A e \in Dir : half'[<<c, e>>] = "live" /\ held'[<<c, e>>] \in Seq(Exch)
    <3>1. half'[<<c, "req">>] = "live" /\ half'[<<c, "resp">>] = "live"
      BY <1>1, <1>2
    <3>2. <<>> \in Seq(Exch)
      OBVIOUS
    <3> QED
      BY <2>2, <3>1, <3>2 DEF Dir
  <2> QED
    BY <2>1, <2>2, <2>3 DEF InStep
<1>7. Aligned'
  <2>1. clean' \subseteq Conn /\ clean' \ {c} \subseteq clean
    BY <1>2 DEF TypeOK
  <2> QED
    BY <1>2, <1>3, <1>4, <1>6, <2>1, NotExch, AlignedElsewhere DEF Right
<1> QED
  BY <1>4, <1>5, <1>7 DEF Right

LEMMA SendRight ==
    ASSUME TypeOK, Holding, Right, TypeOK', NEW c \in Conn, Send(c)
    PROVE  Right'
<1>0. Counts
  BY DEF Counts, TypeOK
<1>1. PICK k \in Kinds :
        /\ kind' = [kind EXCEPT ![sent + 1] = k]
        /\ Packet(<<c, "req">>, sent + 1, k \in {"read", "write"})
  BY DEF Send
<1>2. /\ sent \in Nat /\ N \in Nat /\ sent + 1 \in Exch
      /\ sent' = sent + 1 /\ owed \in [Conn -> 0..NoExch]
      /\ owed' = [owed EXCEPT ![c] = sent + 1]
      /\ owed[c] = NoExch /\ c \in open /\ UNCHANGED <<open, phase>>
      /\ kind \in [Exch -> Kinds]
  <2>1. N \in Nat /\ sent \in 0..N
    BY SniffAssumption DEF TypeOK
  <2>2. /\ sent < N /\ sent' = sent + 1
        /\ owed' = [owed EXCEPT ![c] = sent + 1]
        /\ owed[c] = NoExch /\ c \in open /\ UNCHANGED <<open, phase>>
    BY DEF Send
  <2>3. owed \in [Conn -> 0..NoExch] /\ kind \in [Exch -> Kinds]
    BY DEF TypeOK
  <2>4. sent \in Nat /\ sent + 1 \in 1..N
    BY <2>1, <2>2
  <2> QED
    BY <2>1, <2>2, <2>3, <2>4 DEF Exch
<1>3. <<c, "req">> \in Half /\ Sendable(<<c, "req">>, sent + 1) /\ "req" \in Dir
  BY <1>2 DEF Half, Dir, Sendable
<1>4. Expected(c, "req", sent + 1)
  BY <1>2, NotExch DEF Expected, Due
<1>5. /\ PairsAreRight' /\ Others(c) /\ clean' \subseteq clean
      /\ c \in clean' => k \in {"read", "write"} /\ InStep(c)'
  <2>1. c \in clean => InStep(c)
    BY DEF Right, Aligned
  <2> DEFINE expected == k \in {"read", "write"}
  <2>2. Packet(<<c, "req">>, sent + 1, expected)
    BY <1>1
  <2> HIDE DEF expected
  <2>3. /\ PairsAreRight' /\ Others(c) /\ clean' \subseteq clean
        /\ c \in clean' => expected /\ InStep(c)'
    BY <1>0, <1>3, <1>4, <2>1, <2>2, PacketInStep DEF Right
  <2> QED
    BY <2>3 DEF expected
<1>6. Awaited'
  BY <1>2 DEF Awaited, Right, Exch
<1>7. Aligned'
  <2>1. \A b \in Conn \ {c} :
           owed'[b] = owed[b] /\ (owed[b] \in Exch => kind'[owed[b]] = kind[owed[b]])
    BY <1>1, <1>2 DEF Awaited, Right, Exch
  <2>2. owed'[c] = sent + 1 /\ kind'[sent + 1] = k /\ sent + 1 # Before
    BY <1>1, <1>2, NotExch
  <2>3. clean' \subseteq Conn
    BY DEF TypeOK
  <2> QED
    BY <1>5, <2>1, <2>2, <2>3, AlignedElsewhere DEF Right
<1> QED
  BY <1>5, <1>6, <1>7 DEF Right

LEMMA ContinueRight ==
    ASSUME TypeOK, Holding, Right, TypeOK', NEW c \in Conn, Continue(c)
    PROVE  Right'
<1>1. <<c, "resp">> \in Half /\ Sendable(<<c, "resp">>, -owed[c]) /\ "resp" \in Dir
  BY SniffAssumption DEF Half, Dir, Sendable, Continue, Exch
<1>2. /\ owed[c] \in Exch /\ kind[owed[c]] = "expect"
      /\ kind' = [kind EXCEPT ![owed[c]] = "write"]
      /\ UNCHANGED <<open, sent, owed, phase>>
      /\ kind \in [Exch -> Kinds] /\ owed \in [Conn -> 0..NoExch]
  BY DEF Continue, TypeOK
<1>3. c \notin clean
  BY <1>2 DEF Right, Aligned
<1>4. PairsAreRight' /\ Others(c) /\ clean' \subseteq clean /\ c \notin clean'
  BY <1>1, <1>3, PacketInStep DEF Continue, Right, Counts, TypeOK
<1>5. Awaited'
  BY <1>2 DEF Awaited, Right
<1>6. Aligned'
  <2>1. \A b \in Conn \ {c} :
           /\ owed'[b] = owed[b]
           /\ owed[b] \in Exch /\ kind[owed[b]] \in {"read", "write"}
                => kind'[owed[b]] \in {"read", "write"}
    BY <1>2
  <2>2. clean' \subseteq Conn
    BY DEF TypeOK
  <2> QED
    BY <1>4, <2>1, <2>2, AlignedElsewhere DEF Right
<1> QED
  BY <1>4, <1>5, <1>6 DEF Right

LEMMA AnswerRight ==
    ASSUME TypeOK, Holding, Right, TypeOK', NEW c \in Conn, Answer(c)
    PROVE  Right'
<1>1. <<c, "resp">> \in Half /\ Sendable(<<c, "resp">>, owed[c]) /\ "resp" \in Dir
  BY SniffAssumption DEF Half, Dir, Sendable, TypeOK
<1>2. /\ owed[c] # NoExch /\ c \in open /\ owed[c] \in 0..NoExch
      /\ owed' = [owed EXCEPT ![c] = NoExch] /\ owed \in [Conn -> 0..NoExch]
      /\ UNCHANGED <<open, sent, kind, phase>>
      /\ Packet(<<c, "resp">>, owed[c], TRUE)
  BY DEF Answer, TypeOK
<1>3. ASSUME c \in clean
      PROVE  InStep(c) /\ Expected(c, "resp", owed[c])
  <2>1. InStep(c) /\ owed[c] # Before /\ (owed[c] \in Exch => kind[owed[c]] \in {"read", "write"})
    BY <1>3 DEF Right, Aligned
  <2>2. owed[c] \in Exch /\ ~IsHead(owed[c])
    BY <1>2, <2>1, NotExch DEF IsHead
  <2>3. Due(c) = <<owed[c]>> /\ Due(c)' = <<>>
    BY <1>2, <2>2, NotExch DEF Due
  <2> QED
    BY <1>2, <2>1, <2>2, <2>3 DEF Expected
<1>4. PairsAreRight' /\ Others(c) /\ clean' \subseteq clean /\ (c \in clean' => InStep(c)')
  BY <1>1, <1>2, <1>3, PacketInStep DEF Right, Counts, TypeOK
<1>5. Awaited'
  BY <1>2, NotExch DEF Awaited, Right
<1>6. Aligned'
  <2>1. \A b \in Conn \ {c} : owed'[b] = owed[b] /\ kind' = kind
    BY <1>2
  <2>2. owed'[c] = NoExch /\ clean' \subseteq Conn
    BY <1>2 DEF TypeOK
  <2> QED
    BY <1>4, <2>1, <2>2, NotExch, AlignedElsewhere DEF Right
<1> QED
  BY <1>4, <1>5, <1>6 DEF Right

LEMMA CloseRight ==
    ASSUME TypeOK, Holding, Right, TypeOK', NEW c \in Conn, Close(c)
    PROVE  Right'
<1>1. /\ owed' = [owed EXCEPT ![c] = NoExch] /\ owed \in [Conn -> 0..NoExch]
      /\ UNCHANGED <<sent, kind, half, held, requests, responses, file, phase>>
      /\ open' = open \ {c}
      /\ clean' \subseteq clean /\ (c \in clean' => c \in clean /\ owed[c] \notin Exch)
  BY DEF Close, TypeOK, streamVars, pairVars, ghostVars, Spoils
<1>2. Others(c) /\ PairsAreRight'
  BY <1>1 DEF Others, PairsAreRight, Right
<1>3. Awaited'
  BY <1>1, NotExch DEF Awaited, Right
<1>4. ASSUME c \in clean'
      PROVE  InStep(c)'
  <2>1. InStep(c) /\ Due(c) = <<>> /\ Due(c)' = <<>>
    BY <1>1, <1>4, NotExch DEF Right, Aligned, Due
  <2> QED
    BY <1>1, <2>1 DEF InStep
<1>5. Aligned'
  <2>1. owed'[c] = NoExch /\ clean' \subseteq Conn /\ \A b \in Conn \ {c} : owed'[b] = owed[b]
    BY <1>1 DEF TypeOK
  <2> QED
    BY <1>1, <1>2, <1>4, <2>1, NotExch, AlignedElsewhere DEF Right
<1> QED
  BY <1>2, <1>3, <1>5 DEF Right

\* What a half of a clean key holds back has no gaps.
LEMMA NoGap ==
    ASSUME TypeOK, Aligned, NEW h \in Half, h[1] \in clean
    PROVE  /\ held[h] \in Seq(Int)
           /\ Started(held[h]) = held[h] /\ Run(held[h]) = held[h] /\ Rest(held[h]) = <<>>
<1>1. h[1] \in Conn /\ h[2] \in Dir /\ h = <<h[1], h[2]>>
  BY DEF Half
<1>2. held[<<h[1], h[2]>>] \in Seq(Exch)
  BY <1>1 DEF Aligned, InStep
<1>3. held[h] \in Seq(Exch) /\ held[h] \in Seq(Int)
  BY <1>1, <1>2 DEF TypeOK
<1>4. \A i \in 1..Len(held[h]) : held[h][i] # Gap
  BY <1>3, NotExch
<1> QED
  BY <1>3, <1>4, RunOfAll

\* Parsing all that a half of a clean key holds back moves it from one side of
\* InStep to the other.
LEMMA HeldInStep ==
    ASSUME TypeOK, Holding, Counts, Right, NEW c \in Conn, NEW d \in Dir,
           c \in clean, c \in clean', Parse(<<c, d>>, held[<<c, d>>]),
           held' = [held EXCEPT ![<<c, d>>] = <<>>],
           half'[<<c, d>>] \in {"live", "holding", "none"},
           \A e \in Dir : e # d => half'[<<c, e>>] = half[<<c, e>>],
           owed' = owed
    PROVE  /\ PairsAreRight' /\ InStep(c)'
           /\ \A b \in Conn \ {c} : requests'[b] = requests[b] /\ responses'[b] = responses[b]
<1> DEFINE h == <<c, d>>
           q == held[<<c, "req">>]
           p == held[<<c, "resp">>]
           A == IF d = "req" THEN <<>> ELSE q
           B == IF d = "req" THEN p \o Due(c) ELSE Due(c)
<1>1. /\ h \in Half /\ h[1] = c /\ h[2] = d /\ (d = "req" \/ d = "resp")
      /\ <<c, "req">> \in Half /\ <<c, "resp">> \in Half
      /\ held \in [Half -> Seq(Int)]
      /\ requests[c] \in Seq(Exch) /\ responses[c] \in Seq(Int)
  BY DEF Half, Dir, TypeOK
<1>2. InStep(c) /\ q \in Seq(Exch) /\ p \in Seq(Exch)
  BY DEF Right, Aligned, InStep, Dir
<1>3. /\ requests[c] \in Seq(Int) /\ q \in Seq(Int) /\ p \in Seq(Int) /\ Due(c) \in Seq(Int)
      /\ <<>> \in Seq(Int)
  <2>1. Exch \subseteq Int
    BY DEF Exch
  <2>2. Due(c) \in Seq(Exch)
    BY DEF Due
  <2>3. Due(c) \in Seq(Int)
    BY <2>1, <2>2, SeqMonotonic
  <2>4. requests[c] \in Seq(Int)
    BY <1>1, <2>1, SeqMonotonic
  <2> QED
    BY <1>1, <2>3, <2>4
<1>4. Readable(h, held[h])
  BY <1>1, <1>2, <1>3 DEF Readable
<1>5. A \in Seq(Int) /\ B \in Seq(Int)
  BY <1>3, ConcatProperties
<1>6. Requested(h, held[h]) \o A = Responded(h, held[h]) \o B
  <2>1. requests[c] \o q = responses[c] \o (p \o Due(c))
    BY <1>2 DEF InStep
  <2>2. CASE d = "req"
    <3>1. requests[c] \o q \in Seq(Int)
      BY <1>3, ConcatProperties
    <3>2. (requests[c] \o q) \o <<>> = requests[c] \o q
      BY <3>1, ConcatEmptySeq
    <3> QED
      BY <1>1, <2>1, <2>2, <3>2 DEF Requested, Responded
  <2>3. CASE d = "resp"
    <3>1. (responses[c] \o p) \o Due(c) = responses[c] \o (p \o Due(c))
      <4>1. responses[c] \in Seq(Int) /\ p \in Seq(Int) /\ Due(c) \in Seq(Int)
        BY <1>1, <1>3
      <4> HIDE DEF p
      <4> QED
        BY <4>1, AssociativeInt, Zenon
    <3> QED
      BY <1>1, <2>1, <2>3, <3>1 DEF Requested, Responded
  <2> QED
    BY <1>1, <2>2, <2>3
<1> HIDE DEF A, B
<1>7. /\ PairsAreRight'
      /\ requests'[c] \o A = responses'[c] \o B
      /\ requests'[c] = <<>> \/ responses'[c] = <<>>
      /\ \A b \in Conn \ {c} : requests'[b] = requests[b] /\ responses'[b] = responses[b]
  <2>1. Parse(h, held[h]) /\ PairsAreRight
    BY DEF Right
  <2> HIDE DEF h, q, p
  <2>2. StillToCome(h, held[h], A, B)
    BY <1>6 DEF StillToCome
  <2>3. h \in Half
    BY <1>1 DEF h
  <2>4. PairsLeft(h, A, B)
    BY <1>4, <1>5, <2>1, <2>2, <2>3, ParsePairs
  <2> QED
    BY <1>1, <2>4 DEF PairsLeft
<1>8. Due(c)' = Due(c)
  BY DEF Due
<1>9. held'[<<c, "req">>] = A /\ B = held'[<<c, "resp">>] \o Due(c)
  <2>1. <<>> \o Due(c) = Due(c)
    BY <1>3, ConcatEmptySeq
  <2>2. CASE d = "req"
    BY <1>1, <2>2 DEF A, B
  <2>3. CASE d = "resp"
    BY <1>1, <2>1, <2>3 DEF A, B
  <2> QED
    BY <1>1, <2>2, <2>3
<1>10. \A e \in Dir :
            half'[<<c, e>>] \in {"live", "holding", "none"} /\ held'[<<c, e>>] \in Seq(Exch)
  <2>1. <<>> \in Seq(Exch)
    OBVIOUS
  <2>2. \A e \in Dir : <<c, e>> \in Half /\ (e # d => <<c, e>> # <<c, d>>)
    BY DEF Half
  <2> QED
    BY <1>1, <1>2, <2>1, <2>2 DEF InStep
<1> QED
  BY <1>7, <1>8, <1>9, <1>10 DEF InStep

\* Parsing on a key that is not clean harms no other.
LEMMA UncleanParse ==
    ASSUME TypeOK, Counts, PairsAreRight, NEW h \in Half, NEW ms, Readable(h, ms), Parse(h, ms),
           h[1] \notin clean'
    PROVE  /\ PairsAreRight'
           /\ \A b \in Conn \ {h[1]} : requests'[b] = requests[b] /\ responses'[b] = responses[b]
<1>1. <<>> \in Seq(Int) /\ StillToCome(h, ms, <<>>, <<>>)
  BY DEF StillToCome
<1>2. PairsLeft(h, <<>>, <<>>)
  BY <1>1, ParsePairs
<1> QED
  BY <1>2 DEF PairsLeft

\* A step of the capture that touches one half.
LEMMA AlignedByHalf ==
    ASSUME TypeOK, Right, NEW h \in Half, UNCHANGED <<trafficVars, phase, clean>>,
           \A g \in Half \ {h} : half'[g] = half[g] /\ held'[g] = held[g],
           \A b \in Conn \ {h[1]} : requests'[b] = requests[b] /\ responses'[b] = responses[b],
           h[1] \in clean => InStep(h[1])',
           PairsAreRight'
    PROVE  Right'
<1>1. h[1] \in Conn /\ UNCHANGED <<open, sent, kind, owed, clean>>
  BY DEF Half, trafficVars
<1>2. Others(h[1])
  <2>1. \A b \in Conn \ {h[1]}, e \in Dir : <<b, e>> \in Half \ {h}
    BY DEF Half
  <2> QED
    BY <2>1 DEF Others
<1>3. Awaited'
  BY <1>1 DEF Awaited, Right
<1>4. Aligned'
  <2>1. clean \subseteq Conn
    BY DEF TypeOK
  <2>2. h[1] \in clean => owed[h[1]] # Before
                          /\ (owed[h[1]] \in Exch => kind[owed[h[1]]] \in {"read", "write"})
    BY DEF Right, Aligned
  <2> QED
    BY <1>1, <1>2, <2>1, <2>2, AlignedElsewhere DEF Right
<1> QED
  BY <1>3, <1>4 DEF Right

LEMMA FlushOldRight ==
    ASSUME TypeOK, Holding, Right, NEW h \in Half, FlushOld(h)
    PROVE  Right'
<1> DEFINE s == Started(held[h])
<1>1. /\ h[1] \in Conn /\ h[2] \in Dir /\ h = <<h[1], h[2]>>
      /\ half \in [Half -> {"none", "live", "holding", "body", "dead", "stuck"}]
      /\ held \in [Half -> Seq(Int)]
      /\ UNCHANGED <<trafficVars, phase, clean>>
      /\ owed' = owed /\ Counts
  <2>1. UNCHANGED <<trafficVars, phase, clean>>
    BY DEF FlushOld, ghostVars
  <2>2. h[1] \in Conn /\ h[2] \in Dir /\ h = <<h[1], h[2]>>
    BY DEF Half
  <2> QED
    BY <2>1, <2>2 DEF TypeOK, trafficVars, Counts
<1>2. h[1] \in clean => s = held[h] /\ Run(s) = held[h] /\ Rest(s) = <<>>
  BY NoGap DEF Right
<1>3. CASE /\ Parse(h, Run(s))
           /\ held' = [held EXCEPT ![h] = Rest(s)]
           /\ half' = [half EXCEPT ![h] = AfterFlush(h, Rest(s))]
  <2>1. Readable(h, Run(s))
    BY FlushReads
  <2> HIDE DEF s
  <2>2. \A g \in Half \ {h} : half'[g] = half[g] /\ held'[g] = held[g]
    BY <1>1, <1>3
  <2>3. CASE h[1] \in clean
    <3> DEFINE c == h[1]
               d == h[2]
    <3>1. /\ Parse(<<c, d>>, held[<<c, d>>])
          /\ held' = [held EXCEPT ![<<c, d>>] = <<>>]
      BY <1>1, <1>2, <1>3, <2>3
    <3>2. /\ half'[<<c, d>>] \in {"live", "holding", "none"}
          /\ \A e \in Dir : e # d => half'[<<c, e>>] = half[<<c, e>>]
      <4>1. \A e \in Dir : <<c, e>> \in Half /\ (e # d => <<c, e>> # h)
        BY <1>1 DEF Half
      <4>2. half'[h] \in {"live", "holding", "none"}
        BY <1>1, <1>3 DEF AfterFlush
      <4> QED
        BY <1>1, <2>2, <4>1, <4>2
    <3>3. c \in Conn /\ d \in Dir /\ c \in clean /\ c \in clean' /\ owed' = owed /\ Counts
      BY <1>1, <2>3
    <3> HIDE DEF c, d
    <3>4. /\ PairsAreRight' /\ InStep(c)'
          /\ \A b \in Conn \ {c} : requests'[b] = requests[b] /\ responses'[b] = responses[b]
      BY <3>1, <3>2, <3>3, HeldInStep
    <3> QED
      BY <1>1, <2>2, <3>4, AlignedByHalf DEF c
  <2>4. CASE h[1] \notin clean
    <3>1. /\ PairsAreRight'
          /\ \A b \in Conn \ {h[1]} : requests'[b] = requests[b] /\ responses'[b] = responses[b]
      BY <1>1, <1>3, <2>1, <2>4, UncleanParse DEF Right
    <3> QED
      BY <1>1, <2>2, <2>4, <3>1, AlignedByHalf
  <2> QED
    BY <2>3, <2>4
<1>4. CASE s # held[h] /\ Fails(h) /\ UNCHANGED <<requests, responses, ts, file, sampled>>
  <2>1. h[1] \notin clean
    BY <1>2, <1>4
  <2>2. PairsAreRight'
    BY <1>4 DEF Right, PairsAreRight
  <2>3. \A g \in Half \ {h} : half'[g] = half[g] /\ held'[g] = held[g]
    BY <1>4, FailsElsewhere
  <2> QED
    BY <1>1, <1>4, <2>1, <2>2, <2>3, AlignedByHalf
<1> QED
  BY <1>3, <1>4 DEF FlushOld, Fails

\* The parser of h reads EOF.
EndOfFile(h, to) ==
    /\ half[h] \in {"live", "body", "dead"}
    /\ half' = [half EXCEPT ![h] = to]
    /\ held' = [held EXCEPT ![h] = <<>>]
    /\ IF half[h] = "body" THEN Parse(h, held[h]) /\ UNCHANGED prompt ELSE UNCHANGED pairVars

LEMMA EofRight ==
    ASSUME TypeOK, Holding, Right, NEW h \in Half, NEW to \in {"none", "holding"},
           EndOfFile(h, to), UNCHANGED <<trafficVars, phase, clean>>
    PROVE  Right'
<1>1. /\ h[1] \in Conn /\ h[2] \in Dir /\ h = <<h[1], h[2]>>
      /\ half \in [Half -> {"none", "live", "holding", "body", "dead", "stuck"}]
      /\ held \in [Half -> Seq(Int)]
      /\ owed' = owed /\ clean' = clean /\ Counts
      /\ half' = [half EXCEPT ![h] = to]
      /\ held' = [held EXCEPT ![h] = <<>>]
  <2>1. /\ half' = [half EXCEPT ![h] = to]
        /\ held' = [held EXCEPT ![h] = <<>>]
    BY DEF EndOfFile
  <2>2. h[1] \in Conn /\ h[2] \in Dir /\ h = <<h[1], h[2]>>
    BY DEF Half
  <2> QED
    BY <2>1, <2>2 DEF TypeOK, trafficVars, Counts
<1>2. \A g \in Half \ {h} : half'[g] = half[g] /\ held'[g] = held[g]
  BY <1>1
<1>3. CASE half[h] = "body"
  <2>1. h[1] \notin clean
    <3>1. h[1] \in clean => half[<<h[1], h[2]>>] \in {"live", "holding", "none"}
      BY <1>1 DEF Right, Aligned, InStep
    <3> QED
      BY <1>1, <1>3, <3>1
  <2>2. Parse(h, held[h]) /\ Readable(h, held[h])
    BY <1>1, <1>3, HeldWell DEF EndOfFile, Readable
  <2>3. /\ PairsAreRight'
        /\ \A b \in Conn \ {h[1]} : requests'[b] = requests[b] /\ responses'[b] = responses[b]
    BY <1>1, <2>1, <2>2, UncleanParse DEF Right
  <2> QED
    BY <1>1, <1>2, <2>1, <2>3, AlignedByHalf
<1>4. CASE half[h] # "body"
  <2>1. UNCHANGED <<requests, responses, file>> /\ half[h] \in {"live", "dead"}
    BY <1>4 DEF EndOfFile, pairVars
  <2>2. held' = held
    BY <1>1, <2>1, HeldWell
  <2>3. PairsAreRight'
    BY <2>1 DEF Right, PairsAreRight
  <2>4. ASSUME h[1] \in clean
        PROVE  InStep(h[1])'
    <3>1. InStep(h[1]) /\ Due(h[1])' = Due(h[1])
      BY <1>1, <2>4 DEF Right, Aligned, Due
    <3>2. \A e \in Dir : <<h[1], e>> \in Half
      BY <1>1 DEF Half
    <3>3. \A e \in Dir : half'[<<h[1], e>>] \in {"live", "holding", "none"}
      BY <1>1, <3>1, <3>2 DEF InStep
    <3> QED
      BY <2>1, <2>2, <3>1, <3>3 DEF InStep
  <2> QED
    BY <1>1, <1>2, <2>1, <2>3, <2>4, AlignedByHalf
<1> QED
  BY <1>3, <1>4

LEMMA EndOfStreamRight ==
    ASSUME TypeOK, Holding, Right, NEW h \in Half, EndOfStream(h)
    PROVE  Right'
<1>1. EndOfFile(h, "none") /\ UNCHANGED <<trafficVars, phase, clean>>
  BY DEF EndOfStream, EndOfFile, ghostVars
<1> QED
  BY <1>1, EofRight

LEMMA IdleCloseRight ==
    ASSUME TypeOK, Holding, Right, NEW h \in Half, IdleClose(h)
    PROVE  Right'
<1>1. EndOfFile(h, "holding") /\ UNCHANGED <<trafficVars, phase, clean>>
  BY DEF IdleClose, EndOfFile, Spoils
<1> QED
  BY <1>1, EofRight

LEMMA FlushRacesRight ==
    ASSUME TypeOK, Holding, Right, NEW h \in Half, NEW g \in Half, FlushRaces(h, g)
    PROVE  Right'
<1> DEFINE s == Started(held[h])
<1>1. /\ g[2] = h[2] /\ Parse(g, Run(s))
      /\ held' = [held EXCEPT ![h] = Rest(s)]
      /\ half' = [half EXCEPT ![h] = AfterFlush(h, Rest(s))]
      /\ clean' = clean \ {h[1], g[1]}
      /\ UNCHANGED <<open, sent, kind, owed, phase>> /\ Counts
  BY DEF FlushRaces, Spoils, trafficVars, Counts, TypeOK
<1>2. Readable(g, Run(s))
  BY <1>1, FlushReads
<1> HIDE DEF s
<1>3. /\ PairsAreRight'
      /\ \A b \in Conn \ {g[1]} : requests'[b] = requests[b] /\ responses'[b] = responses[b]
  BY <1>1, <1>2, UncleanParse DEF Right
<1>4. Awaited'
  BY <1>1 DEF Right, Awaited
<1>5. ASSUME NEW b \in clean'
      PROVE  /\ owed'[b] # Before
             /\ owed'[b] \in Exch => kind'[owed'[b]] \in {"read", "write"}
             /\ InStep(b)'
  <2>1. b \in clean /\ b \in Conn /\ b # h[1] /\ b # g[1]
    BY <1>1 DEF TypeOK
  <2>2. \A e \in Dir : half'[<<b, e>>] = half[<<b, e>>] /\ held'[<<b, e>>] = held[<<b, e>>]
    <3>1. \A e \in Dir : <<b, e>> \in Half \ {h}
      BY <2>1 DEF Half
    <3> QED
      BY <1>1, <3>1 DEF TypeOK
  <2>3. Due(b)' = Due(b)
    BY <1>1 DEF Due
  <2>4. InStep(b)'
    BY <1>3, <2>1, <2>2, <2>3 DEF Right, Aligned, InStep, Dir
  <2> QED
    BY <1>1, <2>1, <2>4 DEF Right, Aligned
<1> QED
  BY <1>3, <1>4, <1>5 DEF Right, Aligned

LEMMA NextRight == ASSUME TypeOK, Holding, Right, [Next]_vars PROVE Right'
<1>1. TypeOK'
  BY NextTypes
<1>2. ASSUME Stop \/ Flushed \/ UNCHANGED vars
      PROVE  Right'
  <2>1. /\ UNCHANGED <<sent, kind, owed, half, held, requests, responses, file, clean>>
        /\ phase' = "running" => UNCHANGED <<open, phase>>
    BY <1>2 DEF Stop, Flushed, vars, trafficVars, streamVars, pairVars, ghostVars
  <2>2. \A c \in clean : InStep(c) => InStep(c)'
    BY <2>1 DEF InStep, Due
  <2> QED
    BY <2>1, <2>2 DEF Right, Awaited, Aligned, PairsAreRight
<1> QED
  BY <1>1, <1>2, ConnectRight, SendRight, ContinueRight, AnswerRight, CloseRight,
     FlushOldRight, IdleCloseRight, EndOfStreamRight, FlushRacesRight DEF Next

LEMMA InitRight == ASSUME Init PROVE Right
<1>1. /\ owed \in [Conn -> {Before, NoExch}] /\ file = <<>>
      /\ \A c \in Conn \ open : owed[c] = NoExch
      /\ clean = {c \in Conn : owed[c] = NoExch}
  BY DEF Init
<1>2. Awaited /\ PairsAreRight
  BY <1>1, NotExch DEF Awaited, PairsAreRight
<1>3. ASSUME NEW c \in clean
      PROVE  owed[c] # Before /\ owed[c] \notin Exch /\ InStep(c)
  <2>1. owed[c] = NoExch /\ c \in Conn
    BY <1>1
  <2>2. Due(c) = <<>> /\ requests[c] = <<>> /\ responses[c] = <<>>
    BY <2>1, NotExch DEF Due, Init
  <2>3. \A d \in Dir : half[<<c, d>>] \in {"live", "holding", "none"} /\ held[<<c, d>>] = <<>>
    BY <2>1, NotExch DEF Init, Half
  <2>4. held[<<c, "req">>] = <<>> /\ held[<<c, "resp">>] = <<>> /\ <<>> \in Seq(Exch)
    BY <2>3 DEF Dir
  <2>5. InStep(c)
    <3>1. <<>> \o <<>> = <<>> \o (<<>> \o <<>>)
      BY <2>4, ConcatEmptySeq
    <3>2. \A d \in Dir : half[<<c, d>>] \in {"live", "holding", "none"}
                          /\ held[<<c, d>>] \in Seq(Exch)
      BY <2>3, <2>4
    <3> QED
      BY <2>2, <2>4, <3>1, <3>2 DEF InStep
  <2> QED
    BY <2>1, <2>5, NotExch
<1> QED
  BY <1>2, <1>3 DEF Right, Aligned

LEMMA SpecRight == Spec => [](TypeOK /\ Holding /\ Right)
<1>1. Init => TypeOK /\ Holding /\ Right
  BY InitTypes, InitRight
<1>2. TypeOK /\ Holding /\ Right /\ [Next]_vars => (TypeOK /\ Holding /\ Right)'
  BY NextTypes, NextRight
<1> QED
  BY <1>1, <1>2, PTL DEF Spec

\* Output.Sink never writes a request with another's response (sniff.go, conn.match)
\* on a key on which nothing has gone wrong, for every number of connections and
\* exchanges, whatever went wrong on the others.
THEOREM PairedRight == Spec => []PairsAreRight
<1>1. TypeOK /\ Holding /\ Right => PairsAreRight
  BY DEF Right
<1> QED
  BY <1>1, SpecRight, PTL

----------------------------------------------------------------------------
(* LoadedInArrivalOrder.                                                   *)

\* The requests that may be held back: sent, but not parsed as they arrived.
Late == (1..sent) \ prompt

\* What a step must do to requests, stamps and file.
KeepsStamps ==
    /\ \A e \in prompt : ts'[e] = ts[e]
    /\ \A c \in Conn : requests'[c] \in Seq(1..sent')
    /\ \A i \in DOMAIN file' :
        /\ file'[i].req <= sent'
        /\ file'[i].req \in prompt \/ file'[i].req > sent => file'[i].ts = ts'[file'[i].req]

LEMMA WiderSeq == ASSUME NEW S, NEW T, S \subseteq T, NEW s \in Seq(S) PROVE s \in Seq(T)
  BY SeqMonotonic

LEMMA Filed ==
    ASSUME TypeOK, Stamped, NEW i \in DOMAIN file
    PROVE  file[i].req \in Exch /\ file[i].req <= sent
<1>1. file[i] \in Line
  BY DEF TypeOK
<1> QED
  BY <1>1 DEF Line, Stamped

LEMMA QuietStamps ==
    ASSUME TypeOK, Stamped, sent' \in Nat, sent <= sent', UNCHANGED <<requests, ts, file>>
    PROVE  KeepsStamps
<1>1. sent \in Nat /\ 1..sent \subseteq 1..sent'
  BY SniffAssumption DEF TypeOK
<1>2. \A c \in Conn : requests'[c] \in Seq(1..sent')
  BY <1>1, WiderSeq DEF Stamped
<1>3. ASSUME NEW i \in DOMAIN file
      PROVE  file[i].req <= sent' /\ ~(file[i].req > sent)
  <2>1. file[i].req \in Exch /\ file[i].req <= sent
    BY Filed
  <2> QED
    BY <1>1, <2>1 DEF Exch
<1> QED
  BY <1>2, <1>3 DEF KeepsStamps, Stamped

LEMMA ParseKeepsStamps ==
    ASSUME TypeOK, Stamped, Counts, sent <= sent',
           NEW h \in Half, NEW ms, Readable(h, ms), Parse(h, ms),
           h[2] = "req" => ms \in Seq((1..sent') \ prompt)
    PROVE  KeepsStamps
<1> DEFINE c == h[1]
           R == Requested(h, ms)
           S == Responded(h, ms)
           n == Paired(h, ms)
           pairs == [i \in 1..n |-> [req |-> R[i], resp |-> S[i], ts |-> ts'[R[i]],
                                     clean |-> c \in clean']]
<1>1. /\ c \in Conn /\ requests \in [Conn -> Seq(Exch)] /\ prompt \subseteq Exch
      /\ sent \in Nat /\ sent' \in Nat /\ 1..sent \subseteq 1..sent'
  BY SniffAssumption DEF Half, TypeOK, Counts
<1>2. /\ R \in Seq(Exch) /\ S \in Seq(Int) /\ n = Shorter(Len(R), Len(S))
      /\ requests' = [requests EXCEPT ![c] = SubSeq(R, n + 1, Len(R))]
      /\ AddsOnly(pairs)
  BY ParseParses DEF Parsing, Paired
<1>3. Stamps(h, ms)
  BY ParseStamps
<1>4. R \in Seq(1..sent')
  <2>1. requests[c] \in Seq(1..sent')
    <3>1. requests[c] \in Seq(1..sent)
      BY <1>1 DEF Stamped
    <3> QED
      BY <1>1, <3>1, WiderSeq
  <2>2. h[2] = "req" => ms \in Seq(1..sent')
    <3>1. (1..sent') \ prompt \subseteq 1..sent'
      OBVIOUS
    <3> QED
      BY <3>1, WiderSeq
  <2> QED
    BY <2>1, <2>2, ConcatProperties DEF Requested
<1>5. \A i \in DOMAIN pairs : pairs[i].req = R[i] /\ pairs[i].ts = ts'[R[i]]
  OBVIOUS
<1>6. DOMAIN pairs = 1..n
  OBVIOUS
<1>7. Len(R) \in Nat /\ n \in 0..Len(R) /\ \A i \in 1..Len(R) : R[i] \in 1..sent'
  <2>1. Len(R) \in Nat /\ Len(S) \in Nat
    BY <1>2
  <2>2. n \in 0..Len(R)
    BY <1>2, <2>1 DEF Shorter
  <2> HIDE DEF R
  <2>3. \A i \in 1..Len(R) : R[i] \in 1..sent'
    BY <1>1, <1>4
  <2> QED
    BY <2>1, <2>2, <2>3
<1> HIDE DEF R, S, n, pairs
<1>9. \A e \in prompt : ts'[e] = ts[e]
  <2>1. \A e \in prompt : ~(h[2] = "req" /\ \E i \in DOMAIN ms : ms[i] = e)
    <3>1. h[2] = "req" => \A i \in DOMAIN ms : ms[i] \notin prompt
      OBVIOUS
    <3> QED
      BY <3>1
  <2> QED
    BY <1>1, <1>3, <2>1 DEF Stamps
<1>10. \A b \in Conn : requests'[b] \in Seq(1..sent')
  <2>1. SubSeq(R, n + 1, Len(R)) \in Seq(1..sent')
    BY <1>4, <1>7, SubSeqProperties
  <2>2. \A b \in Conn : requests[b] \in Seq(1..sent')
    BY <1>1, WiderSeq DEF Stamped
  <2> QED
    BY <1>1, <1>2, <2>1, <2>2
<1>11. ASSUME NEW k \in DOMAIN file'
       PROVE  /\ file'[k].req <= sent'
              /\ file'[k].req \in prompt \/ file'[k].req > sent => file'[k].ts = ts'[file'[k].req]
  <2>1. CASE k \in DOMAIN file /\ file'[k] = file[k]
    <3>1. file[k].req \in Exch /\ file[k].req <= sent
      BY <2>1, Filed
    <3> QED
      BY <1>1, <1>9, <2>1, <3>1 DEF Stamped, Exch
  <2>2. CASE \E i \in DOMAIN pairs : file'[k] = pairs[i]
    <3>1. PICK i \in DOMAIN pairs : file'[k] = pairs[i]
      BY <2>2
    <3>2. i \in 1..Len(R) /\ file'[k].req = R[i] /\ file'[k].ts = ts'[R[i]]
      BY <1>5, <1>6, <1>7, <3>1
    <3> QED
      BY <1>7, <3>2
  <2> QED
    BY <1>2, <2>1, <2>2 DEF AddsOnly
<1> QED
  BY <1>9, <1>10, <1>11 DEF KeepsStamps

LEMMA StampedStays ==
    ASSUME TypeOK, Stamped, KeepsStamps, prompt' = prompt, sent' \in Nat, sent <= sent',
           \A c \in Conn : held'[<<c, "req">>] \in Seq(((1..sent') \ prompt) \cup {Gap})
    PROVE  Stamped'
<1>1. prompt \subseteq 1..sent' /\ prompt \subseteq Exch
  <2>1. sent \in Nat
    BY SniffAssumption DEF TypeOK
  <2> QED
    BY <2>1 DEF Stamped, TypeOK
<1> QED
  BY <1>1 DEF Stamped, KeepsStamps

LEMMA HeldLate ==
    ASSUME TypeOK, Stamped, sent' \in Nat, sent <= sent', NEW c \in Conn
    PROVE  held[<<c, "req">>] \in Seq(((1..sent') \ prompt) \cup {Gap})
<1>1. ((1..sent) \ prompt) \cup {Gap} \subseteq ((1..sent') \ prompt) \cup {Gap}
  BY SniffAssumption DEF TypeOK
<1>2. held[<<c, "req">>] \in Seq(((1..sent) \ prompt) \cup {Gap})
  BY DEF Stamped
<1> QED
  BY <1>1, <1>2, WiderSeq

\* A step that changes what one half holds back.
LEMMA HalfHoldsLate ==
    ASSUME TypeOK, Stamped, sent' \in Nat, sent <= sent', NEW h \in Half, NEW v,
           held' = [held EXCEPT ![h] = v],
           h[2] = "req" => v \in Seq(((1..sent') \ prompt) \cup {Gap})
    PROVE  \A c \in Conn : held'[<<c, "req">>] \in Seq(((1..sent') \ prompt) \cup {Gap})
<1> TAKE c \in Conn
<1>1. <<c, "req">> \in Half /\ held \in [Half -> Seq(Int)]
  BY DEF Half, Dir, TypeOK
<1>2. CASE h = <<c, "req">>
  BY <1>1, <1>2
<1>3. CASE h # <<c, "req">>
  BY <1>1, <1>3, HeldLate
<1> QED
  BY <1>2, <1>3

LEMMA PacketStamped ==
    ASSUME TypeOK, Holding, Stamped, Counts, NEW h \in Half, NEW m, NEW expected,
           Sendable(h, m), Packet(h, m, expected), sent <= sent',
           h[2] = "req" => m = sent + 1 /\ sent' = sent + 1
    PROVE  Stamped'
<1>1. /\ sent \in Nat /\ prompt \subseteq 1..sent /\ held \in [Half -> Seq(Int)]
      /\ prompt \subseteq Exch /\ sent' \in Nat
      /\ h[2] \in {"req", "resp"}
  BY SniffAssumption DEF Stamped, TypeOK, Half, Dir, Counts
<1>2. h[2] = "req" => m \in Exch /\ m \in (1..sent') \ prompt
  BY <1>1 DEF Sendable
<1>3. \A c \in Conn : held[<<c, "req">>] \in Seq(((1..sent') \ prompt) \cup {Gap})
  BY <1>1, HeldLate
<1>4. UNCHANGED pairVars => KeepsStamps /\ prompt' = prompt
  BY <1>1, QuietStamps DEF pairVars
<1>5. h[2] = "req" => held[h] \in Seq(((1..sent') \ prompt) \cup {Gap})
  <2>1. h[2] = "req" => h = <<h[1], "req">> /\ h[1] \in Conn
    BY DEF Half
  <2> QED
    BY <1>3, <2>1
<1>6. CASE /\ held' = held /\ h[2] = "req" /\ Readable(h, <<m>>) /\ Parse(h, <<m>>)
           /\ prompt' = prompt \cup {m}
  <2>1. KeepsStamps
    <3>1. <<m>> \in Seq((1..sent') \ prompt)
      BY <1>2, <1>6
    <3> QED
      BY <1>6, <3>1, ParseKeepsStamps
  <2>3. m = sent + 1 /\ sent' = sent + 1 /\ prompt' \subseteq 1..sent'
    <3>1. m = sent + 1 /\ sent' = sent + 1
      BY <1>6
    <3>2. \A e \in prompt \cup {m} : e \in 1..(sent + 1)
      BY <1>1, <3>1
    <3> QED
      BY <1>6, <3>1, <3>2
  <2>5. ASSUME NEW e \in prompt'
        PROVE  ts'[e] = e
    <3>1. CASE e = m
      <4>1. Stamps(h, <<m>>) /\ DOMAIN <<m>> = {1} /\ <<m>>[1] = m
        BY <1>6, ParseStamps
      <4> QED
        BY <1>2, <1>6, <2>3, <3>1, <4>1 DEF Stamps
    <3>2. CASE e \in prompt
      BY <2>1, <3>2 DEF KeepsStamps, Stamped
    <3> QED
      BY <1>6, <3>1, <3>2
  <2>6. \A c \in Conn : held'[<<c, "req">>] \in Seq(((1..sent') \ prompt') \cup {Gap})
    <3>1. (1..sent) \ prompt \subseteq (1..sent') \ prompt'
      BY <1>1, <1>6, <2>3
    <3>2. ((1..sent) \ prompt) \cup {Gap} \subseteq ((1..sent') \ prompt') \cup {Gap}
      BY <3>1
    <3>3. \A c \in Conn : held[<<c, "req">>] \in Seq(((1..sent) \ prompt) \cup {Gap})
      BY DEF Stamped
    <3> QED
      <4> TAKE c \in Conn
      <4>1. held[<<c, "req">>] \in Seq(((1..sent) \ prompt) \cup {Gap})
        BY <3>3
      <4>2. held[<<c, "req">>] \in Seq(((1..sent') \ prompt') \cup {Gap})
        BY <3>2, <4>1, WiderSeq
      <4> QED
        BY <1>6, <4>2
  <2>7. \A i \in DOMAIN file' :
            file'[i].req <= sent' /\ (file'[i].req \in prompt' => file'[i].ts = ts'[file'[i].req])
    BY <1>1, <1>6, <2>1, <2>3 DEF KeepsStamps
  <2> QED
    BY <2>1, <2>3, <2>5, <2>6, <2>7 DEF KeepsStamps, Stamped
<1>7. CASE held' = held /\ h[2] = "resp" /\ prompt' = prompt
           /\ Readable(h, <<m>>) /\ Parse(h, <<m>>)
  <2>1. KeepsStamps
    BY <1>7, ParseKeepsStamps
  <2> QED
    BY <1>3, <1>7, <2>1, <1>1, StampedStays
<1>8. CASE held' = held /\ UNCHANGED pairVars
  BY <1>3, <1>4, <1>8, <1>1, StampedStays
<1>9. CASE held' = [held EXCEPT ![h] = <<m>>] /\ h[2] = "resp" /\ UNCHANGED pairVars
  <2>1. \A c \in Conn : held'[<<c, "req">>] \in Seq(((1..sent') \ prompt) \cup {Gap})
    BY <1>1, <1>9, HalfHoldsLate
  <2> QED
    BY <1>4, <1>9, <2>1, <1>1, StampedStays
<1>10. CASE held' = [held EXCEPT ![h] = Append(@, m)] /\ UNCHANGED pairVars
  <2>1. h[2] = "req" => Append(held[h], m) \in Seq(((1..sent') \ prompt) \cup {Gap})
    BY <1>2, <1>5, AppendProperties
  <2>2. held' = [held EXCEPT ![h] = Append(held[h], m)]
    BY <1>10
  <2>3. \A c \in Conn : held'[<<c, "req">>] \in Seq(((1..sent') \ prompt) \cup {Gap})
    BY <1>1, <2>1, <2>2, HalfHoldsLate
  <2> QED
    BY <1>4, <1>10, <2>3, <1>1, StampedStays
<1>11. CASE /\ held' = [held EXCEPT ![h] = <<>>] /\ h[2] = "resp" /\ prompt' = prompt
            /\ Readable(h, held[h]) /\ Parse(h, held[h])
  <2>1. KeepsStamps
    BY <1>11, ParseKeepsStamps
  <2>2. \A c \in Conn : held'[<<c, "req">>] \in Seq(((1..sent') \ prompt) \cup {Gap})
    BY <1>1, <1>11, HalfHoldsLate
  <2> QED
    BY <1>11, <2>1, <2>2, <1>1, StampedStays
<1>12. CASE IsLost(h)
  <2> DEFINE v == IF half[h] \in {"live", "holding"} THEN WithGap(held[h]) ELSE held[h]
  <2>1. held' = [held EXCEPT ![h] = v] /\ UNCHANGED pairVars
    BY <1>12 DEF IsLost
  <2>2. h[2] = "req" => v \in Seq(((1..sent') \ prompt) \cup {Gap})
    <3>1. h[2] = "req" => WithGap(held[h]) \in Seq((((1..sent') \ prompt) \cup {Gap}) \cup {Gap})
      BY <1>5, WithGapTypes
    <3>2. (((1..sent') \ prompt) \cup {Gap}) \cup {Gap} = ((1..sent') \ prompt) \cup {Gap}
      OBVIOUS
    <3> QED
      BY <1>5, <3>1, <3>2
  <2> HIDE DEF v
  <2>3. \A c \in Conn : held'[<<c, "req">>] \in Seq(((1..sent') \ prompt) \cup {Gap})
    BY <1>1, <2>1, <2>2, HalfHoldsLate
  <2> QED
    BY <1>4, <2>1, <2>3, <1>1, StampedStays
<1>14. CASE IsCut(h, m)
  <2>1. PICK v : Breaks(h, v) /\ Longer(v, held[h], m) /\ UNCHANGED pairVars
    BY <1>14, CutCases DEF Longer
  <2>2. held' = [held EXCEPT ![h] = WithGap(v)]
    BY <2>1 DEF Breaks
  <2>3. h[2] = "req" => WithGap(v) \in Seq(((1..sent') \ prompt) \cup {Gap})
    <3> DEFINE L == ((1..sent') \ prompt) \cup {Gap}
    <3>1. h[2] = "req" => m \in L /\ held[h] \in Seq(L)
      BY <1>2, <1>5
    <3>2. L \cup {Gap} = L
      OBVIOUS
    <3> HIDE DEF L
    <3>3. h[2] = "req" => v \in Seq(L)
      BY <2>1, <3>1, LongerTypes
    <3> QED
      BY <3>2, <3>3, WithGapTypes DEF L
  <2>4. \A c \in Conn : held'[<<c, "req">>] \in Seq(((1..sent') \ prompt) \cup {Gap})
    <3> HIDE DEF WithGap
    <3> QED
      BY <1>1, <2>2, <2>3, HalfHoldsLate
  <2> QED
    BY <1>1, <1>4, <2>1, <2>4, StampedStays
<1>13. CASE Arrives(h, m)
  <2>1. CASE /\ half[h] = "live" /\ UNCHANGED <<half, held>>
             /\ Readable(h, <<m>>) /\ Parse(h, <<m>>)
             /\ prompt' = IF h[2] = "req" THEN prompt \cup {m} ELSE prompt
    BY <1>1, <1>6, <1>7, <2>1
  <2>2. CASE half[h] \in {"body", "dead", "none"} /\ UNCHANGED <<half, held, pairVars>>
    BY <1>8, <2>2
  <2> QED
    BY <1>9, <1>10, <1>11, <1>13, <2>1, <2>2, ArrivesCases
<1> QED
  BY <1>12, <1>13, <1>14 DEF Packet

\* A step that sends nothing, stamps nothing and holds nothing else back.
LEMMA QuietStamped ==
    ASSUME TypeOK, Stamped, UNCHANGED <<sent, held, requests, ts, file, prompt>>
    PROVE  Stamped'
  BY DEF Stamped

\* What a flush delivers of the requests, and what stays behind, is late.
LEMMA FlushLate ==
    ASSUME TypeOK, Stamped, NEW h \in Half, h[2] = "req"
    PROVE  /\ Run(Started(held[h])) \in Seq((1..sent) \ prompt)
           /\ Rest(Started(held[h])) \in Seq(((1..sent) \ prompt) \cup {Gap})
<1> DEFINE s == Started(held[h])
           L == (1..sent) \ prompt
<1>1. sent \in Nat /\ Gap \in Int /\ L \in SUBSET Int /\ L \cup {Gap} \in SUBSET Int
  BY SniffAssumption DEF TypeOK, Gap
<1>2. h = <<h[1], "req">> /\ h[1] \in Conn
  BY DEF Half
<1>3. held[h] \in Seq(L \cup {Gap})
  <2>1. held[<<h[1], "req">>] \in Seq(L \cup {Gap})
    BY <1>2 DEF Stamped
  <2> QED
    BY <1>2, <2>1
<1>4. s \in Seq(L \cup {Gap}) /\ s \in Seq(Int)
  <2>1. s \in Seq(L \cup {Gap})
    BY <1>3, StartedTypes
  <2>2. s \in Seq(Int)
    BY StartedTypes DEF TypeOK
  <2> QED
    BY <2>1, <2>2
<1> HIDE DEF s, L
<1>5. Run(s) \in Seq(L) /\ Rest(s) \in Seq(L \cup {Gap})
  BY <1>1, <1>4, RunTypes
<1> QED
  BY <1>5 DEF s, L

\* A step that parses ms on g and leaves v held back on h.
LEMMA FlushStamped ==
    ASSUME TypeOK, Stamped, NEW h \in Half, NEW g \in Half, g[2] = h[2],
           NEW ms, Readable(g, ms), Parse(g, ms), NEW v, held' = [held EXCEPT ![h] = v],
           h[2] = "req" => /\ ms \in Seq((1..sent) \ prompt)
                           /\ v \in Seq(((1..sent) \ prompt) \cup {Gap}),
           UNCHANGED <<sent, prompt>>
    PROVE  Stamped'
<1>1. sent' \in Nat /\ sent <= sent' /\ sent' = sent /\ Counts
  BY SniffAssumption DEF TypeOK, Counts
<1>2. KeepsStamps
  BY <1>1, ParseKeepsStamps
<1>3. \A c \in Conn : held'[<<c, "req">>] \in Seq(((1..sent') \ prompt) \cup {Gap})
  BY <1>1, HalfHoldsLate
<1> QED
  BY <1>1, <1>2, <1>3, StampedStays

\* A step that only empties a half.
LEMMA EmptiedStamped ==
    ASSUME TypeOK, Stamped, NEW h \in Half, held' = [held EXCEPT ![h] = <<>>],
           UNCHANGED <<sent, requests, ts, file, prompt>>
    PROVE  Stamped'
<1>1. sent' \in Nat /\ sent <= sent' /\ <<>> \in Seq(((1..sent') \ prompt) \cup {Gap})
  BY SniffAssumption DEF TypeOK
<1>2. KeepsStamps
  BY <1>1, QuietStamps
<1>3. \A c \in Conn : held'[<<c, "req">>] \in Seq(((1..sent') \ prompt) \cup {Gap})
  BY <1>1, HalfHoldsLate
<1> QED
  BY <1>1, <1>2, <1>3, StampedStays

LEMMA FlushOldStamped ==
    ASSUME TypeOK, Holding, Stamped, NEW h \in Half, FlushOld(h)
    PROVE  Stamped'
<1> DEFINE s == Started(held[h])
<1>1. UNCHANGED <<sent, prompt>> /\ Readable(h, Run(s))
  BY FlushReads DEF FlushOld, trafficVars
<1>2. h[2] = "req" => /\ Run(s) \in Seq((1..sent) \ prompt)
                      /\ Rest(s) \in Seq(((1..sent) \ prompt) \cup {Gap})
  BY FlushLate
<1>3. CASE Parse(h, Run(s)) /\ held' = [held EXCEPT ![h] = Rest(s)]
  <2> HIDE DEF s
  <2> QED
    BY <1>1, <1>2, <1>3, FlushStamped
<1>4. CASE /\ held' = [held EXCEPT ![h] = <<>>]
           /\ UNCHANGED <<requests, responses, ts, file, sampled>>
  BY <1>1, <1>4, EmptiedStamped
<1> QED
  BY <1>3, <1>4 DEF FlushOld

LEMMA EofStamped ==
    ASSUME TypeOK, Holding, Stamped, NEW h \in Half, NEW to, EndOfFile(h, to),
           UNCHANGED <<sent, prompt>>
    PROVE  Stamped'
<1>1. held' = [held EXCEPT ![h] = <<>>]
  BY DEF EndOfFile
<1>2. CASE half[h] = "body"
  <2>1. Readable(h, held[h]) /\ Parse(h, held[h]) /\ h[2] # "req"
    BY <1>2, HeldWell DEF EndOfFile, TypeOK, Readable
  <2> QED
    BY <1>1, <2>1, FlushStamped
<1>3. CASE half[h] # "body"
  BY <1>1, <1>3, EmptiedStamped DEF EndOfFile, pairVars
<1> QED
  BY <1>2, <1>3

LEMMA EndOfStreamStamped ==
    ASSUME TypeOK, Holding, Stamped, NEW h \in Half, EndOfStream(h)
    PROVE  Stamped'
  BY EofStamped DEF EndOfStream, EndOfFile, trafficVars, pairVars

LEMMA IdleCloseStamped ==
    ASSUME TypeOK, Holding, Stamped, NEW h \in Half, IdleClose(h)
    PROVE  Stamped'
  BY EofStamped DEF IdleClose, EndOfFile, trafficVars, pairVars

LEMMA FlushRacesStamped ==
    ASSUME TypeOK, Holding, Stamped, NEW h \in Half, NEW g \in Half, FlushRaces(h, g)
    PROVE  Stamped'
<1> DEFINE s == Started(held[h])
<1>1. /\ UNCHANGED <<sent, prompt>> /\ g[2] = h[2]
      /\ Parse(g, Run(s)) /\ held' = [held EXCEPT ![h] = Rest(s)]
  BY DEF FlushRaces, trafficVars
<1>2. Readable(g, Run(s))
  BY <1>1, FlushReads
<1>3. h[2] = "req" => /\ Run(s) \in Seq((1..sent) \ prompt)
                      /\ Rest(s) \in Seq(((1..sent) \ prompt) \cup {Gap})
  BY FlushLate
<1> HIDE DEF s
<1> QED
  BY <1>1, <1>2, <1>3, FlushStamped

LEMMA SendStamped ==
    ASSUME TypeOK, Holding, Stamped, NEW c \in Conn, Send(c)
    PROVE  Stamped'
<1>1. PICK k \in Kinds : Packet(<<c, "req">>, sent + 1, k \in {"read", "write"})
  BY DEF Send
<1>2. /\ sent' = sent + 1 /\ Counts /\ sent <= sent'
      /\ <<c, "req">> \in Half /\ Sendable(<<c, "req">>, sent + 1)
  BY SniffAssumption DEF TypeOK, Send, Exch, Half, Dir, Sendable, Counts
<1> DEFINE expected == k \in {"read", "write"}
           h == <<c, "req">>
<1>3. Packet(h, sent + 1, expected) /\ h \in Half /\ Sendable(h, sent + 1)
  BY <1>1, <1>2
<1> HIDE DEF expected, h
<1> QED
  BY <1>2, <1>3, PacketStamped

LEMMA AnswersStamped ==
    ASSUME TypeOK, Holding, Stamped, NEW c \in Conn, Continue(c) \/ Answer(c)
    PROVE  Stamped'
<1>1. sent' = sent /\ Counts /\ sent <= sent'
  <2>1. sent' = sent
    BY DEF Continue, Answer
  <2>2. Counts /\ sent \in Nat
    BY <2>1, SniffAssumption DEF TypeOK, Counts
  <2> QED
    BY <2>1, <2>2
<1>2. PICK m \in Int : Packet(<<c, "resp">>, m, TRUE)
  <2>1. owed[c] \in Int /\ -owed[c] \in Int
    BY SniffAssumption DEF TypeOK, NoExch
  <2> QED
    BY <2>1 DEF Continue, Answer
<1> DEFINE h == <<c, "resp">>
<1>3. h \in Half /\ h[2] # "req" /\ Sendable(h, m) /\ Packet(h, m, TRUE)
  BY <1>2 DEF Half, Dir, Sendable
<1> HIDE DEF h
<1> QED
  BY <1>1, <1>3, PacketStamped

LEMMA NextStamped == ASSUME TypeOK, Holding, Stamped, [Next]_vars PROVE Stamped'
<1>1. ASSUME Stop \/ Flushed \/ UNCHANGED vars \/ \E c \in Conn : Connect(c) \/ Close(c)
      PROVE  Stamped'
  <2>1. UNCHANGED <<sent, held, requests, ts, file, prompt>>
    BY <1>1 DEF Stop, Flushed, Connect, Close, vars, trafficVars, streamVars, pairVars
  <2> QED
    BY <2>1, QuietStamped
<1> QED
  BY <1>1, SendStamped, AnswersStamped, FlushOldStamped, IdleCloseStamped, EndOfStreamStamped,
     FlushRacesStamped DEF Next

LEMMA InitStamped == ASSUME Init PROVE Stamped
<1>1. \A c \in Conn : <<c, "req">> \in Half
  BY DEF Half, Dir
<1>2. /\ <<Gap>> \in Seq(((1..sent) \ prompt) \cup {Gap})
      /\ <<>> \in Seq(((1..sent) \ prompt) \cup {Gap}) /\ <<>> \in Seq(1..sent)
  OBVIOUS
<1>3. \A c \in Conn : held[<<c, "req">>] \in {<<>>, <<Gap>>}
  BY <1>1 DEF Init
<1>4. \A c \in Conn : held[<<c, "req">>] \in Seq(((1..sent) \ prompt) \cup {Gap})
  BY <1>2, <1>3
<1>5. \A c \in Conn : requests[c] \in Seq(1..sent)
  BY <1>2 DEF Init
<1>6. prompt = {} /\ DOMAIN file = {}
  BY DEF Init
<1> QED
  BY <1>4, <1>5, <1>6 DEF Stamped

\* An earlier time has the smaller text, unless its digits begin those of the later
\* one: where the two first differ, the earlier one has a digit -- or has ended.
LEMMA TextFollowsTime ==
    ASSUME NEW a \in Time, NEW b \in Time, Earlier(a, b), ~CutsShort(a, b)
    PROVE  TextBefore(a, b)
<1>1. /\ a[1] \in Nat /\ b[1] \in Nat /\ Places \in Nat
      /\ \A i \in 1..Places : a[2][i] \in 0..9 /\ b[2][i] \in 0..9
  BY SniffAssumption DEF Time
<1>2. CASE a[1] < b[1]
  BY <1>2 DEF TextBefore
<1>3. CASE a[1] = b[1]
  <2>1. PICK j \in 1..Places :
            a[2][j] < b[2][j] /\ \A k \in 1..(j - 1) : a[2][k] = b[2][k]
    BY <1>1, <1>3 DEF Earlier
  <2>2. /\ Char(b[2], j) = b[2][j]
        /\ \A k \in 1..(j - 1) : Char(b[2], k) = b[2][k]
    <3>1. b[2][j] # 0
      BY <1>1, <2>1
    <3>2. \A k \in 1..j : j \in k..Places
      BY <1>1
    <3> QED
      BY <3>1, <3>2 DEF Char
  <2>3. CASE \E k \in j..Places : a[2][k] # 0
    <3>1. PICK k \in j..Places : a[2][k] # 0
      BY <2>3
    <3>2. \A i \in 1..j : k \in i..Places
      BY <1>1
    <3>3. \A i \in 1..j : Char(a[2], i) = a[2][i]
      BY <3>1, <3>2 DEF Char
    <3>4. /\ Char(a[2], j) < Char(b[2], j)
          /\ \A i \in 1..(j - 1) : Char(a[2], i) = Char(b[2], i)
      BY <1>1, <2>1, <2>2, <3>3
    <3> QED
      BY <1>3, <3>4 DEF TextBefore
  <2>4. CASE \A k \in j..Places : a[2][k] = 0
    <3>1. ASSUME NEW i \in 1..Places
          PROVE  Char(a[2], i) \in {Char(b[2], i), Z}
      <4>1. CASE i \in j..Places
        <5>1. \A k \in i..Places : a[2][k] = 0
          BY <1>1, <2>4, <4>1
        <5> QED
          BY <5>1 DEF Char
      <4>2. CASE i \notin j..Places
        <5>1. i \in 1..(j - 1)
          BY <1>1, <4>2
        <5>2. Char(b[2], i) = a[2][i]
          BY <2>1, <2>2, <5>1
        <5> QED
          BY <5>2 DEF Char
      <4> QED
        BY <4>1, <4>2
    <3> QED
      BY <1>3, <3>1 DEF CutsShort
  <2> QED
    BY <2>3, <2>4
<1> QED
  BY <1>1, <1>2, <1>3 DEF Earlier

\* Sorted by the text of ts, as golden.Read and corpus.Load sort them, the lines of
\* requests parsed as they arrived are in the order in which the requests were sent, for
\* every number of connections and exchanges, every clock and whatever goes wrong, but
\* for times of one second the digits of whose fractions begin alike (pendingRequest.ts).
THEOREM ArrivalOrderKept == Spec => []LoadedInArrivalOrder
<1>1. Init => TypeOK /\ Holding /\ Stamped
  BY InitTypes, InitStamped
<1>2. TypeOK /\ Holding /\ Stamped /\ [Next]_vars => (TypeOK /\ Holding /\ Stamped)'
  BY NextTypes, NextStamped
<1>3. ASSUME TypeOK, Stamped
      PROVE  LoadedInArrivalOrder
  <2> SUFFICES ASSUME NEW i \in DOMAIN file, NEW j \in DOMAIN file,
                      {file[i].req, file[j].req} \subseteq prompt,
                      file[i].req < file[j].req,
                      ~CutsShort(Clock[file[i].ts], Clock[file[j].ts])
               PROVE  TextBefore(Clock[file[i].ts], Clock[file[j].ts])
    BY DEF LoadedInArrivalOrder, LoadedBefore
  <2>1. file[i].ts = file[i].req /\ file[j].ts = file[j].req
    BY <1>3 DEF Stamped
  <2>2. file[i].req \in 0..N /\ file[j].req \in 0..N
    <3>1. prompt \subseteq Exch
      BY <1>3 DEF TypeOK
    <3>2. Exch \subseteq 0..N
      BY SniffAssumption DEF Exch
    <3> QED
      BY <3>1, <3>2
  <2>3. /\ Clock[file[i].ts] \in Time /\ Clock[file[j].ts] \in Time
        /\ Earlier(Clock[file[i].ts], Clock[file[j].ts])
    BY <2>1, <2>2, SniffAssumption
  <2> QED
    BY <2>3, TextFollowsTime
<1> QED
  BY <1>1, <1>2, <1>3, PTL DEF Spec

----------------------------------------------------------------------------
(* CompleteExchangesAreKept.  A complete exchange is in the file or sampled  *)
(* out, or its two packets are at the same place of the requests and of the  *)
(* responses of its key, those held back in front of a gap included: what is *)
(* delivered, lost or appended afterwards comes behind.                      *)

\* t begins with s.
Begins(s, t) == \A i \in DOMAIN s : i \in DOMAIN t /\ t[i] = s[i]

LEMMA BeginsConcat ==
    ASSUME NEW T, NEW r \in Seq(T), NEW s \in Seq(T)
    PROVE  Begins(r, r \o s)
<1>1. /\ DOMAIN r = 1..Len(r) /\ DOMAIN (r \o s) = 1..(Len(r) + Len(s))
      /\ \A i \in 1..Len(r) : (r \o s)[i] = r[i]
      /\ Len(r) \in Nat /\ Len(s) \in Nat
  OBVIOUS
<1> QED
  BY <1>1 DEF Begins

LEMMA ConcatBegins ==
    ASSUME NEW T, NEW r \in Seq(T), NEW s \in Seq(T), NEW t \in Seq(T), Begins(s, t)
    PROVE  Begins(r \o s, r \o t)
<1>1. /\ DOMAIN (r \o s) = 1..(Len(r) + Len(s)) /\ DOMAIN (r \o t) = 1..(Len(r) + Len(t))
      /\ DOMAIN s = 1..Len(s) /\ DOMAIN t = 1..Len(t)
      /\ Len(r) \in Nat /\ Len(s) \in Nat /\ Len(t) \in Nat
      /\ \A i \in 1..(Len(r) + Len(s)) :
            (r \o s)[i] = IF i <= Len(r) THEN r[i] ELSE s[i - Len(r)]
      /\ \A i \in 1..(Len(r) + Len(t)) :
            (r \o t)[i] = IF i <= Len(r) THEN r[i] ELSE t[i - Len(r)]
  OBVIOUS
<1> SUFFICES ASSUME NEW i \in 1..(Len(r) + Len(s))
             PROVE  i \in 1..(Len(r) + Len(t)) /\ (r \o t)[i] = (r \o s)[i]
  BY <1>1 DEF Begins
<1>2. CASE i <= Len(r)
  <2>1. i \in 1..(Len(r) + Len(t))
    BY <1>1, <1>2
  <2> QED
    BY <1>1, <1>2, <2>1
<1>3. CASE i > Len(r)
  <2>1. i - Len(r) \in 1..Len(s) /\ i = Len(r) + (i - Len(r))
    BY <1>1, <1>3
  <2>2. i - Len(r) \in 1..Len(t) /\ t[i - Len(r)] = s[i - Len(r)]
    BY <1>1, <2>1 DEF Begins
  <2>3. i \in 1..(Len(r) + Len(t))
    BY <1>1, <2>1, <2>2
  <2> QED
    BY <1>1, <1>3, <2>2, <2>3
<1> QED
  BY <1>1, <1>2, <1>3

LEMMA BeginsMore == \A r, s, t : Begins(r, s) /\ Begins(s, t) => Begins(r, t)
  BY DEF Begins

LEMMA BeginsItself == \A s : Begins(s, s) /\ Begins(<<>>, s)
  BY DEF Begins

\* e is at the same place of R and of S.
Met(R, S, e) == \E k \in DOMAIN R \cap DOMAIN S : R[k] = e /\ S[k] = e

LEMMA MetBegins ==
    ASSUME NEW R, NEW S, NEW U, NEW V, NEW e, Met(R, S, e), Begins(R, U), Begins(S, V)
    PROVE  Met(U, V, e)
<1>1. PICK k \in DOMAIN R \cap DOMAIN S : R[k] = e /\ S[k] = e
  BY DEF Met
<1>2. k \in DOMAIN U \cap DOMAIN V /\ U[k] = e /\ V[k] = e
  BY <1>1 DEF Begins
<1> QED
  BY <1>2 DEF Met

\* A run is the beginning of what is held, and only grows when more is.
LEMMA RunBegins ==
    ASSUME NEW s \in Seq(Int)
    PROVE  /\ Run(s) \in Seq(Int)
           /\ Begins(Run(s), s)
           /\ s = <<>> => Run(s) = <<>>
           /\ Started(s) # s => Run(s) = <<>>
<1>1. /\ Len(s) \in Nat /\ RunLength(s) \in 0..Len(s)
      /\ \A i \in 1..RunLength(s) : s[i] # Gap
  BY RunEnds
<1>2. /\ Run(s) \in Seq(Int) /\ Len(Run(s)) = RunLength(s)
      /\ \A i \in 1..RunLength(s) : Run(s)[i] = s[i]
  BY <1>1 DEF Run
<1>3. DOMAIN Run(s) = 1..RunLength(s) /\ DOMAIN s = 1..Len(s)
  BY <1>2
<1>4. Begins(Run(s), s)
  BY <1>1, <1>2, <1>3 DEF Begins
<1>5. s = <<>> => Run(s) = <<>>
  BY <1>1, <1>2
<1>6. ASSUME Started(s) # s
      PROVE  Run(s) = <<>>
  <2>1. s[1] = Gap
    BY <1>6 DEF Started
  <2>2. ~(1 \in 1..RunLength(s))
    BY <1>1, <2>1
  <2>3. RunLength(s) = 0
    BY <1>1, <2>2
  <2> QED
    BY <1>2, <2>3
<1> QED
  BY <1>2, <1>4, <1>5, <1>6

LEMMA RunGrows ==
    ASSUME NEW s \in Seq(Int), NEW m \in Int
    PROVE  Append(s, m) \in Seq(Int) /\ Begins(Run(s), Run(Append(s, m)))
<1> DEFINE t == Append(s, m)
<1>1. /\ t \in Seq(Int) /\ Len(t) = Len(s) + 1 /\ Len(s) \in Nat
      /\ \A i \in 1..Len(s) : t[i] = s[i]
  OBVIOUS
<1> HIDE DEF t
<1>2. /\ RunLength(s) \in 0..Len(s) /\ RunLength(t) \in 0..Len(t)
      /\ \A i \in 1..RunLength(s) : s[i] # Gap
      /\ RunLength(t) < Len(t) => t[RunLength(t) + 1] = Gap
  BY <1>1, RunEnds
<1>3. RunLength(s) <= RunLength(t)
  <2> DEFINE m1 == RunLength(s)
             n1 == RunLength(t)
             l1 == Len(s)
  <2>1. m1 \in 0..l1 /\ n1 \in 0..l1 + 1 /\ l1 \in Nat /\ Len(t) = l1 + 1
    BY <1>1, <1>2
  <2>2. \A i \in 1..m1 : s[i] # Gap
    BY <1>2
  <2>3. n1 < Len(t) => t[n1 + 1] = Gap
    BY <1>2
  <2>4. \A i \in 1..l1 : t[i] = s[i]
    BY <1>1
  <2> HIDE DEF m1, n1, l1
  <2> SUFFICES ASSUME n1 < m1 PROVE FALSE
    BY <2>1 DEF m1, n1
  <2>5. n1 + 1 \in 1..m1 /\ n1 + 1 \in 1..l1 /\ n1 < Len(t)
    BY <2>1
  <2>6. s[n1 + 1] # Gap /\ t[n1 + 1] = s[n1 + 1]
    BY <2>2, <2>4, <2>5
  <2> QED
    BY <2>3, <2>5, <2>6
<1>4. /\ DOMAIN Run(s) = 1..RunLength(s) /\ DOMAIN Run(t) = 1..RunLength(t)
      /\ \A i \in 1..RunLength(s) : Run(s)[i] = s[i]
      /\ \A i \in 1..RunLength(t) : Run(t)[i] = t[i]
  BY <1>1, <1>2 DEF Run
<1>5. Begins(Run(s), Run(t))
  <2> SUFFICES ASSUME NEW i \in 1..RunLength(s)
               PROVE  i \in 1..RunLength(t) /\ Run(t)[i] = Run(s)[i]
    BY <1>4 DEF Begins
  <2>1. i \in 1..RunLength(t) /\ i \in 1..Len(s)
    <3> DEFINE m1 == RunLength(s)
               n1 == RunLength(t)
               l1 == Len(s)
    <3>1. m1 \in 0..l1 /\ n1 \in Nat /\ l1 \in Nat /\ m1 <= n1 /\ i \in 1..m1
      BY <1>1, <1>2, <1>3
    <3> HIDE DEF m1, n1, l1
    <3>2. i \in 1..n1 /\ i \in 1..l1
      BY <3>1
    <3> QED
      BY <3>2 DEF n1, l1
  <2>2. Run(s)[i] = s[i] /\ Run(t)[i] = t[i] /\ t[i] = s[i]
    BY <1>1, <1>4, <2>1, Zenon
  <2> QED
    BY <2>1, <2>2, Zenon
<1> QED
  BY <1>1, <1>5 DEF t

\* The lines are added behind the file's; whatever is not written is sampled out.
FileGrows == Begins(file, file') /\ sampled \subseteq sampled'

Kept(e) ==
    \/ \E i \in DOMAIN file : file[i].req = e /\ file[i].resp = e
    \/ e \in sampled /\ IsRead(e)

Delivers(pairs) ==
    \A i \in DOMAIN pairs :
        \/ \E k \in DOMAIN file' : file'[k] = pairs[i]
        \/ pairs[i].req \in sampled' /\ IsReadKind(kind'[pairs[i].req])

LEMMA ConcatAt ==
    ASSUME NEW T, NEW r \in Seq(T), NEW s \in Seq(T)
    PROVE  /\ Len(r) \in Nat /\ Len(s) \in Nat
           /\ DOMAIN (r \o s) = 1..(Len(r) + Len(s))
           /\ \A i \in 1..Len(r) : (r \o s)[i] = r[i]
           /\ \A i \in 1..Len(s) : (r \o s)[Len(r) + i] = s[i]
  OBVIOUS

LEMMA SinkDelivers ==
    ASSUME TypeOK, NEW pairs \in Seq(Line), Sink(pairs)
    PROVE  FileGrows /\ Delivers(pairs)
<1>1. PICK s \in Selection(Len(pairs)) :
        /\ Keep(pairs, s)
        /\ \A i \in DOMAIN pairs :
              ~IsReadKind(kind'[pairs[i].req]) => \E j \in DOMAIN s : s[j] = i
  BY DEF Sink
<1>2. PICK m \in 0..Len(pairs) : s \in [1..m -> 1..Len(pairs)]
  BY <1>1 DEF Selection
<1> DEFINE new == [i \in DOMAIN s |-> pairs[s[i]]]
<1>3. /\ Len(pairs) \in Nat /\ DOMAIN pairs = 1..Len(pairs) /\ m \in Nat
      /\ \A i \in 1..Len(pairs) : pairs[i] \in Line
  OBVIOUS
<1>4. /\ new \in [1..m -> Line]
      /\ \A i \in 1..m : new[i] = pairs[s[i]]
  BY <1>2, <1>3
<1>5. new \in Seq(Line) /\ Len(new) = m
  BY <1>3, <1>4
<1> HIDE DEF new
<1>6. file \in Seq(Line) /\ file' = file \o new
  BY <1>1 DEF Keep, TypeOK, new
<1>7. FileGrows
  <2>1. Begins(file, file')
    BY <1>5, <1>6, BeginsConcat
  <2>2. sampled \subseteq sampled'
    BY <1>1 DEF Keep
  <2> QED
    BY <2>1, <2>2 DEF FileGrows
<1>8. ASSUME NEW j \in 1..m
      PROVE  Len(file) + j \in DOMAIN file' /\ file'[Len(file) + j] = pairs[s[j]]
  <2>1. /\ Len(file) \in Nat /\ DOMAIN (file \o new) = 1..(Len(file) + m)
        /\ (file \o new)[Len(file) + j] = new[j]
    <3>1. file \in Seq(Line) /\ new \in Seq(Line)
      BY <1>5, <1>6
    <3>2. /\ Len(file) \in Nat /\ DOMAIN (file \o new) = 1..(Len(file) + Len(new))
          /\ \A i \in 1..Len(new) : (file \o new)[Len(file) + i] = new[i]
      BY <3>1
    <3> QED
      BY <1>5, <3>2
  <2>2. Len(file) + j \in 1..(Len(file) + m)
    BY <1>3, <2>1
  <2> QED
    BY <1>4, <1>6, <2>1, <2>2
<1>9. ASSUME NEW i \in DOMAIN pairs
      PROVE  \/ \E k \in DOMAIN file' : file'[k] = pairs[i]
             \/ pairs[i].req \in sampled' /\ IsReadKind(kind'[pairs[i].req])
  <2>1. DOMAIN s = 1..m
    BY <1>2
  <2>2. CASE \E j \in 1..m : s[j] = i
    BY <1>8, <2>2
  <2>3. CASE ~ \E j \in 1..m : s[j] = i
    <3>1. pairs[i].req \in sampled'
      BY <1>1, <2>1, <2>3 DEF Keep
    <3>2. IsReadKind(kind'[pairs[i].req])
      BY <1>1, <2>1, <2>3
    <3> QED
      BY <3>1, <3>2 DEF IsRead
  <2> QED
    BY <2>2, <2>3
<1> QED
  BY <1>7, <1>9 DEF Delivers

LEMMA ParseDelivers ==
    ASSUME TypeOK, Counts, NEW h \in Half, NEW ms, Readable(h, ms), Parse(h, ms)
    PROVE  FileGrows /\ Delivers(Pairs(h, ms))
  BY ParseSinks, SinkDelivers

LEMMA DropAt ==
    ASSUME NEW s \in Seq(Int), NEW n \in 0..Len(s), NEW k \in DOMAIN s, k > n
    PROVE  /\ k - n \in DOMAIN SubSeq(s, n + 1, Len(s))
           /\ SubSeq(s, n + 1, Len(s))[k - n] = s[k]
<1>1. /\ SubSeq(s, n + 1, Len(s)) \in Seq(Int)
      /\ Len(SubSeq(s, n + 1, Len(s))) = Len(s) - n
      /\ \A i \in 1..(Len(s) - n) : SubSeq(s, n + 1, Len(s))[i] = s[n + i]
  BY Dropped
<1>2. k - n \in 1..(Len(s) - n) /\ n + (k - n) = k
  OBVIOUS
<1>3. DOMAIN SubSeq(s, n + 1, Len(s)) = 1..(Len(s) - n)
  BY <1>1
<1> QED
  BY <1>1, <1>2, <1>3

\* An exchange met where a parser has read ms is kept, or met in what remains.
LEMMA ParseKeeps ==
    ASSUME TypeOK, Counts, NEW h \in Half, NEW ms, Readable(h, ms), Parse(h, ms),
           NEW A \in Seq(Int), NEW B \in Seq(Int), NEW e,
           Met(Requested(h, ms) \o A, Responded(h, ms) \o B, e)
    PROVE  Kept(e)' \/ Met(requests'[h[1]] \o A, responses'[h[1]] \o B, e)
<1> DEFINE R == Requested(h, ms)
           S == Responded(h, ms)
           n == Paired(h, ms)
<1>1. /\ R \in Seq(Exch) /\ S \in Seq(Int)
      /\ requests' = [requests EXCEPT ![h[1]] = SubSeq(R, n + 1, Len(R))]
      /\ responses' = [responses EXCEPT ![h[1]] = SubSeq(S, n + 1, Len(S))]
  BY ParseParses DEF Parsing
<1>2. /\ requests'[h[1]] = SubSeq(R, n + 1, Len(R))
      /\ responses'[h[1]] = SubSeq(S, n + 1, Len(S))
  <2>1. h[1] \in Conn /\ DOMAIN requests = Conn /\ DOMAIN responses = Conn
    BY DEF Half, TypeOK
  <2> QED
    BY <1>1, <2>1
<1>3. R \in Seq(Int)
  <2>1. Exch \subseteq Int
    BY DEF Exch
  <2> QED
    BY <1>1, <2>1, SeqMonotonic
<1>4. n \in 0..Len(R) /\ n \in 0..Len(S) /\ n \in Nat
  BY <1>1 DEF Paired, Shorter
<1>5. \A i \in 1..n : \/ \E k \in DOMAIN file' : file'[k].req = R[i] /\ file'[k].resp = S[i]
                      \/ R[i] \in sampled' /\ IsReadKind(kind'[R[i]])
  <2>1. /\ DOMAIN Pairs(h, ms) = 1..n
        /\ \A i \in 1..n : Pairs(h, ms)[i].req = R[i] /\ Pairs(h, ms)[i].resp = S[i]
    BY DEF Pairs
  <2>2. Delivers(Pairs(h, ms))
    BY ParseDelivers
  <2> HIDE DEF R, S, n
  <2> SUFFICES ASSUME NEW i \in 1..n
               PROVE  \/ \E k \in DOMAIN file' : file'[k].req = R[i] /\ file'[k].resp = S[i]
                      \/ R[i] \in sampled' /\ IsReadKind(kind'[R[i]])
    OBVIOUS
  <2> DEFINE line == Pairs(h, ms)[i]
  <2>3. \/ \E k \in DOMAIN file' : file'[k] = line
        \/ line.req \in sampled' /\ IsReadKind(kind'[line.req])
    BY <2>1, <2>2 DEF Delivers
  <2>4. line.req = R[i] /\ line.resp = S[i]
    BY <2>1
  <2> HIDE DEF line
  <2> QED
    BY <2>3, <2>4
<1> HIDE DEF R, S, n
<1>6. PICK k \in DOMAIN (R \o A) \cap DOMAIN (S \o B) : (R \o A)[k] = e /\ (S \o B)[k] = e
  BY DEF Met, R, S
<1>9. k \in Nat /\ k >= 1
  BY <1>1, <1>3, <1>6, ConcatAt
<1>7. CASE k <= n
  <2>1. k \in 1..n /\ k \in 1..Len(R) /\ k \in 1..Len(S)
    BY <1>4, <1>7, <1>9
  <2>2. R[k] = e /\ S[k] = e
    BY <1>1, <1>3, <1>6, <2>1, ConcatAt
  <2>3. \/ \E i \in DOMAIN file' : file'[i].req = e /\ file'[i].resp = e
        \/ e \in sampled' /\ IsReadKind(kind'[e])
    BY <1>5, <2>1, <2>2
  <2> QED
    BY <2>3 DEF Kept, IsRead
<1>8. CASE k > n
  <2>1. /\ SubSeq(R, n + 1, Len(R)) \o A = SubSeq(R \o A, n + 1, Len(R \o A))
        /\ SubSeq(S, n + 1, Len(S)) \o B = SubSeq(S \o B, n + 1, Len(S \o B))
    BY <1>1, <1>3, <1>4, DropConcat
  <2>2. R \o A \in Seq(Int) /\ S \o B \in Seq(Int)
    BY <1>1, <1>3, ConcatProperties
  <2>4. n \in 0..Len(R \o A) /\ n \in 0..Len(S \o B)
    <3>1. Len(R \o A) = Len(R) + Len(A) /\ Len(S \o B) = Len(S) + Len(B)
      BY <1>1, <1>3, ConcatProperties
    <3>2. Len(R) \in Nat /\ Len(S) \in Nat /\ Len(A) \in Nat /\ Len(B) \in Nat
      BY <1>1
    <3> QED
      BY <1>4, <3>1, <3>2
  <2>5. Met(SubSeq(R \o A, n + 1, Len(R \o A)), SubSeq(S \o B, n + 1, Len(S \o B)), e)
    <3>1. k \in DOMAIN (R \o A) /\ k \in DOMAIN (S \o B)
      BY <1>6
    <3> DEFINE X == R \o A
               Y == S \o B
    <3>2. /\ k - n \in DOMAIN SubSeq(X, n + 1, Len(X))
          /\ SubSeq(X, n + 1, Len(X))[k - n] = X[k]
      BY <1>8, <2>2, <2>4, <3>1, DropAt
    <3>3. /\ k - n \in DOMAIN SubSeq(Y, n + 1, Len(Y))
          /\ SubSeq(Y, n + 1, Len(Y))[k - n] = Y[k]
      BY <1>8, <2>2, <2>4, <3>1, DropAt
    <3>4. X[k] = e /\ Y[k] = e
      BY <1>6
    <3> HIDE DEF X, Y
    <3> QED
      BY <3>2, <3>3, <3>4 DEF Met, X, Y
  <2> QED
    BY <1>2, <2>1, <2>5
<1> QED
  BY <1>4, <1>7, <1>8, <1>9

\* What has reached the pairer or is held back in front of a gap.
Reached(c) == requests[c] \o Run(held[<<c, "req">>])
Replied(c) == responses[c] \o Run(held[<<c, "resp">>])

Pending(e, c) == Met(Reached(c), Replied(c), e)

\* A step keeps the pending exchanges of c, or delivers them.
Carries(c) == \A e : Pending(e, c) => Kept(e)' \/ Pending(e, c)'

LEMMA KeyTypes ==
    ASSUME TypeOK, NEW c \in Conn
    PROVE  /\ requests[c] \in Seq(Int) /\ responses[c] \in Seq(Int)
           /\ \A d \in Dir : <<c, d>> \in Half /\ held[<<c, d>>] \in Seq(Int)
                             /\ Run(held[<<c, d>>]) \in Seq(Int)
<1>1. requests[c] \in Seq(Exch) /\ responses[c] \in Seq(Int)
  BY DEF TypeOK
<1>2. requests[c] \in Seq(Int)
  <2>1. Exch \subseteq Int
    BY DEF Exch
  <2> QED
    BY <1>1, <2>1, SeqMonotonic
<1>3. \A d \in Dir : <<c, d>> \in Half
  BY DEF Half
<1>4. \A d \in Dir : held[<<c, d>>] \in Seq(Int)
  BY <1>3 DEF TypeOK
<1>5. \A d \in Dir : Run(held[<<c, d>>]) \in Seq(Int)
  BY <1>4, RunBegins
<1> QED
  BY <1>1, <1>2, <1>3, <1>4, <1>5

\* A step that reads nothing for c and at most holds back more.
LEMMA HoldingCarries ==
    ASSUME TypeOK, NEW c \in Conn,
           held' \in [Half -> Seq(Int)],
           requests'[c] = requests[c], responses'[c] = responses[c],
           \A d \in Dir : Begins(Run(held[<<c, d>>]), Run(held'[<<c, d>>]))
    PROVE  Carries(c)
<1> SUFFICES ASSUME NEW e, Pending(e, c) PROVE Pending(e, c)'
  BY DEF Carries
<1>1. "req" \in Dir /\ "resp" \in Dir
  BY DEF Dir
<1>2. /\ requests[c] \in Seq(Int) /\ responses[c] \in Seq(Int)
      /\ Run(held[<<c, "req">>]) \in Seq(Int) /\ Run(held[<<c, "resp">>]) \in Seq(Int)
  BY <1>1, KeyTypes
<1>3. Run(held'[<<c, "req">>]) \in Seq(Int) /\ Run(held'[<<c, "resp">>]) \in Seq(Int)
  <2>1. held'[<<c, "req">>] \in Seq(Int) /\ held'[<<c, "resp">>] \in Seq(Int)
    BY <1>1 DEF Half
  <2> QED
    BY <2>1, RunBegins
<1>4. Begins(Reached(c), Reached(c)')
  <2>1. Begins(requests[c] \o Run(held[<<c, "req">>]), requests[c] \o Run(held'[<<c, "req">>]))
    BY <1>1, <1>2, <1>3, ConcatBegins
  <2> QED
    BY <2>1 DEF Reached
<1>5. Begins(Replied(c), Replied(c)')
  <2>1. Begins(responses[c] \o Run(held[<<c, "resp">>]), responses[c] \o Run(held'[<<c, "resp">>]))
    BY <1>1, <1>2, <1>3, ConcatBegins
  <2> QED
    BY <2>1 DEF Replied
<1> QED
  BY <1>4, <1>5, MetBegins DEF Pending

\* A parser reads ms, which begins with what its half held in front of a gap.
LEMMA ParseCarries ==
    ASSUME TypeOK, Counts, NEW h \in Half, NEW ms, Readable(h, ms), Parse(h, ms),
           Begins(Run(held[h]), ms),
           held' \in [Half -> Seq(Int)],
           \A g \in Half \ {h} : held'[g] = held[g]
    PROVE  Carries(h[1])
<1> DEFINE c == h[1]
           A == Run(held'[<<c, "req">>])
           B == Run(held'[<<c, "resp">>])
<1>1. /\ c \in Conn /\ h = <<c, h[2]>> /\ (h[2] = "req" \/ h[2] = "resp")
      /\ <<c, "req">> \in Half /\ <<c, "resp">> \in Half
      /\ "req" \in Dir /\ "resp" \in Dir
  BY DEF Half, Dir
<1>2. /\ requests[c] \in Seq(Int) /\ responses[c] \in Seq(Int)
      /\ Run(held[<<c, "req">>]) \in Seq(Int) /\ Run(held[<<c, "resp">>]) \in Seq(Int)
  BY <1>1, KeyTypes
<1>3. ms \in Seq(Int)
  BY DEF Readable
<1>4. A \in Seq(Int) /\ B \in Seq(Int)
  <2>1. held'[<<c, "req">>] \in Seq(Int) /\ held'[<<c, "resp">>] \in Seq(Int)
    BY <1>1
  <2> QED
    BY <2>1, RunBegins
<1>5. Begins(Reached(c), Requested(h, ms) \o A) /\ Begins(Replied(c), Responded(h, ms) \o B)
  <2> HIDE DEF A, B, c
  <2>1. CASE h[2] = "req"
    <3>1. Begins(requests[c] \o Run(held[<<c, "req">>]), requests[c] \o ms)
      BY <1>1, <1>2, <1>3, <2>1, ConcatBegins
    <3>2. requests[c] \o ms \in Seq(Int)
      BY <1>2, <1>3, ConcatProperties
    <3>3. Begins(requests[c] \o ms, (requests[c] \o ms) \o A)
      BY <1>4, <3>2, BeginsConcat
    <3>4. Begins(Reached(c), Requested(h, ms) \o A)
      BY <2>1, <3>1, <3>3, BeginsMore DEF Reached, Requested, c
    <3>5. held'[<<c, "resp">>] = held[<<c, "resp">>]
      BY <1>1, <2>1
    <3>6. Replied(c) = Responded(h, ms) \o B
      BY <2>1, <3>5 DEF Replied, Responded, B, c
    <3> QED
      BY <3>4, <3>6 DEF Begins
  <2>2. CASE h[2] = "resp"
    <3>1. Begins(responses[c] \o Run(held[<<c, "resp">>]), responses[c] \o ms)
      BY <1>1, <1>2, <1>3, <2>2, ConcatBegins
    <3>2. responses[c] \o ms \in Seq(Int)
      BY <1>2, <1>3, ConcatProperties
    <3>3. Begins(responses[c] \o ms, (responses[c] \o ms) \o B)
      BY <1>4, <3>2, BeginsConcat
    <3>4. Begins(Replied(c), Responded(h, ms) \o B)
      BY <2>2, <3>1, <3>3, BeginsMore DEF Replied, Responded, c
    <3>5. held'[<<c, "req">>] = held[<<c, "req">>]
      BY <1>1, <2>2
    <3>6. Reached(c) = Requested(h, ms) \o A
      BY <2>2, <3>5 DEF Reached, Requested, A, c
    <3> QED
      BY <3>4, <3>6 DEF Begins
  <2> QED
    BY <1>1, <2>1, <2>2
<1> SUFFICES ASSUME NEW e, Pending(e, c) PROVE Kept(e)' \/ Pending(e, c)'
  BY DEF Carries
<1> HIDE DEF A, B, c
<1>6. Met(Requested(h, ms) \o A, Responded(h, ms) \o B, e)
  BY <1>5, MetBegins DEF Pending
<1>7. Kept(e)' \/ Met(requests'[h[1]] \o A, responses'[h[1]] \o B, e)
  BY <1>4, <1>6, ParseKeeps
<1>8. Reached(c)' = requests'[h[1]] \o A /\ Replied(c)' = responses'[h[1]] \o B
  BY DEF Reached, Replied, A, B, c
<1> QED
  BY <1>7, <1>8 DEF Pending

\* The invariant.
Accounted ==
    /\ \A c \in Conn : requests[c] = <<>> \/ responses[c] = <<>>
    /\ \A x \in complete : x[1] <= sent /\ (Kept(x[1]) \/ Pending(x[1], x[2]))

\* One of a key's two queues is empty after a step.
Waits == \A c \in Conn : requests'[c] = <<>> \/ responses'[c] = <<>>

KindsStay == \A e \in Exch : e <= sent /\ IsRead(e) => IsRead(e)'

LEMMA KeptStays ==
    ASSUME FileGrows, KindsStay, NEW e \in Exch, e <= sent, Kept(e)
    PROVE  Kept(e)'
<1>1. CASE \E i \in DOMAIN file : file[i].req = e /\ file[i].resp = e
  <2>1. PICK i \in DOMAIN file : file[i].req = e /\ file[i].resp = e
    BY <1>1
  <2>2. i \in DOMAIN file' /\ file'[i] = file[i]
    BY DEF FileGrows, Begins
  <2> QED
    BY <2>1, <2>2 DEF Kept
<1>2. CASE e \in sampled /\ IsRead(e)
  BY <1>2 DEF Kept, FileGrows, KindsStay
<1> QED
  BY <1>1, <1>2 DEF Kept

\* A step that carries the keys of the exchanges that stay complete.
LEMMA StepAccounted ==
    ASSUME TypeOK, Accounted, Waits, FileGrows, KindsStay,
           sent' \in Nat, sent <= sent',
           \A x \in complete' :
               \/ x \in complete /\ Carries(x[2])
               \/ x[1] <= sent' /\ (Kept(x[1])' \/ Pending(x[1], x[2])')
    PROVE  Accounted'
<1>1. ASSUME NEW x \in complete, Carries(x[2])
      PROVE  x[1] <= sent' /\ (Kept(x[1])' \/ Pending(x[1], x[2])')
  <2>1. x[1] \in Exch /\ x[1] <= sent /\ (Kept(x[1]) \/ Pending(x[1], x[2]))
    BY DEF Accounted, TypeOK
  <2>2. x[1] <= sent'
    BY <2>1 DEF Exch, TypeOK
  <2>3. CASE Kept(x[1])
    BY <2>1, <2>2, <2>3, KeptStays
  <2>4. CASE Pending(x[1], x[2])
    BY <1>1, <2>2, <2>4 DEF Carries
  <2> QED
    BY <2>1, <2>3, <2>4
<1> QED
  BY <1>1 DEF Accounted, Waits

LEMMA UntouchedCarries ==
    ASSUME TypeOK, held' \in [Half -> Seq(Int)], NEW b \in Conn,
           requests'[b] = requests[b], responses'[b] = responses[b],
           \A d \in Dir : held'[<<b, d>>] = held[<<b, d>>]
    PROVE  Carries(b)
  BY BeginsItself, HoldingCarries

LEMMA QuietPairs == ASSUME Accounted, UNCHANGED pairVars PROVE FileGrows /\ Waits
<1>1. UNCHANGED <<requests, responses, file, sampled>>
  BY DEF pairVars
<1> QED
  BY <1>1, BeginsItself DEF FileGrows, Waits, Accounted

LEMMA ParseWaits ==
    ASSUME TypeOK, Counts, Accounted, NEW h \in Half, NEW ms, Readable(h, ms), Parse(h, ms)
    PROVE  /\ FileGrows /\ Waits
           /\ \A b \in Conn \ {h[1]} : requests'[b] = requests[b] /\ responses'[b] = responses[b]
<1> DEFINE R == Requested(h, ms)
           S == Responded(h, ms)
           n == Paired(h, ms)
<1>1. /\ R \in Seq(Exch) /\ S \in Seq(Int)
      /\ requests' = [requests EXCEPT ![h[1]] = SubSeq(R, n + 1, Len(R))]
      /\ responses' = [responses EXCEPT ![h[1]] = SubSeq(S, n + 1, Len(S))]
      /\ n = Shorter(Len(R), Len(S))
  BY ParseParses DEF Parsing, Paired
<1> HIDE DEF R, S, n
<1>2. h[1] \in Conn /\ DOMAIN requests = Conn /\ DOMAIN responses = Conn
  BY DEF Half, TypeOK
<1>3. /\ requests'[h[1]] = SubSeq(R, n + 1, Len(R))
      /\ responses'[h[1]] = SubSeq(S, n + 1, Len(S))
      /\ \A b \in Conn \ {h[1]} : requests'[b] = requests[b] /\ responses'[b] = responses[b]
  BY <1>1, <1>2
<1>4. n = Len(R) \/ n = Len(S)
  BY <1>1 DEF Shorter
<1>5. SubSeq(R, Len(R) + 1, Len(R)) = <<>> /\ SubSeq(S, Len(S) + 1, Len(S)) = <<>>
  BY <1>1, SubSeqEmpty
<1>6. Waits
  BY <1>3, <1>4, <1>5 DEF Waits, Accounted
<1>7. FileGrows
  BY ParseDelivers
<1> QED
  BY <1>3, <1>6, <1>7

\* What a step on half h does to the pairer and to the other keys.
Handled(h) ==
    /\ FileGrows /\ Waits /\ Carries(h[1])
    /\ \A b \in Conn \ {h[1]} :
        /\ requests'[b] = requests[b] /\ responses'[b] = responses[b]
        /\ \A d \in Dir : held'[<<b, d>>] = held[<<b, d>>]

LEMMA ParseHandled ==
    ASSUME TypeOK, Counts, Accounted, NEW h \in Half, NEW ms, Readable(h, ms), Parse(h, ms),
           Begins(Run(held[h]), ms),
           held' \in [Half -> Seq(Int)],
           \A g \in Half \ {h} : held'[g] = held[g]
    PROVE  Handled(h)
<1>1. Carries(h[1])
  BY ParseCarries
<1>2. \A b \in Conn \ {h[1]}, d \in Dir : <<b, d>> \in Half \ {h}
  BY DEF Half
<1> QED
  BY <1>1, <1>2, ParseWaits DEF Handled

LEMMA HoldingHandled ==
    ASSUME TypeOK, Accounted, NEW h \in Half, UNCHANGED pairVars,
           held' \in [Half -> Seq(Int)],
           Begins(Run(held[h]), Run(held'[h])),
           \A g \in Half \ {h} : held'[g] = held[g]
    PROVE  Handled(h)
<1>1. /\ h[1] \in Conn
      /\ \A b \in Conn \ {h[1]}, d \in Dir : <<b, d>> \in Half \ {h}
      /\ \A d \in Dir : <<h[1], d>> \in Half
  BY DEF Half
<1>2. UNCHANGED <<requests, responses>>
  BY DEF pairVars
<1>3. \A d \in Dir : Begins(Run(held[<<h[1], d>>]), Run(held'[<<h[1], d>>]))
  BY <1>1, BeginsItself
<1>4. Carries(h[1])
  BY <1>1, <1>2, <1>3, HoldingCarries
<1> QED
  BY <1>1, <1>2, <1>4, QuietPairs DEF Handled

LEMMA ArrivesHandled ==
    ASSUME TypeOK, Holding, Counts, Accounted, NEW h \in Half, NEW m, Sendable(h, m),
           Arrives(h, m), held' \in [Half -> Seq(Int)]
    PROVE  Handled(h)
<1>1. held \in [Half -> Seq(Int)] /\ held[h] \in Seq(Int) /\ m \in Int
  BY DEF TypeOK, Sendable
<1>2. CASE half[h] = "live" /\ UNCHANGED held /\ Readable(h, <<m>>) /\ Parse(h, <<m>>)
  <2>1. Run(held[h]) = <<>>
    BY <1>1, <1>2, HeldWell, RunBegins
  <2>2. Begins(Run(held[h]), <<m>>)
    BY <2>1, BeginsItself
  <2> QED
    BY <1>1, <1>2, <2>2, ParseHandled
<1>3. CASE half[h] = "live" /\ held' = [held EXCEPT ![h] = <<m>>] /\ UNCHANGED pairVars
  <2>1. Run(held[h]) = <<>>
    BY <1>1, <1>3, HeldWell, RunBegins
  <2>2. Begins(Run(held[h]), Run(held'[h]))
    BY <2>1, BeginsItself
  <2> QED
    BY <1>1, <1>3, <2>2, HoldingHandled
<1>4. CASE held' = [held EXCEPT ![h] = Append(@, m)] /\ UNCHANGED pairVars
  <2>1. held'[h] = Append(held[h], m)
    BY <1>1, <1>4
  <2>2. Begins(Run(held[h]), Run(held'[h]))
    BY <1>1, <2>1, RunGrows
  <2> QED
    BY <1>1, <1>4, <2>2, HoldingHandled
<1>5. CASE /\ held' = [held EXCEPT ![h] = <<>>]
           /\ Readable(h, held[h]) /\ Parse(h, held[h])
  <2>1. Begins(Run(held[h]), held[h])
    BY <1>1, RunBegins
  <2> QED
    BY <1>1, <1>5, <2>1, ParseHandled
<1>6. CASE UNCHANGED <<held, pairVars>>
  BY <1>1, <1>6, BeginsItself, HoldingHandled
<1> QED
  BY <1>2, <1>3, <1>4, <1>5, <1>6, ArrivesCases

LEMMA LossHandled ==
    ASSUME TypeOK, Holding, Accounted, NEW h \in Half, IsLost(h), held' \in [Half -> Seq(Int)]
    PROVE  Handled(h)
<1>1. /\ held \in [Half -> Seq(Int)] /\ held[h] \in Seq(Int) /\ Gap \in Int
      /\ UNCHANGED pairVars
  BY SniffAssumption DEF TypeOK, Gap, IsLost
<1>2. /\ held'[h] \in {held[h], Append(held[h], Gap)}
      /\ \A g \in Half \ {h} : held'[g] = held[g]
  BY <1>1 DEF IsLost, WithGap
<1>3. Begins(Run(held[h]), Run(held'[h]))
  BY <1>1, <1>2, BeginsItself, RunGrows
<1> QED
  BY <1>1, <1>2, <1>3, HoldingHandled

LEMMA CutHandled ==
    ASSUME TypeOK, Holding, Accounted, NEW h \in Half, NEW m \in Int, IsCut(h, m),
           held' \in [Half -> Seq(Int)]
    PROVE  Handled(h)
<1>1. held \in [Half -> Seq(Int)] /\ held[h] \in Seq(Int) /\ Gap \in Int
  BY SniffAssumption DEF TypeOK, Gap
<1>2. PICK s : Breaks(h, s) /\ Longer(s, held[h], m) /\ UNCHANGED pairVars
  BY CutCases DEF Longer
<1>3. s = held[h] \/ s = Append(held[h], m)
  BY <1>1, <1>2, AppendIsConcat, ConcatEmptySeq DEF Longer
<1>4. s \in Seq(Int) /\ Begins(Run(held[h]), Run(s))
  BY <1>1, <1>3, BeginsItself, RunGrows
<1>5. held'[h] \in {s, Append(s, Gap)} /\ \A g \in Half \ {h} : held'[g] = held[g]
  BY <1>1, <1>2 DEF Breaks, WithGap
<1>6. Begins(Run(s), Run(held'[h]))
  BY <1>1, <1>4, <1>5, BeginsItself, RunGrows
<1>7. Begins(Run(held[h]), Run(held'[h]))
  BY <1>4, <1>6, BeginsMore
<1> QED
  BY <1>1, <1>2, <1>5, <1>7, HoldingHandled

LEMMA PacketHandled ==
    ASSUME TypeOK, Holding, Counts, Accounted, NEW h \in Half, NEW m, NEW expected,
           Sendable(h, m), Packet(h, m, expected), held' \in [Half -> Seq(Int)]
    PROVE  Handled(h)
  BY ArrivesHandled, LossHandled, CutHandled DEF Packet, Sendable

\* A step on half h that completes nothing.
LEMMA HandledAccounted ==
    ASSUME TypeOK, TypeOK', Accounted, NEW h \in Half, Handled(h), KindsStay,
           sent <= sent', complete' = complete
    PROVE  Accounted'
<1>1. sent' \in Nat /\ held' \in [Half -> Seq(Int)]
  BY DEF TypeOK
<1>2. \A x \in complete : x[2] \in Conn
  BY DEF TypeOK
<1>3. \A b \in Conn : Carries(b)
  BY <1>1, UntouchedCarries DEF Handled
<1> QED
  BY <1>1, <1>2, <1>3, StepAccounted DEF Handled

LEMMA QuietAccounted ==
    ASSUME TypeOK, Accounted, UNCHANGED <<held, pairVars, sent, kind, complete>>
    PROVE  Accounted'
<1>1. FileGrows /\ Waits
  BY QuietPairs
<1>2. held' \in [Half -> Seq(Int)] /\ UNCHANGED <<requests, responses>>
  BY DEF TypeOK, pairVars
<1>3. \A b \in Conn : Carries(b)
  BY <1>2, UntouchedCarries
<1>4. sent' \in Nat /\ sent <= sent' /\ \A x \in complete : x[2] \in Conn
  BY SniffAssumption DEF TypeOK
<1>5. KindsStay
  BY DEF KindsStay, IsRead
<1> QED
  BY <1>1, <1>3, <1>4, <1>5, StepAccounted

LEMMA SendAccounted ==
    ASSUME TypeOK, TypeOK', Holding, Accounted, NEW c \in Conn, Send(c)
    PROVE  Accounted'
<1>1. /\ sent \in Nat /\ sent < N /\ N \in Nat /\ sent' = sent + 1
      /\ kind \in [Exch -> Kinds] /\ held' \in [Half -> Seq(Int)] /\ complete' = complete
  <2>1. sent < N /\ sent' = sent + 1 /\ complete' = complete
    BY DEF Send
  <2>2. sent \in Nat /\ N \in Nat /\ kind \in [Exch -> Kinds]
    BY SniffAssumption DEF TypeOK
  <2>3. held' \in [Half -> Seq(Int)]
    BY DEF TypeOK
  <2> QED
    BY <2>1, <2>2, <2>3
<1>2. PICK k \in Kinds :
        /\ kind' = [kind EXCEPT ![sent + 1] = k]
        /\ Packet(<<c, "req">>, sent + 1, k \in {"read", "write"})
  BY DEF Send
<1>3. <<c, "req">> \in Half /\ Sendable(<<c, "req">>, sent + 1)
  BY <1>1 DEF Half, Dir, Sendable, Exch
<1>4. KindsStay
  <2> SUFFICES ASSUME NEW e \in Exch, e <= sent PROVE kind'[e] = kind[e]
    BY DEF KindsStay, IsRead
  <2>1. e # sent + 1
    BY <1>1 DEF Exch
  <2> QED
    BY <1>1, <1>2, <2>1
<1>5. Handled(<<c, "req">>)
  <2> DEFINE expected == k \in {"read", "write"}
  <2>1. Packet(<<c, "req">>, sent + 1, expected)
    BY <1>2
  <2> HIDE DEF expected
  <2> QED
    BY <1>1, <1>3, <2>1, PacketHandled DEF Counts, TypeOK
<1>6. sent <= sent'
  BY <1>1
<1> QED
  BY <1>1, <1>3, <1>4, <1>5, <1>6, HandledAccounted

LEMMA ContinueAccounted ==
    ASSUME TypeOK, TypeOK', Holding, Accounted, NEW c \in Conn, Continue(c)
    PROVE  Accounted'
<1>0. /\ UNCHANGED <<sent, complete>>
      /\ owed[c] \in Exch /\ kind[owed[c]] = "expect"
      /\ kind' = [kind EXCEPT ![owed[c]] = "write"]
      /\ Packet(<<c, "resp">>, -owed[c], TRUE)
  BY DEF Continue
<1>1. kind \in [Exch -> Kinds] /\ held' \in [Half -> Seq(Int)] /\ sent \in Nat
  BY SniffAssumption DEF TypeOK
<1>2. <<c, "resp">> \in Half /\ Sendable(<<c, "resp">>, -owed[c])
  <2>1. -owed[c] \in Int
    BY <1>0 DEF Exch
  <2> QED
    BY <2>1 DEF Half, Dir, Sendable
<1>3. KindsStay
  BY <1>0, <1>1 DEF KindsStay, IsRead, IsReadKind
<1>4. Handled(<<c, "resp">>)
  BY <1>0, <1>1, <1>2, PacketHandled DEF Counts, TypeOK
<1>5. sent <= sent'
  BY <1>0, <1>1
<1> QED
  BY <1>0, <1>2, <1>3, <1>4, <1>5, HandledAccounted

LEMMA CloseAccounted ==
    ASSUME TypeOK, Accounted, NEW c \in Conn, Connect(c) \/ Close(c)
    PROVE  Accounted'
<1>1. UNCHANGED <<held, pairVars, sent, kind, complete>>
  BY DEF Connect, Close, streamVars
<1> QED
  BY <1>1, QuietAccounted

LEMMA FlushOldAccounted ==
    ASSUME TypeOK, TypeOK', Holding, Accounted, NEW h \in Half, FlushOld(h)
    PROVE  Accounted'
<1> DEFINE s == Started(held[h])
<1>0. UNCHANGED <<sent, kind, complete, prompt>>
  BY DEF FlushOld, trafficVars
<1>1. /\ held \in [Half -> Seq(Int)] /\ held' \in [Half -> Seq(Int)]
      /\ held[h] \in Seq(Int) /\ sent \in Nat /\ Counts
  BY SniffAssumption DEF TypeOK, Counts
<1>2. ASSUME Parse(h, Run(s)), held' = [held EXCEPT ![h] = Rest(s)]
      PROVE  Handled(h)
  <2>1. Readable(h, Run(s))
    BY FlushReads
  <2>2. Begins(Run(held[h]), Run(s))
    <3>1. CASE s = held[h]
      BY <3>1, BeginsItself
    <3>2. CASE s # held[h]
      BY <1>1, <3>2, BeginsItself, RunBegins
    <3> QED
      BY <3>1, <3>2
  <2> HIDE DEF s
  <2> QED
    BY <1>1, <1>2, <2>1, <2>2, ParseHandled
<1>3. ASSUME s # held[h], held' = [held EXCEPT ![h] = <<>>],
             UNCHANGED <<requests, responses, ts, file, sampled>>
      PROVE  Handled(h)
  <2>1. Run(held[h]) = <<>>
    BY <1>1, <1>3, RunBegins
  <2>2. Begins(Run(held[h]), Run(held'[h]))
    BY <2>1, BeginsItself
  <2>3. UNCHANGED pairVars
    BY <1>0, <1>3 DEF pairVars
  <2> QED
    BY <1>1, <1>3, <2>2, <2>3, HoldingHandled
<1>4. Handled(h)
  BY <1>2, <1>3 DEF FlushOld
<1>5. KindsStay /\ sent <= sent'
  BY <1>0, <1>1 DEF KindsStay, IsRead
<1> QED
  BY <1>0, <1>4, <1>5, HandledAccounted

LEMMA EofAccounted ==
    ASSUME TypeOK, TypeOK', Holding, Accounted, NEW h \in Half, NEW to, EndOfFile(h, to),
           UNCHANGED <<trafficVars, complete>>
    PROVE  Accounted'
<1>1. /\ UNCHANGED <<sent, kind, complete>>
      /\ held \in [Half -> Seq(Int)] /\ held' \in [Half -> Seq(Int)]
      /\ held[h] \in Seq(Int) /\ sent \in Nat /\ Counts
      /\ held' = [held EXCEPT ![h] = <<>>]
  BY SniffAssumption DEF EndOfFile, trafficVars, TypeOK, Counts
<1>2. ASSUME half[h] = "body"
      PROVE  Handled(h)
  <2>1. Parse(h, held[h]) /\ Readable(h, held[h])
    BY <1>1, <1>2, HeldWell DEF EndOfFile, Readable
  <2>2. Begins(Run(held[h]), held[h])
    BY <1>1, RunBegins
  <2> QED
    BY <1>1, <2>1, <2>2, ParseHandled
<1>3. ASSUME half[h] # "body"
      PROVE  Handled(h)
  <2>1. UNCHANGED pairVars /\ half[h] \in {"live", "dead"}
    BY <1>3 DEF EndOfFile
  <2>2. held'[h] = held[h]
    BY <1>1, <2>1, HeldWell
  <2>3. Begins(Run(held[h]), Run(held'[h]))
    BY <2>2, BeginsItself
  <2> QED
    BY <1>1, <2>1, <2>3, HoldingHandled
<1>4. Handled(h)
  BY <1>2, <1>3
<1>5. KindsStay /\ sent <= sent'
  BY <1>1 DEF KindsStay, IsRead
<1> QED
  BY <1>1, <1>4, <1>5, HandledAccounted

LEMMA EndOfStreamAccounted ==
    ASSUME TypeOK, TypeOK', Holding, Accounted, NEW h \in Half, EndOfStream(h)
    PROVE  Accounted'
<1>1. EndOfFile(h, "none") /\ UNCHANGED <<trafficVars, complete>>
  BY DEF EndOfStream, EndOfFile
<1> QED
  BY <1>1, EofAccounted

LEMMA IdleCloseAccounted ==
    ASSUME TypeOK, TypeOK', Holding, Accounted, NEW h \in Half, IdleClose(h)
    PROVE  Accounted'
<1>1. EndOfFile(h, "holding") /\ UNCHANGED <<trafficVars, complete>>
  BY DEF IdleClose, EndOfFile
<1> QED
  BY <1>1, EofAccounted

\* Packets that reach another stream spoil both keys, whose exchanges are no
\* longer counted as complete.
LEMMA FlushRacesAccounted ==
    ASSUME TypeOK, TypeOK', Holding, Accounted, NEW h \in Half, NEW g \in Half, FlushRaces(h, g)
    PROVE  Accounted'
<1> DEFINE s == Started(held[h])
<1>1. /\ g[2] = h[2] /\ Parse(g, Run(s))
      /\ held' = [held EXCEPT ![h] = Rest(s)]
      /\ complete' = {x \in complete : x[2] \notin {h[1], g[1]}}
      /\ UNCHANGED <<sent, kind>>
  BY DEF FlushRaces, trafficVars
<1>2. /\ held \in [Half -> Seq(Int)] /\ held' \in [Half -> Seq(Int)]
      /\ sent \in Nat /\ Counts /\ \A x \in complete : x[2] \in Conn
  BY SniffAssumption DEF TypeOK, Counts
<1>3. Readable(g, Run(s))
  BY <1>1, FlushReads
<1> HIDE DEF s
<1>4. /\ FileGrows /\ Waits
      /\ \A b \in Conn \ {g[1]} : requests'[b] = requests[b] /\ responses'[b] = responses[b]
  BY <1>1, <1>2, <1>3, ParseWaits
<1>5. ASSUME NEW b \in Conn \ {h[1], g[1]}
      PROVE  Carries(b)
  <2>1. \A d \in Dir : <<b, d>> \in Half \ {h}
    BY DEF Half
  <2>2. \A d \in Dir : held'[<<b, d>>] = held[<<b, d>>]
    BY <1>1, <1>2, <2>1
  <2> QED
    BY <1>2, <1>4, <2>2, UntouchedCarries
<1>6. KindsStay /\ sent' \in Nat /\ sent <= sent'
  BY <1>1, <1>2 DEF KindsStay, IsRead
<1>7. \A x \in complete' : x \in complete /\ Carries(x[2])
  BY <1>1, <1>2, <1>5
<1> QED
  BY <1>4, <1>6, <1>7, StepAccounted

\* The packet that completes an exchange of a clean key: its request is at the
\* place that its response takes.
LEMMA AnswerMeets ==
    ASSUME TypeOK, TypeOK', Holding, Right, NEW c \in Conn, Answer(c),
           NEW e \in Exch, owed[c] = e, c \in clean'
    PROVE  Kept(e)' \/ Pending(e, c)'
<1> DEFINE h == <<c, "resp">>
           q == held[<<c, "req">>]
           p == held[h]
           R == requests[c]
           S == responses[c]
<1>1. /\ h \in Half /\ <<c, "req">> \in Half /\ h # <<c, "req">>
      /\ h[1] = c /\ h[2] = "resp"
      /\ half \in [Half -> {"none", "live", "holding", "body", "dead", "stuck"}]
      /\ held \in [Half -> Seq(Int)] /\ held' \in [Half -> Seq(Int)] /\ Counts
  BY DEF Half, Dir, TypeOK, Counts
<1>2. /\ c \in clean /\ Arrives(h, e)
  BY DEF Answer, Packet, Spoils, ghostVars
<1>3. /\ InStep(c) /\ kind[e] \in {"read", "write"}
      /\ q \in Seq(Exch) /\ p \in Seq(Exch)
      /\ R \o q = S \o (p \o <<e>>)
  <2>1. InStep(c) /\ kind[e] \in {"read", "write"}
    BY <1>2 DEF Right, Aligned
  <2>2. Due(c) = <<e>>
    BY DEF Due
  <2> QED
    BY <2>1, <2>2 DEF InStep, Dir
<1>4. R \in Seq(Int) /\ S \in Seq(Int) /\ q \in Seq(Int) /\ p \in Seq(Int) /\ e \in Int
  <2>1. q \in Seq(Int) /\ p \in Seq(Int)
    BY <1>1
  <2>2. R \in Seq(Int) /\ S \in Seq(Int)
    BY KeyTypes
  <2>3. e \in Int
    BY DEF Exch
  <2> QED
    BY <2>1, <2>2, <2>3
<1>5. Run(q) = q
  <2>1. \A i \in 1..Len(q) : q[i] # Gap
    <3>1. q \in Seq(Exch)
      BY <1>3
    <3> HIDE DEF q
    <3> QED
      BY <3>1, NotExch
  <2> QED
    BY <1>4, <2>1, RunOfAll
<1>6. Sendable(h, e) /\ ~IsHead(e)
  BY <1>1, <1>3, <1>4 DEF Sendable, IsHead
<1> HIDE DEF h, q, p, R, S
<1>7. Met(R \o q, S \o (p \o <<e>>), e)
  <2> DEFINE X == S \o (p \o <<e>>)
  <2>1. p \o <<e>> \in Seq(Int)
    BY <1>4
  <2>2. /\ Len(p \o <<e>>) = Len(p) + 1 /\ (p \o <<e>>)[Len(p) + 1] = e
        /\ Len(p) \in Nat
    BY <1>4
  <2>3. Len(S) + (Len(p) + 1) \in DOMAIN X /\ X[Len(S) + (Len(p) + 1)] = e
    <3>1. Len(p) + 1 \in 1..Len(p \o <<e>>)
      BY <2>2
    <3>2. /\ Len(S) \in Nat
          /\ DOMAIN X = 1..(Len(S) + Len(p \o <<e>>))
          /\ \A i \in 1..Len(p \o <<e>>) : X[Len(S) + i] = (p \o <<e>>)[i]
      BY <1>4, <2>1, ConcatAt
    <3>3. Len(S) + (Len(p) + 1) \in 1..(Len(S) + Len(p \o <<e>>))
      BY <2>2, <3>2
    <3> QED
      BY <2>2, <3>1, <3>2, <3>3
  <2> HIDE DEF X
  <2>4. Met(X, X, e)
    BY <2>3 DEF Met
  <2> QED
    BY <1>3, <2>4 DEF X
<1>8. CASE half[h] = "live" /\ UNCHANGED held /\ Readable(h, <<e>>) /\ Parse(h, <<e>>)
  <2>1. p = <<>>
    BY <1>1, <1>8, HeldWell DEF p
  <2>2. p \o <<e>> = <<e>>
    BY <1>4, <2>1
  <2>3. Requested(h, <<e>>) = R /\ Responded(h, <<e>>) = S \o <<e>>
    BY <1>1 DEF Requested, Responded, R, S
  <2>4. (S \o <<e>>) \o <<>> = S \o <<e>>
    BY <1>4
  <2>5. Met(Requested(h, <<e>>) \o q, Responded(h, <<e>>) \o <<>>, e)
    BY <1>7, <2>2, <2>3, <2>4
  <2>6. Kept(e)' \/ Met(requests'[c] \o q, responses'[c] \o <<>>, e)
    <3>1. <<>> \in Seq(Int)
      OBVIOUS
    <3>2. \/ Kept(e)'
          \/ Met(requests'[h[1]] \o q, responses'[h[1]] \o <<>>, e)
      BY <1>1, <1>4, <1>8, <2>5, <3>1, ParseKeeps, Zenon
    <3> QED
      BY <1>1, <3>2
  <2>7. Reached(c)' = requests'[c] \o q /\ Replied(c)' = responses'[c] \o <<>>
    <3>1. Run(held'[<<c, "req">>]) = q
      BY <1>5, <1>8 DEF q
    <3>2. Run(held'[h]) = <<>>
      BY <1>4, <1>8, <2>1, RunBegins DEF p
    <3> QED
      BY <3>1, <3>2 DEF Reached, Replied, h
  <2> QED
    BY <2>6, <2>7 DEF Pending
<1>9. CASE held' = [held EXCEPT ![h] = Append(@, e)] /\ UNCHANGED pairVars
  <2>1. /\ held'[h] = Append(p, e) /\ held'[<<c, "req">>] = q
        /\ requests'[c] = R /\ responses'[c] = S
    BY <1>1, <1>9 DEF p, q, R, S, pairVars
  <2>2. Run(Append(p, e)) = Append(p, e)
    <3>1. Append(p, e) \in Seq(Exch) /\ Append(p, e) \in Seq(Int)
      BY <1>3, <1>4
    <3>2. \A i \in 1..Len(Append(p, e)) : Append(p, e)[i] # Gap
      BY <3>1, NotExch
    <3> QED
      BY <3>1, <3>2, RunOfAll
  <2>3. Append(p, e) = p \o <<e>>
    BY <1>4, AppendIsConcat
  <2>4. Reached(c)' = R \o q /\ Replied(c)' = S \o (p \o <<e>>)
    BY <1>5, <2>1, <2>2, <2>3 DEF Reached, Replied, h
  <2> QED
    BY <1>7, <2>4 DEF Pending
<1>10. half[h] \in {"live", "holding"}
  <2>1. half[h] \in {"live", "holding", "none"}
    BY <1>3 DEF InStep, Dir, h
  <2>2. half[h] # "none"
    BY <1>1, HeldWell DEF Answer
  <2> QED
    BY <2>1, <2>2
<1> QED
  BY <1>1, <1>2, <1>6, <1>8, <1>9, <1>10, ArrivesCases

LEMMA AnswerAccounted ==
    ASSUME TypeOK, TypeOK', Holding, Right, Accounted, NEW c \in Conn, Answer(c)
    PROVE  Accounted'
<1>1. /\ UNCHANGED <<sent, kind>> /\ sent \in Nat /\ held' \in [Half -> Seq(Int)]
      /\ Packet(<<c, "resp">>, owed[c], TRUE)
      /\ complete' = IF c \in clean' /\ owed[c] \in Exch
                     THEN complete \cup {<<owed[c], c>>} ELSE complete
  <2>1. sent \in Nat /\ held' \in [Half -> Seq(Int)]
    BY SniffAssumption DEF TypeOK
  <2> QED
    BY <2>1 DEF Answer
<1>2. <<c, "resp">> \in Half /\ <<c, "resp">>[1] = c /\ Sendable(<<c, "resp">>, owed[c])
  <2>1. owed[c] \in Int
    BY SniffAssumption DEF TypeOK, NoExch
  <2> QED
    BY <2>1 DEF Half, Dir, Sendable
<1>3. Handled(<<c, "resp">>)
  BY <1>1, <1>2, PacketHandled DEF Counts, TypeOK
<1>4. \A b \in Conn : Carries(b)
  BY <1>1, <1>2, <1>3, UntouchedCarries DEF Handled
<1>5. ASSUME NEW e \in Exch, owed[c] = e, c \in clean'
      PROVE  e <= sent /\ (Kept(e)' \/ Pending(e, c)')
  <2>1. e <= sent
    BY <1>5 DEF Right, Awaited
  <2> QED
    BY <1>5, <2>1, AnswerMeets
<1>6. \A x \in complete' : \/ x \in complete /\ Carries(x[2])
                           \/ x[1] <= sent' /\ (Kept(x[1])' \/ Pending(x[1], x[2])')
  <2> SUFFICES ASSUME NEW x \in complete'
               PROVE  \/ x \in complete /\ Carries(x[2])
                      \/ x[1] <= sent' /\ (Kept(x[1])' \/ Pending(x[1], x[2])')
    OBVIOUS
  <2>1. CASE x \in complete
    <3>1. x[2] \in Conn
      BY <2>1 DEF TypeOK
    <3> QED
      BY <1>4, <2>1, <3>1
  <2>2. CASE owed[c] \in Exch /\ c \in clean' /\ x = <<owed[c], c>>
    <3>1. x[1] \in Exch /\ owed[c] = x[1] /\ x[2] = c
      BY <2>2
    <3>2. x[1] <= sent /\ (Kept(x[1])' \/ Pending(x[1], c)')
      BY <1>5, <2>2, <3>1
    <3> QED
      BY <1>1, <3>1, <3>2
  <2> QED
    BY <1>1, <2>1, <2>2
<1>7. KindsStay /\ sent' \in Nat /\ sent <= sent'
  BY <1>1 DEF KindsStay, IsRead
<1> QED
  BY <1>3, <1>6, <1>7, StepAccounted DEF Handled

LEMMA NextAccounted ==
    ASSUME TypeOK, Holding, Right, Accounted, [Next]_vars
    PROVE  Accounted'
<1>1. TypeOK'
  BY NextTypes
<1>2. ASSUME Stop \/ Flushed \/ UNCHANGED vars
      PROVE  Accounted'
  <2>1. UNCHANGED <<held, pairVars, sent, kind, complete>>
    BY <1>2 DEF Stop, Flushed, vars, trafficVars, streamVars
  <2> QED
    BY <2>1, QuietAccounted
<1> QED
  BY <1>1, <1>2, CloseAccounted, SendAccounted, ContinueAccounted, AnswerAccounted,
     FlushOldAccounted, IdleCloseAccounted, EndOfStreamAccounted, FlushRacesAccounted DEF Next

\* An exchange of a clean key whose two packets were seen is never lost between
\* the reassembler, the pairer and the file (sniff.go, addRequest, addResponse,
\* Output.Sink): once the halves of its key hold nothing back it is written with
\* its own response, or it is a read that was sampled out -- whatever goes wrong
\* on its key afterwards.
THEOREM CompleteIsKept == Spec => []CompleteExchangesAreKept
<1>1. Init => Accounted
  <2> SUFFICES ASSUME Init PROVE Accounted
    OBVIOUS
  <2>1. complete = {} /\ \A c \in Conn : requests[c] = <<>>
    BY DEF Init
  <2> QED
    BY <2>1 DEF Accounted
<1>2. ASSUME TypeOK, Holding, Accounted
      PROVE  CompleteExchangesAreKept
  <2> SUFFICES ASSUME NEW x \in complete,
                      \A d \in Dir : half[<<x[2], d>>] \in {"live", "none"}
               PROVE  Kept(x[1])
    BY DEF CompleteExchangesAreKept, Kept
  <2> DEFINE c == x[2]
  <2>1. c \in Conn /\ (requests[c] = <<>> \/ responses[c] = <<>>)
    BY <1>2 DEF TypeOK, Accounted
  <2>2. \A d \in Dir : <<c, d>> \in Half /\ held[<<c, d>>] = <<>>
    <3>1. \A d \in Dir : <<c, d>> \in Half
      BY <2>1 DEF Half
    <3> QED
      BY <1>2, <3>1, HeldWell
  <2>3. Run(held[<<c, "req">>]) = <<>> /\ Run(held[<<c, "resp">>]) = <<>>
    <3>1. <<>> \in Seq(Int)
      OBVIOUS
    <3> QED
      BY <2>2, <3>1, RunBegins DEF Dir
  <2>4. Reached(c) = requests[c] /\ Replied(c) = responses[c]
    <3>1. requests[c] \in Seq(Int) /\ responses[c] \in Seq(Int)
      BY <1>2, <2>1, KeyTypes
    <3> QED
      BY <2>3, <3>1, ConcatEmptySeq DEF Reached, Replied
  <2>5. ~Pending(x[1], c)
    BY <2>1, <2>4 DEF Pending, Met
  <2> QED
    BY <1>2, <2>5 DEF Accounted
<1>3. TypeOK /\ Holding /\ Right /\ Accounted /\ [Next]_vars => Accounted'
  BY NextAccounted
<1> QED
  BY <1>1, <1>2, <1>3, SpecRight, PTL DEF Spec
=============================================================================
