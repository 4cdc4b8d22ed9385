---------------------------- MODULE AgentProofs ----------------------------
(***************************************************************************)
(* Proofs about the dashboard's agents: about AgentRegistry, for every set *)
(* of daemons, reporters and commands and any number of registrations and  *)
(* restarts, and about DaemonCapture, the captures of one of the daemons,  *)
(* for every number of start commands.                                     *)
(***************************************************************************)
EXTENDS AgentRegistry, DaemonCapture, FiniteSetTheorems, TLAPS

----------------------------------------------------------------------------
(* Sequences and their elements.                                           *)

LEMMA SetOfAppend ==
    ASSUME NEW S, NEW s \in Seq(S), NEW e \in S
    PROVE  ToSet(Append(s, e)) = ToSet(s) \cup {e}
<1>1. /\ DOMAIN Append(s, e) = 1..(Len(s) + 1)
      /\ DOMAIN s = 1..Len(s)
      /\ Append(s, e)[Len(s) + 1] = e
      /\ \A i \in 1..Len(s) : Append(s, e)[i] = s[i]
      /\ Len(s) \in Nat
  OBVIOUS
<1> QED
  BY <1>1 DEF ToSet

LEMMA SetOfConcat ==
    ASSUME NEW S, NEW s \in Seq(S), NEW t \in Seq(S)
    PROVE  ToSet(s \o t) = ToSet(s) \cup ToSet(t)
<1>1. /\ DOMAIN (s \o t) = 1..(Len(s) + Len(t))
      /\ DOMAIN s = 1..Len(s) /\ DOMAIN t = 1..Len(t)
      /\ \A i \in 1..Len(s) : (s \o t)[i] = s[i]
      /\ \A i \in 1..Len(t) : (s \o t)[Len(s) + i] = t[i]
      /\ Len(s) \in Nat /\ Len(t) \in Nat
  OBVIOUS
<1>2. ToSet(s \o t) \subseteq ToSet(s) \cup ToSet(t)
  <2> SUFFICES ASSUME NEW i \in 1..(Len(s) + Len(t))
               PROVE  (s \o t)[i] \in ToSet(s) \cup ToSet(t)
    BY <1>1 DEF ToSet
  <2>1. CASE i <= Len(s)
    BY <1>1, <2>1 DEF ToSet
  <2>2. CASE i > Len(s)
    <3>1. i - Len(s) \in 1..Len(t) /\ i = Len(s) + (i - Len(s))
      BY <1>1, <2>2
    <3> QED
      BY <1>1, <3>1 DEF ToSet
  <2> QED
    BY <1>1, <2>1, <2>2
<1>3. ToSet(s) \cup ToSet(t) \subseteq ToSet(s \o t)
  <2>1. \A i \in 1..Len(t) : Len(s) + i \in 1..(Len(s) + Len(t))
    BY <1>1
  <2>2. \A i \in 1..Len(t) : t[i] \in ToSet(s \o t)
    BY <1>1, <2>1 DEF ToSet
  <2>3. \A i \in 1..Len(s) : s[i] \in ToSet(s \o t)
    BY <1>1 DEF ToSet
  <2> QED
    BY <1>1, <2>2, <2>3 DEF ToSet
<1> QED
  BY <1>2, <1>3

LEMMA SetOfEmpty == ToSet(<<>>) = {}
  BY DEF ToSet

----------------------------------------------------------------------------
(* Types.                                                                  *)

LEMMA RegisterTypes ==
    ASSUME TypeOK, NEW a \in Agent, AgentRegister(a)
    PROVE  /\ seq + 1 \in Id /\ seq' = seq + 1
           /\ agents' = agents \cup {seq + 1}
           /\ seq' \in 0..MaxAgents
           /\ agents' \in SUBSET Id
           /\ commands' \in [Id -> Seq(Command)]
           /\ owner' \in [Id -> Agent \cup {Nobody}]
           /\ shown' \in [Id -> {"capturing", "done"}]
           /\ myId' \in [Agent -> Id \cup {NoId}]
<1>1. seq \in Nat /\ seq < MaxAgents /\ MaxAgents \in Nat
  BY RegistryAssumption DEF AgentRegister, TypeOK
<1>2. seq + 1 \in Id /\ seq' = seq + 1 /\ seq' \in 0..MaxAgents
  BY <1>1 DEF AgentRegister, Id
<1>3. agents' = agents \cup {seq + 1} /\ agents' \in SUBSET Id
  BY <1>2 DEF AgentRegister, TypeOK
<1>4. /\ commands' \in [Id -> Seq(Command)]
      /\ owner' \in [Id -> Agent \cup {Nobody}]
      /\ shown' \in [Id -> {"capturing", "done"}]
  BY <1>2 DEF AgentRegister, TypeOK
<1>5. myId' \in [Agent -> Id \cup {NoId}]
  <2>1. myId \in [Agent -> Id \cup {NoId}]
    BY DEF TypeOK
  <2>2. \E i \in Id \cup {NoId} : myId' = [myId EXCEPT ![a] = i]
    BY <1>2 DEF AgentRegister
  <2> QED
    BY <2>1, <2>2
<1> QED
  BY <1>2, <1>3, <1>4, <1>5

\* What a registration changes, id by id and agent by agent.
LEMMA RegisterChanges ==
    ASSUME TypeOK, NEW a \in Agent, AgentRegister(a)
    PROVE  /\ seq + 1 \in Id
           /\ owner'[seq + 1] = a /\ commands'[seq + 1] = <<>>
           /\ \A i \in Id \ {seq + 1} : owner'[i] = owner[i] /\ commands'[i] = commands[i]
           /\ myId'[a] \in {seq + 1, NoId}
           /\ \A b \in Agent \ {a} : myId'[b] = myId[b]
           /\ UNCHANGED <<reply, issued, target, executed, lost>>
<1>1. seq + 1 \in Id /\ seq' = seq + 1
  BY RegisterTypes
<1>2. owner'[seq + 1] = a /\ \A i \in Id \ {seq + 1} : owner'[i] = owner[i]
  <2>1. owner \in [Id -> Agent \cup {Nobody}]
    BY DEF TypeOK
  <2>2. owner' = [owner EXCEPT ![seq + 1] = a]
    BY <1>1 DEF AgentRegister
  <2> QED
    BY <1>1, <2>1, <2>2
<1>3. commands'[seq + 1] = <<>> /\ \A i \in Id \ {seq + 1} : commands'[i] = commands[i]
  <2>1. commands \in [Id -> Seq(Command)]
    BY DEF TypeOK
  <2>2. commands' = [commands EXCEPT ![seq + 1] = <<>>]
    BY <1>1 DEF AgentRegister
  <2> QED
    BY <1>1, <2>1, <2>2
<1>4. myId'[a] \in {seq + 1, NoId} /\ \A b \in Agent \ {a} : myId'[b] = myId[b]
  <2>1. myId \in [Agent -> Id \cup {NoId}]
    BY DEF TypeOK
  <2>2. PICK i \in {seq + 1, NoId} : myId' = [myId EXCEPT ![a] = i]
    BY <1>1 DEF AgentRegister
  <2> QED
    BY <2>1, <2>2
<1>5. UNCHANGED <<reply, issued, target, executed, lost>>
  BY DEF AgentRegister
<1> QED
  BY <1>1, <1>2, <1>3, <1>4, <1>5

LEMMA OverTypes ==
    ASSUME TypeOK, NEW r \in Reporter, NEW beat \in ABeat, Over(r, beat)
    PROVE  /\ beats' \in [Reporter -> SUBSET ABeat]
           /\ phase' \in [Reporter -> {"off", "capturing", "finishing", "over"}]
  BY DEF Over, TypeOK

LEMMA SendTypes ==
    ASSUME TypeOK, NEW r \in Reporter, HeartbeatLoop(r) \/ Finish(r)
    PROVE  TypeOK'
<1>1. PICK beat \in ABeat : beats' = [beats EXCEPT ![r] = @ \cup {beat}]
  <2>1. /\ <<"loop", "capturing">> \in ABeat
        /\ <<"loop", "done">> \in ABeat
        /\ <<"final", "done">> \in ABeat
    BY DEF ABeat
  <2>2. CASE HeartbeatLoop(r)
    BY <2>1, <2>2 DEF HeartbeatLoop, Sends
  <2>3. CASE Finish(r)
    BY <2>1, <2>3 DEF Finish, Sends
  <2> QED
    BY <2>2, <2>3
<1>2. beats' \in [Reporter -> SUBSET ABeat]
  <2>1. beats \in [Reporter -> SUBSET ABeat]
    BY DEF TypeOK
  <2> QED
    BY <1>1, <2>1
<1>3. phase' = phase \/ phase' = [phase EXCEPT ![r] = "finishing"]
  BY DEF HeartbeatLoop, Finish
<1>4. phase' \in [Reporter -> {"off", "capturing", "finishing", "over"}]
  <2>1. phase \in [Reporter -> {"off", "capturing", "finishing", "over"}]
    BY DEF TypeOK
  <2> QED
    BY <1>3, <2>1
<1>5. UNCHANGED <<agents, seq, commands, owner, shown, myId, reply, issued, target, executed,
                  restarts, lost, overtaken>>
  BY DEF HeartbeatLoop, Finish, Sends
<1> QED
  BY <1>2, <1>4, <1>5 DEF TypeOK

LEMMA NextTypes == ASSUME TypeOK, [Next]_vars PROVE TypeOK'
<1> USE DEF TypeOK, reporting
<1>1. ASSUME NEW d \in Daemon, RunDaemon(d)
      PROVE  TypeOK'
  BY <1>1, RegisterTypes DEF RunDaemon, AgentRegister, Agent
<1>2. ASSUME NEW d \in Daemon, AgentHeartbeat(d)
      PROVE  TypeOK'
  <2>1. ASSUME NEW handed \in Seq(Command), NEW left \in [Id -> Seq(Command)],
               Hand(d, handed, left)
        PROVE  TypeOK'
    BY <2>1 DEF Hand
  <2>2. <<>> \in Seq(Command)
    OBVIOUS
  <2>3. CASE myId[d] \in agents
    <3>1. commands[myId[d]] \in Seq(Command)
      BY <2>3
    <3>2. [commands EXCEPT ![myId[d]] = <<>>] \in [Id -> Seq(Command)]
      BY <2>2
    <3>3. Hand(d, commands[myId[d]], [commands EXCEPT ![myId[d]] = <<>>])
      BY <1>2, <2>3 DEF AgentHeartbeat
    <3> QED
      BY <2>1, <3>1, <3>2, <3>3
  <2>4. CASE myId[d] \notin agents
    BY <1>2, <2>1, <2>2, <2>4 DEF AgentHeartbeat
  <2> QED
    BY <2>3, <2>4
<1>3. ASSUME NEW d \in Daemon, Beat(d)
      PROVE  TypeOK'
  <2>1. NoReply \in [sent : BOOLEAN, commands : Seq(Command)]
    BY DEF NoReply
  <2>2. executed[d] \o reply[d].commands \in Seq(Command)
    OBVIOUS
  <2> QED
    BY <1>3, <2>1, <2>2 DEF Beat
<1>4. ASSUME NEW d \in Daemon, LoseReply(d)
      PROVE  TypeOK'
  <2>1. NoReply \in [sent : BOOLEAN, commands : Seq(Command)]
    BY DEF NoReply
  <2>2. ToSet(reply[d].commands) \subseteq Command
    BY DEF ToSet
  <2> QED
    BY <1>4, <2>1, <2>2 DEF LoseReply
<1>5. ASSUME NEW r \in Reporter, Connect(r)
      PROVE  TypeOK'
  BY <1>5, RegisterTypes DEF Connect, AgentRegister, Agent
<1>6. ASSUME NEW r \in Reporter, HeartbeatLoop(r) \/ Finish(r)
      PROVE  TypeOK'
  BY <1>6, SendTypes
<1>7. ASSUME NEW r \in Reporter, NEW beat \in ABeat, BeatAnswered(r, beat) \/ BeatFails(r, beat)
      PROVE  TypeOK'
  <2>1. /\ beats' \in [Reporter -> SUBSET ABeat]
        /\ phase' \in [Reporter -> {"off", "capturing", "finishing", "over"}]
        /\ UNCHANGED <<agents, seq, owner, myId, reply, issued, target, executed, restarts>>
    BY <1>7, OverTypes DEF BeatAnswered, BeatFails, Over
  <2>2. /\ shown' \in [Id -> {"capturing", "done"}]
        /\ lost' \in SUBSET Command
        /\ commands' \in [Id -> Seq(Command)]
    <3>1. beat[2] \in {"capturing", "done"}
      BY DEF ABeat
    <3>2. \A i \in Id : ToSet(commands[i]) \subseteq Command
      BY DEF ToSet
    <3>3. CASE UNCHANGED <<shown, lost, commands>>
      BY <3>3
    <3>4. CASE /\ myId[r] \in agents
               /\ shown' = [shown EXCEPT ![myId[r]] = beat[2]]
               /\ lost' = lost \cup ToSet(commands[myId[r]])
               /\ commands' = [commands EXCEPT ![myId[r]] = <<>>]
      BY <3>1, <3>2, <3>4
    <3> QED
      BY <1>7, <3>3, <3>4 DEF BeatAnswered, BeatFails
  <2>3. overtaken' \in [Reporter -> BOOLEAN]
    BY <1>7 DEF BeatAnswered, BeatFails
  <2> QED
    BY <2>1, <2>2, <2>3
<1>8. ASSUME NEW i \in Id, NEW c \in Command, AgentCommand(i, c)
      PROVE  TypeOK'
  BY <1>8 DEF AgentCommand
<1>9. CASE RestartDashboard
  <2>1. \A i \in Id : ToSet(commands[i]) \subseteq Command
    BY DEF ToSet
  <2>2. restarts' \in 0..MaxRestarts /\ seq' \in 0..MaxAgents
    BY <1>9, RegistryAssumption DEF RestartDashboard
  <2> QED
    BY <1>9, <2>1, <2>2 DEF RestartDashboard
<1>10. CASE UNCHANGED vars
  BY <1>10 DEF vars
<1> QED
  BY <1>1, <1>2, <1>3, <1>4, <1>5, <1>6, <1>7, <1>8, <1>9, <1>10 DEF Next

\* Type correctness: a record, a queue or a reply only ever holds what was
\* registered or issued.
THEOREM TypeCorrect == Spec => []TypeOK
<1>1. Init => TypeOK
  BY RegistryAssumption DEF Init, TypeOK, NoReply, Id, NoId
<1>2. TypeOK /\ [Next]_vars => TypeOK'
  BY NextTypes
<1> QED
  BY <1>1, <1>2, PTL DEF Spec

----------------------------------------------------------------------------
(* RightDaemon.  A command travels from a queue to a reply to a daemon's    *)
(* past, and every station of it belongs to the daemon it was given for, as *)
(* long as no id is given twice.                                            *)

\* Who has an id is on its record, and the ids on record are the ones given.
IdsOwned ==
    /\ agents = 1..seq
    /\ \A a \in Agent : myId[a] # NoId => myId[a] \in agents /\ owner[myId[a]] = a

CommandsOwned ==
    /\ \A i \in Id : \A c \in ToSet(commands[i]) : c \in ToSet(issued) /\ target[c] = owner[i]
    /\ \A d \in Daemon : \A c \in ToSet(reply[d].commands) : c \in ToSet(issued) /\ target[c] = d
    /\ \A d \in Daemon : \A c \in ToSet(executed[d]) : c \in ToSet(issued) /\ target[c] = d

Owned == IdsOwned /\ CommandsOwned

\* A step that gives no id and hands nothing on.
LEMMA OwnedKept ==
    ASSUME Owned,
           UNCHANGED <<agents, seq, owner, myId, issued, target, reply, executed>>,
           \A i \in Id : ToSet(commands'[i]) \subseteq ToSet(commands[i])
    PROVE  Owned'
<1>1. IdsOwned'
  BY DEF Owned, IdsOwned
<1>2. CommandsOwned'
  BY DEF Owned, CommandsOwned
<1> QED
  BY <1>1, <1>2 DEF Owned

LEMMA RegisterOwned ==
    ASSUME TypeOK, Owned, NEW a \in Agent, AgentRegister(a)
    PROVE  Owned'
<1>1. /\ seq \in Nat /\ seq + 1 \in Id /\ seq' = seq + 1
      /\ agents' = agents \cup {seq + 1}
      /\ seq + 1 \notin agents
  BY RegisterTypes DEF Owned, IdsOwned, TypeOK
<1>2. /\ owner'[seq + 1] = a
      /\ \A i \in Id \ {seq + 1} : owner'[i] = owner[i] /\ commands'[i] = commands[i]
      /\ commands'[seq + 1] = <<>>
      /\ myId'[a] \in {seq + 1, NoId}
      /\ \A b \in Agent \ {a} : myId'[b] = myId[b]
      /\ UNCHANGED <<reply, issued, target, executed>>
  BY RegisterChanges
<1>3. IdsOwned'
  <2>1. agents' = 1..seq'
    BY <1>1 DEF Owned, IdsOwned
  <2>2. ASSUME NEW b \in Agent, myId'[b] # NoId
        PROVE  myId'[b] \in agents' /\ owner'[myId'[b]] = b
    <3>1. CASE b = a
      BY <1>1, <1>2, <2>2, <3>1
    <3>2. CASE b # a
      <4>1. myId'[b] = myId[b] /\ myId[b] \in agents /\ owner[myId[b]] = b
        BY <1>2, <2>2, <3>2 DEF Owned, IdsOwned
      <4>2. myId[b] \in Id \ {seq + 1}
        BY <1>1, <4>1 DEF TypeOK
      <4> QED
        BY <1>1, <1>2, <4>1, <4>2
    <3> QED
      BY <3>1, <3>2
  <2> QED
    BY <2>1, <2>2 DEF IdsOwned
<1>4. CommandsOwned'
  BY <1>1, <1>2, SetOfEmpty DEF Owned, CommandsOwned
<1> QED
  BY <1>3, <1>4 DEF Owned

LEMMA HeartbeatOwned ==
    ASSUME TypeOK, Owned, NEW d \in Daemon, AgentHeartbeat(d)
    PROVE  Owned'
<1>1. UNCHANGED <<agents, seq, owner, myId, issued, target, executed>>
  BY DEF AgentHeartbeat, Hand
<1>2. IdsOwned'
  BY <1>1 DEF Owned, IdsOwned
<1>3. ASSUME \A c \in ToSet(reply'[d].commands) : c \in ToSet(issued) /\ target[c] = d,
             \A e \in Daemon \ {d} : reply'[e] = reply[e],
             \A i \in Id : ToSet(commands'[i]) \subseteq ToSet(commands[i])
      PROVE  Owned'
  <2>1. CommandsOwned'
    BY <1>1, <1>3 DEF Owned, CommandsOwned
  <2> QED
    BY <1>2, <2>1 DEF Owned
<1>4. CASE myId[d] \in agents
  <2>1. /\ myId[d] \in Id /\ owner[myId[d]] = d
        /\ commands[myId[d]] \in Seq(Command)
    BY <1>4, RegistryAssumption DEF Owned, IdsOwned, TypeOK, Agent, Id, NoId
  <2>2. /\ reply' = [reply EXCEPT ![d] = [sent |-> TRUE, commands |-> commands[myId[d]]]]
        /\ commands' = [commands EXCEPT ![myId[d]] = <<>>]
    BY <1>4 DEF AgentHeartbeat, Hand
  <2>3. \A i \in Id : ToSet(commands'[i]) \subseteq ToSet(commands[i])
    BY <2>2, SetOfEmpty DEF TypeOK
  <2>4. \A c \in ToSet(commands[myId[d]]) : c \in ToSet(issued) /\ target[c] = d
    BY <2>1 DEF Owned, CommandsOwned
  <2>5. /\ reply'[d].commands = commands[myId[d]]
        /\ \A e \in Daemon \ {d} : reply'[e] = reply[e]
    BY <2>2 DEF TypeOK
  <2> QED
    BY <1>3, <2>3, <2>4, <2>5
<1>5. CASE myId[d] \notin agents
  <2>1. /\ reply' = [reply EXCEPT ![d] = [sent |-> TRUE, commands |-> <<>>]]
        /\ commands' = commands
    BY <1>5 DEF AgentHeartbeat, Hand
  <2>2. /\ reply'[d].commands = <<>>
        /\ \A e \in Daemon \ {d} : reply'[e] = reply[e]
    BY <2>1 DEF TypeOK
  <2> QED
    BY <1>3, <2>1, <2>2, SetOfEmpty
<1> QED
  BY <1>4, <1>5

LEMMA ReplyOwned ==
    ASSUME TypeOK, Owned, NEW d \in Daemon, Beat(d) \/ LoseReply(d)
    PROVE  Owned'
<1>1. UNCHANGED <<agents, seq, owner, myId, issued, target, commands>>
  BY DEF Beat, LoseReply
<1>2. /\ reply'[d].commands = <<>>
      /\ \A e \in Daemon \ {d} : reply'[e] = reply[e]
  BY DEF Beat, LoseReply, NoReply, TypeOK
<1>3. /\ ToSet(executed'[d]) \subseteq ToSet(executed[d]) \cup ToSet(reply[d].commands)
      /\ \A e \in Daemon \ {d} : executed'[e] = executed[e]
  <2>1. CASE Beat(d)
    <3>1. /\ executed'[d] = executed[d] \o reply[d].commands
          /\ \A e \in Daemon \ {d} : executed'[e] = executed[e]
          /\ executed[d] \in Seq(Command) /\ reply[d].commands \in Seq(Command)
      BY <2>1 DEF Beat, TypeOK
    <3> QED
      BY <3>1, SetOfConcat
  <2>2. CASE LoseReply(d)
    BY <2>2 DEF LoseReply
  <2> QED
    BY <2>1, <2>2
<1>4. IdsOwned'
  BY <1>1 DEF Owned, IdsOwned
<1>5. CommandsOwned'
  BY <1>1, <1>2, <1>3, SetOfEmpty DEF Owned, CommandsOwned
<1> QED
  BY <1>4, <1>5 DEF Owned

LEMMA CommandOwned ==
    ASSUME TypeOK, Owned, NEW i \in Id, NEW c \in Command, AgentCommand(i, c)
    PROVE  Owned'
<1>1. /\ UNCHANGED <<agents, seq, owner, myId, reply, executed>>
      /\ c \notin ToSet(issued)
      /\ ToSet(issued') = ToSet(issued) \cup {c}
      /\ ToSet(commands'[i]) = ToSet(commands[i]) \cup {c}
      /\ \A j \in Id \ {i} : commands'[j] = commands[j]
      /\ target'[c] = owner[i]
      /\ \A e \in Command \ {c} : target'[e] = target[e]
  BY SetOfAppend DEF AgentCommand, TypeOK
<1>2. \A e \in ToSet(issued) : e \in Command /\ target'[e] = target[e]
  BY <1>1 DEF TypeOK, ToSet
<1>3. IdsOwned'
  BY <1>1 DEF Owned, IdsOwned
<1>4. CommandsOwned'
  BY <1>1, <1>2 DEF Owned, CommandsOwned
<1> QED
  BY <1>3, <1>4 DEF Owned

\* While the dashboard was never restarted.
OwnedAtFirst == restarts = 0 => Owned

LEMMA OnlyRestarts ==
    ASSUME TypeOK, [Next]_vars, ~RestartDashboard
    PROVE  restarts' = restarts
<1>1. ASSUME NEW d \in Daemon, RunDaemon(d) \/ AgentHeartbeat(d) \/ Beat(d) \/ LoseReply(d)
      PROVE  restarts' = restarts
  BY <1>1 DEF RunDaemon, AgentRegister, AgentHeartbeat, Hand, Beat, LoseReply
<1>2. ASSUME NEW r \in Reporter, Connect(r) \/ HeartbeatLoop(r) \/ Finish(r)
      PROVE  restarts' = restarts
  BY <1>2 DEF Connect, AgentRegister, HeartbeatLoop, Finish, Sends
<1>3. ASSUME NEW r \in Reporter, NEW beat \in ABeat, BeatAnswered(r, beat) \/ BeatFails(r, beat)
      PROVE  restarts' = restarts
  BY <1>3 DEF BeatAnswered, BeatFails, Over
<1>4. ASSUME NEW i \in Id, NEW c \in Command, AgentCommand(i, c)
      PROVE  restarts' = restarts
  BY <1>4 DEF AgentCommand
<1>5. CASE UNCHANGED vars
  BY <1>5 DEF vars
<1> QED
  BY <1>1, <1>2, <1>3, <1>4, <1>5 DEF Next

LEMMA NextOwned ==
    ASSUME TypeOK, OwnedAtFirst, [Next]_vars
    PROVE  OwnedAtFirst'
<1> SUFFICES ASSUME restarts' = 0 PROVE Owned'
  BY DEF OwnedAtFirst
<1>1. ~RestartDashboard
  BY DEF RestartDashboard, TypeOK
<1>2. restarts' = restarts
  BY <1>1, OnlyRestarts
<1>3. Owned
  BY <1>2 DEF OwnedAtFirst
<1>4. ASSUME NEW r \in Reporter, Connect(r)
      PROVE  Owned'
  BY <1>3, <1>4, RegisterOwned DEF Connect, Agent
<1>5. ASSUME NEW d \in Daemon, RunDaemon(d)
      PROVE  Owned'
  BY <1>3, <1>5, RegisterOwned DEF RunDaemon, Agent
<1>6. ASSUME NEW r \in Reporter, HeartbeatLoop(r) \/ Finish(r)
      PROVE  Owned'
  BY <1>3, <1>6, OwnedKept DEF HeartbeatLoop, Finish, Sends
<1>7. ASSUME NEW r \in Reporter, NEW beat \in ABeat, BeatAnswered(r, beat) \/ BeatFails(r, beat)
      PROVE  Owned'
  <2>1. UNCHANGED <<agents, seq, owner, myId, issued, target, reply, executed>>
    BY <1>7 DEF BeatAnswered, BeatFails, Over
  <2>2. \A i \in Id : ToSet(commands'[i]) \subseteq ToSet(commands[i])
    BY <1>7, SetOfEmpty DEF BeatAnswered, BeatFails, TypeOK
  <2> QED
    BY <1>3, <2>1, <2>2, OwnedKept
<1>8. CASE UNCHANGED vars
  BY <1>3, <1>8, OwnedKept DEF vars
<1> QED
  BY <1>1, <1>3, <1>4, <1>5, <1>6, <1>7, <1>8, HeartbeatOwned, ReplyOwned, CommandOwned
     DEF Next

LEMMA AlwaysOwned == Spec => [](TypeOK /\ OwnedAtFirst)
<1>1. Init => TypeOK /\ OwnedAtFirst
  <2>1. Init => TypeOK
    BY RegistryAssumption DEF Init, TypeOK, NoReply, Id, NoId
  <2>2. Init => Owned
    BY SetOfEmpty DEF Init, Owned, IdsOwned, CommandsOwned, NoReply
  <2> QED
    BY <2>1, <2>2 DEF OwnedAtFirst
<1>2. TypeOK /\ OwnedAtFirst /\ [Next]_vars => TypeOK' /\ OwnedAtFirst'
  BY NextTypes, NextOwned
<1> QED
  BY <1>1, <1>2, PTL DEF Spec

\* Whatever is lost and however often daemons restart: until the dashboard is
\* restarted a daemon only executes commands that were given for it.
THEOREM RightDaemonAlways == Spec => []RightDaemon
<1>1. TypeOK /\ OwnedAtFirst => RightDaemon
  BY DEF OwnedAtFirst, Owned, CommandsOwned, RightDaemon
<1> QED
  BY <1>1, AlwaysOwned, PTL

----------------------------------------------------------------------------
(* InOrder.  What a daemon has executed was given before what is in its     *)
(* reply, and that before what its queue holds: a new queue is empty, and a *)
(* new command is the last of all.                                          *)

Before(q, c, e) == \E m, n \in DOMAIN q : m < n /\ q[m] = c /\ q[n] = e
Sorted(q, s) == \A k, l \in DOMAIN s : k < l => Before(q, s[k], s[l])
AllBefore(q, S, T) == \A c \in S, e \in T : Before(q, c, e)
Distinct(q) == \A m, n \in DOMAIN q : q[m] = q[n] => m = n

Ordered ==
    /\ Distinct(issued)
    /\ \A i \in Id : Sorted(issued, commands[i]) /\ ToSet(commands[i]) \subseteq ToSet(issued)
    /\ \A d \in Daemon :
        /\ Sorted(issued, executed[d])
        /\ Sorted(issued, reply[d].commands)
        /\ ToSet(executed[d]) \subseteq ToSet(issued)
        /\ ToSet(reply[d].commands) \subseteq ToSet(issued)
        /\ AllBefore(issued, ToSet(executed[d]), ToSet(reply[d].commands))
        /\ myId[d] # NoId =>
            /\ AllBefore(issued, ToSet(executed[d]), ToSet(commands[myId[d]]))
            /\ AllBefore(issued, ToSet(reply[d].commands), ToSet(commands[myId[d]]))

LEMMA SortedConcat ==
    ASSUME NEW S, NEW q, NEW s \in Seq(S), NEW t \in Seq(S),
           Sorted(q, s), Sorted(q, t), AllBefore(q, ToSet(s), ToSet(t))
    PROVE  Sorted(q, s \o t)
<1>1. /\ DOMAIN (s \o t) = 1..(Len(s) + Len(t))
      /\ DOMAIN s = 1..Len(s) /\ DOMAIN t = 1..Len(t)
      /\ \A i \in 1..Len(s) : (s \o t)[i] = s[i]
      /\ \A i \in 1..Len(t) : (s \o t)[Len(s) + i] = t[i]
      /\ Len(s) \in Nat /\ Len(t) \in Nat
  OBVIOUS
<1>2. \A i \in 1..(Len(s) + Len(t)) :
          \/ i \in 1..Len(s) /\ (s \o t)[i] = s[i]
          \/ i > Len(s) /\ i - Len(s) \in 1..Len(t) /\ (s \o t)[i] = t[i - Len(s)]
  <2> SUFFICES ASSUME NEW i \in 1..(Len(s) + Len(t)), i > Len(s)
               PROVE  i - Len(s) \in 1..Len(t) /\ (s \o t)[i] = t[i - Len(s)]
    BY <1>1
  <2>1. i - Len(s) \in 1..Len(t) /\ i = Len(s) + (i - Len(s))
    BY <1>1
  <2> QED
    BY <1>1, <2>1
<1> SUFFICES ASSUME NEW k \in 1..(Len(s) + Len(t)), NEW l \in 1..(Len(s) + Len(t)), k < l
             PROVE  Before(q, (s \o t)[k], (s \o t)[l])
  BY <1>1 DEF Sorted
<1> DEFINE u == s \o t
<1>3. \/ k \in 1..Len(s) /\ u[k] = s[k]
      \/ k > Len(s) /\ k - Len(s) \in 1..Len(t) /\ u[k] = t[k - Len(s)]
  BY <1>2
<1>4. \/ l \in 1..Len(s) /\ u[l] = s[l]
      \/ l > Len(s) /\ l - Len(s) \in 1..Len(t) /\ u[l] = t[l - Len(s)]
  BY <1>2
<1> HIDE DEF u
<1>5. CASE l \in 1..Len(s) /\ u[l] = s[l]
  BY <1>1, <1>3, <1>5 DEF Sorted, u
<1>6. CASE /\ k \in 1..Len(s) /\ u[k] = s[k]
           /\ l - Len(s) \in 1..Len(t) /\ u[l] = t[l - Len(s)]
  BY <1>1, <1>6 DEF AllBefore, ToSet, u
<1>7. CASE /\ k - Len(s) \in 1..Len(t) /\ u[k] = t[k - Len(s)]
           /\ l - Len(s) \in 1..Len(t) /\ u[l] = t[l - Len(s)]
  <2>1. k - Len(s) < l - Len(s)
    BY <1>1
  <2> QED
    BY <1>1, <1>7, <2>1 DEF Sorted, u
<1> QED
  BY <1>3, <1>4, <1>5, <1>6, <1>7

\* What a new command changes: it comes after everything.
LEMMA NewCommandIsLast ==
    ASSUME NEW S, NEW q \in Seq(S), NEW c \in S, c \notin ToSet(q), Distinct(q)
    PROVE  /\ Distinct(Append(q, c))
           /\ \A a, b : Before(q, a, b) => Before(Append(q, c), a, b)
           /\ \A a \in ToSet(q) : Before(Append(q, c), a, c)
<1> DEFINE p == Append(q, c)
<1>1. /\ DOMAIN p = 1..(Len(q) + 1) /\ DOMAIN q = 1..Len(q)
      /\ p[Len(q) + 1] = c
      /\ \A i \in 1..Len(q) : p[i] = q[i]
      /\ Len(q) \in Nat
  OBVIOUS
<1> HIDE DEF p
<1>2. \A i \in 1..Len(q) : q[i] # c
  BY <1>1 DEF ToSet
<1>3. Distinct(p)
  BY <1>1, <1>2 DEF Distinct
<1>4. \A a, b : Before(q, a, b) => Before(p, a, b)
  <2> SUFFICES ASSUME NEW a, NEW b, Before(q, a, b) PROVE Before(p, a, b)
    OBVIOUS
  <2>1. PICK m \in DOMAIN q, n \in DOMAIN q : m < n /\ q[m] = a /\ q[n] = b
    BY DEF Before
  <2>2. m \in DOMAIN p /\ n \in DOMAIN p /\ p[m] = a /\ p[n] = b
    BY <1>1, <2>1
  <2> QED
    BY <2>1, <2>2 DEF Before
<1>5. \A a \in ToSet(q) : Before(p, a, c)
  <2> SUFFICES ASSUME NEW i \in 1..Len(q) PROVE Before(p, q[i], c)
    BY <1>1 DEF ToSet
  <2>1. i \in DOMAIN p /\ Len(q) + 1 \in DOMAIN p /\ i < Len(q) + 1 /\ p[i] = q[i]
    BY <1>1
  <2> QED
    BY <1>1, <2>1 DEF Before
<1> QED
  BY <1>3, <1>4, <1>5 DEF p

LEMMA SortedAppend ==
    ASSUME NEW S, NEW q, NEW s \in Seq(S), NEW c \in S, Sorted(q, s),
           \A a \in ToSet(s) : Before(q, a, c)
    PROVE  Sorted(q, Append(s, c))
<1> DEFINE u == Append(s, c)
<1>1. /\ DOMAIN u = 1..(Len(s) + 1) /\ DOMAIN s = 1..Len(s)
      /\ u[Len(s) + 1] = c
      /\ \A i \in 1..Len(s) : u[i] = s[i]
      /\ Len(s) \in Nat
  OBVIOUS
<1> HIDE DEF u
<1> SUFFICES ASSUME NEW k \in 1..(Len(s) + 1), NEW l \in 1..(Len(s) + 1), k < l
             PROVE  Before(q, u[k], u[l])
  BY <1>1 DEF Sorted, u
<1>2. k \in 1..Len(s) /\ u[k] = s[k]
  BY <1>1
<1>3. CASE l \in 1..Len(s)
  BY <1>1, <1>2, <1>3 DEF Sorted
<1>4. CASE l = Len(s) + 1
  BY <1>1, <1>2, <1>4 DEF ToSet
<1> QED
  BY <1>1, <1>3, <1>4

LEMMA NothingBefore ==
    \A q, T : Sorted(q, <<>>) /\ AllBefore(q, T, ToSet(<<>>)) /\ AllBefore(q, ToSet(<<>>), T)
  BY SetOfEmpty DEF Sorted, AllBefore

\* A step that at most forgets queues: what is queued for a daemon is what was,
\* or nothing.
Forgets ==
    /\ UNCHANGED <<issued, reply, executed>>
    /\ \A i \in Id : commands'[i] \in {commands[i], <<>>}
    /\ \A d \in Daemon : \/ myId'[d] \in {myId[d], NoId}
                         \/ commands'[myId'[d]] = <<>>

LEMMA OrderKept == ASSUME TypeOK, Ordered, Forgets PROVE Ordered'
<1> USE DEF Forgets
<1>0. \A d \in Daemon : myId[d] \in Id \cup {NoId}
  BY DEF TypeOK, Agent
<1>1. \A i \in Id : Sorted(issued, commands'[i]) /\ ToSet(commands'[i]) \subseteq ToSet(issued)
  BY NothingBefore, SetOfEmpty DEF Ordered
<1>2. ASSUME NEW d \in Daemon, myId'[d] # NoId
      PROVE  /\ AllBefore(issued, ToSet(executed[d]), ToSet(commands'[myId'[d]]))
             /\ AllBefore(issued, ToSet(reply[d].commands), ToSet(commands'[myId'[d]]))
  <2>1. CASE commands'[myId'[d]] = <<>>
    BY <2>1, NothingBefore
  <2>2. CASE myId'[d] = myId[d] /\ commands'[myId[d]] = commands[myId[d]]
    BY <1>2, <2>2 DEF Ordered
  <2> QED
    BY <1>0, <1>2, <2>1, <2>2
<1> QED
  BY <1>1, <1>2 DEF Ordered

LEMMA HeartbeatOrdered ==
    ASSUME TypeOK, Ordered, NEW d \in Daemon, AgentHeartbeat(d)
    PROVE  Ordered'
<1>1. UNCHANGED <<issued, myId, executed>> /\ myId[d] \in Id
  BY DEF AgentHeartbeat, Hand, TypeOK, Agent
<1>2. CASE myId[d] \in agents
  <2> DEFINE queue == commands[myId[d]]
  <2>1. /\ reply'[d].commands = queue
        /\ \A e \in Daemon \ {d} : reply'[e] = reply[e]
        /\ commands'[myId[d]] = <<>>
        /\ \A i \in Id \ {myId[d]} : commands'[i] = commands[i]
    BY <1>1, <1>2 DEF AgentHeartbeat, Hand, TypeOK
  <2>2. /\ Sorted(issued, queue)
        /\ ToSet(queue) \subseteq ToSet(issued)
        /\ AllBefore(issued, ToSet(executed[d]), ToSet(queue))
    BY <1>1, RegistryAssumption DEF Ordered, Id, NoId
  <2> HIDE DEF queue
  <2>3. \A i \in Id : Sorted(issued, commands'[i]) /\ ToSet(commands'[i]) \subseteq ToSet(issued)
    BY <2>1, NothingBefore, SetOfEmpty DEF Ordered
  <2>4. \A e \in Daemon :
            /\ Sorted(issued, reply'[e].commands)
            /\ ToSet(reply'[e].commands) \subseteq ToSet(issued)
            /\ AllBefore(issued, ToSet(executed[e]), ToSet(reply'[e].commands))
    BY <2>1, <2>2 DEF Ordered
  <2>5. ASSUME NEW e \in Daemon, myId[e] # NoId
        PROVE  /\ AllBefore(issued, ToSet(executed[e]), ToSet(commands'[myId[e]]))
               /\ AllBefore(issued, ToSet(reply'[e].commands), ToSet(commands'[myId[e]]))
    <3>1. CASE myId[e] = myId[d]
      BY <2>1, <3>1, NothingBefore
    <3>2. CASE myId[e] # myId[d]
      <4>1. myId[e] \in Id
        BY <2>5 DEF TypeOK, Agent
      <4>2. commands'[myId[e]] = commands[myId[e]] /\ reply'[e] = reply[e]
        BY <2>1, <3>2, <4>1
      <4> QED
        BY <2>5, <4>2 DEF Ordered
    <3> QED
      BY <3>1, <3>2
  <2> QED
    BY <1>1, <2>3, <2>4, <2>5 DEF Ordered
<1>3. CASE myId[d] \notin agents
  <2>1. /\ reply'[d].commands = <<>>
        /\ \A e \in Daemon \ {d} : reply'[e] = reply[e]
        /\ commands' = commands
    BY <1>3 DEF AgentHeartbeat, Hand, TypeOK
  <2> QED
    BY <1>1, <2>1, NothingBefore, SetOfEmpty DEF Ordered
<1> QED
  BY <1>2, <1>3

LEMMA ReplyOrdered ==
    ASSUME TypeOK, Ordered, NEW d \in Daemon, Beat(d) \/ LoseReply(d)
    PROVE  Ordered'
<1>1. UNCHANGED <<issued, myId, commands>>
  BY DEF Beat, LoseReply
<1>2. /\ reply'[d].commands = <<>>
      /\ \A e \in Daemon \ {d} : reply'[e] = reply[e] /\ executed'[e] = executed[e]
  BY DEF Beat, LoseReply, NoReply, TypeOK
<1>3. /\ Sorted(issued, executed'[d])
      /\ ToSet(executed'[d]) \subseteq ToSet(executed[d]) \cup ToSet(reply[d].commands)
  <2>1. CASE Beat(d)
    <3>1. /\ executed'[d] = executed[d] \o reply[d].commands
          /\ executed[d] \in Seq(Command) /\ reply[d].commands \in Seq(Command)
      BY <2>1 DEF Beat, TypeOK
    <3>2. Sorted(issued, executed[d] \o reply[d].commands)
      BY <3>1, SortedConcat DEF Ordered
    <3> QED
      BY <3>1, <3>2, SetOfConcat
  <2>2. CASE LoseReply(d)
    BY <2>2 DEF LoseReply, Ordered
  <2> QED
    BY <2>1, <2>2
<1>4. /\ ToSet(executed'[d]) \subseteq ToSet(issued)
      /\ myId[d] # NoId => AllBefore(issued, ToSet(executed'[d]), ToSet(commands[myId[d]]))
  BY <1>3 DEF Ordered, AllBefore
<1>5. \A e \in Daemon :
          /\ Sorted(issued, executed'[e])
          /\ Sorted(issued, reply'[e].commands)
          /\ ToSet(executed'[e]) \subseteq ToSet(issued)
          /\ ToSet(reply'[e].commands) \subseteq ToSet(issued)
          /\ AllBefore(issued, ToSet(executed'[e]), ToSet(reply'[e].commands))
          /\ myId[e] # NoId =>
              /\ AllBefore(issued, ToSet(executed'[e]), ToSet(commands[myId[e]]))
              /\ AllBefore(issued, ToSet(reply'[e].commands), ToSet(commands[myId[e]]))
  <2>1. \A e \in Daemon \ {d} : reply'[e] = reply[e] /\ executed'[e] = executed[e]
    BY <1>2
  <2> QED
    BY <1>2, <1>3, <1>4, <2>1, NothingBefore, SetOfEmpty DEF Ordered
<1> QED
  BY <1>1, <1>5 DEF Ordered

LEMMA CommandOrdered ==
    ASSUME TypeOK, Ordered, NEW i \in Id, NEW c \in Command, AgentCommand(i, c)
    PROVE  Ordered'
<1>1. /\ UNCHANGED <<myId, reply, executed>>
      /\ c \notin ToSet(issued) /\ issued \in Seq(Command)
      /\ issued' = Append(issued, c)
      /\ commands[i] \in Seq(Command)
      /\ commands'[i] = Append(commands[i], c)
      /\ \A j \in Id \ {i} : commands'[j] = commands[j]
  BY DEF AgentCommand, TypeOK
<1>2. /\ Distinct(issued')
      /\ \A a, b : Before(issued, a, b) => Before(issued', a, b)
      /\ \A a \in ToSet(issued) : Before(issued', a, c)
  BY <1>1, NewCommandIsLast DEF Ordered
<1>3. /\ ToSet(issued') = ToSet(issued) \cup {c}
      /\ ToSet(commands'[i]) = ToSet(commands[i]) \cup {c}
  BY <1>1, SetOfAppend
<1>4. /\ \A s : Sorted(issued, s) => Sorted(issued', s)
      /\ \A T, U : AllBefore(issued, T, U) => AllBefore(issued', T, U)
  BY <1>2 DEF Sorted, AllBefore
<1>5. Sorted(issued', commands'[i])
  <2>1. Sorted(issued', commands[i]) /\ \A a \in ToSet(commands[i]) : Before(issued', a, c)
    BY <1>2, <1>4 DEF Ordered
  <2> QED
    BY <1>1, <2>1, SortedAppend
<1>6. \A j \in Id : Sorted(issued', commands'[j]) /\ ToSet(commands'[j]) \subseteq ToSet(issued')
  BY <1>1, <1>3, <1>4, <1>5 DEF Ordered
<1>7. ASSUME NEW d \in Daemon, NEW T, T \subseteq ToSet(issued), myId[d] # NoId,
             AllBefore(issued, T, ToSet(commands[myId[d]]))
      PROVE  AllBefore(issued', T, ToSet(commands'[myId[d]]))
  <2>1. CASE myId[d] = i
    BY <1>2, <1>3, <1>7, <2>1 DEF AllBefore
  <2>2. CASE myId[d] # i
    <3>1. commands'[myId[d]] = commands[myId[d]]
      BY <1>1, <1>7, <2>2 DEF TypeOK, Agent
    <3> QED
      BY <1>4, <1>7, <3>1
  <2> QED
    BY <2>1, <2>2
<1>8. ASSUME NEW d \in Daemon
      PROVE  /\ Sorted(issued', executed[d])
             /\ Sorted(issued', reply[d].commands)
             /\ ToSet(executed[d]) \subseteq ToSet(issued')
             /\ ToSet(reply[d].commands) \subseteq ToSet(issued')
             /\ AllBefore(issued', ToSet(executed[d]), ToSet(reply[d].commands))
             /\ myId[d] # NoId =>
                 /\ AllBefore(issued', ToSet(executed[d]), ToSet(commands'[myId[d]]))
                 /\ AllBefore(issued', ToSet(reply[d].commands), ToSet(commands'[myId[d]]))
  BY <1>3, <1>4, <1>7 DEF Ordered
<1> QED
  BY <1>1, <1>2, <1>6, <1>8 DEF Ordered

LEMMA NextOrdered == ASSUME TypeOK, Ordered, [Next]_vars PROVE Ordered'
<1>1. ASSUME NEW a \in Agent, AgentRegister(a)
      PROVE  Ordered'
  <2>1. /\ seq + 1 \in Id
        /\ commands'[seq + 1] = <<>>
        /\ \A i \in Id \ {seq + 1} : commands'[i] = commands[i]
        /\ myId'[a] \in {seq + 1, NoId}
        /\ \A b \in Agent \ {a} : myId'[b] = myId[b]
        /\ UNCHANGED <<reply, issued, executed>>
    BY <1>1, RegisterChanges
  <2>2. \A i \in Id : commands'[i] \in {commands[i], <<>>}
    BY <2>1
  <2>3. ASSUME NEW d \in Daemon
        PROVE  \/ myId'[d] \in {myId[d], NoId}
               \/ commands'[myId'[d]] = <<>>
    <3>1. CASE d = a
      <4>1. myId'[d] = NoId \/ commands'[myId'[d]] = <<>>
        BY <2>1, <3>1
      <4> QED
        BY <4>1
    <3>2. CASE d # a
      BY <2>1, <3>2 DEF Agent
    <3> QED
      BY <3>1, <3>2
  <2>4. Forgets
    BY <2>1, <2>2, <2>3 DEF Forgets
  <2> QED
    BY <2>4, OrderKept
<1>2. ASSUME NEW r \in Reporter, HeartbeatLoop(r) \/ Finish(r)
      PROVE  Ordered'
  <2>1. Forgets
    BY <1>2 DEF HeartbeatLoop, Finish, Sends, Forgets
  <2> QED
    BY <2>1, OrderKept
<1>3. ASSUME NEW r \in Reporter, NEW beat \in ABeat, BeatAnswered(r, beat) \/ BeatFails(r, beat)
      PROVE  Ordered'
  <2>1. UNCHANGED <<myId, issued, reply, executed>>
    BY <1>3 DEF BeatAnswered, BeatFails, Over
  <2>2. \A i \in Id : commands'[i] \in {commands[i], <<>>}
    BY <1>3 DEF BeatAnswered, BeatFails, TypeOK
  <2>3. Forgets
    BY <2>1, <2>2 DEF Forgets
  <2> QED
    BY <2>3, OrderKept
<1>4. CASE RestartDashboard
  <2>1. Forgets
    BY <1>4 DEF RestartDashboard, Forgets
  <2> QED
    BY <2>1, OrderKept
<1>5. CASE UNCHANGED vars
  <2>1. Forgets
    BY <1>5 DEF vars, Forgets
  <2> QED
    BY <2>1, OrderKept
<1> QED
  BY <1>1, <1>2, <1>3, <1>4, <1>5, HeartbeatOrdered, ReplyOrdered, CommandOrdered
     DEF Next, RunDaemon, Connect, Agent

\* Whatever is lost, whoever restarts: a daemon executes commands in the order in
\* which the operator gave them.
THEOREM InOrderAlways == Spec => []InOrder
<1>1. Init => TypeOK /\ Ordered
  <2>1. Init => TypeOK
    BY RegistryAssumption DEF Init, TypeOK, NoReply, Id, NoId
  <2>2. Init => Ordered
    <3> SUFFICES ASSUME Init PROVE Ordered
      OBVIOUS
    <3>1. /\ issued = <<>>
          /\ \A i \in Id : commands[i] = <<>>
          /\ \A d \in Daemon : executed[d] = <<>> /\ reply[d].commands = <<>>
      BY DEF Init, NoReply
    <3>2. Distinct(issued)
      BY <3>1 DEF Distinct
    <3>3. \A d \in Daemon : myId[d] = NoId
      BY DEF Init, Agent
    <3> QED
      BY <3>1, <3>2, <3>3, SetOfEmpty, NothingBefore DEF Ordered
  <2> QED
    BY <2>1, <2>2
<1>2. TypeOK /\ Ordered /\ [Next]_vars => TypeOK' /\ Ordered'
  BY NextTypes, NextOrdered
<1>3. TypeOK /\ Ordered => InOrder
  <2> SUFFICES ASSUME Ordered, NEW d \in Daemon, NEW k \in DOMAIN executed[d],
                      NEW l \in DOMAIN executed[d], NEW m \in DOMAIN issued,
                      NEW n \in DOMAIN issued, k < l,
                      executed[d][k] = issued[m], executed[d][l] = issued[n]
               PROVE  m < n
    BY DEF InOrder
  <2>1. PICK x \in DOMAIN issued, y \in DOMAIN issued :
            x < y /\ issued[x] = executed[d][k] /\ issued[y] = executed[d][l]
    BY DEF Ordered, Sorted, Before
  <2>2. x = m /\ y = n
    BY <2>1 DEF Ordered, Distinct
  <2> QED
    BY <2>1, <2>2
<1> QED
  BY <1>1, <1>2, <1>3, PTL DEF Spec

----------------------------------------------------------------------------
(* FinishIsShown.  A reporter's record is its own, its final heartbeat is   *)
(* sent once, and after it only a belated one can tell anything but done.   *)

ShownDone ==
    \A r \in Reporter :
        /\ phase[r] = "off" => beats[r] = {}
        /\ phase[r] \in {"capturing", "over"} => <<"final", "done">> \notin beats[r]
        /\ <<"final", "capturing">> \notin beats[r]
        /\ phase[r] = "over" /\ myId[r] # NoId /\ ~overtaken[r] => shown[myId[r]] = "done"

LEMMA BeatShown ==
    ASSUME TypeOK, Owned, ShownDone, NEW r \in Reporter, NEW beat \in ABeat,
           BeatAnswered(r, beat) \/ BeatFails(r, beat)
    PROVE  ShownDone'
<1>1. /\ UNCHANGED myId
      /\ beat \in beats[r]
      /\ beats'[r] = beats[r] \ {beat}
      /\ phase'[r] = IF beat[1] = "final" THEN "over" ELSE phase[r]
      /\ \A q \in Reporter \ {r} : beats'[q] = beats[q] /\ phase'[q] = phase[q]
      /\ \A q \in Reporter \ {r} : overtaken'[q] = overtaken[q]
  BY DEF BeatAnswered, BeatFails, Over, TypeOK
<1>2. ASSUME NEW q \in Reporter \ {r}, myId[q] # NoId
      PROVE  shown'[myId[q]] = shown[myId[q]]
  <2>1. myId[q] \in Id /\ (myId[r] # NoId => myId[q] # myId[r])
    BY <1>2 DEF Owned, IdsOwned, TypeOK, Agent
  <2>2. NoId \notin agents
    BY DEF TypeOK, Id, NoId
  <2> QED
    BY <2>1, <2>2 DEF BeatAnswered, BeatFails, TypeOK
<1>3. /\ beat = <<beat[1], beat[2]>>
      /\ beat[1] \in {"loop", "final"}
      /\ beat[2] \in {"capturing", "done"}
      /\ <<"final", "done">>[1] = "final"
      /\ <<"loop", "capturing">>[1] = "loop"
  BY DEF ABeat
<1>4. beat[1] = "final" => beat = <<"final", "done">> /\ beat[2] = "done"
  BY <1>1, <1>3 DEF ShownDone
<1>5. ASSUME phase'[r] = "over", myId[r] # NoId, ~overtaken'[r]
      PROVE  shown'[myId[r]] = "done"
  <2>1. myId[r] \in agents /\ myId[r] \in Id
    BY <1>5 DEF Owned, IdsOwned, TypeOK, Agent
  <2>2. CASE BeatAnswered(r, beat)
    <3>1. /\ shown'[myId[r]] = beat[2]
          /\ overtaken'[r] = (overtaken[r] \/ (phase[r] = "over" /\ beat = <<"loop", "capturing">>))
      BY <2>1, <2>2 DEF BeatAnswered, TypeOK
    <3>2. CASE beat[1] = "final"
      BY <1>4, <3>1, <3>2
    <3>3. CASE beat[1] = "loop"
      <4>1. phase[r] = "over"
        BY <1>1, <1>5, <3>3
      <4> QED
        BY <1>3, <1>5, <3>1, <3>3, <4>1
    <3> QED
      BY <1>3, <3>2, <3>3
  <2>3. CASE BeatFails(r, beat)
    <3>1. shown' = shown /\ overtaken'[r] = (overtaken[r] \/ beat[1] = "final")
      BY <2>3 DEF BeatFails, TypeOK
    <3>2. phase[r] = "over" /\ ~overtaken[r]
      BY <1>1, <1>5, <3>1
    <3> QED
      BY <1>5, <3>1, <3>2 DEF ShownDone
  <2> QED
    BY <2>2, <2>3
<1>6. /\ phase'[r] = "off" => beats'[r] = {}
      /\ phase'[r] \in {"capturing", "over"} => <<"final", "done">> \notin beats'[r]
      /\ <<"final", "capturing">> \notin beats'[r]
  BY <1>1, <1>3, <1>4 DEF ShownDone
<1> QED
  BY <1>1, <1>2, <1>5, <1>6 DEF ShownDone

LEMMA RegisterShown ==
    ASSUME TypeOK, Owned, ShownDone, NEW a \in Agent, AgentRegister(a),
           UNCHANGED <<beats, overtaken>>,
           \/ a \in Daemon /\ UNCHANGED phase
           \/ /\ a \in Reporter /\ phase[a] = "off"
              /\ phase' = [phase EXCEPT ![a] = IF myId'[a] = NoId THEN "over" ELSE "capturing"]
    PROVE  ShownDone'
<1>1. /\ \A b \in Agent \ {a} : myId'[b] = myId[b]
      /\ \A i \in Id \ {seq + 1} : shown'[i] = shown[i]
  BY RegisterTypes DEF AgentRegister, TypeOK
<1>2. \A b \in Agent : myId[b] # NoId => myId[b] \in Id \ {seq + 1}
  BY RegisterTypes DEF Owned, IdsOwned, TypeOK
<1>3. ASSUME NEW r \in Reporter, r # a
      PROVE  /\ phase'[r] = phase[r] /\ myId'[r] = myId[r]
             /\ myId[r] # NoId => shown'[myId[r]] = shown[myId[r]]
  BY <1>1, <1>2, <1>3 DEF TypeOK, Agent
<1>4. a \in Reporter => /\ phase'[a] = IF myId'[a] = NoId THEN "over" ELSE "capturing"
                        /\ beats[a] = {}
  BY RegistryAssumption DEF ShownDone, TypeOK
<1> QED
  BY <1>3, <1>4 DEF ShownDone

LEMMA NextShown ==
    ASSUME TypeOK, Owned, ShownDone, [Next]_vars, restarts' = 0
    PROVE  ShownDone'
<1>1. ASSUME NEW d \in Daemon, RunDaemon(d)
      PROVE  ShownDone'
  BY <1>1, RegisterShown DEF RunDaemon, reporting, Agent
<1>2. ASSUME NEW r \in Reporter, Connect(r)
      PROVE  ShownDone'
  BY <1>2, RegisterShown DEF Connect, Agent
<1>3. ASSUME NEW r \in Reporter, NEW beat \in ABeat, Sends(r, beat),
             \A q \in Reporter \ {r} : phase'[q] = phase[q],
             \/ beat \in {<<"loop", "capturing">>, <<"loop", "done">>}
                /\ phase[r] # "off" /\ phase' = phase
             \/ beat = <<"final", "done">> /\ phase'[r] = "finishing"
      PROVE  ShownDone'
  <2>1. /\ beats'[r] = beats[r] \cup {beat}
        /\ \A q \in Reporter \ {r} : beats'[q] = beats[q]
        /\ UNCHANGED <<myId, shown, overtaken>>
    BY <1>3 DEF Sends, TypeOK
  <2>2. /\ <<"loop", "capturing">> # <<"final", "capturing">>
        /\ <<"loop", "capturing">> # <<"final", "done">>
        /\ <<"loop", "done">> # <<"final", "capturing">>
        /\ <<"loop", "done">> # <<"final", "done">>
        /\ <<"final", "done">> # <<"final", "capturing">>
    OBVIOUS
  <2> QED
    BY <1>3, <2>1, <2>2 DEF ShownDone
<1>4. ASSUME NEW r \in Reporter, HeartbeatLoop(r) \/ Finish(r)
      PROVE  ShownDone'
  <2>1. /\ <<"loop", "capturing">> \in ABeat
        /\ <<"loop", "done">> \in ABeat
        /\ <<"final", "done">> \in ABeat
    BY DEF ABeat
  <2>2. CASE HeartbeatLoop(r)
    BY <1>3, <2>1, <2>2 DEF HeartbeatLoop
  <2>3. CASE Finish(r)
    <3>1. phase'[r] = "finishing" /\ \A q \in Reporter \ {r} : phase'[q] = phase[q]
      BY <2>3 DEF Finish, TypeOK
    <3> QED
      BY <1>3, <2>1, <2>3, <3>1 DEF Finish
  <2> QED
    BY <1>4, <2>2, <2>3
<1>5. ASSUME UNCHANGED <<myId, shown, phase, beats, overtaken>>
      PROVE  ShownDone'
  BY <1>5 DEF ShownDone
<1>6. ASSUME NEW d \in Daemon, AgentHeartbeat(d) \/ Beat(d) \/ LoseReply(d)
      PROVE  ShownDone'
  BY <1>5, <1>6 DEF AgentHeartbeat, Hand, Beat, LoseReply, reporting
<1>7. ASSUME NEW i \in Id, NEW c \in Command, AgentCommand(i, c)
      PROVE  ShownDone'
  BY <1>5, <1>7 DEF AgentCommand, reporting
<1>8. ~RestartDashboard
  BY DEF RestartDashboard, TypeOK
<1>9. CASE UNCHANGED vars
  BY <1>5, <1>9 DEF vars, reporting
<1> QED
  BY <1>1, <1>2, <1>4, <1>6, <1>7, <1>8, <1>9, BeatShown DEF Next

\* However heartbeats of reporters and daemons interleave: after Finish the
\* record shows done, unless its heartbeat failed, was overtaken, or the
\* dashboard restarted.
THEOREM FinishAlwaysShown == Spec => []FinishIsShown
<1> DEFINE ShownAtFirst == restarts = 0 => ShownDone
<1>1. Init => ShownAtFirst
  BY DEF Init, ShownDone
<1>2. /\ TypeOK /\ OwnedAtFirst /\ ShownAtFirst
      /\ (TypeOK /\ OwnedAtFirst)' /\ [Next]_vars
      => ShownAtFirst'
  <2> SUFFICES ASSUME TypeOK, OwnedAtFirst, ShownAtFirst, [Next]_vars, restarts' = 0
               PROVE  ShownDone'
    OBVIOUS
  <2>1. ~RestartDashboard
    BY DEF RestartDashboard, TypeOK
  <2>2. restarts = 0
    BY <2>1, OnlyRestarts
  <2> QED
    BY <2>2, NextShown DEF OwnedAtFirst
<1>3. ShownAtFirst => FinishIsShown
  BY DEF ShownDone, FinishIsShown
<1> QED
  BY <1>1, <1>2, <1>3, AlwaysOwned, PTL DEF Spec
----------------------------------------------------------------------------
(* ExactlyOnce.  Commands move between places -- the queues, the replies    *)
(* and the daemons' pasts -- one sequence at a time: a place is emptied     *)
(* into another or for good, and a new command is added to one.             *)

LEMMA EmptyIsDistinct == Distinct(<<>>)
  BY DEF Distinct

LEMMA DistinctConcat ==
    ASSUME NEW S, NEW s \in Seq(S), NEW t \in Seq(S), Distinct(s), Distinct(t),
           ToSet(s) \cap ToSet(t) = {}
    PROVE  Distinct(s \o t)
<1> DEFINE u == s \o t
<1>1. /\ DOMAIN s = 1..Len(s) /\ DOMAIN t = 1..Len(t)
      /\ DOMAIN u = 1..(Len(s) + Len(t))
      /\ \A i \in 1..Len(s) : u[i] = s[i]
      /\ \A i \in 1..Len(t) : u[Len(s) + i] = t[i]
      /\ Len(s) \in Nat /\ Len(t) \in Nat
  OBVIOUS
<1> HIDE DEF u
<1>2. \A i \in DOMAIN u : \/ i \in DOMAIN s /\ u[i] = s[i]
                          \/ i - Len(s) \in DOMAIN t /\ u[i] = t[i - Len(s)]
  <2> SUFFICES ASSUME NEW i \in 1..(Len(s) + Len(t)), i > Len(s)
               PROVE  i - Len(s) \in 1..Len(t) /\ u[i] = t[i - Len(s)]
    BY <1>1
  <2>1. i - Len(s) \in 1..Len(t) /\ i = Len(s) + (i - Len(s))
    BY <1>1
  <2> QED
    BY <1>1, <2>1
<1>3. \A i \in DOMAIN s, j \in DOMAIN t : s[i] # t[j]
  BY DEF ToSet
<1> SUFFICES ASSUME NEW m \in DOMAIN u, NEW n \in DOMAIN u, u[m] = u[n]
             PROVE  m = n
  BY DEF Distinct, u
<1>4. CASE m \in DOMAIN s /\ u[m] = s[m] /\ n \in DOMAIN s /\ u[n] = s[n]
  BY <1>4 DEF Distinct
<1>5. CASE /\ m - Len(s) \in DOMAIN t /\ u[m] = t[m - Len(s)]
           /\ n - Len(s) \in DOMAIN t /\ u[n] = t[n - Len(s)]
  <2>1. m - Len(s) = n - Len(s)
    BY <1>5 DEF Distinct
  <2>2. m \in Int /\ n \in Int
    BY <1>1
  <2> QED
    BY <1>1, <2>1, <2>2
<1> QED
  BY <1>2, <1>3, <1>4, <1>5

\* The sequences f of the places P hold the commands I without those in L, each
\* once.
Placed(P, f, I, L) ==
    /\ L \subseteq I
    /\ \A p \in P : Distinct(f[p]) /\ ToSet(f[p]) \subseteq I \ L
    /\ \A p, q \in P : p # q => ToSet(f[p]) \cap ToSet(f[q]) = {}
    /\ \A c \in I \ L : \E p \in P : c \in ToSet(f[p])

\* The places S are emptied for good.
LEMMA PlacesForget ==
    ASSUME NEW P, NEW f, NEW g, NEW I, NEW L, NEW S \in SUBSET P, Placed(P, f, I, L),
           \A p \in S : g[p] = <<>>,
           \A p \in P \ S : g[p] = f[p]
    PROVE  Placed(P, g, I, L \cup UNION {ToSet(f[p]) : p \in S})
<1> DEFINE gone == UNION {ToSet(f[p]) : p \in S}
<1>1. \A c : c \in gone <=> \E p \in S : c \in ToSet(f[p])
  OBVIOUS
<1> HIDE DEF gone
<1>2. \A p \in S : Distinct(g[p]) /\ ToSet(g[p]) = {}
  BY EmptyIsDistinct, SetOfEmpty
<1>3. L \cup gone \subseteq I
  BY <1>1 DEF Placed
<1>4. \A p \in P : Distinct(g[p]) /\ ToSet(g[p]) \subseteq I \ (L \cup gone)
  <2> SUFFICES ASSUME NEW p \in P \ S
               PROVE  Distinct(f[p]) /\ ToSet(f[p]) \subseteq I \ (L \cup gone)
    BY <1>2
  <2>1. \A q \in S : ToSet(f[p]) \cap ToSet(f[q]) = {}
    BY DEF Placed
  <2> QED
    BY <1>1, <2>1 DEF Placed
<1>5. \A p, q \in P : p # q => ToSet(g[p]) \cap ToSet(g[q]) = {}
  BY <1>2 DEF Placed
<1>6. \A c \in I \ (L \cup gone) : \E p \in P : c \in ToSet(g[p])
  BY <1>1 DEF Placed
<1> QED
  BY <1>3, <1>4, <1>5, <1>6 DEF Placed, gone

\* The place l is emptied into the place m.
LEMMA PlacesMove ==
    ASSUME NEW C, NEW P, NEW f, NEW g, NEW I, NEW L, Placed(P, f, I, L),
           NEW l \in P, NEW m \in P, l # m, f[l] \in Seq(C), f[m] \in Seq(C),
           g[l] = <<>>, g[m] = f[m] \o f[l],
           \A p \in P \ {l, m} : g[p] = f[p]
    PROVE  Placed(P, g, I, L)
<1>1. Distinct(g[l]) /\ ToSet(g[l]) = {}
  BY EmptyIsDistinct, SetOfEmpty
<1>2. ToSet(g[m]) = ToSet(f[m]) \cup ToSet(f[l])
  BY SetOfConcat
<1>3. Distinct(g[m])
  <2>1. Distinct(f[m]) /\ Distinct(f[l]) /\ ToSet(f[m]) \cap ToSet(f[l]) = {}
    BY DEF Placed
  <2> QED
    BY <2>1, DistinctConcat
<1>4. \A p \in P : Distinct(g[p]) /\ ToSet(g[p]) \subseteq I \ L
  BY <1>1, <1>2, <1>3 DEF Placed
<1>5. \A p, q \in P : p # q => ToSet(g[p]) \cap ToSet(g[q]) = {}
  <2>1. \A p \in P \ {m} : ToSet(g[p]) \subseteq ToSet(f[p])
    BY <1>1
  <2>2. \A p \in P \ {m} : ToSet(g[p]) \cap ToSet(g[m]) = {}
    <3> SUFFICES ASSUME NEW p \in P \ {l, m}
                 PROVE  ToSet(f[p]) \cap (ToSet(f[m]) \cup ToSet(f[l])) = {}
      BY <1>1, <1>2
    <3>1. ToSet(f[p]) \cap ToSet(f[m]) = {} /\ ToSet(f[p]) \cap ToSet(f[l]) = {}
      BY DEF Placed
    <3> QED
      BY <3>1
  <2>3. \A p, q \in P \ {m} : p # q => ToSet(g[p]) \cap ToSet(g[q]) = {}
    BY <2>1 DEF Placed
  <2> QED
    BY <2>2, <2>3
<1>6. \A c \in I \ L : \E p \in P : c \in ToSet(g[p])
  BY <1>2 DEF Placed
<1> QED
  BY <1>4, <1>5, <1>6 DEF Placed

\* A new command is added to the place m.
LEMMA PlacesAdd ==
    ASSUME NEW C, NEW P, NEW f, NEW g, NEW I, NEW L, Placed(P, f, I, L),
           NEW m \in P, NEW c \in C, c \notin I, f[m] \in Seq(C),
           g[m] = Append(f[m], c),
           \A p \in P \ {m} : g[p] = f[p]
    PROVE  Placed(P, g, I \cup {c}, L)
<1>1. c \notin L /\ \A p \in P : c \notin ToSet(f[p])
  BY DEF Placed
<1>2. ToSet(g[m]) = ToSet(f[m]) \cup {c}
  BY SetOfAppend
<1>3. Distinct(g[m])
  <2>1. Distinct(f[m]) /\ c \notin ToSet(f[m])
    BY <1>1 DEF Placed
  <2> QED
    BY <2>1, NewCommandIsLast
<1>4. \A p \in P : Distinct(g[p]) /\ ToSet(g[p]) \subseteq (I \cup {c}) \ L
  BY <1>1, <1>2, <1>3 DEF Placed
<1>5. \A p, q \in P : p # q => ToSet(g[p]) \cap ToSet(g[q]) = {}
  <2>1. \A p \in P \ {m} : ToSet(f[p]) \cap (ToSet(f[m]) \cup {c}) = {}
    <3> SUFFICES ASSUME NEW p \in P \ {m}
                 PROVE  ToSet(f[p]) \cap (ToSet(f[m]) \cup {c}) = {}
      OBVIOUS
    <3>1. ToSet(f[p]) \cap ToSet(f[m]) = {} /\ c \notin ToSet(f[p])
      BY <1>1 DEF Placed
    <3> QED
      BY <3>1
  <2>2. \A p \in P \ {m} : ToSet(g[p]) \cap ToSet(g[m]) = {}
    BY <1>2, <2>1
  <2>3. \A p, q \in P \ {m} : p # q => ToSet(g[p]) \cap ToSet(g[q]) = {}
    BY DEF Placed
  <2> QED
    BY <2>2, <2>3
<1>6. \A e \in (I \cup {c}) \ L : \E p \in P : e \in ToSet(g[p])
  BY <1>2 DEF Placed
<1> QED
  BY <1>4, <1>5, <1>6 DEF Placed

\* A sequence that holds c nowhere, and one that holds it once.
LEMMA NoPlaces ==
    ASSUME NEW f, NEW c, \A x \in DOMAIN f : c \notin ToSet(f[x])
    PROVE  Cardinality(Places(f, c)) = 0
<1>1. \A x \in DOMAIN f : {j \in DOMAIN f[x] : f[x][j] = c} = {}
  BY DEF ToSet
<1>2. Places(f, c) = {}
  BY <1>1 DEF Places
<1> QED
  BY <1>2, FS_EmptySet

LEMMA OnePlace ==
    ASSUME NEW f, NEW c, NEW y \in DOMAIN f, c \in ToSet(f[y]), Distinct(f[y]),
           \A x \in DOMAIN f \ {y} : c \notin ToSet(f[x])
    PROVE  Cardinality(Places(f, c)) = 1
<1>1. PICK k \in DOMAIN f[y] : f[y][k] = c
  BY DEF ToSet
<1>2. {j \in DOMAIN f[y] : f[y][j] = c} = {k}
  BY <1>1 DEF Distinct
<1>3. \A x \in DOMAIN f \ {y} : {j \in DOMAIN f[x] : f[x][j] = c} = {}
  BY DEF ToSet
<1>4. Places(f, c) = {<<y, k>>}
  BY <1>2, <1>3 DEF Places
<1> QED
  BY <1>4, FS_Singleton

\* The places of the registry, and what each holds.
Place == ({"queue"} \X Id) \cup ({"reply", "past"} \X Daemon)

Queue(i) == <<"queue", i>>
Reply(d) == <<"reply", d>>
Past(d) == <<"past", d>>

Holders ==
    [p \in Place |-> CASE p[1] = "queue" -> commands[p[2]]
                       [] p[1] = "reply" -> reply[p[2]].commands
                       [] p[1] = "past" -> executed[p[2]]]

LEMMA PlaceKinds ==
    /\ \A i \in Id : Queue(i) \in Place
    /\ \A d \in Daemon : Reply(d) \in Place /\ Past(d) \in Place
    /\ \A i \in Id, d \in Daemon : Queue(i) # Reply(d) /\ Queue(i) # Past(d)
    /\ \A d, e \in Daemon : Reply(d) # Past(e)
    /\ \A i, j \in Id : Queue(i) = Queue(j) <=> i = j
    /\ \A d, e \in Daemon : (Reply(d) = Reply(e) <=> d = e) /\ (Past(d) = Past(e) <=> d = e)
    /\ \A p \in Place : \/ \E i \in Id : p = Queue(i)
                        \/ \E d \in Daemon : p = Reply(d) \/ p = Past(d)
  BY DEF Place, Queue, Reply, Past

LEMMA Held ==
    /\ \A i \in Id : Holders[Queue(i)] = commands[i]
    /\ \A d \in Daemon : Holders[Reply(d)] = reply[d].commands /\ Holders[Past(d)] = executed[d]
<1>1. \A i \in Id : Queue(i) \in Place /\ Queue(i)[1] = "queue" /\ Queue(i)[2] = i
  BY DEF Place, Queue
<1>2. \A d \in Daemon : /\ Reply(d) \in Place /\ Reply(d)[1] = "reply" /\ Reply(d)[2] = d
                        /\ Past(d) \in Place /\ Past(d)[1] = "past" /\ Past(d)[2] = d
  BY DEF Place, Reply, Past
<1> QED
  BY <1>1, <1>2 DEF Holders

\* The same after a step.
LEMMA HeldNext ==
    /\ \A i \in Id : Holders'[Queue(i)] = commands'[i]
    /\ \A d \in Daemon : Holders'[Reply(d)] = reply'[d].commands
                         /\ Holders'[Past(d)] = executed'[d]
<1>1. \A i \in Id : Queue(i) \in Place /\ Queue(i)[1] = "queue" /\ Queue(i)[2] = i
  BY DEF Place, Queue
<1>2. \A d \in Daemon : /\ Reply(d) \in Place /\ Reply(d)[1] = "reply" /\ Reply(d)[2] = d
                        /\ Past(d) \in Place /\ Past(d)[1] = "past" /\ Past(d)[2] = d
  BY DEF Place, Reply, Past
<1>3. Place' = Place
  BY DEF Place
<1> QED
  BY <1>1, <1>2, <1>3 DEF Holders

\* Ids beyond those on record have empty queues, and a reply that was not sent
\* holds nothing.
Recorded ==
    /\ agents = 1..seq
    /\ \A i \in Id \ agents : commands[i] = <<>>
    /\ \A d \in Daemon : ~reply[d].sent => reply[d].commands = <<>>

AllPlaced == Recorded /\ Placed(Place, Holders, ToSet(issued), lost)

\* A step that moves no command.
LEMMA StaysPlaced ==
    ASSUME AllPlaced, UNCHANGED <<commands, executed, issued, lost>>,
           \A d \in Daemon : reply'[d].commands = reply[d].commands
    PROVE  Placed(Place, Holders', ToSet(issued'), lost')
<1>1. \A p \in Place : Holders'[p] = Holders[p]
  BY PlaceKinds, Held, HeldNext
<1>2. Placed(Place, Holders', ToSet(issued), lost \cup UNION {ToSet(Holders[p]) : p \in {}})
  BY <1>1, PlacesForget DEF AllPlaced
<1> QED
  BY <1>2

\* Queues that are emptied for good: by a reporter that does not read its reply,
\* by a restart of the dashboard.
LEMMA QueuesForgotten ==
    ASSUME AllPlaced, NEW J \in SUBSET Id,
           UNCHANGED <<reply, executed, issued>>,
           \A i \in J : commands'[i] = <<>>,
           \A i \in Id \ J : commands'[i] = commands[i],
           lost' = lost \cup UNION {ToSet(commands[i]) : i \in J}
    PROVE  Placed(Place, Holders', ToSet(issued'), lost')
<1> DEFINE S == {Queue(i) : i \in J}
<1>1. S \in SUBSET Place
  BY PlaceKinds
<1>2. \A p \in S : Holders'[p] = <<>>
  BY HeldNext
<1>3. \A p \in Place \ S : Holders'[p] = Holders[p]
  <2> SUFFICES ASSUME NEW p \in Place \ S PROVE Holders'[p] = Holders[p]
    OBVIOUS
  <2>1. CASE \E i \in Id : p = Queue(i)
    BY <2>1, Held, HeldNext
  <2>2. CASE \E d \in Daemon : p = Reply(d) \/ p = Past(d)
    BY <2>2, Held, HeldNext
  <2> QED
    BY <2>1, <2>2, PlaceKinds
<1>4. UNION {ToSet(Holders[p]) : p \in S} = UNION {ToSet(commands[i]) : i \in J}
  BY Held
<1> HIDE DEF S
<1>5. Placed(Place, Holders', ToSet(issued), lost \cup UNION {ToSet(Holders[p]) : p \in S})
  BY <1>1, <1>2, <1>3, PlacesForget DEF AllPlaced
<1> QED
  BY <1>4, <1>5

LEMMA AnsweredPlaced ==
    ASSUME TypeOK, AllPlaced, NEW r \in Reporter, NEW beat \in ABeat, BeatAnswered(r, beat)
    PROVE  Placed(Place, Holders', ToSet(issued'), lost')
<1>1. UNCHANGED <<reply, executed, issued>>
  BY DEF BeatAnswered, Over
<1>2. CASE myId[r] \in agents
  <2>1. /\ commands' = [commands EXCEPT ![myId[r]] = <<>>]
        /\ lost' = lost \cup ToSet(commands[myId[r]])
    BY <1>2 DEF BeatAnswered
  <2>2. myId[r] \in Id
    BY <1>2 DEF TypeOK
  <2>3. /\ commands'[myId[r]] = <<>>
        /\ \A i \in Id \ {myId[r]} : commands'[i] = commands[i]
    BY <2>1, <2>2 DEF TypeOK
  <2> DEFINE J == {myId[r]}
  <2>4. /\ J \in SUBSET Id
        /\ \A i \in J : commands'[i] = <<>>
        /\ \A i \in Id \ J : commands'[i] = commands[i]
        /\ lost' = lost \cup UNION {ToSet(commands[i]) : i \in J}
    BY <2>1, <2>2, <2>3
  <2> HIDE DEF J
  <2> QED
    BY <1>1, <2>4, QueuesForgotten
<1>3. CASE myId[r] \notin agents
  BY <1>1, <1>3, StaysPlaced DEF BeatAnswered
<1> QED
  BY <1>2, <1>3

LEMMA RestartPlaced ==
    ASSUME AllPlaced, RestartDashboard
    PROVE  Placed(Place, Holders', ToSet(issued'), lost')
<1>1. /\ UNCHANGED <<reply, executed, issued>>
      /\ \A i \in Id : commands'[i] = <<>>
      /\ lost' = lost \cup UNION {ToSet(commands[i]) : i \in Id}
  BY DEF RestartDashboard
<1> QED
  BY <1>1, QueuesForgotten

\* A heartbeat moves a queue into the daemon's reply, which held nothing.
LEMMA HeartbeatPlaced ==
    ASSUME TypeOK, AllPlaced, NEW d \in Daemon, AgentHeartbeat(d)
    PROVE  Placed(Place, Holders', ToSet(issued'), lost')
<1>1. UNCHANGED <<issued, executed, lost>> /\ reply[d].commands = <<>>
  BY DEF AgentHeartbeat, Hand, AllPlaced, Recorded
<1>2. CASE myId[d] \in agents
  <2> DEFINE i == myId[d]
  <2>1. i \in Id
    BY <1>2 DEF TypeOK
  <2>2. /\ reply' = [reply EXCEPT ![d] = [sent |-> TRUE, commands |-> commands[i]]]
        /\ commands' = [commands EXCEPT ![i] = <<>>]
    BY <1>2 DEF AgentHeartbeat, Hand
  <2>3. /\ commands'[i] = <<>>
        /\ \A j \in Id \ {i} : commands'[j] = commands[j]
    BY <2>1, <2>2 DEF TypeOK
  <2>4. /\ reply'[d].commands = commands[i]
        /\ \A e \in Daemon \ {d} : reply'[e] = reply[e]
    BY <2>2 DEF TypeOK
  <2> HIDE DEF i
  <2>5. Holders'[Queue(i)] = <<>>
    BY <2>1, <2>3, HeldNext
  <2>6. \A p \in Place \ {Queue(i), Reply(d)} : Holders'[p] = Holders[p]
    <3> SUFFICES ASSUME NEW p \in Place \ {Queue(i), Reply(d)} PROVE Holders'[p] = Holders[p]
      OBVIOUS
    <3>1. CASE \E j \in Id : p = Queue(j)
      <4>1. PICK j \in Id : p = Queue(j)
        BY <3>1
      <4>2. commands'[j] = commands[j]
        BY <2>3, <4>1
      <4> QED
        BY <4>1, <4>2, Held, HeldNext
    <3>2. CASE \E e \in Daemon : p = Reply(e)
      <4>1. PICK e \in Daemon : p = Reply(e)
        BY <3>2
      <4>2. reply'[e] = reply[e]
        BY <2>4, <4>1
      <4> QED
        BY <4>1, <4>2, Held, HeldNext
    <3>3. CASE \E e \in Daemon : p = Past(e)
      BY <1>1, <3>3, Held, HeldNext
    <3> QED
      BY <3>1, <3>2, <3>3, PlaceKinds
  <2>7. /\ Holders[Queue(i)] \in Seq(Command) /\ Holders[Reply(d)] \in Seq(Command)
        /\ Holders[Reply(d)] = <<>> /\ Holders[Queue(i)] = commands[i]
    <3>1. commands[i] \in Seq(Command) /\ <<>> \in Seq(Command)
      BY <2>1 DEF TypeOK
    <3>2. Holders[Queue(i)] = commands[i]
      BY <2>1, Held
    <3>3. Holders[Reply(d)] = <<>>
      BY <1>1, Held
    <3> QED
      BY <3>1, <3>2, <3>3
  <2>8. Holders'[Reply(d)] = Holders[Reply(d)] \o Holders[Queue(i)]
    <3>1. Holders'[Reply(d)] = Holders[Queue(i)]
      BY <2>4, <2>7, HeldNext
    <3> QED
      BY <2>7, <3>1
  <2>9. /\ Queue(i) \in Place /\ Reply(d) \in Place /\ Queue(i) # Reply(d)
    BY <2>1, PlaceKinds
  <2> QED
    BY <1>1, <2>5, <2>6, <2>7, <2>8, <2>9, PlacesMove DEF AllPlaced
<1>3. CASE myId[d] \notin agents
  <2>1. /\ reply' = [reply EXCEPT ![d] = [sent |-> TRUE, commands |-> <<>>]]
        /\ commands' = commands
    BY <1>3 DEF AgentHeartbeat, Hand
  <2>2. \A e \in Daemon : reply'[e].commands = reply[e].commands
    BY <1>1, <2>1 DEF TypeOK
  <2> QED
    BY <1>1, <2>1, <2>2, StaysPlaced
<1> QED
  BY <1>2, <1>3

\* beat moves the commands of a reply into the daemon's past.
LEMMA BeatPlaced ==
    ASSUME TypeOK, AllPlaced, NEW d \in Daemon, Beat(d)
    PROVE  Placed(Place, Holders', ToSet(issued'), lost')
<1>1. /\ UNCHANGED <<issued, commands, lost>>
      /\ reply'[d].commands = <<>>
      /\ \A e \in Daemon \ {d} : reply'[e] = reply[e] /\ executed'[e] = executed[e]
      /\ executed'[d] = executed[d] \o reply[d].commands
  BY DEF Beat, NoReply, TypeOK
<1>2. Holders'[Reply(d)] = <<>>
  BY <1>1, HeldNext
<1>3. \A p \in Place \ {Reply(d), Past(d)} : Holders'[p] = Holders[p]
  <2> SUFFICES ASSUME NEW p \in Place \ {Reply(d), Past(d)} PROVE Holders'[p] = Holders[p]
    OBVIOUS
  <2>1. CASE \E i \in Id : p = Queue(i)
    BY <1>1, <2>1, Held, HeldNext
  <2>2. CASE \E e \in Daemon : p = Reply(e) \/ p = Past(e)
    <3>1. PICK e \in Daemon : p = Reply(e) \/ p = Past(e)
      BY <2>2
    <3>2. reply'[e] = reply[e] /\ executed'[e] = executed[e]
      BY <1>1, <3>1
    <3> QED
      BY <3>1, <3>2, Held, HeldNext
  <2> QED
    BY <2>1, <2>2, PlaceKinds
<1>4. /\ Holders[Reply(d)] = reply[d].commands
      /\ Holders[Past(d)] = executed[d]
      /\ Holders'[Past(d)] = executed'[d]
  BY Held, HeldNext
<1>5. executed[d] \in Seq(Command) /\ reply[d].commands \in Seq(Command)
  BY DEF TypeOK
<1>6. Reply(d) \in Place /\ Past(d) \in Place /\ Reply(d) # Past(d)
  BY PlaceKinds
<1>7. /\ Holders[Reply(d)] \in Seq(Command) /\ Holders[Past(d)] \in Seq(Command)
      /\ Holders'[Past(d)] = Holders[Past(d)] \o Holders[Reply(d)]
  BY <1>1, <1>4, <1>5
<1> QED
  BY <1>1, <1>2, <1>3, <1>6, <1>7, PlacesMove DEF AllPlaced

\* A reply that does not arrive is forgotten.
LEMMA LostPlaced ==
    ASSUME TypeOK, AllPlaced, NEW d \in Daemon, LoseReply(d)
    PROVE  Placed(Place, Holders', ToSet(issued'), lost')
<1>1. /\ UNCHANGED <<issued, commands, executed>>
      /\ lost' = lost \cup ToSet(reply[d].commands)
      /\ reply'[d].commands = <<>>
      /\ \A e \in Daemon \ {d} : reply'[e] = reply[e]
  BY DEF LoseReply, NoReply, TypeOK
<1> DEFINE S == {Reply(d)}
<1>2. S \in SUBSET Place
  BY PlaceKinds
<1>3. \A p \in S : Holders'[p] = <<>>
  BY <1>1, HeldNext
<1>4. \A p \in Place \ S : Holders'[p] = Holders[p]
  <2> SUFFICES ASSUME NEW p \in Place \ {Reply(d)} PROVE Holders'[p] = Holders[p]
    OBVIOUS
  <2>1. CASE \E i \in Id : p = Queue(i)
    BY <1>1, <2>1, Held, HeldNext
  <2>2. CASE \E e \in Daemon : p = Reply(e)
    BY <1>1, <2>2, Held, HeldNext
  <2>3. CASE \E e \in Daemon : p = Past(e)
    BY <1>1, <2>3, Held, HeldNext
  <2> QED
    BY <2>1, <2>2, <2>3, PlaceKinds
<1>5. lost' = lost \cup UNION {ToSet(Holders[p]) : p \in S}
  BY <1>1, Held
<1> HIDE DEF S
<1> QED
  BY <1>1, <1>2, <1>3, <1>4, <1>5, PlacesForget DEF AllPlaced

\* A new command is added to a queue.
LEMMA CommandPlaced ==
    ASSUME TypeOK, AllPlaced, NEW i \in Id, NEW c \in Command, AgentCommand(i, c)
    PROVE  Placed(Place, Holders', ToSet(issued'), lost')
<1>1. /\ UNCHANGED <<reply, executed, lost>>
      /\ c \notin ToSet(issued) /\ ToSet(issued') = ToSet(issued) \cup {c}
      /\ commands'[i] = Append(commands[i], c)
      /\ \A j \in Id \ {i} : commands'[j] = commands[j]
  BY SetOfAppend DEF AgentCommand, TypeOK
<1>2. /\ Queue(i) \in Place
      /\ Holders[Queue(i)] = commands[i] /\ Holders'[Queue(i)] = commands'[i]
  BY PlaceKinds, Held, HeldNext
<1>3. commands[i] \in Seq(Command)
  BY DEF TypeOK
<1>4. \A p \in Place \ {Queue(i)} : Holders'[p] = Holders[p]
  <2> SUFFICES ASSUME NEW p \in Place \ {Queue(i)} PROVE Holders'[p] = Holders[p]
    OBVIOUS
  <2>1. CASE \E j \in Id : p = Queue(j)
    <3>1. PICK j \in Id : p = Queue(j)
      BY <2>1
    <3>2. commands'[j] = commands[j]
      BY <1>1, <3>1
    <3> QED
      BY <3>1, <3>2, Held, HeldNext
  <2>2. CASE \E d \in Daemon : p = Reply(d) \/ p = Past(d)
    BY <1>1, <2>2, Held, HeldNext
  <2> QED
    BY <2>1, <2>2, PlaceKinds
<1>5. /\ Holders[Queue(i)] \in Seq(Command)
      /\ Holders'[Queue(i)] = Append(Holders[Queue(i)], c)
  BY <1>1, <1>2, <1>3
<1>6. Placed(Place, Holders', ToSet(issued) \cup {c}, lost)
  BY <1>1, <1>2, <1>4, <1>5, PlacesAdd DEF AllPlaced
<1> QED
  BY <1>1, <1>6

\* A new id has an empty queue already: its registration changes no queue.
LEMMA RegisterPlaced ==
    ASSUME TypeOK, AllPlaced, NEW a \in Agent, AgentRegister(a)
    PROVE  AllPlaced'
<1>1. /\ seq + 1 \in Id /\ commands'[seq + 1] = <<>>
      /\ \A i \in Id \ {seq + 1} : commands'[i] = commands[i]
      /\ UNCHANGED <<reply, issued, executed, lost>>
  BY RegisterChanges
<1>2. /\ seq \in Nat /\ seq' = seq + 1 /\ agents' = agents \cup {seq + 1}
      /\ seq + 1 \notin agents
  BY RegisterTypes DEF AllPlaced, Recorded, TypeOK
<1>3. \A i \in Id : commands'[i] = commands[i]
  BY <1>1, <1>2 DEF AllPlaced, Recorded
<1>4. Recorded'
  <2>1. agents' = 1..seq'
    BY <1>2 DEF AllPlaced, Recorded
  <2>2. \A i \in Id \ agents' : commands'[i] = <<>>
    BY <1>2, <1>3 DEF AllPlaced, Recorded
  <2> QED
    BY <1>1, <2>1, <2>2 DEF AllPlaced, Recorded
<1>5. commands' = commands
  <2>1. commands \in [Id -> Seq(Command)] /\ commands' \in [Id -> Seq(Command)]
    BY RegisterTypes DEF TypeOK
  <2> QED
    BY <1>3, <2>1
<1> QED
  BY <1>1, <1>4, <1>5, StaysPlaced DEF AllPlaced

LEMMA RecordedKept ==
    ASSUME TypeOK, Recorded, [Next]_vars,
           \A a \in Agent : ~AgentRegister(a)
    PROVE  Recorded'
<1>1. ASSUME NEW d \in Daemon, AgentHeartbeat(d) \/ Beat(d) \/ LoseReply(d)
      PROVE  Recorded'
  <2>1. UNCHANGED <<agents, seq>>
    BY <1>1 DEF AgentHeartbeat, Hand, Beat, LoseReply
  <2>2. \A i \in Id : commands'[i] \in {commands[i], <<>>}
    BY <1>1 DEF AgentHeartbeat, Hand, Beat, LoseReply, TypeOK
  <2>3. /\ \A e \in Daemon \ {d} : reply'[e] = reply[e]
        /\ ~reply'[d].sent => reply'[d].commands = <<>>
    BY <1>1 DEF AgentHeartbeat, Hand, Beat, LoseReply, NoReply, TypeOK
  <2>4. \A i \in Id \ agents : commands'[i] = <<>>
    BY <2>2 DEF Recorded
  <2>5. \A e \in Daemon : ~reply'[e].sent => reply'[e].commands = <<>>
    BY <2>3 DEF Recorded
  <2> QED
    BY <2>1, <2>4, <2>5 DEF Recorded
<1>2. ASSUME NEW r \in Reporter, HeartbeatLoop(r) \/ Finish(r)
      PROVE  Recorded'
  BY <1>2 DEF HeartbeatLoop, Finish, Sends, Recorded
<1>3. ASSUME NEW r \in Reporter, NEW beat \in ABeat, BeatAnswered(r, beat) \/ BeatFails(r, beat)
      PROVE  Recorded'
  <2>1. UNCHANGED <<agents, seq, reply>>
    BY <1>3 DEF BeatAnswered, BeatFails, Over
  <2>2. \A i \in Id : commands'[i] \in {commands[i], <<>>}
    BY <1>3 DEF BeatAnswered, BeatFails, TypeOK
  <2> QED
    BY <2>1, <2>2 DEF Recorded
<1>4. ASSUME NEW i \in Id, NEW c \in Command, AgentCommand(i, c)
      PROVE  Recorded'
  <2>1. UNCHANGED <<agents, seq, reply>> /\ i \in agents
    BY <1>4 DEF AgentCommand
  <2>2. \A j \in Id \ {i} : commands'[j] = commands[j]
    BY <1>4 DEF AgentCommand, TypeOK
  <2> QED
    BY <2>1, <2>2 DEF Recorded
<1>5. CASE RestartDashboard
  <2>1. agents' = {} /\ seq' = 0 /\ reply' = reply /\ \A i \in Id : commands'[i] = <<>>
    BY <1>5 DEF RestartDashboard
  <2>2. agents' = 1..seq'
    BY <2>1
  <2> QED
    BY <2>1, <2>2 DEF Recorded
<1>6. CASE UNCHANGED vars
  BY <1>6 DEF vars, Recorded
<1> QED
  BY <1>1, <1>2, <1>3, <1>4, <1>5, <1>6 DEF Next, RunDaemon, Connect, Agent

LEMMA NextPlaced == ASSUME TypeOK, AllPlaced, [Next]_vars PROVE AllPlaced'
<1> DEFINE Goal == Placed(Place, Holders', ToSet(issued'), lost')
<1>1. ASSUME NEW a \in Agent, AgentRegister(a)
      PROVE  AllPlaced'
  BY <1>1, RegisterPlaced
<1>2. ASSUME NEW r \in Reporter, HeartbeatLoop(r) \/ Finish(r)
      PROVE  Goal
  BY <1>2, StaysPlaced DEF HeartbeatLoop, Finish, Sends
<1>3. ASSUME NEW r \in Reporter, NEW beat \in ABeat, BeatFails(r, beat)
      PROVE  Goal
  BY <1>3, StaysPlaced DEF BeatFails, Over
<1>4. ASSUME UNCHANGED vars
      PROVE  Goal
  <2>1. UNCHANGED <<commands, reply, executed, issued, lost>>
    BY <1>4 DEF vars
  <2> QED
    BY <2>1, StaysPlaced
<1>5. ASSUME NEW d \in Daemon, AgentHeartbeat(d) \/ Beat(d) \/ LoseReply(d)
      PROVE  Goal
  BY <1>5, HeartbeatPlaced, BeatPlaced, LostPlaced
<1>6. CASE \A a \in Agent : ~AgentRegister(a)
  <2> HIDE DEF Goal
  <2>1. Goal
    <3>1. ASSUME NEW r \in Reporter, NEW beat \in ABeat, BeatAnswered(r, beat)
          PROVE  Goal
      BY <3>1, AnsweredPlaced DEF Goal
    <3>2. ASSUME NEW i \in Id, NEW c \in Command, AgentCommand(i, c)
          PROVE  Goal
      BY <3>2, CommandPlaced DEF Goal
    <3>3. ASSUME RestartDashboard
          PROVE  Goal
      BY <3>3, RestartPlaced DEF Goal
    <3> QED
      BY <1>2, <1>3, <1>4, <1>5, <1>6, <3>1, <3>2, <3>3 DEF Next, RunDaemon, Connect, Agent
  <2>2. Recorded'
    BY <1>6, RecordedKept DEF AllPlaced
  <2> QED
    BY <2>1, <2>2 DEF AllPlaced, Goal
<1> QED
  BY <1>1, <1>6

LEMMA PlacedOnce ==
    ASSUME TypeOK, AllPlaced, NEW c \in ToSet(issued)
    PROVE  Cardinality(Queued(c)) + Cardinality(OnItsWay(c)) + Cardinality(Done(c))
               = IF c \in lost THEN 0 ELSE 1
<1> DEFINE answers == [d \in Daemon |-> reply[d].commands]
<1>1. /\ DOMAIN commands = Id
      /\ DOMAIN executed = Daemon
      /\ DOMAIN answers = Daemon
      /\ \A d \in Daemon : answers[d] = reply[d].commands
  BY DEF TypeOK
<1> HIDE DEF answers
<1>2. CASE c \in lost
  <2>1. \A p \in Place : c \notin ToSet(Holders[p])
    BY <1>2 DEF AllPlaced, Placed
  <2>2. /\ \A i \in Id : c \notin ToSet(commands[i])
        /\ \A d \in Daemon : c \notin ToSet(answers[d]) /\ c \notin ToSet(executed[d])
    BY <1>1, <2>1, PlaceKinds, Held
  <2>3. /\ Cardinality(Places(commands, c)) = 0
        /\ Cardinality(Places(answers, c)) = 0
        /\ Cardinality(Places(executed, c)) = 0
    BY <1>1, <2>2, NoPlaces
  <2> QED
    BY <1>2, <2>3 DEF Queued, OnItsWay, Done, answers
<1>3. CASE c \notin lost
  <2>1. PICK p \in Place : c \in ToSet(Holders[p])
    BY <1>3 DEF AllPlaced, Placed
  <2>2. Distinct(Holders[p]) /\ \A q \in Place \ {p} : c \notin ToSet(Holders[q])
    BY <2>1 DEF AllPlaced, Placed
  <2>3. ASSUME NEW i \in Id, p = Queue(i)
        PROVE  /\ Cardinality(Places(commands, c)) = 1
               /\ Cardinality(Places(answers, c)) = 0
               /\ Cardinality(Places(executed, c)) = 0
    <3>1. /\ c \in ToSet(commands[i]) /\ Distinct(commands[i])
          /\ \A j \in Id \ {i} : c \notin ToSet(commands[j])
          /\ \A d \in Daemon : c \notin ToSet(answers[d]) /\ c \notin ToSet(executed[d])
      BY <1>1, <2>1, <2>2, <2>3, PlaceKinds, Held
    <3> QED
      BY <1>1, <3>1, NoPlaces, OnePlace
  <2>4. ASSUME NEW d \in Daemon, p = Reply(d)
        PROVE  /\ Cardinality(Places(commands, c)) = 0
               /\ Cardinality(Places(answers, c)) = 1
               /\ Cardinality(Places(executed, c)) = 0
    <3>1. /\ c \in ToSet(answers[d]) /\ Distinct(answers[d])
          /\ \A i \in Id : c \notin ToSet(commands[i])
          /\ \A e \in Daemon \ {d} : c \notin ToSet(answers[e])
          /\ \A e \in Daemon : c \notin ToSet(executed[e])
      BY <1>1, <2>1, <2>2, <2>4, PlaceKinds, Held
    <3> QED
      BY <1>1, <3>1, NoPlaces, OnePlace
  <2>5. ASSUME NEW d \in Daemon, p = Past(d)
        PROVE  /\ Cardinality(Places(commands, c)) = 0
               /\ Cardinality(Places(answers, c)) = 0
               /\ Cardinality(Places(executed, c)) = 1
    <3>1. /\ c \in ToSet(executed[d]) /\ Distinct(executed[d])
          /\ \A i \in Id : c \notin ToSet(commands[i])
          /\ \A e \in Daemon \ {d} : c \notin ToSet(executed[e])
          /\ \A e \in Daemon : c \notin ToSet(answers[e])
      BY <1>1, <2>1, <2>2, <2>5, PlaceKinds, Held
    <3> QED
      BY <1>1, <3>1, NoPlaces, OnePlace
  <2>6. Cardinality(Places(commands, c)) + Cardinality(Places(answers, c))
            + Cardinality(Places(executed, c)) = 1
    BY <2>3, <2>4, <2>5, PlaceKinds
  <2> QED
    BY <1>3, <2>6 DEF Queued, OnItsWay, Done, answers
<1> QED
  BY <1>2, <1>3

\* Every command the dashboard has acknowledged is in exactly one queue, reply or
\* daemon's past, unless it is on the record of what was lost: none is executed
\* twice, and none vanishes in any other way.
THEOREM ExactlyOnceAlways == Spec => []ExactlyOnce
<1>1. Init => TypeOK /\ AllPlaced
  <2> SUFFICES ASSUME Init PROVE TypeOK /\ AllPlaced
    OBVIOUS
  <2>1. TypeOK
    BY RegistryAssumption DEF Init, TypeOK, NoReply, Id, NoId
  <2>2. /\ agents = {} /\ seq = 0 /\ lost = {} /\ issued = <<>>
        /\ \A i \in Id : commands[i] = <<>>
        /\ \A d \in Daemon : reply[d].commands = <<>> /\ executed[d] = <<>>
    BY DEF Init, NoReply
  <2>3. agents = 1..seq
    BY <2>2
  <2>4. \A p \in Place : Holders[p] = <<>>
    BY <2>2, PlaceKinds, Held
  <2>5. Placed(Place, Holders, ToSet(issued), lost)
    BY <2>2, <2>4, SetOfEmpty, EmptyIsDistinct DEF Placed
  <2> QED
    BY <2>1, <2>2, <2>3, <2>5 DEF AllPlaced, Recorded
<1>2. TypeOK /\ AllPlaced /\ [Next]_vars => TypeOK' /\ AllPlaced'
  BY NextTypes, NextPlaced
<1>3. TypeOK /\ AllPlaced => ExactlyOnce
  BY PlacedOnce DEF ExactlyOnce
<1> QED
  BY <1>1, <1>2, <1>3, PTL DEF Spec

----------------------------------------------------------------------------
(* The captures of one daemon: DaemonCapture.                              *)

\* What has not started yet, and what the daemon's fields may refer to.
Fields ==
    /\ \A c \in Capture : c > started => runner[c] = "unborn"
    /\ cancelled \subseteq 1..started
    /\ autoStop \in {None, started}

\* Captures that record although nobody has told them to stop.
Loose == Recording \ cancelled

\* No capture fails behind the back of the next one: who opens or has failed is
\* the latest.  So is who is loose, and the daemon knows of it.
LatestAlone ==
    /\ \A c \in Capture : runner[c] \in {"opening", "failed"} => c = started
    /\ \A c \in Loose : c = started /\ running /\ timer[c] \in {"armed", "fired"}

\* Why StopIsComingWhenQuick is not inductive by itself: AutoStop of an old timer
\* cancels the latest capture and disarms it, and ReportFailure disarms it without
\* cancelling; LatestAlone says that the two are one capture.
CaptureInv ==
    /\ CaptureTypeOK
    /\ Fields
    /\ RunningIsStoppable
    /\ quick => LatestAlone

LEMMA InitCaptureInv == ASSUME CaptureInit PROVE CaptureInv
<1> USE DaemonAssumption DEF CaptureInit
<1>1. CaptureTypeOK
  <2>1. up \in BOOLEAN /\ running \in BOOLEAN /\ quick \in BOOLEAN
    OBVIOUS
  <2>2. started \in 0..MaxCaptures /\ cancelled \in SUBSET Capture
    OBVIOUS
  <2> QED
    BY <2>1, <2>2 DEF CaptureTypeOK
<1>2. Fields /\ RunningIsStoppable
  BY DEF Fields, RunningIsStoppable, None
<1>3. LatestAlone
  BY DEF LatestAlone, Loose, Recording
<1> QED
  BY <1>1, <1>2, <1>3 DEF CaptureInv

\* stopCapture in whatever action calls it, if the timers it is given have lost at
\* most one that had fired.
LEMMA StopKeeps ==
    ASSUME CaptureInv, NEW timers \in [Capture -> {"unset", "armed", "fired", "over"}],
           StopCapture(timers), UNCHANGED <<started, runner, quick>>,
           up' \in BOOLEAN,
           timers = timer \/ \E c \in Capture : timers = [timer EXCEPT ![c] = "over"]
    PROVE  CaptureInv'
<1> USE DaemonAssumption DEF CaptureInv, StopCapture
<1>1. Disarmed(timers) \in [Capture -> {"unset", "armed", "fired", "over"}]
  BY DEF Disarmed
<1>2. CaptureTypeOK'
  <2>1. timer' \in [Capture -> {"unset", "armed", "fired", "over"}]
    BY <1>1
  <2>2. running => started \in Capture
    BY DEF CaptureTypeOK, RunningIsStoppable, Capture
  <2>3. cancelled' \in SUBSET Capture
    BY <2>2 DEF CaptureTypeOK
  <2>4. running' \in BOOLEAN
    BY DEF CaptureTypeOK
  <2>5. autoStop' \in {None} \cup Capture
    BY DEF CaptureTypeOK
  <2>6. /\ started' \in 0..MaxCaptures /\ quick' \in BOOLEAN
        /\ runner' \in [Capture -> {"unborn", "opening", "live", "failed", "ended"}]
    BY DEF CaptureTypeOK
  <2> QED
    BY <2>1, <2>3, <2>4, <2>5, <2>6 DEF CaptureTypeOK
<1>3. Fields' /\ RunningIsStoppable'
  <2>1. running => started \in 1..started
    BY DEF RunningIsStoppable, Capture
  <2>2. cancelled' \subseteq 1..started /\ autoStop' \in {None, started}
    BY <2>1 DEF Fields
  <2> QED
    BY <2>2 DEF Fields, RunningIsStoppable
<1>4. ASSUME quick PROVE LatestAlone'
  <2>1. Loose' = {}
    BY <1>4 DEF LatestAlone, Loose, Recording
  <2> QED
    BY <1>4, <2>1 DEF LatestAlone
<1> QED
  BY <1>2, <1>3, <1>4

LEMMA NextCaptureInv == ASSUME CaptureInv, [CaptureNext]_captureVars PROVE CaptureInv'
<1> USE DaemonAssumption DEF CaptureInv
<1>1. CASE StartCapture
  <2>1. started' = started + 1 /\ started' \in Capture
    BY <1>1 DEF StartCapture, CaptureTypeOK, Capture
  <2>2. CaptureTypeOK'
    BY <1>1, <2>1 DEF StartCapture, CaptureTypeOK, Capture
  <2>3. Fields' /\ RunningIsStoppable'
    BY <1>1, <2>1 DEF StartCapture, Fields, RunningIsStoppable, CaptureTypeOK, Capture
  <2>4. ASSUME quick PROVE LatestAlone'
    <3>1. Loose = {} /\ \A c \in Capture : runner[c] \notin {"opening", "failed"}
      BY <1>1, <2>4 DEF StartCapture, Settled, LatestAlone
    <3>2. \A c \in Capture \ {started'} : runner'[c] = runner[c]
      BY <1>1, <2>1 DEF StartCapture, CaptureTypeOK
    <3>3. Loose' \subseteq {started'}
      BY <1>1, <3>1, <3>2 DEF StartCapture, Loose, Recording
    <3>4. timer'[started'] = "armed" /\ running'
      BY <1>1, <2>1 DEF StartCapture, CaptureTypeOK
    <3> QED
      BY <3>1, <3>2, <3>3, <3>4 DEF LatestAlone
  <2> QED
    BY <1>1, <2>2, <2>3, <2>4 DEF StartCapture
<1>2. CASE StopCommand
  BY <1>2, StopKeeps DEF StopCommand, CaptureTypeOK
<1>3. CASE Shutdown
  BY <1>3, StopKeeps DEF Shutdown, CaptureTypeOK
<1>4. ASSUME NEW c \in Capture, TimerFires(c) PROVE CaptureInv'
  <2>1. CaptureTypeOK' /\ Fields' /\ RunningIsStoppable'
    BY <1>4 DEF TimerFires, CaptureTypeOK, Fields, RunningIsStoppable
  <2>2. ASSUME quick PROVE LatestAlone'
    BY <1>4, <2>2 DEF TimerFires, CaptureTypeOK, LatestAlone, Loose, Recording
  <2> QED
    BY <1>4, <2>1, <2>2 DEF TimerFires
<1>5. ASSUME NEW c \in Capture, AutoStop(c) PROVE CaptureInv'
  <2>1. [timer EXCEPT ![c] = "over"] \in [Capture -> {"unset", "armed", "fired", "over"}]
    BY DEF CaptureTypeOK
  <2>2. up' \in BOOLEAN
    BY <1>5 DEF AutoStop, CaptureTypeOK
  <2> QED
    BY <1>5, <2>1, <2>2, StopKeeps DEF AutoStop
<1>6. ASSUME NEW c \in Capture, RunnerOpens(c) \/ RunnerEnds(c) \/ RunnerFails(c) PROVE CaptureInv'
  <2> USE <1>6 DEF RunnerOpens, RunnerEnds, RunnerFails
  <2>1. CaptureTypeOK' /\ RunningIsStoppable'
    BY DEF CaptureTypeOK, RunningIsStoppable
  <2>2. \A b \in Capture : runner'[b] = IF b = c THEN runner'[c] ELSE runner[b]
    BY DEF CaptureTypeOK
  <2>3. Fields'
    BY <2>2 DEF Fields
  <2>4. ASSUME quick PROVE LatestAlone'
    <3>1. Loose' \subseteq Loose
      BY <2>2 DEF Loose, Recording, CaptureTypeOK
    <3>2. runner'[c] = "failed" => c = started
      BY <2>4 DEF LatestAlone, Loose, Recording, CaptureTypeOK
    <3>3. runner'[c] # "opening"
      BY DEF CaptureTypeOK
    <3>4. UNCHANGED <<started, running, timer>>
      OBVIOUS
    <3>5. \A b \in Capture : runner'[b] \in {"opening", "failed"} => b = started'
      BY <2>2, <2>4, <3>2, <3>3, <3>4 DEF LatestAlone
    <3>6. \A b \in Loose' : b = started' /\ running' /\ timer'[b] \in {"armed", "fired"}
      BY <2>4, <3>1, <3>4 DEF LatestAlone
    <3> QED
      BY <3>5, <3>6 DEF LatestAlone
  <2> QED
    BY <2>1, <2>3, <2>4
<1>7. ASSUME NEW c \in Capture, ReportFailure(c) PROVE CaptureInv'
  <2> USE <1>7 DEF ReportFailure
  <2>1. CaptureTypeOK' /\ RunningIsStoppable'
    BY DEF Disarmed, CaptureTypeOK, RunningIsStoppable
  <2>2. \A b \in Capture : runner'[b] = IF b = c THEN "ended" ELSE runner[b]
    BY DEF CaptureTypeOK
  <2>3. Fields'
    BY <2>2 DEF Fields, CaptureTypeOK
  <2>4. ASSUME quick PROVE LatestAlone'
    <3>1. c = started /\ Loose \subseteq {started}
      BY <2>4 DEF LatestAlone
    <3>2. Loose' = {}
      BY <2>2, <3>1 DEF Loose, Recording
    <3> QED
      BY <2>2, <2>4, <3>2 DEF LatestAlone
  <2> QED
    BY <2>1, <2>3, <2>4
<1>8. CASE UNCHANGED captureVars
  BY <1>8 DEF captureVars, CaptureTypeOK, Fields, RunningIsStoppable, LatestAlone, Loose, Recording
<1> QED
  BY <1>1, <1>2, <1>3, <1>4, <1>5, <1>6, <1>7, <1>8 DEF CaptureNext

\* The daemon's fields, timers and goroutines keep their types; in particular
\* stopCapture never cancels a capture that was not started.
THEOREM CapturesTypeCorrect == CaptureSpec => []CaptureTypeOK
<1>1. CaptureInv => CaptureTypeOK
  BY DEF CaptureInv
<1> QED
  BY <1>1, InitCaptureInv, NextCaptureInv, PTL DEF CaptureSpec

\* Whatever fails and however late, a daemon that says it is capturing has a
\* capture that can still be cancelled.
THEOREM RunningCanBeStopped == CaptureSpec => []RunningIsStoppable
<1>1. CaptureInv => RunningIsStoppable
  BY DEF CaptureInv
<1> QED
  BY <1>1, InitCaptureInv, NextCaptureInv, PTL DEF CaptureSpec

\* While no capture fails behind the back of the next one, every capture that
\* records has been told to stop or has a timer that will tell it.
THEOREM NeverForever == CaptureSpec => []StopIsComingWhenQuick
<1>1. CaptureInv => StopIsComingWhenQuick
  BY DEF CaptureInv, LatestAlone, Loose, StopIsComingWhenQuick, StopIsComing
<1> QED
  BY <1>1, InitCaptureInv, NextCaptureInv, PTL DEF CaptureSpec

\* ... and at most one records that was not told to stop.
THEOREM OneLooseCapture == CaptureSpec => []OneCapture
<1>1. CaptureInv => OneCapture
  <2> SUFFICES ASSUME CaptureInv, quick PROVE Cardinality(Loose) <= 1
    BY DEF OneCapture, Loose
  <2>1. Loose = {} \/ Loose = {started}
    BY DEF CaptureInv, LatestAlone
  <2>2. Cardinality({}) = 0 /\ Cardinality({started}) = 1
    BY FS_EmptySet, FS_Singleton
  <2> QED
    BY <2>1, <2>2
<1> QED
  BY <1>1, InitCaptureInv, NextCaptureInv, PTL DEF CaptureSpec
=============================================================================
