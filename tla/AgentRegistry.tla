--------------------------- MODULE AgentRegistry ---------------------------
(***************************************************************************)
(* How the dashboard controls its collector daemons: the registry the      *)
(* dashboard keeps in memory (internal/ui/agents.go) and the daemons'      *)
(* register and heartbeat exchanges (internal/agent/daemon.go).  Commands  *)
(* wait in the registry and travel in the reply to a heartbeat.  A         *)
(* recording or sniffing process that was given a dashboard registers as   *)
(* well (internal/agent/agent.go): its Reporter beats from a goroutine of  *)
(* its own and once more from Finish, and never reads a reply.             *)
(*                                                                         *)
(* HTTP exchanges may lose their request or their reply; the dashboard may *)
(* restart, and forgets everything; a daemon may restart, and registers    *)
(* again.                                                                  *)
(***************************************************************************)
EXTENDS Naturals, SequencesExt

CONSTANTS
    Daemon,       \* collector daemons
    Reporter,     \* one-shot reporters
    Command,      \* commands the operator issues
    Nobody,       \* neither
    MaxAgents,    \* bound on registrations
    MaxRestarts   \* bound on dashboard restarts

ASSUME RegistryAssumption ==
    /\ Nobody \notin Daemon \cup Reporter
    /\ Daemon \cap Reporter = {}
    /\ MaxAgents \in Nat
    /\ MaxRestarts \in Nat

Agent == Daemon \cup Reporter
Id == 1..MaxAgents
NoId == 0

\* A reporter's heartbeat: the goroutine's or Finish's, and the state it tells.
ABeat == {"loop", "final"} \X {"capturing", "done"}

VARIABLES
    agents,     \* registry.agents: the ids on record
    seq,        \* registry.seq
    commands,   \* the commands queued for each id
    owner,      \* who got each id, as its record's Name tells
    shown,      \* the State of each record, as reporters tell it
    myId,       \* each agent's r.id
    reply,      \* the heartbeat reply on its way to each daemon
    issued,     \* the commands the dashboard has acknowledged, in order
    target,     \* the daemon whose record the operator chose for each
    executed,   \* what each daemon has executed, in order
    restarts,   \* dashboard restarts so far
    lost,       \* the commands in lost or unread replies and forgotten queues
    phase,      \* where each reporter is
    beats,      \* its heartbeats on their way
    overtaken   \* whether one sent before Finish arrived after Finish's

reporting == <<phase, beats, overtaken>>
vars == <<agents, seq, commands, owner, shown, myId, reply, issued, target, executed,
          restarts, lost, reporting>>

NoReply == [sent |-> FALSE, commands |-> <<>>]

TypeOK ==
    /\ agents \in SUBSET Id
    /\ seq \in 0..MaxAgents
    /\ commands \in [Id -> Seq(Command)]
    /\ owner \in [Id -> Agent \cup {Nobody}]
    /\ shown \in [Id -> {"capturing", "done"}]
    /\ myId \in [Agent -> Id \cup {NoId}]
    /\ reply \in [Daemon -> [sent : BOOLEAN, commands : Seq(Command)]]
    /\ issued \in Seq(Command)
    /\ target \in [Command -> Agent \cup {Nobody}]
    /\ executed \in [Daemon -> Seq(Command)]
    /\ restarts \in 0..MaxRestarts
    /\ lost \in SUBSET Command
    /\ phase \in [Reporter -> {"off", "capturing", "finishing", "over"}]
    /\ beats \in [Reporter -> SUBSET ABeat]
    /\ overtaken \in [Reporter -> BOOLEAN]

Init ==
    /\ agents = {}
    /\ seq = 0
    /\ commands = [i \in Id |-> <<>>]
    /\ owner = [i \in Id |-> Nobody]
    /\ shown = [i \in Id |-> "capturing"]
    /\ myId = [a \in Agent |-> NoId]
    /\ reply = [d \in Daemon |-> NoReply]
    /\ issued = <<>>
    /\ target = [c \in Command |-> Nobody]
    /\ executed = [d \in Daemon |-> <<>>]
    /\ restarts = 0
    /\ lost = {}
    /\ phase = [r \in Reporter |-> "off"]
    /\ beats = [r \in Reporter |-> {}]
    /\ overtaken = [r \in Reporter |-> FALSE]

----------------------------------------------------------------------------

\* The dashboard gives an agent the next id.  When its reply is lost there is a
\* record nobody owns.
AgentRegister(a) ==
    /\ seq < MaxAgents
    /\ seq' = seq + 1
    /\ agents' = agents \cup {seq'}
    /\ commands' = [commands EXCEPT ![seq'] = <<>>]
    /\ owner' = [owner EXCEPT ![seq'] = a]
    /\ shown' = [shown EXCEPT ![seq'] = "capturing"]
    /\ \/ myId' = [myId EXCEPT ![a] = seq']
       \/ myId' = [myId EXCEPT ![a] = NoId]
    /\ UNCHANGED <<reply, issued, target, executed, restarts, lost>>

\* A daemon starts, or starts again; without an id RunDaemon ends, or, when only
\* the reply could not be read, beats on and is never handed anything.
RunDaemon(d) ==
    /\ reply[d] = NoReply
    /\ AgentRegister(d)
    /\ UNCHANGED reporting

\* Mutant of AgentCommand: the newest command goes to the front.
AgentCommandFirst(i, c) ==
    /\ i \in agents
    /\ c \notin ToSet(issued)
    /\ commands' = [commands EXCEPT ![i] = <<c>> \o @]
    /\ issued' = Append(issued, c)
    /\ target' = [target EXCEPT ![c] = owner[i]]
    /\ UNCHANGED <<agents, seq, owner, shown, myId, reply, executed, restarts, lost, reporting>>

\* The operator picks a record; the command waits for its next heartbeat.
AgentCommand(i, c) ==
    /\ i \in agents
    /\ c \notin ToSet(issued)
    /\ commands' = [commands EXCEPT ![i] = Append(@, c)]
    /\ issued' = Append(issued, c)
    /\ target' = [target EXCEPT ![c] = owner[i]]
    /\ UNCHANGED <<agents, seq, owner, shown, myId, reply, executed, restarts, lost, reporting>>

\* A heartbeat's answer: daemon d is handed commands, the queues become left.
Hand(d, handed, left) ==
    /\ myId[d] # NoId
    /\ ~reply[d].sent
    /\ reply' = [reply EXCEPT ![d] = [sent |-> TRUE, commands |-> handed]]
    /\ commands' = left
    /\ UNCHANGED <<agents, seq, owner, shown, myId, issued, target, executed, restarts, lost,
                   reporting>>

\* Mutants of AgentHeartbeat: only the first queued command is handed off; the
\* newest record's queue is; the newest record is unknown.
HeartbeatHandsOne(d) ==
    LET queue == IF myId[d] \in agents THEN commands[myId[d]] ELSE <<>> IN
    Hand(d, IF queue = <<>> THEN <<>> ELSE <<Head(queue)>>,
         [i \in Id |-> IF i = myId[d] THEN <<>> ELSE commands[i]])

HeartbeatOfNewest(d) ==
    LET newest == IF seq = 0 THEN myId[d] ELSE seq IN
    Hand(d, commands[newest], [commands EXCEPT ![newest] = <<>>])

HeartbeatButNewest(d) ==
    IF myId[d] \in agents \ {seq}
    THEN Hand(d, commands[myId[d]], [commands EXCEPT ![myId[d]] = <<>>])
    ELSE Hand(d, <<>>, commands)

\* The dashboard answers a heartbeat with what is queued for its id; an id it
\* does not know is answered all the same.
AgentHeartbeat(d) ==
    IF myId[d] \in agents
    THEN Hand(d, commands[myId[d]], [commands EXCEPT ![myId[d]] = <<>>])
    ELSE Hand(d, <<>>, commands)

\* beat executes the commands of a reply in order before the next heartbeat.
Beat(d) ==
    /\ reply[d].sent
    /\ executed' = [executed EXCEPT ![d] = @ \o reply[d].commands]
    /\ reply' = [reply EXCEPT ![d] = NoReply]
    /\ UNCHANGED <<agents, seq, commands, owner, shown, myId, issued, target, restarts, lost,
                   reporting>>

\* The reply does not arrive within the client's timeout.
LoseReply(d) ==
    /\ reply[d].sent
    /\ lost' = lost \cup ToSet(reply[d].commands)
    /\ reply' = [reply EXCEPT ![d] = NoReply]
    /\ UNCHANGED <<agents, seq, commands, owner, shown, myId, issued, target, executed, restarts,
                   reporting>>

\* newAgentRegistry: the registry starts empty and numbers from one again; the
\* daemons keep their ids and never register again.
RestartDashboard ==
    /\ restarts < MaxRestarts
    /\ restarts' = restarts + 1
    /\ lost' = lost \cup UNION {ToSet(commands[i]) : i \in Id}
    /\ agents' = {}
    /\ seq' = 0
    /\ commands' = [i \in Id |-> <<>>]
    /\ UNCHANGED <<owner, shown, myId, reply, issued, target, executed, reporting>>

----------------------------------------------------------------------------
(* The one-shot reporter.                                                  *)

\* Connect: without an id the process runs on its own.
Connect(r) ==
    /\ phase[r] = "off"
    /\ AgentRegister(r)
    /\ phase' = [phase EXCEPT ![r] = IF myId'[r] = NoId THEN "over" ELSE "capturing"]
    /\ UNCHANGED <<beats, overtaken>>

Sends(r, beat) ==
    /\ beats' = [beats EXCEPT ![r] = @ \cup {beat}]
    /\ UNCHANGED <<agents, seq, commands, owner, shown, myId, reply, issued, target, executed,
                   restarts, lost, overtaken>>

\* heartbeatLoop: one beat at a time, until it finds r.stopped closed.
HeartbeatLoop(r) ==
    /\ phase[r] \in {"capturing", "finishing"}
    /\ \A b \in beats[r] : b[1] # "loop"
    /\ Sends(r, <<"loop", IF phase[r] = "capturing" THEN "capturing" ELSE "done">>)
    /\ UNCHANGED phase

\* Mutant of Finish: the state is set after the heartbeat.
FinishSilently(r) ==
    /\ phase[r] = "capturing"
    /\ phase' = [phase EXCEPT ![r] = "finishing"]
    /\ Sends(r, <<"final", "capturing">>)

\* Finish: r.state becomes done, and a heartbeat says so.
Finish(r) ==
    /\ phase[r] = "capturing"
    /\ phase' = [phase EXCEPT ![r] = "finishing"]
    /\ Sends(r, <<"final", "done">>)

\* A heartbeat's end; with Finish's, r.stopped is closed and the recording is
\* uploaded.
Over(r, beat) ==
    /\ beat \in beats[r]
    /\ beats' = [beats EXCEPT ![r] = @ \ {beat}]
    /\ phase' = [phase EXCEPT ![r] = IF beat[1] = "final" THEN "over" ELSE @]
    /\ UNCHANGED <<agents, seq, owner, myId, reply, issued, target, executed, restarts>>

\* The dashboard answers; beat closes the reply unread, with the commands in it.
BeatAnswered(r, beat) ==
    /\ Over(r, beat)
    /\ IF myId[r] \in agents
       THEN /\ shown' = [shown EXCEPT ![myId[r]] = beat[2]]
            /\ lost' = lost \cup ToSet(commands[myId[r]])
            /\ commands' = [commands EXCEPT ![myId[r]] = <<>>]
       ELSE UNCHANGED <<shown, lost, commands>>
    /\ overtaken' = [overtaken EXCEPT ![r] =
                        @ \/ (phase[r] = "over" /\ beat = <<"loop", "capturing">>)]

\* It does not arrive.
BeatFails(r, beat) ==
    /\ Over(r, beat)
    /\ overtaken' = [overtaken EXCEPT ![r] = @ \/ beat[1] = "final"]
    /\ UNCHANGED <<shown, lost, commands>>

Next ==
    \/ \E d \in Daemon :
        RunDaemon(d) \/ AgentHeartbeat(d) \/ Beat(d) \/ LoseReply(d)
    \/ \E r \in Reporter :
        \/ Connect(r) \/ HeartbeatLoop(r) \/ Finish(r)
        \/ \E beat \in ABeat : BeatAnswered(r, beat) \/ BeatFails(r, beat)
    \/ \E i \in Id, c \in Command : AgentCommand(i, c)
    \/ RestartDashboard

Spec == Init /\ [][Next]_vars

\* The daemon's ticker beats for ever; a reply arrives or is given up.
Fairness == \A d \in Daemon : WF_vars(AgentHeartbeat(d)) /\ WF_vars(Beat(d))

FairSpec == Spec /\ Fairness

----------------------------------------------------------------------------
(* Properties.                                                             *)

\* Where c occurs in the sequences of a function of sequences.
Places(f, c) == UNION {{<<x, k>> : k \in {j \in DOMAIN f[x] : f[x][j] = c}} : x \in DOMAIN f}

Queued(c) == Places(commands, c)
OnItsWay(c) == Places([d \in Daemon |-> reply[d].commands], c)
Done(c) == Places(executed, c)

\* agents.go:112, "hand off queued commands exactly once": a command the
\* dashboard has acknowledged is in exactly one place -- one queue, one reply,
\* one daemon's past -- or it was in a reply that did not arrive or that a
\* reporter did not read, or in the memory of a dashboard that was restarted.  No
\* daemon starts or uploads twice.
ExactlyOnce ==
    \A c \in ToSet(issued) :
        Cardinality(Queued(c)) + Cardinality(OnItsWay(c)) + Cardinality(Done(c))
            = IF c \in lost THEN 0 ELSE 1

\* agents.go:145, "queues a control command for an agent; the agent picks it up
\* on its next heartbeat": no other daemon does, until a restart of the
\* dashboard gives the ids of running daemons to others.
RightDaemon ==
    restarts = 0 => \A d \in Daemon : \A c \in ToSet(executed[d]) : target[c] = d

\* A daemon executes commands in the order the operator gave them, whatever is
\* lost: a stop is never overtaken by the start it should follow.
InOrder ==
    \A d \in Daemon : \A k, l \in DOMAIN executed[d], m, n \in DOMAIN issued :
        (k < l /\ executed[d][k] = issued[m] /\ executed[d][l] = issued[n]) => m < n

\* agent.go:135, "sends a final heartbeat": once Finish is over the dashboard
\* shows the reporter as done -- unless that heartbeat failed, or one sent before
\* was answered after it, or the dashboard was restarted.
FinishIsShown ==
    restarts = 0 =>
        \A r \in Reporter :
            phase[r] = "over" /\ myId[r] # NoId /\ ~overtaken[r] => shown[myId[r]] = "done"

\* A command queued for the id a daemon beats under is executed by it, unless
\* the command is lost or the daemon registers anew.
CommandsArrive ==
    \A d \in Daemon, i \in Id, c \in Command :
        (restarts = 0 /\ myId[d] = i /\ c \in ToSet(commands[i]))
            ~> (c \in ToSet(executed[d]) \/ c \in lost \/ myId[d] # i)
=============================================================================
