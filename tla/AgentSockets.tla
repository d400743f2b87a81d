----------------------------- MODULE AgentSockets -----------------------------
(* hack/agent: TraceThreadAction asks the agent of a process over a socket     *)
(* that is cached per pid. The map is static, the method that fills it is      *)
(* synchronized on the action, and each call has an action of its own: the     *)
(* lock excludes nobody. Here is one pid, whose process dies and comes back    *)
(* with another agent.                                                         *)
EXTENDS Integers, Sequences, FiniteSets

CONSTANTS Callers,   \* threads of the tracker
          MaxCalls,  \* bounds of the model: calls per thread,
          MaxLives,  \* and agents one after the other
          NoSocket

ASSUME SocketsAssumption ==
    /\ IsFiniteSet(Callers)
    /\ MaxCalls \in Nat /\ MaxLives \in Nat
    /\ NoSocket \notin Nat

VARIABLES cpc,     \* where a call is
          calls,   \* calls a thread has begun
          mine,    \* the socket the call uses
          cached,  \* socketMap.get(pid)
          peer,    \* for each socket, the agent that accepted it
          lives,   \* agents there were, the last of which
          running, \* may run
          overlaps \* history: look-ups while another thread was connecting

agent == <<lives, running>>
svars == <<cpc, calls, mine, cached, peer, lives, running, overlaps>>

CallPC == {"idle", "look", "connect", "put", "write", "read"}
Sockets == DOMAIN peer

\* Threads that found no socket and have not cached one yet.
Connecting == {c \in Callers : cpc[c] \in {"connect", "put"}}

\* The stream is open at the other end.
Open(s) == running /\ peer[s] = lives

SInit ==
    /\ cpc = [c \in Callers |-> "idle"]
    /\ calls = [c \in Callers |-> 0]
    /\ mine = [c \in Callers |-> NoSocket]
    /\ cached = NoSocket
    /\ peer = <<>>
    /\ lives = 1 /\ running = TRUE
    /\ overlaps = 0

Step(c, from, to) == cpc[c] = from /\ cpc' = [cpc EXCEPT ![c] = to]
Return(c) == mine' = [mine EXCEPT ![c] = NoSocket]

Call(c) ==
    /\ Step(c, "idle", "look")
    /\ calls[c] < MaxCalls
    /\ calls' = [calls EXCEPT ![c] = @ + 1]
    /\ UNCHANGED <<mine, cached, peer, agent, overlaps>>

\* The socket in the map is taken whatever has become of it.
TakeCached(c) ==
    /\ Step(c, "look", "write")
    /\ cached # NoSocket
    /\ mine' = [mine EXCEPT ![c] = cached]
    /\ UNCHANGED <<calls, cached, peer, agent, overlaps>>

FindNothing(c) ==
    /\ Step(c, "look", "connect")
    /\ cached = NoSocket
    /\ overlaps' = overlaps + IF Connecting = {} THEN 0 ELSE 1
    /\ UNCHANGED <<calls, mine, cached, peer, agent>>

Connect(c) ==
    /\ running
    /\ Step(c, "connect", "put")
    /\ peer' = Append(peer, lives)
    /\ mine' = [mine EXCEPT ![c] = Len(peer) + 1]
    /\ UNCHANGED <<calls, cached, agent, overlaps>>

\* No agent listens, or not under the name that is tried. With Android's
\* default namespace this is all that line 33 does; Connect is what follows
\* once it asks for the path that the agent binds.
CannotConnect(c) ==
    /\ Step(c, "connect", "idle")
    /\ Return(c)
    /\ UNCHANGED <<calls, cached, peer, agent, overlaps>>

\* Mutant: the socket is used and not put in the map.
PutNothing(c) ==
    /\ Step(c, "put", "write")
    /\ UNCHANGED <<calls, mine, cached, peer, agent, overlaps>>

PutSocket(c) ==
    /\ Step(c, "put", "write")
    /\ cached' = mine[c]
    /\ UNCHANGED <<calls, mine, peer, agent, overlaps>>

Write(c) ==
    /\ Step(c, "write", "read")
    /\ Open(mine[c])
    /\ UNCHANGED <<calls, mine, cached, peer, agent, overlaps>>

\* Broken pipe. The socket stays in the map.
WriteFails(c) ==
    /\ Step(c, "write", "idle")
    /\ ~Open(mine[c])
    /\ Return(c)
    /\ UNCHANGED <<calls, cached, peer, agent, overlaps>>

\* The command is sent as 1, the ordinal of TraceThread, which to the agent is
\* InjectAgent: none of its handlers replies, and readLine returns null when
\* the stream ends.
ReadEnds(c) ==
    /\ Step(c, "read", "idle")
    /\ ~Open(mine[c])
    /\ Return(c)
    /\ UNCHANGED <<calls, cached, peer, agent, overlaps>>

AgentDies ==
    /\ running
    /\ running' = FALSE
    /\ UNCHANGED <<cpc, calls, mine, cached, peer, lives, overlaps>>

AgentInjected ==
    /\ ~running /\ lives < MaxLives
    /\ running' = TRUE /\ lives' = lives + 1
    /\ UNCHANGED <<cpc, calls, mine, cached, peer, overlaps>>

SNext ==
    \/ \E c \in Callers :
         \/ Call(c) \/ TakeCached(c) \/ FindNothing(c) \/ Connect(c) \/ CannotConnect(c)
         \/ PutSocket(c) \/ Write(c) \/ WriteFails(c) \/ ReadEnds(c)
    \/ AgentDies \/ AgentInjected

SSpec == SInit /\ [][SNext]_svars
-----------------------------------------------------------------------------
STypeOK ==
    /\ cpc \in [Callers -> CallPC]
    /\ calls \in [Callers -> 0..MaxCalls]
    /\ mine \in [Callers -> Sockets \union {NoSocket}]
    /\ cached \in Sockets \union {NoSocket}
    /\ peer \in Seq(1..lives)
    /\ lives \in Nat \ {0}
    /\ running \in BOOLEAN
    /\ overlaps \in Nat

\* Threads share one connection to the agent of a pid, and have one more for
\* each time that a thread looked while another was connecting: the lock of
\* getSocketForPID is the action's and excludes no other thread. (A socket whose
\* agent is gone is not counted, whether it is kept in the map or not.)
SharedUnlessOverlap == Cardinality({s \in Sockets : Open(s)}) <= 1 + overlaps
=============================================================================
