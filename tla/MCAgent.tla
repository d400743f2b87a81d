------------------------------- MODULE MCAgent -------------------------------
(* The parts of the agent and of the connections to it in one run: a behaviour *)
(* exercises one of them and leaves the others alone, so their states add up.  *)
EXTENDS AgentHandlers, AgentSockets, Requests, ClientManager, BlockIds, Bitwise

\* Requests of the tracker as pieces: the command, then the tids it names. One
\* with a tid is longer than a query, one with two fills the buffer.
QueryThreads == <<"{", "2", "}">>
GetCoverage == <<"{", "4", "1", "}">>
GetCoverageOfTwo == <<"{", "4", "1", "2", "}">>
Sent == {QueryThreads, GetCoverage, GetCoverageOfTwo}

\* Nobody writes these two, but parts of what is written make them up.
QueryWithTid == <<"{", "2", "1", "}">>
WithoutTids == <<"{", "4", "}">>
ActedOn == Sent \union {QueryWithTid}
Failing == {WithoutTids}
Texts == ActedOn \union Failing

\* Two modules and, at the end of the memory, one that was loaded later. The
\* addresses are those of the branches, in pairs of neighbours.
TwoModules == {[hash |-> 1, base |-> 0, size |-> 16], [hash |-> 3, base |-> 32, size |-> 16]}
BitwiseXor(a, b) == a ^^ b
Branches == {0, 2, 4, 6, 12, 32, 34, 36, 44, 64}

VARIABLE part

parts == <<part, hvars, svars, rvars, cvars, bvars>>

Handle == part = "handlers" /\ HNext /\ UNCHANGED <<part, svars, rvars, cvars, bvars>>
Ask == part = "sockets" /\ SNext /\ UNCHANGED <<part, hvars, rvars, cvars, bvars>>
Frame == part = "requests" /\ RNext /\ UNCHANGED <<part, hvars, svars, cvars, bvars>>
Manage == part = "client" /\ CNext /\ UNCHANGED <<part, hvars, svars, rvars, bvars>>

Track == part = "blocks" /\ BNext /\ UNCHANGED <<part, hvars, svars, rvars, cvars>>

AgentInit ==
    /\ part \in {"handlers", "sockets", "requests", "client", "blocks"}
    /\ HInit /\ SInit /\ RInit /\ CInit /\ BInit
    /\ part # "blocks" => arch = "arm64-v8a" /\ shifted = "all"
AgentNext == Handle \/ Ask \/ Frame \/ Manage \/ Track

AgentSpec == AgentInit /\ [][AgentNext]_parts /\ CFairness
=============================================================================
