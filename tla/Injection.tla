------------------------------- MODULE Injection -------------------------------
(***************************************************************************)
(* Getting an agent into a process: InstrumentationManager.injectAgent and *)
(* InjectAgentAction in the tracker, InjectAgentHandler::handle in the     *)
(* injector, and processes that die and come back under the same pid.      *)
(* Each manager is a thread with an InstrumentationManager of its own; the *)
(* sockets and the locks are static, hence shared.                         *)
(***************************************************************************)
EXTENDS Integers

CONSTANTS
  Managers,       \* threads of the tracker, each with an InstrumentationManager
  Nobody,         \* holds a lock that is free
  Pids, Bits32,   \* process ids, and those whose executable is a 32-bit one
  PathNamespaces, \* where LocalSocketAddress(path) may be looked up
  WaitSeconds,    \* probes of waitUntil: 10 in the code
  FirstSecond,    \* the clock at the start, in seconds since 1970
  MaxTime,        \* bound: seconds that pass
  MaxCalls,       \* bound: calls of injectAgent
  MaxLives        \* bound: processes that get the same pid

ASSUME ConstantsAssumption ==
  /\ Bits32 \subseteq Pids /\ Pids # {}
  /\ Nobody \notin Managers
  /\ PathNamespaces \subseteq {"abstract", "filesystem"}
  /\ WaitSeconds \in Nat \ {0} /\ FirstSecond \in Nat \ {0}
  /\ MaxTime \in Nat /\ MaxCalls \in Nat /\ MaxLives \in Nat \ {0}

(* The local variable pid before the first call: any process. *)
SomePid == CHOOSE p \in Pids : TRUE

VARIABLES
  clock,                    \* seconds
  started, life, agent,     \* processes: when started, 0 if dead; how many; their agent
  namespace,                \* where the device looks up LocalSocketAddress(path)
  record,                   \* injectionRecordMap, each manager's: ms, 0 if absent
  mpc, target, is32, tries, \* managers: control and local variables
  lock,                     \* lockFor32bitInjector, lockFor64bitInjector
  connected,                \* socketFor32bit: has the injector not gone
  calls                     \* history: calls so far

processes == <<started, life, agent, namespace>>
managers  == <<mpc, target, is32, tries>>
vars == <<clock, processes, record, managers, lock, connected, calls>>

Alive(p) == started[p] # 0

(* Where injectAgent is, and idle outside it. *)
ManagerPC == {"idle", "check", "lock", "send", "read", "probe", "put"}

TypeOK ==
  /\ clock \in FirstSecond .. FirstSecond + MaxTime
  /\ started \in [Pids -> 0 .. clock] /\ life \in [Pids -> 1 .. MaxLives]
  /\ agent \in [Pids -> {"none", "starting", "ready"}]
  /\ \A p \in Pids : ~Alive(p) => agent[p] = "none"
  /\ namespace \in PathNamespaces
  /\ record \in [Managers -> [Pids -> 0 .. 1000 * clock]]
  /\ mpc \in [Managers -> ManagerPC]
  /\ target \in [Managers -> Pids] /\ is32 \in [Managers -> BOOLEAN]
  /\ tries \in [Managers -> 0 .. WaitSeconds - 1]
  /\ lock \in [BOOLEAN -> Managers \cup {Nobody}]
  /\ connected \in BOOLEAN
  /\ calls \in 0 .. MaxCalls

Init ==
  /\ clock = FirstSecond
  /\ started = [p \in Pids |-> clock] /\ life = [p \in Pids |-> 1]
  /\ agent = [p \in Pids |-> "none"] /\ namespace \in PathNamespaces
  /\ record = [m \in Managers |-> [p \in Pids |-> 0]]
  /\ mpc = [m \in Managers |-> "idle"]
  /\ target = [m \in Managers |-> SomePid]
  /\ is32 = [m \in Managers |-> FALSE] /\ tries = [m \in Managers |-> 0]
  /\ lock = [b \in BOOLEAN |-> Nobody]
  /\ connected = TRUE
  /\ calls = 0

-------------------------------------------------------------------------------
(* The tracker. *)

Goto(m, to) == mpc' = [mpc EXCEPT ![m] = to]

(* injectAgent(pid) begins with the record; the action asks for the bitness *)
(* when it is made, and takes a process that is gone for a 64-bit one.      *)
Call(m, p) ==
  /\ mpc[m] = "idle" /\ calls < MaxCalls
  /\ calls' = calls + 1
  /\ target' = [target EXCEPT ![m] = p]
  /\ IF record[m][p] # 0
     THEN Goto(m, "check") /\ UNCHANGED is32
     ELSE Goto(m, "lock") /\ is32' = [is32 EXCEPT ![m] = Alive(p) /\ p \in Bits32]
  /\ UNCHANGED <<clock, processes, record, tries, lock, connected>>

(* upTimestamp: the access time of /proc/pid/cmdline, not before the start, *)
(* in seconds and shifted left by three.                                    *)
UpTimestamps(p) == {8 * s : s \in started[p] .. clock}

(* "target process has been injected" *)
Skip(m) ==
  /\ mpc[m] = "check" /\ Alive(target[m])
  /\ \E up \in UpTimestamps(target[m]) : record[m][target[m]] > up
  /\ Goto(m, "idle")
  /\ UNCHANGED <<clock, processes, record, target, is32, tries, lock, connected, calls>>

(* The record is out of date, or stat found no process. *)
Again(m) ==
  /\ mpc[m] = "check"
  /\ Alive(target[m]) => \E up \in UpTimestamps(target[m]) : record[m][target[m]] =< up
  /\ is32' = [is32 EXCEPT ![m] = Alive(target[m]) /\ target[m] \in Bits32]
  /\ Goto(m, "lock")
  /\ UNCHANGED <<clock, processes, record, target, tries, lock, connected, calls>>

(* Mutant: one lock serves both injectors. *)
OneLock(m) ==
  /\ mpc[m] = "lock" /\ \A b \in BOOLEAN : lock[b] = Nobody
  /\ lock' = [lock EXCEPT ![is32[m]] = m]
  /\ Goto(m, "send")
  /\ UNCHANGED <<clock, processes, record, target, is32, tries, connected, calls>>

Lock(m) ==
  /\ mpc[m] = "lock" /\ lock[is32[m]] = Nobody
  /\ lock' = [lock EXCEPT ![is32[m]] = m]
  /\ Goto(m, "send")
  /\ UNCHANGED <<clock, processes, record, target, is32, tries, connected, calls>>

(* finally: unlock and return the reply, whatever was thrown. *)
Unlock(m) ==
  /\ lock' = [lock EXCEPT ![is32[m]] = Nobody]
  /\ Goto(m, "probe")
  /\ tries' = [tries EXCEPT ![m] = 0]

(* There is no socket for the 64-bit injector: a NullPointerException. *)
NoSocket(m) ==
  /\ mpc[m] = "send" /\ ~is32[m]
  /\ Unlock(m)
  /\ UNCHANGED <<clock, processes, record, target, is32, connected, calls>>

(* The request reaches the injector, which drops it: the tracker writes the *)
(* ordinal of InjectAgent, 0, and the injector knows InjectAgent as 1.      *)
Send(m) ==
  /\ mpc[m] = "send" /\ is32[m] /\ connected
  /\ Goto(m, "read")
  /\ UNCHANGED <<clock, processes, record, target, is32, tries, lock, connected, calls>>

(* Mutant: the lock is kept when the request fails. *)
KeepLock(m) ==
  /\ \/ mpc[m] = "send" /\ is32[m]
     \/ mpc[m] = "read"
  /\ ~connected
  /\ Goto(m, "probe")
  /\ UNCHANGED <<clock, processes, record, target, is32, tries, lock, connected, calls>>

(* The write or readLine ends when the injector has gone.  A reply would    *)
(* not end readLine: basicReply writes no newline.                          *)
Disconnected(m) ==
  /\ \/ mpc[m] = "send" /\ is32[m]
     \/ mpc[m] = "read"
  /\ ~connected
  /\ Unlock(m)
  /\ UNCHANGED <<clock, processes, record, target, is32, connected, calls>>

(* The agent binds a path. Line 62 names none, and Android's default is the *)
(* abstract namespace: in the code as written no agent answers. What the    *)
(* rest of injectAgent does follows once line 62 asks for "filesystem".     *)
Answers(p) == agent[p] = "ready" /\ namespace = "filesystem"

ProbeFinds(m) ==
  /\ mpc[m] = "probe" /\ Answers(target[m])
  /\ Goto(m, "put")
  /\ UNCHANGED <<clock, processes, record, target, is32, tries, lock, connected, calls>>

(* Mutant: the record is made although the agent never answered. *)
ProbeAnyway(m) ==
  /\ mpc[m] = "probe" /\ ~Answers(target[m])
  /\ IF tries[m] + 1 < WaitSeconds
     THEN tries' = [tries EXCEPT ![m] = @ + 1] /\ UNCHANGED mpc
     ELSE Goto(m, "put") /\ tries' = [tries EXCEPT ![m] = 0]
  /\ UNCHANGED <<clock, processes, record, target, is32, lock, connected, calls>>

(* A second later it is tried again, until the time is over. *)
ProbeFails(m) ==
  /\ mpc[m] = "probe" /\ ~Answers(target[m])
  /\ IF tries[m] + 1 < WaitSeconds
     THEN tries' = [tries EXCEPT ![m] = @ + 1] /\ UNCHANGED mpc
     ELSE Goto(m, "idle") /\ tries' = [tries EXCEPT ![m] = 0]
  /\ UNCHANGED <<clock, processes, record, target, is32, lock, connected, calls>>

Put(m) ==
  /\ mpc[m] = "put"
  /\ record' = [record EXCEPT ![m][target[m]] = 1000 * clock]
  /\ Goto(m, "idle")
  /\ UNCHANGED <<clock, processes, target, is32, tries, lock, connected, calls>>

-------------------------------------------------------------------------------
(* The injector. *)

(* A client that knows its commands has p injected.  When setxattr or Frida  *)
(* fails nothing happens but the log; the reply tells success either way.    *)
InjectAgent(p) ==
  /\ \/ /\ Alive(p) /\ agent[p] = "none"
        /\ agent' = [agent EXCEPT ![p] = "starting"]
     \/ UNCHANGED agent
  /\ UNCHANGED <<clock, started, life, namespace, record, managers, lock, connected, calls>>

(* The 32-bit injector ends, or a receiver of its server closes the client. *)
InjectorGone ==
  /\ connected /\ connected' = FALSE
  /\ UNCHANGED <<clock, processes, record, managers, lock, calls>>

-------------------------------------------------------------------------------
(* Processes and time. *)

(* LocalServer::startServer: unlink, bind and listen. *)
AgentListens(p) ==
  /\ agent[p] = "starting"
  /\ agent' = [agent EXCEPT ![p] = "ready"]
  /\ UNCHANGED <<clock, started, life, namespace, record, managers, lock, connected, calls>>

Die(p) ==
  /\ Alive(p)
  /\ started' = [started EXCEPT ![p] = 0]
  /\ agent' = [agent EXCEPT ![p] = "none"]
  /\ UNCHANGED <<clock, life, namespace, record, managers, lock, connected, calls>>

Restart(p) ==
  /\ ~Alive(p) /\ life[p] < MaxLives
  /\ started' = [started EXCEPT ![p] = clock]
  /\ life' = [life EXCEPT ![p] = @ + 1]
  /\ UNCHANGED <<clock, agent, namespace, record, managers, lock, connected, calls>>

Tick ==
  /\ clock < FirstSecond + MaxTime
  /\ clock' = clock + 1
  /\ UNCHANGED <<processes, record, managers, lock, connected, calls>>

-------------------------------------------------------------------------------
ManagerStep(m) == \/ Skip(m) \/ Again(m) \/ Lock(m) \/ NoSocket(m) \/ Send(m)
                  \/ Disconnected(m) \/ ProbeFinds(m) \/ ProbeFails(m) \/ Put(m)

Next == \/ \E m \in Managers : ManagerStep(m) \/ \E p \in Pids : Call(m, p)
        \/ InjectorGone
        \/ \E p \in Pids : InjectAgent(p) \/ AgentListens(p) \/ Die(p) \/ Restart(p)
        \/ Tick

Spec == Init /\ [][Next]_vars

(* Threads of the tracker are scheduled; nothing obliges processes, agents, *)
(* the injector or its other clients to do anything.                        *)
FairSpec == Spec /\ \A m \in Managers : WF_vars(ManagerStep(m))
-------------------------------------------------------------------------------
(* Properties. *)

(* A lock is held by the one manager that is in the request it guards, and  *)
(* by nobody else (InjectAgentAction.java:42-54): requests on one socket    *)
(* never mix, and every failure gives the lock back.                        *)
LocksMatch ==
  \A b \in BOOLEAN, m \in Managers :
    lock[b] = m <=> mpc[m] \in {"send", "read"} /\ is32[m] = b

(* injectAgent only skips a process that got an agent, unless the process   *)
(* was replaced (InstrumentationManager.java:33-38, 63-64): the record is   *)
(* in milliseconds, and later than any upTimestamp.                         *)
SkipsInjected ==
  [][\A m \in Managers : Skip(m) => agent[target[m]] = "ready" \/ life[target[m]] > 1]_vars

(* "wait until agent server ready": the wait for an agent does not end in a *)
(* timeout while the agent is ready (InstrumentationManager.java:51-62).    *)
TimeoutMeansUnready ==
  [][\A m \in Managers :
       mpc[m] = "probe" /\ mpc'[m] = "idle" => agent[target[m]] # "ready"]_vars

(* A call for a 64-bit process returns (InstrumentationManager.java:31-65), *)
(* also while another one waits for the 32-bit injector.                    *)
Calls64Return ==
  \A m \in Managers : mpc[m] = "lock" /\ ~is32[m] ~> mpc[m] = "idle"

(* When the 32-bit injector is gone every call comes to an end              *)
(* (InjectAgentAction.java:48-53).                                          *)
CallsEndWithInjector ==
  \A m \in Managers : mpc[m] # "idle" /\ ~connected ~> mpc[m] = "idle"
===============================================================================
