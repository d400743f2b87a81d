---------------------------- MODULE InjectionProofs ----------------------------
(***************************************************************************)
(* Types and locks of Injection, for any threads of the tracker, any       *)
(* processes and any bounds.                                               *)
(***************************************************************************)
EXTENDS Injection, TLAPS

IInv == TypeOK /\ LocksMatch

(* Nobody asks for anything at the start.                                    *)
LEMMA InitTyped == Init => TypeOK
<1> SUFFICES ASSUME Init PROVE TypeOK
  OBVIOUS
<1>1. SomePid \in Pids
  BY ConstantsAssumption DEF SomePid
<1>2. FirstSecond \in Nat \ {0} /\ MaxTime \in Nat /\ MaxCalls \in Nat
  BY ConstantsAssumption
<1>3. WaitSeconds \in Nat \ {0} /\ MaxLives \in Nat \ {0}
  BY ConstantsAssumption
<1> QED
  BY <1>1, <1>2, <1>3 DEF Init, TypeOK, Alive, ManagerPC

(* A manager goes where injectAgent takes it.                                *)
LEMMA GotoTyped ==
  ASSUME TypeOK, NEW m \in Managers, NEW to \in ManagerPC, Goto(m, to)
  PROVE  mpc' \in [Managers -> ManagerPC]
<1>1. mpc \in [Managers -> ManagerPC]
  BY DEF TypeOK
<1> QED
  BY <1>1 DEF Goto

(* What is stored as the bitness is TRUE or FALSE.                           *)
LEMMA BitnessTyped ==
  ASSUME TypeOK, NEW m \in Managers, NEW p \in Pids,
         is32' = is32 \/ is32' = [is32 EXCEPT ![m] = Alive(p) /\ p \in Bits32]
  PROVE  is32' \in [Managers -> BOOLEAN]
<1>1. (Alive(p) /\ p \in Bits32) \in BOOLEAN
  OBVIOUS
<1>2. PICK v \in BOOLEAN : is32' = is32 \/ is32' = [is32 EXCEPT ![m] = v]
  BY <1>1, Zenon
<1>3. is32 \in [Managers -> BOOLEAN]
  BY DEF TypeOK
<1> QED
  BY <1>2, <1>3

(* A call starts and consults the record (InstrumentationManager.java:31-43). *)
LEMMA CallKeeps ==
  ASSUME IInv, NEW m \in Managers, NEW p \in Pids, Call(m, p)
  PROVE  IInv'
<1>1. calls' \in 0 .. MaxCalls
  BY ConstantsAssumption DEF Call, IInv, TypeOK
<1>2. TypeOK'
  <2>1. mpc' \in [Managers -> ManagerPC]
    <3>1. Goto(m, "check") \/ Goto(m, "lock")
      BY DEF Call
    <3> QED
      BY <3>1, GotoTyped DEF IInv, ManagerPC
  <2>2. is32' \in [Managers -> BOOLEAN]
    <3>1. is32' = is32 \/ is32' = [is32 EXCEPT ![m] = Alive(p) /\ p \in Bits32]
      BY Zenon DEF Call
    <3> QED
      BY <3>1, BitnessTyped, Zenon DEF IInv
  <2>3. target' \in [Managers -> Pids]
    <3>1. target \in [Managers -> Pids] /\ target' = [target EXCEPT ![m] = p]
      BY DEF Call, IInv, TypeOK
    <3> QED
      BY <3>1
  <2>4. UNCHANGED <<clock, started, life, agent, namespace, record, tries, lock, connected>>
    BY DEF Call, processes
  <2> QED
    BY <1>1, <2>1, <2>2, <2>3, <2>4 DEF IInv, TypeOK, Alive
<1>3. LocksMatch'
  BY DEF Call, Goto, IInv, TypeOK, LocksMatch
<1> QED
  BY <1>2, <1>3 DEF IInv

(* The record is found, or found out of date (lines 33-43).                  *)
LEMMA CheckKeeps ==
  ASSUME IInv, NEW m \in Managers, Skip(m) \/ Again(m)
  PROVE  IInv'
<1>1. TypeOK'
  <2>1. mpc' \in [Managers -> ManagerPC]
    <3>1. Goto(m, "idle") \/ Goto(m, "lock")
      BY DEF Skip, Again
    <3> QED
      BY <3>1, GotoTyped DEF IInv, ManagerPC
  <2>2. is32' \in [Managers -> BOOLEAN]
    <3>1. \/ is32' = is32
          \/ is32' = [is32 EXCEPT ![m] = Alive(target[m]) /\ target[m] \in Bits32]
      BY Zenon DEF Skip, Again
    <3>2. target[m] \in Pids
      BY DEF IInv, TypeOK
    <3> QED
      BY <3>1, <3>2, BitnessTyped, Zenon DEF IInv
  <2>3. UNCHANGED <<clock, started, life, agent, namespace, record, target, tries, lock, connected, calls>>
    BY DEF Skip, Again, processes
  <2> QED
    BY <2>1, <2>2, <2>3 DEF IInv, TypeOK, Alive
<1>2. LocksMatch'
  BY DEF Skip, Again, Goto, IInv, TypeOK, LocksMatch
<1> QED
  BY <1>1, <1>2 DEF IInv

(* The lock of the injector is taken (InjectAgentAction.java:42-45).         *)
LEMMA LockKeeps ==
  ASSUME IInv, NEW m \in Managers, Lock(m)
  PROVE  IInv'
<1>1. TypeOK'
  <2>1. mpc' \in [Managers -> ManagerPC]
    BY GotoTyped DEF Lock, IInv, ManagerPC
  <2>2. lock' \in [BOOLEAN -> Managers \cup {Nobody}]
    BY DEF Lock, IInv, TypeOK
  <2>3. UNCHANGED <<clock, started, life, agent, namespace, record, target, is32, tries, connected, calls>>
    BY DEF Lock, processes
  <2> QED
    BY <2>1, <2>2, <2>3 DEF IInv, TypeOK, Alive
<1>2. is32[m] \in BOOLEAN /\ Nobody \notin Managers
  BY ConstantsAssumption DEF IInv, TypeOK
<1>3. ASSUME NEW b \in BOOLEAN, NEW n \in Managers
      PROVE  lock'[b] = n <=> (mpc'[n] \in {"send", "read"} /\ is32'[n] = b)
  <2>1. lock[b] = n <=> (mpc[n] \in {"send", "read"} /\ is32[n] = b)
    BY DEF IInv, LocksMatch
  <2>2. CASE n = m
    BY <1>2, <2>1, <2>2 DEF Lock, Goto, IInv, TypeOK
  <2>3. CASE n # m
    BY <1>2, <2>1, <2>3 DEF Lock, Goto, IInv, TypeOK
  <2> QED
    BY <2>2, <2>3
<1>4. LocksMatch'
  BY <1>3 DEF LocksMatch
<1> QED
  BY <1>1, <1>4 DEF IInv

(* The request is written (InjectorHackAction.java:34-36).                   *)
LEMMA SendKeeps ==
  ASSUME IInv, NEW m \in Managers, Send(m)
  PROVE  IInv'
<1>1. TypeOK'
  <2>1. mpc' \in [Managers -> ManagerPC]
    BY GotoTyped DEF Send, IInv, ManagerPC
  <2>2. UNCHANGED <<clock, started, life, agent, namespace, record, target, is32, tries, lock, connected, calls>>
    BY DEF Send, processes
  <2> QED
    BY <2>1, <2>2 DEF IInv, TypeOK, Alive
<1>2. LocksMatch'
  BY DEF Send, Goto, IInv, TypeOK, LocksMatch
<1> QED
  BY <1>1, <1>2 DEF IInv

(* The request fails and the lock is given back (InjectAgentAction.java:49-54). *)
LEMMA UnlockKeeps ==
  ASSUME IInv, NEW m \in Managers, NoSocket(m) \/ Disconnected(m)
  PROVE  IInv'
<1>1. /\ mpc[m] \in {"send", "read"} /\ is32[m] \in BOOLEAN
      /\ Unlock(m)
      /\ UNCHANGED <<clock, processes, record, target, is32, connected, calls>>
  BY DEF NoSocket, Disconnected, IInv, TypeOK
<1>2. TypeOK'
  <2>1. 0 \in 0 .. WaitSeconds - 1
    BY ConstantsAssumption
  <2>2. lock' \in [BOOLEAN -> Managers \cup {Nobody}]
    BY <1>1 DEF Unlock, IInv, TypeOK
  <2>3. mpc' \in [Managers -> ManagerPC]
    BY <1>1, GotoTyped DEF Unlock, IInv, ManagerPC
  <2>4. tries' \in [Managers -> 0 .. WaitSeconds - 1]
    BY <1>1, <2>1 DEF Unlock, IInv, TypeOK
  <2> QED
    BY <1>1, <2>2, <2>3, <2>4 DEF IInv, TypeOK, Alive, processes
<1>3. Nobody \notin Managers /\ lock[is32[m]] = m
  BY <1>1, ConstantsAssumption DEF IInv, LocksMatch
<1>4. ASSUME NEW b \in BOOLEAN, NEW n \in Managers
      PROVE  lock'[b] = n <=> (mpc'[n] \in {"send", "read"} /\ is32'[n] = b)
  <2>1. lock[b] = n <=> (mpc[n] \in {"send", "read"} /\ is32[n] = b)
    BY DEF IInv, LocksMatch
  <2>2. CASE n = m
    BY <1>1, <1>3, <2>1, <2>2 DEF Unlock, Goto, IInv, TypeOK
  <2>3. CASE n # m
    BY <1>1, <1>3, <2>1, <2>3 DEF Unlock, Goto, IInv, TypeOK
  <2> QED
    BY <2>2, <2>3
<1>5. LocksMatch'
  BY <1>4 DEF LocksMatch
<1> QED
  BY <1>2, <1>5 DEF IInv

(* The agent's socket is probed (Utils.java:12-24).                          *)
LEMMA ProbeKeeps ==
  ASSUME IInv, NEW m \in Managers, ProbeFinds(m) \/ ProbeFails(m)
  PROVE  IInv'
<1>1. tries[m] + 1 < WaitSeconds => tries[m] + 1 \in 0 .. WaitSeconds - 1
  BY ConstantsAssumption DEF IInv, TypeOK
<1>2. 0 \in 0 .. WaitSeconds - 1
  BY ConstantsAssumption
<1>3. TypeOK'
  <2>1. mpc' \in [Managers -> ManagerPC]
    <3>1. mpc' = mpc \/ Goto(m, "idle") \/ Goto(m, "put")
      BY DEF ProbeFinds, ProbeFails
    <3> QED
      BY <3>1, GotoTyped DEF IInv, TypeOK, ManagerPC
  <2>2. tries' \in [Managers -> 0 .. WaitSeconds - 1]
    <3>1. \/ tries' = tries
          \/ tries' = [tries EXCEPT ![m] = 0]
          \/ tries[m] + 1 < WaitSeconds /\ tries' = [tries EXCEPT ![m] = tries[m] + 1]
      BY DEF ProbeFinds, ProbeFails
    <3>2. tries \in [Managers -> 0 .. WaitSeconds - 1]
      BY DEF IInv, TypeOK
    <3> QED
      BY <1>1, <1>2, <3>1, <3>2
  <2>3. UNCHANGED <<clock, started, life, agent, namespace, record, target, is32, lock, connected, calls>>
    BY DEF ProbeFinds, ProbeFails, processes
  <2> QED
    BY <2>1, <2>2, <2>3 DEF IInv, TypeOK, Alive
<1>4. LocksMatch'
  BY DEF ProbeFinds, ProbeFails, Goto, IInv, TypeOK, LocksMatch
<1> QED
  BY <1>3, <1>4 DEF IInv

(* The record is made (InstrumentationManager.java:63-64).                   *)
LEMMA PutKeeps ==
  ASSUME IInv, NEW m \in Managers, Put(m)
  PROVE  IInv'
<1>1. 1000 * clock \in 0 .. 1000 * clock
  BY ConstantsAssumption DEF IInv, TypeOK
<1>2. TypeOK'
  <2>1. mpc' \in [Managers -> ManagerPC]
    BY GotoTyped DEF Put, IInv, ManagerPC
  <2>2. record' \in [Managers -> [Pids -> 0 .. 1000 * clock]]
    <3>1. record' = [record EXCEPT ![m][target[m]] = 1000 * clock]
      BY DEF Put
    <3>2. target[m] \in Pids /\ record \in [Managers -> [Pids -> 0 .. 1000 * clock]]
      BY DEF IInv, TypeOK
    <3> QED
      BY <1>1, <3>1, <3>2
  <2>3. UNCHANGED <<clock, started, life, agent, namespace, target, is32, tries, lock, connected, calls>>
    BY DEF Put, processes
  <2> QED
    BY <2>1, <2>2, <2>3 DEF IInv, TypeOK, Alive
<1>3. LocksMatch'
  <2>1. /\ lock' = lock /\ is32' = is32 /\ mpc[m] = "put"
        /\ mpc \in [Managers -> ManagerPC] /\ mpc' = [mpc EXCEPT ![m] = "idle"]
    BY DEF Put, Goto, IInv, TypeOK
  <2> QED
    BY <2>1 DEF IInv, LocksMatch
<1> QED
  BY <1>2, <1>3 DEF IInv

(* The injector works or goes (inject_agent_handler.cpp:20-58).              *)
LEMMA InjectorKeeps ==
  ASSUME IInv, InjectorGone \/ \E p \in Pids : InjectAgent(p)
  PROVE  IInv'
<1>1. /\ UNCHANGED <<clock, started, life, namespace, record, managers, lock, calls>>
      /\ connected' \in BOOLEAN
  <2>1. UNCHANGED <<clock, started, life, namespace, record, managers, lock, calls>>
    BY DEF InjectorGone, InjectAgent, processes
  <2>2. connected' \in BOOLEAN
    <3>1. connected \in BOOLEAN
      BY DEF IInv, TypeOK
    <3> QED
      BY <3>1 DEF InjectorGone, InjectAgent
  <2> QED
    BY <2>1, <2>2
<1>2. \/ agent' = agent
      \/ \E p \in Pids : Alive(p) /\ agent' = [agent EXCEPT ![p] = "starting"]
  BY DEF InjectorGone, InjectAgent, processes
<1>3. /\ agent' \in [Pids -> {"none", "starting", "ready"}]
      /\ \A p \in Pids : ~Alive(p)' => agent'[p] = "none"
  BY <1>1, <1>2 DEF IInv, TypeOK, Alive
<1>4. TypeOK'
  BY <1>1, <1>3 DEF IInv, TypeOK, managers
<1>5. LocksMatch'
  BY <1>1 DEF IInv, LocksMatch, managers
<1> QED
  BY <1>4, <1>5 DEF IInv

(* Processes come and go, agents come up, time passes.                       *)
LEMMA WorldKeeps ==
  ASSUME IInv, \/ \E p \in Pids : AgentListens(p) \/ Die(p) \/ Restart(p)
               \/ Tick
  PROVE  IInv'
<1>1. LocksMatch'
  BY DEF AgentListens, Die, Restart, Tick, IInv, LocksMatch, managers
<1>2. ASSUME NEW p \in Pids, AgentListens(p) PROVE TypeOK'
  BY <1>2 DEF AgentListens, IInv, TypeOK, Alive, managers
<1>3. ASSUME NEW p \in Pids, Die(p) PROVE TypeOK'
  <2>1. 0 \in 0 .. clock
    BY ConstantsAssumption DEF IInv, TypeOK
  <2>2. started' \in [Pids -> 0 .. clock] /\ agent' \in [Pids -> {"none", "starting", "ready"}]
    BY <1>3, <2>1 DEF Die, IInv, TypeOK
  <2>3. \A q \in Pids : ~Alive(q)' => agent'[q] = "none"
    BY <1>3 DEF Die, IInv, TypeOK, Alive
  <2> QED
    BY <1>3, <2>2, <2>3 DEF Die, IInv, TypeOK, managers
<1>4. ASSUME NEW p \in Pids, Restart(p) PROVE TypeOK'
  <2>1. clock \in 0 .. clock /\ life[p] + 1 \in 1 .. MaxLives
    BY <1>4, ConstantsAssumption DEF Restart, IInv, TypeOK
  <2> QED
    BY <1>4, <2>1 DEF Restart, IInv, TypeOK, Alive, managers
<1>5. CASE Tick
  <2>1. /\ clock' \in FirstSecond .. FirstSecond + MaxTime
        /\ 0 .. clock \subseteq 0 .. clock'
        /\ 0 .. 1000 * clock \subseteq 0 .. 1000 * clock'
    BY <1>5, ConstantsAssumption DEF Tick, IInv, TypeOK
  <2>2. started' \in [Pids -> 0 .. clock']
    BY <1>5, <2>1 DEF Tick, IInv, TypeOK, processes
  <2>3. [Pids -> 0 .. 1000 * clock] \subseteq [Pids -> 0 .. 1000 * clock']
    BY <2>1
  <2>4. record' \in [Managers -> [Pids -> 0 .. 1000 * clock']]
    BY <1>5, <2>3 DEF Tick, IInv, TypeOK
  <2>5. UNCHANGED <<agent, life, namespace, managers, lock, connected, calls>>
    BY <1>5 DEF Tick, processes
  <2>6. /\ life' \in [Pids -> 1 .. MaxLives]
        /\ agent' \in [Pids -> {"none", "starting", "ready"}]
        /\ mpc' \in [Managers -> ManagerPC]
        /\ target' \in [Managers -> Pids] /\ is32' \in [Managers -> BOOLEAN]
        /\ tries' \in [Managers -> 0 .. WaitSeconds - 1]
    BY <2>5 DEF IInv, TypeOK, managers
  <2>7. /\ lock' \in [BOOLEAN -> Managers \cup {Nobody}]
        /\ connected' \in BOOLEAN
        /\ calls' \in 0 .. MaxCalls
        /\ namespace' \in PathNamespaces
    BY <2>5 DEF IInv, TypeOK
  <2>8. \A p \in Pids : ~Alive(p)' => agent'[p] = "none"
    BY <1>5 DEF Tick, IInv, TypeOK, Alive, processes
  <2> QED
    BY <1>1, <2>1, <2>2, <2>4, <2>6, <2>7, <2>8 DEF IInv, TypeOK
<1> QED
  BY <1>1, <1>2, <1>3, <1>4, <1>5 DEF IInv

(* Every step keeps the invariant.                                           *)
LEMMA NextKeeps == IInv /\ [Next]_vars => IInv'
<1> SUFFICES ASSUME IInv, [Next]_vars PROVE IInv'
  OBVIOUS
<1>1. ASSUME NEW m \in Managers, ManagerStep(m) PROVE IInv'
  BY <1>1, CheckKeeps, LockKeeps, SendKeeps, UnlockKeeps, ProbeKeeps, PutKeeps DEF ManagerStep
<1>2. ASSUME NEW m \in Managers, NEW p \in Pids, Call(m, p) PROVE IInv'
  BY <1>2, CallKeeps
<1>3. CASE InjectorGone \/ \E p \in Pids : InjectAgent(p)
  BY <1>3, InjectorKeeps
<1>4. CASE Tick \/ \E p \in Pids : AgentListens(p) \/ Die(p) \/ Restart(p)
  BY <1>4, WorldKeeps
<1>5. CASE UNCHANGED vars
  BY <1>5 DEF IInv, TypeOK, LocksMatch, Alive, vars, processes, managers
<1> QED
  BY <1>1, <1>2, <1>3, <1>4, <1>5 DEF Next

(* Types and locks hold at the start.                                        *)
LEMMA InitKeeps == Init => IInv
<1> SUFFICES ASSUME Init PROVE IInv
  OBVIOUS
<1>1. Nobody \notin Managers
  BY ConstantsAssumption
<1>2. LocksMatch
  BY <1>1 DEF Init, LocksMatch
<1> QED
  BY <1>2, InitTyped DEF IInv

(* Every variable keeps its type; a process that is gone has no agent.       *)
THEOREM TypesHold == Spec => []TypeOK
<1>1. IInv => TypeOK
  BY DEF IInv
<1> QED
  BY <1>1, InitKeeps, NextKeeps, PTL DEF Spec

(* Each lock is held by the one manager that is in the request it guards:    *)
(* requests on a socket never mix and every failure gives the lock back      *)
(* (InjectAgentAction.java:42-54).                                           *)
THEOREM LocksCorrect == Spec => []LocksMatch
<1>1. IInv => LocksMatch
  BY DEF IInv
<1> QED
  BY <1>1, InitKeeps, NextKeeps, PTL DEF Spec

-------------------------------------------------------------------------------
(* Until the pid was given again, a process that is recorded, or about to    *)
(* be, has its agent or has died.                                            *)
Told(p) == life[p] = 1 => agent[p] = "ready" \/ ~Alive(p)
RecordsTold ==
  \A m \in Managers : /\ \A p \in Pids : record[m][p] # 0 => Told(p)
                      /\ mpc[m] = "put" => Told(target[m])

(* What is told of a process stays told.                                     *)
LEMMA ToldStays == ASSUME TypeOK, [Next]_vars, NEW p \in Pids, Told(p) PROVE Told(p)'
<1>1. ASSUME NEW m \in Managers, ManagerStep(m) \/ \E q \in Pids : Call(m, q)
      PROVE  UNCHANGED processes
  BY <1>1 DEF ManagerStep, Call, Skip, Again, Lock, NoSocket, Send, Disconnected, ProbeFinds,
     ProbeFails, Put
<1>2. CASE UNCHANGED processes
  BY <1>2 DEF processes, Told, Alive
<1>3. ASSUME NEW q \in Pids, InjectAgent(q) \/ AgentListens(q)
      PROVE  Told(p)'
  BY <1>3 DEF InjectAgent, AgentListens, TypeOK, Told, Alive
<1>4. ASSUME NEW q \in Pids, Die(q) PROVE Told(p)'
  BY <1>4 DEF Die, TypeOK, Told, Alive
<1>5. ASSUME NEW q \in Pids, Restart(q) PROVE Told(p)'
  BY <1>5 DEF Restart, TypeOK, Told, Alive
<1>6. InjectorGone \/ Tick \/ UNCHANGED vars => UNCHANGED processes
  BY DEF InjectorGone, Tick, vars
<1> QED
  BY <1>1, <1>2, <1>3, <1>4, <1>5, <1>6 DEF Next

(* A record is only made of a process that is told.                          *)
LEMMA RecordsKeep == ASSUME TypeOK, RecordsTold, [Next]_vars PROVE RecordsTold'
<1> SUFFICES ASSUME NEW m \in Managers
             PROVE  /\ \A p \in Pids : (record[m][p] # 0 => Told(p))'
                    /\ (mpc[m] = "put" => Told(target[m]))'
  BY DEF RecordsTold
<1>1. /\ mpc \in [Managers -> ManagerPC] /\ target \in [Managers -> Pids]
      /\ record \in [Managers -> [Pids -> 0 .. 1000 * clock]]
  BY DEF TypeOK
<1>2. ASSUME NEW n \in Managers, Put(n)
      PROVE  /\ \A p \in Pids : record'[m][p] # 0 => Told(p)
             /\ mpc'[m] = "put" => target'[m] = target[m] /\ Told(target[m])
  BY <1>1, <1>2 DEF Put, Goto, RecordsTold
<1>3. ASSUME NEW n \in Managers, ProbeFinds(n)
      PROVE  /\ record' = record
             /\ mpc'[m] = "put" => target'[m] = target[m] /\ Told(target[m])
  BY <1>1, <1>3 DEF ProbeFinds, Goto, RecordsTold, Told, Answers
<1>4. ASSUME NEW n \in Managers, NEW q \in Pids, Call(n, q)
      PROVE  /\ record' = record
             /\ mpc'[m] = "put" => mpc[m] = "put" /\ target'[m] = target[m]
  BY <1>1, <1>4 DEF Call, Goto
<1>5. ASSUME NEW n \in Managers, ManagerStep(n), ~Put(n), ~ProbeFinds(n)
      PROVE  /\ record' = record
             /\ mpc'[m] = "put" => mpc[m] = "put" /\ target'[m] = target[m]
  BY <1>1, <1>5 DEF ManagerStep, Skip, Again, Lock, NoSocket, Send, Disconnected, ProbeFails,
     Unlock, Goto
<1>6. ASSUME InjectorGone \/ Tick \/ UNCHANGED vars
               \/ \E p \in Pids : InjectAgent(p) \/ AgentListens(p) \/ Die(p) \/ Restart(p)
      PROVE  record' = record /\ mpc' = mpc /\ target' = target
  BY <1>6 DEF InjectorGone, Tick, vars, managers, InjectAgent, AgentListens, Die, Restart
<1>7. /\ \A p \in Pids : record'[m][p] # 0 => Told(p)
      /\ mpc'[m] = "put" => target'[m] = target[m] /\ Told(target[m])
  BY <1>2, <1>3, <1>4, <1>5, <1>6 DEF Next, RecordsTold
<1>8. \A p \in Pids : Told(p) => Told(p)'
  BY ToldStays
<1>9. ASSUME mpc'[m] = "put" PROVE Told(target[m])'
  <2>1. PICK p \in Pids : p = target[m]
    BY <1>1
  <2>2. Told(p)' /\ target'[m] = p
    BY <1>7, <1>8, <1>9, <2>1
  <2> QED
    BY <2>2 DEF Told, Alive
<1> QED
  BY <1>7, <1>8, <1>9

(* injectAgent only skips a process that got an agent, unless the pid was    *)
(* given again: a record is later than the start of what it is about         *)
(* (InstrumentationManager.java:33-38, 63-64).                               *)
THEOREM SkipsCorrect == Spec => SkipsInjected
<1>1. Init => RecordsTold
  <2> SUFFICES ASSUME Init, NEW m \in Managers
               PROVE  mpc[m] # "put" /\ \A p \in Pids : record[m][p] = 0
    BY DEF RecordsTold
  <2> QED
    BY DEF Init
<1>2. ASSUME TypeOK, RecordsTold, NEW m \in Managers, Skip(m)
      PROVE  agent[target[m]] = "ready" \/ life[target[m]] > 1
  <2>1. target[m] \in Pids /\ Alive(target[m])
    BY <1>2 DEF Skip, TypeOK
  <2>2. record[m][target[m]] # 0
    <3>1. PICK up \in UpTimestamps(target[m]) : record[m][target[m]] > up
      BY <1>2 DEF Skip
    <3>2. started[target[m]] \in Nat /\ clock \in Nat
      BY <1>2, <2>1, ConstantsAssumption DEF TypeOK
    <3>3. up \in Nat
      BY <3>1, <3>2 DEF UpTimestamps
    <3> QED
      BY <3>1, <3>3
  <2>3. life[target[m]] \in Nat \ {0}
    BY <1>2, <2>1 DEF TypeOK
  <2> QED
    BY <1>2, <2>1, <2>2, <2>3 DEF RecordsTold, Told
<1>3. TypeOK /\ RecordsTold /\ [Next]_vars
        => [\A m \in Managers : Skip(m) => agent[target[m]] = "ready" \/ life[target[m]] > 1]_vars
  BY <1>2
<1> QED
  BY <1>1, <1>3, RecordsKeep, TypesHold, PTL DEF Spec, SkipsInjected
===============================================================================
