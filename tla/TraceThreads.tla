----------------------------- MODULE TraceThreads -----------------------------
(***************************************************************************)
(* Thread tracing in the agent: TraceThreadHandler::handle, run by the     *)
(* receiver threads of the socket server, against the stalker callbacks    *)
(* that run in the traced threads of the target process (arch/*/stalker.   *)
(* cpp), and agent_server, which runs again each time the library is       *)
(* injected.  No lock is held anywhere: the unique_locks are deferred.     *)
(***************************************************************************)
EXTENDS Integers, Sequences

CONSTANTS
  Receivers,    \* receiver threads of the agent's server
  Tids,         \* kernel thread ids of the target process
  Blocks,       \* code blocks in the modules that are not excluded
  MaxRequests,  \* bound: requests in one behaviour
  MaxLives,     \* bound: threads that get the same tid, one after the other
  MaxRuns,      \* bound: injections, each runs agent_server once
  MaxCount      \* bound: executions of one block counted by one thread

ASSUME BoundsAssumption ==
  /\ MaxRequests \in Nat /\ MaxLives \in Nat \ {0}
  /\ MaxRuns \in Nat \ {0} /\ MaxCount \in Nat
  /\ Blocks # {}

VARIABLES
  rpc, todo, need, tail, left,   \* receivers: control and local variables
  slots, end,                    \* TraceThreadHandler::followingThreads: memory, end pointer
  coverage,                      \* coverageInfoMap: for each tid a set of at most one info
  count,                         \* ThreadCoverageInfo::blockCounter, 0 when absent
  key,                           \* fridaContext->keyToCoverageInfo
  alive, life,                   \* threads: running tids, how many had the tid
  stalked, code, tls,            \* threads: follows, compiled blocks, keys with a value
  tpc, ptr, at, found,           \* threads: control and locals of the callbacks
  requests,                      \* history: requests so far
  executed,                      \* history: callouts since the last reset
  overlaps,                      \* history: which unlocked accesses overlapped
  stopped                        \* "no", or why the process ended

receivers == <<rpc, todo, need, tail, left>>
agent     == <<slots, end, coverage, count, key>>
threads   == <<alive, life, stalked, code, tls, tpc, ptr, at, found>>
history   == <<requests, executed, overlaps, stopped>>
vars      == <<receivers, agent, threads, history>>

(* An info is known by the thread that made it and the key it is kept under. *)
Info    == [tid : Tids, life : 1 .. MaxLives, key : 1 .. MaxRuns]
InfoOf(t, k) == [tid |-> t, life |-> life[t], key |-> k]

Overlap == {"request", "push", "insert", "report", "reset"}
Follows(t) == \E i \in 1 .. end : slots[i] = t
Up == stopped = "no"

(* What undefined behaviour may come to: it goes unnoticed or ends the process. *)
Undefined(what) ==
  /\ overlaps' = overlaps \cup {what}
  /\ stopped' \in {"no", "fault"}
Defined == UNCHANGED <<overlaps, stopped>>

TypeOK ==
  /\ rpc \in [Receivers -> {"idle", "check", "follow", "push", "query", "reset"}]
  /\ todo \in [Receivers -> Seq(Tids)] /\ need \in [Receivers -> Seq(Tids)]
  /\ \A r \in Receivers : rpc[r] = "push" => need[r] # <<>>
  /\ tail \in [Receivers -> Nat] /\ left \in [Receivers -> SUBSET Tids]
  /\ slots \in Seq(Tids) /\ end \in 0 .. Len(slots)
  /\ \A r \in Receivers : rpc[r] = "push" => tail[r] =< Len(slots)
  /\ coverage \in [Tids -> SUBSET Info]
  /\ count \in [Info -> [Blocks -> 0 .. MaxCount]]
  /\ key \in 1 .. MaxRuns
  /\ alive \subseteq Tids /\ life \in [Tids -> 1 .. MaxLives]
  /\ stalked \in [Tids -> Nat]
  /\ code \in [Tids -> SUBSET Blocks] /\ tls \in [Tids -> SUBSET (1 .. key)]
  /\ tpc \in [Tids -> {"run", "insert", "write"}]
  /\ \A t \in Tids : tpc[t] = "write" => found[t] < MaxCount
  /\ ptr \in [Tids -> 1 .. key] /\ at \in [Tids -> Blocks]
  /\ found \in [Tids -> 0 .. MaxCount]
  /\ requests \in 0 .. MaxRequests
  /\ executed \in [Info -> [Blocks -> Nat]]
  /\ overlaps \subseteq Overlap /\ stopped \in {"no", "assert", "fault"}

(* A target process whose threads run when the agent has started. *)
Init ==
  /\ rpc = [r \in Receivers |-> "idle"]
  /\ todo = [r \in Receivers |-> <<>>] /\ need = todo
  /\ tail = [r \in Receivers |-> 0] /\ left = [r \in Receivers |-> {}]
  /\ slots = <<>> /\ end = 0
  /\ coverage = [t \in Tids |-> {}]
  /\ count = [i \in Info |-> [b \in Blocks |-> 0]] /\ executed = count
  /\ key = 1
  /\ alive = Tids /\ life = [t \in Tids |-> 1]
  /\ stalked = [t \in Tids |-> 0]
  /\ code = [t \in Tids |-> {}] /\ tls = code
  /\ tpc = [t \in Tids |-> "run"] /\ ptr = [t \in Tids |-> 1]
  /\ at = [t \in Tids |-> CHOOSE b \in Blocks : TRUE] /\ found = [t \in Tids |-> 0]
  /\ requests = 0 /\ overlaps = {} /\ stopped = "no"

-------------------------------------------------------------------------------
(* Receivers: TraceThreadCoverage. *)

Goto(r, to) == rpc' = [rpc EXCEPT ![r] = to]

(* A request arrives that names some threads; dead ones and repeats too. *)
Receive(r, to) ==
  /\ Up /\ rpc[r] = "idle" /\ requests < MaxRequests
  /\ requests' = requests + 1
  /\ Goto(r, to)

Tracing(r) == rpc[r] \in {"check", "follow", "push"}
Unusual(r, tids) == \/ \E q \in Receivers \ {r} : Tracing(q)
                    \/ \E i, j \in 1 .. Len(tids) : i # j /\ tids[i] = tids[j]

StartTrace(r, tids) ==
  /\ Receive(r, "check")
  /\ todo' = [todo EXCEPT ![r] = tids]
  /\ need' = [need EXCEPT ![r] = <<>>]
  /\ overlaps' = IF Unusual(r, tids) THEN overlaps \cup {"request"} ELSE overlaps
  /\ UNCHANGED <<tail, left, agent, threads, executed, stopped>>

(* Mutant: every thread of the request needs to be followed. *)
CheckNothing(r) ==
  /\ Up /\ rpc[r] = "check" /\ todo[r] # <<>>
  /\ todo' = [todo EXCEPT ![r] = Tail(@)]
  /\ need' = [need EXCEPT ![r] = Append(@, Head(todo[r]))]
  /\ UNCHANGED <<rpc, tail, left, agent, threads, history>>

(* std::find in followingThreads; while another receiver is in push_back it *)
(* may read a freed block and miss.                                         *)
Check(r) ==
  /\ Up /\ rpc[r] = "check" /\ todo[r] # <<>>
  /\ todo' = [todo EXCEPT ![r] = Tail(@)]
  /\ \/ Follows(Head(todo[r])) /\ UNCHANGED need /\ Defined
     \/ /\ need' = [need EXCEPT ![r] = Append(@, Head(todo[r]))]
        /\ \/ ~Follows(Head(todo[r])) /\ Defined
           \/ (\E q \in Receivers \ {r} : rpc[q] = "push") /\ Undefined("push")
  /\ UNCHANGED <<rpc, tail, left, agent, threads, requests, executed>>

(* Mutant: with nothing to follow the handler returns before it replies. *)
CheckDoneNew(r) ==
  /\ Up /\ rpc[r] = "check" /\ todo[r] = <<>> /\ need[r] # <<>>
  /\ Goto(r, "follow")
  /\ UNCHANGED <<todo, need, tail, left, agent, threads, history>>

CheckDone(r) ==
  /\ Up /\ rpc[r] = "check" /\ todo[r] = <<>>
  /\ Goto(r, "follow")
  /\ UNCHANGED <<todo, need, tail, left, agent, threads, history>>

(* gum_stalker_follow does nothing for a tid that has no thread.  push_back *)
(* has read the end of the vector before it stores the new end.             *)
Follow(r) ==
  /\ Up /\ rpc[r] = "follow" /\ need[r] # <<>>
  /\ stalked' = IF Head(need[r]) \in alive
                THEN [stalked EXCEPT ![Head(need[r])] = @ + 1] ELSE stalked
  /\ tail' = [tail EXCEPT ![r] = end]
  /\ Goto(r, "push")
  /\ UNCHANGED <<todo, need, left, agent, alive, life, code, tls, tpc, ptr, at, found, history>>

(* Mutant: the thread is followed and never remembered. *)
FollowOnly(r) ==
  /\ Up /\ rpc[r] = "push"
  /\ need' = [need EXCEPT ![r] = Tail(@)]
  /\ Goto(r, "follow")
  /\ UNCHANGED <<todo, tail, left, agent, threads, history>>

(* A push_back of another receiver in between is undone, or both free the *)
(* same block.                                                             *)
Push(r) ==
  /\ Up /\ rpc[r] = "push"
  /\ slots' = IF tail[r] < Len(slots)
              THEN [slots EXCEPT ![tail[r] + 1] = Head(need[r])]
              ELSE Append(slots, Head(need[r]))
  /\ end' = tail[r] + 1 /\ tail' = [tail EXCEPT ![r] = 0]
  /\ IF tail[r] = end THEN Defined ELSE Undefined("push")
  /\ need' = [need EXCEPT ![r] = Tail(@)]
  /\ Goto(r, "follow")
  /\ UNCHANGED <<todo, left, coverage, count, key, threads, requests, executed>>

(* The reply {"result": true} is sent. *)
ReplyTrace(r) ==
  /\ Up /\ rpc[r] = "follow" /\ need[r] = <<>>
  /\ Goto(r, "idle")
  /\ UNCHANGED <<todo, need, tail, left, agent, threads, history>>

-------------------------------------------------------------------------------
(* Receivers: QueryCoverageInfo and ResetCoverageInfo. *)

StartQuery(r, tids) ==
  /\ Receive(r, "query")
  /\ todo' = [todo EXCEPT ![r] = tids]
  /\ UNCHANGED <<need, tail, left, agent, threads, executed, overlaps, stopped>>

Counting(T) == \E u \in T : tpc[u] = "write"
Inserting(T) == \E u \in T : tpc[u] = "insert"

(* One tid of the request: its info is written if the map has one; the map  *)
(* and the counters may be changing meanwhile.                              *)
Report(r) ==
  /\ Up /\ rpc[r] = "query" /\ todo[r] # <<>>
  /\ todo' = [todo EXCEPT ![r] = Tail(@)]
  /\ \/ Defined
     \/ Inserting(Tids) /\ Undefined("insert")
     \/ Counting({Head(todo[r])}) /\ Undefined("report")
  /\ UNCHANGED <<rpc, need, tail, left, agent, threads, requests, executed>>

ReplyQuery(r) ==
  /\ Up /\ rpc[r] = "query" /\ todo[r] = <<>>
  /\ Goto(r, "idle")
  /\ UNCHANGED <<todo, need, tail, left, agent, threads, history>>

StartReset(r) ==
  /\ Receive(r, "reset")
  /\ left' = [left EXCEPT ![r] = Tids]
  /\ UNCHANGED <<todo, need, tail, agent, threads, executed, overlaps, stopped>>

Zero == [b \in Blocks |-> 0]
Cleared(f, t) == [i \in Info |-> IF i \in coverage[t] THEN Zero ELSE f[i]]

(* One entry of the map, in any order; threads may be adding entries, and   *)
(* this entry's thread may be counting.                                     *)
ResetOne(r, t) ==
  /\ Up /\ rpc[r] = "reset" /\ t \in left[r]
  /\ left' = [left EXCEPT ![r] = @ \ {t}]
  /\ executed' = Cleared(executed, t)
  /\ \/ count' = Cleared(count, t)
     \/ Inserting(Tids) /\ UNCHANGED count
  /\ IF Inserting(Tids) \/ Counting({t}) \/ \E q \in Receivers \ {r} : rpc[q] \in {"query", "reset"}
     THEN Undefined("reset") ELSE Defined
  /\ UNCHANGED <<rpc, todo, need, tail, slots, end, coverage, key, threads, requests>>

ReplyReset(r) ==
  /\ Up /\ rpc[r] = "reset" /\ left[r] = {}
  /\ Goto(r, "idle")
  /\ UNCHANGED <<todo, need, tail, left, agent, threads, history>>

-------------------------------------------------------------------------------
(* The threads of the target: the callbacks of the stalker. *)

Runs(t) == Up /\ t \in alive /\ tpc[t] = "run"

(* transformWhileCodeBlockEnd: a block is compiled the first time the       *)
(* thread comes to it; the first one makes the thread's info.               *)
Transform(t, b) ==
  /\ Runs(t) /\ stalked[t] > 0 /\ b \notin code[t]
  /\ code' = [code EXCEPT ![t] = @ \cup {b}]
  /\ tls' = [tls EXCEPT ![t] = @ \cup {key}]
  /\ ptr' = [ptr EXCEPT ![t] = key]
  /\ tpc' = [tpc EXCEPT ![t] = IF key \in tls[t] THEN "run" ELSE "insert"]
  /\ UNCHANGED <<receivers, agent, alive, life, stalked, at, found, history>>

(* Mutant: emplace, which keeps the entry of an earlier thread. *)
InsertOnce(t) ==
  /\ Up /\ tpc[t] = "insert"
  /\ tpc' = [tpc EXCEPT ![t] = "run"]
  /\ coverage' = IF coverage[t] = {} THEN [coverage EXCEPT ![t] = {InfoOf(t, ptr[t])}]
                 ELSE coverage
  /\ UNCHANGED <<receivers, slots, end, count, key, alive, life, stalked, code, tls,
                 ptr, at, found, history>>

(* coverageInfoMap[tid] = infoPtr, lost when another thread inserts too. *)
Insert(t) ==
  /\ Up /\ tpc[t] = "insert"
  /\ tpc' = [tpc EXCEPT ![t] = "run"]
  /\ \/ coverage' = [coverage EXCEPT ![t] = {InfoOf(t, ptr[t])}] /\ Defined
     \/ Inserting(Tids \ {t}) /\ UNCHANGED coverage /\ Undefined("insert")
  /\ UNCHANGED <<receivers, slots, end, count, key, alive, life, stalked, code, tls,
                 ptr, at, found, requests, executed>>

(* trackCodeBlockCoverage: assert(ptr != nullptr), then the counter is read *)
Count(t, b) ==
  /\ Runs(t) /\ b \in code[t] /\ key \in tls[t]
  /\ LET i == InfoOf(t, key)
     IN  /\ executed[i][b] < MaxCount /\ count[i][b] < MaxCount
         /\ executed' = [executed EXCEPT ![i][b] = @ + 1]
         /\ found' = [found EXCEPT ![t] = count[i][b]]
  /\ ptr' = [ptr EXCEPT ![t] = key]
  /\ at' = [at EXCEPT ![t] = b]
  /\ tpc' = [tpc EXCEPT ![t] = "write"]
  /\ UNCHANGED <<receivers, agent, alive, life, stalked, code, tls, requests, overlaps, stopped>>

AssertionFails(t, b) ==
  /\ Runs(t) /\ b \in code[t] /\ key \notin tls[t]
  /\ stopped' = "assert"
  /\ UNCHANGED <<receivers, agent, threads, requests, executed, overlaps>>

(* Mutant: a counter never goes beyond one. *)
WriteOne(t) ==
  /\ Up /\ tpc[t] = "write"
  /\ count' = [count EXCEPT ![InfoOf(t, ptr[t])][at[t]] = 1]
  /\ tpc' = [tpc EXCEPT ![t] = "run"] /\ found' = [found EXCEPT ![t] = 0]
  /\ UNCHANGED <<receivers, slots, end, coverage, key, alive, life, stalked, code, tls,
                 ptr, at, history>>

(* and written. *)
Write(t) ==
  /\ Up /\ tpc[t] = "write"
  /\ count' = [count EXCEPT ![InfoOf(t, ptr[t])][at[t]] = found[t] + 1]
  /\ tpc' = [tpc EXCEPT ![t] = "run"] /\ found' = [found EXCEPT ![t] = 0]
  /\ UNCHANGED <<receivers, slots, end, coverage, key, alive, life, stalked, code, tls,
                 ptr, at, history>>

(* A thread ends, and later another one gets its tid. *)
Exit(t) ==
  /\ Runs(t)
  /\ alive' = alive \ {t}
  /\ stalked' = [stalked EXCEPT ![t] = 0]
  /\ code' = [code EXCEPT ![t] = {}]
  /\ tls' = [tls EXCEPT ![t] = {}]
  /\ UNCHANGED <<receivers, agent, life, tpc, ptr, at, found, history>>

Start(t) ==
  /\ Up /\ t \notin alive /\ life[t] < MaxLives
  /\ alive' = alive \cup {t}
  /\ life' = [life EXCEPT ![t] = @ + 1]
  /\ UNCHANGED <<receivers, agent, stalked, code, tls, tpc, ptr, at, found, history>>

-------------------------------------------------------------------------------
(* The library is injected again and finds itself loaded: agent_server runs *)
(* once more, initFridaContext makes a new stalker and a new key.           *)
InjectAgain ==
  /\ Up /\ key < MaxRuns
  /\ key' = key + 1
  /\ UNCHANGED <<receivers, slots, end, coverage, count, threads, history>>

ReceiverStep(r) == \/ Check(r) \/ CheckDone(r) \/ Follow(r) \/ Push(r) \/ ReplyTrace(r)
                   \/ Report(r) \/ ReplyQuery(r)
                   \/ (\E t \in Tids : ResetOne(r, t)) \/ ReplyReset(r)

ThreadStep(t) == \/ Insert(t) \/ Write(t) \/ Exit(t) \/ Start(t)
                 \/ \E b \in Blocks : Transform(t, b) \/ Count(t, b) \/ AssertionFails(t, b)

RequestedTids == UNION {[1 .. n -> Tids] : n \in 1 .. 2}

Next == \/ \E r \in Receivers :
             \/ \E tids \in RequestedTids : StartTrace(r, tids) \/ StartQuery(r, tids)
             \/ StartReset(r)
             \/ ReceiverStep(r)
        \/ \E t \in Tids : ThreadStep(t)
        \/ InjectAgain

Spec == Init /\ [][Next]_vars

(* The kernel schedules the receivers; clients and threads owe nothing. *)
FairSpec == Spec /\ \A r \in Receivers : WF_vars(ReceiverStep(r))
-------------------------------------------------------------------------------
(* Properties. *)

(* A thread is followed once (trace_thread_handler.cpp:28, 41-46) unless     *)
(* trace requests overlap or name it twice: followingThreads says so.       *)
FollowedOnce ==
  overlaps \cap {"request", "push"} = {} => \A t \in Tids : stalked[t] =< 1

(* followingThreads and the stalker agree between requests: what is followed *)
(* is remembered, and what is remembered is followed, except for a thread    *)
(* that got the tid of one that was traced (trace_thread_handler.cpp:28-45). *)
FollowingTruthful ==
  "push" \notin overlaps /\ (\A r \in Receivers : rpc[r] # "push") =>
    \A t \in alive : /\ stalked[t] > 0 => Follows(t)
                     /\ Follows(t) /\ life[t] = 1 => stalked[t] > 0

(* What the map holds for a live thread that counts is the info it counts    *)
(* in, not one of an earlier thread or of an earlier run of the agent        *)
(* (stalker.cpp:26-33), unless an insertion was lost.                        *)
CoverageOwned ==
  "insert" \notin overlaps =>
    \A t \in alive : key \in tls[t] /\ tpc[t] # "insert" => coverage[t] = {InfoOf(t, key)}

(* Counters hold what was executed since the last reset, less the execution  *)
(* being counted, unless a reset ran into it (types.cpp:9-15, 29-30).        *)
Pending(i, b) ==
  IF \E t \in Tids : tpc[t] = "write" /\ InfoOf(t, ptr[t]) = i /\ at[t] = b THEN 1 ELSE 0
CountsExact ==
  "reset" \notin overlaps =>
    \A i \in Info, b \in Blocks : executed[i][b] = count[i][b] + Pending(i, b)

(* The callout's assertion only fails after the agent was injected again     *)
(* (stalker.cpp:19).                                                         *)
AssertHoldsOnce == stopped = "assert" => key > 1

(* The assertion itself: a callout finds the info of its thread              *)
(* (stalker.cpp:19).                                                         *)
AssertHolds == stopped # "assert"

(* Every trace, query and reset request is answered, whatever the other      *)
(* receivers and the threads do, unless the process ends                     *)
(* (trace_thread_handler.cpp:48, 66, 73).                                    *)
RequestsAnswered ==
  \A r \in Receivers : rpc[r] # "idle" ~> rpc[r] = "idle" \/ ~Up
===============================================================================
