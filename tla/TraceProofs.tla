------------------------------ MODULE TraceProofs ------------------------------
(***************************************************************************)
(* Proofs about TraceThreads, for any receivers, threads, code blocks and  *)
(* bounds.                                                                 *)
(***************************************************************************)
EXTENDS TraceThreads, SequenceTheorems, TLAPS

-------------------------------------------------------------------------------
(* The bounds are numbers and keys of the agent's runs are among them.       *)
LEMMA Bounds == /\ MaxRequests \in Nat /\ MaxLives \in Nat /\ MaxRuns \in Nat
                /\ MaxCount \in Nat /\ 1 \in 1 .. MaxLives /\ 1 \in 1 .. MaxRuns
  BY BoundsAssumption

(* What a thread counts in is an info.                                       *)
LEMMA InfosAreTyped ==
  ASSUME TypeOK, NEW t \in Tids, NEW k \in 1 .. key PROVE InfoOf(t, k) \in Info
<1>1. k \in 1 .. MaxRuns
  BY Bounds DEF TypeOK
<1> QED
  BY <1>1 DEF TypeOK, InfoOf, Info

(* The agent has started and traces nothing (trace_thread_handler.cpp:13).   *)
LEMMA TypesInit == Init => TypeOK
<1> SUFFICES ASSUME Init PROVE TypeOK
  OBVIOUS
<1>1. /\ rpc \in [Receivers -> {"idle", "check", "follow", "push", "query", "reset"}]
      /\ \A r \in Receivers : rpc[r] # "push"
  BY DEF Init
<1>2. /\ todo \in [Receivers -> Seq(Tids)] /\ need \in [Receivers -> Seq(Tids)]
      /\ tail \in [Receivers -> Nat] /\ left \in [Receivers -> SUBSET Tids]
  BY DEF Init
<1>3. slots \in Seq(Tids) /\ end \in 0 .. Len(slots)
  BY DEF Init
<1>4. /\ coverage \in [Tids -> SUBSET Info]
      /\ count \in [Info -> [Blocks -> 0 .. MaxCount]]
      /\ executed \in [Info -> [Blocks -> Nat]]
      /\ key \in 1 .. MaxRuns /\ requests \in 0 .. MaxRequests
  BY Bounds DEF Init
<1>5. /\ alive \subseteq Tids /\ life \in [Tids -> 1 .. MaxLives]
      /\ stalked \in [Tids -> Nat]
      /\ code \in [Tids -> SUBSET Blocks] /\ tls \in [Tids -> SUBSET (1 .. key)]
  BY Bounds DEF Init
<1>6. /\ tpc \in [Tids -> {"run", "insert", "write"}]
      /\ \A t \in Tids : tpc[t] = "run"
      /\ ptr \in [Tids -> 1 .. key] /\ at \in [Tids -> Blocks]
      /\ found \in [Tids -> 0 .. MaxCount]
  BY Bounds, BoundsAssumption DEF Init
<1> QED
  BY <1>1, <1>2, <1>3, <1>4, <1>5, <1>6 DEF Init, TypeOK

(* An access to a vector or map, raced or not, leaves the history typed.     *)
LEMMA OutcomesAreTyped ==
  ASSUME TypeOK, NEW w \in Overlap, Defined \/ Undefined(w)
  PROVE  overlaps' \subseteq Overlap /\ stopped' \in {"no", "assert", "fault"}
  BY DEF TypeOK, Defined, Undefined

(* Requests arrive (trace_thread_handler.cpp:17-26, 51-57, 68-70).           *)
LEMMA TypesRequest ==
  ASSUME TypeOK, NEW r \in Receivers, NEW tids \in RequestedTids,
         StartTrace(r, tids) \/ StartQuery(r, tids) \/ StartReset(r)
  PROVE  TypeOK'
<1>1. tids \in Seq(Tids)
  <2>1. PICK n \in 1 .. 2 : tids \in [1 .. n -> Tids]
    BY DEF RequestedTids
  <2> QED
    BY <2>1, SeqDef
<1>2. requests' \in 0 .. MaxRequests
  BY Bounds DEF StartTrace, StartQuery, StartReset, Receive, TypeOK
<1>3. UNCHANGED <<tail, agent, threads, executed, stopped>>
  BY DEF StartTrace, StartQuery, StartReset
<1>4. CASE StartTrace(r, tids)
  <2>1. todo' \in [Receivers -> Seq(Tids)] /\ need' \in [Receivers -> Seq(Tids)]
    BY <1>1, <1>4 DEF StartTrace, TypeOK
  <2>2. overlaps' \subseteq Overlap
    BY <1>4 DEF StartTrace, TypeOK, Overlap
  <2>3. /\ rpc' \in [Receivers -> {"idle", "check", "follow", "push", "query", "reset"}]
        /\ \A q \in Receivers : rpc'[q] = "push" => rpc[q] = "push" /\ q # r
    BY <1>4 DEF StartTrace, Receive, Goto, TypeOK
  <2>4. \A q \in Receivers : rpc'[q] = "push" => need'[q] # <<>>
    BY <1>4, <2>3 DEF StartTrace, TypeOK
  <2> QED
    BY <1>2, <1>3, <1>4, <2>1, <2>2, <2>3, <2>4 DEF StartTrace, TypeOK, agent, threads
<1>5. CASE StartQuery(r, tids)
  BY <1>1, <1>2, <1>3, <1>5 DEF StartQuery, Receive, Goto, TypeOK, agent, threads
<1>6. CASE StartReset(r)
  BY <1>2, <1>3, <1>6 DEF StartReset, Receive, Goto, TypeOK, agent, threads
<1> QED
  BY <1>4, <1>5, <1>6

(* A trace request is handled (trace_thread_handler.cpp:26-49).              *)
LEMMA TypesTrace ==
  ASSUME TypeOK, NEW r \in Receivers,
         Check(r) \/ CheckDone(r) \/ Follow(r) \/ Push(r) \/ ReplyTrace(r)
  PROVE  TypeOK'
<1>1. CASE Check(r)
  <2>1. todo' \in [Receivers -> Seq(Tids)] /\ need' \in [Receivers -> Seq(Tids)]
    <3>1. /\ todo[r] \in Seq(Tids) /\ todo[r] # <<>>
          /\ todo' = [todo EXCEPT ![r] = Tail(todo[r])]
      BY <1>1 DEF Check, TypeOK
    <3>2. Head(todo[r]) \in Tids /\ Tail(todo[r]) \in Seq(Tids)
      BY <3>1, HeadTailProperties
    <3>3. need' = need \/ need' = [need EXCEPT ![r] = Append(need[r], Head(todo[r]))]
      BY <1>1 DEF Check
    <3>4. Append(need[r], Head(todo[r])) \in Seq(Tids)
      BY <3>2, AppendProperties DEF TypeOK
    <3> QED
      BY <3>1, <3>2, <3>3, <3>4 DEF TypeOK
  <2>2. UNCHANGED <<rpc, tail, left, agent, threads, requests, executed>> /\ rpc[r] = "check"
    BY <1>1 DEF Check
  <2>3. \A q \in Receivers : rpc[q] = "push" => need'[q] # <<>>
    BY <1>1, <2>2 DEF Check, TypeOK
  <2>4. overlaps' \subseteq Overlap /\ stopped' \in {"no", "assert", "fault"}
    BY <1>1, OutcomesAreTyped DEF Check, Overlap
  <2> QED
    BY <2>1, <2>2, <2>3, <2>4 DEF TypeOK, agent, threads
<1>2. CASE CheckDone(r)
  BY <1>2 DEF CheckDone, Goto, TypeOK, agent, threads, history
<1>3. CASE Follow(r)
  <2>0. Head(need[r]) \in Tids
    BY <1>3, HeadTailProperties DEF Follow, TypeOK
  <2>1. stalked' \in [Tids -> Nat]
    <3>1. stalked' = stalked \/ stalked' = [stalked EXCEPT ![Head(need[r])] = @ + 1]
      BY <1>3 DEF Follow
    <3>2. stalked \in [Tids -> Nat]
      BY DEF TypeOK
    <3>3. stalked[Head(need[r])] + 1 \in Nat
      BY <2>0, <3>2
    <3> QED
      BY <2>0, <3>1, <3>2, <3>3
  <2>2. /\ tail' \in [Receivers -> Nat]
        /\ \A q \in Receivers : rpc'[q] = "push" => tail'[q] =< Len(slots)
    <3>1. end \in Nat /\ end =< Len(slots) /\ tail' = [tail EXCEPT ![r] = end]
      BY <1>3 DEF Follow, TypeOK
    <3>2. \A q \in Receivers : rpc'[q] = "push" => q = r \/ rpc[q] = "push"
      BY <1>3 DEF Follow, Goto, TypeOK
    <3> QED
      BY <3>1, <3>2 DEF TypeOK
  <2>3. rpc'[r] = "push" /\ \A q \in Receivers : rpc'[q] = "push" => need[q] # <<>>
    BY <1>3 DEF Follow, Goto, TypeOK
  <2> QED
    BY <1>3, <2>1, <2>2, <2>3 DEF Follow, Goto, TypeOK, agent, history
<1>4. CASE Push(r)
  <2>1. /\ Head(need[r]) \in Tids /\ tail[r] \in Nat /\ tail[r] =< Len(slots)
        /\ need' \in [Receivers -> Seq(Tids)]
    <3>1. need[r] \in Seq(Tids) /\ need[r] # <<>>
      BY <1>4 DEF Push, TypeOK
    <3>2. Head(need[r]) \in Tids /\ Tail(need[r]) \in Seq(Tids)
      BY <3>1, HeadTailProperties
    <3> QED
      BY <1>4, <3>2 DEF Push, TypeOK
  <2>2. slots' \in Seq(Tids) /\ Len(slots') >= Len(slots) /\ end' \in 0 .. Len(slots')
    <3>1. slots \in Seq(Tids) /\ Len(slots) \in Nat /\ end' = tail[r] + 1
      BY <1>4, LenProperties DEF Push, TypeOK
    <3>2. CASE tail[r] < Len(slots)
      <4>1. tail[r] + 1 \in 1 .. Len(slots)
        BY <2>1, <3>1, <3>2
      <4>2. slots' = [slots EXCEPT ![tail[r] + 1] = Head(need[r])]
        BY <1>4, <3>2 DEF Push
      <4>3. slots' \in Seq(Tids) /\ Len(slots') = Len(slots)
        BY <2>1, <3>1, <4>1, <4>2, ExceptSeq
      <4> QED
        BY <2>1, <3>1, <4>1, <4>3
    <3>3. CASE ~(tail[r] < Len(slots))
      <4>1. slots' = Append(slots, Head(need[r]))
        BY <1>4, <3>3 DEF Push
      <4>2. slots' \in Seq(Tids) /\ Len(slots') = Len(slots) + 1
        BY <2>1, <3>1, <4>1, AppendProperties
      <4> QED
        BY <2>1, <3>1, <3>3, <4>2
    <3> QED
      BY <3>2, <3>3
  <2>3. /\ tail' \in [Receivers -> Nat]
        /\ rpc' \in [Receivers -> {"idle", "check", "follow", "push", "query", "reset"}]
    BY <1>4 DEF Push, Goto, TypeOK
  <2>4. /\ \A q \in Receivers : rpc'[q] = "push" => need'[q] # <<>> /\ tail'[q] =< Len(slots)
    BY <1>4 DEF Push, Goto, TypeOK
  <2>5. \A q \in Receivers : rpc'[q] = "push" => tail'[q] =< Len(slots')
    BY <2>2, <2>3, <2>4 DEF TypeOK
  <2>6. overlaps' \subseteq Overlap /\ stopped' \in {"no", "assert", "fault"}
    BY <1>4, OutcomesAreTyped DEF Push, Overlap
  <2> QED
    BY <1>4, <2>1, <2>2, <2>3, <2>4, <2>5, <2>6 DEF Push, TypeOK, threads
<1>5. CASE ReplyTrace(r)
  BY <1>5 DEF ReplyTrace, Goto, TypeOK, agent, threads, history
<1> QED
  BY <1>1, <1>2, <1>3, <1>4, <1>5

(* Coverage is read and reset (trace_thread_handler.cpp:51-75).              *)
LEMMA TypesCoverage ==
  ASSUME TypeOK, NEW r \in Receivers, NEW t \in Tids, ResetOne(r, t)
  PROVE  TypeOK'
<1>0. overlaps' \subseteq Overlap /\ stopped' \in {"no", "assert", "fault"}
  <2>1. Defined \/ \E w \in Overlap : Undefined(w)
    BY DEF ResetOne, Defined, Overlap, history
  <2> QED
    BY <2>1, OutcomesAreTyped DEF Overlap
<1>1. Cleared(executed, t) \in [Info -> [Blocks -> Nat]]
  BY DEF Cleared, Zero, TypeOK
<1>2. Cleared(count, t) \in [Info -> [Blocks -> 0 .. MaxCount]]
  BY Bounds DEF Cleared, Zero, TypeOK
<1>3. UNCHANGED <<rpc, todo, need, tail, slots, end, coverage, key, threads, requests>>
  BY DEF ResetOne
<1>4. /\ count' \in [Info -> [Blocks -> 0 .. MaxCount]]
      /\ executed' \in [Info -> [Blocks -> Nat]]
      /\ left' \in [Receivers -> SUBSET Tids]
  BY <1>1, <1>2 DEF ResetOne, TypeOK
<1> QED
  BY <1>0, <1>3, <1>4 DEF TypeOK, threads

(* Requests for coverage are answered (trace_thread_handler.cpp:57-66, 73).  *)
LEMMA TypesAnswered ==
  ASSUME TypeOK, NEW r \in Receivers, Report(r) \/ ReplyQuery(r) \/ ReplyReset(r)
  PROVE  TypeOK'
<1>1. overlaps' \subseteq Overlap /\ stopped' \in {"no", "assert", "fault"}
  <2>1. Defined \/ \E w \in Overlap : Undefined(w)
    BY DEF Report, ReplyQuery, ReplyReset, Defined, Overlap, history
  <2> QED
    BY <2>1, OutcomesAreTyped DEF Overlap
<1>2. CASE Report(r)
  <2>1. todo[r] \in Seq(Tids) /\ todo[r] # <<>> /\ todo' = [todo EXCEPT ![r] = Tail(todo[r])]
    BY <1>2 DEF Report, TypeOK
  <2>2. todo' \in [Receivers -> Seq(Tids)]
    BY <2>1, HeadTailProperties DEF TypeOK
  <2>3. UNCHANGED <<rpc, need, tail, left, agent, threads, requests, executed>>
    BY <1>2 DEF Report
  <2> QED
    BY <1>1, <2>2, <2>3 DEF TypeOK, agent, threads
<1>3. CASE ReplyQuery(r) \/ ReplyReset(r)
  BY <1>3 DEF ReplyQuery, ReplyReset, Goto, TypeOK, agent, threads, history
<1> QED
  BY <1>2, <1>3

(* The threads of the target run, end and start (stalker.cpp:18-33).         *)
LEMMA TypesThread ==
  ASSUME TypeOK, NEW t \in Tids, NEW b \in Blocks,
         \/ Transform(t, b) \/ Insert(t) \/ Count(t, b) \/ AssertionFails(t, b)
         \/ Write(t) \/ Exit(t) \/ Start(t)
  PROVE  TypeOK'
<1>1. CASE Transform(t, b)
  <2>1. key \in 1 .. key
    BY Bounds DEF TypeOK
  <2>2. /\ code' \in [Tids -> SUBSET Blocks] /\ tls' \in [Tids -> SUBSET (1 .. key)]
        /\ ptr' \in [Tids -> 1 .. key]
    BY <1>1, <2>1 DEF Transform, TypeOK
  <2>3. /\ tpc' \in [Tids -> {"run", "insert", "write"}]
        /\ \A u \in Tids : tpc'[u] = "write" => tpc[u] = "write"
    BY <1>1 DEF Transform, TypeOK
  <2> QED
    BY <1>1, <2>2, <2>3 DEF Transform, TypeOK, receivers, agent, history
<1>2. CASE Insert(t)
  <2>1. InfoOf(t, ptr[t]) \in Info
    BY InfosAreTyped DEF TypeOK
  <2>2. coverage' \in [Tids -> SUBSET Info]
    <3>1. coverage' = coverage \/ coverage' = [coverage EXCEPT ![t] = {InfoOf(t, ptr[t])}]
      BY <1>2 DEF Insert
    <3>2. coverage \in [Tids -> SUBSET Info]
      BY DEF TypeOK
    <3>3. {InfoOf(t, ptr[t])} \in SUBSET Info
      BY <2>1
    <3> QED
      BY <3>1, <3>2, <3>3
  <2>3. overlaps' \subseteq Overlap /\ stopped' \in {"no", "assert", "fault"}
    BY <1>2, OutcomesAreTyped DEF Insert, Overlap
  <2> QED
    BY <1>2, <2>2, <2>3 DEF Insert, TypeOK, receivers
<1>3. CASE Count(t, b)
  <2>1. InfoOf(t, key) \in Info /\ key \in 1 .. key
    <3>1. key \in 1 .. key
      BY Bounds DEF TypeOK
    <3> QED
      BY <3>1, InfosAreTyped
  <2>2. executed' \in [Info -> [Blocks -> Nat]]
    BY <1>3, <2>1 DEF Count, TypeOK
  <2>3. /\ found' \in [Tids -> 0 .. MaxCount]
        /\ \A u \in Tids : tpc'[u] = "write" => found'[u] < MaxCount
    BY <1>3, <2>1 DEF Count, TypeOK
  <2>4. /\ ptr' \in [Tids -> 1 .. key] /\ at' \in [Tids -> Blocks]
        /\ tpc' \in [Tids -> {"run", "insert", "write"}]
    BY <1>3, <2>1 DEF Count, TypeOK
  <2> QED
    BY <1>3, <2>2, <2>3, <2>4 DEF Count, TypeOK, receivers, agent
<1>4. CASE AssertionFails(t, b)
  BY <1>4 DEF AssertionFails, TypeOK, receivers, agent, threads
<1>5. CASE Write(t)
  <2>1. InfoOf(t, ptr[t]) \in Info /\ found[t] + 1 \in 0 .. MaxCount /\ 0 \in 0 .. MaxCount
    <3>1. /\ ptr[t] \in 1 .. key /\ found[t] \in 0 .. MaxCount /\ found[t] < MaxCount
          /\ MaxCount \in Nat
      BY <1>5, Bounds DEF Write, TypeOK
    <3> QED
      BY <3>1, InfosAreTyped
  <2>2. count' \in [Info -> [Blocks -> 0 .. MaxCount]]
    BY <1>5, <2>1 DEF Write, TypeOK
  <2>3. /\ tpc' \in [Tids -> {"run", "insert", "write"}]
        /\ found' \in [Tids -> 0 .. MaxCount]
        /\ \A u \in Tids : tpc'[u] = "write" => found'[u] < MaxCount
    BY <1>5, <2>1 DEF Write, TypeOK
  <2> QED
    BY <1>5, <2>2, <2>3 DEF Write, TypeOK, receivers, history
<1>6. CASE Exit(t)
  BY <1>6 DEF Exit, TypeOK, receivers, agent, history
<1>7. CASE Start(t)
  <2>1. alive' \subseteq Tids /\ life' \in [Tids -> 1 .. MaxLives]
    <3>1. life[t] + 1 \in 1 .. MaxLives /\ life \in [Tids -> 1 .. MaxLives] /\ t \in Tids
      BY <1>7, Bounds DEF Start, TypeOK
    <3> QED
      BY <1>7, <3>1 DEF Start, TypeOK
  <2> QED
    BY <1>7, <2>1 DEF Start, TypeOK, receivers, agent, history
<1> QED
  BY <1>1, <1>2, <1>3, <1>4, <1>5, <1>6, <1>7

(* The agent is injected again (agent/server_main.cpp:88-94).                *)
LEMMA TypesInject == ASSUME TypeOK, InjectAgain PROVE TypeOK'
<1>1. key' \in 1 .. MaxRuns /\ \A k \in 1 .. key : k \in 1 .. key'
  BY Bounds DEF InjectAgain, TypeOK
<1>2. tls' \in [Tids -> SUBSET (1 .. key')] /\ ptr' \in [Tids -> 1 .. key']
  BY <1>1 DEF InjectAgain, TypeOK, threads
<1> QED
  BY <1>1, <1>2 DEF InjectAgain, TypeOK, receivers, threads, history

(* Every step keeps the types.                                              *)
LEMMA TypesNext == TypeOK /\ [Next]_vars => TypeOK'
<1> SUFFICES ASSUME TypeOK, [Next]_vars PROVE TypeOK'
  OBVIOUS
<1>1. CASE UNCHANGED vars
  BY <1>1 DEF TypeOK, vars, receivers, agent, threads, history
<1>2. ASSUME NEW r \in Receivers, ReceiverStep(r) PROVE TypeOK'
  <2>1. CASE \E t \in Tids : ResetOne(r, t)
    BY <2>1, TypesCoverage
  <2>2. CASE Report(r) \/ ReplyQuery(r) \/ ReplyReset(r)
    BY <2>2, TypesAnswered
  <2> QED
    BY <1>2, <2>1, <2>2, TypesTrace DEF ReceiverStep
<1>3. ASSUME NEW t \in Tids, ThreadStep(t) PROVE TypeOK'
  BY <1>3, TypesThread, BoundsAssumption DEF ThreadStep
<1>4. ASSUME NEW r \in Receivers, NEW tids \in RequestedTids,
             StartTrace(r, tids) \/ StartQuery(r, tids)
      PROVE  TypeOK'
  BY <1>4, TypesRequest
<1>5. ASSUME NEW r \in Receivers, StartReset(r) PROVE TypeOK'
  BY <1>5, Bounds DEF StartReset, Receive, Goto, TypeOK, agent, threads
<1> QED
  BY <1>1, <1>2, <1>3, <1>4, <1>5, TypesInject DEF Next

(* Every reachable state is well typed; in particular push_back's element    *)
(* lies within the memory of the vector (trace_thread_handler.cpp:45).       *)
THEOREM TypesHold == Spec => []TypeOK
  BY TypesInit, TypesNext, PTL DEF Spec

-------------------------------------------------------------------------------
(* Values live in the thread and under the key they were made for: compiled *)
(* code means there is a value under some key, a thread that is gone has    *)
(* left nothing, and an info on its way into the map is the current one.    *)
ValuesKept ==
  /\ \A t \in Tids : code[t] # {} => tls[t] # {}
  /\ \A t \in Tids \ alive : tls[t] = {} /\ code[t] = {} /\ tpc[t] = "run" /\ stalked[t] = 0
  /\ \A t \in Tids : tpc[t] = "insert" /\ key \in tls[t] => ptr[t] = key

OwnedInv == TypeOK /\ ValuesKept /\ CoverageOwned /\ AssertHoldsOnce

(* Receivers touch no thread but to follow it, and no map entry.             *)
LEMMA ReceiversKeep ==
  ASSUME TypeOK, NEW r \in Receivers,
         \/ ReceiverStep(r) \/ StartReset(r)
         \/ \E tids \in RequestedTids : StartTrace(r, tids) \/ StartQuery(r, tids)
  PROVE  /\ UNCHANGED <<key, alive, life, code, tls, tpc, ptr, coverage, at, found>>
         /\ overlaps \subseteq overlaps'
         /\ stopped' = "assert" => stopped = "assert"
         /\ \A t \in Tids \ alive : stalked'[t] = stalked[t]
<1>1. CASE ReceiverStep(r)
  <2>1. /\ UNCHANGED <<key, alive, life, code, tls, tpc, ptr, coverage, at, found>>
        /\ UNCHANGED stalked \/ Follow(r)
    BY <1>1 DEF ReceiverStep, Check, CheckDone, Follow, Push, ReplyTrace, Report, ReplyQuery,
       ResetOne, ReplyReset, agent, threads
  <2>2. UNCHANGED <<overlaps, stopped>> \/ Defined \/ \E w \in Overlap : Undefined(w)
    BY <1>1 DEF ReceiverStep, Check, CheckDone, Follow, Push, ReplyTrace, Report, ReplyQuery,
       ResetOne, ReplyReset, history, Overlap
  <2>3. overlaps \subseteq overlaps' /\ (stopped' = "assert" => stopped = "assert")
    BY <2>2 DEF Defined, Undefined
  <2>4. \A t \in Tids \ alive : stalked'[t] = stalked[t]
    BY <2>1 DEF Follow, TypeOK
  <2> QED
    BY <2>1, <2>3, <2>4
<1>2. CASE StartReset(r)
  BY <1>2 DEF StartReset, agent, threads
<1>3. CASE \E tids \in RequestedTids : StartTrace(r, tids) \/ StartQuery(r, tids)
  BY <1>3 DEF StartTrace, StartQuery, agent, threads
<1> QED
  BY <1>1, <1>2, <1>3

(* The callbacks keep it (stalker.cpp:18-33).                                *)
LEMMA OwnedThread ==
  ASSUME OwnedInv, NEW t \in Tids, NEW b \in Blocks,
         \/ Transform(t, b) \/ Insert(t) \/ Count(t, b) \/ AssertionFails(t, b)
         \/ Write(t) \/ Exit(t) \/ Start(t)
  PROVE  ValuesKept' /\ CoverageOwned' /\ AssertHoldsOnce'
<1> USE DEF OwnedInv
<1>1. CASE Transform(t, b)
  <2>1. /\ UNCHANGED <<key, alive, life, coverage, stalked, overlaps, stopped>> /\ t \in alive
        /\ tpc[t] = "run"
        /\ code' = [code EXCEPT ![t] = @ \cup {b}] /\ tls' = [tls EXCEPT ![t] = @ \cup {key}]
        /\ ptr' = [ptr EXCEPT ![t] = key]
        /\ tpc' = [tpc EXCEPT ![t] = IF key \in tls[t] THEN "run" ELSE "insert"]
    BY <1>1 DEF Transform, Runs, agent, history
  <2>2. /\ code \in [Tids -> SUBSET Blocks] /\ tls \in [Tids -> SUBSET (1 .. key)]
        /\ ptr \in [Tids -> 1 .. key] /\ tpc \in [Tids -> {"run", "insert", "write"}]
    BY DEF TypeOK
  <2>3. ValuesKept'
    BY <2>1, <2>2 DEF ValuesKept
  <2>4. CoverageOwned'
    <3> SUFFICES ASSUME "insert" \notin overlaps, NEW u \in alive, key \in tls'[u], tpc'[u] # "insert"
                 PROVE  coverage[u] = {InfoOf(u, key)}
      BY <2>1 DEF CoverageOwned, InfoOf
    <3>1. u \in Tids
      BY DEF TypeOK
    <3>2. key \in tls[u] /\ tpc[u] # "insert"
      BY <2>1, <2>2, <3>1
    <3> QED
      BY <3>2 DEF CoverageOwned
  <2> QED
    BY <2>1, <2>3, <2>4 DEF AssertHoldsOnce
<1>2. CASE Insert(t)
  <2>1. /\ UNCHANGED <<key, alive, life, code, tls, stalked, ptr>>
        /\ tpc[t] = "insert" /\ tpc' = [tpc EXCEPT ![t] = "run"]
        /\ \/ coverage' = [coverage EXCEPT ![t] = {InfoOf(t, ptr[t])}] /\ overlaps' = overlaps
           \/ "insert" \in overlaps'
        /\ stopped' = "assert" => stopped = "assert"
    BY <1>2 DEF Insert, Defined, Undefined
  <2>2. tpc \in [Tids -> {"run", "insert", "write"}] /\ coverage \in [Tids -> SUBSET Info]
    BY DEF TypeOK
  <2>3. ValuesKept'
    BY <2>1, <2>2 DEF ValuesKept
  <2>4. CoverageOwned'
    <3> SUFFICES ASSUME "insert" \notin overlaps', NEW u \in alive, key \in tls[u], tpc'[u] # "insert"
                 PROVE  coverage'[u] = {InfoOf(u, key)}
      BY <2>1 DEF CoverageOwned, InfoOf
    <3>1. u \in Tids
      BY DEF TypeOK
    <3>2. CASE u = t
      BY <2>1, <2>2, <3>2 DEF ValuesKept
    <3>3. CASE u # t
      BY <2>1, <2>2, <3>1, <3>3 DEF CoverageOwned
    <3> QED
      BY <3>2, <3>3
  <2> QED
    BY <2>1, <2>3, <2>4 DEF AssertHoldsOnce
<1>3. CASE Count(t, b) \/ Write(t)
  <2>1. /\ UNCHANGED <<key, alive, life, code, tls, stalked, coverage, overlaps, stopped>>
        /\ \A u \in Tids : tpc'[u] = "insert" <=> tpc[u] = "insert"
        /\ \A u \in Tids : tpc[u] = "insert" => ptr'[u] = ptr[u]
        /\ t \in alive /\ \A u \in Tids : u # t => tpc'[u] = tpc[u]
    <3>1. CASE Count(t, b)
      BY <3>1 DEF Count, Runs, TypeOK, agent
    <3>2. CASE Write(t)
      <4>1. t \in alive
        BY <3>2 DEF Write, ValuesKept
      <4> QED
        BY <3>2, <4>1 DEF Write, TypeOK, history
    <3> QED
      BY <1>3, <3>1, <3>2
  <2>2. ValuesKept'
    BY <2>1 DEF ValuesKept
  <2>3. CoverageOwned'
    BY <2>1 DEF CoverageOwned, InfoOf, TypeOK
  <2> QED
    BY <2>1, <2>2, <2>3 DEF AssertHoldsOnce
<1>4. CASE AssertionFails(t, b)
  <2>1. key > 1
    <3>1. PICK k \in tls[t] : TRUE
      BY <1>4 DEF AssertionFails, ValuesKept
    <3>2. k \in 1 .. key /\ k # key
      BY <1>4, <3>1 DEF AssertionFails, TypeOK
    <3> QED
      BY <3>2, Bounds DEF TypeOK
  <2>2. UNCHANGED <<agent, threads, overlaps>>
    BY <1>4 DEF AssertionFails
  <2> QED
    BY <2>1, <2>2 DEF AssertHoldsOnce, ValuesKept, CoverageOwned, InfoOf, agent, threads
<1>5. CASE Exit(t)
  <2>1. /\ UNCHANGED <<key, life, coverage, tpc, ptr, overlaps, stopped>> /\ tpc[t] = "run"
        /\ alive' = alive \ {t} /\ stalked' = [stalked EXCEPT ![t] = 0]
        /\ code' = [code EXCEPT ![t] = {}] /\ tls' = [tls EXCEPT ![t] = {}]
    BY <1>5 DEF Exit, Runs, agent, history
  <2>2. ValuesKept'
    BY <2>1 DEF ValuesKept, TypeOK
  <2>3. CoverageOwned'
    BY <2>1 DEF CoverageOwned, InfoOf, TypeOK
  <2> QED
    BY <2>1, <2>2, <2>3 DEF AssertHoldsOnce
<1>6. CASE Start(t)
  <2>1. /\ UNCHANGED <<key, coverage, code, tls, stalked, tpc, ptr, overlaps, stopped>>
        /\ t \notin alive /\ alive' = alive \cup {t} /\ life' = [life EXCEPT ![t] = @ + 1]
    BY <1>6 DEF Start, agent, history
  <2>2. ValuesKept'
    BY <2>1 DEF ValuesKept
  <2>3. CoverageOwned'
    BY <2>1 DEF CoverageOwned, InfoOf, ValuesKept, TypeOK
  <2> QED
    BY <2>1, <2>2, <2>3 DEF AssertHoldsOnce
<1> QED
  BY <1>1, <1>2, <1>3, <1>4, <1>5, <1>6

(* Every step keeps the owners of values and of coverage.                    *)
LEMMA OwnedNext == OwnedInv /\ [Next]_vars => OwnedInv'
<1> SUFFICES ASSUME OwnedInv, [Next]_vars PROVE OwnedInv'
  OBVIOUS
<1>1. TypeOK'
  BY TypesNext DEF OwnedInv
<1>2. CASE UNCHANGED vars
  BY <1>1, <1>2 DEF OwnedInv, ValuesKept, CoverageOwned, AssertHoldsOnce, InfoOf,
     vars, agent, threads, history
<1>3. ASSUME NEW r \in Receivers,
             \/ ReceiverStep(r) \/ StartReset(r)
             \/ \E tids \in RequestedTids : StartTrace(r, tids) \/ StartQuery(r, tids)
      PROVE  OwnedInv'
  BY <1>1, <1>3, ReceiversKeep
  DEF OwnedInv, ValuesKept, CoverageOwned, AssertHoldsOnce, InfoOf
<1>4. ASSUME NEW t \in Tids, ThreadStep(t) PROVE OwnedInv'
  BY <1>1, <1>4, OwnedThread, BoundsAssumption DEF ThreadStep, OwnedInv
<1>5. CASE InjectAgain
  <2>1. /\ UNCHANGED <<coverage, alive, life, code, tls, tpc, stalked, ptr, overlaps, stopped>>
        /\ key' = key + 1
    BY <1>5 DEF InjectAgain, threads, history
  <2>2. \A t \in Tids : key' \notin tls[t]
    BY <2>1, Bounds DEF OwnedInv, TypeOK
  <2>3. ValuesKept' /\ CoverageOwned'
    BY <2>1, <2>2 DEF OwnedInv, ValuesKept, CoverageOwned, TypeOK
  <2>4. AssertHoldsOnce'
    BY <2>1, Bounds DEF OwnedInv, AssertHoldsOnce, TypeOK
  <2> QED
    BY <1>1, <2>3, <2>4 DEF OwnedInv
<1> QED
  BY <1>2, <1>3, <1>4, <1>5 DEF Next

(* Nothing has been reported or compiled at the start.                       *)
LEMMA OwnedInit == Init => OwnedInv
  BY TypesInit DEF Init, OwnedInv, ValuesKept, CoverageOwned, AssertHoldsOnce

(* Reports are about the thread that has the tid now (stalker.cpp:26-33).    *)
THEOREM CoverageCorrect == Spec => []CoverageOwned
<1>1. OwnedInv => CoverageOwned
  BY DEF OwnedInv
<1> QED
  BY <1>1, OwnedInit, OwnedNext, PTL DEF Spec

(* The callout's assertion holds in a process that was injected once         *)
(* (stalker.cpp:19).                                                         *)
THEOREM AssertionCorrect == Spec => []AssertHoldsOnce
<1>1. OwnedInv => AssertHoldsOnce
  BY DEF OwnedInv
<1> QED
  BY <1>1, OwnedInit, OwnedNext, PTL DEF Spec

-------------------------------------------------------------------------------
(* What is followed is in the vector or about to be put there.               *)
Pushes(t) == \E r \in Receivers : rpc[r] = "push" /\ Head(need[r]) = t
Remembered ==
  "push" \notin overlaps =>
    \A t \in alive : /\ stalked[t] > 0 => Follows(t) \/ Pushes(t)
                     /\ life[t] = 1 /\ (Follows(t) \/ Pushes(t)) => stalked[t] > 0

(* Requests that come one by one: what is still to be done names no thread   *)
(* twice, and none that is followed.                                         *)
NamesEach(tids) == \A i, j \in 1 .. Len(tids) : tids[i] = tids[j] => i = j
Names(tids, t) == \E i \in 1 .. Len(tids) : tids[i] = t
OneByOne ==
  overlaps \cap {"request", "push"} = {} =>
    /\ \A q, r \in Receivers : Tracing(q) /\ Tracing(r) => q = r
    /\ \A r \in Receivers : Tracing(r) =>
         /\ NamesEach(todo[r]) /\ NamesEach(need[r])
         /\ \A t \in Tids : Names(need[r], t) => ~Names(todo[r], t) /\ ~Follows(t)

FollowInv == OwnedInv /\ Remembered /\ OneByOne /\ FollowedOnce

(* Taking a thread from a request.                                           *)
LEMMA HeadAndTail ==
  ASSUME NEW tids \in Seq(Tids), tids # <<>>
  PROVE  /\ Head(tids) \in Tids /\ Names(tids, Head(tids))
         /\ \A t \in Tids : Names(tids, t) <=> t = Head(tids) \/ Names(Tail(tids), t)
         /\ NamesEach(tids) => NamesEach(Tail(tids)) /\ ~Names(Tail(tids), Head(tids))
<1>1. Len(tids) \in Nat \ {0} /\ Head(tids) = tids[1] /\ Head(tids) \in Tids
  BY HeadTailProperties, EmptySeq
<1>2. /\ Tail(tids) \in Seq(Tids) /\ Len(Tail(tids)) = Len(tids) - 1
      /\ \A i \in 1 .. Len(Tail(tids)) : Tail(tids)[i] = tids[i + 1]
  BY HeadTailProperties
<1>3. \A i \in 1 .. Len(tids) : i = 1 \/ (i - 1 \in 1 .. Len(Tail(tids)) /\ Tail(tids)[i - 1] = tids[i])
  BY <1>1, <1>2
<1>4. Names(tids, Head(tids))
  BY <1>1 DEF Names
<1>5. ASSUME NEW t \in Tids, Names(tids, t) PROVE t = Head(tids) \/ Names(Tail(tids), t)
  BY <1>1, <1>3, <1>5 DEF Names
<1>6. ASSUME NEW t \in Tids, Names(Tail(tids), t)
      PROVE  \E i \in 2 .. Len(tids) : tids[i] = t
  <2>1. PICK i \in 1 .. Len(Tail(tids)) : Tail(tids)[i] = t
    BY <1>6 DEF Names
  <2> QED
    BY <1>1, <1>2, <2>1
<1>7. ASSUME NEW t \in Tids, Names(Tail(tids), t) PROVE Names(tids, t)
  BY <1>1, <1>6, <1>7 DEF Names
<1>8. ASSUME NamesEach(tids) PROVE NamesEach(Tail(tids))
  <2> SUFFICES ASSUME NEW i \in 1 .. Len(Tail(tids)), NEW j \in 1 .. Len(Tail(tids)),
                      Tail(tids)[i] = Tail(tids)[j]
               PROVE  i = j
    BY DEF NamesEach
  <2>1. /\ i + 1 \in 1 .. Len(tids) /\ j + 1 \in 1 .. Len(tids)
        /\ tids[i + 1] = tids[j + 1]
    BY <1>1, <1>2
  <2>2. i + 1 = j + 1
    BY <1>8, <2>1 DEF NamesEach
  <2> QED
    BY <2>2
<1>9. ASSUME NamesEach(tids) PROVE ~Names(Tail(tids), Head(tids))
  <2> SUFFICES ASSUME Names(Tail(tids), Head(tids)) PROVE FALSE
    OBVIOUS
  <2>1. PICK i \in 2 .. Len(tids) : tids[i] = Head(tids)
    BY <1>1, <1>6
  <2> QED
    BY <1>1, <1>9, <2>1 DEF NamesEach
<1> QED
  BY <1>1, <1>4, <1>5, <1>7, <1>8, <1>9

(* Putting one at the end of another.                                        *)
LEMMA AppendNames ==
  ASSUME NEW tids \in Seq(Tids), NEW u \in Tids
  PROVE  /\ \A t \in Tids : Names(Append(tids, u), t) <=> t = u \/ Names(tids, t)
         /\ NamesEach(tids) /\ ~Names(tids, u) => NamesEach(Append(tids, u))
<1>1. /\ Len(tids) \in Nat /\ Len(Append(tids, u)) = Len(tids) + 1
      /\ Append(tids, u)[Len(tids) + 1] = u
      /\ \A i \in 1 .. Len(tids) : Append(tids, u)[i] = tids[i]
  BY AppendProperties
<1> QED
  BY <1>1 DEF Names, NamesEach

(* push_back that nobody disturbs.                                           *)
LEMMA PushFollows ==
  ASSUME TypeOK, NEW r \in Receivers, Push(r), "push" \notin overlaps'
  PROVE  /\ \A t \in Tids : Follows(t)' <=> Follows(t) \/ t = Head(need[r])
         /\ overlaps' = overlaps
<1>1. tail[r] = end /\ overlaps' = overlaps
  BY DEF Push, Defined, Undefined
<1>2. /\ slots \in Seq(Tids) /\ end \in 0 .. Len(slots) /\ end' = end + 1
      /\ slots' = IF end < Len(slots) THEN [slots EXCEPT ![end + 1] = Head(need[r])]
                  ELSE Append(slots, Head(need[r]))
  BY <1>1 DEF Push, TypeOK
<1>3. slots'[end + 1] = Head(need[r]) /\ \A i \in 1 .. end : slots'[i] = slots[i]
  <2>1. CASE end < Len(slots)
    BY <1>2, <2>1
  <2>2. CASE end = Len(slots)
    BY <1>2, <2>2, AppendProperties
  <2> QED
    BY <1>2, <2>1, <2>2
<1>4. \A i : i \in 1 .. end + 1 <=> i \in 1 .. end \/ i = end + 1
  BY <1>2
<1> QED
  BY <1>1, <1>2, <1>3, <1>4 DEF Follows

(* Steps that follow nothing and push nothing.                               *)
LEMMA OthersFollowNothing ==
  ASSUME TypeOK, [Next]_vars, \A r \in Receivers : ~Follow(r) /\ ~Push(r)
  PROVE  /\ overlaps \subseteq overlaps' /\ slots' = slots /\ end' = end
         /\ \A r \in Receivers : /\ rpc'[r] = "push" <=> rpc[r] = "push"
                                 /\ rpc[r] = "push" => need'[r] = need[r]
<1>1. rpc \in [Receivers -> {"idle", "check", "follow", "push", "query", "reset"}]
      /\ need \in [Receivers -> Seq(Tids)]
  BY DEF TypeOK
<1>2. ASSUME NEW r \in Receivers, NEW tids \in RequestedTids,
             StartTrace(r, tids) \/ StartQuery(r, tids)
      PROVE  /\ overlaps \subseteq overlaps' /\ slots' = slots /\ end' = end
             /\ rpc[r] # "push" /\ rpc'[r] # "push"
             /\ \A q \in Receivers \ {r} : rpc'[q] = rpc[q] /\ need'[q] = need[q]
  BY <1>1, <1>2 DEF StartTrace, StartQuery, Receive, Goto, agent
<1>3. ASSUME NEW r \in Receivers,
             Check(r) \/ CheckDone(r) \/ ReplyTrace(r) \/ Report(r) \/ ReplyQuery(r)
               \/ (\E t \in Tids : ResetOne(r, t)) \/ ReplyReset(r)
      PROVE  /\ overlaps \subseteq overlaps' /\ slots' = slots /\ end' = end
             /\ rpc[r] # "push" /\ rpc'[r] # "push"
             /\ \A q \in Receivers \ {r} : rpc'[q] = rpc[q] /\ need'[q] = need[q]
  BY <1>1, <1>3 DEF Check, CheckDone, ReplyTrace, Report, ReplyQuery, ResetOne, ReplyReset,
     Defined, Undefined, Goto, agent, history
<1>4. ASSUME NEW t \in Tids, ThreadStep(t)
      PROVE  overlaps \subseteq overlaps' /\ slots' = slots /\ end' = end /\ UNCHANGED receivers
  BY <1>4 DEF ThreadStep, Insert, Write, Exit, Start, Transform, Count, AssertionFails, Defined,
     Undefined, agent, history
<1>5. ASSUME InjectAgain \/ UNCHANGED vars
      PROVE  overlaps' = overlaps /\ slots' = slots /\ end' = end /\ UNCHANGED receivers
  BY <1>5 DEF InjectAgain, vars, agent, history
<1>6. ASSUME NEW r \in Receivers, StartReset(r)
      PROVE  /\ overlaps \subseteq overlaps' /\ slots' = slots /\ end' = end
             /\ rpc[r] # "push" /\ rpc'[r] # "push"
             /\ \A q \in Receivers \ {r} : rpc'[q] = rpc[q] /\ need'[q] = need[q]
  BY <1>1, <1>6 DEF StartReset, Receive, Goto, agent
<1> QED
  BY <1>2, <1>3, <1>4, <1>5, <1>6 DEF Next, ReceiverStep, receivers

(* Only Follow follows, and only threads end and start.                      *)
LEMMA StalkedElsewhere ==
  ASSUME [Next]_vars, \A r \in Receivers : ~Follow(r), \A t \in Tids : ~Exit(t) /\ ~Start(t)
  PROVE  alive' = alive /\ life' = life /\ stalked' = stalked
<1>1. ASSUME NEW r \in Receivers,
             \/ ReceiverStep(r) \/ StartReset(r)
             \/ \E tids \in RequestedTids : StartTrace(r, tids) \/ StartQuery(r, tids)
      PROVE  UNCHANGED threads
  BY <1>1 DEF ReceiverStep, StartTrace, StartQuery, StartReset, Check, CheckDone, Push,
     ReplyTrace, Report, ReplyQuery, ResetOne, ReplyReset
<1>2. ASSUME NEW t \in Tids, ThreadStep(t)
      PROVE  alive' = alive /\ life' = life /\ stalked' = stalked
  BY <1>2 DEF ThreadStep, Insert, Write, Transform, Count, AssertionFails, threads
<1>3. InjectAgain \/ UNCHANGED vars => UNCHANGED threads
  BY DEF InjectAgain, vars
<1> QED
  BY <1>1, <1>2, <1>3 DEF Next, threads

(* Following a thread and then remembering it: in between it is about to be  *)
(* remembered (trace_thread_handler.cpp:43-45).                              *)
LEMMA RememberedNext ==
  TypeOK /\ ValuesKept /\ Remembered /\ [Next]_vars => Remembered'
<1> SUFFICES ASSUME TypeOK, ValuesKept, Remembered, [Next]_vars, "push" \notin overlaps',
                    NEW t \in alive'
             PROVE  /\ stalked'[t] > 0 => Follows(t)' \/ Pushes(t)'
                    /\ life'[t] = 1 /\ (Follows(t)' \/ Pushes(t)') => stalked'[t] > 0
  BY DEF Remembered
<1>1. /\ alive \subseteq Tids /\ stalked \in [Tids -> Nat] /\ life \in [Tids -> 1 .. MaxLives]
      /\ rpc \in [Receivers -> {"idle", "check", "follow", "push", "query", "reset"}]
      /\ need \in [Receivers -> Seq(Tids)] /\ MaxLives \in Nat
  BY Bounds DEF TypeOK
<1>2. ASSUME NEW r \in Receivers, Follow(r)
      PROVE  /\ stalked'[t] > 0 => Follows(t)' \/ Pushes(t)'
             /\ life'[t] = 1 /\ (Follows(t)' \/ Pushes(t)') => stalked'[t] > 0
  <2>1. /\ overlaps' = overlaps /\ alive' = alive /\ life' = life /\ t \in alive
        /\ Follows(t)' <=> Follows(t)
    BY <1>2 DEF Follow, agent, history, Follows
  <2>2. Head(need[r]) \in Tids
    BY <1>1, <1>2, HeadAndTail DEF Follow
  <2>3. stalked'[t] = IF t = Head(need[r]) THEN stalked[t] + 1 ELSE stalked[t]
    BY <1>1, <1>2, <2>1, <2>2 DEF Follow
  <2>4. Pushes(t)' <=> Pushes(t) \/ t = Head(need[r])
    BY <1>1, <1>2 DEF Follow, Goto, Pushes
  <2> QED
    BY <1>1, <2>1, <2>3, <2>4 DEF Remembered
<1>3. ASSUME NEW r \in Receivers, Push(r)
      PROVE  /\ stalked'[t] > 0 => Follows(t)' \/ Pushes(t)'
             /\ life'[t] = 1 /\ (Follows(t)' \/ Pushes(t)') => stalked'[t] > 0
  <2>1. /\ alive' = alive /\ life' = life /\ stalked' = stalked /\ t \in alive
    BY <1>3 DEF Push, threads
  <2>2. /\ Follows(t)' <=> Follows(t) \/ t = Head(need[r])
        /\ overlaps' = overlaps
    BY <1>1, <1>3, <2>1, PushFollows
  <2>3. /\ Pushes(t)' => Pushes(t)
        /\ Pushes(t) => Pushes(t)' \/ t = Head(need[r])
        /\ t = Head(need[r]) => Pushes(t)
    BY <1>1, <1>3 DEF Push, Goto, Pushes
  <2> QED
    BY <2>1, <2>2, <2>3 DEF Remembered
<1>4. ASSUME \A r \in Receivers : ~Follow(r) /\ ~Push(r)
      PROVE  /\ stalked'[t] > 0 => Follows(t)' \/ Pushes(t)'
             /\ life'[t] = 1 /\ (Follows(t)' \/ Pushes(t)') => stalked'[t] > 0
  <2>1. /\ "push" \notin overlaps
        /\ Follows(t)' <=> Follows(t)
        /\ Pushes(t)' <=> Pushes(t)
    <3>1. /\ overlaps \subseteq overlaps' /\ slots' = slots /\ end' = end
          /\ \A r \in Receivers : /\ rpc'[r] = "push" <=> rpc[r] = "push"
                                  /\ rpc[r] = "push" => need'[r] = need[r]
      BY <1>4, OthersFollowNothing
    <3>2. Follows(t)' <=> Follows(t)
      BY <3>1 DEF Follows
    <3>3. Pushes(t)' <=> Pushes(t)
      <4>1. ASSUME NEW r \in Receivers
            PROVE  (rpc[r] = "push" /\ Head(need[r]) = t)' <=> rpc[r] = "push" /\ Head(need[r]) = t
        BY <3>1
      <4> QED
        BY <4>1 DEF Pushes
    <3> QED
      BY <3>1, <3>2, <3>3
  <2>2. ASSUME NEW u \in Tids, Exit(u)
        PROVE  t \in alive /\ stalked'[t] = stalked[t] /\ life' = life
    BY <1>1, <2>2 DEF Exit
  <2>3. ASSUME NEW u \in Tids, Start(u)
        PROVE  IF t = u THEN life'[t] # 1 /\ stalked'[t] = 0
               ELSE t \in alive /\ stalked'[t] = stalked[t] /\ life'[t] = life[t]
    BY <1>1, <2>3 DEF Start, ValuesKept
  <2>4. \/ \E u \in Tids : Exit(u) \/ Start(u)
        \/ t \in alive /\ stalked' = stalked /\ life' = life
    BY <1>4, StalkedElsewhere
  <2> QED
    BY <1>1, <2>1, <2>2, <2>3, <2>4 DEF Remembered
<1> QED
  BY <1>2, <1>3, <1>4

(* Steps that leave requests for traces alone.                               *)
LEMMA TracesElsewhere ==
  ASSUME TypeOK, [Next]_vars, \A r \in Receivers : ~Follow(r) /\ ~Push(r) /\ ~Check(r),
         \A r \in Receivers, tids \in RequestedTids : ~StartTrace(r, tids)
  PROVE  \A r \in Receivers :
           Tracing(r)' => Tracing(r) /\ todo'[r] = todo[r] /\ need'[r] = need[r]
<1>1. /\ rpc \in [Receivers -> {"idle", "check", "follow", "push", "query", "reset"}]
      /\ need \in [Receivers -> Seq(Tids)] /\ todo \in [Receivers -> Seq(Tids)]
  BY DEF TypeOK
<1>2. ASSUME NEW q \in Receivers, NEW r \in Receivers, Tracing(r)',
             \/ StartReset(q) \/ \E tids \in RequestedTids : StartQuery(q, tids)
             \/ CheckDone(q) \/ ReplyTrace(q) \/ Report(q) \/ ReplyQuery(q)
             \/ (\E t \in Tids : ResetOne(q, t)) \/ ReplyReset(q)
      PROVE  Tracing(r) /\ todo'[r] = todo[r] /\ need'[r] = need[r]
  BY <1>1, <1>2 DEF StartReset, StartQuery, Receive, CheckDone, ReplyTrace, Report, ReplyQuery,
     ResetOne, ReplyReset, Goto, Tracing
<1>3. ASSUME InjectAgain \/ UNCHANGED vars \/ \E t \in Tids : ThreadStep(t)
      PROVE  UNCHANGED <<rpc, todo, need>>
  <2>1. CASE InjectAgain \/ UNCHANGED vars
    BY <2>1 DEF InjectAgain, vars, receivers
  <2>2. ASSUME NEW t \in Tids, ThreadStep(t) PROVE UNCHANGED receivers
    <3>1. ASSUME Insert(t) \/ Write(t) \/ Exit(t) \/ Start(t) PROVE UNCHANGED receivers
      BY <3>1 DEF Insert, Write, Exit, Start
    <3>2. ASSUME NEW b \in Blocks, Transform(t, b) \/ Count(t, b) \/ AssertionFails(t, b)
          PROVE  UNCHANGED receivers
      BY <3>2 DEF Transform, Count, AssertionFails
    <3> QED
      BY <2>2, <3>1, <3>2 DEF ThreadStep
  <2> QED
    BY <1>3, <2>1, <2>2 DEF receivers
<1> QED
  BY <1>2, <1>3 DEF Next, ReceiverStep, Tracing

(* A request that is alone names its threads once each.                      *)
LEMMA OneByOneStart ==
  ASSUME TypeOK, NEW r \in Receivers, NEW tids \in RequestedTids, StartTrace(r, tids),
         overlaps' \cap {"request", "push"} = {}
  PROVE  OneByOne'
<1>1. /\ todo \in [Receivers -> Seq(Tids)] /\ need \in [Receivers -> Seq(Tids)]
      /\ rpc \in [Receivers -> {"idle", "check", "follow", "push", "query", "reset"}]
  BY DEF TypeOK
<1>2. ~Unusual(r, tids)
  BY DEF StartTrace
<1>3. todo'[r] = tids /\ need'[r] = <<>>
  BY <1>1 DEF StartTrace
<1>4. \A q \in Receivers : Tracing(q)' => q = r
  BY <1>1, <1>2 DEF StartTrace, Receive, Goto, Tracing, Unusual
<1>5. NamesEach(tids)
  BY <1>2 DEF Unusual, NamesEach
<1>6. NamesEach(<<>>) /\ \A t \in Tids : ~Names(<<>>, t)
  BY DEF NamesEach, Names
<1> QED
  BY <1>3, <1>4, <1>5, <1>6 DEF OneByOne

(* A thread of the request is looked up (trace_thread_handler.cpp:26-33).    *)
LEMMA OneByOneCheck ==
  ASSUME TypeOK, OneByOne, NEW r \in Receivers, Check(r),
         overlaps' \cap {"request", "push"} = {}
  PROVE  OneByOne'
<1> DEFINE h == Head(todo[r])
<1>1. /\ todo \in [Receivers -> Seq(Tids)] /\ need \in [Receivers -> Seq(Tids)]
      /\ todo[r] # <<>> /\ Tracing(r)
  BY DEF TypeOK, Check, Tracing
<1>2. /\ todo'[r] = Tail(todo[r]) /\ rpc' = rpc
      /\ overlaps' = overlaps /\ UNCHANGED <<slots, end>>
      /\ \/ need'[r] = need[r]
         \/ need'[r] = Append(need[r], h) /\ ~Follows(h)
  BY <1>1 DEF Check, Defined, Undefined, agent
<1>3. /\ \A q \in Receivers : Tracing(q) => q = r
      /\ NamesEach(todo[r]) /\ NamesEach(need[r])
      /\ \A t \in Tids : Names(need[r], t) => ~Names(todo[r], t) /\ ~Follows(t)
  BY <1>1, <1>2 DEF OneByOne
<1>4. /\ h \in Tids /\ Names(todo[r], h) /\ ~Names(Tail(todo[r]), h)
      /\ NamesEach(Tail(todo[r]))
      /\ \A t \in Tids : Names(Tail(todo[r]), t) => Names(todo[r], t)
  BY <1>1, <1>3, HeadAndTail
<1>5. /\ \A t \in Tids : Names(Append(need[r], h), t) <=> t = h \/ Names(need[r], t)
      /\ NamesEach(Append(need[r], h))
  BY <1>1, <1>3, <1>4, AppendNames
<1>6. \A t \in Tids : Names(need'[r], t) => ~Names(Tail(todo[r]), t) /\ ~Follows(t)
  BY <1>2, <1>3, <1>4, <1>5
<1>7. NamesEach(need'[r])
  BY <1>2, <1>3, <1>5
<1>8. \A t \in Tids : Follows(t)' <=> Follows(t)
  BY <1>2 DEF Follows
<1>9. \A q \in Receivers : Tracing(q)' => q = r
  BY <1>2, <1>3 DEF Tracing
<1> QED
  BY <1>2, <1>4, <1>6, <1>7, <1>8, <1>9 DEF OneByOne

(* A thread of the request is remembered.                                    *)
LEMMA OneByOnePush ==
  ASSUME TypeOK, OneByOne, NEW r \in Receivers, Push(r),
         overlaps' \cap {"request", "push"} = {}
  PROVE  OneByOne'
<1>1. /\ need \in [Receivers -> Seq(Tids)] /\ need[r] # <<>> /\ Tracing(r)
      /\ rpc \in [Receivers -> {"idle", "check", "follow", "push", "query", "reset"}]
  BY DEF TypeOK, Push, Tracing
<1>2. /\ \A t \in Tids : Follows(t)' <=> Follows(t) \/ t = Head(need[r])
      /\ overlaps' = overlaps
  BY PushFollows
<1>3. /\ \A q \in Receivers : Tracing(q) => q = r
      /\ NamesEach(todo[r]) /\ NamesEach(need[r])
      /\ \A t \in Tids : Names(need[r], t) => ~Names(todo[r], t) /\ ~Follows(t)
  BY <1>1, <1>2 DEF OneByOne
<1>4. todo' = todo /\ need'[r] = Tail(need[r])
  BY <1>1 DEF Push
<1>5. \A q \in Receivers : Tracing(q)' => q = r
  BY <1>1, <1>3 DEF Push, Goto, Tracing
<1>6. /\ NamesEach(Tail(need[r])) /\ ~Names(Tail(need[r]), Head(need[r]))
      /\ \A t \in Tids : Names(Tail(need[r]), t) => Names(need[r], t)
  BY <1>1, <1>3, HeadAndTail
<1> QED
  BY <1>2, <1>3, <1>4, <1>5, <1>6 DEF OneByOne

(* Every other step, following included, leaves requests as they are.        *)
LEMMA OneByOneNext ==
  ASSUME TypeOK, OneByOne, [Next]_vars PROVE OneByOne'
<1> SUFFICES ASSUME overlaps' \cap {"request", "push"} = {} PROVE OneByOne'
  BY DEF OneByOne
<1>1. ASSUME NEW r \in Receivers, Follow(r) PROVE OneByOne'
  <2>1. /\ UNCHANGED <<slots, end, todo, need, overlaps>> /\ \A q \in Receivers : Tracing(q)' <=> Tracing(q)
    BY <1>1 DEF Follow, Goto, Tracing, agent, history, TypeOK
  <2>2. \A t \in Tids : Follows(t)' <=> Follows(t)
    BY <2>1 DEF Follows
  <2> QED
    BY <2>1, <2>2 DEF OneByOne
<1>2. ASSUME \A r \in Receivers : ~Follow(r) /\ ~Push(r) /\ ~Check(r),
             \A r \in Receivers, tids \in RequestedTids : ~StartTrace(r, tids)
      PROVE  OneByOne'
  <2>1. overlaps \subseteq overlaps' /\ slots' = slots /\ end' = end
    BY <1>2, OthersFollowNothing
  <2>2. \A t \in Tids : Follows(t)' <=> Follows(t)
    BY <2>1 DEF Follows
  <2>3. \A r \in Receivers :
          Tracing(r)' => Tracing(r) /\ todo'[r] = todo[r] /\ need'[r] = need[r]
    BY <1>2, TracesElsewhere
  <2> QED
    BY <2>1, <2>2, <2>3 DEF OneByOne
<1> QED
  BY <1>1, <1>2, OneByOneStart, OneByOneCheck, OneByOnePush

(* A thread that is about to be followed is not followed.                    *)
LEMMA FollowedOnceNext ==
  ASSUME TypeOK, Remembered, OneByOne, FollowedOnce, [Next]_vars PROVE FollowedOnce'
<1> SUFFICES ASSUME overlaps' \cap {"request", "push"} = {}, NEW t \in Tids
             PROVE  stalked'[t] =< 1
  BY DEF FollowedOnce
<1>1. stalked \in [Tids -> Nat] /\ need \in [Receivers -> Seq(Tids)]
  BY DEF TypeOK
<1>2. ASSUME NEW r \in Receivers, Follow(r) PROVE stalked'[t] =< 1
  <2>1. overlaps' = overlaps /\ Tracing(r) /\ need[r] # <<>> /\ rpc[r] = "follow"
    BY <1>2 DEF Follow, history, Tracing
  <2>2. Head(need[r]) \in Tids /\ Names(need[r], Head(need[r]))
    BY <1>1, <2>1, HeadAndTail
  <2>3. ~Follows(Head(need[r])) /\ ~Pushes(Head(need[r]))
    BY <2>1, <2>2 DEF OneByOne, Pushes, Tracing
  <2>4. Head(need[r]) \in alive => stalked[Head(need[r])] = 0
    BY <1>1, <2>1, <2>2, <2>3 DEF Remembered
  <2>5. stalked[t] =< 1
    BY <2>1 DEF FollowedOnce
  <2> QED
    BY <1>1, <1>2, <2>2, <2>4, <2>5 DEF Follow
<1>3. ASSUME \A r \in Receivers : ~Follow(r) PROVE stalked'[t] =< 1
  <2>1. overlaps \subseteq overlaps'
    <3>1. CASE \E r \in Receivers : Push(r)
      BY <3>1 DEF Push, Defined, Undefined
    <3> QED
      BY <1>3, <3>1, OthersFollowNothing
  <2>2. stalked' = stalked \/ \E u \in Tids : Exit(u) \/ Start(u)
    BY <1>3, StalkedElsewhere
  <2>3. stalked[t] =< 1
    BY <2>1 DEF FollowedOnce
  <2>4. ASSUME NEW u \in Tids, Exit(u) \/ Start(u) PROVE stalked'[t] =< 1
    BY <1>1, <2>3, <2>4 DEF Exit, Start
  <2> QED
    BY <2>2, <2>3, <2>4
<1> QED
  BY <1>2, <1>3

(* The invariants of tracing hold together.                                  *)
LEMMA FollowCorrect == Spec => []FollowInv
<1>1. Init => FollowInv
  <2> SUFFICES ASSUME Init PROVE FollowInv
    OBVIOUS
  <2>1. \A t \in Tids : ~Follows(t) /\ ~Pushes(t) /\ stalked[t] = 0
    BY DEF Init, Follows, Pushes
  <2>2. \A r \in Receivers : ~Tracing(r)
    BY DEF Init, Tracing
  <2> QED
    BY <2>1, <2>2, OwnedInit DEF FollowInv, Remembered, OneByOne, FollowedOnce, OwnedInv, TypeOK
<1>2. FollowInv /\ [Next]_vars => FollowInv'
  BY OwnedNext, RememberedNext, OneByOneNext, FollowedOnceNext DEF FollowInv, OwnedInv
<1> QED
  BY <1>1, <1>2, PTL DEF Spec

(* A thread is followed once (trace_thread_handler.cpp:28, 41-46) unless     *)
(* trace requests overlap or name it twice.                                  *)
THEOREM FollowedOnceCorrect == Spec => []FollowedOnce
<1>1. FollowInv => FollowedOnce
  BY DEF FollowInv
<1> QED
  BY <1>1, FollowCorrect, PTL

(* followingThreads tells the truth between requests, except of a thread     *)
(* that got the tid of one that was traced (trace_thread_handler.cpp:28-45). *)
THEOREM FollowingCorrect == Spec => []FollowingTruthful
<1>1. FollowInv => FollowingTruthful
  BY DEF FollowInv, Remembered, FollowingTruthful, Pushes
<1> QED
  BY <1>1, FollowCorrect, PTL

-------------------------------------------------------------------------------
(* A thread that is counting, and in which counter.                          *)
WritesTo(t, i, b) == tpc[t] = "write" /\ InfoOf(t, ptr[t]) = i /\ at[t] = b

(* As long as no reset ran into a callout, what the callout has read is      *)
(* still the counter; the map holds the infos of the tid they stand under.   *)
CountersRead ==
  /\ \A t \in Tids : \A i \in coverage[t] : i.tid = t
  /\ "reset" \notin overlaps =>
       \A t \in Tids : tpc[t] = "write" => found[t] = count[InfoOf(t, ptr[t])][at[t]]

CountInv == OwnedInv /\ CountersRead /\ CountsExact

(* A step that leaves the counters and who writes to them keeps them exact.  *)
LEMMA ExactKept ==
  ASSUME CountsExact, UNCHANGED <<count, executed>>, overlaps \subseteq overlaps',
         NEW t \in Tids, \A u \in Tids \ {t} : UNCHANGED <<tpc[u], ptr[u], at[u], life[u]>>,
         tpc[t] # "write", tpc'[t] # "write"
  PROVE  CountsExact'
<1> SUFFICES ASSUME "reset" \notin overlaps', NEW i \in Info, NEW b \in Blocks
             PROVE  executed[i][b] = count[i][b] + Pending(i, b)'
  BY DEF CountsExact
<1>1. \A u \in Tids : WritesTo(u, i, b)' <=> WritesTo(u, i, b)
  BY DEF WritesTo, InfoOf
<1>2. Pending(i, b)' = Pending(i, b)
  BY <1>1 DEF Pending, WritesTo
<1> QED
  BY <1>2 DEF CountsExact

(* The callout counts (types.cpp:9-15).                                      *)
LEMMA ExactCount ==
  ASSUME CountInv, NEW t \in Tids, NEW b \in Blocks, Count(t, b)
  PROVE  CountersRead' /\ CountsExact'
<1> DEFINE i == InfoOf(t, key)
<1>1. /\ UNCHANGED <<coverage, count, overlaps, life, key>> /\ i \in Info
      /\ executed' = [executed EXCEPT ![i][b] = @ + 1]
      /\ found' = [found EXCEPT ![t] = count[i][b]]
      /\ ptr' = [ptr EXCEPT ![t] = key] /\ at' = [at EXCEPT ![t] = b]
      /\ tpc' = [tpc EXCEPT ![t] = "write"] /\ tpc[t] = "run"
  <2>1. key \in 1 .. key
    BY Bounds DEF CountInv, OwnedInv, TypeOK
  <2>2. i \in Info
    BY <2>1, InfosAreTyped DEF CountInv, OwnedInv
  <2> QED
    BY <2>2 DEF Count, Runs, agent
<1>2. /\ ptr \in [Tids -> 1 .. key] /\ at \in [Tids -> Blocks]
      /\ tpc \in [Tids -> {"run", "insert", "write"}]
      /\ found \in [Tids -> 0 .. MaxCount]
      /\ executed \in [Info -> [Blocks -> Nat]]
      /\ count \in [Info -> [Blocks -> 0 .. MaxCount]]
  BY DEF CountInv, OwnedInv, TypeOK
<1>3. InfoOf(t, ptr'[t]) = i /\ InfoOf(t, ptr[t])' = i
  BY <1>1, <1>2 DEF InfoOf
<1>4. CountersRead'
  <2>1. \A u \in Tids : u # t => InfoOf(u, ptr[u])' = InfoOf(u, ptr[u])
    BY <1>1, <1>2 DEF InfoOf
  <2> QED
    BY <1>1, <1>2, <1>3, <2>1 DEF CountInv, CountersRead
<1>5. CountsExact'
  <2> SUFFICES ASSUME "reset" \notin overlaps, NEW j \in Info, NEW c \in Blocks
               PROVE  executed'[j][c] = count[j][c] + Pending(j, c)'
    BY <1>1 DEF CountsExact
  <2>1. CASE j = i /\ c = b
    <3>1. ~\E u \in Tids : WritesTo(u, i, b)
      BY <1>1 DEF WritesTo, InfoOf
    <3>2. WritesTo(t, i, b)'
      <4>1. i' = i
        BY <1>1 DEF InfoOf
      <4> QED
        BY <1>1, <1>2, <1>3, <4>1 DEF WritesTo
    <3>3. Pending(i, b) = 0 /\ Pending(i, b)' = 1
      BY <3>1, <3>2 DEF Pending, WritesTo
    <3>4. executed[i][b] = count[i][b] + 0
      BY <1>1, <3>3 DEF CountInv, CountsExact
    <3>5. executed'[i][b] = executed[i][b] + 1
      BY <1>1, <1>2
    <3>6. Pending(j, c)' = 1
      <4>1. WritesTo(t, j, c)'
        BY <1>1, <1>2, <1>3, <2>1 DEF WritesTo
      <4> QED
        BY <4>1 DEF Pending, WritesTo
    <3> QED
      BY <1>1, <1>2, <2>1, <3>4, <3>5, <3>6
  <2>2. CASE ~(j = i /\ c = b)
    <3>1. \A u \in Tids : WritesTo(u, j, c)' <=> WritesTo(u, j, c)
      <4> SUFFICES ASSUME NEW u \in Tids PROVE WritesTo(u, j, c)' <=> WritesTo(u, j, c)
        OBVIOUS
      <4>1. CASE u = t
        BY <1>1, <1>2, <1>3, <2>2, <4>1 DEF WritesTo
      <4>2. CASE u # t
        BY <1>1, <1>2, <4>2 DEF WritesTo, InfoOf
      <4> QED
        BY <4>1, <4>2
    <3>2. Pending(j, c)' = Pending(j, c)
      BY <3>1 DEF Pending, WritesTo
    <3>3. executed'[j][c] = executed[j][c]
      BY <1>1, <1>2, <2>2
    <3> QED
      BY <3>2, <3>3 DEF CountInv, CountsExact
  <2> QED
    BY <2>1, <2>2
<1> QED
  BY <1>4, <1>5

(* The callout stores what it counted (types.cpp:9-15).                      *)
LEMMA ExactWrite ==
  ASSUME CountInv, NEW t \in Tids, Write(t)
  PROVE  CountersRead' /\ CountsExact'
<1> DEFINE i == InfoOf(t, ptr[t])  b == at[t]
<1>1. /\ UNCHANGED <<coverage, executed, overlaps, life, ptr, at>> /\ i \in Info /\ b \in Blocks
      /\ count' = [count EXCEPT ![i][b] = found[t] + 1]
      /\ tpc' = [tpc EXCEPT ![t] = "run"] /\ tpc[t] = "write"
      /\ found' = [found EXCEPT ![t] = 0]
  BY InfosAreTyped DEF Write, history, CountInv, OwnedInv, TypeOK
<1>2. /\ tpc \in [Tids -> {"run", "insert", "write"}]
      /\ found \in [Tids -> 0 .. MaxCount]
      /\ count \in [Info -> [Blocks -> 0 .. MaxCount]]
      /\ \A u \in Tids : InfoOf(u, ptr[u]) \in Info /\ at[u] \in Blocks
  BY InfosAreTyped DEF CountInv, OwnedInv, TypeOK
<1>3. \A u \in Tids : InfoOf(u, ptr[u])' = InfoOf(u, ptr[u]) /\ (u # t => InfoOf(u, ptr[u]) # i)
  BY <1>1 DEF InfoOf
<1>4. CountersRead'
  BY <1>1, <1>2, <1>3 DEF CountInv, CountersRead
<1>5. CountsExact'
  <2> SUFFICES ASSUME "reset" \notin overlaps, NEW j \in Info, NEW c \in Blocks
               PROVE  executed[j][c] = count'[j][c] + Pending(j, c)'
    BY <1>1 DEF CountsExact
  <2>1. CASE j = i /\ c = b
    <3>1. WritesTo(t, i, b) /\ ~\E u \in Tids : WritesTo(u, i, b)'
      BY <1>1, <1>2, <1>3 DEF WritesTo
    <3>2. Pending(i, b) = 1 /\ Pending(i, b)' = 0
      BY <3>1 DEF Pending, WritesTo
    <3>3. executed[i][b] = count[i][b] + 1 /\ found[t] = count[i][b]
      BY <1>1, <3>2 DEF CountInv, CountsExact, CountersRead
    <3>4. count'[i][b] = count[i][b] + 1
      BY <1>1, <1>2, <3>3
    <3>5. Pending(j, c)' = 0
      <4>1. ~\E u \in Tids : WritesTo(u, j, c)'
        BY <1>1, <1>2, <1>3, <2>1 DEF WritesTo
      <4> QED
        BY <4>1 DEF Pending, WritesTo
    <3> QED
      BY <1>1, <1>2, <2>1, <3>3, <3>4, <3>5
  <2>2. CASE ~(j = i /\ c = b)
    <3>1. \A u \in Tids : WritesTo(u, j, c)' <=> WritesTo(u, j, c)
      <4> SUFFICES ASSUME NEW u \in Tids PROVE WritesTo(u, j, c)' <=> WritesTo(u, j, c)
        OBVIOUS
      <4>1. CASE u = t
        BY <1>1, <1>2, <1>3, <2>2, <4>1 DEF WritesTo
      <4>2. CASE u # t
        BY <1>1, <1>2, <1>3, <4>2 DEF WritesTo
      <4> QED
        BY <4>1, <4>2
    <3>2. Pending(j, c)' = Pending(j, c)
      BY <3>1 DEF Pending, WritesTo
    <3>3. count'[j][c] = count[j][c]
      BY <1>1, <1>2, <2>2
    <3> QED
      BY <3>2, <3>3 DEF CountInv, CountsExact
  <2> QED
    BY <2>1, <2>2
<1> QED
  BY <1>4, <1>5

(* A reset that runs into no callout clears both (types.cpp:29-30).          *)
LEMMA ExactReset ==
  ASSUME CountInv, NEW r \in Receivers, NEW t \in Tids, ResetOne(r, t)
  PROVE  CountersRead' /\ CountsExact'
<1>1. /\ UNCHANGED <<coverage, life, tpc, ptr, at, found>>
      /\ executed' = Cleared(executed, t)
      /\ Inserting(Tids) \/ Counting({t}) => "reset" \in overlaps'
      /\ overlaps \subseteq overlaps'
      /\ count' = Cleared(count, t) \/ Inserting(Tids)
  BY DEF ResetOne, threads, Defined, Undefined
<1>2. CASE "reset" \in overlaps'
  BY <1>1, <1>2 DEF CountInv, CountersRead, CountsExact
<1>3. CASE "reset" \notin overlaps'
  <2>1. count' = Cleared(count, t) /\ tpc[t] # "write" /\ "reset" \notin overlaps
    BY <1>1, <1>3 DEF Counting
  <2>2. \A i \in coverage[t] : i.tid = t
    BY DEF CountInv, CountersRead
  <2>3. \A u \in Tids : InfoOf(u, ptr[u])' = InfoOf(u, ptr[u]) /\ InfoOf(u, ptr[u]) \in Info
    BY <1>1, InfosAreTyped DEF InfoOf, CountInv, OwnedInv, TypeOK
  <2>4. CountersRead'
    <3>1. \A u \in Tids : tpc[u] = "write" => InfoOf(u, ptr[u]) \notin coverage[t]
      BY <2>1, <2>2 DEF InfoOf
    <3>2. \A u \in Tids : tpc[u] = "write" =>
            count'[InfoOf(u, ptr[u])] = count[InfoOf(u, ptr[u])]
      BY <2>1, <2>3, <3>1 DEF Cleared
    <3> QED
      BY <1>1, <2>1, <2>3, <3>2 DEF CountInv, CountersRead
  <2>5. CountsExact'
    <3> SUFFICES ASSUME NEW j \in Info, NEW c \in Blocks
                 PROVE  executed'[j][c] = count'[j][c] + Pending(j, c)'
      BY DEF CountsExact
    <3>1. \A u \in Tids : WritesTo(u, j, c)' <=> WritesTo(u, j, c)
      BY <1>1, <2>3 DEF WritesTo
    <3>2. Pending(j, c)' = Pending(j, c)
      BY <3>1 DEF Pending, WritesTo
    <3>3. CASE j \in coverage[t]
      <4>1. ~\E u \in Tids : WritesTo(u, j, c)
        BY <2>1, <2>2, <3>3 DEF WritesTo, InfoOf
      <4>2. Pending(j, c) = 0
        BY <4>1 DEF Pending, WritesTo
      <4>3. executed'[j][c] = 0 /\ count'[j][c] = 0
        BY <1>1, <2>1, <3>3 DEF Cleared, Zero
      <4> QED
        BY <3>2, <4>2, <4>3
    <3>4. CASE j \notin coverage[t]
      <4>1. executed'[j] = executed[j] /\ count'[j] = count[j]
        BY <1>1, <2>1, <3>4 DEF Cleared
      <4> QED
        BY <2>1, <3>2, <4>1 DEF CountInv, CountsExact
    <3> QED
      BY <3>3, <3>4
  <2> QED
    BY <2>4, <2>5
<1> QED
  BY <1>2, <1>3

(* Steps that change neither counters nor who is counting.                   *)
LEMMA ExactElsewhere ==
  ASSUME CountInv, UNCHANGED <<coverage, count, executed, life, tpc, ptr, at, found>>,
         overlaps \subseteq overlaps'
  PROVE  CountersRead' /\ CountsExact'
<1>1. CountersRead'
  BY DEF CountInv, CountersRead, InfoOf
<1>2. \A i \in Info, b \in Blocks : Pending(i, b)' = Pending(i, b)
  BY DEF Pending, InfoOf
<1>3. CountsExact'
  BY <1>2 DEF CountInv, CountsExact
<1> QED
  BY <1>1, <1>3

(* Compiling, and threads that end and start.                                *)
LEMMA ExactThread ==
  ASSUME CountInv, NEW t \in Tids, NEW b \in Blocks,
         Transform(t, b) \/ Insert(t) \/ AssertionFails(t, b) \/ Exit(t) \/ Start(t)
  PROVE  CountersRead' /\ CountsExact'
<1>1. CASE AssertionFails(t, b)
  BY <1>1, ExactElsewhere DEF AssertionFails, agent, threads
<1>2. CASE Exit(t)
  BY <1>2, ExactElsewhere DEF Exit, agent, history
<1>3. ASSUME Transform(t, b) \/ Insert(t) \/ Start(t)
      PROVE  /\ UNCHANGED <<count, executed, found, at>> /\ overlaps \subseteq overlaps'
             /\ tpc[t] # "write" /\ tpc'[t] # "write"
             /\ \A u \in Tids \ {t} : UNCHANGED <<tpc[u], ptr[u], at[u], life[u]>>
             /\ \A u \in Tids : \A i \in coverage'[u] : i.tid = u
  <2>1. UNCHANGED <<count, executed, found, at>> /\ overlaps \subseteq overlaps'
    BY <1>3 DEF Transform, Insert, Start, agent, history, Defined, Undefined
  <2>2. tpc[t] # "write" /\ tpc'[t] # "write"
    BY <1>3 DEF Transform, Insert, Start, Runs, CountInv, OwnedInv, ValuesKept, TypeOK
  <2>3. \A u \in Tids \ {t} : UNCHANGED <<tpc[u], ptr[u], at[u], life[u]>>
    BY <1>3, <2>1 DEF Transform, Insert, Start, CountInv, OwnedInv, TypeOK
  <2>4. coverage' = coverage \/ coverage' = [coverage EXCEPT ![t] = {InfoOf(t, ptr[t])}]
    BY <1>3 DEF Transform, Insert, Start, agent
  <2>5. \A u \in Tids : \A i \in coverage'[u] : i.tid = u
    <3>1. InfoOf(t, ptr[t]).tid = t
      BY DEF InfoOf
    <3>0. coverage \in [Tids -> SUBSET Info]
      BY DEF CountInv, OwnedInv, TypeOK
    <3>2. \A u \in Tids : \A i \in coverage[u] : i.tid = u
      BY DEF CountInv, CountersRead
    <3>3. \A u \in Tids : coverage'[u] = coverage[u] \/ (u = t /\ coverage'[u] = {InfoOf(t, ptr[t])})
      <4> SUFFICES ASSUME NEW u \in Tids
                   PROVE  coverage'[u] = coverage[u] \/ (u = t /\ coverage'[u] = {InfoOf(t, ptr[t])})
        OBVIOUS
      <4>1. CASE u = t
        BY <2>4, <3>0, <4>1
      <4>2. CASE u # t
        BY <2>4, <3>0, <4>2
      <4> QED
        BY <4>1, <4>2
    <3> QED
      BY <3>1, <3>2, <3>3
  <2> QED
    BY <2>1, <2>2, <2>3, <2>5
<1>4. CASE Transform(t, b) \/ Insert(t) \/ Start(t)
  <2>1. CountsExact'
    BY <1>3, <1>4, ExactKept DEF CountInv
  <2>2. \A u \in Tids : tpc'[u] = "write" => tpc[u] = "write" /\ InfoOf(u, ptr[u])' = InfoOf(u, ptr[u])
    BY <1>3, <1>4 DEF InfoOf
  <2>3. CountersRead'
    BY <1>3, <1>4, <2>2 DEF CountInv, CountersRead
  <2> QED
    BY <2>1, <2>3
<1> QED
  BY <1>1, <1>2, <1>4

(* Receivers reset counters, and otherwise leave them alone.                 *)
LEMMA ExactReceiver ==
  ASSUME CountInv, NEW r \in Receivers,
         \/ ReceiverStep(r) \/ StartReset(r)
         \/ \E tids \in RequestedTids : StartTrace(r, tids) \/ StartQuery(r, tids)
  PROVE  CountersRead' /\ CountsExact'
<1>1. CASE \E t \in Tids : ResetOne(r, t)
  BY <1>1, ExactReset
<1>2. CASE ~\E t \in Tids : ResetOne(r, t)
  <2>1. /\ UNCHANGED <<life, tpc, ptr, coverage, at, found>> /\ overlaps \subseteq overlaps'
    BY ReceiversKeep DEF CountInv, OwnedInv
  <2>2. UNCHANGED <<count, executed>>
    BY <1>2 DEF ReceiverStep, Check, CheckDone, Follow, Push, ReplyTrace, Report, ReplyQuery,
       ReplyReset, StartReset, StartTrace, StartQuery, agent, history
  <2> QED
    BY <2>1, <2>2, ExactElsewhere
<1> QED
  BY <1>1, <1>2

(* Every step keeps the counters exact.                                      *)
LEMMA CountNext == CountInv /\ [Next]_vars => CountInv'
<1> SUFFICES ASSUME CountInv, [Next]_vars PROVE CountInv'
  OBVIOUS
<1>1. OwnedInv'
  BY OwnedNext DEF CountInv
<1>2. CASE UNCHANGED vars
  BY <1>1, <1>2, ExactElsewhere DEF CountInv, vars, agent, threads, history
<1>3. ASSUME NEW r \in Receivers,
             \/ ReceiverStep(r) \/ StartReset(r)
             \/ \E tids \in RequestedTids : StartTrace(r, tids) \/ StartQuery(r, tids)
      PROVE  CountInv'
  BY <1>1, <1>3, ExactReceiver DEF CountInv
<1>4. ASSUME NEW t \in Tids, ThreadStep(t) PROVE CountInv'
  BY <1>1, <1>4, ExactThread, ExactCount, ExactWrite, BoundsAssumption
  DEF ThreadStep, CountInv
<1>5. CASE InjectAgain
  BY <1>1, <1>5, ExactElsewhere DEF InjectAgain, threads, history, CountInv
<1> QED
  BY <1>2, <1>3, <1>4, <1>5 DEF Next

(* Counters are exact as long as no reset runs into a callout, whatever      *)
(* threads end, start and are traced meanwhile (types.cpp:9-15, 29-30).      *)
THEOREM CountsCorrect == Spec => []CountsExact
<1>1. Init => CountInv
  <2> SUFFICES ASSUME Init PROVE CountInv
    OBVIOUS
  <2>1. OwnedInv
    BY OwnedInit
  <2>2. CountersRead
    BY DEF Init, CountersRead
  <2>3. \A i \in Info, b \in Blocks : Pending(i, b) = 0 /\ executed[i][b] = 0 /\ count[i][b] = 0
    BY DEF Init, Pending
  <2> QED
    BY <2>1, <2>2, <2>3 DEF CountInv, CountsExact
<1>2. CountInv => CountsExact
  BY DEF CountInv
<1> QED
  BY <1>1, <1>2, CountNext, PTL DEF Spec
===============================================================================
