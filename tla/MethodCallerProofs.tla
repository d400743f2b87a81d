-------------------------- MODULE MethodCallerProofs --------------------------
(***************************************************************************)
(* Proofs about MethodCaller, for any callers and any number of calls.     *)
(***************************************************************************)
EXTENDS MethodCaller, TLAPS

-------------------------------------------------------------------------------
(* Calls that were not submitted are untouched. *)
Fresh ==
  \A k \in Call : k > submitted => task[k] = "none" /\ answer[k] = "none" /\ ran[k] = "no"

(* The queue holds calls in the order of submission, none of which has run, *)
(* all behind the one the worker holds.                                     *)
QueueInOrder ==
  /\ \A i \in 1 .. Len(queue) : queue[i] =< submitted /\ ran[queue[i]] = "no"
  /\ \A i, j \in 1 .. Len(queue) : i < j => queue[i] < queue[j]
  /\ wpc # "take" =>
       current =< submitted /\ \A i \in 1 .. Len(queue) : current < queue[i]

(* The worker: what it runs is the only call that is running, and a task is *)
(* done only after its call ran.                                            *)
WorkerRuns ==
  /\ wpc = "run" => ran[current] = "no" /\ ~interrupted
  /\ \A k \in Call : ran[k] = "running" <=> wpc = "method" /\ k = current
  /\ \A k \in Call : task[k] \in {"normal", "exceptional"} => ran[k] = "done"

(* Each caller waits for a call of its own. *)
CallersWait ==
  /\ \A c \in Callers : cpc[c] # "idle" =>
       mine[c] =< submitted /\ answer[mine[c]] = "awaited"
  /\ \A c, d \in Callers : cpc[c] # "idle" /\ cpc[d] # "idle" /\ mine[c] = mine[d] => c = d
  /\ \A c \in Callers : cpc[c] = "interrupt" <=> mine[c] # None /\ task[mine[c]] = "interrupting"
  /\ \A c \in Callers : cpc[c] = "throw" => task[mine[c]] # "new"

IInv == /\ TypeOK /\ Fresh /\ QueueInOrder /\ WorkerRuns /\ CallersWait
        /\ LiveTasksAwaited /\ InterruptsOwnCall

(* The assumption on the bound, as integers.                                *)
LEMMA CallsAreNumbers == Call \subseteq Nat /\ None \notin Call /\ MaxCalls \in Nat
  BY MaxCallsAssumption DEF Call, None

(* Calls and the number of them are natural numbers.                        *)
LEMMA CallTypes == ASSUME TypeOK PROVE submitted \in Nat /\ \A k \in Call : k \in Nat
  BY CallsAreNumbers DEF TypeOK

(* Nothing was submitted at the start (ServiceMethodCaller.java:44-48).      *)
LEMMA InvInit == Init => IInv
<1> SUFFICES ASSUME Init PROVE IInv
  OBVIOUS
<1>1. TypeOK
  <2>1. queue \in Seq(Call) /\ submitted \in 0 .. MaxCalls
    BY CallsAreNumbers DEF Init
  <2> QED
    BY <2>1 DEF Init, TypeOK, TaskState, CallerPC, WorkerPC
<1>2. Fresh /\ QueueInOrder /\ WorkerRuns /\ LiveTasksAwaited /\ InterruptsOwnCall
  BY DEF Init, Fresh, QueueInOrder, WorkerRuns, LiveTasksAwaited, InterruptsOwnCall
<1>3. CallersWait
  BY DEF Init, CallersWait
<1> QED
  BY <1>1, <1>2, <1>3 DEF IInv

(* Submitting a call (line 59) keeps the invariant: its number is new, so it *)
(* goes behind every other in the queue and belongs to one caller.           *)
LEMMA InvSubmit == ASSUME IInv, NEW c \in Callers, Submit(c) PROVE IInv'
<1> DEFINE n == submitted + 1
<1>0. /\ submitted \in Nat /\ n \in Call /\ n # None /\ submitted < n
      /\ \A k \in Call : k \in Int /\ (k =< submitted => k # n)
  BY CallsAreNumbers DEF Submit, IInv, TypeOK, Call
<1>1. TypeOK'
  <2>1. queue' \in Seq(Call)
    BY <1>0 DEF Submit, IInv, TypeOK
  <2> QED
    BY <1>0, <2>1, CallsAreNumbers
    DEF Submit, IInv, TypeOK, TaskState, CallerPC, WorkerPC, worker, Call
<1>2. /\ submitted' = n /\ cpc[c] = "idle" /\ cpc'[c] = "get" /\ mine'[c] = n
      /\ task'[n] = "new" /\ answer'[n] = "awaited" /\ ran' = ran
      /\ wpc' = wpc /\ current' = current /\ interrupted' = interrupted
      /\ \A k \in Call : k # n => task'[k] = task[k] /\ answer'[k] = answer[k]
      /\ \A d \in Callers : d # c => cpc'[d] = cpc[d] /\ mine'[d] = mine[d]
  BY <1>0 DEF Submit, IInv, TypeOK, worker
<1>3. task[n] = "none" /\ answer[n] = "none" /\ ran[n] = "no"
  BY <1>0 DEF IInv, Fresh
<1>4. Fresh'
  BY <1>0, <1>2 DEF IInv, Fresh
<1>5. QueueInOrder'
  <2>1. /\ Len(queue) \in Nat /\ Len(queue') = Len(queue) + 1
        /\ queue'[Len(queue) + 1] = n
        /\ \A i \in 1 .. Len(queue) : queue'[i] = queue[i] /\ queue[i] \in Call
    BY <1>0 DEF Submit, IInv, TypeOK
  <2>2. \A i \in 1 .. Len(queue') : i \in 1 .. Len(queue) \/ i = Len(queue) + 1
    BY <2>1
  <2>3. /\ \A i \in 1 .. Len(queue') : queue'[i] =< n /\ ran[queue'[i]] = "no"
        /\ \A i \in 1 .. Len(queue) : queue'[i] < n
    <3>1. \A i \in 1 .. Len(queue) : queue'[i] =< submitted /\ ran[queue'[i]] = "no"
      BY <2>1 DEF IInv, QueueInOrder
    <3>2. \A i \in 1 .. Len(queue) : queue'[i] < n
      BY <1>0, <2>1, <3>1
    <3> QED
      BY <1>0, <1>3, <2>1, <2>2, <3>1, <3>2
  <2>4. \A i, j \in 1 .. Len(queue') : i < j => queue'[i] < queue'[j]
    <3> SUFFICES ASSUME NEW i \in 1 .. Len(queue'), NEW j \in 1 .. Len(queue'), i < j
                 PROVE  queue'[i] < queue'[j]
      OBVIOUS
    <3>1. i \in 1 .. Len(queue)
      BY <2>1, <2>2
    <3>2. CASE j = Len(queue) + 1
      BY <2>1, <2>3, <3>1, <3>2
    <3>3. CASE j \in 1 .. Len(queue)
      BY <2>1, <3>1, <3>3 DEF IInv, QueueInOrder
    <3> QED
      BY <2>2, <3>2, <3>3
  <2>5. wpc # "take" => current =< n /\ \A i \in 1 .. Len(queue') : current < queue'[i]
    <3> SUFFICES ASSUME wpc # "take"
                 PROVE  current =< n /\ \A i \in 1 .. Len(queue') : current < queue'[i]
      OBVIOUS
    <3>1. current \in Call /\ current =< submitted
      BY DEF IInv, TypeOK, QueueInOrder
    <3> QED
      BY <1>0, <2>1, <2>2, <3>1 DEF IInv, QueueInOrder
  <2> QED
    BY <1>2, <2>3, <2>4, <2>5 DEF QueueInOrder
<1>6. WorkerRuns'
  BY <1>0, <1>2, <1>3 DEF IInv, WorkerRuns
<1>7. CallersWait'
  <2>1. \A d \in Callers : cpc[d] # "idle" => mine[d] \in Call /\ mine[d] # n
    BY <1>0 DEF IInv, TypeOK, CallersWait
  <2>2. \A d \in Callers : (mine[d] \in Call \cup {None} /\ mine[d] # n) \/ cpc[d] = "idle"
    BY <2>1 DEF IInv, TypeOK
  <2>3. ASSUME NEW d \in Callers
        PROVE  cpc'[d] = "interrupt" <=> mine'[d] # None /\ task'[mine'[d]] = "interrupting"
    <3>1. CASE d = c
      BY <1>0, <1>2, <3>1
    <3>2. CASE d # c /\ mine[d] = n
      BY <1>2, <1>3, <2>1, <3>2
    <3>3. CASE d # c /\ mine[d] # n
      BY <1>2, <3>3 DEF IInv, CallersWait, TypeOK
    <3> QED
      BY <3>1, <3>2, <3>3
  <2> QED
    BY <1>0, <1>2, <2>1, <2>3 DEF IInv, CallersWait
<1>8. LiveTasksAwaited'
  BY <1>0, <1>2 DEF IInv, LiveTasksAwaited
<1>9. InterruptsOwnCall'
  BY <1>2, <1>3 DEF IInv, InterruptsOwnCall, WorkerRuns, TypeOK
<1> QED
  BY <1>1, <1>4, <1>5, <1>6, <1>7, <1>8, <1>9 DEF IInv

(* A caller that leaves (lines 65, 69) gives up a call that is settled.      *)
LEMMA InvLeave ==
  ASSUME IInv, NEW c \in Callers, GetResult(c) \/ GetFailure(c) \/ Rethrow(c)
  PROVE  IInv'
<1>1. PICK o \in {"result", "failure", "timeout"} : Leave(c, o)
  BY DEF GetResult, GetFailure, Rethrow
<1>2. /\ UNCHANGED <<submitted, task, queue, wpc, current, interrupted, ran>>
      /\ cpc[c] # "idle" /\ task[mine[c]] # "new" /\ task[mine[c]] # "interrupting"
  BY DEF GetResult, GetFailure, Rethrow, worker, IInv, CallersWait, TypeOK
<1>3. /\ mine[c] \in Call /\ cpc'[c] = "idle" /\ mine'[c] = None
      /\ \A k \in Call : k # mine[c] => answer'[k] = answer[k]
      /\ \A d \in Callers : d # c => cpc'[d] = cpc[d] /\ mine'[d] = mine[d]
  BY <1>1, <1>2 DEF Leave, IInv, TypeOK
<1>4. TypeOK'
  BY <1>1, <1>2, <1>3 DEF Leave, IInv, TypeOK, CallerPC
<1>5. Fresh'
  <2>1. mine[c] =< submitted /\ mine[c] \in Int /\ submitted \in Int
    BY <1>2, <1>3, CallTypes DEF IInv, CallersWait
  <2> QED
    BY <1>2, <1>3, <2>1 DEF IInv, Fresh
<1>6. QueueInOrder' /\ WorkerRuns' /\ InterruptsOwnCall'
  BY <1>2 DEF IInv, QueueInOrder, WorkerRuns, InterruptsOwnCall
<1>7. CallersWait'
  BY <1>2, <1>3 DEF IInv, CallersWait, TypeOK
<1>8. LiveTasksAwaited'
  BY <1>2, <1>3 DEF IInv, LiveTasksAwaited
<1> QED
  BY <1>4, <1>5, <1>6, <1>7, <1>8 DEF IInv

(* A timeout and the cancel that follows (lines 66-69) change the state of   *)
(* the caller's own task only, and interrupt the worker only inside it.      *)
LEMMA InvCancel ==
  ASSUME IInv, NEW c \in Callers, TimeOut(c) \/ Cancel(c) \/ Interrupt(c)
  PROVE  IInv'
<1>1. /\ UNCHANGED <<submitted, mine, answer, queue, wpc, current, ran>>
      /\ cpc[c] \in {"get", "cancel", "interrupt"}
      /\ cpc[c] # "idle" /\ cpc'[c] # "idle"
      /\ mine[c] \in Call
      /\ \A d \in Callers : d # c => cpc'[d] = cpc[d]
      /\ \A k \in Call : k # mine[c] => task'[k] = task[k]
  BY DEF TimeOut, Cancel, Interrupt, worker, IInv, TypeOK
<1>2. TypeOK'
  <2>1. task' \in [Call -> TaskState] /\ interrupted' \in BOOLEAN
    BY <1>1 DEF TimeOut, Cancel, Interrupt, IInv, TypeOK, TaskState
  <2>2. cpc' \in [Callers -> CallerPC]
    BY DEF TimeOut, Cancel, Interrupt, IInv, TypeOK, CallerPC
  <2>3. mine[c] # None
    BY <1>1, CallsAreNumbers
  <2>4. \A d \in Callers : cpc'[d] = "idle" <=> mine[d] = None
    BY <1>1, <2>3 DEF IInv, TypeOK
  <2> QED
    BY <1>1, <2>1, <2>2, <2>4 DEF IInv, TypeOK
<1>3. \/ UNCHANGED <<task, interrupted>> /\ cpc'[c] = "cancel" /\ task[mine[c]] = "new"
      \/ UNCHANGED <<task, interrupted>> /\ cpc'[c] = "throw" /\ task[mine[c]] # "new"
         /\ cpc[c] = "cancel"
      \/ /\ UNCHANGED interrupted /\ cpc'[c] = "interrupt" /\ task[mine[c]] = "new"
         /\ task'[mine[c]] = "interrupting"
      \/ /\ interrupted' = (interrupted \/ (current = mine[c] /\ wpc = "method"))
         /\ cpc[c] = "interrupt" /\ cpc'[c] = "throw" /\ task'[mine[c]] = "interrupted"
  BY <1>1 DEF TimeOut, Cancel, Interrupt, IInv, TypeOK
<1>4. cpc[c] = "interrupt" <=> task[mine[c]] = "interrupting"
  BY <1>1, CallsAreNumbers DEF IInv, CallersWait
<1>5. Fresh'
  <2>1. mine[c] =< submitted /\ mine[c] \in Int /\ submitted \in Int
    BY <1>1, CallTypes DEF IInv, CallersWait
  <2> QED
    BY <1>1, <2>1 DEF IInv, Fresh
<1>6. QueueInOrder'
  BY <1>1 DEF IInv, QueueInOrder
<1>7. WorkerRuns'
  <2>1. interrupted' => interrupted \/ wpc = "method"
    BY <1>3
  <2> QED
    BY <1>1, <1>3, <2>1 DEF IInv, WorkerRuns
<1>8. CallersWait'
  <2>1. \A d \in Callers : d # c /\ cpc[d] # "idle" => mine[d] # mine[c]
    BY <1>1 DEF IInv, CallersWait
  <2>2. \A d \in Callers : d # c =>
          (cpc'[d] = "interrupt" <=> mine[d] # None /\ task'[mine[d]] = "interrupting")
    <3> SUFFICES ASSUME NEW d \in Callers, d # c
                 PROVE  cpc[d] = "interrupt"
                          <=> mine[d] # None /\ task'[mine[d]] = "interrupting"
      BY <1>1
    <3>1. CASE mine[d] = mine[c]
      BY <1>1, <2>1, <3>1, CallsAreNumbers DEF IInv, TypeOK
    <3>2. CASE mine[d] # mine[c]
      BY <1>1, <3>2 DEF IInv, CallersWait, TypeOK
    <3> QED
      BY <3>1, <3>2
  <2>3. cpc'[c] = "interrupt" <=> mine[c] # None /\ task'[mine[c]] = "interrupting"
    BY <1>1, <1>3, <1>4, CallsAreNumbers
  <2>4. \A d \in Callers : cpc'[d] = "throw" => task'[mine[d]] # "new"
    <3> SUFFICES ASSUME NEW d \in Callers, cpc'[d] = "throw" PROVE task'[mine[d]] # "new"
      OBVIOUS
    <3>1. CASE d = c
      BY <1>1, <1>3, <3>1
    <3>2. CASE d # c
      BY <1>1, <2>1, <3>2 DEF IInv, CallersWait, TypeOK
    <3> QED
      BY <3>1, <3>2
  <2> QED
    BY <1>1, <2>2, <2>3, <2>4 DEF IInv, CallersWait
<1>9. LiveTasksAwaited'
  <2>1. \A k \in Call : k # mine[c] /\ task'[k] \in {"new", "interrupting"} =>
          \E d \in Callers : d # c /\ mine[d] = k /\ cpc[d] \in {"get", "cancel", "interrupt"}
    BY <1>1 DEF IInv, LiveTasksAwaited
  <2>2. task'[mine[c]] \in {"new", "interrupting"} =>
          cpc'[c] \in {"get", "cancel", "interrupt"}
    BY <1>3, <1>4
  <2> QED
    BY <1>1, <2>1, <2>2 DEF LiveTasksAwaited
<1>10. InterruptsOwnCall'
  BY <1>1, <1>3 DEF IInv, InterruptsOwnCall, TypeOK
<1> QED
  BY <1>2, <1>5, <1>6, <1>7, <1>8, <1>9, <1>10 DEF IInv

(* The worker takes the first task of the queue (line 47).                   *)
LEMMA InvTake == ASSUME IInv, Take PROVE IInv'
<1>1. /\ UNCHANGED <<submitted, task, cpc, mine, answer, ran>>
      /\ wpc = "take" /\ wpc' = "run" /\ ~interrupted'
      /\ Len(queue) \in Nat /\ Len(queue) > 0 /\ queue \in Seq(Call)
      /\ current' = queue[1] /\ queue[1] \in Call
  BY DEF Take, callers, IInv, TypeOK
<1>2. /\ queue' \in Seq(Call) /\ Len(queue') = Len(queue) - 1
      /\ \A i \in 1 .. Len(queue') : queue'[i] = queue[i + 1]
  BY <1>1 DEF Take
<1>3. /\ 1 \in 1 .. Len(queue)
      /\ \A i \in 1 .. Len(queue') : i + 1 \in 1 .. Len(queue) /\ 1 < i + 1 /\ i \in Int
  BY <1>1, <1>2
<1>4. TypeOK'
  <2>1. current' # None /\ wpc' \in WorkerPC /\ interrupted' = FALSE
    BY <1>1, CallsAreNumbers DEF Take, WorkerPC
  <2> QED
    BY <1>1, <1>2, <2>1 DEF IInv, TypeOK
<1>5. Fresh' /\ CallersWait' /\ LiveTasksAwaited' /\ InterruptsOwnCall'
  BY <1>1 DEF IInv, Fresh, CallersWait, LiveTasksAwaited, InterruptsOwnCall
<1>6. QueueInOrder'
  <2>1. \A i \in 1 .. Len(queue') : queue'[i] =< submitted /\ ran[queue'[i]] = "no"
    BY <1>2, <1>3 DEF IInv, QueueInOrder
  <2>2. \A i, j \in 1 .. Len(queue') : i < j => queue'[i] < queue'[j]
    <3> SUFFICES ASSUME NEW i \in 1 .. Len(queue'), NEW j \in 1 .. Len(queue'), i < j
                 PROVE  queue[i + 1] < queue[j + 1]
      BY <1>2
    <3>1. i + 1 \in 1 .. Len(queue) /\ j + 1 \in 1 .. Len(queue) /\ i + 1 < j + 1
      BY <1>3
    <3> QED
      BY <3>1 DEF IInv, QueueInOrder
  <2>3. current' =< submitted /\ \A i \in 1 .. Len(queue') : current' < queue'[i]
    BY <1>1, <1>2, <1>3 DEF IInv, QueueInOrder
  <2> QED
    BY <1>1, <2>1, <2>2, <2>3 DEF QueueInOrder
<1>7. WorkerRuns'
  <2>1. ran[queue[1]] = "no"
    BY <1>3 DEF IInv, QueueInOrder
  <2>2. \A k \in Call : ran[k] # "running"
    BY <1>1 DEF IInv, WorkerRuns
  <2> QED
    BY <1>1, <2>1, <2>2 DEF IInv, WorkerRuns
<1> QED
  BY <1>4, <1>5, <1>6, <1>7 DEF IInv

(* The worker skips or begins the task it took (lines 98-101).               *)
LEMMA InvRun == ASSUME IInv, Skip \/ Invoke PROVE IInv'
<1>1. /\ UNCHANGED <<submitted, task, cpc, mine, answer, queue, interrupted>>
      /\ wpc = "run" /\ current \in Call
      /\ \A k \in Call : k # current => ran'[k] = ran[k]
  BY DEF Skip, Invoke, callers, IInv, TypeOK
<1>2. \/ wpc' = "take" /\ current' = None /\ ran' = ran
      \/ /\ wpc' = "method" /\ current' = current /\ ran'[current] = "running"
         /\ task[current] = "new"
  BY <1>1 DEF Skip, Invoke, IInv, TypeOK
<1>3. /\ current =< submitted /\ ran[current] = "no" /\ ~interrupted
      /\ \A i \in 1 .. Len(queue) : queue[i] \in Call /\ current < queue[i]
      /\ current \in Int
  BY <1>1, CallTypes DEF IInv, QueueInOrder, WorkerRuns, TypeOK
<1>4. TypeOK'
  BY <1>1 DEF Skip, Invoke, IInv, TypeOK, WorkerPC
<1>5. Fresh'
  <2>1. \A k \in Call : k > submitted => k # current
    BY <1>3, CallTypes DEF IInv
  <2> QED
    BY <1>1, <2>1 DEF IInv, Fresh
<1>6. CallersWait' /\ LiveTasksAwaited'
  BY <1>1 DEF IInv, CallersWait, LiveTasksAwaited
<1>7. InterruptsOwnCall'
  BY <1>1, <1>3 DEF InterruptsOwnCall
<1>8. QueueInOrder'
  <2>1. \A i \in 1 .. Len(queue) : ran'[queue[i]] = "no"
    <3> SUFFICES ASSUME NEW i \in 1 .. Len(queue) PROVE ran'[queue[i]] = "no"
      OBVIOUS
    <3>1. queue[i] \in Call /\ queue[i] # current
      BY <1>3, CallTypes DEF IInv
    <3> QED
      BY <1>1, <3>1 DEF IInv, QueueInOrder
  <2> QED
    BY <1>1, <1>2, <2>1 DEF IInv, QueueInOrder
<1>9. WorkerRuns'
  BY <1>1, <1>2, <1>3 DEF IInv, WorkerRuns
<1> QED
  BY <1>4, <1>5, <1>6, <1>7, <1>8, <1>9 DEF IInv

(* The method ends (line 100), or the interrupt that was due has come.       *)
LEMMA InvEnds == ASSUME IInv, MethodEnds \/ Settle PROVE IInv'
<1>1. /\ UNCHANGED <<submitted, cpc, mine, answer, queue, interrupted>>
      /\ wpc \in {"method", "settle"} /\ current \in Call
      /\ \A k \in Call : k # current => ran'[k] = ran[k] /\ task'[k] = task[k]
      /\ wpc' # "take" => wpc' = "settle" /\ current' = current
  <2>1. CASE MethodEnds
    <3>1. \A k \in Call : k # current => ran'[k] = ran[k]
      BY <2>1 DEF MethodEnds, IInv, TypeOK
    <3>2. \A k \in Call : k # current => task'[k] = task[k]
      BY <2>1 DEF MethodEnds, IInv, TypeOK
    <3>3. wpc' # "take" => wpc' = "settle" /\ current' = current
      BY <2>1 DEF MethodEnds
    <3> QED
      BY <2>1, <3>1, <3>2, <3>3 DEF MethodEnds, callers, IInv, TypeOK
  <2>2. CASE Settle
    BY <2>2 DEF Settle, callers, IInv, TypeOK
  <2> QED
    BY <2>1, <2>2
<1>2. \/ wpc = "method" /\ ran'[current] = "done"
      \/ wpc = "settle" /\ UNCHANGED <<ran, task>>
  BY <1>1 DEF MethodEnds, Settle, IInv, TypeOK
<1>3. /\ current =< submitted
      /\ \A i \in 1 .. Len(queue) : queue[i] \in Call /\ current < queue[i]
      /\ current \in Int
  BY <1>1, CallTypes DEF IInv, QueueInOrder, TypeOK
<1>4. \/ task'[current] = task[current]
      \/ task[current] = "new" /\ task'[current] \in {"normal", "exceptional"}
  BY <1>1 DEF MethodEnds, Settle, IInv, TypeOK
<1>5. TypeOK'
  BY <1>1 DEF MethodEnds, Settle, IInv, TypeOK, WorkerPC, TaskState
<1>6. Fresh'
  <2>1. \A k \in Call : k > submitted => k # current
    BY <1>3, CallTypes DEF IInv
  <2> QED
    BY <1>1, <2>1 DEF IInv, Fresh
<1>7. CallersWait' /\ LiveTasksAwaited'
  <2>1. \A k \in Call : /\ task'[k] = "interrupting" <=> task[k] = "interrupting"
                        /\ task'[k] = "new" => task[k] = "new"
    BY <1>1, <1>4
  <2>2. \A c \in Callers : mine[c] # None => mine[c] \in Call
    BY DEF IInv, TypeOK
  <2>3. \A c \in Callers : cpc[c] = "throw" => mine[c] # None
    BY DEF IInv, TypeOK
  <2> QED
    BY <1>1, <2>1, <2>2, <2>3 DEF IInv, CallersWait, LiveTasksAwaited
<1>8. InterruptsOwnCall'
  BY <1>1 DEF InterruptsOwnCall
<1>9. QueueInOrder'
  <2>1. \A i \in 1 .. Len(queue) : ran'[queue[i]] = "no"
    <3> SUFFICES ASSUME NEW i \in 1 .. Len(queue) PROVE ran'[queue[i]] = "no"
      OBVIOUS
    <3>1. queue[i] \in Call /\ queue[i] # current
      BY <1>3, CallTypes DEF IInv
    <3> QED
      BY <1>1, <3>1 DEF IInv, QueueInOrder
  <2> QED
    BY <1>1, <1>3, <2>1 DEF IInv, QueueInOrder
<1>10. WorkerRuns'
  BY <1>1, <1>2, <1>4 DEF IInv, WorkerRuns
<1> QED
  BY <1>5, <1>6, <1>7, <1>8, <1>9, <1>10 DEF IInv

(* The invariant is inductive.                                               *)
LEMMA InvNext == IInv /\ [Next]_vars => IInv'
<1> SUFFICES ASSUME IInv, [Next]_vars PROVE IInv'
  OBVIOUS
<1>1. CASE UNCHANGED vars
  BY <1>1 DEF vars, callers, worker, IInv, TypeOK, Fresh, QueueInOrder, WorkerRuns,
     CallersWait, LiveTasksAwaited, InterruptsOwnCall
<1> QED
  BY <1>1, InvSubmit, InvLeave, InvCancel, InvTake, InvRun, InvEnds
  DEF Next, CallerStep, WorkerStep

(* Every reachable state is well typed.                                      *)
THEOREM TypesHold == Spec => []TypeOK
<1>1. IInv => TypeOK
  BY DEF IInv
<1> QED
  BY <1>1, InvInit, InvNext, PTL DEF Spec

(* A task that may still run has a caller that waits for it (lines 59-68).   *)
THEOREM TasksAwaited == Spec => []LiveTasksAwaited
<1>1. IInv => LiveTasksAwaited
  BY DEF IInv
<1> QED
  BY <1>1, InvInit, InvNext, PTL DEF Spec

(* An interrupt reaches only the call it was meant for (line 67).            *)
THEOREM InterruptsMeant == Spec => []InterruptsOwnCall
<1>1. IInv => InterruptsOwnCall
  BY DEF IInv
<1> QED
  BY <1>1, InvInit, InvNext, PTL DEF Spec

(* Every step of caller or worker is a step of the promise or leaves it.     *)
LEMMA StepImplements == IInv /\ [Next]_vars => [Calls!Next]_Calls!vars
<1> SUFFICES ASSUME IInv, [Next]_vars PROVE [Calls!Next]_Calls!vars
  OBVIOUS
<1>1. Call = Calls!Call
  BY DEF Call, Calls!Call
<1>2. ASSUME NEW c \in Callers, Submit(c) PROVE Calls!Next
  <2>1. submitted + 1 \in Call /\ answer[submitted + 1] = "none"
    BY <1>2, CallsAreNumbers DEF Submit, IInv, TypeOK, Fresh, Call
  <2>2. Calls!Ask(submitted + 1)
    BY <1>2, <2>1 DEF Submit, Calls!Ask
  <2> QED
    BY <1>1, <2>1, <2>2 DEF Calls!Next
<1>3. ASSUME NEW c \in Callers, GetResult(c) \/ GetFailure(c) \/ Rethrow(c)
      PROVE  Calls!Next
  <2>1. mine[c] \in Call /\ answer[mine[c]] = "awaited" /\ ran' = ran
    BY <1>3 DEF GetResult, GetFailure, Rethrow, IInv, TypeOK, CallersWait
  <2>2. task[mine[c]] \in {"normal", "exceptional"} => ran[mine[c]] = "done"
    BY <2>1 DEF IInv, WorkerRuns
  <2>3. Calls!Return(mine[c]) \/ Calls!Throw(mine[c])
    BY <1>3, <2>1, <2>2
    DEF GetResult, GetFailure, Rethrow, Leave, Calls!Return, Calls!Throw
  <2> QED
    BY <1>1, <2>1, <2>3 DEF Calls!Next
<1>4. ASSUME Invoke PROVE Calls!Next
  <2>1. current \in Call /\ ran[current] = "no" /\ \A k \in Call : ran[k] # "running"
    BY <1>4 DEF Invoke, IInv, TypeOK, WorkerRuns
  <2>2. answer[current] = "awaited"
    BY <1>4, <2>1 DEF Invoke, IInv, LiveTasksAwaited, CallersWait
  <2>3. Calls!Begin(current)
    BY <1>1, <1>4, <2>1, <2>2 DEF Invoke, callers, Calls!Begin
  <2> QED
    BY <1>1, <2>1, <2>3 DEF Calls!Next
<1>5. ASSUME MethodEnds PROVE Calls!Next
  <2>1. current \in Call /\ Calls!End(current)
    BY <1>5 DEF MethodEnds, callers, IInv, TypeOK, WorkerRuns, Calls!End
  <2> QED
    BY <1>1, <2>1 DEF Calls!Next
<1>6. ASSUME NEW c \in Callers, TimeOut(c) \/ Cancel(c) \/ Interrupt(c)
      PROVE  UNCHANGED Calls!vars
  BY <1>6 DEF TimeOut, Cancel, Interrupt, Calls!vars
<1>7. ASSUME Take \/ Skip \/ Settle \/ UNCHANGED vars PROVE UNCHANGED Calls!vars
  BY <1>7 DEF Take, Skip, Settle, vars, callers, Calls!vars
<1> QED
  BY <1>2, <1>3, <1>4, <1>5, <1>6, <1>7 DEF Next, CallerStep, WorkerStep

(* The futures, the queue and the worker keep the promise of TimedCalls: one *)
(* call at a time, at most once, never after it was given up (lines 54-101). *)
THEOREM Implementation == Spec => ImplementsTimedCalls
<1>1. Init => Calls!Init
  BY DEF Init, Calls!Init, Call, Calls!Call
<1> QED
  BY <1>1, InvInit, InvNext, StepImplements, PTL DEF Spec, ImplementsTimedCalls, Calls!Spec
===============================================================================
