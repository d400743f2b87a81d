----------------------------- MODULE MethodCaller -----------------------------
(***************************************************************************)
(* ServiceMethodCaller (executor/ServiceMethodCaller.java): threads call a *)
(* service method through Executors.newFixedThreadPool(1) and wait for the *)
(* Future with a timeout.  callWithTimeout and callWithoutArgs differ only *)
(* in the arguments they pass.  The k-th call submitted, its FutureTask    *)
(* and its result all have the number k.                                   *)
(***************************************************************************)
EXTENDS Integers, Sequences

CONSTANTS
  Callers,   \* threads that call the method
  MaxCalls   \* bound: calls made in one behaviour

ASSUME MaxCallsAssumption == MaxCalls \in Nat

Call == 1 .. MaxCalls
None == 0

VARIABLES
  submitted,   \* number of calls submitted so far
  task,        \* FutureTask states; "new" covers running
  cpc, mine,   \* callers: control, and the call each one makes
  answer,      \* calls: what the caller was told
  queue,       \* the executor's queue
  wpc, current, interrupted,  \* the worker: control, task, interrupt status
  ran          \* history: has the worker begun to run a call, and ended

callers == <<cpc, mine, answer>>
worker  == <<wpc, current>>
vars == <<submitted, task, callers, queue, worker, interrupted, ran>>

TaskState == {"none", "new", "interrupting", "interrupted", "normal", "exceptional"}
CallerPC  == {"idle", "get", "cancel", "interrupt", "throw"}
WorkerPC  == {"take", "run", "method", "settle"}

TypeOK ==
  /\ submitted \in 0 .. MaxCalls
  /\ task \in [Call -> TaskState]
  /\ cpc \in [Callers -> CallerPC]
  /\ mine \in [Callers -> Call \cup {None}]
  /\ \A c \in Callers : cpc[c] = "idle" <=> mine[c] = None
  /\ answer \in [Call -> {"none", "awaited", "result", "failure", "timeout"}]
  /\ queue \in Seq(Call)
  /\ wpc \in WorkerPC
  /\ current \in Call \cup {None}
  /\ wpc # "take" => current # None
  /\ interrupted \in BOOLEAN
  /\ ran \in [Call -> {"no", "running", "done"}]

Init ==
  /\ submitted = 0
  /\ task = [k \in Call |-> "none"]
  /\ cpc = [c \in Callers |-> "idle"]
  /\ mine = [c \in Callers |-> None]
  /\ answer = [k \in Call |-> "none"]
  /\ queue = <<>>
  /\ wpc = "take" /\ current = None /\ interrupted = FALSE
  /\ ran = [k \in Call |-> "no"]

-------------------------------------------------------------------------------
(* The callers. *)

(* executor.submit: the worker's first task passes through the queue too. *)
Submit(c) ==
  /\ cpc[c] = "idle" /\ submitted < MaxCalls
  /\ submitted' = submitted + 1
  /\ task' = [task EXCEPT ![submitted + 1] = "new"]
  /\ queue' = Append(queue, submitted + 1)
  /\ mine' = [mine EXCEPT ![c] = submitted + 1]
  /\ answer' = [answer EXCEPT ![submitted + 1] = "awaited"]
  /\ cpc' = [cpc EXCEPT ![c] = "get"]
  /\ UNCHANGED <<worker, interrupted, ran>>

(* callWithTimeout ends: it returns the result or rethrows. *)
Leave(c, outcome) ==
  /\ answer' = [answer EXCEPT ![mine[c]] = outcome]
  /\ cpc' = [cpc EXCEPT ![c] = "idle"]
  /\ mine' = [mine EXCEPT ![c] = None]

(* future.get returns a result. *)
GetResult(c) ==
  /\ cpc[c] = "get" /\ task[mine[c]] = "normal"
  /\ Leave(c, "result")
  /\ UNCHANGED <<submitted, task, queue, worker, interrupted, ran>>

(* future.get throws ExecutionException: cancel finds the task done. *)
GetFailure(c) ==
  /\ cpc[c] = "get" /\ task[mine[c]] = "exceptional"
  /\ Leave(c, "failure")
  /\ UNCHANGED <<submitted, task, queue, worker, interrupted, ran>>

(* Mutant: get without a timeout. *)
WaitForever(c) == FALSE

(* future.get throws TimeoutException, or InterruptedException, which is   *)
(* handled alike: the task was not done yet.                               *)
TimeOut(c) ==
  /\ cpc[c] = "get" /\ task[mine[c]] = "new"
  /\ cpc' = [cpc EXCEPT ![c] = "cancel"]
  /\ UNCHANGED <<submitted, task, mine, answer, queue, worker, interrupted, ran>>

(* future.cancel(true), first step: claim the state, unless the task ended. *)
Cancel(c) ==
  /\ cpc[c] = "cancel"
  /\ IF task[mine[c]] = "new"
     THEN /\ task' = [task EXCEPT ![mine[c]] = "interrupting"]
          /\ cpc' = [cpc EXCEPT ![c] = "interrupt"]
     ELSE /\ cpc' = [cpc EXCEPT ![c] = "throw"]
          /\ UNCHANGED task
  /\ UNCHANGED <<submitted, mine, answer, queue, worker, interrupted, ran>>

(* Mutant: cancel interrupts the worker whatever it runs. *)
InterruptAnyone(c) ==
  /\ cpc[c] = "interrupt"
  /\ interrupted' = (interrupted \/ wpc = "method")
  /\ task' = [task EXCEPT ![mine[c]] = "interrupted"]
  /\ cpc' = [cpc EXCEPT ![c] = "throw"]
  /\ UNCHANGED <<submitted, mine, answer, queue, worker, ran>>

(* second step: interrupt the thread that runs this very task, if any. *)
Interrupt(c) ==
  /\ cpc[c] = "interrupt"
  /\ interrupted' = (interrupted \/ (current = mine[c] /\ wpc = "method"))
  /\ task' = [task EXCEPT ![mine[c]] = "interrupted"]
  /\ cpc' = [cpc EXCEPT ![c] = "throw"]
  /\ UNCHANGED <<submitted, mine, answer, queue, worker, ran>>

(* throw e *)
Rethrow(c) ==
  /\ cpc[c] = "throw"
  /\ Leave(c, "timeout")
  /\ UNCHANGED <<submitted, task, queue, worker, interrupted, ran>>

-------------------------------------------------------------------------------
(* The worker thread. *)

(* Take the next task; the pool clears the interrupt status first. *)
Take ==
  /\ wpc = "take" /\ queue # <<>>
  /\ current' = Head(queue)
  /\ queue' = Tail(queue)
  /\ interrupted' = FALSE
  /\ wpc' = "run"
  /\ UNCHANGED <<submitted, task, callers, ran>>

(* Mutant: the task runs although it was cancelled. *)
RunAnyway ==
  /\ wpc = "run"
  /\ ran' = [ran EXCEPT ![current] = "running"]
  /\ wpc' = "method"
  /\ UNCHANGED <<submitted, task, callers, queue, current, interrupted>>

(* FutureTask.run does nothing for a cancelled task. *)
Skip ==
  /\ wpc = "run" /\ task[current] # "new"
  /\ wpc' = "take" /\ current' = None
  /\ UNCHANGED <<submitted, task, callers, queue, interrupted, ran>>

(* FutureTask.run decides to run MethodCall.call; from here on the call     *)
(* counts as running, the interrupt of a cancel may reach it at once.       *)
Invoke ==
  /\ wpc = "run" /\ task[current] = "new"
  /\ ran' = [ran EXCEPT ![current] = "running"]
  /\ wpc' = "method"
  /\ UNCHANGED <<submitted, task, callers, queue, current, interrupted>>

(* method.invoke returns or throws; FutureTask stores the outcome unless   *)
(* it was cancelled meanwhile, and waits for an interrupt that is due.     *)
MethodEnds ==
  /\ wpc = "method"
  /\ ran' = [ran EXCEPT ![current] = "done"]
  /\ IF task[current] = "new"
     THEN \E s \in {"normal", "exceptional"} : task' = [task EXCEPT ![current] = s]
     ELSE UNCHANGED task
  /\ IF task[current] = "interrupting"
     THEN wpc' = "settle" /\ UNCHANGED current
     ELSE wpc' = "take" /\ current' = None
  /\ UNCHANGED <<submitted, callers, queue, interrupted>>

Settle ==
  /\ wpc = "settle" /\ task[current] # "interrupting"
  /\ wpc' = "take" /\ current' = None
  /\ UNCHANGED <<submitted, task, callers, queue, interrupted, ran>>

-------------------------------------------------------------------------------
CallerStep(c) == \/ GetResult(c) \/ GetFailure(c) \/ TimeOut(c)
                 \/ Cancel(c) \/ Interrupt(c) \/ Rethrow(c)

WorkerStep == Take \/ Skip \/ Invoke \/ Settle

Next == \/ \E c \in Callers : Submit(c) \/ CallerStep(c)
        \/ WorkerStep
        \/ MethodEnds

Spec == Init /\ [][Next]_vars

(* Threads are scheduled; a service method may never return. *)
FairSpec == /\ Spec
            /\ \A c \in Callers : WF_vars(CallerStep(c))
            /\ WF_vars(WorkerStep)
-------------------------------------------------------------------------------
(* Properties. *)

(* A timeout (ServiceMethodCaller.java:67) interrupts the call it gave up,  *)
(* never a later call that the same worker has moved on to.                 *)
InterruptsOwnCall ==
  interrupted /\ wpc = "method" => task[current] \in {"interrupting", "interrupted"}

(* The pool never works for nobody without an interrupt being due: a task   *)
(* that is neither done nor cancelled has a caller that still waits for it, *)
(* so live tasks are no more than callers although the queue is unbounded   *)
(* (ServiceMethodCaller.java:47, 59).                                       *)
LiveTasksAwaited ==
  \A k \in Call : task[k] \in {"new", "interrupting"} =>
    \E c \in Callers : mine[c] = k /\ cpc[c] \in {"get", "cancel", "interrupt"}

(* Calls run one at a time, at most once and never after they were given    *)
(* up, and a caller gets the result of its own call (lines 54-71).          *)
Calls == INSTANCE TimedCalls
ImplementsTimedCalls == Calls!Spec

(* Every caller gets its result or an exception, even when the method never *)
(* returns (future.get with a timeout, line 63).                            *)
EveryCallAnswered == \A c \in Callers : cpc[c] = "get" ~> cpc[c] = "idle"
===============================================================================
