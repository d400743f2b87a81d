------------------------------ MODULE TimedCalls ------------------------------
(***************************************************************************)
(* What ServiceMethodCaller promises its callers, with no futures, queue   *)
(* or worker thread: calls run one at a time and at most once, a result is *)
(* only returned for a call that ran, and a call that was given up before  *)
(* it started never runs.                                                  *)
(***************************************************************************)
EXTENDS Integers

CONSTANT MaxCalls

Call == 1 .. MaxCalls

VARIABLES
  answer,  \* "none", "awaited", "result", "failure" or "timeout"
  ran      \* "no", "running" or "done"

vars == <<answer, ran>>

Init == answer = [k \in Call |-> "none"] /\ ran = [k \in Call |-> "no"]

Ask(k) ==
  /\ answer[k] = "none"
  /\ answer' = [answer EXCEPT ![k] = "awaited"]
  /\ UNCHANGED ran

Begin(k) ==
  /\ answer[k] = "awaited" /\ ran[k] = "no"
  /\ \A j \in Call : ran[j] # "running"
  /\ ran' = [ran EXCEPT ![k] = "running"]
  /\ UNCHANGED answer

End(k) ==
  /\ ran[k] = "running"
  /\ ran' = [ran EXCEPT ![k] = "done"]
  /\ UNCHANGED answer

Return(k) ==
  /\ answer[k] = "awaited" /\ ran[k] = "done"
  /\ answer' = [answer EXCEPT ![k] = "result"]
  /\ UNCHANGED ran

Throw(k) ==
  /\ answer[k] = "awaited"
  /\ \/ ran[k] = "done" /\ answer' = [answer EXCEPT ![k] = "failure"]
     \/ answer' = [answer EXCEPT ![k] = "timeout"]
  /\ UNCHANGED ran

Next == \E k \in Call : Ask(k) \/ Begin(k) \/ End(k) \/ Return(k) \/ Throw(k)

Spec == Init /\ [][Next]_vars
===============================================================================
