----------------------------- MODULE AgentHandlers -----------------------------
(* agent/query_thread_handler.cpp and agent/interceptor_handler.cpp: one       *)
(* receiver thread per client calls both handlers. The mutexes are deferred    *)
(* and never locked, so the list of threads and the map of listeners are       *)
(* shared as they are. What two receivers do to one container at a time is     *)
(* undefined: an element is lost, storage that was freed is read, or the agent *)
(* crashes, and the process it was injected into with it.                      *)
EXTENDS Integers, Sequences, FiniteSets

CONSTANTS Receivers, Threads, Functions,
          MaxRequests,  \* bound of the model: requests per receiver
          NoFunction, Garbage

ASSUME HandlersAssumption == IsFiniteSet(Threads) /\ MaxRequests \in Nat

VARIABLES hpc,        \* where a receiver is in a handler
          requests,   \* requests it has handled or handles
          info,       \* threadsInfo: what was pushed, and by which request
          left,       \* threads the enumeration has still to report
          cursor,     \* iterator of the loop that serialises
          end,        \* its end, taken when the loop begins
          reply,      \* what it has serialised
          func,       \* funcAddress
          active,     \* the keys of activeListener
          attached,   \* listeners that Frida calls, per function
          crashed,
          disturbed,  \* history: another query touched the list meanwhile
          raced       \* history: two attachments overlapped

queryVars == <<info, left, cursor, end, reply, disturbed>>
attachVars == <<func, active, attached, raced>>
hvars == <<hpc, requests, queryVars, attachVars, crashed>>

\* The handlers of a process that has just started.
Fresh(pc, list, todo, at, last, out, f, keys, listeners, d, overlap) ==
    /\ pc = [r \in Receivers |-> "idle"]
    /\ list = <<>>
    /\ todo = [r \in Receivers |-> {}]
    /\ at = [r \in Receivers |-> 1]
    /\ last = [r \in Receivers |-> 0]
    /\ out = [r \in Receivers |-> <<>>]
    /\ f = [r \in Receivers |-> NoFunction]
    /\ keys = {}
    /\ listeners = [g \in Functions |-> 0]
    /\ d = [r \in Receivers |-> FALSE]
    /\ overlap = FALSE

HInit ==
    /\ requests = [r \in Receivers |-> 0]
    /\ Fresh(hpc, info, left, cursor, end, reply, func, active, attached, disturbed, raced)
    /\ crashed = FALSE

HGoto(r, from, to) == ~crashed /\ hpc[r] = from /\ hpc' = [hpc EXCEPT ![r] = to]

Others(r, places) == {o \in Receivers \ {r} : hpc[o] \in places}
Querying(r) == Others(r, {"enumerate", "serialize"})
Begin(r) == requests[r] < MaxRequests /\ requests' = [requests EXCEPT ![r] = @ + 1]

\* The list changes under every other query that is under way.
Disturb(r) == disturbed' = [o \in Receivers |-> disturbed[o] \/ o \in Querying(r)]
-----------------------------------------------------------------------------
\* QueryThreadHandler

\* Mutant: the list is not cleared.
QueryKeepsList(r) ==
    /\ HGoto(r, "idle", "enumerate") /\ Begin(r)
    /\ left' = [left EXCEPT ![r] = Threads]
    /\ reply' = [reply EXCEPT ![r] = <<>>]
    /\ disturbed' = [disturbed EXCEPT ![r] = Querying(r) # {}]
    /\ UNCHANGED <<info, cursor, end, attachVars, crashed>>

\* threadsInfo.clear(), while others may be using it.
Query(r) ==
    /\ HGoto(r, "idle", "enumerate") /\ Begin(r)
    /\ info' = <<>>
    /\ left' = [left EXCEPT ![r] = Threads]
    /\ reply' = [reply EXCEPT ![r] = <<>>]
    /\ disturbed' = [o \in Receivers |->
                        IF o = r THEN Querying(r) # {} ELSE disturbed[o] \/ o \in Querying(r)]
    /\ UNCHANGED <<cursor, end, attachVars, crashed>>

\* getThreadBacktrace: push_back, which races with what others push.
PushThread(r) ==
    /\ HGoto(r, "enumerate", "enumerate")
    /\ \E t \in left[r] :
        /\ left' = [left EXCEPT ![r] = @ \ {t}]
        /\ \/ info' = Append(info, [tid |-> t, by |-> r, request |-> requests[r]])
           \/ Others(r, {"enumerate"}) # {} /\ UNCHANGED info
    /\ Disturb(r)
    /\ UNCHANGED <<requests, cursor, end, reply, attachVars, crashed>>

BeginReply(r) ==
    /\ HGoto(r, "enumerate", "serialize")
    /\ left[r] = {}
    /\ cursor' = [cursor EXCEPT ![r] = 1]
    /\ end' = [end EXCEPT ![r] = Len(info)]
    /\ UNCHANGED <<requests, info, left, reply, disturbed, attachVars, crashed>>

\* The iterators point into storage that others may have cleared or moved.
Serialize(r) ==
    /\ HGoto(r, "serialize", "serialize")
    /\ cursor[r] <= end[r]
    /\ \E entry \in (IF cursor[r] \in DOMAIN info THEN {info[cursor[r]]} ELSE {})
                    \union (IF disturbed[r] THEN {Garbage} ELSE {}) :
          reply' = [reply EXCEPT ![r] = Append(@, entry)]
    /\ cursor' = [cursor EXCEPT ![r] = @ + 1]
    /\ UNCHANGED <<requests, info, left, end, disturbed, attachVars, crashed>>

\* The reply is sent and the variables of the handler are gone.
SendReply(r) ==
    /\ HGoto(r, "serialize", "idle")
    /\ cursor[r] > end[r]
    /\ cursor' = [cursor EXCEPT ![r] = 1]
    /\ end' = [end EXCEPT ![r] = 0]
    /\ reply' = [reply EXCEPT ![r] = <<>>]
    /\ disturbed' = [disturbed EXCEPT ![r] = FALSE]
    /\ UNCHANGED <<requests, info, left, attachVars, crashed>>
-----------------------------------------------------------------------------
\* InterceptorHandler

\* A function that does not exist in the module ends the request here.
FindFunction(r) ==
    /\ HGoto(r, "idle", "find") /\ Begin(r)
    /\ \E f \in Functions : func' = [func EXCEPT ![r] = f]
    /\ UNCHANGED <<queryVars, active, attached, raced, crashed>>

\* activeListener.find: "has already been attached".
AlreadyAttached(r) ==
    /\ HGoto(r, "find", "idle")
    /\ func[r] \in active
    /\ func' = [func EXCEPT ![r] = NoFunction]
    /\ UNCHANGED <<requests, queryVars, active, attached, raced, crashed>>

NotAttached(r) ==
    /\ HGoto(r, "find", "attach")
    /\ func[r] \notin active
    /\ raced' = (raced \/ Others(r, {"attach", "emplace"}) # {})
    /\ UNCHANGED <<requests, queryVars, func, active, attached, crashed>>

\* A transaction of Frida's, that takes a lock of its own.
AttachListener(r) ==
    /\ HGoto(r, "attach", "emplace")
    /\ attached' = [attached EXCEPT ![func[r]] = @ + 1]
    /\ UNCHANGED <<requests, queryVars, func, active, raced, crashed>>

\* Mutant: the listener is not entered in the map.
EmplaceNothing(r) ==
    /\ HGoto(r, "emplace", "idle")
    /\ func' = [func EXCEPT ![r] = NoFunction]
    /\ UNCHANGED <<requests, queryVars, active, attached, raced, crashed>>

\* emplace keeps the listener that is there; two at a time may lose one.
Emplace(r) ==
    /\ HGoto(r, "emplace", "idle")
    /\ \/ active' = active \union {func[r]}
       \/ Others(r, {"emplace"}) # {} /\ UNCHANGED active
    /\ func' = [func EXCEPT ![r] = NoFunction]
    /\ UNCHANGED <<requests, queryVars, attached, raced, crashed>>

\* Undefined behaviour: a container is changed under another user. Nothing is
\* left of the process.
Crash(r) ==
    /\ ~crashed
    /\ \/ hpc[r] \in {"enumerate", "serialize"} /\ disturbed[r]
       \/ hpc[r] = "emplace" /\ Others(r, {"find", "emplace"}) # {}
    /\ crashed' = TRUE
    /\ Fresh(hpc', info', left', cursor', end', reply', func', active', attached', disturbed', raced')
    /\ UNCHANGED requests

HNext == \E r \in Receivers :
    \/ Query(r) \/ PushThread(r) \/ BeginReply(r) \/ Serialize(r) \/ SendReply(r)
    \/ FindFunction(r) \/ AlreadyAttached(r) \/ NotAttached(r) \/ AttachListener(r)
    \/ Emplace(r) \/ Crash(r)

HSpec == HInit /\ [][HNext]_hvars
-----------------------------------------------------------------------------
\* A reply that no other query disturbed lists the threads of the process, each
\* once, as this request found them: nothing of an earlier request is left.
QueriesExact ==
    \A r \in Receivers :
        hpc[r] = "serialize" /\ cursor[r] > end[r] /\ ~disturbed[r] =>
            /\ {reply[r][i] : i \in DOMAIN reply[r]} =
                 [tid : Threads, by : {r}, request : {requests[r]}]
            /\ Len(reply[r]) = Cardinality(Threads)

\* Unless two attachments overlapped, a function has one listener at most, and
\* activeListener knows of it as soon as its handler is done.
ListenersKnown ==
    ~raced =>
        \A f \in Functions :
            /\ attached[f] <= 1
            /\ attached[f] = 1 /\ f \notin active =>
                  \E r \in Receivers : hpc[r] = "emplace" /\ func[r] = f
=============================================================================
