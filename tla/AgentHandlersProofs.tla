------------------------- MODULE AgentHandlersProofs --------------------------
(* Proofs about AgentHandlers, for any receivers, threads, functions and       *)
(* number of requests: what holds without the locks as long as requests do not *)
(* overlap. And about BlockIds, for any modules, addresses and exclusive or    *)
(* that loses nothing.                                                         *)
EXTENDS AgentHandlers, BlockIds, FiniteSetTheorems, SequenceTheorems, TLAPS

Places == {"idle", "enumerate", "serialize", "find", "attach", "emplace"}
Busy(r) == hpc[r] \in {"enumerate", "serialize"}
Attaching(r) == hpc[r] \in {"attach", "emplace"}

PlacesType == hpc \in [Receivers -> Places]

\* No step leaves the handlers.
LEMMA PlacesNext == PlacesType /\ [HNext]_hvars => PlacesType'
<1> SUFFICES ASSUME PlacesType, [HNext]_hvars PROVE PlacesType'
  OBVIOUS
<1>1. ASSUME NEW r \in Receivers, Crash(r) PROVE PlacesType'
  BY <1>1 DEF Crash, Fresh, PlacesType, Places
<1>2. ASSUME NEW r \in Receivers, NEW from, NEW to \in Places, HGoto(r, from, to) PROVE PlacesType'
  BY <1>2 DEF HGoto, PlacesType
<1>3. "idle" \in Places /\ "enumerate" \in Places /\ "serialize" \in Places
      /\ "find" \in Places /\ "attach" \in Places /\ "emplace" \in Places
  BY DEF Places
<1>4. ASSUME NEW r \in Receivers,
             Query(r) \/ PushThread(r) \/ BeginReply(r) \/ Serialize(r) \/ SendReply(r)
               \/ FindFunction(r) \/ AlreadyAttached(r) \/ NotAttached(r) \/ AttachListener(r)
               \/ Emplace(r)
      PROVE  \E from, to \in Places : HGoto(r, from, to)
  BY <1>3, <1>4 DEF Query, PushThread, BeginReply, Serialize, SendReply, FindFunction,
     AlreadyAttached, NotAttached, AttachListener, Emplace
<1>5. CASE UNCHANGED hvars
  BY <1>5 DEF hvars, PlacesType
<1> QED
  BY <1>1, <1>2, <1>4, <1>5 DEF HNext
-----------------------------------------------------------------------------
\* As long as no two attachments overlapped, one receiver at a time attaches,
\* and only functions without a listener.
AttachTypes ==
    /\ attached \in [Functions -> Nat]
    /\ func \in [Receivers -> Functions \union {NoFunction}]
    /\ \A r \in Receivers : hpc[r] \in {"find", "attach", "emplace"} => func[r] \in Functions

AttachKept ==
    ~raced =>
        /\ \A r, s \in Receivers : Attaching(r) /\ Attaching(s) => r = s
        /\ \A r \in Receivers : hpc[r] = "attach" => attached[func[r]] = 0

AttachInv == PlacesType /\ AttachTypes /\ AttachKept /\ ListenersKnown

\* Steps of a query attach nothing.
LEMMA AttachElsewhere ==
  ASSUME AttachInv, NEW r \in Receivers,
         Query(r) \/ PushThread(r) \/ BeginReply(r) \/ Serialize(r) \/ SendReply(r)
  PROVE  AttachTypes' /\ AttachKept' /\ ListenersKnown'
<1>1. UNCHANGED attachVars
  BY DEF Query, PushThread, BeginReply, Serialize, SendReply
<1>2. \A s \in Receivers : /\ hpc'[s] = "find" <=> hpc[s] = "find"
                           /\ hpc'[s] = "attach" <=> hpc[s] = "attach"
                           /\ hpc'[s] = "emplace" <=> hpc[s] = "emplace"
  BY DEF Query, PushThread, BeginReply, Serialize, SendReply, HGoto, AttachInv, PlacesType
<1>3. AttachTypes'
  BY <1>1, <1>2 DEF AttachInv, AttachTypes, attachVars
<1>4. AttachKept'
  BY <1>1, <1>2 DEF AttachInv, AttachKept, Attaching, attachVars
<1>5. ListenersKnown'
  BY <1>1, <1>2 DEF AttachInv, ListenersKnown, attachVars
<1> QED
  BY <1>3, <1>4, <1>5

\* A request for a function, up to the look-up in the map
\* (interceptor_handler.cpp:53-64).
LEMMA AttachFind ==
  ASSUME AttachInv, NEW r \in Receivers, FindFunction(r) \/ AlreadyAttached(r)
  PROVE  AttachTypes' /\ AttachKept' /\ ListenersKnown'
<1>1. /\ attached' = attached /\ active' = active /\ raced' = raced
      /\ hpc' \in [Receivers -> Places] /\ hpc'[r] \in {"find", "idle"}
      /\ hpc[r] \notin {"attach", "emplace"}
      /\ \A s \in Receivers \ {r} : hpc'[s] = hpc[s] /\ func'[s] = func[s]
  BY DEF FindFunction, AlreadyAttached, HGoto, AttachInv, PlacesType, AttachTypes, Places
<1>2. AttachTypes'
  BY <1>1 DEF FindFunction, AlreadyAttached, HGoto, AttachInv, PlacesType, AttachTypes
<1>3. AttachKept'
  BY <1>1 DEF AttachInv, AttachKept, Attaching
<1>4. ListenersKnown'
  BY <1>1 DEF AttachInv, ListenersKnown
<1> QED
  BY <1>2, <1>3, <1>4

\* A function that is not in the map has no listener if nobody else attaches.
LEMMA AttachBegin ==
  ASSUME AttachInv, NEW r \in Receivers, NotAttached(r)
  PROVE  AttachTypes' /\ AttachKept' /\ ListenersKnown'
<1>1. /\ attached' = attached /\ active' = active /\ func' = func
      /\ hpc[r] = "find" /\ hpc' = [hpc EXCEPT ![r] = "attach"]
      /\ func[r] \notin active
      /\ raced' = (raced \/ Others(r, {"attach", "emplace"}) # {})
  BY DEF NotAttached, HGoto
<1>2. AttachTypes'
  BY <1>1 DEF AttachInv, PlacesType, AttachTypes
<1>3. ASSUME ~raced'
      PROVE  ~raced /\ \A s \in Receivers : ~Attaching(s)
  BY <1>1, <1>3 DEF Others, Attaching
<1>4. ASSUME ~raced' PROVE attached[func[r]] = 0
  <2>1. func[r] \in Functions /\ attached[func[r]] \in Nat
    BY <1>1 DEF AttachInv, AttachTypes
  <2>2. attached[func[r]] <= 1 /\ attached[func[r]] # 1
    BY <1>1, <1>3, <1>4, <2>1 DEF AttachInv, ListenersKnown, Attaching
  <2> QED
    BY <2>1, <2>2
<1>5. AttachKept'
  BY <1>1, <1>3, <1>4 DEF AttachInv, PlacesType, AttachKept, Attaching
<1>6. ListenersKnown'
  BY <1>1, <1>3 DEF AttachInv, PlacesType, ListenersKnown, Attaching
<1> QED
  BY <1>2, <1>5, <1>6

\* Frida attaches the first listener of the function.
LEMMA AttachAttach ==
  ASSUME AttachInv, NEW r \in Receivers, AttachListener(r)
  PROVE  AttachTypes' /\ AttachKept' /\ ListenersKnown'
<1>1. /\ attached' = [attached EXCEPT ![func[r]] = @ + 1]
      /\ active' = active /\ func' = func /\ raced' = raced
      /\ hpc[r] = "attach" /\ hpc' = [hpc EXCEPT ![r] = "emplace"]
      /\ func[r] \in Functions /\ hpc \in [Receivers -> Places]
  BY DEF AttachListener, HGoto, AttachInv, PlacesType, AttachTypes
<1>2. AttachTypes'
  BY <1>1 DEF AttachInv, PlacesType, AttachTypes
<1>3. AttachKept'
  BY <1>1 DEF AttachInv, AttachKept, Attaching
<1>4. ListenersKnown'
  <2> SUFFICES ASSUME ~raced, NEW f \in Functions
               PROVE  /\ attached'[f] <= 1
                      /\ attached'[f] = 1 /\ f \notin active
                           => \E s \in Receivers : hpc'[s] = "emplace" /\ func[s] = f
    BY <1>1 DEF ListenersKnown
  <2>1. CASE f = func[r]
    BY <1>1, <2>1 DEF AttachInv, AttachKept, AttachTypes
  <2>2. CASE f # func[r]
    <3>1. attached'[f] = attached[f]
      BY <1>1, <2>2 DEF AttachInv, AttachTypes
    <3>2. \A s \in Receivers : hpc[s] = "emplace" => hpc'[s] = "emplace"
      BY <1>1
    <3> QED
      BY <3>1, <3>2 DEF AttachInv, ListenersKnown
  <2> QED
    BY <2>1, <2>2
<1> QED
  BY <1>2, <1>3, <1>4

\* The listener is entered (interceptor_handler.cpp:73).
LEMMA AttachEmplace ==
  ASSUME AttachInv, NEW r \in Receivers, Emplace(r)
  PROVE  AttachTypes' /\ AttachKept' /\ ListenersKnown'
<1>1. /\ attached' = attached /\ raced' = raced
      /\ hpc[r] = "emplace" /\ hpc' = [hpc EXCEPT ![r] = "idle"]
      /\ hpc \in [Receivers -> Places]
      /\ func' = [func EXCEPT ![r] = NoFunction]
      /\ \/ active' = active \union {func[r]}
         \/ Others(r, {"emplace"}) # {} /\ active' = active
  BY DEF Emplace, HGoto, AttachInv, PlacesType
<1>2. AttachTypes'
  BY <1>1 DEF AttachInv, AttachTypes
<1>3. AttachKept'
  BY <1>1 DEF AttachInv, AttachKept, Attaching, AttachTypes
<1>4. ~raced => Others(r, {"emplace"}) = {}
  BY <1>1 DEF AttachInv, AttachKept, Attaching, Others
<1>5. ListenersKnown'
  <2> SUFFICES ASSUME ~raced, NEW f \in Functions
               PROVE  /\ attached[f] <= 1
                      /\ attached[f] = 1 => f \in active'
    BY <1>1 DEF ListenersKnown
  <2>1. attached[f] = 1 /\ f \notin active => f = func[r]
    BY <1>1, <1>4 DEF AttachInv, ListenersKnown, Others
  <2> QED
    BY <1>1, <1>4, <2>1 DEF AttachInv, ListenersKnown
<1> QED
  BY <1>2, <1>3, <1>5

\* A new process has attached nothing.
LEMMA AttachFresh ==
  ASSUME NEW r \in Receivers, Crash(r)
  PROVE  AttachTypes' /\ AttachKept' /\ ListenersKnown'
<1>1. /\ hpc' = [s \in Receivers |-> "idle"]
      /\ func' = [s \in Receivers |-> NoFunction]
      /\ attached' = [g \in Functions |-> 0]
  BY DEF Crash, Fresh
<1> QED
  BY <1>1 DEF AttachTypes, AttachKept, ListenersKnown, Attaching

\* Unless two attachments overlapped, a function has one listener at most and
\* the map knows of it (interceptor_handler.cpp:61-73).
THEOREM ListenersCorrect == HSpec => []ListenersKnown
<1>1. HInit => AttachInv
  <2> SUFFICES ASSUME HInit PROVE AttachInv
    OBVIOUS
  <2>1. /\ hpc = [r \in Receivers |-> "idle"]
        /\ func = [r \in Receivers |-> NoFunction]
        /\ attached = [g \in Functions |-> 0]
    BY DEF HInit, Fresh
  <2> QED
    BY <2>1 DEF AttachInv, PlacesType, Places, AttachTypes, AttachKept, ListenersKnown, Attaching
<1>2. AttachInv /\ [HNext]_hvars => AttachInv'
  <2> SUFFICES ASSUME AttachInv, [HNext]_hvars PROVE AttachTypes' /\ AttachKept' /\ ListenersKnown'
    BY PlacesNext DEF AttachInv
  <2>1. CASE UNCHANGED hvars
    BY <2>1 DEF hvars, attachVars, AttachInv, AttachTypes, AttachKept, ListenersKnown, Attaching
  <2> QED
    BY <2>1, AttachElsewhere, AttachFind, AttachBegin, AttachAttach, AttachEmplace,
       AttachFresh DEF HNext
<1>3. AttachInv => ListenersKnown
  BY DEF AttachInv
<1> QED
  BY <1>1, <1>2, <1>3, PTL DEF HSpec
-----------------------------------------------------------------------------
\* As long as no other query came between, the list holds the threads that were
\* enumerated, and the reply what was serialised of it.
Entry == [tid : Threads, by : Receivers, request : Nat]

QueryTypes ==
    /\ requests \in [Receivers -> Nat]
    /\ info \in Seq(Entry)
    /\ left \in [Receivers -> SUBSET Threads]
    /\ cursor \in [Receivers -> Nat] /\ end \in [Receivers -> Nat]
    /\ reply \in [Receivers -> Seq(Entry \union {Garbage})]
    /\ disturbed \in [Receivers -> BOOLEAN]

Alone == \A r, s \in Receivers : Busy(r) /\ Busy(s) /\ r # s => disturbed[r]

Listed(r) ==
    /\ \A i \in 1..Len(info) : /\ info[i].by = r /\ info[i].request = requests[r]
                               /\ info[i].tid \notin left[r]
    /\ \A t \in Threads \ left[r] : \E i \in 1..Len(info) : info[i].tid = t
    /\ Len(info) = Cardinality(Threads \ left[r])

Copied(r) ==
    /\ left[r] = {} /\ end[r] = Len(info)
    /\ cursor[r] = Len(reply[r]) + 1 /\ Len(reply[r]) <= Len(info)
    /\ \A i \in 1..Len(reply[r]) : reply[r][i] = info[i]

ListKept ==
    \A r \in Receivers : Busy(r) /\ ~disturbed[r] =>
        Listed(r) /\ (hpc[r] = "enumerate" => reply[r] = <<>>) /\ (hpc[r] = "serialize" => Copied(r))

QueryInv == PlacesType /\ QueryTypes /\ Alone /\ ListKept

\* The types of the query's variables.
LEMMA QueryTypesNext == PlacesType /\ QueryTypes /\ [HNext]_hvars => QueryTypes'
<1> SUFFICES ASSUME QueryTypes, [HNext]_hvars PROVE QueryTypes'
  OBVIOUS
<1>1. ASSUME NEW r \in Receivers, Query(r) PROVE QueryTypes'
  <2>1. disturbed' \in [Receivers -> BOOLEAN]
    BY <1>1 DEF Query
  <2> QED
    BY <1>1, <2>1 DEF Query, Begin, QueryTypes
<1>2. ASSUME NEW r \in Receivers, PushThread(r) PROVE QueryTypes'
  <2>1. disturbed' \in [Receivers -> BOOLEAN]
    BY <1>2 DEF PushThread, Disturb
  <2>2. PICK t \in left[r] : /\ left' = [left EXCEPT ![r] = @ \ {t}]
                             /\ \/ info' = Append(info, [tid |-> t, by |-> r, request |-> requests[r]])
                               \/ info' = info
    BY <1>2 DEF PushThread
  <2>3. [tid |-> t, by |-> r, request |-> requests[r]] \in Entry
    BY DEF QueryTypes, Entry
  <2>4. Append(info, [tid |-> t, by |-> r, request |-> requests[r]]) \in Seq(Entry)
    <3>1. info \in Seq(Entry)
      BY DEF QueryTypes
    <3> QED
      BY <2>3, <3>1, AppendProperties
  <2>5. info' \in Seq(Entry)
    BY <2>2, <2>4 DEF QueryTypes
  <2> QED
    BY <1>2, <2>1, <2>2, <2>5 DEF PushThread, QueryTypes
<1>3. ASSUME NEW r \in Receivers, BeginReply(r) PROVE QueryTypes'
  <2>1. Len(info) \in Nat
    BY LenProperties DEF QueryTypes
  <2> QED
    BY <1>3, <2>1 DEF BeginReply, QueryTypes
<1>4. ASSUME NEW r \in Receivers, Serialize(r) PROVE QueryTypes'
  <2>1. PICK entry \in (IF cursor[r] \in DOMAIN info THEN {info[cursor[r]]} ELSE {}) \union {Garbage} :
          reply' = [reply EXCEPT ![r] = Append(@, entry)]
    BY <1>4 DEF Serialize
  <2>2. entry \in Entry \union {Garbage}
    BY <2>1, ElementOfSeq DEF QueryTypes
  <2>3. Append(reply[r], entry) \in Seq(Entry \union {Garbage})
    BY <2>2, AppendProperties DEF QueryTypes
  <2> QED
    BY <1>4, <2>1, <2>3 DEF Serialize, QueryTypes
<1>5. ASSUME NEW r \in Receivers, SendReply(r) PROVE QueryTypes'
  BY <1>5 DEF SendReply, QueryTypes
<1>6. ASSUME NEW r \in Receivers, AlreadyAttached(r) \/ NotAttached(r) \/ AttachListener(r) \/ Emplace(r)
      PROVE  QueryTypes'
  BY <1>6 DEF AlreadyAttached, NotAttached, AttachListener, Emplace, queryVars, QueryTypes
<1>7. ASSUME NEW r \in Receivers, FindFunction(r) PROVE QueryTypes'
  BY <1>7 DEF FindFunction, Begin, queryVars, QueryTypes
<1>8. ASSUME NEW r \in Receivers, Crash(r) PROVE QueryTypes'
  BY <1>8 DEF Crash, Fresh, QueryTypes
<1>9. CASE UNCHANGED hvars
  BY <1>9 DEF hvars, queryVars, QueryTypes
<1> QED
  BY <1>1, <1>2, <1>3, <1>4, <1>5, <1>6, <1>7, <1>8, <1>9 DEF HNext

\* A query marks those it meets, and itself.
LEMMA AloneNext == PlacesType /\ QueryTypes /\ Alone /\ [HNext]_hvars => Alone'
<1> SUFFICES ASSUME PlacesType, QueryTypes, Alone, [HNext]_hvars,
                    NEW a \in Receivers, NEW b \in Receivers, a # b, Busy(a)', Busy(b)'
             PROVE  disturbed'[a]
  BY DEF Alone
<1>1. ASSUME NEW r \in Receivers, Query(r) PROVE disturbed'[a]
  <2>1. /\ hpc' = [hpc EXCEPT ![r] = "enumerate"] /\ hpc \in [Receivers -> Places]
        /\ disturbed' = [o \in Receivers |->
              IF o = r THEN Querying(r) # {} ELSE disturbed[o] \/ o \in Querying(r)]
    BY <1>1 DEF Query, HGoto, PlacesType
  <2>2. \A s \in Receivers : s \in Querying(r) <=> s # r /\ Busy(s)
    BY DEF Querying, Others, Busy
  <2>3. \A s \in Receivers \ {r} : Busy(s)' <=> Busy(s)
    BY <2>1 DEF Busy
  <2>4. CASE a = r
    <3>1. b \in Querying(r)
      BY <2>2, <2>3, <2>4
    <3> QED
      BY <2>1, <2>4, <3>1
  <2>5. CASE a # r
    <3>1. a \in Querying(r)
      BY <2>2, <2>3, <2>5
    <3> QED
      BY <2>1, <2>5, <3>1
  <2> QED
    BY <2>4, <2>5
<1>2. ASSUME NEW r \in Receivers, PushThread(r) PROVE disturbed'[a]
  BY <1>2 DEF PushThread, Disturb, HGoto, PlacesType, QueryTypes, Alone, Busy
<1>3. ASSUME NEW r \in Receivers, BeginReply(r) \/ Serialize(r) PROVE disturbed'[a]
  BY <1>3 DEF BeginReply, Serialize, HGoto, PlacesType, Alone, Busy
<1>4. ASSUME NEW r \in Receivers, SendReply(r) PROVE disturbed'[a]
  BY <1>4 DEF SendReply, HGoto, PlacesType, QueryTypes, Alone, Busy
<1>5. ASSUME NEW r \in Receivers,
             FindFunction(r) \/ AlreadyAttached(r) \/ NotAttached(r) \/ AttachListener(r) \/ Emplace(r)
      PROVE  disturbed'[a]
  BY <1>5 DEF FindFunction, AlreadyAttached, NotAttached, AttachListener, Emplace, HGoto,
     queryVars, PlacesType, Alone, Busy
<1>6. ASSUME NEW r \in Receivers, Crash(r) PROVE disturbed'[a]
  BY <1>6 DEF Crash, Fresh, Busy
<1>7. CASE UNCHANGED hvars
  BY <1>7 DEF hvars, queryVars, Alone, Busy
<1> QED
  BY <1>1, <1>2, <1>3, <1>4, <1>5, <1>6, <1>7 DEF HNext

\* A request begins with an empty list (query_thread_handler.cpp:25).
LEMMA KeptByQuery ==
  ASSUME QueryInv, NEW r \in Receivers, Query(r)
  PROVE  ListKept'
<1> SUFFICES ASSUME NEW q \in Receivers, Busy(q)', ~disturbed'[q]
             PROVE  Listed(q)' /\ (hpc'[q] = "enumerate" => reply'[q] = <<>>)
                    /\ (hpc'[q] = "serialize" => Copied(q)')
  BY DEF ListKept
<1>1. /\ hpc' = [hpc EXCEPT ![r] = "enumerate"] /\ hpc \in [Receivers -> Places]
      /\ info' = <<>> /\ left' = [left EXCEPT ![r] = Threads] /\ reply' = [reply EXCEPT ![r] = <<>>]
      /\ disturbed' = [o \in Receivers |->
            IF o = r THEN Querying(r) # {} ELSE disturbed[o] \/ o \in Querying(r)]
  BY DEF Query, HGoto, QueryInv, PlacesType
<1>2. q = r
  BY <1>1 DEF Busy, Querying, Others
<1>3. left'[r] = Threads /\ reply'[r] = <<>> /\ hpc'[r] = "enumerate"
  BY <1>1 DEF QueryInv, QueryTypes
<1>4. Cardinality(Threads \ left'[r]) = 0
  BY <1>3, FS_EmptySet
<1>5. Listed(q)'
  BY <1>1, <1>2, <1>3, <1>4 DEF Listed
<1> QED
  BY <1>2, <1>3, <1>5

\* A thread that is reported is listed once (query_thread_handler.cpp:63).
LEMMA KeptByPush ==
  ASSUME QueryInv, NEW r \in Receivers, PushThread(r)
  PROVE  ListKept'
<1> SUFFICES ASSUME NEW q \in Receivers, Busy(q)', ~disturbed'[q]
             PROVE  Listed(q)' /\ (hpc'[q] = "enumerate" => reply'[q] = <<>>)
                    /\ (hpc'[q] = "serialize" => Copied(q)')
  BY DEF ListKept
<1>1. /\ hpc' = hpc /\ hpc[r] = "enumerate" /\ reply' = reply /\ requests' = requests
      /\ disturbed' = [o \in Receivers |-> disturbed[o] \/ o \in Querying(r)]
  BY DEF PushThread, HGoto, Disturb, QueryInv, PlacesType
<1>2. q = r /\ ~disturbed[r]
  BY <1>1 DEF Busy, Querying, Others
<1>3. Others(r, {"enumerate"}) = {}
  BY <1>1, <1>2 DEF QueryInv, Alone, Busy, Others
<1>4. Listed(r) /\ reply[r] = <<>>
  BY <1>1, <1>2 DEF QueryInv, ListKept, Busy
<1>5. PICK t \in left[r] : /\ left' = [left EXCEPT ![r] = @ \ {t}]
                           /\ info' = Append(info, [tid |-> t, by |-> r, request |-> requests[r]])
  BY <1>3 DEF PushThread
<1>6. /\ left \in [Receivers -> SUBSET Threads] /\ info \in Seq(Entry) /\ requests[r] \in Nat
  BY DEF QueryInv, QueryTypes
<1>7. left'[r] = left[r] \ {t} /\ t \in Threads /\ t \notin Threads \ left[r]
  BY <1>5, <1>6
<1>8. Threads \ left'[r] = (Threads \ left[r]) \union {t}
  BY <1>5, <1>7
<1>9. Cardinality(Threads \ left'[r]) = Cardinality(Threads \ left[r]) + 1
  <2>1. IsFiniteSet(Threads \ left[r])
    BY HandlersAssumption, FS_Subset
  <2> QED
    BY <1>7, <1>8, <2>1, FS_AddElement
<1>10. [tid |-> t, by |-> r, request |-> requests[r]] \in Entry
  BY <1>6, <1>7 DEF Entry
<1>11. /\ Len(info) \in Nat /\ Len(info') = Len(info) + 1
       /\ \A i \in 1..Len(info) : info'[i] = info[i]
       /\ info'[Len(info) + 1] = [tid |-> t, by |-> r, request |-> requests[r]]
  BY <1>5, <1>6, <1>10, AppendProperties, LenProperties
<1>12. Listed(r)'
  <2>1. ASSUME NEW i \in 1..Len(info')
        PROVE  info'[i].by = r /\ info'[i].request = requests[r] /\ info'[i].tid \notin left'[r]
    <3>1. CASE i = Len(info) + 1
      BY <1>7, <1>11, <3>1
    <3>2. CASE i # Len(info) + 1
      <4>1. i \in 1..Len(info) /\ info'[i] = info[i]
        BY <1>11, <3>2
      <4>2. info[i].by = r /\ info[i].request = requests[r] /\ info[i].tid \notin left[r]
        BY <1>4, <4>1 DEF Listed
      <4> QED
        BY <1>7, <4>1, <4>2
    <3> QED
      BY <3>1, <3>2
  <2>2. ASSUME NEW u \in Threads \ left'[r]
        PROVE  \E i \in 1..Len(info') : info'[i].tid = u
    <3>1. CASE u = t
      BY <1>11, <3>1
    <3>2. CASE u # t
      <4>1. PICK i \in 1..Len(info) : info[i].tid = u
        BY <1>4, <1>8, <2>2, <3>2 DEF Listed
      <4> QED
        BY <1>11, <4>1
    <3> QED
      BY <3>1, <3>2
  <2>3. Len(info') = Cardinality(Threads \ left'[r])
    BY <1>4, <1>9, <1>11 DEF Listed
  <2> QED
    BY <1>1, <2>1, <2>2, <2>3 DEF Listed
<1> QED
  BY <1>1, <1>2, <1>4, <1>12

\* Who alone queries is the one who serialises (query_thread_handler.cpp:34-40).
LEMMA KeptByReply ==
  ASSUME QueryInv, NEW r \in Receivers, BeginReply(r) \/ Serialize(r) \/ SendReply(r)
  PROVE  ListKept'
<1> SUFFICES ASSUME NEW q \in Receivers, Busy(q)', ~disturbed'[q]
             PROVE  Listed(q)' /\ (hpc'[q] = "enumerate" => reply'[q] = <<>>)
                    /\ (hpc'[q] = "serialize" => Copied(q)')
  BY DEF ListKept
<1>1. q = r /\ ~disturbed[r] /\ Busy(r) /\ ~SendReply(r)
  <2>1. Busy(r) /\ \A s \in Receivers \ {r} : hpc'[s] = hpc[s] /\ disturbed'[s] = disturbed[s]
    BY DEF BeginReply, Serialize, SendReply, HGoto, Busy, QueryInv, PlacesType, QueryTypes
  <2>2. SendReply(r) => ~Busy(r)'
    BY DEF SendReply, HGoto, Busy, QueryInv, PlacesType
  <2>3. ~SendReply(r) => disturbed' = disturbed
    BY DEF BeginReply, Serialize
  <2> QED
    BY <2>1, <2>2, <2>3 DEF QueryInv, Alone, Busy
<1>2. Listed(r) /\ info' = info /\ requests' = requests /\ left' = left /\ hpc'[r] = "serialize"
  BY <1>1 DEF BeginReply, Serialize, HGoto, QueryInv, PlacesType, ListKept
<1>3. Listed(r)'
  BY <1>2 DEF Listed
<1>4. info \in Seq(Entry) /\ Len(info) \in Nat
  BY LenProperties DEF QueryInv, QueryTypes
<1>5. CASE BeginReply(r)
  <2>1. /\ left[r] = {} /\ end'[r] = Len(info) /\ cursor'[r] = 1 /\ reply'[r] = reply[r]
        /\ reply[r] = <<>>
    BY <1>1, <1>5 DEF BeginReply, HGoto, QueryInv, QueryTypes, ListKept
  <2> QED
    BY <1>1, <1>2, <1>3, <1>4, <2>1 DEF Copied
<1>6. CASE Serialize(r)
  <2>1. Copied(r) /\ cursor[r] <= end[r]
    BY <1>1, <1>6 DEF Serialize, HGoto, QueryInv, ListKept
  <2>2. reply[r] \in Seq(Entry \union {Garbage}) /\ Len(reply[r]) \in Nat
    BY LenProperties DEF QueryInv, QueryTypes
  <2>3. cursor[r] \in DOMAIN info
    BY <1>4, <2>1, <2>2, LenProperties DEF Copied
  <2>4. /\ reply'[r] = Append(reply[r], info[cursor[r]]) /\ cursor'[r] = cursor[r] + 1
        /\ end' = end
    BY <1>1, <1>6, <2>3 DEF Serialize, QueryInv, QueryTypes
  <2>5. info[cursor[r]] \in Entry \union {Garbage}
    BY <1>4, <2>3, ElementOfSeq, LenProperties
  <2>6. /\ Len(reply'[r]) = Len(reply[r]) + 1
        /\ \A i \in 1..Len(reply[r]) : reply'[r][i] = reply[r][i]
        /\ reply'[r][Len(reply[r]) + 1] = info[cursor[r]]
    BY <2>2, <2>4, <2>5, AppendProperties
  <2>7. Copied(r)'
    BY <1>2, <1>4, <2>1, <2>2, <2>4, <2>6 DEF Copied
  <2> QED
    BY <1>1, <1>2, <1>3, <2>7
<1> QED
  BY <1>1, <1>5, <1>6

\* A request for a function does not touch the list.
LEMMA KeptElsewhere ==
  ASSUME QueryInv, NEW r \in Receivers,
         FindFunction(r) \/ AlreadyAttached(r) \/ NotAttached(r) \/ AttachListener(r) \/ Emplace(r)
  PROVE  ListKept'
<1>1. UNCHANGED queryVars
  BY DEF FindFunction, AlreadyAttached, NotAttached, AttachListener, Emplace
<1>2. \A q \in Receivers : /\ hpc'[q] = "enumerate" <=> hpc[q] = "enumerate"
                           /\ hpc'[q] = "serialize" <=> hpc[q] = "serialize"
  BY DEF FindFunction, AlreadyAttached, NotAttached, AttachListener, Emplace, HGoto, QueryInv,
     PlacesType
<1>3. \A q \in Receivers : Busy(q) => requests'[q] = requests[q]
  BY DEF FindFunction, AlreadyAttached, NotAttached, AttachListener, Emplace, Begin, HGoto,
     QueryInv, QueryTypes, Busy
<1> SUFFICES ASSUME NEW q \in Receivers, Busy(q)', ~disturbed'[q]
             PROVE  Listed(q)' /\ (hpc'[q] = "enumerate" => reply'[q] = <<>>)
                    /\ (hpc'[q] = "serialize" => Copied(q)')
  BY DEF ListKept
<1>4. Busy(q) /\ ~disturbed[q]
  BY <1>1, <1>2 DEF Busy, queryVars
<1>5. Listed(q) /\ (hpc[q] = "enumerate" => reply[q] = <<>>) /\ (hpc[q] = "serialize" => Copied(q))
  BY <1>4 DEF QueryInv, ListKept
<1>6. Listed(q)'
  BY <1>1, <1>3, <1>4, <1>5 DEF Listed, queryVars
<1>7. Copied(q) => Copied(q)'
  BY <1>1 DEF Copied, queryVars
<1> QED
  BY <1>1, <1>2, <1>5, <1>6, <1>7 DEF queryVars

\* A reply that no other query disturbed lists the threads of the process, each
\* once, as this request found them (query_thread_handler.cpp:15-65).
THEOREM QueriesCorrect == HSpec => []QueriesExact
<1>1. HInit => QueryInv
  <2> SUFFICES ASSUME HInit PROVE QueryInv
    OBVIOUS
  <2>1. hpc = [r \in Receivers |-> "idle"]
    BY DEF HInit, Fresh
  <2>2. QueryTypes
    BY DEF HInit, Fresh, QueryTypes
  <2> QED
    BY <2>1, <2>2 DEF QueryInv, PlacesType, Places, Alone, ListKept, Busy
<1>2. QueryInv /\ [HNext]_hvars => QueryInv'
  <2> SUFFICES ASSUME QueryInv, [HNext]_hvars PROVE ListKept'
    BY PlacesNext, QueryTypesNext, AloneNext DEF QueryInv
  <2>1. CASE UNCHANGED hvars
    <3>1. UNCHANGED <<hpc, requests, info, left, cursor, end, reply, disturbed>>
      BY <2>1 DEF hvars, queryVars
    <3>2. ListKept
      BY DEF QueryInv
    <3>3. \A r \in Receivers : Listed(r)' <=> Listed(r)
      BY <3>1 DEF Listed
    <3>4. \A r \in Receivers : Copied(r)' <=> Copied(r)
      BY <3>1 DEF Copied
    <3> QED
      BY <3>1, <3>2, <3>3, <3>4 DEF ListKept, Busy
  <2>2. ASSUME NEW r \in Receivers, Crash(r) PROVE ListKept'
    BY <2>2 DEF Crash, Fresh, ListKept, Busy
  <2> QED
    BY <2>1, <2>2, KeptByQuery, KeptByPush, KeptByReply, KeptElsewhere DEF HNext
<1>3. QueryInv => QueriesExact
  <2> SUFFICES ASSUME QueryInv, NEW r \in Receivers, hpc[r] = "serialize", cursor[r] > end[r],
                      ~disturbed[r]
               PROVE  /\ {reply[r][i] : i \in DOMAIN reply[r]} =
                            [tid : Threads, by : {r}, request : {requests[r]}]
                      /\ Len(reply[r]) = Cardinality(Threads)
    BY DEF QueriesExact
  <2>1. Listed(r) /\ Copied(r)
    BY DEF QueryInv, ListKept, Busy
  <2>2. /\ info \in Seq(Entry) /\ Len(info) \in Nat /\ Len(reply[r]) \in Nat
        /\ DOMAIN reply[r] = 1..Len(reply[r])
    BY LenProperties DEF QueryInv, QueryTypes
  <2>3. Len(reply[r]) = Len(info) /\ Threads \ left[r] = Threads
    BY <2>1, <2>2 DEF Copied
  <2>4. \A i \in 1..Len(info) : /\ reply[r][i] = info[i] /\ info[i] \in Entry
                                /\ info[i].by = r /\ info[i].request = requests[r]
    BY <2>1, <2>2, <2>3, ElementOfSeq DEF Copied, Listed
  <2>5. \A t \in Threads : \E i \in 1..Len(info) : info[i].tid = t
    BY <2>1, <2>3 DEF Listed
  <2>6. \A i \in 1..Len(info) : reply[r][i] \in [tid : Threads, by : {r}, request : {requests[r]}]
    BY <2>4 DEF Entry
  <2>7. ASSUME NEW e \in [tid : Threads, by : {r}, request : {requests[r]}]
        PROVE  \E i \in 1..Len(info) : reply[r][i] = e
    <3>1. PICK i \in 1..Len(info) : info[i].tid = e.tid
      BY <2>5
    <3> QED
      BY <2>4, <2>6, <3>1
  <2>8. {reply[r][i] : i \in 1..Len(info)} = [tid : Threads, by : {r}, request : {requests[r]}]
    <3> DEFINE Entries == [tid : Threads, by : {r}, request : {requests[r]}]
    <3>1. \A i \in 1..Len(info) : reply[r][i] \in Entries
      BY <2>6
    <3>2. \A e \in Entries : \E i \in 1..Len(info) : reply[r][i] = e
      BY <2>7
    <3> HIDE DEF Entries
    <3>3. {reply[r][i] : i \in 1..Len(info)} = Entries
      BY <3>1, <3>2
    <3> QED
      BY <3>3 DEF Entries
  <2>9. Len(reply[r]) = Cardinality(Threads)
    BY <2>1, <2>3 DEF Listed
  <2>10. DOMAIN reply[r] = 1..Len(info)
    BY <2>2, <2>3
  <2> QED
    BY <2>8, <2>9, <2>10
<1> QED
  BY <1>1, <1>2, <1>3, PTL DEF HSpec
-----------------------------------------------------------------------------
(* BlockIds. Whatever was counted was found in a module, at an address where  *)
(* a branch can be, and under the number of that address.                     *)
ModuleOf(address) == CHOOSE m \in Found(address) : TRUE

CountedAsFound ==
    \A c \in counted :
        /\ c.address \in Addresses /\ Aligned(c.address) /\ Found(c.address) # {}
        /\ c.id = ShortAddress(c.address, ModuleOf(c.address))

\* What initFridaContext and the build give.
BuildKnown == shifted \in {"nothing", "all"}

BInv == BuildKnown /\ CountedAsFound

\* Two addresses of one module, or of a 32-bit process, have two numbers.
LEMMA IdsDiffer ==
  ASSUME BuildKnown,
         NEW a \in Addresses, Aligned(a), Found(a) # {},
         NEW b \in Addresses, Aligned(b), Found(b) # {},
         ShortAddress(a, ModuleOf(a)) = ShortAddress(b, ModuleOf(b)), a # b
  PROVE  arch = "arm64-v8a" /\ Found(a) # Found(b)
<1>1. a \in Nat /\ b \in Nat
  BY BlocksAssumption
<1>2. CASE arch # "arm64-v8a"
  <2>1. a % 2 = 0 /\ b % 2 = 0 /\ a \div 2 = b \div 2
    BY <1>2 DEF Aligned, ShortAddress
  <2> QED
    BY <1>1, <2>1
<1>3. CASE arch = "arm64-v8a" /\ Found(a) = Found(b)
  <2> DEFINE m == ModuleOf(a)
  <2>1. m \in Found(a) /\ m = ModuleOf(b) /\ m \in Found(b)
    BY <1>3 DEF ModuleOf
  <2>2. /\ m \in Modules /\ m.hash \in 0..HashMask /\ m.base \in Nat /\ m.size \in Nat
        /\ a \in m.base .. m.base + m.size - 1 /\ b \in m.base .. m.base + m.size - 1
    BY <2>1, BlocksAssumption DEF Found
  <2> DEFINE x == (a - m.base) \div 2
             y == (b - m.base) \div 2
             h == HashPart(m.hash)
  <2>3. ExclusiveOr(h, x) = ExclusiveOr(h, y)
    BY <1>3, <2>1 DEF ShortAddress
  <2>4. h \in 0..HashMask
    <3>1. 0 \in 0..HashMask
      BY BlocksAssumption
    <3> QED
      BY <2>2, <3>1 DEF HashPart
  <2>5. a % 4 = 0 /\ b % 4 = 0
    BY <1>3 DEF Aligned
  <2> HIDE DEF m, h
  <2>6. x \in 0..m.size /\ y \in 0..m.size
    BY <1>1, <2>2
  <2>7. x = y
    BY <2>2, <2>3, <2>4, <2>6, XorAssumption
  <2> QED
    BY <1>1, <2>2, <2>5, <2>7
<1> QED
  BY <1>2, <1>3

(* It holds of a builder that was just made ...                              *)
LEMMA BInitInv == BInit => BInv
  BY DEF BInit, BInv, BuildKnown, CountedAsFound

(* ... and whatever is reset or tracked keeps it: only the block that is      *)
(* tracked changes what is known of an address.                              *)
LEMMA BNextKeeps == BInv /\ [BNext]_bvars => BInv'
<1> SUFFICES ASSUME BInv, [BNext]_bvars PROVE BInv'
  OBVIOUS
<1>1. arch' = arch /\ shifted' = shifted
  BY DEF BNext, Reset, TrackBlock, bvars
<1>2. ASSUME NEW address, NEW m
      PROVE  /\ Aligned(address)' <=> Aligned(address)
             /\ ShortAddress(address, m)' = ShortAddress(address, m)
  BY <1>1 DEF Aligned, ShortAddress, HashPart
<1>3. CASE UNCHANGED counted
  BY <1>1, <1>2, <1>3 DEF BInv, BuildKnown, CountedAsFound
<1>4. CASE counted' = {}
  BY <1>1, <1>4 DEF BInv, BuildKnown, CountedAsFound
<1>5. ASSUME NEW address \in Addresses, TrackBlock(address), Found(address) # {} PROVE BInv'
  <2>1. /\ Aligned(address)
        /\ counted' = counted \union
              {[id |-> ShortAddress(address, ModuleOf(address)), address |-> address]}
    BY <1>5 DEF TrackBlock, ModuleOf
  <2> QED
    BY <1>1, <1>2, <1>5, <2>1 DEF BInv, BuildKnown, CountedAsFound
<1> QED
  BY <1>3, <1>4, <1>5 DEF BNext, Reset, TrackBlock, bvars

(* Blocks that share a count are in different modules of a 64-bit process,     *)
(* whatever the undefined shift leaves of a hash (types.cpp, arch/stalker.cpp). *)
THEOREM BlocksHold == BSpec => []BlocksApart
<1>1. BInv => BlocksApart
  BY IdsDiffer DEF BInv, CountedAsFound, BlocksApart
<1> QED
  BY <1>1, BInitInv, BNextKeeps, PTL DEF BSpec
===============================================================================
