# Service tracker in TLA+

Service tracker fuzzes Android system services while it watches which code the
service process executes. This directory models it in TLA+: modules translated
from the source, TLC configurations that check them on small instances, and
proofs checked by TLAPS that hold for every value of the constants. Native paths
below are relative to `tracker-native/`, Java paths to
`tracker/src/main/java/io/menya/tracker/`.

## 1. The system

Three kinds of process take part:

* the **tracker** (Java, run with `app_process`): finds the service to test, calls
  its methods with generated arguments, has an agent injected in the process that
  hosts the service, and asks the agent for threads and coverage;
* the **injector** (native, one per bitness, root): a TCP server on localhost that
  injects `libagent.so` with Frida into a process named by a JSON request;
* the **agent** (native, inside the target process): a Unix-domain socket server
  that lists threads, makes the Frida stalker follow some of them, intercepts
  functions and reports coverage.

Requests and replies are one-line JSON messages over stream sockets.

| component | source | state it keeps | operations |
|---|---|---|---|
| socket server | `src/tcp_client_server/server.cpp`, `client.cpp` | listening socket, `m_clients` (a `std::vector<Client>`, no lock), one raw `std::thread*` per client, observers | `acceptClient`, `receiveTask` (one thread per client), `deleteClient`, `sendToClient`, `subscribe`; `finish` and `sendToAllClients` are never called |
| client manager | `src/tcp_client_server/client_manager.cpp` | socket, stop flag, receive thread, subscribers | `connectTo`, `sendMsg`, `waitResponse`, `ReceiveTask`, `finish`; instantiated nowhere in the repository |
| request framing | `src/base/hack_action.cpp`, `include/base/encoder.h` | none (the buffer is the receiver's stack) | `parseHackAction`, `basicReply` |
| thread tracing | `src/agent/trace_thread_handler.cpp`, `types.cpp`, `arch` | followed threads, coverage per thread (TLS key), counters | trace, query and reset requests, stalker callbacks, `initFridaContext` |
| block ids | `src/agent/types.cpp`, `arch` | none | hash and offset of a block |
| thread query | `src/agent/query_thread_handler.cpp` | one list of threads | `handle`, `getThreadBacktrace` |
| interceptors | `src/agent/interceptor_handler.cpp` | attached listeners | `handle`, `on_enter` |
| injector handler | `src/injector/inject_agent_handler.cpp` | none of its own (Frida sessions) | `InjectAgentHandler::handle` |
| instrumentation manager | `hack/InstrumentationManager.java`, `hack/injector/*`, `utils/ProcessUtils.java` | injection records per process, injector sockets and locks | `injectAgent`, `requestAndWaitReply`, `waitUntil` |
| agent requests | `hack/agent/*` | map from pid to socket | `getSocketForPID`, `requestAndWaitReplyFromSocket` |
| method caller | `executor/ServiceMethodCaller.java` | pool of one worker, its queue, the call in flight | `callWithTimeout` |
| method lookup | `reflect/*`, `utils/ReflectHelper.java` | method cache | `findMethodExact`, `findMethodBestMatch` |
| generators | `generator/**` | random source; the classes under construction | `random`, `mutate`, `crossover` |
| fuzzer loop | `testing/Fuzzer.java` | queue of tests, restarts | `run`, `handleDeath` |
| service metadata | `reflect/ServiceManagerHelper.java` | the service manager | `parseAllServiceInfo`, `getServiceStub` |
| binder parsing and bypass hacking | `src/agent/bypass_hacking.cpp`, `include/binder` | none | callbacks on intercepted functions |
| plumbing | `Main`, `utils/{Config,Log,OptionsHelper,Action}` | options | start-up, formatting |

**Interactions.** The mains of injector and agent call `acceptClient` in a loop;
each accepted client gets a receiver thread that calls the observers, which answer
on the client's descriptor from that same thread. In the tracker,
`InstrumentationManager` sends an inject request to the injector of the target's
bitness and then probes the agent's socket until it answers; agent requests go over
a cached socket per process. `ServiceMethodCaller` hands each call of a service
method to a single worker thread and waits for the answer with a timeout.

**What is hard.** Every native thread works on shared state with no lock that is
ever taken (`m_clients`, the handlers' `unique_lock(..., defer_lock)` objects are
never locked); descriptors are numbers the kernel reuses; a `std::vector` moves its
elements under threads that point to them; a target process may die and come back
under the same or another pid; a call may outlive its timeout; sockets may die
between two requests. `PROJECT.json` lists each hazard at its line.

**What makes each part correct.**

* socket server: a receiver serves its own client, replies reach who asked, a client that left is forgotten, no
  descriptor or thread handle is released twice;
* method caller: every call is answered in time, an interrupt hits the call that timed out, calls given up are not begun;
* thread tracing: a thread is followed once and what `followingThreads` says is true, reports are about the thread that has
  the tid now, counters are exact between resets;
* instrumentation manager, injector handler: one request at a time on a socket, a failure gives the lock back, only a process that has an
  agent is skipped;
* thread query, interceptors: a list of one enumeration, one listener per function;
* agent requests: threads share one connection to the agent that runs, unless they overlap, and a dead socket is replaced (the code never does); request framing: handlers act on what was sent, and all of it;
* client manager: the receive thread ends with the connection, the socket is closed and nobody else's is;
* method lookup: the same result with and without the cache; generators: offspring with the right length and every position from a parent, no object for a parameter of its own class;
* service metadata: the descriptions are those of the services listed, the death of a service is heard;
* fuzzer loop: no test is lost, `run` ends however often the service dies; block ids: two blocks of a module have two ids.

## 2. Modules

### Socket server: `Server`, `ClientSessions`, `ServerSessions`

`Server` models `server.cpp` as it runs in injector and agent: the acceptor thread
(`acceptClient` in the main loop) and one receiver thread per client
(`receiveTask`, `deleteClient`), sharing `m_clients`.

* **The vector** is its three pointers `begin`, `end`, `begin + room` over
  numbered heap cells; cells `begin+1 .. end` are the elements. `conn` (ghost: which
  client the element stands for), `sockfd`, `connected`, `handler` are the fields of
  a `Client` cell. `push_back` in spare room is two steps, writing the element and
  computing the new end (`Accept`), then storing it (`Commit`); so is `erase`
  (`Erase`: copy the elements down; `Shrink`: destroy the last, store the end). Between
  them other threads run, which is how an update of the end gets lost. Reallocation
  (`AcceptGrow`) copies every element into a new block, destroys the old elements and
  frees the block, which afterwards reads as it was or as zeroes. Addresses of new
  blocks are never below an older block's: cells are not reused, so a stale pointer
  never silently points into a newer block.
* **Copies.** `Client` declares a destructor, so it has no move operations: erase and
  reallocation copy, raw `std::thread*` included, and then destroy the original,
  which detaches and deletes the thread object. `handle[k]` says whether the
  `std::thread` object of receiver `k` is alive; detaching a deleted one ends the
  process, or not, if its memory looks joinable (`Destroy`).
* **Descriptors** are numbers in `Fds`; `descr` is the kernel's table. `close` frees
  the number at once and `accept` may hand it out again while the old element still
  carries it. A `recv` that is already blocked stays on its connection (`stream`).
* **Receivers**: `pc` follows `receiveTask` (`start`, `loop`, `recv`, `handle`,
  `close`) and `deleteClient` (`find`, `erase`, `shrink`). `Reply` stands for the
  observer that answers with `sendToClient`, `NoReply` for observers that do not know
  the action or a send that fails. A send to a peer that closed may raise SIGPIPE
  (no `MSG_NOSIGNAL`).
* **Peers** (external) send while they are connected, and close. A reset loses unread
  packets.
* **History.** `anomalies` notes three events: `shift` (an element was copied),
  `cross` (a receiver took another client's element), `race` (an end pointer was lost).
  Each property says which of them it excuses; nothing else ever breaks it. `strayed` remembers a reply
  that went to a client that had not asked.

Left out: copying one element is one step (a torn `m_errorMsg` string is not
modelled); observers other than the reply; `m_ip` and `m_port` are never set and are
empty everywhere; `getInternalStats`, `finish`, `sendToAllClients` and `unsubscribeAll` are not
called; `select` timeouts and failed accepts change nothing.

`ClientSessions` is what a client is promised, with no threads, vector or
descriptors: its connection is opened, requests are taken and answered one at a time,
and the session ends only after the peer left; sessions make progress. The promise
is off once the server is `upset` (an anomaly, or the process ended).
`ServerSessions` maps `Server` to it: a session is *open* while a descriptor is open on the
connection and *busy* while a receiver holds one of its requests.


### Method caller: `MethodCaller`, `TimedCalls`

`MethodCaller` models `ServiceMethodCaller.java` with the two JDK classes it is made
of. A call is a number: the k-th `submit`. A caller goes `get`, and after a timeout
`cancel`, `interrupt` (the two steps of `FutureTask.cancel(true)`: claim the state, then
interrupt the runner), `throw`. The worker goes `run` (before `FutureTask.run` looks
at the state), `method` and, when a cancel is half done, `settle`. The JDK's part (`Take`,
`Skip`, `Settle`, the task states) is external and modelled from its documented
behaviour: a task is run only in state NEW, the outcome is stored only in state NEW,
`run` waits for an interrupt that is due, the pool clears the worker's interrupt
status before each task. `callWithoutArgs` is the same control with no arguments.

`ran` counts a call as running from the moment `FutureTask.run` decided to call
it. Left out: the arguments and the result value; a shutdown of the pool (nobody calls
it). Callers are any threads: the fuzzer's loop is one, and the class holds
no assumption about their number.

`TimedCalls` is the promise: calls run one at a time, at most once, in any order;
a result is only for a call that has run; a call given up before it began never begins.

### Thread tracing: `TraceThreads`

`TraceThreads` models `trace_thread_handler.cpp` with the stalker callbacks of
`arch/*/stalker.cpp` (both architectures have the same control) and the part of
`agent_server` that matters to them.

* **Receivers** are threads of the agent's socket server, each with one request at a
  time: trace (`check` the tids against `followingThreads`, `follow` and `push` the
  missing ones), `query`, `reset`. `std::unique_lock(..., std::defer_lock)` locks nothing, so
  they all interleave.
* **`followingThreads`** is a vector: memory `slots` and an `end`. `push_back` reads the end
  when it writes the element (`Follow` keeps it in `tail`) and stores the new end later (`Push`).
* **Threads** of the target: `Transform` is the stalker compiling a block
  (`transformWhileCodeBlockEnd`), whose first call makes the thread's info, and
  `Insert` is its entry in `coverageInfoMap`; `Count`/`Write` are the two halves of
  `incCounter`. `Exit` and `Start` let a tid pass to another thread.
* **`key`** is `fridaContext->keyToCoverageInfo`: `InjectAgain` is a second
  `agent_server` in the same process (the library stays loaded). The infos of thread
  *t* are known by tid, life and key.
* **Undefined behaviour** is a choice: `Undefined(what)` notes the race and either
  goes unnoticed or ends the process; what a lost `push_back`, a lost map insertion or a
  stale counter leaves behind is modelled.

Left out: which instructions get a callout and excluded modules (block ids are `BlockIds`);
branch coverage (compiled out); the content of replies; `gum_stalker_follow` is external, and does
nothing for a tid without a thread.

### Injection: `Injection`

`Injection` models `InstrumentationManager.injectAgent` with all it calls, the
injector's handler, and the processes of the device.

* **Managers** are threads of the tracker, each with its own `InstrumentationManager` (so the
  record map is not shared); `InjectorHackAction`'s sockets and locks are static, so those are. `mpc` follows
  `injectAgent`: `check` the record, `lock`, `send`, `read`, `probe`, `put`.
* **Clocks.** `clock` is in seconds. `UpTimestamps` does what `upTimestamp` does, seconds times eight;
  `Put` stores milliseconds.
* **Requests.** `socketFor64bit` is never connected (the line is commented out), so `NoSocket` is a
  `NullPointerException` that `finally { return reply; }` swallows: a call for a 64-bit process
  goes straight to the probes. A 32-bit request is written but the injector ignores it (command 0),
  so only the end of the connection ends `read`.
* **The injector's handler** serves another client that knows its commands (`InjectAgent`); that is how a process
  gets an agent at all. It is one step: nothing the tracker sees happens in between, and its reply is success whether
  or not there is an agent now.
* **Processes** die and come back under the same pid; a dead process has no agent. `AgentListens` is the end of
  `LocalServer::startServer`.
* **`namespace`** is where the device looks up `new LocalSocketAddress(path)`, one of `PathNamespaces`. Android's default is
  `"abstract"`, and that is the code as written (`ProcessUtils.java:62`): agents bind a path (`local_server.h:19-45`), so no probe
  ever finds one, and `ProbeFinds`, `Put` and `Skip` are never taken. With `"filesystem"` line 62 asks for the path;
  everything behind a successful probe is what the code does once that line is repaired. `injection` takes both, `injection_probe`
  the code as written, and the theorems hold for both.
* **Behind the repair** waits another defect: `upTimestamp` shifts the seconds that `stat` prints left by 3 (`ProcessUtils.java:51`),
  and `injectAgent` compares them with milliseconds. Any record is newer than any process, so a process that was given
  the pid of an injected one would be skipped. `SkipsInjected` excuses such a process for that reason (`life > 1`). It is
  not a finding, because the code as written never has a record.

Left out: message fields, SELinux patching, the lapse of a second between probes (a probe may
fail while no time passes, which only adds behaviours), the race of two threads on one record map
(`Main` has one manager and one thread).

### Agent: `AgentHandlers`, `AgentSockets`

`AgentHandlers` models `query_thread_handler.cpp` and `interceptor_handler.cpp`, called by one receiver per client.

* **Thread query.** `Query` clears the shared list and starts the enumeration (Frida's, external: it reports each
  thread once), `PushThread` is the callback `getThreadBacktrace`, `BeginReply` and `Serialize` are the loop over the
  list with its end taken once, `SendReply` the end. An entry keeps which request of which receiver pushed it.
* **What a race can do.** `disturbed[r]` says that another query touched the list since `r` began. Then a push
  may be lost, an iterator may read `Garbage`, or the agent, with the process it is in, may end (`Crash`). With no
  other query about, none of that is possible, and it is not in the model either.
* **Interceptors.** `FindFunction`, then `AlreadyAttached` or `NotAttached`, `AttachListener` (Frida's transaction has its own
  lock), `Emplace` in the map. `raced` remembers that two attachments overlapped.

`AgentSockets` models `AgentHackAction` and `TraceThreadAction` on the tracker's side: `getSocketForPID` as look-up
(`TakeCached`, `FindNothing`), `Connect` and `PutSocket`, then the request and the reply. The method is
synchronized, but on the action, and each call has its own action; so the steps of two threads interleave, and `overlaps` counts the look-ups
that found nothing while another thread was between look-up and `put`. The socket of a process
that died stays in the map: nothing ever removes one. Line 33 has the abstract name of the injection's probe (see `Injection`): as
written every attempt is `CannotConnect`, which the model always allows; `Connect` and what comes after it is what the code does
once the line names the path. The request carries command 1, which is none the agent's
handlers answer, so `ReadEnds` needs the stream to end.

Left out: names and backtraces of threads, the callbacks of an attached function (they log), other pids (they have map entries of
their own), the content of replies.

### Fuzzing: `PrimitiveGenerators`, `SequenceGenerators`, `ParametersGenerator`, `Generators`, `Fuzzer`, `GenericObjects`

The sources of this part name classes the repository does not have (another package, an executor, an analyzer, test objects), so
they cannot be built from it alone. They are modelled as they are written; what the missing classes do is external and taken from its use.

* **`PrimitiveGenerators`**: a value is the set of its bits, so `&`, `|`, `^`, `~` and shifted masks are set
  operations and arithmetic wraps at `WordSize`. One record per type: `random`, `bound`, `inverse`, `delta`, `single`,
  `uniform`, each the set of the results the random numbers can lead to. The differences between the types are
  kept: characters mask with a widened byte, `LongGenerator` draws deltas with a sign, a random float is not negative.
  Floating-point arithmetic is any value.
* **`SequenceGenerators`**: `ArrayGenerator` and `StringGenerator` on sequences or null, strategy by strategy, with
  what they do to missing and empty parents. An array that should grow is filled and never returned (the `case`
  ends without `return`), so `ArrayGrown` is null.
* **`ParametersGenerator`**: values are classes ("int" is an `Integer`). What is kept is which generator serves a slot,
  what it accepts, what it throws over (a null or another class to unbox) and how the crossovers build their list:
  `AddRun` and `AddAt` are `List.add(position, element)`, which moves what is there.
* **`Generators`** is the caller: two values, drawn, mutated and crossed in any order.
* **`Fuzzer`** is `run` and `handleDeath`: `Fill`, `Take`, an execution that the service survives (`Survive`), dies of
  (`Kill`) or was dead before (`FindDead`), the restoration with its trials, `Fuzz`. The service also dies
  and is restarted on its own.
* **`GenericObjects`** is `GenericObjectGenerator.random`: a stack of calls, each with the constructors it has still to try and the
  parameters it has still to make. `marks` holds a `classSetForDeadLock` for each set in use: parameters and arrays hand theirs on, an
  array of arrays makes its elements with a new one. A constructor without parameters is passed over, because
  `ParametersGenerator` throws for it; a `StackOverflowError` ends the constructor that was tried where it is caught. `Worlds` are the
  classes and constructors that are given.

Left out: what the setters do to an object that is mutated, the analysis of a test's coverage, the order in which several slots
throw, waiting times.

### Connections: `Requests`, `ClientManager`

`Requests` is what becomes of the bytes of one connection. `receiveTask` receives into a stack buffer that it neither clears nor
ends with a NUL, and the handlers parse a C string from there, whatever size they are told.

* A text is a sequence of pieces; `Documents` are the texts that are JSON, none of which begins another: rapidjson rejects anything
  behind a document. `buffer` is what is in `msg` up to the first NUL: `Receive` lays a packet over it. A text that fills the buffer
  may go on behind it (`Strings`).
* `Takes` stands for the observers: each parses the text again, and a document is acted on by the one that has its command. A
  document without `"command"`, or without what belongs to it, fails an assertion of rapidjson, which ends the process (`Fatal`).
* `packets`, `acted` and `whole` are history: what was received, what was acted on, and whether every packet was one request.

`ClientManager` is the other end: a client object with its owner, its receive threads and the descriptors of the process. `connectTo`
is cut where the kernel or another thread can come in between (`ConnectTo`, `OpenSocket`, `Connected`, `AssignTask`): the new
thread may run before `m_receiveTask` is assigned. `terminateReceiveThread` does nothing to a thread that is joinable and throws for
one that is not. `recv` keeps the connection it was called with; `close` goes by number. `OpenForeign` is the rest of the process,
which gets the numbers that are free. `closes` counts the closes since the socket was opened: the receive thread closes it, and its owner
may do so again. Left out: a receive thread that outlives the object, `sendMsg`, which changes nothing, and addresses.

### Block ids: `BlockIds`

The number a block is counted under: on 32 bits half the address, on 64 bits half the offset in the module mixed with the hash of its
name, which is shifted by its own width. That shift is undefined; the build leaves nothing of the hash or all of it, and `shifted` is either. Modules
loaded after `initFridaContext` took its map count nothing. The mixing is a constant, `ExclusiveOr`, of which `XorAssumption` says only that
two numbers mixed with one hash stay different, as they do with `^`; `MCAgent` gives it the operator of `Bitwise`, and TLC checks the assumption. Left out: branch coverage (compiled out), the printing of counts as
signed numbers.

### Method lookup: `MethodLookup`

`findMethodExact` and `findMethodBestMatch` with their shared cache, which keeps failures as null. Keys are made of canonical names, so
null and a class without a name (an anonymous one) share a key. The best match is the first that fits, in the order of
`getDeclaredMethods`, from the class upwards; private methods of superclasses do not count. `LookupAssumption` says that
no method has a parameter whose type shares its name with another: only null, local and anonymous classes do, and no method of the
framework classes that `ServiceManagerHelper` asks about is declared with one. Left out: the variants that take types
from arguments (no state), `setAccessible`.

### Service metadata: `Services`

`parseAllServiceInfo` and `getServiceStub` with a death flag, step by step, with services that die and start in between; the
service manager names those that run, in any order. A binder is a life of a service. `GetListed` asks for a listed service: without a binder the `NullPointerException` of line 58 is not among
those that are caught, and ends the list and the tracker (`thrown`). `BinderDied` is a binder thread. Left out: the methods of a service's class, and
`init`.

## 3. Runs

| run | question | instance | why it is enough |
|---|---|---|---|
| `server_safety` | safety invariants, and that only abandoned connections are closed | 3 connections, 2 descriptors, room for 2 elements or (`Small`) for 1 growing to 2, 1 unread packet | a third connection reuses a descriptor and a cell; with room for 1 the second reallocates under the first receiver; two elements suffice for shifts, crossed receivers and lost ends (1,715,362 states) |
| `server_sessions` | the server implements `ClientSessions`; packets are received and leavers forgotten | 2 connections, room 2 | two receivers, all interleavings (12,445 states) |
| `server_abort` (violation) | serving several clients does not end the process | as above | the first of two clients leaves first |
| `server_unheard` (violation) | every packet is received | as above | two accepts before the first receiver runs |

`server.cpp` reserves 10 elements and grows by doubling; `Reserved` scales that down.
Deadlock checking is off: when the peers do nothing more, or the process has ended, the
server rightly has no step.

**Fairness** (`FairSpec`): the acceptor's internal steps and every receiver are weakly
fair, which is what the kernel's scheduler gives runnable threads; `accept` itself and the
peers owe nothing. A receiver blocked in `recv` has no enabled step, so fairness asks
nothing of it.


| run | question | instance | why it is enough |
|---|---|---|---|
| `caller` | interrupts, refinement of `TimedCalls`; every caller is answered | 2 callers, 4 calls | a call in the method, one behind it, and a later call of each caller (109,557 states) |

**Fairness**: callers and the worker are threads that the scheduler runs, so each
internal step is weakly fair. `MethodEnds` has no fairness: a service method may hang.
Nobody is obliged to call.

| run | question | instance | why it is enough |
|---|---|---|---|
| `trace_threads` | who is followed, remembered and reported | 2 receivers, 2 tids with 2 lives each, 1 block, 2 requests, counters off | two requests that overlap or follow each other, each naming one or both tids or one twice (374,529 states with symmetry) |
| `trace_counts` | exact counters, every request answered | 2 receivers, 1 tid with 2 lives, 1 block counted twice, 2 injections, 2 requests | a callout cut in two by a reset, a new thread, a new key; both receivers busy at once (138,572 states) |
| `trace_again` (violation) | the callout's assertion | 1 thread, 2 injections | trace, compile, inject, count |

`MaxRequests`, `MaxLives`, `MaxRuns` and `MaxCount` bound the behaviours; `Symmetry` permutes
receivers and tids in `trace_threads`, which checks invariants only. **Fairness**: a receiver that has a request is scheduled; clients,
threads of the target and injections owe nothing.

| run | question | instance | why it is enough |
|---|---|---|---|
| `injection` | locks, skipped processes, calls that return | 2 managers, a 32-bit and a 64-bit process with 2 lives each, 2 calls, 2 probes, 1 tick, both namespaces | two calls at once on the same or different injectors, or one after the other with a process replaced between them (292,250 states) |
| `injection_probe` (violation) | a wait that times out leaves an agent that is not ready | 1 call, no tick, the abstract namespace, as the code is written | the agent listens on its path before the last probe, which still fails |

`FirstSecond` is 100, so that 1000 times it stays a TLC integer; what the comparison depends on is
that it is positive. `WaitSeconds` is 10 in the code; with 2 the first and the last probe differ already.
**Fairness**: the threads of the tracker are scheduled; a free lock goes to some waiter, and with finitely many
calls nobody can be overtaken for ever. Clients, processes, agents and the injector itself owe nothing.

| run | question | instance | why it is enough |
|---|---|---|---|
| `agent` | replies and listeners when requests do not overlap; connections that threads of the tracker share; what handlers act on; late packets, foreign descriptors and joins of a client manager; shared counts | 2 receivers, 2 threads, 1 function, 2 requests each; 3 callers with 2 calls each, 2 agents; 3 requests of 3 to 5 pieces, a buffer for 5; 2 connections, 2 descriptors, 1 finish; 2 modules and 10 addresses, 4 executions | a second request of the same and of another receiver, overlapping or not; two callers that both find nothing and one that comes late, an agent that dies under each; requests in parts, joined, longer and shorter than the one before, one that fills the buffer; a receive thread of an earlier connection beside the new one; blocks of the same and of two modules (1,322,902 states) |

`MCAgent` chooses a part in its initial state and leaves the others alone: their states add up. **Fairness**: only the client manager
needs it, for `WaitEnds`: receive threads are scheduled, and an owner returns from a join that is over; the owner's other steps and the server owe
nothing. Deadlock checking is off: requests are bounded and a crashed agent does nothing.


| run | question | instance | why it is enough |
|---|---|---|---|
| `fuzzing` | sizes and origins of what generators make of their own results; methods fuzzed to the end, termination; objects within objects; look-ups through the cache; descriptions of services and their deaths | words of 4 bits with bytes of 2; arrays below 4, strings to 3 (kept to 5); 3 parameter types (primitive, object, box); 3 methods, 6 experiments, 2 trials; 3 classes that take one another, without arrays, with arrays and with arrays of arrays, 4 frames; 2 classes, 3 methods, 4 types, 3 look-ups; 2 services with 2 lives, 2 stubs | a byte narrower than a word, values that outgrow their size, crossovers with points in both orders, a method whose known values fit and two whose do not; a class reached again through another, an array or its own kind of array; one key for null and a nameless class, a private method of a superclass; a service that dies and comes back between any two steps (104,420 states) |

`MCFuzzing` too chooses a part. Every result of every operation is a transition, for all pairs of values reached.
The code's numbers are 8 to 64 bits and 16 for the deltas; the operations treat bits alike except the top ones, which
4 and 2 keep apart. `StringBound` cuts strings that mutation made longer than `StringMaxSize`, which the next mutation
would treat in the same way. Deadlock checking is off: `run` ends, and a string may have no result that is kept.
**Fairness**: the loop runs on the thread of `main`, whose sleeps and calls end; the service owes
nothing, it may stay dead or die again at any moment. For `DeathsHeard` the binder threads deliver the death notices that are due;
the thread that asks for stubs owes nothing.

## 4. Proofs

`ServerProofs` proves, for any number of connections, descriptors and cells:

* `TypeCorrect`: one lemma per group of actions and per part of `TypeOK`. `TypeOK` is
  inductive by itself: it carries that a pending end lies within the block and that a
  receiver that serves has a pointer.
* `HandlesCorrect` (`HandlesOwned`) and `DetachCorrect` (`NoDoubleDetach`). The strengthening `HandlesInv`
  adds that handles of connections not yet accepted exist nowhere.
* `EnoughElementsCorrect`, and from it `BackOfNonEmptyCorrect`. The argument is a count:
  an accept adds one element and one receiver, a receiver takes at most one element away and
  ends in that step. It holds through shifts, crosses and reallocations, which is why it
  is excused only by `race`. `Started` supplies that a receiver runs only for an
  accepted connection.
* `RepliesReachSenderCorrect`, `ReceiverOwnsClientCorrect`, `NothingLeftBehindCorrect`,
  `FaultsOnlyUpsetCorrect`, `ClosesOnlyAbandonedCorrect`, from the
  inductive invariant `OrderlyInv`. These properties are not inductive alone: that a receiver finds
  its own element in `deleteClient` needs that no *earlier* element has its descriptor
  number, although `close` freed that number before. The invariant therefore says that
  while no anomaly happened the elements are in order of acceptance (`ElementsInOrder`),
  that an element's descriptor is open on its client as long as its receiver has not
  closed it (`ElementsServed`), that conversely every open descriptor is served
  (`DescriptorsServed`), what the element being pushed looks like (`PendingElement`), and where
  each receiver is (`ReceiversOwn`).

* `ServerKeepsSessions`: `Spec => Sessions!Safety`, that `Server` implements the safety part of `ClientSessions` under the
  mapping `SessionOf` of `ServerSessions`. A session is mapped from descriptors and packets, its steps are taken by
  receivers; the link is `HasDescriptor`, the part of `RefinementInv` that `OrderlyInv` has not: a receiver that serves a
  connection has a descriptor open on it. With it, `SessionIsPlace` shows that a session is where its receiver is
  (`Place`): *new* before the accept, *busy* in the handler, *open* elsewhere in the loop, *ended* behind it. `StepRefines`
  then takes each group of actions: an accept opens the next session, a receiver moves its own session (`ReceiverStepped`), `close`
  ends one whose peer has left, a peer that leaves is `Leave`, any step to an anomaly or an end is `Upset`, and all
  other steps leave `session`, `gone` and `upset` alone. The receiver of connection *k* moves only session *k*, which is what
  crosses and shifts of the vector would break, so the promise is off from the first of them on.

The proofs use only the assumptions on the constants stated in `Server`.
Liveness is model-checked, the half `Progress` of `ImplementsSessions` with it. `TypeOK`, `BackOfNonEmpty` and `FaultsOnlyUpset` are proved for every
instance and so are not in a run any more.


`MethodCallerProofs` proves, for any set of callers and any number of calls:

* `TypesHold`, `TasksAwaited` (`LiveTasksAwaited`) and `InterruptsMeant` (`InterruptsOwnCall`), from one invariant. The
  strengthening `IInv` says that what was not submitted is untouched (`Fresh`), the
  queue is in order of submission and holds only calls that have not run
  (`QueueInOrder`), the worker's call is the only running one and a done task has
  run (`WorkerRuns`), and callers have different calls, all unanswered
  (`CallersWait`). `InterruptsOwnCall` needs the last: the interrupt of caller *c* hits
  the worker only while the worker runs `mine[c]`, and a task in state `interrupting`
  has a caller about to interrupt it.
* `Implementation`: `Spec => ImplementsTimedCalls`. `Submit` is `Ask`, `Invoke` is
  `Begin` (the task is `new`, so by `LiveTasksAwaited` its caller still waits),
  `MethodEnds` is `End`, the three ways to leave are `Return` or `Throw`, the rest
  stutters.

`TraceProofs` proves, for any receivers, tids, blocks and bounds:

* `TypesHold`: in particular the element that `push_back` writes lies within the vector's memory.
* `CoverageCorrect` (`CoverageOwned`) and `AssertionCorrect` (`AssertHoldsOnce`), from `ValuesKept`: a thread with compiled
  code has a value under some key, a thread that is gone has left nothing behind, and an info
  on its way into the map is the current one as long as its key is.
* `CountsCorrect`: `CountsExact`, from `CountersRead`: what a callout has read is still what the counter
  says, since only the thread itself writes its counters and a reset that interferes is excused.

* `FollowedOnceCorrect` and `FollowingCorrect` (`FollowedOnce`, `FollowingTruthful`), from `FollowInv`. Between `gum_stalker_follow`
  and `push_back` a thread is followed and not remembered, so `Remembered` counts the receiver that is about to push it.
  `OneByOne` says why a thread is not followed twice: while requests come one by one, what a request has still to look up and
  what it needs are disjoint, name no thread twice, and what it needs is not followed.

`RequestsAnswered` is liveness and is model-checked.


`InjectionProofs` proves, for any managers, processes and bounds and either namespace, `TypesHold` and `LocksCorrect`: `TypeOK` and
`LocksMatch` together are inductive. `SkipsCorrect` is the action property `SkipsInjected`, from `RecordsTold`: until a pid is
given again, a process that is recorded, or about to be, has its agent or has died. `Calls64Return` and `CallsEndWithInjector`
are liveness and are model-checked.


`AgentHandlersProofs` proves, for any receivers, threads, functions and requests:

* `ListenersCorrect` (`ListenersKnown`), from `AttachKept`: while no two attachments overlapped, one receiver at a time is between
  look-up and entry, and its function has no listener yet.
* `QueriesCorrect` (`QueriesExact`), from `ListKept`. What `QueriesExact` says of a reply is true at its end only, so the invariant
  follows the request: while it enumerates, the list has one entry of this request per thread already reported (`Listed`, a
  cardinality), and while it is serialised the reply is the beginning of the list (`Copied`). `Alone` supplies that of two requests
  under way each is disturbed.

* `BlocksHold` (`BlocksApart`). `BInv` says that what was counted was found in a module, at an aligned address, under the
  number `ShortAddress` gives it. `IdsDiffer` is the arithmetic: two even addresses have different halves; two
  multiples of four have different halves of their offsets in one module, even if its base is odd, and mixing with one hash keeps them
  apart (`XorAssumption`).

`ConnectionProofs` proves `ConnectionShared` (`SharedUnlessOverlap`) for any threads, calls and agents. The bound is not
inductive: it needs to know *who* connects. As long as no socket is cached every socket is held by a thread about to put it
in the map, so if no thread is at it there is no socket and the next look-up is the one that overlaps no other; each further one
counts as an overlap. Once a socket is cached no thread begins to connect, and those still at it only move from one
term of the sum to the other (`ConnectionsCounted`). The proof bounds all sockets; the property speaks of those open to the
agent that runs, which is what must stay true if a socket that broke is one day dropped from the map and replaced. A
replacement has to drop no socket but the one that broke: a thread that clears the entry whatever is in it may drop the socket to the
next agent, and the property fails.

`FuzzingProofs` proves four facts, for any widths, sizes, types of parameters, methods and bounds. Three are of the generators and
follow from one invariant, `GInv`: each of the two values of a caller is in `Made(kind)`, what a generator of that kind can have made.

* `NeverFarTooMany` (`ParametersRepaired`). The lemmas on `AddAt` and `AddRun` give the length of what a crossover builds:
  `SinglePointLength` and `TwoPointLength`, exactly one value per type if the points are in order, `n + (a - b) + 1` if
  not. `MutationsTyped` says what mutation makes of *any* values. `Made("parameters")` is: none, or between *n* and *2n* values.
* `ValuesOfTheirType` (`GTypeOK`). `Generates(g, W)` is what a primitive generator owes its words; there is a lemma for each
  (`ByteGenerates` ... `BooleanGenerates`), and `BuildGenerates` joins them. `CutsTyped`, `ArrayMutants`, `ArrayOffspring`, `StringMutants` and
  `StringOffspring` are the same for sequences. `GTypeOK` is not inductive: an operation on parameters that were just any sequence of classes might
  index behind the end.
* `CrossoverInherits` (`ChildrenFromParents`). `ArrayChildrenAre` and `StringChildrenAre` go through the strategies: a child is a
  beginning of one parent followed by an end of the other (`Follows`, `Starts`), or one parent laid over the other
  (`OverlaysAreChildren`), and each of these keeps elements at their places.
* `NoTestLost` (`KeepsFuzzing`). `SlotMutationsFit`: mutation of a value that fits gives values that fit, type by
  type, and so never throws. The invariant `FInv` adds that tests are well formed, that those of methods with fitting known
  values hold only fitting values, and that the queue is filled method by method.

`ReflectionProofs` proves three, for any classes, constructors, methods and services:

* `NoneOfItself` (`NotOfItself`). Without arrays there is one set, and `Plain` says that it holds exactly the classes of the calls on the
  stack, which are different, and that what each call has still to make is of none of the classes below it and at it: that is what
  `TryConstructor` checked when it chose the constructor, and the set has since lost only what was put in after it.
* `DescriptionsHold` (`DescriptionsTell`). `MInv` says what `getService` found: a service that was listed and has not died since runs
  (`ListedRun`), and the binder in hand is that of the service whose turn it is, alive unless that died (`Described`).
* `LookupsHold` (`LookupsFresh`). `CacheFresh`: every entry of the cache is what a search finds for *some* types of the names in its key.
  The best match fills two keys, and an exact failure found for other types of the same names must stand for these too:
  that needs `LookupAssumption`, that no method has a parameter whose type shares its name.

The liveness properties `FuzzingEnds` and `DeathsHeard` are model-checked.

`ConnectionProofs` proves, for any documents, buffer, connections, descriptors and bounds:

* `RequestsHeard` (`HeardUnlessShorter`) and `NothingInvented` (`MadeOfPackets`), from `Overlaid`: every piece in the buffer is from the
  last packet that reached its place, no packet is longer than what is in the buffer, and the buffer begins with the latest packet. A request
  that is no shorter than those before it is then the whole buffer; one that is shorter is the beginning of a longer
  text, and the assumption that no document begins another says that this is no document.
* `LateHolds` (`LateAtMostOne`), from `LateStops`: `stop` is never reset, and a thread that has published late finds it set.
* `ForeignHolds` (`ForeignKept`), from `OwnSocket`: until `m_sockfd` is closed it is the descriptor `connectTo` opened.

`WaitEnds` is liveness and is model-checked.

## What is only model-checked

Every invariant and every action property of the passing runs is stated by a theorem. Left to TLC is liveness, which TLAPS
does not prove under fairness: `PacketsReceivedOrderly`, `DisconnectsCleanedUp`, the half `Progress` of `ImplementsSessions`,
`EveryCallAnswered`, `RequestsAnswered`, `Calls64Return`, `CallsEndWithInjector`, `WaitEnds`, `FuzzingEnds`, `DeathsHeard`.
The runs that expect a violation show what *some* execution does, which is a matter for TLC too.

## 5. Plan

Done: the socket server, the method caller, thread tracing, injection, the agent's other handlers, both ends of a connection,
block ids, the tracker's sockets to agents, the generators with the objects they make, method lookup, service metadata and the fuzzer
loop. What would come next:

1. A refinement of the fuzzer loop and of injection by specifications of what they promise, with the step half proved as in
   `ServerProofs`.
2. Safety facts that the liveness runs rest on: in each state that is not final and not excused, some fair step is possible, for
   any constants, so that what is left to TLC is fairness alone.
3. `TraceThreads` and `AgentHandlers` on the receivers of `Server`, in place of receivers of their own: a crossed receiver would then
   answer requests of another client. The product is out of TLC's reach at the present bounds.

### Not modelled

* **Reply buffers.** `basicReply` returns a pointer into memory that was freed; what `send` then reads depends on the
  allocator, and no state of the program tells a reply that survived from one that did not. The hazard is listed without a property.
* **Binder parsing, bypass hacking**: layouts of kernel structures and one callback that maps a return value; there is no state.
* **Plumbing** (`Main`, options, paths, logging, formatting): no state after start-up.
* **Which instructions get a callout**: two `switch` statements over instruction numbers, with no state either; `BlockIds`
  takes the addresses of branches as given.
* **`Server::finish`, `sendToAllClients`, `unsubscribeAll`** and `getInternalStats`: nothing calls them.
* **Frida, rapidjson, the build files**: vendored or generated, not this program. They are most of the lines of the repository, the two copies of
  Frida's headers alone more than nine tenths.

