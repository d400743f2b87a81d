-------------------------------- MODULE Server --------------------------------
(***************************************************************************)
(* The socket server that the injector and every injected agent run        *)
(* (tracker-native/src/tcp_client_server/server.cpp): one acceptor thread  *)
(* and one receiver thread per accepted client, sharing the unlocked       *)
(* std::vector<Client> m_clients.                                          *)
(*                                                                         *)
(* The vector is modelled with the three pointers of its implementation    *)
(* (begin, end, capacity) over numbered heap cells: the elements are the   *)
(* cells begin+1 .. end.  Client has a destructor and no move operations,  *)
(* so erase and reallocation COPY elements, raw thread handles included.   *)
(* The k-th accepted connection, its receiver thread and its std::thread   *)
(* object all have the number k.                                           *)
(***************************************************************************)
EXTENDS Integers, FiniteSets

CONSTANTS
  MaxAccepts,  \* bound: connections accepted in one behaviour
  Fds,         \* file descriptors the process can hand to connections
  Reserved,    \* m_clients.reserve(10)
  MaxCells,    \* bound: heap cells, over all blocks the vector ever owns
  MaxPackets   \* bound: unread packets of one connection

ASSUME MaxAcceptsAssumption == MaxAccepts \in Nat \ {0}
ASSUME FdsAssumption        == Fds \subseteq Nat \ {0}
ASSUME CellsAssumption      == /\ Reserved \in Nat \ {0}
                               /\ MaxCells \in Nat
                               /\ Reserved =< MaxCells
ASSUME PacketsAssumption    == MaxPackets \in Nat \ {0}

None  == 0
Conn  == 1 .. MaxAccepts
Cells == 1 .. MaxCells

VARIABLES
  begin, end, room,  \* m_clients: its elements are the cells begin+1..end
  conn,              \* heap cells: ghost, the connection a Client stands for
  sockfd, connected, \* heap cells: m_sockfd and m_isConnected
  handler,           \* heap cells: m_threadHandler
  handle,            \* std::thread objects, by the thread they stand for
  descr,             \* descriptor table: the connection a descriptor is open on
  inbox, closed,     \* peers: unread packets, connections closed by the peer
  accepted,          \* number of connections accepted so far
  apc, aend, acell,  \* acceptor: control, end read by push_back, back()
  pc, ptr, stream,   \* receivers: control, `client`, connection recv() reads
  idx, last,         \* receivers: element found and end read by erase
  aborted,           \* how the process ended, "no" while it runs
  strayed,           \* history: a reply went to a client that had not asked
  anomalies          \* history: what happened to the vector, see Orderly

cells     == <<conn, sockfd, connected, handler>>
vector    == <<begin, end, room, cells, handle>>
peers     == <<inbox, closed>>
acceptor  == <<accepted, apc, aend, acell>>
receivers == <<pc, ptr, stream, idx, last>>
history   == <<strayed, anomalies>>
vars == <<vector, descr, peers, acceptor, receivers, aborted, history>>

Live == (begin + 1) .. end

Running == aborted = "no"

(***************************************************************************)
(* Anomalies of the vector.  "shift": an element that is not the last was  *)
(* erased, or the vector was reallocated, so an element was copied.        *)
(* "cross": a receiver took m_clients.back() when that was not its own     *)
(* client.  "race": push_back or erase stored an end pointer computed      *)
(* before another thread moved it.                                         *)
(***************************************************************************)
Anomaly == {"shift", "cross", "race"}
Orderly == anomalies = {}

Note(a, cond) == anomalies' = IF cond THEN anomalies \cup {a} ELSE anomalies

AcceptorPC == {"accept", "commit", "spawn", "store"}
ReceiverPC == {"off", "start", "loop", "recv", "handle", "close", "find",
               "erase", "shrink", "done"}
HasClient  == {"loop", "recv", "handle", "close", "find", "erase"}

VectorType ==
  /\ room \in Nat \ {0} /\ begin \in Nat /\ end \in Nat
  /\ begin =< end /\ end =< begin + room /\ begin + room =< MaxCells
  /\ conn \in [Cells -> Conn \cup {None}]
  /\ sockfd \in [Cells -> Fds \cup {None}]
  /\ connected \in [Cells -> BOOLEAN]
  /\ handler \in [Cells -> Conn \cup {None}]
  /\ handle \in [Conn -> {"none", "live", "freed"}]

PeersType ==
  /\ descr \in [Fds -> Conn \cup {None}]
  /\ inbox \in [Conn -> 0 .. MaxPackets]
  /\ closed \in [Conn -> BOOLEAN]

AcceptorType ==
  /\ accepted \in 0 .. MaxAccepts
  /\ apc \in AcceptorPC
  /\ apc # "accept" => accepted # 0
  /\ aend \in Nat
  /\ apc = "commit" => aend \in (begin + 1) .. (begin + room)
  /\ acell \in 0 .. MaxCells

ReceiverType ==
  /\ pc \in [Conn -> ReceiverPC]
  /\ ptr \in [Conn -> 0 .. MaxCells]
  /\ \A t \in Conn : pc[t] \in HasClient => ptr[t] # 0
  /\ stream \in [Conn -> Conn \cup {None}]
  /\ \A t \in Conn : pc[t] = "handle" => stream[t] # None
  /\ idx \in [Conn -> 0 .. MaxCells]
  /\ last \in [Conn -> Nat]
  /\ \A t \in Conn : last[t] =< begin + room

TypeOK ==
  /\ VectorType /\ PeersType /\ AcceptorType /\ ReceiverType
  /\ aborted \in {"no", "terminate", "fault", "sigpipe"}
  /\ strayed \in BOOLEAN
  /\ anomalies \in SUBSET Anomaly

Init ==
  /\ begin = 0 /\ end = 0 /\ room = Reserved
  /\ conn = [c \in Cells |-> None]
  /\ sockfd = [c \in Cells |-> None]
  /\ connected = [c \in Cells |-> FALSE]
  /\ handler = [c \in Cells |-> None]
  /\ handle = [k \in Conn |-> "none"]
  /\ descr = [fd \in Fds |-> None]
  /\ inbox = [k \in Conn |-> 0]
  /\ closed = [k \in Conn |-> FALSE]
  /\ accepted = 0 /\ apc = "accept" /\ aend = 0 /\ acell = 0
  /\ pc = [t \in Conn |-> "off"]
  /\ ptr = [t \in Conn |-> 0]
  /\ stream = [t \in Conn |-> None]
  /\ idx = [t \in Conn |-> 0]
  /\ last = [t \in Conn |-> 0]
  /\ aborted = "no" /\ strayed = FALSE /\ anomalies = {}

-------------------------------------------------------------------------------
(* Destroying Clients: ~Client detaches and deletes the handle of each.    *)
(* detach() on an object that is no longer joinable throws inside the      *)
(* noexcept destructor (std::terminate), unless its memory was reused.     *)

HandlesOf(S) == {handler[c] : c \in S} \ {None}

Destroy(S) ==
  /\ handle' = [k \in Conn |-> IF k \in HandlesOf(S) THEN "freed" ELSE handle[k]]
  /\ IF \E k \in HandlesOf(S) : handle[k] = "freed"
     THEN aborted' \in {"no", "terminate"}
     ELSE UNCHANGED aborted

(* Mutant: the destructor forgets m_threadHandler = nullptr. *)
KeepHandler(S) == handler

(* The destructor resets the handle and leaves the rest of the cell as it was. *)
Reset(S) == [c \in Cells |-> IF c \in S THEN None ELSE handler[c]]

-------------------------------------------------------------------------------
(* The acceptor: acceptClient, called in a loop by the mains.  A timeout   *)
(* or a failed accept changes nothing.                                     *)

(* accept() succeeds and push_back constructs the element in spare room.   *)
Accept(fd) ==
  /\ Running /\ apc = "accept" /\ accepted < MaxAccepts
  /\ descr[fd] = None
  /\ end < begin + room
  /\ accepted' = accepted + 1
  /\ descr' = [descr EXCEPT ![fd] = accepted + 1]
  /\ conn' = [conn EXCEPT ![end + 1] = accepted + 1]
  /\ sockfd' = [sockfd EXCEPT ![end + 1] = fd]
  /\ connected' = [connected EXCEPT ![end + 1] = TRUE]
  /\ handler' = [handler EXCEPT ![end + 1] = None]
  /\ aend' = end + 1
  /\ apc' = "commit"
  /\ UNCHANGED <<begin, end, room, handle, peers, acell, receivers, aborted,
                 history>>

(* accept() succeeds and push_back reallocates: every element is copied to *)
(* the new block, the old ones are destroyed, their block is freed and     *)
(* reads as it was or as zeroes.                                           *)
Moved(f, freed, new) ==
  [c \in Cells |->
     IF c \in Live THEN freed[c]
     ELSE IF c \in (begin + room + 1) .. (end + room) THEN f[c - room]
     ELSE IF c = end + room + 1 THEN new ELSE f[c]]

AcceptGrow(fd) ==
  /\ Running /\ apc = "accept" /\ accepted < MaxAccepts
  /\ descr[fd] = None
  /\ end = begin + room
  /\ begin + 3 * room =< MaxCells
  /\ accepted' = accepted + 1
  /\ descr' = [descr EXCEPT ![fd] = accepted + 1]
  /\ begin' = begin + room
  /\ end' = end + room + 1
  /\ room' = 2 * room
  /\ conn' = Moved(conn, conn, accepted + 1)
  /\ handler' = Moved(handler, Reset(Live), None)
  /\ \/ /\ sockfd' = Moved(sockfd, sockfd, fd)
        /\ connected' = Moved(connected, connected, TRUE)
     \/ /\ sockfd' = Moved(sockfd, [c \in Cells |-> None], fd)
        /\ connected' = Moved(connected, [c \in Cells |-> FALSE], TRUE)
  /\ Destroy(Live)
  /\ Note("shift", TRUE)
  /\ apc' = "spawn"
  /\ UNCHANGED <<peers, aend, acell, receivers, strayed>>

(* push_back stores the end pointer it computed. *)
Commit ==
  /\ Running /\ apc = "commit"
  /\ end' = aend
  /\ Note("race", aend # end + 1)
  /\ aend' = 0
  /\ apc' = "spawn"
  /\ UNCHANGED <<begin, room, cells, handle, descr, peers, accepted, acell,
                 receivers, aborted, strayed>>

(* m_clients.back().setThreadHandler(...): new std::thread starts the      *)
(* receiver before the handle is stored in the element.                    *)
Spawn ==
  /\ Running /\ apc = "spawn"
  /\ acell' = end
  /\ handle' = [handle EXCEPT ![accepted] = "live"]
  /\ pc' = [pc EXCEPT ![accepted] = "start"]
  /\ apc' = "store"
  /\ UNCHANGED <<begin, end, room, cells, descr, peers, accepted, aend, ptr,
                 stream, idx, last, aborted, history>>

StoreHandler ==
  /\ Running /\ apc = "store"
  /\ handler' = [c \in Cells |-> IF c = acell THEN accepted ELSE handler[c]]
  /\ acell' = 0
  /\ apc' = "accept"
  /\ UNCHANGED <<begin, end, room, conn, sockfd, connected, handle, descr, peers,
                 accepted, aend, receivers, aborted, history>>

-------------------------------------------------------------------------------
(* The peers. *)

PeerSend(k) ==
  /\ Running /\ k =< accepted /\ ~closed[k] /\ inbox[k] < MaxPackets
  /\ inbox' = [inbox EXCEPT ![k] = @ + 1]
  /\ UNCHANGED <<vector, descr, closed, acceptor, receivers, aborted, history>>

PeerClose(k) ==
  /\ Running /\ k =< accepted /\ ~closed[k]
  /\ closed' = [closed EXCEPT ![k] = TRUE]
  /\ UNCHANGED <<vector, descr, inbox, acceptor, receivers, aborted, history>>

-------------------------------------------------------------------------------
(* The receivers: receiveTask and deleteClient. *)

Goto(t, from, to) == Running /\ pc[t] = from /\ pc' = [pc EXCEPT ![t] = to]

(* Client * client = &m_clients.back() *)
Bind(t) ==
  /\ Goto(t, "start", "loop")
  /\ end > begin
  /\ ptr' = [ptr EXCEPT ![t] = end]
  /\ Note("cross", conn[end] # t)
  /\ UNCHANGED <<vector, descr, peers, acceptor, stream, idx, last, aborted,
                 strayed>>

(* back() of an empty vector: the bytes before the block are not a Client. *)
BindEmpty(t) ==
  /\ Goto(t, "start", "done")
  /\ end = begin
  /\ aborted' \in {"no", "fault"}
  /\ Note("cross", TRUE)
  /\ UNCHANGED <<vector, descr, peers, acceptor, ptr, stream, idx, last, strayed>>

(* while (client->isConnected()): call recv, which resolves the descriptor *)
(* once; a blocked recv stays on that connection if another thread closes  *)
(* the descriptor.                                                         *)
CallRecv(t) ==
  /\ Goto(t, "loop", "recv")
  /\ connected[ptr[t]]
  /\ LET fd == sockfd[ptr[t]]
     IN  stream' = [stream EXCEPT ![t] = IF fd \in Fds THEN descr[fd] ELSE None]
  /\ UNCHANGED <<vector, descr, peers, acceptor, ptr, idx, last, aborted, history>>

LeaveLoop(t) ==
  /\ Goto(t, "loop", "done")
  /\ ~connected[ptr[t]]
  /\ ptr' = [ptr EXCEPT ![t] = 0]
  /\ UNCHANGED <<vector, descr, peers, acceptor, stream, idx, last, aborted,
                 history>>

(* recv returns some bytes: one or more of the packets that wait. *)
Receive(t) ==
  /\ Goto(t, "recv", "handle")
  /\ stream[t] # None
  /\ \E n \in 1 .. inbox[stream[t]] :
       inbox' = [inbox EXCEPT ![stream[t]] = @ - n]
  /\ UNCHANGED <<vector, descr, closed, acceptor, ptr, stream, idx, last, aborted,
                 history>>

(* Mutant: the answer goes to m_clients.back(). *)
ReplyToLast(t) ==
  /\ Goto(t, "handle", "loop")
  /\ \E fd \in Fds :
       /\ fd = sockfd[end] /\ descr[fd] # None
       /\ strayed' = (strayed \/ descr[fd] # stream[t])
  /\ stream' = [stream EXCEPT ![t] = None]
  /\ UNCHANGED <<vector, descr, peers, acceptor, ptr, idx, last, aborted, anomalies>>

(* publishClientMsg: an observer answers through sendToClient.             *)
(* send() has no MSG_NOSIGNAL: with the peer gone it may raise SIGPIPE.    *)
Reply(t) ==
  /\ Goto(t, "handle", "loop")
  /\ \E fd \in Fds :
       /\ fd = sockfd[ptr[t]] /\ descr[fd] # None
       /\ strayed' = (strayed \/ descr[fd] # stream[t])
       /\ aborted' \in IF closed[descr[fd]] THEN {"no", "sigpipe"} ELSE {"no"}
  /\ stream' = [stream EXCEPT ![t] = None]
  /\ UNCHANGED <<vector, descr, peers, acceptor, ptr, idx, last, anomalies>>

(* Mutant: an action nobody knows ends the receiver. *)
GiveUp(t) ==
  /\ Goto(t, "handle", "done")
  /\ stream' = [stream EXCEPT ![t] = None]
  /\ UNCHANGED <<vector, descr, peers, acceptor, ptr, idx, last, aborted, history>>

(* No observer knows the action, or send() fails with EBADF. *)
NoReply(t) ==
  /\ Goto(t, "handle", "loop")
  /\ stream' = [stream EXCEPT ![t] = None]
  /\ UNCHANGED <<vector, descr, peers, acceptor, ptr, idx, last, aborted, history>>

(* Mutants: a recv that would block counts as a disconnect; setDisconnected *)
(* closes the descriptor, which close() then does again.                    *)
DisconnectIdle(t) ==
  /\ Goto(t, "recv", "close")
  /\ connected' = [connected EXCEPT ![ptr[t]] = FALSE]
  /\ stream' = [stream EXCEPT ![t] = None]
  /\ UNCHANGED <<begin, end, room, conn, sockfd, handler, handle, descr, peers,
                 acceptor, ptr, idx, last, aborted, history>>

DisconnectClose(t) ==
  /\ Goto(t, "recv", "close")
  /\ IF stream[t] = None THEN TRUE ELSE closed[stream[t]]
  /\ connected' = [connected EXCEPT ![ptr[t]] = FALSE]
  /\ descr' = [fd \in Fds |-> IF fd = sockfd[ptr[t]] THEN None ELSE descr[fd]]
  /\ stream' = [stream EXCEPT ![t] = None]
  /\ UNCHANGED <<begin, end, room, conn, sockfd, handler, handle, peers, acceptor,
                 ptr, idx, last, aborted, history>>

(* recv returns 0 or -1: end of stream, connection reset (unread packets   *)
(* are lost) or a descriptor that is not open.                             *)
Disconnect(t) ==
  /\ Goto(t, "recv", "close")
  /\ IF stream[t] = None THEN TRUE ELSE closed[stream[t]]
  /\ connected' = [connected EXCEPT ![ptr[t]] = FALSE]
  /\ stream' = [stream EXCEPT ![t] = None]
  /\ UNCHANGED <<begin, end, room, conn, sockfd, handler, handle, descr, peers,
                 acceptor, ptr, idx, last, aborted, history>>

(* Mutants: close() is missing; the receiver also detaches its own handle. *)
NeverClose(t) ==
  /\ Goto(t, "close", "find")
  /\ UNCHANGED <<vector, descr, peers, acceptor, ptr, stream, idx, last, aborted, history>>

CloseAndDetach(t) ==
  /\ Goto(t, "close", "find")
  /\ descr' = [fd \in Fds |-> IF fd = sockfd[ptr[t]] THEN None ELSE descr[fd]]
  /\ handle' = [handle EXCEPT ![t] = "freed"]
  /\ UNCHANGED <<begin, end, room, cells, peers, acceptor, ptr, stream, idx, last,
                 aborted, history>>

(* close(client->getFileDescriptor()); observers only log. *)
CloseFd(t) ==
  /\ Goto(t, "close", "find")
  /\ descr' = [fd \in Fds |-> IF fd = sockfd[ptr[t]] THEN None ELSE descr[fd]]
  /\ UNCHANGED <<vector, peers, acceptor, ptr, stream, idx, last, aborted, history>>

(* Mutant: operator== also wants the element to be connected. *)
ConnectedMatches(t) == {c \in Live : sockfd[c] = sockfd[ptr[t]] /\ connected[c]}

(* deleteClient: the first element with the descriptor of *client (every   *)
(* m_ip is empty).                                                         *)
Matches(t) == {c \in Live : sockfd[c] = sockfd[ptr[t]]}

FindClient(t) ==
  /\ Goto(t, "find", "erase")
  /\ \E c \in Matches(t) :
       /\ \A d \in Matches(t) : c =< d
       /\ idx' = [idx EXCEPT ![t] = c]
  /\ UNCHANGED <<vector, descr, peers, acceptor, ptr, stream, last, aborted, history>>

FindNothing(t) ==
  /\ Goto(t, "find", "done")
  /\ Matches(t) = {}
  /\ ptr' = [ptr EXCEPT ![t] = 0]
  /\ UNCHANGED <<vector, descr, peers, acceptor, stream, idx, last, aborted,
                 history>>

(* erase: the elements behind the erased one are copied one place down. *)
ShiftDown(f, i) ==
  [c \in Cells |-> IF i =< c /\ c < end THEN f[c + 1] ELSE f[c]]

Erase(t) ==
  /\ Goto(t, "erase", "shrink")
  /\ idx[t] \in Live
  /\ conn' = ShiftDown(conn, idx[t])
  /\ sockfd' = ShiftDown(sockfd, idx[t])
  /\ connected' = ShiftDown(connected, idx[t])
  /\ handler' = ShiftDown(handler, idx[t])
  /\ last' = [last EXCEPT ![t] = end]
  /\ idx' = [idx EXCEPT ![t] = 0]
  /\ ptr' = [ptr EXCEPT ![t] = 0]
  /\ Note("shift", idx[t] # end)
  /\ UNCHANGED <<begin, end, room, handle, descr, peers, acceptor, stream,
                 aborted, strayed>>

(* erase: the last element is destroyed and the end pointer stored. *)
ShrinkTo(t, newEnd) ==
  /\ Goto(t, "shrink", "done")
  /\ last[t] > begin
  /\ Destroy({last[t]})
  /\ handler' = Reset({last[t]})
  /\ end' = newEnd
  /\ Note("race", end # last[t])
  /\ last' = [last EXCEPT ![t] = 0]
  /\ UNCHANGED <<begin, room, conn, sockfd, connected, descr, peers, acceptor, ptr,
                 stream, idx, strayed>>

(* Mutant: clear() in place of erase. *)
ClearClients(t) == ShrinkTo(t, begin)

Shrink(t) == ShrinkTo(t, last[t] - 1)

(* Undefined behaviour that can only crash: an iterator outside the vector *)
(* given to erase, or any use of a block that was freed.                   *)
Crash(t) ==
  /\ Running
  /\ \/ pc[t] = "erase" /\ idx[t] \notin Live
     \/ pc[t] = "shrink" /\ last[t] =< begin
     \/ pc[t] \in {"loop", "handle", "close", "find"} /\ ptr[t] =< begin
  /\ aborted' = "fault"
  /\ UNCHANGED <<vector, descr, peers, acceptor, receivers, history>>

-------------------------------------------------------------------------------
AcceptorStep == Commit \/ Spawn \/ StoreHandler

ReceiverStep(t) ==
  \/ Bind(t) \/ BindEmpty(t) \/ CallRecv(t) \/ LeaveLoop(t)
  \/ Receive(t) \/ Reply(t) \/ NoReply(t)
  \/ Disconnect(t) \/ CloseFd(t) \/ FindClient(t) \/ FindNothing(t)
  \/ Erase(t) \/ Shrink(t) \/ Crash(t)

Next ==
  \/ \E fd \in Fds : Accept(fd) \/ AcceptGrow(fd)
  \/ AcceptorStep
  \/ \E k \in Conn : PeerSend(k) \/ PeerClose(k)
  \/ \E t \in Conn : ReceiverStep(t)

Spec == Init /\ [][Next]_vars

(* The kernel schedules every thread; peers owe nothing. *)
FairSpec ==
  /\ Spec
  /\ WF_vars(AcceptorStep)
  /\ \A t \in Conn : WF_vars(ReceiverStep(t))
-------------------------------------------------------------------------------
(* Properties. *)

Owner(fd)   == descr[fd]
Elements(k) == {c \in Live : conn[c] = k}

(* A new receiver takes m_clients.back() (server.cpp:36) from a vector that *)
(* holds an element, unless a push_back and an erase overlapped.            *)
BackOfNonEmpty ==
  "race" \notin anomalies => \A t \in Conn : pc[t] = "start" => end > begin

(* The vector never holds fewer elements than there are receivers that have *)
(* not ended: whatever the order of accepts, erases and reallocations, even *)
(* when receivers erased each other's clients, a receiver costs the vector  *)
(* at most one element.  Only a lost update of the end pointer breaks this. *)
Unfinished ==
  {t \in Conn : t =< accepted /\ pc[t] # "done" /\ ~(apc = "commit" /\ t = accepted)}

EnoughElements ==
  "race" \notin anomalies => Cardinality(Unfinished) =< end - begin

(* The raw std::thread pointers of m_clients (client.h:17): as long as no   *)
(* element was copied, every handle stored in an element is alive, no two   *)
(* elements share one, and the handle the acceptor is about to store is in  *)
(* none.                                                                    *)
HandlesOwned ==
  "shift" \notin anomalies =>
    /\ \A c \in Cells : handler[c] # None => handle[handler[c]] = "live"
    /\ \A c, d \in Cells : handler[c] # None /\ handler[c] = handler[d]
                             => c = d
    /\ apc = "store" => /\ handle[accepted] = "live"
                        /\ \A c \in Cells : handler[c] # accepted

(* ~Client (client.cpp:6-12) never detaches a thread twice unless erase or  *)
(* a reallocation copied an element.                                        *)
NoDoubleDetach == aborted = "terminate" => "shift" \in anomalies

(* No receiver gives erase an iterator outside the vector or uses a freed   *)
(* block (server.cpp:39-72) unless an anomaly touched the vector: finding   *)
(* the client and erasing it are two steps, and others may come between.    *)
FaultsOnlyUpset == aborted = "fault" => ~Orderly

(* The reply to a request goes to the client that sent it (server.cpp:53):  *)
(* a receiver, an element and an open descriptor agree on the connection.   *)
RepliesReachSender == strayed => ~Orderly

(* While a receiver serves its client, the element it points to is in the   *)
(* vector and is its own, and the descriptor there is open on its client.   *)
ReceiverOwnsClient ==
  Orderly => \A t \in Conn :
    pc[t] \in {"loop", "recv", "handle", "close"} =>
      /\ ptr[t] \in Elements(t)
      /\ sockfd[ptr[t]] \in Fds
      /\ Owner(sockfd[ptr[t]]) = t
      /\ pc[t] \in {"recv", "handle"} => stream[t] = t

(* A receiver that ended leaves nothing of its client behind: no element of *)
(* the vector and no open descriptor.                                       *)
NothingLeftBehind ==
  Orderly => \A t \in Conn : pc[t] = "done" =>
    /\ Elements(t) = {}
    /\ \A fd \in Fds : Owner(fd) # t

(* The server gives up a connection only after the peer closed it: a close  *)
(* (server.cpp:48) never hits a descriptor that accept has given to another *)
(* client meanwhile.                                                        *)
ClosesOnlyAbandoned ==
  [][\A fd \in Fds : (Orderly /\ Owner(fd) # None /\ Owner(fd)' # Owner(fd))
                        => closed[Owner(fd)]]_vars

(* "Receive client packets, and notify user" (server.cpp:31-33): a packet a *)
(* client sends is read and published, unless the client goes away first.   *)
Served(k) == \/ \E t \in Conn : pc[t] = "handle" /\ stream[t] = k
             \/ closed[k]
             \/ ~Running

PacketsReceived == \A k \in Conn : inbox[k] > 0 ~> Served(k)

(* The same as long as no anomaly touched the vector. *)
PacketsReceivedOrderly == \A k \in Conn : inbox[k] > 0 ~> (Served(k) \/ ~Orderly)

(* A client that closes its connection is eventually forgotten: descriptor  *)
(* closed, element erased.                                                  *)
Forgotten(k) == Elements(k) = {} /\ \A fd \in Fds : Owner(fd) # k

DisconnectsCleanedUp ==
  \A k \in Conn : closed[k] ~> (Forgotten(k) \/ ~Orderly \/ ~Running)

(* "To handle multiple clients, user must call this function in a loop"     *)
(* (server.cpp:110-112): serving several clients does not end the process.  *)
NoAbort == aborted # "terminate"
===============================================================================
