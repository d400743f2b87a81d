---------------------------- MODULE ClientManager ----------------------------
(* A ClientManager and the program that owns it: connectTo makes a socket and  *)
(* a thread that receives, waitResponse joins the thread, finish closes the    *)
(* socket, and the receive thread calls finish as well. The members are shared *)
(* and nothing guards them. Connections and receive threads are numbered in    *)
(* the order of connectTo.                                                     *)
EXTENDS Integers

CONSTANTS MaxConnects,  \* bounds of the model: calls of connectTo that get a socket,
          MaxPackets,   \* packets of the server per connection,
          MaxFinishes,  \* calls of finish by the owner,
          Descriptors   \* and descriptors of the process beside stdin

ASSUME ClientAssumption ==
    /\ MaxConnects \in Nat /\ MaxPackets \in Nat /\ MaxFinishes \in Nat
    /\ Descriptors \subseteq Nat \ {0}

Connection == 1..MaxConnects
Free == 0       \* a descriptor that is not open
Foreign == -1   \* or one that is somebody else's
Stdin == 0      \* what m_sockfd is before the first connectTo

VARIABLES
    sockfd, stop,   \* m_sockfd, stop
    task,           \* m_receiveTask, 0 for nullptr
    subscribed,     \* is there a subscriber
    opc,            \* where the owner is
    finishes,       \* how often it has called finish
    connects,       \* connections so far
    tpc,            \* where each receive thread is
    joinable,       \* its std::thread has not been joined
    reading,        \* the connection its recv waits for, 0 if that is not a socket
    table,          \* the descriptors of the process: the connection each is open on
    sent, unread,   \* each connection: packets the server sent, and those not received
    over,           \* the server has closed it
    late,           \* history: packets each thread published when it should have stopped
    closes,         \* history: how often m_sockfd was closed since it was opened
    terminated      \* the process is gone: std::thread has thrown where nobody
                    \* catches, or freed memory was read

members == <<sockfd, stop, task, subscribed>>
owner == <<opc, finishes, connects>>
threads == <<tpc, joinable, reading>>
server == <<sent, over>>
cvars == <<members, owner, threads, table, server, unread, late, closes, terminated>>

CInit ==
    /\ sockfd = Stdin /\ stop = FALSE /\ task = 0 /\ subscribed = FALSE
    /\ opc = "run" /\ finishes = 0 /\ connects = 0
    /\ tpc = [k \in Connection |-> "none"]
    /\ joinable = [k \in Connection |-> FALSE]
    /\ reading = [k \in Connection |-> 0]
    /\ table = [d \in Descriptors \union {Stdin} |-> IF d = Stdin THEN Foreign ELSE Free]
    /\ sent = [k \in Connection |-> 0] /\ unread = [k \in Connection |-> 0]
    /\ over = [k \in Connection |-> FALSE]
    /\ late = [k \in Connection |-> 0]
    /\ closes = 0 /\ terminated = FALSE

OwnerGoto(from, to) == ~terminated /\ opc = from /\ opc' = to
\* Nothing is said of a thread that runs longer than the object lives.
Goto(k, from, to) ==
    ~terminated /\ opc # "gone" /\ tpc[k] = from /\ tpc' = [tpc EXCEPT ![k] = to]

\* close(m_sockfd), which fails on a descriptor that is not open.
CloseSocket ==
    /\ table' = IF sockfd \in DOMAIN table THEN [table EXCEPT ![sockfd] = Free] ELSE table
    /\ closes' = closes + 1

\* terminateReceiveThread detaches a thread that is not joinable, which throws,
\* and leaves one that is.
Throws == task # 0 /\ ~joinable[task]
-----------------------------------------------------------------------------
\* The owner

\* A thread that goes through the subscribers meanwhile may read freed memory.
Publishing == \E k \in Connection : tpc[k] \in {"publish", "close"}
DisturbPublishing == terminated' \in {FALSE, Publishing}

Subscribe ==
    /\ OwnerGoto("run", "run") /\ ~subscribed
    /\ subscribed' = TRUE
    /\ DisturbPublishing
    /\ UNCHANGED <<sockfd, stop, task, finishes, connects, threads, table, server, unread, late, closes>>

UnsubscribeAll ==
    /\ OwnerGoto("run", "run") /\ subscribed
    /\ subscribed' = FALSE
    /\ DisturbPublishing
    /\ UNCHANGED <<sockfd, stop, task, finishes, connects, threads, table, server, unread, late, closes>>

\* Mutant: a client that connects again receives again.
ConnectAfresh ==
    /\ OwnerGoto("run", "socket")
    /\ connects < MaxConnects
    /\ sockfd' = Stdin /\ stop' = FALSE
    /\ UNCHANGED <<task, subscribed, finishes, connects, threads, table, server, unread, late,
                   closes, terminated>>

ConnectTo ==
    /\ OwnerGoto("run", "socket")
    /\ connects < MaxConnects
    /\ sockfd' = Stdin
    /\ UNCHANGED <<stop, task, subscribed, finishes, connects, threads, table, server, unread,
                   late, closes, terminated>>

OpenSocket(d) ==
    /\ OwnerGoto("socket", "connect")
    /\ table[d] = Free
    /\ connects' = connects + 1
    /\ table' = [table EXCEPT ![d] = connects + 1]
    /\ sockfd' = d
    /\ closes' = 0
    /\ UNCHANGED <<stop, task, subscribed, finishes, threads, server, unread, late, terminated>>

SocketFails ==
    /\ OwnerGoto("socket", "run")
    /\ sockfd' = -1
    /\ UNCHANGED <<stop, task, subscribed, finishes, connects, threads, table, server, unread,
                   late, closes, terminated>>

\* The new thread may run before m_receiveTask is assigned.
Connected ==
    /\ OwnerGoto("connect", "assign")
    /\ tpc' = [tpc EXCEPT ![connects] = "loop"]
    /\ joinable' = [joinable EXCEPT ![connects] = TRUE]
    /\ UNCHANGED <<members, finishes, connects, reading, table, server, unread, late, closes, terminated>>

\* The thread of an earlier connection is forgotten.
AssignTask ==
    /\ OwnerGoto("assign", "run")
    /\ task' = connects
    /\ UNCHANGED <<sockfd, stop, subscribed, finishes, connects, threads, table, server, unread,
                   late, closes, terminated>>

\* Mutant: a connect that fails closes the socket and keeps its number.
ConnectFailsClosing ==
    /\ OwnerGoto("connect", "run")
    /\ over' = [over EXCEPT ![connects] = TRUE]
    /\ table' = [table EXCEPT ![sockfd] = Free]
    /\ UNCHANGED <<members, finishes, connects, threads, sent, unread, late, closes, terminated>>

\* The socket stays open.
ConnectFails ==
    /\ OwnerGoto("connect", "run")
    /\ over' = [over EXCEPT ![connects] = TRUE]
    /\ UNCHANGED <<members, finishes, connects, threads, table, sent, unread, late, closes,
                   terminated>>

\* Joining a second time throws.
WaitResponse ==
    /\ task # 0
    /\ IF joinable[task]
       THEN OwnerGoto("run", "join") /\ UNCHANGED terminated
       ELSE OwnerGoto("run", "gone") /\ terminated' = TRUE
    /\ UNCHANGED <<members, finishes, connects, threads, table, server, unread, late, closes>>

Join ==
    /\ OwnerGoto("join", "run")
    /\ tpc[task] = "ended"
    /\ joinable' = [joinable EXCEPT ![task] = FALSE]
    /\ UNCHANGED <<members, finishes, connects, tpc, reading, table, server, unread, late, closes,
                   terminated>>

Finish ==
    /\ OwnerGoto("run", IF Throws THEN "gone" ELSE "close")
    /\ finishes < MaxFinishes
    /\ finishes' = finishes + 1
    /\ stop' = TRUE
    /\ terminated' = Throws
    /\ UNCHANGED <<sockfd, task, subscribed, connects, threads, table, server, unread, late, closes>>

FinishClose ==
    /\ OwnerGoto("close", "run")
    /\ CloseSocket
    /\ UNCHANGED <<members, finishes, connects, threads, server, unread, late, terminated>>

\* The destructor: its exception ends the process.
Destroy ==
    /\ OwnerGoto("run", "gone")
    /\ terminated' = Throws
    /\ UNCHANGED <<members, finishes, connects, threads, table, server, unread, late, closes>>

\* The rest of the process opens a file.
OpenForeign(d) ==
    /\ ~terminated
    /\ table[d] = Free
    /\ table' = [table EXCEPT ![d] = Foreign]
    /\ UNCHANGED <<members, owner, threads, server, unread, late, closes, terminated>>
-----------------------------------------------------------------------------
\* A receive thread

Stopped(k) ==
    /\ stop
    /\ Goto(k, "loop", "ended")
    /\ UNCHANGED <<members, owner, joinable, reading, table, server, unread, late, closes, terminated>>

\* recv looks up the descriptor, and keeps the connection until it returns.
Recv(k) ==
    /\ ~stop
    /\ Goto(k, "loop", "recv")
    /\ reading' = [reading EXCEPT ![k] =
                      IF sockfd \in DOMAIN table /\ table[sockfd] \in Connection
                      THEN table[sockfd] ELSE 0]
    /\ UNCHANGED <<members, owner, joinable, table, server, unread, late, closes, terminated>>

RecvPacket(k) ==
    /\ Goto(k, "recv", "publish")
    /\ reading[k] # 0
    /\ unread[reading[k]] > 0
    /\ unread' = [unread EXCEPT ![reading[k]] = @ - 1]
    /\ UNCHANGED <<members, owner, joinable, reading, table, server, late, closes, terminated>>

PublishServerMsg(k) ==
    /\ Goto(k, "publish", "loop")
    /\ late' = [late EXCEPT ![k] = IF stop /\ subscribed THEN @ + 1 ELSE @]
    /\ UNCHANGED <<members, owner, joinable, reading, table, server, unread, closes, terminated>>

\* The server has closed the connection, or this is no socket.
RecvEnds(k) ==
    /\ Goto(k, "recv", "close")
    /\ reading[k] # 0 => over[reading[k]] /\ unread[reading[k]] = 0
    /\ stop' = TRUE
    /\ UNCHANGED <<sockfd, task, subscribed, owner, joinable, reading, table, server, unread, late,
                   closes, terminated>>

\* Mutant: when it receives no more, the thread waits for the owner to close.
LeaveOpen(k) ==
    /\ Goto(k, "close", "close")
    /\ closes > 0
    /\ UNCHANGED <<members, owner, joinable, reading, table, server, unread, late, closes, terminated>>

\* publishServerDisconnected, and finish from the receive thread. That thread
\* is not the one that was joined, unless the owner has connected again.
ReceiverFinishes(k) ==
    /\ Goto(k, "close", "ended")
    /\ stop' = TRUE
    /\ IF Throws THEN terminated' = TRUE /\ UNCHANGED <<table, closes>>
                 ELSE UNCHANGED terminated /\ CloseSocket
    /\ UNCHANGED <<sockfd, task, subscribed, owner, joinable, reading, server, unread, late>>
-----------------------------------------------------------------------------
\* The server, which hears of a close when no thread reads either.
Established(k) == k <= connects /\ ~over[k] /\ ~(opc = "connect" /\ k = connects)

ServerSends(k) ==
    /\ Established(k)
    /\ sent[k] < MaxPackets
    /\ sent' = [sent EXCEPT ![k] = @ + 1]
    /\ unread' = [unread EXCEPT ![k] = @ + 1]
    /\ UNCHANGED <<members, owner, threads, table, over, late, closes, terminated>>

ServerCloses(k) ==
    /\ Established(k)
    /\ over' = [over EXCEPT ![k] = TRUE]
    /\ UNCHANGED <<members, owner, threads, table, sent, unread, late, closes, terminated>>

Receiver(k) == Stopped(k) \/ Recv(k) \/ RecvPacket(k) \/ PublishServerMsg(k) \/ RecvEnds(k)
               \/ ReceiverFinishes(k)

CNext ==
    \/ Subscribe \/ UnsubscribeAll \/ ConnectTo \/ SocketFails \/ Connected \/ AssignTask
    \/ ConnectFails \/ WaitResponse \/ Join \/ Finish \/ FinishClose \/ Destroy
    \/ \E d \in Descriptors : OpenSocket(d) \/ OpenForeign(d)
    \/ \E k \in Connection : Receiver(k) \/ ServerSends(k) \/ ServerCloses(k)

\* Threads are scheduled; the owner and the server do as they like, but the
\* owner returns from a join that is over.
CFairness == WF_cvars(Join) /\ \A k \in Connection : WF_cvars(Receiver(k))

CSpec == CInit /\ [][CNext]_cvars
-----------------------------------------------------------------------------
\* Once the client has stopped, by finish or because a connection ended, a
\* receive thread publishes one packet more at most, and a client that connects
\* again receives nothing: stop stays TRUE.
LateAtMostOne == \A k \in Connection : late[k] <= 1

\* close hits a descriptor of somebody else only when the socket was closed
\* before, as the receive thread does behind the owner's back, or stdin when
\* there is no socket.
ForeignKept ==
    [][\A d \in Descriptors : table[d] = Foreign /\ closes = 0 => table'[d] = Foreign]_cvars

\* waitResponse returns when the server has closed every connection, whichever
\* of them the receive thread waits for.
AllOver == \A k \in Connection : k <= connects => over[k]
WaitEnds == opc = "join" /\ AllOver ~> opc # "join" \/ terminated
=============================================================================
