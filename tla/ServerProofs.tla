----------------------------- MODULE ServerProofs -----------------------------
(***************************************************************************)
(* Proofs about Server, for every number of connections, descriptors,      *)
(* cells and packets.                                                      *)
(***************************************************************************)
EXTENDS ServerSessions, TLAPS, FiniteSetTheorems


Assumptions == /\ MaxAccepts \in Nat \ {0} /\ MaxPackets \in Nat \ {0}
               /\ MaxCells \in Nat /\ Reserved \in Nat \ {0} /\ Reserved =< MaxCells
               /\ Fds \subseteq Nat \ {0}

(* The assumptions on the constants, as one fact to cite.                    *)
LEMMA ConstantsOK == Assumptions
  BY CellsAssumption, MaxAcceptsAssumption, FdsAssumption, PacketsAssumption
  DEF Assumptions

-------------------------------------------------------------------------------
(* Type correctness. *)

(* The empty server (server.h:43) is well typed.                             *)
LEMMA TypeInit == Init => TypeOK
<1> USE ConstantsOK DEF Init, Assumptions
<1>1. Init => VectorType
  BY DEF VectorType
<1>2. Init => PeersType /\ AcceptorType
  BY DEF PeersType, AcceptorType, AcceptorPC
<1>3. Init => ReceiverType
  BY DEF ReceiverType, ReceiverPC, HasClient
<1> QED
  BY <1>1, <1>2, <1>3 DEF TypeOK, Anomaly

(* push_back into spare room (server.cpp:153) keeps the types.               *)
LEMMA TypeAccept ==
  ASSUME TypeOK, NEW fd \in Fds, Accept(fd)
  PROVE  TypeOK'
<1> USE DEF Accept
<1>0. accepted + 1 \in Conn
  BY ConstantsOK DEF Assumptions, TypeOK, AcceptorType, Conn
<1>1. VectorType'
  BY <1>0 DEF TypeOK, VectorType
<1>2. PeersType'
  BY <1>0 DEF TypeOK, PeersType, peers
<1>3. AcceptorType'
  BY ConstantsOK DEF Assumptions, TypeOK, VectorType, AcceptorType, AcceptorPC
<1>4. ReceiverType'
  BY DEF TypeOK, ReceiverType, receivers
<1> QED
  BY <1>1, <1>2, <1>3, <1>4 DEF TypeOK, history

(* A reallocation of m_clients (server.cpp:153) keeps the types: both blocks *)
(* stay inside the heap.                                                     *)
LEMMA TypeAcceptGrow ==
  ASSUME TypeOK, NEW fd \in Fds, AcceptGrow(fd)
  PROVE  TypeOK'
<1> USE ConstantsOK DEF Assumptions
<1>0. accepted + 1 \in Conn
  BY DEF AcceptGrow, TypeOK, AcceptorType, Conn
<1>1. ASSUME NEW S, NEW f \in [Cells -> S], NEW g \in [Cells -> S], NEW e \in S
      PROVE  Moved(f, g, e) \in [Cells -> S]
  <2> SUFFICES ASSUME NEW c \in Cells PROVE Moved(f, g, e)[c] \in S
    BY DEF Moved
  <2>1. c \in (begin + room + 1) .. (end + room) => c - room \in Cells
    BY DEF Cells, TypeOK, VectorType
  <2> QED
    BY <1>1, <2>1 DEF Moved
<1>2. conn' \in [Cells -> Conn \cup {None}]
  BY <1>0, <1>1 DEF TypeOK, VectorType, AcceptGrow
<1>3. handler' \in [Cells -> Conn \cup {None}]
  <2>1. Reset(Live) \in [Cells -> Conn \cup {None}]
    BY DEF Reset, TypeOK, VectorType
  <2> QED
    BY <1>1, <2>1 DEF TypeOK, VectorType, AcceptGrow
<1>4. sockfd' \in [Cells -> Fds \cup {None}] /\ connected' \in [Cells -> BOOLEAN]
  <2>1. /\ [c \in Cells |-> None] \in [Cells -> Fds \cup {None}]
        /\ [c \in Cells |-> FALSE] \in [Cells -> BOOLEAN]
    OBVIOUS
  <2>2. /\ Moved(sockfd, sockfd, fd) \in [Cells -> Fds \cup {None}]
        /\ Moved(sockfd, [c \in Cells |-> None], fd) \in [Cells -> Fds \cup {None}]
    BY <1>1, <2>1 DEF TypeOK, VectorType
  <2>3. /\ Moved(connected, connected, TRUE) \in [Cells -> BOOLEAN]
        /\ Moved(connected, [c \in Cells |-> FALSE], TRUE) \in [Cells -> BOOLEAN]
    BY <1>1, <2>1 DEF TypeOK, VectorType
  <2> QED
    BY <2>2, <2>3 DEF AcceptGrow
<1>5. /\ aborted' \in {"no", "terminate", "fault", "sigpipe"}
      /\ handle' \in [Conn -> {"none", "live", "freed"}]
  BY DEF AcceptGrow, Destroy, TypeOK, VectorType
<1>6. VectorType'
  BY <1>2, <1>3, <1>4, <1>5 DEF AcceptGrow, TypeOK, VectorType
<1>7. PeersType'
  BY <1>0 DEF AcceptGrow, TypeOK, PeersType, peers
<1>8. AcceptorType'
  BY DEF AcceptGrow, TypeOK, VectorType, AcceptorType, AcceptorPC
<1>9. ReceiverType'
  BY DEF AcceptGrow, TypeOK, VectorType, ReceiverType, receivers
<1> QED
  BY <1>5, <1>6, <1>7, <1>8, <1>9 DEF AcceptGrow, TypeOK, Note, Anomaly

(* The rest of acceptClient (server.cpp:153-154) keeps the types.            *)
LEMMA TypeAcceptor ==
  ASSUME TypeOK, AcceptorStep
  PROVE  TypeOK'
<1> USE ConstantsOK DEF Assumptions, TypeOK, AcceptorStep
<1>1. VectorType'
  <2>1. CASE Commit
    BY <2>1 DEF Commit, VectorType, AcceptorType, cells
  <2>2. CASE Spawn
    BY <2>2 DEF Spawn, VectorType, AcceptorType, cells
  <2>3. CASE StoreHandler
    <3>1. accepted \in Conn
      BY <2>3 DEF StoreHandler, AcceptorType, Conn
    <3> QED
      BY <2>3, <3>1 DEF StoreHandler, VectorType
  <2> QED
    BY <2>1, <2>2, <2>3
<1>2. PeersType'
  BY DEF Commit, Spawn, StoreHandler, PeersType, peers
<1>3. AcceptorType'
  BY DEF Commit, Spawn, StoreHandler, AcceptorType, AcceptorPC, VectorType
<1>4. ReceiverType'
  BY DEF Commit, Spawn, StoreHandler, ReceiverType, ReceiverPC, HasClient,
         AcceptorType, AcceptorPC, receivers
<1>5. aborted' = aborted /\ strayed' = strayed /\ anomalies' \in SUBSET Anomaly
  BY DEF Commit, Spawn, StoreHandler, history, Note, Anomaly
<1> QED
  BY <1>1, <1>2, <1>3, <1>4, <1>5

(* A peer that sends or closes keeps the types.                              *)
LEMMA TypePeer ==
  ASSUME TypeOK, NEW k \in Conn, PeerSend(k) \/ PeerClose(k)
  PROVE  TypeOK'
<1> USE DEF TypeOK, PeerSend, PeerClose
<1>1. VectorType'
  BY DEF VectorType, vector, cells
<1>2. PeersType'
  <2>1. CASE PeerSend(k)
    <3>1. inbox[k] \in 0 .. MaxPackets
      BY DEF PeersType
    <3>2. inbox[k] + 1 \in 0 .. MaxPackets
      BY <2>1, <3>1, ConstantsOK DEF Assumptions
    <3> QED
      BY <2>1, <3>2 DEF PeersType
  <2>2. CASE PeerClose(k)
    BY <2>2 DEF PeersType
  <2> QED
    BY <2>1, <2>2
<1>3. AcceptorType' /\ ReceiverType'
  BY DEF AcceptorType, ReceiverType, acceptor, receivers, vector
<1> QED
  BY <1>1, <1>2, <1>3 DEF history

(* A step of receiveTask or deleteClient keeps the vector and its cells well *)
(* typed.                                                                    *)
LEMMA VectorTypeReceiver ==
  ASSUME TypeOK, NEW t \in Conn, ReceiverStep(t)
  PROVE  VectorType'
<1> USE DEF TypeOK
<1>1. CASE Erase(t)
  <2>1. ASSUME NEW S, NEW f \in [Cells -> S], NEW i \in Nat
        PROVE  ShiftDown(f, i) \in [Cells -> S]
    <3> SUFFICES ASSUME NEW c \in Cells PROVE ShiftDown(f, i)[c] \in S
      BY DEF ShiftDown
    <3>1. c < end => c + 1 \in Cells
      BY ConstantsOK DEF Cells, VectorType, Assumptions
    <3> QED
      BY <2>1, <3>1 DEF ShiftDown
  <2>2. idx[t] \in Nat
    BY ConstantsOK DEF ReceiverType, Assumptions
  <2> QED
    BY <1>1, <2>1, <2>2 DEF Erase, VectorType
<1>2. CASE Shrink(t)
  BY <1>2, ConstantsOK DEF Shrink, ShrinkTo, Destroy, Reset, VectorType, ReceiverType, Assumptions
<1>3. CASE Disconnect(t)
  BY <1>3 DEF Disconnect, VectorType, ReceiverType
<1>4. CASE UNCHANGED vector
  BY <1>4 DEF VectorType, vector, cells
<1> QED
  BY <1>1, <1>2, <1>3, <1>4 DEF ReceiverStep, Bind, BindEmpty, CallRecv, LeaveLoop,
     Receive, Reply, NoReply, CloseFd, FindClient, FindNothing, Crash

(* A step of receiveTask or deleteClient keeps the descriptor table and the  *)
(* connections well typed.                                                   *)
LEMMA PeersTypeReceiver ==
  ASSUME TypeOK, NEW t \in Conn, ReceiverStep(t)
  PROVE  PeersType'
<1> USE DEF TypeOK
<1>1. CASE Receive(t)
  <2>1. PICK n \in 1 .. inbox[stream[t]] :
          inbox' = [inbox EXCEPT ![stream[t]] = @ - n]
    BY <1>1 DEF Receive
  <2>2. stream[t] \in Conn
    BY <1>1 DEF Receive, ReceiverType
  <2>3. inbox[stream[t]] \in 0 .. MaxPackets
    BY <2>2 DEF PeersType
  <2>4. inbox[stream[t]] - n \in 0 .. MaxPackets
    BY <2>3, ConstantsOK DEF Assumptions
  <2> QED
    BY <1>1, <2>1, <2>4 DEF Receive, PeersType
<1>2. CASE CloseFd(t)
  BY <1>2 DEF CloseFd, PeersType, peers
<1>3. CASE UNCHANGED <<descr, peers>>
  BY <1>3 DEF PeersType, peers
<1> QED
  BY <1>1, <1>2, <1>3 DEF ReceiverStep, Bind, BindEmpty, CallRecv, LeaveLoop, Reply,
     NoReply, Disconnect, FindClient, FindNothing, Erase, Shrink, ShrinkTo, Crash

(* A step of receiveTask or deleteClient keeps the control state of the      *)
(* receivers well typed.                                                     *)
LEMMA ReceiverTypeReceiver ==
  ASSUME TypeOK, NEW t \in Conn, ReceiverStep(t)
  PROVE  ReceiverType'
<1> USE ConstantsOK DEF TypeOK, Assumptions, ReceiverType, ReceiverPC, HasClient,
        VectorType, receivers, vector, Goto
<1>1. CASE Bind(t)
  BY <1>1 DEF Bind
<1>10. CASE BindEmpty(t)
  BY <1>10 DEF BindEmpty
<1>2. CASE CallRecv(t)
  BY <1>2 DEF CallRecv, PeersType
<1>3. CASE LeaveLoop(t) \/ Receive(t)
  BY <1>3 DEF LeaveLoop, Receive
<1>4. CASE Reply(t) \/ NoReply(t)
  BY <1>4 DEF Reply, NoReply
<1>5. CASE Disconnect(t) \/ CloseFd(t)
  BY <1>5 DEF Disconnect, CloseFd
<1>6. CASE FindClient(t) \/ FindNothing(t)
  BY <1>6 DEF FindClient, FindNothing, Matches, Live
<1>7. CASE Erase(t)
  BY <1>7 DEF Erase
<1>8. CASE Shrink(t)
  BY <1>8 DEF Shrink, ShrinkTo
<1>9. CASE Crash(t)
  BY <1>9 DEF Crash
<1> QED
  BY <1>1, <1>2, <1>3, <1>4, <1>5, <1>6, <1>7, <1>8, <1>9, <1>10
  DEF ReceiverStep

(* Every step of a receiver keeps the types.                                 *)
LEMMA TypeReceiver ==
  ASSUME TypeOK, NEW t \in Conn, ReceiverStep(t)
  PROVE  TypeOK'
<1> USE DEF ReceiverStep, Bind, BindEmpty, CallRecv, LeaveLoop, Receive, Reply, NoReply,
        Disconnect, CloseFd, FindClient, FindNothing, Erase, Shrink, ShrinkTo, Crash
<1>1. AcceptorType'
  BY DEF TypeOK, AcceptorType, acceptor, vector
<1>2. aborted' \in {"no", "terminate", "fault", "sigpipe"}
  BY DEF TypeOK, Destroy
<1>3. strayed' \in BOOLEAN /\ anomalies' \in SUBSET Anomaly
  BY DEF TypeOK, Note, Anomaly, history
<1> QED
  BY <1>1, <1>2, <1>3, VectorTypeReceiver, PeersTypeReceiver, ReceiverTypeReceiver
  DEF TypeOK

(* Stuttering keeps the types.                                               *)
LEMMA TypeStutter == ASSUME TypeOK, UNCHANGED vars PROVE TypeOK'
<1> USE DEF TypeOK, vars, vector, cells, peers, acceptor, receivers, history
<1>1. VectorType' /\ PeersType'
  BY DEF VectorType, PeersType
<1>2. AcceptorType' /\ ReceiverType'
  BY DEF AcceptorType, ReceiverType
<1> QED
  BY <1>1, <1>2

(* Every variable keeps its type; in particular every receiver with a       *)
(* client points to a heap cell the vector has owned (server.cpp:36), and   *)
(* the vector's pointers stay in order.                                     *)
THEOREM TypeCorrect == Spec => []TypeOK
<1>1. TypeOK /\ [Next]_vars => TypeOK'
  BY TypeAccept, TypeAcceptGrow, TypeAcceptor, TypePeer, TypeReceiver, TypeStutter
  DEF Next
<1> QED
  BY <1>1, TypeInit, PTL DEF Spec

-------------------------------------------------------------------------------
(* Thread handles.  HandlesOwned is inductive once it is known that a       *)
(* thread that was not started has no handle yet.                           *)

Unstarted(k) == accepted < k \/ (k = accepted /\ apc \in {"commit", "spawn"})

FreshHandles ==
  "shift" \notin anomalies => \A k \in Conn : Unstarted(k) => handle[k] = "none"

HandlesInv == HandlesOwned /\ FreshHandles /\ NoDoubleDetach

(* No handle exists before the first accept.                                 *)
LEMMA HandlesInit == Init => HandlesInv
  BY DEF Init, HandlesInv, HandlesOwned, FreshHandles, NoDoubleDetach, None

(* acceptClient (server.cpp:153-154) stores a fresh handle in one element.   *)
LEMMA HandlesAcceptor ==
  ASSUME TypeOK, HandlesInv,
         AcceptorStep \/ \E fd \in Fds : Accept(fd) \/ AcceptGrow(fd)
  PROVE  HandlesInv'
<1> USE DEF HandlesInv, HandlesOwned, FreshHandles, NoDoubleDetach, Unstarted
<1>1. ASSUME NEW fd \in Fds, Accept(fd) PROVE HandlesInv'
  <2>1. /\ handler' \in [Cells -> Conn \cup {None}]
        /\ \A c \in Cells : handler'[c] \in {None, handler[c]}
    BY <1>1 DEF Accept, TypeOK, VectorType, None
  <2>2. handle' = handle /\ anomalies' = anomalies /\ aborted' = aborted
    BY <1>1 DEF Accept, history
  <2>3. accepted' = accepted + 1 /\ apc' = "commit" /\ apc = "accept"
    BY <1>1 DEF Accept
  <2>4. accepted \in Nat
    BY ConstantsOK DEF TypeOK, AcceptorType, Assumptions
  <2>5. ASSUME NEW k \in Conn, Unstarted(k)' PROVE Unstarted(k)
    BY <2>3, <2>4, <2>5, ConstantsOK DEF Conn, Assumptions
  <2>6. HandlesOwned'
    BY <2>1, <2>2, <2>3
  <2> QED
    BY <2>2, <2>5, <2>6
<1>2. ASSUME NEW fd \in Fds, AcceptGrow(fd) PROVE HandlesInv'
  BY <1>2 DEF AcceptGrow, Note
<1>3. CASE Commit
  BY <1>3 DEF Commit, Note, cells
<1>4. CASE Spawn
  BY <1>4, ConstantsOK DEF Spawn, cells, history, Assumptions, TypeOK, VectorType,
     AcceptorType, Conn, None
<1>5. CASE StoreHandler
  BY <1>5, ConstantsOK DEF StoreHandler, history, Assumptions, TypeOK, VectorType,
     AcceptorType, Conn, None
<1> QED
  BY <1>1, <1>2, <1>3, <1>4, <1>5 DEF AcceptorStep

(* A receiver gives up a handle only with the element it destroys            *)
(* (server.cpp:72, client.cpp:6-12).                                         *)
LEMMA HandlesReceiver ==
  ASSUME TypeOK, HandlesInv, NEW t \in Conn, ReceiverStep(t)
  PROVE  HandlesInv'
<1> USE DEF HandlesInv, HandlesOwned, FreshHandles, NoDoubleDetach, Unstarted
<1>1. CASE Erase(t)
  <2>1. UNCHANGED <<handle, acceptor, aborted>>
    BY <1>1 DEF Erase
  <2>2. CASE idx[t] = end
    <3>1. handler' = handler
      <4>1. ASSUME NEW c \in Cells PROVE ~(end =< c /\ c < end)
        BY DEF Cells, TypeOK, VectorType
      <4> QED
        BY <1>1, <2>2, <4>1 DEF Erase, ShiftDown, TypeOK, VectorType
    <3> QED
      BY <1>1, <2>1, <2>2, <3>1 DEF Erase, Note, acceptor
  <2>3. CASE idx[t] # end
    BY <1>1, <2>1, <2>3 DEF Erase, Note, acceptor
  <2> QED
    BY <2>2, <2>3
<1>2. CASE Shrink(t)
  <2>1. last[t] \in Cells /\ UNCHANGED acceptor
    BY <1>2, ConstantsOK DEF Shrink, ShrinkTo, TypeOK, VectorType, ReceiverType, Assumptions, Cells
  <2>2. HandlesOf({last[t]}) = {handler[last[t]]} \ {None}
    BY DEF HandlesOf
  <2>3. "shift" \in anomalies' <=> "shift" \in anomalies
    BY <1>2 DEF Shrink, ShrinkTo, Note
  <2>4. CASE "shift" \in anomalies
    BY <2>3, <2>4
  <2>5. CASE "shift" \notin anomalies
    <3>1. aborted' = aborted
      BY <1>2, <2>1, <2>2, <2>5 DEF Shrink, ShrinkTo, Destroy
    <3>2. handler' = [c \in Cells |-> IF c = last[t] THEN None ELSE handler[c]]
      BY <1>2 DEF Shrink, ShrinkTo, Reset
    <3>3. handle' = [k \in Conn |-> IF k = handler[last[t]] /\ k # None
                                    THEN "freed" ELSE handle[k]]
      BY <1>2, <2>2 DEF Shrink, ShrinkTo, Destroy
    <3>4. HandlesOwned'
      <4>1. ASSUME NEW c \in Cells, handler'[c] # None
            PROVE  handler'[c] = handler[c] /\ handle'[handler'[c]] = "live"
        BY <2>1, <2>5, <3>2, <3>3, <4>1 DEF TypeOK, VectorType
      <4>2. apc = "store" => accepted \in Conn
        BY DEF TypeOK, AcceptorType, Conn
      <4>3. apc' = "store" => /\ handle'[accepted'] = "live"
                              /\ \A c \in Cells : handler'[c] # accepted'
        BY <2>1, <2>5, <3>2, <3>3, <4>2 DEF acceptor, None, Conn
      <4> QED
        BY <2>5, <4>1, <4>3
    <3>5. FreshHandles'
      BY <2>1, <2>5, <3>3 DEF acceptor
    <3> QED
      BY <3>1, <3>4, <3>5, <2>3
  <2> QED
    BY <2>4, <2>5
<1>3. CASE UNCHANGED <<handler, handle, acceptor>>
           /\ (aborted' # aborted => aborted' # "terminate")
           /\ anomalies \subseteq anomalies'
           /\ ("shift" \in anomalies' => "shift" \in anomalies)
  BY <1>3 DEF acceptor
<1> QED
  BY <1>1, <1>2, <1>3 DEF ReceiverStep, Bind, BindEmpty, CallRecv, LeaveLoop,
     Receive, Reply, NoReply, Disconnect, CloseFd, FindClient, FindNothing, Crash,
     Note, vector, cells, history

(* No step breaks the ownership of handles.                                  *)
LEMMA HandlesStep == TypeOK /\ HandlesInv /\ [Next]_vars => HandlesInv'
<1> SUFFICES ASSUME TypeOK, HandlesInv, [Next]_vars PROVE HandlesInv'
  OBVIOUS
<1>1. ASSUME NEW k \in Conn, PeerSend(k) \/ PeerClose(k) PROVE HandlesInv'
  BY <1>1 DEF PeerSend, PeerClose, HandlesInv, HandlesOwned, FreshHandles,
     NoDoubleDetach, Unstarted, vector, cells, acceptor, history
<1>2. CASE UNCHANGED vars
  BY <1>2 DEF vars, HandlesInv, HandlesOwned, FreshHandles,
     NoDoubleDetach, Unstarted, vector, cells, acceptor, history
<1> QED
  BY <1>1, <1>2, HandlesAcceptor, HandlesReceiver DEF Next

(* As long as no element was copied, handles of m_clients are alive and have *)
(* one owner (client.h:17).                                                  *)
THEOREM HandlesCorrect == Spec => []HandlesOwned
<1>1. HandlesInv => HandlesOwned
  BY DEF HandlesInv
<1> QED
  BY <1>1, HandlesStep, HandlesInit, TypeCorrect, PTL DEF Spec

(* So no thread is detached twice and the process is not terminated          *)
(* (client.cpp:6-12).                                                        *)
THEOREM DetachCorrect == Spec => []NoDoubleDetach
<1>1. HandlesInv => NoDoubleDetach
  BY DEF HandlesInv
<1> QED
  BY <1>1, HandlesStep, HandlesInit, TypeCorrect, PTL DEF Spec

-------------------------------------------------------------------------------
(* The vector always has an element for every receiver that has not ended.  *)

(* A receiver is off exactly until it is spawned. *)
Started == \A t \in Conn : pc[t] = "off" <=> Unstarted(t)

(* No receiver has started before the first accept.                          *)
LEMMA StartedInit == Init => Started
  BY ConstantsOK DEF Init, Started, Unstarted, Conn, Assumptions

(* A receiver starts only for an accepted connection (server.cpp:154).       *)
LEMMA StartedStep == ASSUME TypeOK, Started, [Next]_vars PROVE Started'
<1> USE DEF Started, Unstarted
<1>0. accepted \in Nat /\ \A t \in Conn : t \in Nat
  BY ConstantsOK DEF TypeOK, AcceptorType, Conn, Assumptions
<1>1. ASSUME NEW fd \in Fds, Accept(fd) PROVE Started'
  BY <1>0, <1>1 DEF Accept, receivers
<1>2. ASSUME NEW fd \in Fds, AcceptGrow(fd) PROVE Started'
  BY <1>0, <1>2 DEF AcceptGrow, receivers
<1>3. CASE Commit \/ StoreHandler
  BY <1>3 DEF Commit, StoreHandler, receivers
<1>4. CASE Spawn
  BY <1>0, <1>4 DEF Spawn, TypeOK, ReceiverType
<1>5. ASSUME NEW t \in Conn, ReceiverStep(t) PROVE Started'
  <2>1. UNCHANGED <<accepted, apc>>
    BY <1>5 DEF ReceiverStep, Bind, BindEmpty, CallRecv, LeaveLoop, Receive, Reply,
       NoReply, Disconnect, CloseFd, FindClient, FindNothing, Erase, Shrink, ShrinkTo, Crash,
       acceptor
  <2>2. \/ pc' = pc
        \/ \E to \in ReceiverPC \ {"off"} :
             pc[t] # "off" /\ pc' = [pc EXCEPT ![t] = to]
    BY <1>5 DEF ReceiverStep, Bind, BindEmpty, CallRecv, LeaveLoop, Receive, Reply,
       NoReply, Disconnect, CloseFd, FindClient, FindNothing, Erase, Shrink, ShrinkTo, Crash,
       receivers, Goto, ReceiverPC
  <2> QED
    BY <2>1, <2>2 DEF TypeOK, ReceiverType
<1>6. ASSUME NEW k \in Conn, PeerSend(k) \/ PeerClose(k) PROVE Started'
  BY <1>6 DEF PeerSend, PeerClose, acceptor, receivers
<1>7. CASE UNCHANGED vars
  BY <1>7 DEF vars, acceptor, receivers
<1> QED
  BY <1>1, <1>2, <1>3, <1>4, <1>5, <1>6, <1>7 DEF Next, AcceptorStep

(* Finitely many receivers have not ended.                                   *)
LEMMA UnfinishedFinite ==
  /\ IsFiniteSet(Unfinished) /\ Cardinality(Unfinished) \in Nat
  /\ \A S : S \subseteq Unfinished =>
       IsFiniteSet(S) /\ Cardinality(S) =< Cardinality(Unfinished)
<1>1. IsFiniteSet(Conn)
  BY ConstantsOK, FS_Interval DEF Conn, Assumptions
<1>2. IsFiniteSet(Unfinished)
  BY <1>1, FS_Subset DEF Unfinished
<1> QED
  BY <1>2, FS_Subset, FS_CardinalityType

(* A receiver that goes from one place to another, not ending, still counts; *)
(* one that ends does not.                                                  *)
LEMMA UnfinishedReceiver ==
  ASSUME TypeOK, Started, NEW t \in Conn, NEW from \in ReceiverPC, NEW to \in ReceiverPC,
         from \notin {"off", "done"}, Goto(t, from, to), UNCHANGED <<accepted, apc>>
  PROVE  IF to = "done"
         THEN Cardinality(Unfinished') = Cardinality(Unfinished) - 1
         ELSE Unfinished' = Unfinished
<1>1. t \in Unfinished
  BY DEF Started, Unstarted, Unfinished, Goto, TypeOK, AcceptorType, Conn
<1>2. CASE to = "done"
  <2>1. Unfinished' = Unfinished \ {t}
    BY <1>2 DEF Unfinished, Goto, TypeOK, ReceiverType
  <2> QED
    BY <1>1, <1>2, <2>1, UnfinishedFinite, FS_RemoveElement
<1>3. CASE to # "done"
  BY <1>1, <1>3 DEF Unfinished, Goto, TypeOK, ReceiverType
<1> QED
  BY <1>2, <1>3

(* The empty vector has enough elements for no receiver.                     *)
LEMMA EnoughInit == Init => EnoughElements
<1>1. Init => Unfinished = {}
  BY ConstantsOK DEF Init, Unfinished, Conn, Assumptions
<1> QED
  BY <1>1, FS_EmptySet DEF Init, EnoughElements

(* acceptClient adds one element and one receiver (server.cpp:153-154).      *)
LEMMA EnoughAcceptor ==
  ASSUME TypeOK, Started, EnoughElements,
         AcceptorStep \/ \E fd \in Fds : Accept(fd) \/ AcceptGrow(fd)
  PROVE  EnoughElements'
<1>0. /\ accepted \in Nat /\ begin \in Nat /\ end \in Nat /\ room \in Nat
      /\ \A t \in Conn : t \in Nat
  BY ConstantsOK DEF TypeOK, AcceptorType, VectorType, Conn, Assumptions
<1>1. ASSUME NEW fd \in Fds, Accept(fd) PROVE EnoughElements'
  <2>1. Unfinished' = Unfinished
    BY <1>0, <1>1 DEF Accept, receivers, Unfinished
  <2> QED
    BY <1>1, <2>1 DEF Accept, EnoughElements, history
<1>2. ASSUME NEW k \in Conn, k \notin Unfinished, Unfinished' = Unfinished \cup {k},
             "race" \notin anomalies' => "race" \notin anomalies,
             "race" \notin anomalies' => end' - begin' = end - begin + 1
      PROVE  EnoughElements'
  <2>1. Cardinality(Unfinished') = Cardinality(Unfinished) + 1
    BY <1>2, UnfinishedFinite, FS_AddElement
  <2> QED
    BY <1>0, <1>2, <2>1, UnfinishedFinite DEF EnoughElements
<1>3. ASSUME NEW fd \in Fds, AcceptGrow(fd) PROVE EnoughElements'
  <2>1. accepted + 1 \in Conn
    BY <1>3, ConstantsOK DEF AcceptGrow, Conn, TypeOK, AcceptorType, Assumptions
  <2>2. pc[accepted + 1] = "off" /\ pc' = pc
    BY <1>0, <1>3, <2>1 DEF AcceptGrow, Started, Unstarted, receivers
  <2>3. Unfinished' = Unfinished \cup {accepted + 1}
    BY <1>0, <1>3, <2>1, <2>2 DEF AcceptGrow, Unfinished
  <2>4. accepted + 1 \notin Unfinished
    BY <1>0 DEF Unfinished
  <2>5. end' - begin' = end - begin + 1
    BY <1>0, <1>3 DEF AcceptGrow
  <2>6. "race" \notin anomalies' => "race" \notin anomalies
    BY <1>3 DEF AcceptGrow, Note
  <2> QED
    BY <1>2, <2>1, <2>3, <2>4, <2>5, <2>6
<1>4. CASE Commit
  <2>1. accepted \in Conn
    BY <1>4, ConstantsOK DEF Commit, Conn, TypeOK, AcceptorType, Assumptions
  <2>2. pc[accepted] = "off" /\ pc' = pc
    BY <1>4, <2>1 DEF Commit, Started, Unstarted, receivers
  <2>3. Unfinished' = Unfinished \cup {accepted}
    BY <1>0, <1>4, <2>1, <2>2 DEF Commit, Unfinished
  <2>4. accepted \notin Unfinished
    BY <1>4 DEF Commit, Unfinished
  <2>5. "race" \notin anomalies' => end' - begin' = end - begin + 1
    BY <1>0, <1>4 DEF Commit, Note
  <2>6. "race" \notin anomalies' => "race" \notin anomalies
    BY <1>4 DEF Commit, Note
  <2> QED
    BY <1>2, <2>1, <2>3, <2>4, <2>5, <2>6
<1>5. CASE Spawn
  <2>1. accepted \in Conn /\ pc[accepted] = "off"
    BY <1>5, ConstantsOK
    DEF Spawn, Started, Unstarted, Conn, TypeOK, AcceptorType, Assumptions
  <2>2. Unfinished' = Unfinished
    BY <1>5, <2>1 DEF Spawn, Unfinished, TypeOK, ReceiverType
  <2> QED
    BY <1>5, <2>2 DEF Spawn, EnoughElements, history
<1>6. CASE StoreHandler
  <2>1. Unfinished' = Unfinished
    BY <1>6 DEF StoreHandler, Unfinished, receivers
  <2> QED
    BY <1>6, <2>1 DEF StoreHandler, EnoughElements, history
<1> QED
  BY <1>1, <1>3, <1>4, <1>5, <1>6 DEF AcceptorStep

(* deleteClient removes one element and ends its receiver                    *)
(* (server.cpp:63-76).                                                       *)
LEMMA EnoughReceiver ==
  ASSUME TypeOK, Started, EnoughElements, NEW t \in Conn, ReceiverStep(t)
  PROVE  EnoughElements'
<1> USE DEF EnoughElements
<1>0. /\ begin \in Nat /\ end \in Nat
      /\ UNCHANGED <<accepted, apc, begin>>
  BY DEF TypeOK, VectorType, ReceiverStep, Bind, BindEmpty, CallRecv, LeaveLoop, Receive,
     Reply, NoReply, Disconnect, CloseFd, FindClient, FindNothing, Erase, Shrink, ShrinkTo, Crash,
     acceptor, vector
<1>1. CASE Shrink(t)
  <2>1. Cardinality(Unfinished') = Cardinality(Unfinished) - 1
    BY <1>0, <1>1, UnfinishedReceiver DEF Shrink, ShrinkTo, ReceiverPC
  <2>2. "race" \notin anomalies' => "race" \notin anomalies /\ end' = end - 1
    BY <1>1 DEF Shrink, ShrinkTo, Note
  <2> QED
    BY <1>0, <2>1, <2>2, UnfinishedFinite
<1>2. CASE BindEmpty(t) \/ LeaveLoop(t) \/ FindNothing(t)
  <2>1. PICK from \in {"start", "loop", "find"} : Goto(t, from, "done")
    BY <1>2 DEF BindEmpty, LeaveLoop, FindNothing
  <2>2. Cardinality(Unfinished') = Cardinality(Unfinished) - 1
    BY <1>0, <2>1, UnfinishedReceiver DEF ReceiverPC
  <2>3. end' = end /\ ("race" \notin anomalies' => "race" \notin anomalies)
    BY <1>2 DEF BindEmpty, LeaveLoop, FindNothing, vector, history, Note
  <2> QED
    BY <1>0, <2>2, <2>3, UnfinishedFinite
<1>3. ASSUME end' = end, "race" \notin anomalies' => "race" \notin anomalies,
             Unfinished' = Unfinished
      PROVE  EnoughElements'
  BY <1>0, <1>3
<1>4. CASE Crash(t)
  <2>1. Unfinished' = Unfinished
    BY <1>0, <1>4 DEF Crash, Unfinished, receivers
  <2> QED
    BY <1>3, <1>4, <2>1 DEF Crash, vector, history
<1>5. CASE \/ Bind(t) \/ CallRecv(t) \/ Receive(t) \/ Reply(t) \/ NoReply(t)
           \/ Disconnect(t) \/ CloseFd(t) \/ FindClient(t) \/ Erase(t)
  <2>1. PICK from \in ReceiverPC \ {"off", "done"}, to \in ReceiverPC \ {"done"} :
          Goto(t, from, to)
    BY <1>5 DEF ReceiverPC, Bind, CallRecv, Receive, Reply, NoReply, Disconnect,
       CloseFd, FindClient, Erase
  <2>2. Unfinished' = Unfinished
    BY <1>0, <2>1, UnfinishedReceiver
  <2>3. end' = end /\ ("race" \notin anomalies' => "race" \notin anomalies)
    BY <1>5 DEF Bind, CallRecv, Receive, Reply, NoReply, Disconnect, CloseFd,
       FindClient, Erase, vector, history, Note
  <2> QED
    BY <1>3, <2>2, <2>3
<1> QED
  BY <1>1, <1>2, <1>4, <1>5 DEF ReceiverStep

(* In every behaviour without a lost update of the end pointer the vector    *)
(* has an element for each receiver that has not ended, so a new receiver    *)
(* finds a last element to take (server.cpp:36).                             *)
THEOREM EnoughElementsCorrect == Spec => []EnoughElements
<1>1. TypeOK /\ Started /\ EnoughElements /\ [Next]_vars => EnoughElements'
  <2> SUFFICES ASSUME TypeOK, Started, EnoughElements, [Next]_vars
               PROVE  EnoughElements'
    OBVIOUS
  <2>1. ASSUME NEW k \in Conn, PeerSend(k) \/ PeerClose(k) PROVE EnoughElements'
    BY <2>1 DEF PeerSend, PeerClose, EnoughElements, Unfinished, vector, acceptor,
       receivers, history
  <2>2. CASE UNCHANGED vars
    BY <2>2 DEF vars, EnoughElements, Unfinished, vector, acceptor, receivers, history
  <2> QED
    BY <2>1, <2>2, EnoughAcceptor, EnoughReceiver DEF Next
<1> QED
  BY <1>1, EnoughInit, StartedInit, StartedStep, TypeCorrect, PTL DEF Spec

(* m_clients.back() (server.cpp:36) is never taken from an empty vector      *)
(* unless an update of its end was lost.                                     *)
THEOREM BackOfNonEmptyCorrect == Spec => []BackOfNonEmpty
<1>1. TypeOK /\ Started /\ EnoughElements => BackOfNonEmpty
  <2> SUFFICES ASSUME TypeOK, Started, EnoughElements, "race" \notin anomalies,
                      NEW t \in Conn, pc[t] = "start"
               PROVE  end > begin
    BY DEF BackOfNonEmpty
  <2>1. t \in Unfinished
    BY DEF Started, Unstarted, Unfinished, TypeOK, AcceptorType, Conn
  <2>2. {t} \subseteq Unfinished /\ Cardinality({t}) = 1
    BY <2>1, FS_Singleton
  <2>3. 1 =< Cardinality(Unfinished)
    BY <2>2, UnfinishedFinite
  <2> QED
    BY <2>3, UnfinishedFinite DEF EnoughElements, TypeOK, VectorType
<1> QED
  BY <1>1, EnoughElementsCorrect, StartedInit, StartedStep, TypeCorrect, PTL DEF Spec

-------------------------------------------------------------------------------
(* Sessions.  While no anomaly has touched the vector, its elements are the *)
(* clients that have not left, in the order they were accepted, and each    *)
(* receiver works on the element, the descriptor and the connection of its  *)
(* own client.                                                              *)

(* Connections are numbered as accepted; a connection has one descriptor. *)
Numbered ==
  /\ \A c \in Cells : conn[c] =< accepted
  /\ \A fd \in Fds : descr[fd] =< accepted
  /\ \A fd, gd \in Fds : descr[fd] = descr[gd] /\ descr[fd] # None => fd = gd

Reads(k)   == pc[k] \in {"off", "start", "loop", "recv", "handle"}
Serves(k)  == Reads(k) \/ pc[k] = "close"

ElementsInOrder == \A c, d \in Live : c < d => conn[c] < conn[d]

ElementsServed ==
  \A c \in Live :
    /\ conn[c] # None /\ pc[conn[c]] # "done"
    /\ Serves(conn[c]) => sockfd[c] \in Fds /\ descr[sockfd[c]] = conn[c]
    /\ Reads(conn[c]) => connected[c]

DescriptorsServed == \A fd \in Fds : descr[fd] # None => Serves(descr[fd])

(* The element push_back has constructed and not yet added. *)
PendingElement ==
  apc = "commit" =>
    /\ \A c \in Live : conn[c] < accepted
    /\ aend > end /\ conn[aend] = accepted /\ connected[aend]
    /\ sockfd[aend] \in Fds /\ descr[sockfd[aend]] = accepted

ReceiversOwn ==
  \A t \in Conn :
    /\ pc[t] \in HasClient => ptr[t] \in Live /\ conn[ptr[t]] = t
    /\ pc[t] = "erase" => begin < idx[t] /\ idx[t] =< ptr[t]
    /\ pc[t] = "shrink" => last[t] \in Live /\ conn[last[t]] = t
    /\ pc[t] \in {"recv", "handle"} => stream[t] = t
    /\ pc[t] = "close" => closed[t]

OrderlyInv ==
  Orderly => /\ ElementsInOrder /\ ElementsServed /\ DescriptorsServed
             /\ PendingElement /\ ReceiversOwn /\ ~strayed

(* accept and close (server.cpp:143, 48) keep elements and descriptors on    *)
(* connections accepted so far.                                              *)
LEMMA NumberedStep == ASSUME TypeOK, Numbered, [Next]_vars PROVE Numbered'
<1> USE DEF Numbered
<1>0. /\ accepted \in Nat /\ begin \in Nat /\ end \in Nat /\ room \in Nat
      /\ \A fd \in Fds : descr[fd] \in Nat
      /\ \A c \in Cells : conn[c] \in Nat
  BY ConstantsOK DEF TypeOK, AcceptorType, VectorType, PeersType, Conn, None, Assumptions
<1>1. ASSUME NEW fd \in Fds, Accept(fd) PROVE Numbered'
  <2>1. /\ \A c \in Cells : conn'[c] \in {conn[c], accepted + 1}
        /\ \A gd \in Fds : descr'[gd] = IF gd = fd THEN accepted + 1 ELSE descr[gd]
    BY <1>1 DEF Accept, TypeOK, VectorType, PeersType
  <2> QED
    BY <1>0, <1>1, <2>1 DEF Accept, None
<1>2. ASSUME NEW fd \in Fds, AcceptGrow(fd) PROVE Numbered'
  <2>1. \A gd \in Fds : descr'[gd] = IF gd = fd THEN accepted + 1 ELSE descr[gd]
    BY <1>2 DEF AcceptGrow, TypeOK, PeersType
  <2>2. ASSUME NEW c \in Cells PROVE conn'[c] =< accepted + 1
    <3>1. c \in (begin + room + 1) .. (end + room) => c - room \in Cells
      BY <1>0, ConstantsOK DEF Cells, TypeOK, VectorType, Assumptions
    <3> QED
      BY <1>0, <1>2, <3>1 DEF AcceptGrow, Moved
  <2> QED
    BY <1>0, <1>2, <2>1, <2>2 DEF AcceptGrow, None
<1>3. CASE AcceptorStep
  BY <1>3 DEF AcceptorStep, Commit, Spawn, StoreHandler, cells
<1>4. ASSUME NEW t \in Conn, Erase(t) PROVE Numbered'
  <2>1. ASSUME NEW c \in Cells PROVE conn'[c] =< accepted
    <3>1. c < end => c + 1 \in Cells
      BY <1>0, ConstantsOK DEF Cells, Assumptions, TypeOK, VectorType
    <3> QED
      BY <1>4, <3>1 DEF Erase, ShiftDown
  <2> QED
    BY <1>4, <2>1 DEF Erase, acceptor
<1>5. ASSUME NEW t \in Conn, CloseFd(t) PROVE Numbered'
  BY <1>0, <1>5 DEF CloseFd, vector, cells, acceptor, None
<1>6. CASE UNCHANGED <<conn, descr, accepted>>
  BY <1>6
<1>7. ASSUME NEW t \in Conn, ReceiverStep(t), ~Erase(t), ~CloseFd(t)
      PROVE  UNCHANGED <<conn, descr, accepted>>
  BY <1>7 DEF ReceiverStep, Bind, BindEmpty, CallRecv, LeaveLoop, Receive, Reply, NoReply,
     Disconnect, FindClient, FindNothing, Shrink, ShrinkTo, Crash, vector, cells, acceptor
<1>8. ASSUME NEW k \in Conn, PeerSend(k) \/ PeerClose(k)
      PROVE  UNCHANGED <<conn, descr, accepted>>
  BY <1>8 DEF PeerSend, PeerClose, vector, cells, acceptor
<1>9. CASE UNCHANGED vars
  BY <1>9 DEF vars, vector, cells, acceptor
<1> QED
  BY <1>1, <1>2, <1>3, <1>4, <1>5, <1>6, <1>7, <1>8, <1>9 DEF Next

(* The empty server serves no client.                                        *)
LEMMA SessionsInit == Init => Numbered /\ OrderlyInv
<1>1. Init => Numbered
  BY ConstantsOK DEF Init, Numbered, None, Assumptions
<1>2. Init => Live = {}
  BY DEF Init, Live
<1>3. Init => OrderlyInv
  BY <1>2 DEF Init, OrderlyInv, ElementsInOrder, ElementsServed, DescriptorsServed,
     PendingElement, ReceiversOwn, HasClient
<1> QED
  BY <1>1, <1>3

SessionsInv == TypeOK /\ Started /\ Numbered /\ OrderlyInv

(* The consequences of the types that the session lemmas use.                *)
LEMMA SessionTypes ==
  ASSUME TypeOK
  PROVE  /\ accepted \in Nat /\ begin \in Nat /\ end \in Nat /\ room \in Nat
         /\ aend \in Nat
         /\ \A fd \in Fds : descr[fd] \in Nat
         /\ \A c \in Cells : conn[c] \in Nat
         /\ \A t \in Conn : t \in Nat /\ t # None
         /\ Live \subseteq Cells
         /\ end < begin + room => end + 1 \in Cells
         /\ end + 1 \notin Live
<1>1. /\ accepted \in Nat /\ begin \in Nat /\ end \in Nat /\ room \in Nat /\ aend \in Nat
      /\ end =< begin + room /\ begin + room =< MaxCells /\ MaxCells \in Nat
  BY ConstantsOK DEF TypeOK, AcceptorType, VectorType, Assumptions
<1>2. \A t \in Conn : t \in Nat /\ t # None
  BY DEF Conn, None
<1>3. /\ \A fd \in Fds : descr[fd] \in Nat
      /\ \A c \in Cells : conn[c] \in Nat
  BY <1>2 DEF TypeOK, PeersType, VectorType, None
<1>4. /\ Live \subseteq Cells /\ end + 1 \notin Live
      /\ end < begin + room => end + 1 \in Cells
  BY <1>1 DEF Live, Cells
<1> QED
  BY <1>1, <1>2, <1>3, <1>4

(* An accepted client (server.cpp:143-153) disturbs no session.              *)
LEMMA OrderlyAccept ==
  ASSUME SessionsInv, NEW fd \in Fds, Accept(fd)
  PROVE  OrderlyInv'
<1> SUFFICES ASSUME Orderly' PROVE
      /\ ElementsInOrder' /\ ElementsServed' /\ DescriptorsServed'
      /\ PendingElement' /\ ReceiversOwn' /\ ~strayed'
  BY DEF OrderlyInv
<1> USE DEF SessionsInv
<1>1. Orderly
  BY DEF Accept, Orderly, history
<1>2. /\ UNCHANGED <<begin, end, room, pc, ptr, idx, last, stream, closed, strayed>>
      /\ Live' = Live
      /\ \A c \in Live : conn'[c] = conn[c] /\ sockfd'[c] = sockfd[c]
                         /\ connected'[c] = connected[c]
      /\ \A gd \in Fds : descr'[gd] = IF gd = fd THEN accepted + 1 ELSE descr[gd]
  BY SessionTypes DEF Accept, TypeOK, VectorType, PeersType, Live, receivers, peers, history
<1>3. /\ aend' = end + 1 /\ accepted' = accepted + 1
      /\ end + 1 \in Cells
      /\ conn'[end + 1] = accepted + 1 /\ sockfd'[end + 1] = fd /\ connected'[end + 1]
  BY SessionTypes DEF Accept, TypeOK, VectorType
<1>4. accepted + 1 \in Conn /\ pc[accepted + 1] = "off"
  BY SessionTypes, ConstantsOK DEF Accept, Conn, Assumptions, Started, Unstarted
<1>5. ElementsInOrder'
  BY <1>1, <1>2 DEF OrderlyInv, ElementsInOrder
<1>6. ElementsServed'
  BY <1>1, <1>2, SessionTypes DEF OrderlyInv, ElementsServed, Accept, Serves, Reads
<1>7. DescriptorsServed'
  BY <1>1, <1>2, <1>4 DEF OrderlyInv, DescriptorsServed, Serves, Reads
<1>8. PendingElement'
  BY <1>1, <1>2, <1>3, SessionTypes DEF PendingElement, Numbered
<1>9. ReceiversOwn'
  BY <1>1, <1>2, SessionTypes DEF OrderlyInv, ReceiversOwn
<1> QED
  BY <1>1, <1>2, <1>5, <1>6, <1>7, <1>8, <1>9 DEF OrderlyInv

(* The end pointer stored by push_back (server.cpp:153) adds the pending     *)
(* element behind the others.                                                *)
LEMMA OrderlyCommit == ASSUME SessionsInv, Commit PROVE OrderlyInv'
<1> SUFFICES ASSUME Orderly' PROVE
      /\ ElementsInOrder' /\ ElementsServed' /\ DescriptorsServed'
      /\ PendingElement' /\ ReceiversOwn' /\ ~strayed'
  BY DEF OrderlyInv
<1> USE DEF SessionsInv
<1>1. Orderly /\ aend = end + 1
  BY DEF Commit, Orderly, Note
<1>2. /\ UNCHANGED <<begin, room, conn, sockfd, connected, pc, ptr, idx, last, stream,
                     closed, descr, accepted, strayed>>
      /\ apc' = "spawn" /\ apc = "commit"
  BY DEF Commit, cells, receivers, peers
<1>3. Live' = Live \cup {end + 1}
  BY <1>1, <1>2, SessionTypes DEF Commit, Live, TypeOK, VectorType
<1>4. accepted \in Conn /\ pc[accepted] = "off"
  BY <1>2, SessionTypes, ConstantsOK
  DEF Started, Unstarted, Conn, Assumptions, TypeOK, AcceptorType
<1>5. PendingElement
  BY <1>1 DEF OrderlyInv
<1>6. ElementsInOrder'
  BY <1>1, <1>2, <1>3, <1>5, SessionTypes DEF OrderlyInv, ElementsInOrder, PendingElement,
     Live
<1>7. ElementsServed'
  BY <1>1, <1>2, <1>3, <1>4, <1>5, SessionTypes
  DEF OrderlyInv, ElementsServed, PendingElement, Serves, Reads
<1>8. DescriptorsServed' /\ PendingElement'
  BY <1>1, <1>2 DEF OrderlyInv, DescriptorsServed, PendingElement, Serves, Reads
<1>9. ReceiversOwn'
  BY <1>1, <1>2, <1>3 DEF OrderlyInv, ReceiversOwn
<1> QED
  BY <1>1, <1>2, <1>6, <1>7, <1>8, <1>9 DEF OrderlyInv

(* A new receiver (server.cpp:154) starts with its own element as the last   *)
(* one.                                                                      *)
LEMMA OrderlySpawn == ASSUME SessionsInv, Spawn \/ StoreHandler PROVE OrderlyInv'
<1> SUFFICES ASSUME Orderly' PROVE
      /\ ElementsInOrder' /\ ElementsServed' /\ DescriptorsServed'
      /\ PendingElement' /\ ReceiversOwn' /\ ~strayed'
  BY DEF OrderlyInv
<1> USE DEF SessionsInv
<1>1. /\ Orderly
      /\ UNCHANGED <<begin, end, conn, sockfd, connected, ptr, idx, last, stream,
                     closed, descr, accepted, strayed>>
      /\ apc' # "commit" /\ Live' = Live
  BY DEF Spawn, StoreHandler, cells, receivers, peers, history, Orderly, Live
<1>2. \A t \in Conn : \/ pc'[t] = pc[t]
                      \/ pc[t] = "off" /\ pc'[t] = "start"
  BY ConstantsOK DEF Spawn, StoreHandler, receivers, TypeOK, ReceiverType, AcceptorType,
     Started, Unstarted, Conn, Assumptions
<1>3. \A t \in Conn : /\ Serves(t)' <=> Serves(t)
                      /\ Reads(t)' <=> Reads(t)
                      /\ pc'[t] = "done" <=> pc[t] = "done"
  BY <1>2 DEF Serves, Reads
<1>4. \A c \in Live : conn[c] # None => conn[c] \in Conn
  BY SessionTypes DEF TypeOK, VectorType
<1>5. ElementsInOrder' /\ ElementsServed'
  BY <1>1, <1>3, <1>4 DEF OrderlyInv, ElementsInOrder, ElementsServed
<1>6. DescriptorsServed' /\ PendingElement'
  BY <1>1, <1>3 DEF OrderlyInv, DescriptorsServed, PendingElement, TypeOK, PeersType
<1>7. ReceiversOwn'
  BY <1>1, <1>2 DEF OrderlyInv, ReceiversOwn, HasClient
<1> QED
  BY <1>1, <1>5, <1>6, <1>7 DEF OrderlyInv

(* What ReceiversOwn says of one receiver. *)
Owns(t) ==
  /\ pc[t] \in HasClient => ptr[t] \in Live /\ conn[ptr[t]] = t
  /\ pc[t] = "erase" => begin < idx[t] /\ idx[t] =< ptr[t]
  /\ pc[t] = "shrink" => last[t] \in Live /\ conn[last[t]] = t
  /\ pc[t] \in {"recv", "handle"} => stream[t] = t
  /\ pc[t] = "close" => closed[t]

(* A step of a receiver that changes only its own place and locals, and     *)
(* neither begins nor stops to serve its client.                            *)
LEMMA OrderlyLocal ==
  ASSUME SessionsInv, NEW t \in Conn, Orderly,
         UNCHANGED <<begin, end, conn, sockfd, connected, closed, descr, accepted,
                     apc, aend, strayed>>,
         \A u \in Conn : u # t => /\ pc'[u] = pc[u] /\ ptr'[u] = ptr[u]
                                  /\ stream'[u] = stream[u] /\ idx'[u] = idx[u]
                                  /\ last'[u] = last[u],
         Serves(t)' <=> Serves(t), Reads(t)' <=> Reads(t), pc'[t] # "done",
         Owns(t)'
  PROVE  OrderlyInv'
<1> USE DEF SessionsInv
<1>1. Live' = Live
  BY DEF Live
<1>2. \A u \in Conn : /\ Serves(u)' <=> Serves(u)
                      /\ Reads(u)' <=> Reads(u)
                      /\ pc'[u] = "done" => pc[u] = "done"
  BY DEF Serves, Reads
<1>3. \A c \in Live : conn[c] # None => conn[c] \in Conn
  BY SessionTypes DEF TypeOK, VectorType
<1>4. ElementsInOrder' /\ ElementsServed'
  BY <1>1, <1>2, <1>3 DEF OrderlyInv, ElementsInOrder, ElementsServed
<1>5. DescriptorsServed' /\ PendingElement'
  BY <1>1, <1>2 DEF OrderlyInv, DescriptorsServed, PendingElement, TypeOK, PeersType
<1>6. ReceiversOwn'
  BY <1>1 DEF OrderlyInv, ReceiversOwn, Owns
<1> QED
  BY <1>4, <1>5, <1>6 DEF OrderlyInv

(* Binding, receiving, replying and finding the element (server.cpp:36-40,   *)
(* 53, 63-71) keep every session.                                            *)
LEMMA OrderlyServing ==
  ASSUME SessionsInv, NEW t \in Conn, Orderly',
         \/ Bind(t) \/ BindEmpty(t) \/ CallRecv(t) \/ LeaveLoop(t) \/ Receive(t)
         \/ Reply(t) \/ NoReply(t) \/ FindClient(t) \/ FindNothing(t) \/ Crash(t)
  PROVE  OrderlyInv'
<1> USE DEF SessionsInv
<1>1. /\ Orderly
      /\ UNCHANGED <<begin, end, conn, sockfd, connected, closed, descr, accepted,
                     apc, aend, last>>
      /\ Live' = Live
  BY DEF Bind, BindEmpty, CallRecv, LeaveLoop, Receive, Reply, NoReply, FindClient,
     FindNothing, Crash, vector, cells, receivers, peers, acceptor, history, Orderly,
     Live, Note
<1>2. Owns(t) /\ ElementsServed /\ ~strayed
  BY <1>1 DEF OrderlyInv, ReceiversOwn, Owns
<1>3. \A u \in Conn : u # t => /\ pc'[u] = pc[u] /\ ptr'[u] = ptr[u]
                               /\ stream'[u] = stream[u] /\ idx'[u] = idx[u]
                               /\ last'[u] = last[u]
  BY <1>1 DEF Bind, BindEmpty, CallRecv, LeaveLoop, Receive, Reply, NoReply, FindClient,
     FindNothing, Crash, receivers, Goto, TypeOK, ReceiverType
<1>4. CASE Bind(t)
  <2>1. end \in Live /\ conn[end] = t
    BY <1>4, SessionTypes DEF Bind, Note, Orderly, Live
  <2>2. pc'[t] = "loop" /\ pc[t] = "start" /\ ptr'[t] = end /\ strayed' = strayed
    BY <1>4 DEF Bind, Goto, TypeOK, ReceiverType
  <2> QED
    BY <1>1, <1>3, <2>1, <2>2, OrderlyLocal DEF Owns, Serves, Reads
<1>5. CASE BindEmpty(t)
  BY <1>5 DEF BindEmpty, Note, Orderly
<1>6. CASE CallRecv(t)
  <2>1. pc[t] = "loop" /\ pc'[t] = "recv" /\ ptr' = ptr /\ strayed' = strayed
    BY <1>6 DEF CallRecv, Goto, TypeOK, ReceiverType, history
  <2>2. sockfd[ptr[t]] \in Fds /\ descr[sockfd[ptr[t]]] = t
    BY <1>2, <2>1 DEF Owns, ElementsServed, HasClient, Serves, Reads
  <2>3. stream'[t] = t
    BY <1>6, <2>2 DEF CallRecv, TypeOK, ReceiverType
  <2> QED
    BY <1>1, <1>2, <1>3, <2>1, <2>3, OrderlyLocal DEF Owns, Serves, Reads, HasClient
<1>7. CASE LeaveLoop(t)
  BY <1>2, <1>7 DEF LeaveLoop, Goto, Owns, ElementsServed, HasClient, Reads
<1>8. CASE Receive(t)
  <2>1. /\ pc[t] = "recv" /\ pc'[t] = "handle"
        /\ ptr' = ptr /\ stream' = stream /\ strayed' = strayed
    BY <1>8 DEF Receive, Goto, TypeOK, ReceiverType, history
  <2> QED
    BY <1>1, <1>2, <1>3, <2>1, OrderlyLocal DEF Owns, Serves, Reads, HasClient
<1>9. CASE Reply(t) \/ NoReply(t)
  <2>1. pc[t] = "handle" /\ pc'[t] = "loop" /\ ptr' = ptr
    BY <1>9 DEF Reply, NoReply, Goto, TypeOK, ReceiverType
  <2>2. descr[sockfd[ptr[t]]] = t /\ stream[t] = t
    BY <1>2, <2>1 DEF Owns, ElementsServed, HasClient, Serves, Reads
  <2>3. strayed' = strayed
    BY <1>2, <1>9, <2>2 DEF Reply, NoReply, history, TypeOK
  <2> QED
    BY <1>1, <1>2, <1>3, <2>1, <2>3, OrderlyLocal DEF Owns, Serves, Reads, HasClient
<1>10. CASE FindClient(t)
  <2>1. pc[t] = "find" /\ pc'[t] = "erase" /\ ptr' = ptr /\ strayed' = strayed
    BY <1>10 DEF FindClient, Goto, TypeOK, ReceiverType, history
  <2>2. ptr[t] \in Matches(t)
    BY <1>2, <2>1 DEF Owns, HasClient, Matches
  <2>3. begin < idx'[t] /\ idx'[t] =< ptr[t]
    BY <1>10, <2>2, SessionTypes DEF FindClient, Matches, Live, TypeOK, ReceiverType
  <2> QED
    BY <1>1, <1>2, <1>3, <2>1, <2>3, OrderlyLocal DEF Owns, Serves, Reads, HasClient
<1>11. CASE FindNothing(t)
  BY <1>2, <1>11 DEF FindNothing, Goto, Owns, HasClient, Matches
<1>12. CASE Crash(t)
  <2>1. UNCHANGED <<pc, ptr, stream, idx, last, strayed>>
    BY <1>12 DEF Crash, receivers, history
  <2> QED
    BY <1>1, <2>1 DEF OrderlyInv, ElementsInOrder, ElementsServed, DescriptorsServed,
       PendingElement, ReceiversOwn, Serves, Reads
<1> QED
  BY <1>4, <1>5, <1>6, <1>7, <1>8, <1>9, <1>10, <1>11, <1>12

(* setDisconnected (server.cpp:42) touches the session of its own client     *)
(* alone.                                                                    *)
LEMMA OrderlyDisconnect ==
  ASSUME SessionsInv, NEW t \in Conn, Disconnect(t)
  PROVE  OrderlyInv'
<1> SUFFICES ASSUME Orderly' PROVE
      /\ ElementsInOrder' /\ ElementsServed' /\ DescriptorsServed'
      /\ PendingElement' /\ ReceiversOwn' /\ ~strayed'
  BY DEF OrderlyInv
<1> USE DEF SessionsInv
<1>1. /\ Orderly
      /\ UNCHANGED <<begin, end, conn, sockfd, closed, descr, accepted, apc, aend,
                     ptr, idx, last, strayed>>
      /\ Live' = Live
  BY DEF Disconnect, peers, acceptor, history, Orderly, Live
<1>2. ReceiversOwn /\ ElementsServed /\ PendingElement
  BY <1>1 DEF OrderlyInv
<1>3. /\ pc[t] = "recv" /\ pc'[t] = "close"
      /\ \A u \in Conn : u # t => pc'[u] = pc[u] /\ stream'[u] = stream[u]
  BY DEF Disconnect, Goto, TypeOK, ReceiverType
<1>4. ptr[t] \in Live /\ conn[ptr[t]] = t /\ stream[t] = t /\ closed[t]
  BY <1>2, <1>3, SessionTypes DEF ReceiversOwn, HasClient, Disconnect
<1>5. \A c \in Cells : c # ptr[t] => connected'[c] = connected[c]
  BY DEF Disconnect, TypeOK, VectorType
<1>6. ElementsInOrder'
  BY <1>1 DEF OrderlyInv, ElementsInOrder
<1>7. ElementsServed'
  <2> SUFFICES ASSUME NEW c \in Live
               PROVE  /\ conn[c] # None /\ pc'[conn[c]] # "done"
                      /\ Serves(conn[c])' => sockfd[c] \in Fds /\ descr[sockfd[c]] = conn[c]
                      /\ Reads(conn[c])' => connected'[c]
    BY <1>1 DEF ElementsServed, Serves, Reads
  <2>1. conn[c] \in Conn
    BY <1>2, SessionTypes DEF ElementsServed, TypeOK, VectorType
  <2>2. CASE conn[c] = t
    BY <1>1, <1>2, <1>3, <2>1, <2>2 DEF ElementsServed, Serves, Reads
  <2>3. CASE conn[c] # t
    BY <1>1, <1>2, <1>3, <1>4, <1>5, <2>1, <2>3, SessionTypes
    DEF ElementsServed, Serves, Reads
  <2> QED
    BY <2>2, <2>3
<1>8. DescriptorsServed'
  BY <1>1, <1>3 DEF OrderlyInv, DescriptorsServed, Serves, Reads, TypeOK, PeersType
<1>9. PendingElement'
  <2> SUFFICES ASSUME apc = "commit" PROVE PendingElement'
    BY <1>1 DEF PendingElement
  <2>1. aend > end
    BY <1>1, <1>2 DEF PendingElement
  <2>2. aend # ptr[t]
    BY <2>1, <1>4, SessionTypes DEF Live
  <2>3. aend \in Cells
    BY SessionTypes, ConstantsOK
    DEF Assumptions, TypeOK, VectorType, AcceptorType, Cells
  <2>4. connected'[aend] = connected[aend]
    BY <1>5, <2>2, <2>3
  <2> QED
    BY <1>1, <1>2, <2>4 DEF PendingElement
<1>10. ReceiversOwn'
  BY <1>1, <1>2, <1>3, <1>4 DEF ReceiversOwn, HasClient
<1> QED
  BY <1>1, <1>6, <1>7, <1>8, <1>9, <1>10 DEF OrderlyInv

(* close (server.cpp:48) closes the descriptor of its own client alone.      *)
LEMMA OrderlyClose ==
  ASSUME SessionsInv, NEW t \in Conn, CloseFd(t)
  PROVE  OrderlyInv'
<1> SUFFICES ASSUME Orderly' PROVE
      /\ ElementsInOrder' /\ ElementsServed' /\ DescriptorsServed'
      /\ PendingElement' /\ ReceiversOwn' /\ ~strayed'
  BY DEF OrderlyInv
<1> USE DEF SessionsInv
<1>1. /\ Orderly
      /\ UNCHANGED <<begin, end, conn, sockfd, connected, closed, accepted, apc, aend,
                     ptr, stream, idx, last, strayed>>
      /\ Live' = Live
  BY DEF CloseFd, vector, cells, peers, acceptor, history, Orderly, Live
<1>2. ReceiversOwn /\ ElementsServed /\ PendingElement /\ DescriptorsServed
  BY <1>1 DEF OrderlyInv
<1>3. /\ pc[t] = "close" /\ pc'[t] = "find"
      /\ \A u \in Conn : u # t => pc'[u] = pc[u]
  BY DEF CloseFd, Goto, TypeOK, ReceiverType
<1>4. ptr[t] \in Live /\ conn[ptr[t]] = t /\ descr[sockfd[ptr[t]]] = t
      /\ sockfd[ptr[t]] \in Fds
  BY <1>2, <1>3 DEF ReceiversOwn, HasClient, ElementsServed, Serves
<1>5. \A fd \in Fds : descr'[fd] = IF descr[fd] = t THEN None ELSE descr[fd]
  BY <1>4, SessionTypes DEF CloseFd, Numbered
<1>6. ElementsInOrder'
  BY <1>1 DEF OrderlyInv, ElementsInOrder
<1>7. ElementsServed'
  <2> SUFFICES ASSUME NEW c \in Live
               PROVE  /\ conn[c] # None /\ pc'[conn[c]] # "done"
                      /\ Serves(conn[c])' => sockfd[c] \in Fds /\ descr'[sockfd[c]] = conn[c]
                      /\ Reads(conn[c])' => connected[c]
    BY <1>1 DEF ElementsServed, Serves, Reads
  <2>1. conn[c] \in Conn
    BY <1>2, SessionTypes DEF ElementsServed, TypeOK, VectorType
  <2> QED
    BY <1>1, <1>2, <1>3, <1>5, <2>1 DEF ElementsServed, Serves, Reads
<1>8. DescriptorsServed'
  BY <1>2, <1>3, <1>5 DEF DescriptorsServed, Serves, Reads, TypeOK, PeersType
<1>9. PendingElement'
  BY <1>1, <1>2, <1>4, <1>5, SessionTypes DEF PendingElement
<1>10. ReceiversOwn'
  BY <1>1, <1>2, <1>3, <1>4 DEF ReceiversOwn, HasClient
<1> QED
  BY <1>1, <1>6, <1>7, <1>8, <1>9, <1>10 DEF OrderlyInv

(* Without anomalies erase (server.cpp:72) finds its own client as the last  *)
(* element and copies nothing.                                               *)
LEMMA OrderlyErase ==
  ASSUME SessionsInv, NEW t \in Conn, Erase(t)
  PROVE  OrderlyInv'
<1> SUFFICES ASSUME Orderly' PROVE
      /\ ElementsInOrder' /\ ElementsServed' /\ DescriptorsServed'
      /\ PendingElement' /\ ReceiversOwn' /\ ~strayed'
  BY DEF OrderlyInv
<1> USE DEF SessionsInv
<1>1. /\ Orderly /\ idx[t] = end
      /\ UNCHANGED <<begin, end, closed, descr, accepted, apc, aend, stream, strayed>>
      /\ Live' = Live
  BY DEF Erase, peers, acceptor, Orderly, Note, Live
<1>2. ReceiversOwn /\ ElementsServed /\ PendingElement /\ DescriptorsServed
  BY <1>1 DEF OrderlyInv
<1>3. UNCHANGED <<conn, sockfd, connected>>
  <2>1. \A c \in Cells : ~(end =< c /\ c < end)
    BY SessionTypes DEF Cells
  <2> QED
    BY <1>1, <2>1 DEF Erase, ShiftDown, TypeOK, VectorType
<1>4. /\ pc[t] = "erase" /\ pc'[t] = "shrink" /\ last'[t] = end
      /\ \A u \in Conn : u # t => /\ pc'[u] = pc[u] /\ ptr'[u] = ptr[u]
                                  /\ idx'[u] = idx[u] /\ last'[u] = last[u]
  BY DEF Erase, Goto, TypeOK, ReceiverType
<1>5. end \in Live /\ conn[end] = t
  <2>1. ptr[t] \in Live /\ conn[ptr[t]] = t /\ begin < idx[t] /\ idx[t] =< ptr[t]
    BY <1>2, <1>4 DEF ReceiversOwn, HasClient
  <2>2. ptr[t] = end
    BY <1>1, <2>1, SessionTypes DEF Live
  <2> QED
    BY <2>1, <2>2
<1>6. \A c \in Live : conn[c] \in Conn
  BY <1>2, SessionTypes DEF ElementsServed, TypeOK, VectorType
<1>7. ElementsInOrder' /\ PendingElement'
  BY <1>1, <1>2, <1>3 DEF OrderlyInv, ElementsInOrder, PendingElement
<1>8. ElementsServed'
  BY <1>1, <1>2, <1>3, <1>4, <1>6 DEF ElementsServed, Serves, Reads
<1>9. DescriptorsServed'
  BY <1>1, <1>2, <1>4 DEF DescriptorsServed, Serves, Reads, TypeOK, PeersType
<1>10. ReceiversOwn'
  BY <1>1, <1>2, <1>3, <1>4, <1>5 DEF ReceiversOwn, HasClient
<1> QED
  BY <1>1, <1>7, <1>8, <1>9, <1>10 DEF OrderlyInv

(* Without anomalies erase (server.cpp:72) removes its own client alone.     *)
LEMMA OrderlyShrink ==
  ASSUME SessionsInv, NEW t \in Conn, Shrink(t)
  PROVE  OrderlyInv'
<1> SUFFICES ASSUME Orderly' PROVE
      /\ ElementsInOrder' /\ ElementsServed' /\ DescriptorsServed'
      /\ PendingElement' /\ ReceiversOwn' /\ ~strayed'
  BY DEF OrderlyInv
<1> USE DEF SessionsInv
<1>1. /\ Orderly /\ last[t] = end
      /\ UNCHANGED <<begin, conn, sockfd, connected, closed, descr, accepted, apc, aend,
                     ptr, stream, idx, strayed>>
      /\ end' = end - 1
  BY DEF Shrink, ShrinkTo, peers, acceptor, Orderly, Note
<1>2. ReceiversOwn /\ ElementsServed /\ PendingElement /\ DescriptorsServed
      /\ ElementsInOrder
  BY <1>1 DEF OrderlyInv
<1>3. /\ pc[t] = "shrink" /\ pc'[t] = "done"
      /\ \A u \in Conn : u # t => pc'[u] = pc[u] /\ last'[u] = last[u]
  BY DEF Shrink, ShrinkTo, Goto, TypeOK, ReceiverType
<1>4. end \in Live /\ conn[end] = t
  BY <1>1, <1>2, <1>3 DEF ReceiversOwn
<1>5. Live' = Live \ {end}
  BY <1>1, SessionTypes DEF Live
<1>6. \A c \in Live' : c \in Live /\ conn[c] \in Conn /\ conn[c] # t
  <2>1. \A c \in Live' : c \in Live /\ c < end
    BY <1>5, SessionTypes DEF Live
  <2>2. \A c \in Live : conn[c] \in Conn
    BY <1>2, SessionTypes DEF ElementsServed, TypeOK, VectorType
  <2>3. \A c \in Live' : conn[c] < conn[end]
    BY <1>2, <1>4, <2>1 DEF ElementsInOrder
  <2> QED
    BY <1>4, <2>1, <2>2, <2>3 DEF Conn
<1>7. ElementsInOrder' /\ PendingElement'
  BY <1>1, <1>2, <1>5, SessionTypes DEF ElementsInOrder, PendingElement
<1>8. ElementsServed'
  BY <1>1, <1>2, <1>3, <1>6 DEF ElementsServed, Serves, Reads
<1>9. DescriptorsServed'
  BY <1>1, <1>2, <1>3 DEF DescriptorsServed, Serves, Reads, TypeOK, PeersType
<1>10. ReceiversOwn'
  BY <1>1, <1>2, <1>3, <1>4, <1>5 DEF ReceiversOwn, HasClient
<1> QED
  BY <1>1, <1>7, <1>8, <1>9, <1>10 DEF OrderlyInv

(* Every step keeps the sessions orderly.                                    *)
LEMMA OrderlyStep == ASSUME SessionsInv, [Next]_vars PROVE OrderlyInv'
<1>1. ASSUME NEW fd \in Fds, AcceptGrow(fd) PROVE OrderlyInv'
  BY <1>1 DEF AcceptGrow, Note, OrderlyInv, Orderly
<1>2. ASSUME NEW k \in Conn, PeerSend(k) \/ PeerClose(k) PROVE OrderlyInv'
  <2>1. /\ UNCHANGED <<begin, end, conn, sockfd, connected, descr, accepted, apc, aend,
                       pc, ptr, stream, idx, last, strayed, anomalies>>
        /\ \A j \in Conn : closed[j] => closed'[j]
    BY <1>2 DEF PeerSend, PeerClose, vector, cells, acceptor, receivers, history,
       SessionsInv, TypeOK, PeersType
  <2> QED
    BY <2>1 DEF SessionsInv, OrderlyInv, Orderly, ElementsInOrder, ElementsServed,
       DescriptorsServed, PendingElement, ReceiversOwn, Serves, Reads, Live
<1>3. CASE UNCHANGED vars
  BY <1>3 DEF vars, vector, cells, peers, acceptor, receivers, history,
     SessionsInv, OrderlyInv, Orderly, ElementsInOrder, ElementsServed,
     DescriptorsServed, PendingElement, ReceiversOwn, Serves, Reads, Live
<1>4. ASSUME NEW t \in Conn, ReceiverStep(t) PROVE OrderlyInv'
  <2>1. CASE ~Orderly'
    BY <2>1 DEF OrderlyInv
  <2> QED
    BY <1>4, <2>1, OrderlyServing, OrderlyDisconnect, OrderlyClose, OrderlyErase,
       OrderlyShrink DEF ReceiverStep
<1> QED
  BY <1>1, <1>2, <1>3, <1>4, OrderlyAccept, OrderlyCommit, OrderlySpawn
  DEF Next, AcceptorStep

(* The inductive invariant of the sessions (server.cpp:34-76).               *)
LEMMA SessionsCorrect == Spec => []SessionsInv
<1>1. SessionsInv /\ [Next]_vars => Numbered' /\ Started' /\ OrderlyInv'
  BY NumberedStep, StartedStep, OrderlyStep DEF SessionsInv
<1>2. Init => SessionsInv
  BY TypeInit, StartedInit, SessionsInit DEF SessionsInv
<1>3. TypeOK' /\ Started' /\ Numbered' /\ OrderlyInv' => SessionsInv'
  BY DEF SessionsInv
<1> QED
  BY <1>1, <1>2, <1>3, TypeCorrect, PTL DEF Spec

(* Replies go to the client that asked, as long as no anomaly touched the    *)
(* vector (server.cpp:53, sendToClient on the receiver's element).           *)
THEOREM RepliesReachSenderCorrect == Spec => []RepliesReachSender
<1>1. SessionsInv => RepliesReachSender
  BY DEF SessionsInv, OrderlyInv, RepliesReachSender
<1> QED
  BY <1>1, SessionsCorrect, PTL

(* A receiver that serves works on its own element, descriptor, connection.  *)
THEOREM ReceiverOwnsClientCorrect == Spec => []ReceiverOwnsClient
<1>1. SessionsInv => ReceiverOwnsClient
  BY DEF SessionsInv, OrderlyInv, ReceiverOwnsClient, ReceiversOwn, ElementsServed, HasClient,
     Elements, Owner, Serves, Reads
<1> QED
  BY <1>1, SessionsCorrect, PTL

(* A receiver that ended leaves no element and no descriptor of its client.  *)
THEOREM NothingLeftBehindCorrect == Spec => []NothingLeftBehind
<1>1. SessionsInv => NothingLeftBehind
  BY SessionTypes DEF SessionsInv, OrderlyInv, NothingLeftBehind, ElementsServed,
     DescriptorsServed, Elements, Owner, Serves, Reads
<1> QED
  BY <1>1, SessionsCorrect, PTL

(* A descriptor is only closed on a connection its peer has given up.        *)
THEOREM ClosesOnlyAbandonedCorrect == Spec => ClosesOnlyAbandoned
<1>1. ASSUME SessionsInv, [Next]_vars, NEW fd \in Fds, Orderly, descr[fd] # None,
             descr'[fd] # descr[fd]
      PROVE  closed[descr[fd]]
  <2>1. \A gd \in Fds : ~Accept(gd) /\ ~AcceptGrow(gd)
    BY <1>1 DEF Accept, AcceptGrow, SessionsInv, TypeOK, PeersType
  <2>2. ~AcceptorStep /\ ~UNCHANGED vars
    BY <1>1 DEF AcceptorStep, Commit, Spawn, StoreHandler, vars
  <2>3. \A k \in Conn : ~PeerSend(k) /\ ~PeerClose(k)
    BY <1>1 DEF PeerSend, PeerClose
  <2>4. PICK t \in Conn : ReceiverStep(t)
    BY <1>1, <2>1, <2>2, <2>3 DEF Next
  <2>5. CloseFd(t)
    BY <1>1, <2>4 DEF ReceiverStep, Bind, BindEmpty, CallRecv, LeaveLoop, Receive, Reply,
       NoReply, Disconnect, FindClient, FindNothing, Erase, Shrink, ShrinkTo, Crash
  <2>6. fd = sockfd[ptr[t]] /\ pc[t] = "close"
    BY <1>1, <2>5 DEF CloseFd, Goto
  <2>7. closed[t] /\ descr[fd] = t
    BY <1>1, <2>6 DEF SessionsInv, OrderlyInv, ReceiversOwn, ElementsServed, HasClient, Serves
  <2> QED
    BY <2>7
<1>2. SessionsInv /\ [Next]_vars =>
        [\A fd \in Fds : (Orderly /\ Owner(fd) # None /\ Owner(fd)' # Owner(fd))
                            => closed[Owner(fd)]]_vars
  BY <1>1 DEF Owner
<1> QED
  BY <1>2, SessionsCorrect, PTL DEF Spec, ClosesOnlyAbandoned

(* As long as the sessions are orderly no receiver step faults.              *)
LEMMA FaultsStep ==
  ASSUME SessionsInv, FaultsOnlyUpset, [Next]_vars
  PROVE  FaultsOnlyUpset'
<1> SUFFICES ASSUME Orderly' PROVE aborted' # "fault"
  BY DEF FaultsOnlyUpset
<1> USE DEF Running
<1>1. CASE UNCHANGED vars
  BY <1>1 DEF vars, history, FaultsOnlyUpset, Orderly
<1>2. ASSUME NEW fd \in Fds, Accept(fd) PROVE aborted' # "fault"
  BY <1>2 DEF Accept
<1>3. ASSUME NEW fd \in Fds, AcceptGrow(fd) PROVE aborted' # "fault"
  BY <1>3 DEF AcceptGrow, Note, Orderly
<1>4. CASE AcceptorStep
  BY <1>4 DEF AcceptorStep, Commit, Spawn, StoreHandler
<1>5. ASSUME NEW k \in Conn, PeerSend(k) \/ PeerClose(k) PROVE aborted' # "fault"
  BY <1>5 DEF PeerSend, PeerClose
<1>6. ASSUME NEW t \in Conn, ReceiverStep(t) PROVE aborted' # "fault"
  <2>1. CASE BindEmpty(t)
    BY <2>1 DEF BindEmpty, Note, Orderly
  <2>2. ~Crash(t)
    <3> SUFFICES ASSUME Crash(t) PROVE FALSE
      OBVIOUS
    <3>1. Orderly
      BY DEF Crash, history, Orderly
    <3>2. ReceiversOwn /\ begin \in Nat /\ end \in Nat
      BY <3>1, SessionTypes DEF SessionsInv, OrderlyInv
    <3>3. idx[t] \in Int /\ ptr[t] \in Int
      BY ConstantsOK DEF Assumptions, SessionsInv, TypeOK, ReceiverType
    <3>4. pc[t] \in HasClient => ptr[t] \in Live
      BY <3>2 DEF ReceiversOwn
    <3>5. pc[t] = "erase" => idx[t] \in Live
      BY <3>2, <3>3, <3>4 DEF ReceiversOwn, HasClient, Live
    <3>6. pc[t] = "shrink" => last[t] \in Live
      BY <3>2 DEF ReceiversOwn
    <3> QED
      BY <3>2, <3>3, <3>4, <3>5, <3>6 DEF Crash, HasClient, Live
  <2>3. CASE Shrink(t) \/ Reply(t)
    BY <2>3 DEF Shrink, ShrinkTo, Destroy, Reply, Goto
  <2> QED
    BY <1>6, <2>1, <2>2, <2>3 DEF ReceiverStep, Bind, CallRecv, LeaveLoop, Receive,
       NoReply, Disconnect, CloseFd, FindClient, FindNothing, Erase, Goto
<1> QED
  BY <1>1, <1>2, <1>3, <1>4, <1>5, <1>6 DEF Next

(* Only an anomaly of the vector makes a receiver fault (server.cpp:39-72).  *)
THEOREM FaultsOnlyUpsetCorrect == Spec => []FaultsOnlyUpset
<1>1. Init => FaultsOnlyUpset
  BY DEF Init, FaultsOnlyUpset
<1> QED
  BY <1>1, FaultsStep, SessionsCorrect, PTL DEF Spec
-------------------------------------------------------------------------------
(* The server implements the sessions of ClientSessions.  What is left to   *)
(* know is that a receiver that is to serve its client has a descriptor     *)
(* open on it, from the accept on: then the session that is read off the    *)
(* descriptors is the one that the place of the receiver tells.             *)

HasDescriptor ==
  Orderly /\ Running =>
    \A k \in Conn : k =< accepted /\ Serves(k) => \E fd \in Fds : descr[fd] = k

Place(k) ==
  IF accepted < k THEN "new"
  ELSE IF pc[k] = "handle" THEN "busy"
  ELSE IF Serves(k) THEN "open" ELSE "ended"

(* What happened to the vector is not forgotten, and no step is after the    *)
(* end of the process.                                                       *)
LEMMA UpsetStays == ASSUME [Next]_vars PROVE (Orderly' => Orderly) /\ (Running' => Running)
<1>1. anomalies' = anomalies \/ \E a \in Anomaly, b \in BOOLEAN : Note(a, b)
  <2>1. ASSUME NEW fd \in Fds, Accept(fd) \/ AcceptGrow(fd)
        PROVE  anomalies' = anomalies \/ Note("shift", TRUE)
    BY <2>1 DEF Accept, AcceptGrow, history
  <2>2. CASE AcceptorStep
    BY <2>2 DEF AcceptorStep, Commit, Spawn, StoreHandler, history, Note, Anomaly
  <2>3. ASSUME NEW k \in Conn, PeerSend(k) \/ PeerClose(k)
        PROVE  anomalies' = anomalies
    BY <2>3 DEF PeerSend, PeerClose, history
  <2>4. ASSUME NEW t \in Conn, ReceiverStep(t)
        PROVE  anomalies' = anomalies \/ \E a \in Anomaly, b \in BOOLEAN : Note(a, b)
    BY <2>4 DEF ReceiverStep, Bind, BindEmpty, CallRecv, LeaveLoop, Receive, Reply, NoReply,
       Disconnect, CloseFd, FindClient, FindNothing, Erase, Shrink, ShrinkTo, Crash, history,
       Note, Anomaly
  <2>5. CASE UNCHANGED vars
    BY <2>5 DEF vars, history
  <2> QED
    BY <2>1, <2>2, <2>3, <2>4, <2>5 DEF Next, Anomaly
<1>2. Running' => Running
  <2>1. CASE UNCHANGED vars
    BY <2>1 DEF vars, Running
  <2>2. CASE Next
    BY <2>2 DEF Next, Accept, AcceptGrow, AcceptorStep, Commit, Spawn, StoreHandler, PeerSend,
       PeerClose, ReceiverStep, Bind, BindEmpty, CallRecv, LeaveLoop, Receive, Reply, NoReply,
       Disconnect, CloseFd, FindClient, FindNothing, Erase, Shrink, ShrinkTo, Crash, Goto
  <2> QED
    BY <2>1, <2>2
<1> QED
  BY <1>1, <1>2 DEF Note, Orderly

(* A step of a receiver that leaves the vector orderly: it stays with its    *)
(* open session, takes a request, answers one, closes, or is done with its   *)
(* client already (receiveTask and deleteClient, server.cpp:34-76).          *)
Stays(t)  == pc[t] \in {"start", "loop", "recv"} /\ pc'[t] \in {"loop", "recv", "close"}
Takes(t)  == pc[t] = "recv" /\ pc'[t] = "handle"
Frees(t)  == pc[t] = "handle" /\ pc'[t] = "loop"
Closes(t) == pc[t] = "close" /\ pc'[t] = "find"
Leaves(t) == pc[t] \in {"find", "erase", "shrink"} /\ pc'[t] \in {"erase", "shrink", "done"}

(* Those are all of them, unless the process crashes.                        *)
LEMMA ReceiverMoves ==
  ASSUME SessionsInv, NEW t \in Conn, ReceiverStep(t), Orderly, Orderly', Running'
  PROVE  /\ UNCHANGED <<accepted, closed>>
         /\ \A u \in Conn : u # t => pc'[u] = pc[u]
         /\ \/ (Stays(t) \/ Takes(t) \/ Frees(t) \/ Leaves(t)) /\ UNCHANGED descr
            \/ Closes(t) /\ CloseFd(t)
<1> USE DEF SessionsInv
<1>1. UNCHANGED <<accepted, closed>>
  BY DEF ReceiverStep, Bind, BindEmpty, CallRecv, LeaveLoop, Receive, Reply, NoReply,
     Disconnect, CloseFd, FindClient, FindNothing, Erase, Shrink, ShrinkTo, Crash, acceptor, peers
<1>2. ~BindEmpty(t) /\ ~Crash(t)
  BY DEF BindEmpty, Crash, Note, Orderly, Running
<1>3. ~LeaveLoop(t)
  BY DEF LeaveLoop, Goto, OrderlyInv, ReceiversOwn, ElementsServed, HasClient, Reads
<1>4. \E to \in ReceiverPC : pc' = [pc EXCEPT ![t] = to]
  BY <1>2 DEF ReceiverStep, Bind, BindEmpty, CallRecv, LeaveLoop, Receive, Reply, NoReply,
     Disconnect, CloseFd, FindClient, FindNothing, Erase, Shrink, ShrinkTo, Goto, ReceiverPC
<1>5. pc \in [Conn -> ReceiverPC]
  BY DEF TypeOK, ReceiverType
<1>6. \A u \in Conn : u # t => pc'[u] = pc[u]
  BY <1>4, <1>5
<1>7. ~CloseFd(t) => UNCHANGED descr
  BY DEF ReceiverStep, Bind, BindEmpty, CallRecv, LeaveLoop, Receive, Reply, NoReply,
     Disconnect, FindClient, FindNothing, Erase, Shrink, ShrinkTo, Crash
<1>8. Bind(t) \/ CallRecv(t) \/ Disconnect(t) => Stays(t)
  BY <1>5 DEF Goto, Bind, CallRecv, Disconnect, Stays
<1>9. Receive(t) => Takes(t)
  BY <1>5 DEF Goto, Receive, Takes
<1>10. Reply(t) \/ NoReply(t) => Frees(t)
  BY <1>5 DEF Goto, Reply, NoReply, Frees
<1>11. CloseFd(t) => Closes(t)
  BY <1>5 DEF Goto, CloseFd, Closes
<1>12. FindClient(t) \/ FindNothing(t) \/ Erase(t) \/ Shrink(t) => Leaves(t)
  BY <1>5 DEF Goto, FindClient, FindNothing, Erase, Shrink, ShrinkTo, Leaves
<1>13. \/ (Stays(t) \/ Takes(t) \/ Frees(t) \/ Leaves(t)) /\ UNCHANGED descr
       \/ Closes(t) /\ CloseFd(t)
  BY <1>2, <1>3, <1>8, <1>9, <1>10, <1>11, <1>12, <1>7
  DEF ReceiverStep
<1> QED
  BY <1>1, <1>6, <1>13

(* The descriptor closed is the receiver's own (server.cpp:48).              *)
LEMMA ClosesOwn ==
  ASSUME SessionsInv, NEW t \in Conn, CloseFd(t), Orderly
  PROVE  /\ closed[t]
         /\ \A fd \in Fds : descr'[fd] = IF fd = sockfd[ptr[t]] THEN None ELSE descr[fd]
         /\ descr[sockfd[ptr[t]]] = t
<1>1. pc[t] = "close"
  BY DEF CloseFd, Goto
<1>2. closed[t] /\ ptr[t] \in Live /\ conn[ptr[t]] = t
  BY <1>1 DEF SessionsInv, OrderlyInv, ReceiversOwn, HasClient
<1>3. descr[sockfd[ptr[t]]] = t
  BY <1>1, <1>2 DEF SessionsInv, OrderlyInv, ElementsServed, Serves
<1> QED
  BY <1>2, <1>3 DEF CloseFd

(* A descriptor is open from the accept until the receiver closes it.        *)
LEMMA DescriptorStep ==
  ASSUME SessionsInv, HasDescriptor, [Next]_vars
  PROVE  HasDescriptor'
<1> SUFFICES ASSUME Orderly', Running', NEW k \in Conn, k =< accepted', Serves(k)'
             PROVE  \E fd \in Fds : descr'[fd] = k
  BY DEF HasDescriptor
<1>1. Orderly /\ Running
  BY UpsetStays
<1>2. k =< accepted /\ Serves(k) => \E fd \in Fds : descr[fd] = k
  BY <1>1 DEF HasDescriptor
<1>3. accepted \in Nat /\ k \in Nat /\ k # None /\ descr \in [Fds -> Conn \cup {None}]
  BY SessionTypes DEF SessionsInv, TypeOK, PeersType
<1>4. CASE UNCHANGED <<descr, accepted>> /\ Serves(k)
  BY <1>2, <1>4
<1>5. ASSUME NEW fd \in Fds, Accept(fd)
      PROVE  \E gd \in Fds : descr'[gd] = k
  <2>1. /\ descr[fd] = None /\ accepted' = accepted + 1 /\ pc' = pc
        /\ \A gd \in Fds : descr'[gd] = IF gd = fd THEN accepted + 1 ELSE descr[gd]
    BY <1>3, <1>5 DEF Accept, receivers
  <2>2. CASE k = accepted + 1
    BY <2>1, <2>2
  <2>3. CASE k # accepted + 1
    <3>1. k =< accepted /\ Serves(k)
      BY <1>3, <2>1, <2>3 DEF Serves, Reads
    <3> QED
      BY <1>2, <1>3, <2>1, <3>1
  <2> QED
    BY <2>2, <2>3
<1>6. \A fd \in Fds : ~AcceptGrow(fd)
  BY DEF AcceptGrow, Note, Orderly
<1>7. CASE AcceptorStep
  <2>1. UNCHANGED <<descr, accepted>>
    BY <1>7 DEF AcceptorStep, Commit, Spawn, StoreHandler
  <2>2. pc[k] = "off" \/ pc'[k] = pc[k]
    <3>1. CASE Commit \/ StoreHandler
      BY <3>1 DEF Commit, StoreHandler, receivers
    <3>2. CASE Spawn
      <4>1. pc[accepted] = "off" \/ accepted \notin Conn
        BY <3>2 DEF Spawn, SessionsInv, Started, Unstarted
      <4> QED
        BY <3>2, <4>1 DEF Spawn, SessionsInv, TypeOK, ReceiverType
    <3> QED
      BY <1>7, <3>1, <3>2 DEF AcceptorStep
  <2> QED
    BY <1>4, <2>1, <2>2 DEF Serves, Reads
<1>8. ASSUME NEW j \in Conn, PeerSend(j) \/ PeerClose(j)
      PROVE  \E fd \in Fds : descr'[fd] = k
  BY <1>4, <1>8 DEF PeerSend, PeerClose, acceptor, receivers, Serves, Reads
<1>9. ASSUME NEW t \in Conn, ReceiverStep(t)
      PROVE  \E fd \in Fds : descr'[fd] = k
  <2>1. /\ UNCHANGED accepted
        /\ \A u \in Conn : u # t => pc'[u] = pc[u]
        /\ \/ (Stays(t) \/ Takes(t) \/ Frees(t) \/ Leaves(t)) /\ UNCHANGED descr
           \/ Closes(t) /\ CloseFd(t)
    BY <1>1, <1>9, ReceiverMoves
  <2>2. Serves(k)
    BY <2>1 DEF Serves, Reads, Stays, Takes, Frees, Leaves, Closes
  <2>3. CASE UNCHANGED descr
    BY <1>4, <2>1, <2>2, <2>3
  <2>4. CASE Closes(t) /\ CloseFd(t)
    <3>1. k # t
      BY <2>4 DEF Closes, Serves, Reads
    <3>2. PICK fd \in Fds : descr[fd] = k
      BY <1>2, <2>1, <2>2
    <3>3. descr'[fd] = descr[fd]
      BY <1>1, <2>4, <3>1, <3>2, ClosesOwn
    <3> QED
      BY <3>2, <3>3
  <2> QED
    BY <2>1, <2>3, <2>4
<1>10. CASE UNCHANGED vars
  BY <1>4, <1>10 DEF vars, acceptor, receivers, Serves, Reads
<1> QED
  BY <1>5, <1>6, <1>7, <1>8, <1>9, <1>10 DEF Next

(* The invariant the refinement needs.                                       *)
RefinementInv == SessionsInv /\ HasDescriptor

(* It holds from the start on.                                               *)
LEMMA RefinementInvCorrect == Spec => []RefinementInv
<1>1. Init => HasDescriptor
  <2> SUFFICES ASSUME Init, NEW k \in Conn, k =< accepted PROVE FALSE
    BY DEF HasDescriptor
  <2> QED
    BY DEF Init, Conn
<1>2. SessionsInv /\ HasDescriptor /\ [Next]_vars => HasDescriptor'
  BY DescriptorStep
<1> QED
  BY <1>1, <1>2, SessionsCorrect, PTL DEF Spec, RefinementInv

(* The session that the descriptors tell is the one the receiver is at.      *)
LEMMA SessionIsPlace ==
  ASSUME RefinementInv, Orderly, Running, NEW k \in Conn
  PROVE  SessionOf(k) = Place(k)
<1> USE DEF RefinementInv
<1>1. ReceiversOwn /\ ElementsServed /\ DescriptorsServed
  BY DEF SessionsInv, OrderlyInv
<1>2. accepted \in Nat /\ k \in Nat /\ k # None
  BY SessionTypes DEF SessionsInv
<1>3. pc[k] = "handle" => Answering(k, k)
  <2> SUFFICES ASSUME pc[k] = "handle" PROVE Answering(k, k)
    OBVIOUS
  <2>1. ptr[k] \in Live /\ conn[ptr[k]] = k /\ stream[k] = k
    BY <1>1 DEF ReceiversOwn, HasClient
  <2>2. sockfd[ptr[k]] \in Fds /\ descr[sockfd[ptr[k]]] = k
    BY <1>1, <2>1 DEF ElementsServed, Serves, Reads
  <2> QED
    BY <2>1, <2>2 DEF Answering
<1>4. ASSUME NEW t \in Conn, Answering(t, k) PROVE pc[k] = "handle"
  BY <1>1, <1>4 DEF Answering, ReceiversOwn
<1>5. (\E t \in Conn : Answering(t, k)) <=> pc[k] = "handle"
  BY <1>3, <1>4
<1>6. CASE accepted < k
  BY <1>2, <1>6 DEF SessionOf, Place
<1>7. CASE ~(accepted < k)
  <2>1. ~(k > accepted) /\ k =< accepted
    BY <1>2, <1>7
  <2>2. (\A fd \in Fds : descr[fd] # k) <=> ~Serves(k)
    BY <1>1, <1>2, <2>1 DEF DescriptorsServed, HasDescriptor
  <2>3. pc[k] = "handle" => Serves(k)
    BY DEF Serves, Reads
  <2>4. CASE pc[k] = "handle"
    BY <1>5, <1>7, <2>1, <2>4 , <2>2, <2>3 DEF SessionOf, Place
  <2>5. CASE pc[k] # "handle" /\ Serves(k)
    BY <1>5, <1>7, <2>1, <2>2, <2>5 DEF SessionOf, Place
  <2>6. CASE pc[k] # "handle" /\ ~Serves(k)
    BY <1>5, <1>7, <2>1, <2>2, <2>6 DEF SessionOf, Place
  <2> QED
    BY <2>4, <2>5, <2>6
<1> QED
  BY <1>6, <1>7

(* So it is in every state.                                                  *)
SessionsPlaced == Orderly /\ Running => \A k \in Conn : SessionOf(k) = Place(k)

(* It follows from the inductive invariant.                                  *)
LEMMA SessionsPlacedCorrect == Spec => []SessionsPlaced
<1>1. RefinementInv => SessionsPlaced
  BY SessionIsPlace DEF SessionsPlaced
<1> QED
  BY <1>1, RefinementInvCorrect, PTL

(* The session of one connection moves and nothing else does.                *)
Moves(k, from, to) ==
  /\ Place(k) = from /\ (Place(k))' = to
  /\ \A j \in Conn : j # k => (Place(j))' = Place(j)
  /\ UNCHANGED closed

(* A step that upsets nothing moves a session, or its peer leaves, or the    *)
(* sessions see nothing of it.                                               *)
OrderlyStepped ==
  \/ \E k \in Conn :
       \/ Moves(k, "new", "open") /\ \A j \in Conn : j < k => Place(j) # "new"
       \/ Moves(k, "open", "busy")
       \/ Moves(k, "busy", "open")
       \/ Moves(k, "open", "ended") /\ closed[k]
       \/ /\ Place(k) # "new" /\ ~closed[k]
          /\ closed' = [closed EXCEPT ![k] = TRUE]
          /\ \A j \in Conn : (Place(j))' = Place(j)
  \/ UNCHANGED closed /\ \A j \in Conn : (Place(j))' = Place(j)

(* What a receiver does to the session of its client.                        *)
LEMMA ReceiverStepped ==
  ASSUME RefinementInv, NEW t \in Conn, ReceiverStep(t), Orderly, Orderly', Running'
  PROVE  OrderlyStepped
<1>1. /\ UNCHANGED <<accepted, closed>>
      /\ \A u \in Conn : u # t => pc'[u] = pc[u]
      /\ \/ (Stays(t) \/ Takes(t) \/ Frees(t) \/ Leaves(t)) /\ UNCHANGED descr
         \/ Closes(t) /\ CloseFd(t)
  BY ReceiverMoves DEF RefinementInv
<1>2. \A j \in Conn : j # t => (Place(j))' = Place(j)
  BY <1>1 DEF Place, Serves, Reads
<1>3. ~(accepted < t)
  <2>1. pc[t] # "off"
    BY <1>1 DEF Stays, Takes, Frees, Leaves, Closes
  <2>2. ~Unstarted(t)
    BY <2>1 DEF RefinementInv, SessionsInv, Started
  <2>3. accepted \in Nat /\ t \in Nat
    BY SessionTypes DEF RefinementInv, SessionsInv
  <2> QED
    BY <2>2, <2>3 DEF Unstarted
<1>4. CASE Stays(t)
  <2>1. (Place(t))' = Place(t)
    BY <1>1, <1>3, <1>4 DEF Stays, Place, Serves, Reads
  <2>2. \A j \in Conn : (Place(j))' = Place(j)
    BY <1>2, <2>1
  <2> QED
    BY <1>1, <2>2 DEF OrderlyStepped
<1>5. CASE Takes(t)
  <2>1. Place(t) = "open" /\ (Place(t))' = "busy"
    BY <1>1, <1>3, <1>5 DEF Takes, Place, Serves, Reads
  <2>2. Moves(t, "open", "busy")
    BY <1>1, <1>2, <2>1 DEF Moves
  <2> QED
    BY <2>2 DEF OrderlyStepped
<1>6. CASE Frees(t)
  <2>1. Place(t) = "busy" /\ (Place(t))' = "open"
    BY <1>1, <1>3, <1>6 DEF Frees, Place, Serves, Reads
  <2>2. Moves(t, "busy", "open")
    BY <1>1, <1>2, <2>1 DEF Moves
  <2> QED
    BY <2>2 DEF OrderlyStepped
<1>7. CASE Leaves(t)
  <2>1. (Place(t))' = Place(t)
    BY <1>1, <1>3, <1>7 DEF Leaves, Place, Serves, Reads
  <2>2. \A j \in Conn : (Place(j))' = Place(j)
    BY <1>2, <2>1
  <2> QED
    BY <1>1, <2>2 DEF OrderlyStepped
<1>8. CASE Closes(t) /\ CloseFd(t)
  <2>1. Place(t) = "open" /\ (Place(t))' = "ended"
    BY <1>1, <1>3, <1>8 DEF Closes, Place, Serves, Reads
  <2>2. Moves(t, "open", "ended")
    BY <1>1, <1>2, <2>1 DEF Moves
  <2>3. closed[t]
    BY <1>8, ClosesOwn DEF RefinementInv
  <2> QED
    BY <2>2, <2>3 DEF OrderlyStepped
<1> QED
  BY <1>1, <1>4, <1>5, <1>6, <1>7, <1>8

(* What any step does to the sessions: an accept opens one, the acceptor's   *)
(* later steps (server.cpp:153-154) are nothing to them, a peer leaves.      *)
LEMMA NextStepped ==
  ASSUME RefinementInv, Next, Orderly, Orderly', Running'
  PROVE  OrderlyStepped
<1>1. accepted \in Nat /\ \A j \in Conn : j \in Nat
  BY SessionTypes DEF RefinementInv, SessionsInv
<1>2. \A j \in Conn : pc[j] = "off" <=> Unstarted(j)
  BY DEF RefinementInv, SessionsInv, Started
<1>3. ASSUME UNCHANGED <<accepted, closed>>,
             \A j \in Conn : pc'[j] = pc[j] \/ {pc[j], pc'[j]} \subseteq {"off", "start"}
      PROVE  OrderlyStepped
  <2>1. \A j \in Conn : (Place(j))' = Place(j)
    BY <1>3 DEF Place, Serves, Reads
  <2> QED
    BY <1>3, <2>1 DEF OrderlyStepped
<1>4. ASSUME NEW fd \in Fds, Accept(fd)
      PROVE  OrderlyStepped
  <2>1. PICK k \in Conn : k = accepted + 1
    <3>1. accepted < MaxAccepts /\ MaxAccepts \in Nat
      BY <1>4, MaxAcceptsAssumption DEF Accept
    <3>2. accepted + 1 \in Conn
      BY <1>1, <3>1 DEF Conn
    <3> QED
      BY <3>2
  <2>2. accepted' = k /\ pc' = pc /\ UNCHANGED closed
    BY <1>4, <2>1 DEF Accept, receivers, peers
  <2>3. pc[k] = "off"
    BY <1>1, <1>2, <2>1 DEF Unstarted
  <2>4. Place(k) = "new" /\ (Place(k))' = "open"
    <3>1. accepted < k /\ ~(accepted' < k) /\ pc'[k] = "off"
      BY <1>1, <2>1, <2>2, <2>3
    <3> QED
      BY <3>1 DEF Place, Serves, Reads
  <2>5. ASSUME NEW j \in Conn, j # k PROVE (Place(j))' = Place(j)
    <3>1. accepted' < j <=> accepted < j
      BY <1>1, <2>1, <2>2, <2>5
    <3> QED
      BY <2>2, <3>1 DEF Place, Serves, Reads
  <2>6. ASSUME NEW j \in Conn, j < k PROVE Place(j) # "new"
    <3>1. ~(accepted < j)
      BY <1>1, <2>1, <2>6
    <3> QED
      BY <3>1 DEF Place
  <2>7. Moves(k, "new", "open")
    BY <2>2, <2>4, <2>5 DEF Moves
  <2> QED
    BY <2>1, <2>6, <2>7 DEF OrderlyStepped
<1>5. \A fd \in Fds : ~AcceptGrow(fd)
  BY DEF AcceptGrow, Note, Orderly
<1>6. CASE Commit \/ StoreHandler
  BY <1>3, <1>6 DEF Commit, StoreHandler, receivers, peers
<1>7. CASE Spawn
  <2>1. accepted \in Conn => pc[accepted] = "off"
    BY <1>2, <1>7 DEF Spawn, Unstarted
  <2>2. UNCHANGED <<accepted, closed>> /\ pc' = [pc EXCEPT ![accepted] = "start"]
    BY <1>7 DEF Spawn, peers
  <2>3. pc \in [Conn -> ReceiverPC]
    BY DEF RefinementInv, SessionsInv, TypeOK, ReceiverType
  <2>4. \A j \in Conn : pc'[j] = pc[j] \/ {pc[j], pc'[j]} \subseteq {"off", "start"}
    BY <2>1, <2>2, <2>3
  <2> QED
    BY <1>3, <2>2, <2>4
<1>8. ASSUME NEW k \in Conn, PeerSend(k)
      PROVE  OrderlyStepped
  BY <1>3, <1>8 DEF PeerSend, acceptor, receivers
<1>9. ASSUME NEW k \in Conn, PeerClose(k)
      PROVE  OrderlyStepped
  <2>1. k =< accepted /\ ~closed[k] /\ closed' = [closed EXCEPT ![k] = TRUE]
        /\ UNCHANGED <<accepted, pc>>
    BY <1>9 DEF PeerClose, acceptor, receivers
  <2>2. \A j \in Conn : (Place(j))' = Place(j)
    BY <2>1 DEF Place, Serves, Reads
  <2>3. Place(k) # "new"
    BY <1>1, <2>1 DEF Place
  <2> QED
    BY <2>1, <2>2, <2>3 DEF OrderlyStepped
<1>10. ASSUME NEW t \in Conn, ReceiverStep(t)
       PROVE  OrderlyStepped
  BY <1>10, ReceiverStepped
<1> QED
  BY <1>4, <1>5, <1>6, <1>7, <1>8, <1>9, <1>10 DEF Next, AcceptorStep

(* A step of the server is one of the sessions, or none.                     *)
LEMMA StepRefines ==
  ASSUME RefinementInv, RefinementInv', SessionsPlaced, SessionsPlaced', [Next]_vars
  PROVE  [Sessions!Next]_(Sessions!vars)
<1> DEFINE session == [k \in Conn |-> SessionOf(k)]
           upset == ~Orderly \/ ~Running
<1>1. closed \in [Conn -> BOOLEAN] /\ closed' \in [Conn -> BOOLEAN]
  BY DEF RefinementInv, SessionsInv, TypeOK, PeersType
<1>2. session' \in [Conn -> {"new", "open", "busy", "ended"}]
  BY DEF SessionOf
<1>3. Sessions!Conn = Conn
  BY DEF Sessions!Conn, Conn
<1>4. CASE UNCHANGED vars
  <2>1. session' = session
    BY <1>4 DEF vars, vector, cells, acceptor, receivers, SessionOf, Answering
  <2>2. closed' = closed /\ upset' = upset
    BY <1>4 DEF vars, peers, history, Orderly, Running
  <2> QED
    BY <2>1, <2>2 DEF Sessions!vars
<1>5. CASE upset'
  BY <1>1, <1>2, <1>3, <1>5 DEF Sessions!Next, Sessions!Upset
<1>6. CASE Next /\ ~upset'
  <2>1. Orderly' /\ Running' /\ Orderly /\ Running
    BY <1>6, UpsetStays
  <2>2. OrderlyStepped
    BY <1>6, <2>1, NextStepped
  <2>3. \A k \in Conn : session[k] = Place(k) /\ session'[k] = (Place(k))'
    BY <2>1 DEF SessionsPlaced
  <2>4. ~upset /\ upset' = upset
    BY <1>6, <2>1
  <2>5. session = [k \in Conn |-> session[k]] /\ session' = [k \in Conn |-> session'[k]]
    OBVIOUS
  <2> HIDE DEF session, upset
  <2>6. ASSUME NEW k \in Conn, NEW from, NEW to, Moves(k, from, to)
        PROVE  /\ session[k] = from /\ session' = [session EXCEPT ![k] = to]
               /\ closed' = closed
    BY <2>3, <2>5, <2>6 DEF Moves
  <2>7. ASSUME NEW k \in Conn, NEW from, NEW to, Moves(k, from, to)
        PROVE  Sessions!Move(k, from, to)
    BY <2>4, <2>6, <2>7 DEF Sessions!Move, session, upset
  <2>8. CASE \E k \in Conn : Moves(k, "new", "open") /\ \A j \in Conn : j < k => Place(j) # "new"
    <3>1. PICK k \in Conn : Moves(k, "new", "open") /\ \A j \in Conn : j < k => session[j] # "new"
      BY <2>3, <2>8
    <3>2. Sessions!Open(k)
      BY <1>3, <2>7, <3>1 DEF Sessions!Open, session
    <3> QED
      BY <1>3, <2>4, <3>2 DEF Sessions!Next, upset
  <2>9. CASE \E k \in Conn : Moves(k, "open", "busy") \/ Moves(k, "busy", "open")
    <3>1. \E k \in Conn : Sessions!Take(k) \/ Sessions!Answer(k)
      BY <2>7, <2>9 DEF Sessions!Take, Sessions!Answer
    <3> QED
      BY <1>3, <2>4, <3>1 DEF Sessions!Next, upset
  <2>10. CASE \E k \in Conn : Moves(k, "open", "ended") /\ closed[k]
    <3>1. \E k \in Conn : Sessions!End(k)
      BY <2>7, <2>10 DEF Sessions!End
    <3> QED
      BY <1>3, <2>4, <3>1 DEF Sessions!Next, upset
  <2>11. ASSUME \A k \in Conn : (Place(k))' = Place(k)
         PROVE  session' = session
    BY <2>3, <2>5, <2>11
  <2>12. CASE \E k \in Conn : /\ Place(k) # "new" /\ ~closed[k]
                              /\ closed' = [closed EXCEPT ![k] = TRUE]
                              /\ \A j \in Conn : (Place(j))' = Place(j)
    <3>1. PICK k \in Conn : session[k] # "new" /\ ~closed[k] /\ closed' = [closed EXCEPT ![k] = TRUE]
      BY <2>3, <2>12
    <3>2. session' = session
      BY <2>11, <2>12
    <3>3. Sessions!Leave(k)
      BY <2>4, <3>1, <3>2 DEF Sessions!Leave, session, upset
    <3> QED
      BY <1>3, <2>4, <3>3 DEF Sessions!Next, upset
  <2>13. CASE UNCHANGED closed /\ \A j \in Conn : (Place(j))' = Place(j)
    <3>1. session' = session
      BY <2>11, <2>13
    <3> QED
      BY <2>4, <2>13, <3>1 DEF Sessions!vars, session, upset
  <2> QED
    BY <2>2, <2>8, <2>9, <2>10, <2>12, <2>13 DEF OrderlyStepped
<1> QED
  BY <1>4, <1>5, <1>6

(* The server, from its start on, is an implementation of the sessions as    *)
(* far as they say what may happen: connections are opened in their order,   *)
(* a request is answered before the next one is taken and to whom it came    *)
(* from, and none is ended whose peer did not leave (server.cpp:34-76).      *)
THEOREM ServerKeepsSessions == Spec => Sessions!Safety
<1>1. Init => Sessions!Init
  <2> SUFFICES ASSUME Init PROVE Sessions!Init
    OBVIOUS
  <2>1. accepted = 0 /\ closed = [k \in Conn |-> FALSE] /\ Orderly /\ Running
    BY DEF Init, Orderly, Running
  <2>2. \A k \in Conn : SessionOf(k) = "new"
    BY <2>1 DEF SessionOf, Conn
  <2>3. Sessions!Conn = Conn
    BY DEF Sessions!Conn, Conn
  <2> QED
    BY <2>1, <2>2, <2>3 DEF Sessions!Init
<1>2. /\ RefinementInv /\ RefinementInv' /\ SessionsPlaced /\ SessionsPlaced' /\ [Next]_vars
      => [Sessions!Next]_(Sessions!vars)
  BY StepRefines
<1> QED
  BY <1>1, <1>2, RefinementInvCorrect, SessionsPlacedCorrect, PTL DEF Spec, Sessions!Safety
===============================================================================
