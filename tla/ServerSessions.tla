---------------------------- MODULE ServerSessions ----------------------------
(***************************************************************************)
(* The server implements ClientSessions.  A session is read off the        *)
(* resources of the connection, not off the receiver that should serve it: *)
(* it is open while a descriptor is open on it, and busy while some        *)
(* receiver holds a request of it and would answer on its descriptor.      *)
(***************************************************************************)
EXTENDS Server

Answering(t, k) ==
  /\ pc[t] = "handle" /\ stream[t] = k
  /\ \E fd \in Fds : fd = sockfd[ptr[t]] /\ descr[fd] = k

SessionOf(k) ==
  IF k > accepted THEN "new"
  ELSE IF \E t \in Conn : Answering(t, k) THEN "busy"
  ELSE IF \A fd \in Fds : descr[fd] # k THEN "ended" ELSE "open"

Sessions == INSTANCE ClientSessions WITH
  session <- [k \in Conn |-> SessionOf(k)],
  gone    <- closed,
  upset   <- ~Orderly \/ ~Running

(* Every step of the server is a step of the abstract sessions, and they    *)
(* make progress: requests are answered to whom they came from and a        *)
(* connection is ended only after its peer left (server.cpp:34-56).         *)
ImplementsSessions == Sessions!Spec
===============================================================================
