---------------------------- MODULE ClientSessions ----------------------------
(***************************************************************************)
(* What the socket server promises its clients, with no threads, vector or *)
(* descriptors: a connection is opened, its requests are taken and         *)
(* answered one at a time, and it is ended only after its peer left.  The  *)
(* promise lasts until the server is upset.                                *)
(***************************************************************************)
EXTENDS Integers

CONSTANT MaxAccepts

Conn == 1 .. MaxAccepts

VARIABLES
  session,  \* "new", "open", "busy" (with a request) or "ended"
  gone,     \* the peer closed the connection
  upset     \* the promise is off

vars == <<session, gone, upset>>

Init ==
  /\ session = [k \in Conn |-> "new"]
  /\ gone = [k \in Conn |-> FALSE]
  /\ upset = FALSE

Move(k, from, to) ==
  /\ session[k] = from
  /\ session' = [session EXCEPT ![k] = to]
  /\ UNCHANGED <<gone, upset>>

Open(k) == Move(k, "new", "open") /\ \A j \in Conn : j < k => session[j] # "new"
Take(k)   == Move(k, "open", "busy")
Answer(k) == Move(k, "busy", "open")
End(k)    == gone[k] /\ Move(k, "open", "ended")

Leave(k) ==
  /\ session[k] # "new" /\ ~gone[k]
  /\ gone' = [gone EXCEPT ![k] = TRUE]
  /\ UNCHANGED <<session, upset>>

Upset == upset' /\ session' \in [Conn -> {"new", "open", "busy", "ended"}]
                /\ gone' \in [Conn -> BOOLEAN]

Next ==
  \/ ~upset /\ \E k \in Conn : Open(k) \/ Take(k) \/ Answer(k) \/ End(k) \/ Leave(k)
  \/ Upset

(* A session whose peer left ends, and a request taken is answered. *)
Progress == \A k \in Conn : (gone[k] ~> (session[k] = "ended" \/ upset))
                         /\ (session[k] = "busy" ~> (session[k] # "busy" \/ upset))

Safety == Init /\ [][Next]_vars

Spec == Safety /\ Progress
===============================================================================
