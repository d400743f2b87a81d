------------------------------- MODULE Requests -------------------------------
(* How a request gets from a client's stream to the handlers: receiveTask puts *)
(* what recv returns at the start of a buffer that it neither clears nor ends  *)
(* with a NUL, and parseHackAction reads a C string from there, whatever the   *)
(* size it is given. Here is one connection. A text is a sequence of pieces,   *)
(* and a document is a text that is JSON.                                      *)
EXTENDS Integers, Sequences

CONSTANTS Pieces,
          Documents,
          Sendable,   \* documents that clients write
          Taken,      \* documents that an observer of the server acts on
          Fatal,      \* documents that fail an assertion of rapidjson: there is no
                      \* "command", or what goes with it is not there
          Capacity,   \* MAX_PACKET_SIZE
          Unwritten,  \* what is behind the buffer
          MaxWrites   \* bound of the model: requests that are written

BeginsWith(text, part) == Len(part) <= Len(text) /\ SubSeq(text, 1, Len(part)) = part

\* After a whole document anything but blanks is an error: "the document root
\* must not be followed by other values".
ASSUME RequestsAssumption ==
    /\ Documents \subseteq Seq(Pieces) \ {<<>>}
    /\ \A d, e \in Documents : BeginsWith(e, d) => d = e
    /\ Unwritten \notin Pieces
    /\ Sendable \subseteq Documents
    /\ Taken \subseteq Documents /\ Fatal \subseteq Documents /\ Taken \cap Fatal = {}
    /\ Capacity \in Nat \ {0} /\ MaxWrites \in Nat

VARIABLES writes,    \* requests the client has written
          stream,    \* what is written and not received
          buffer,    \* msg, up to the first NUL
          received,  \* a packet was received and is not published
          packets,   \* history: packets so far
          acted,     \* history: what was acted on for each packet, <<>> for nothing
          whole,     \* history: every packet was one request
          aborted    \* an assertion has failed: the process is gone

rvars == <<writes, stream, buffer, received, packets, acted, whole, aborted>>

\* The stack of a new thread is blank.
RInit ==
    /\ writes = 0 /\ stream = <<>> /\ buffer = <<>>
    /\ received = FALSE
    /\ packets = <<>> /\ acted = <<>>
    /\ whole = TRUE /\ aborted = FALSE

\* A client may write before it has read the reply to what it wrote.
WriteRequest(d) ==
    /\ ~aborted /\ writes < MaxWrites
    /\ writes' = writes + 1
    /\ stream' = stream \o d
    /\ UNCHANGED <<buffer, received, packets, acted, whole, aborted>>

First(n) == SubSeq(stream, 1, n)
From(text, n) == SubSeq(text, n, Len(text))

\* Mutant: the last piece is not copied.
ReceiveOneLess(n) ==
    /\ ~aborted /\ ~received /\ n <= Capacity
    /\ buffer' = SubSeq(stream, 1, n - 1) \o From(buffer, n)
    /\ stream' = From(stream, n + 1)
    /\ packets' = Append(packets, First(n))
    /\ whole' = (whole /\ First(n) \in Sendable)
    /\ received' = TRUE
    /\ UNCHANGED <<writes, acted, aborted>>

\* recv returns some of what has arrived.
Receive(n) ==
    /\ ~aborted /\ ~received /\ n <= Capacity
    /\ buffer' = First(n) \o From(buffer, n + 1)
    /\ stream' = From(stream, n + 1)
    /\ packets' = Append(packets, First(n))
    /\ whole' = (whole /\ First(n) \in Sendable)
    /\ received' = TRUE
    /\ UNCHANGED <<writes, acted, aborted>>

\* A string that fills the buffer does not end there, unless by luck.
Strings(text) == {text} \union IF Len(text) = Capacity THEN {Append(text, Unwritten)} ELSE {}

\* Mutant: the parser stops where a document ends.
TakesBeginning(text) == \E d \in Taken : BeginsWith(text, d)

\* An observer takes the documents with its commands. Each observer parses the
\* string again, and one at most takes it; the rest return.
Takes(text) == text \in Taken

\* publishClientMsg to observers whose wantedIp is empty.
Publish ==
    /\ ~aborted /\ received
    /\ \E text \in Strings(buffer) :
        /\ acted' = Append(acted, IF Takes(text) THEN text ELSE <<>>)
        /\ aborted' = (text \in Fatal)
    /\ received' = FALSE
    /\ UNCHANGED <<writes, stream, buffer, packets, whole>>

RNext ==
    \/ \E d \in Sendable : WriteRequest(d)
    \/ \E n \in DOMAIN stream : Receive(n)
    \/ Publish

RSpec == RInit /\ [][RNext]_rvars
-----------------------------------------------------------------------------
\* As long as every packet is one request, the handlers act on what was sent
\* and on nothing else. But a request that is shorter than an earlier one on
\* the same connection is not heard, and never answered: the end of the earlier
\* one is still behind it.
Longest(i) == \A j \in 1..i : Len(packets[j]) <= Len(packets[i])
NoneFull(i) == \A j \in 1..i : Len(packets[j]) < Capacity
HeardUnlessShorter ==
    whole => \A i \in DOMAIN acted : NoneFull(i) =>
        acted[i] = IF packets[i] \in Taken /\ Longest(i) THEN packets[i] ELSE <<>>

\* What a handler acts on was written by the client, piece by piece: the packet
\* just received, and behind it what the latest packet of that length left at
\* the same place. Requests in parts can so make up one that was never sent.
Covers(k, j, i) == k <= i /\ j <= Len(packets[k]) /\ \A l \in (k + 1)..i : Len(packets[l]) < j
MadeOfPackets ==
    \A i \in DOMAIN acted : \A j \in DOMAIN acted[i] :
        \E k \in DOMAIN packets : Covers(k, j, i) /\ acted[i][j] = packets[k][j]
=============================================================================
