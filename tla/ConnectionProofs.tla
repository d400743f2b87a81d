--------------------------- MODULE ConnectionProofs ---------------------------
(* Proofs about the two ends of a connection: Requests, the server's, and      *)
(* ClientManager, the client's; and about the tracker's sockets to an agent,   *)
(* AgentSockets.                                                               *)
EXTENDS Requests, ClientManager, AgentSockets, FiniteSetTheorems, SequenceTheorems, TLAPS

Texts == Seq(Pieces)
Results == Taken \union {<<>>}

RTypes ==
    /\ writes \in Nat
    /\ stream \in Texts /\ buffer \in Texts
    /\ received \in BOOLEAN /\ whole \in BOOLEAN /\ aborted \in BOOLEAN
    /\ packets \in Seq(Texts) /\ acted \in Seq(Results)
    /\ Len(packets) = Len(acted) + (IF received THEN 1 ELSE 0)
    /\ Len(buffer) <= Capacity

\* The buffer is what the packets, one over the other, have left there.
Overlaid ==
    /\ \A j \in DOMAIN buffer : \E k \in DOMAIN packets :
          Covers(k, j, Len(packets)) /\ buffer[j] = packets[k][j]
    /\ \A k \in DOMAIN packets : Len(packets[k]) <= Len(buffer)
    /\ packets # <<>> => BeginsWith(buffer, packets[Len(packets)])

AllWhole == whole => \A k \in DOMAIN packets : packets[k] \in Sendable

RInv == RTypes /\ Overlaid /\ AllWhole

\* The numbers among the constants.
LEMMA CapacityNatural == Capacity \in Nat \ {0} /\ MaxWrites \in Nat
  BY RequestsAssumption

\* Initially there is nothing.
LEMMA RInitInv == RInit => RInv /\ HeardUnlessShorter /\ MadeOfPackets
<1> SUFFICES ASSUME RInit PROVE RInv /\ HeardUnlessShorter /\ MadeOfPackets
  OBVIOUS
<1>1. RTypes
  <2>1. <<>> \in Texts /\ <<>> \in Seq(Texts) /\ <<>> \in Seq(Results) /\ Len(<<>>) = 0
    BY DEF Texts
  <2> QED
    <3>1. Len(packets) = 0 /\ Len(acted) = 0 /\ Len(buffer) = 0 /\ writes \in Nat /\ ~received
      BY <2>1 DEF RInit
    <3>2. whole \in BOOLEAN /\ aborted \in BOOLEAN /\ received \in BOOLEAN
      BY DEF RInit
    <3>3. /\ stream \in Texts /\ buffer \in Texts
          /\ packets \in Seq(Texts) /\ acted \in Seq(Results)
      BY <2>1 DEF RInit
    <3> QED
      BY <3>1, <3>2, <3>3, CapacityNatural DEF RTypes
<1>2. Overlaid /\ AllWhole
  BY DEF RInit, Overlaid, AllWhole
<1> QED
  BY <1>1, <1>2 DEF RInit, RInv, HeardUnlessShorter, MadeOfPackets

-------------------------------------------------------------------------------
\* Two texts, one behind the other.
LEMMA JoinedTexts ==
  ASSUME NEW s \in Texts, NEW t \in Texts, NEW n \in Nat, Len(s) = n
  PROVE  /\ s \o t \in Texts /\ Len(s \o t) = n + Len(t)
         /\ \A i \in 1..(n + Len(t)) : (s \o t)[i] = IF i <= n THEN s[i] ELSE t[i - n]
  BY ConcatProperties DEF Texts

\* What a receive writes over the buffer.
LEMMA ReceivedBuffer ==
  ASSUME RTypes, NEW n \in DOMAIN stream, n <= Capacity,
         NEW new, new = First(n) \o From(buffer, n + 1)
  PROVE  /\ First(n) \in Texts /\ Len(First(n)) = n /\ n \in Nat
         /\ From(stream, n + 1) \in Texts
         /\ new \in Texts
         /\ Len(new) = IF Len(buffer) < n THEN n ELSE Len(buffer)
         /\ \A j \in 1..n : new[j] = First(n)[j]
         /\ \A j \in (n + 1)..Len(buffer) : new[j] = buffer[j]
<1>1. /\ n \in 1..Len(stream) /\ n \in Nat /\ Len(stream) \in Nat /\ Len(buffer) \in Nat
      /\ \A i \in 1..Len(stream) : stream[i] \in Pieces
      /\ \A i \in 1..Len(buffer) : buffer[i] \in Pieces
  BY DEF RTypes, Texts
<1>2. First(n) \in Texts /\ Len(First(n)) = n
  <2>1. \A i \in 1..n : stream[i] \in Pieces
    BY <1>1
  <2> QED
    BY <1>1, <2>1, SubSeqProperties DEF First, Texts
<1>3. From(stream, n + 1) \in Texts
  <2>1. \A i \in (n + 1)..Len(stream) : stream[i] \in Pieces
    BY <1>1
  <2> QED
    BY <1>1, <2>1, SubSeqProperties DEF From, Texts
<1> DEFINE rest == From(buffer, n + 1)
<1>4. /\ rest \in Texts
      /\ Len(rest) = IF n + 1 <= Len(buffer) THEN Len(buffer) - n ELSE 0
      /\ \A i \in 1..(Len(buffer) - n) : rest[i] = buffer[n + i]
  <2>1. \A i \in (n + 1)..Len(buffer) : buffer[i] \in Pieces
    BY <1>1
  <2>2. /\ rest \in Seq(Pieces)
        /\ Len(rest) = IF n + 1 <= Len(buffer) THEN Len(buffer) - (n + 1) + 1 ELSE 0
        /\ \A i \in 1..(Len(buffer) - (n + 1) + 1) : rest[i] = buffer[(n + 1) + i - 1]
    BY <1>1, <2>1, SubSeqProperties DEF From
  <2>3. \A i \in 1..(Len(buffer) - n) : rest[i] = buffer[n + i]
    <3> SUFFICES ASSUME NEW i \in 1..(Len(buffer) - n) PROVE rest[i] = buffer[n + i]
      OBVIOUS
    <3>1. i \in 1..(Len(buffer) - (n + 1) + 1) /\ (n + 1) + i - 1 = n + i
      BY <1>1
    <3> QED
      BY <2>2, <3>1
  <2> QED
    BY <1>1, <2>2, <2>3 DEF Texts
<1> HIDE DEF rest
<1>5. /\ new \in Texts
      /\ Len(new) = n + Len(rest)
      /\ \A i \in 1..Len(new) : new[i] = IF i <= n THEN First(n)[i] ELSE rest[i - n]
  <2>1. new = First(n) \o rest
    BY DEF rest
  <2>2. new \in Texts
    BY <1>2, <1>4, <2>1, ConcatProperties DEF Texts
  <2>3. /\ Len(new) = n + Len(rest)
        /\ \A i \in 1..(n + Len(rest)) : new[i] = IF i <= n THEN First(n)[i] ELSE rest[i - n]
    <3>1. n \in Nat /\ First(n) \in Texts /\ Len(First(n)) = n /\ rest \in Texts
      BY <1>1, <1>2, <1>4
    <3>2. /\ Len(First(n) \o rest) = n + Len(rest)
          /\ \A i \in 1..(n + Len(rest)) :
               (First(n) \o rest)[i] = IF i <= n THEN First(n)[i] ELSE rest[i - n]
      BY <3>1, JoinedTexts
    <3> QED
      BY <2>1, <3>2
  <2> QED
    BY <2>2, <2>3
<1>6. Len(new) = IF Len(buffer) < n THEN n ELSE Len(buffer)
  BY <1>1, <1>4, <1>5
<1>7. \A j \in 1..n : new[j] = First(n)[j]
  BY <1>1, <1>5, <1>6
<1>8. \A j \in (n + 1)..Len(buffer) : new[j] = buffer[j]
  <2> SUFFICES ASSUME NEW j \in (n + 1)..Len(buffer) PROVE new[j] = buffer[j]
    OBVIOUS
  <2>1. j - n \in 1..(Len(buffer) - n) /\ n + (j - n) = j
    BY <1>1
  <2>2. j \in 1..Len(new) /\ ~(j <= n)
    BY <1>1, <1>6
  <2>3. rest[j - n] = buffer[j]
    BY <1>4, <2>1
  <2> QED
    BY <1>5, <2>2, <2>3
<1> QED
  BY <1>1, <1>2, <1>3, <1>5, <1>6, <1>7, <1>8

\* A packet more leaves what is known of the earlier ones alone.
LEMMA EarlierPackets ==
  ASSUME RTypes, NEW p \in Texts, packets' = Append(packets, p)
  PROVE  /\ packets' \in Seq(Texts) /\ Len(packets') = Len(packets) + 1
         /\ packets'[Len(packets) + 1] = p
         /\ \A k \in DOMAIN packets : k \in DOMAIN packets' /\ packets'[k] = packets[k]
         /\ DOMAIN packets' = DOMAIN packets \union {Len(packets) + 1}
  BY AppendProperties DEF RTypes

\* Receiving keeps what was published as it is.
LEMMA ReceiveKeeps ==
  ASSUME RInv, NEW n \in DOMAIN stream, Receive(n)
  PROVE  /\ RInv'
         /\ HeardUnlessShorter => HeardUnlessShorter'
         /\ MadeOfPackets => MadeOfPackets'
<1> DEFINE p == First(n)
<1>0. RTypes /\ Overlaid /\ AllWhole
  BY DEF RInv
<1> PICK last \in Nat : last = Len(packets)
  BY <1>0 DEF RTypes
<1>1. /\ p \in Texts /\ Len(p) = n /\ n \in Nat
      /\ stream' \in Texts /\ buffer' \in Texts
      /\ Len(buffer') = IF Len(buffer) < n THEN n ELSE Len(buffer)
      /\ \A j \in 1..n : buffer'[j] = p[j]
      /\ \A j \in (n + 1)..Len(buffer) : buffer'[j] = buffer[j]
  BY <1>0, ReceivedBuffer DEF Receive
<1>2. /\ packets' \in Seq(Texts) /\ Len(packets') = last + 1
      /\ packets'[last + 1] = p
      /\ \A k \in DOMAIN packets : k \in DOMAIN packets' /\ packets'[k] = packets[k]
      /\ DOMAIN packets' = DOMAIN packets \union {last + 1}
  BY <1>0, <1>1, EarlierPackets DEF Receive
<1>3. last \in Nat /\ Len(buffer) \in Nat /\ DOMAIN packets = 1..last
  BY <1>0 DEF RTypes, Texts
<1>4. DOMAIN buffer = 1..Len(buffer) /\ DOMAIN buffer' = 1..Len(buffer')
  BY <1>0, <1>1 DEF RTypes, Texts
<1>5. n \in 1..Capacity /\ ~received /\ acted' = acted
  <2>1. n <= Capacity /\ ~received /\ acted' = acted
    BY DEF Receive
  <2>2. n \in 1..Len(stream)
    BY <1>0 DEF RTypes, Texts
  <2> QED
    BY <2>1, <2>2, CapacityNatural
<1>6. acted \in Seq(Results) /\ DOMAIN acted = DOMAIN packets /\ Len(acted) = last
  BY <1>0, <1>5 DEF RTypes
<1> HIDE DEF p
<1>7. RTypes'
  <2>1. /\ writes' = writes /\ aborted' = aborted /\ received' = TRUE
        /\ whole' = (whole /\ First(n) \in Sendable)
    BY DEF Receive
  <2>2. whole' \in BOOLEAN
    BY <2>1
  <2> QED
    BY <1>0, <1>1, <1>2, <1>3, <1>5, <1>6, <2>1, <2>2 DEF RTypes
<1>8. Overlaid'
  <2>1. ASSUME NEW j \in DOMAIN buffer'
        PROVE  \E k \in DOMAIN packets' : Covers(k, j, Len(packets))' /\ buffer'[j] = packets'[k][j]
    <3>1. CASE j <= n
      <4>1. last + 1 \in DOMAIN packets' /\ buffer'[j] = packets'[last + 1][j]
        BY <1>1, <1>2, <1>4, <3>1
      <4>2. Covers(last + 1, j, Len(packets))'
        BY <1>1, <1>2, <1>3, <3>1 DEF Covers
      <4> QED
        BY <4>1, <4>2
    <3>2. CASE ~(j <= n)
      <4>1. j \in (n + 1)..Len(buffer) /\ j \in DOMAIN buffer /\ buffer'[j] = buffer[j]
        BY <1>1, <1>3, <1>4, <3>2
      <4>2. PICK k \in DOMAIN packets : Covers(k, j, last) /\ buffer[j] = packets[k][j]
        BY <1>0, <4>1 DEF Overlaid
      <4>3. k \in DOMAIN packets' /\ packets'[k] = packets[k]
        BY <1>2
      <4>4. k <= last /\ j <= Len(packets[k]) /\ \A l \in (k + 1)..last : Len(packets[l]) < j
        BY <4>2 DEF Covers
      <4>5. k \in 1..last /\ n < j /\ j \in Nat
        BY <1>1, <1>3, <3>2, <4>1
      <4>6. \A l \in (k + 1)..(last + 1) : Len(packets'[l]) < j
        <5> SUFFICES ASSUME NEW l \in (k + 1)..(last + 1) PROVE Len(packets'[l]) < j
          OBVIOUS
        <5>1. CASE l = last + 1
          BY <1>1, <1>2, <4>5, <5>1
        <5>2. CASE l # last + 1
          <6>1. l \in (k + 1)..last /\ l \in DOMAIN packets
            BY <1>3, <4>5, <5>2
          <6> QED
            BY <1>2, <4>4, <6>1
        <5> QED
          BY <5>1, <5>2
      <4>7. Covers(k, j, Len(packets))'
        BY <1>2, <1>3, <4>3, <4>4, <4>5, <4>6 DEF Covers
      <4> QED
        BY <4>1, <4>2, <4>3, <4>7
    <3> QED
      BY <3>1, <3>2
  <2>2. \A k \in DOMAIN packets' : Len(packets'[k]) <= Len(buffer')
    <3>1. \A k \in DOMAIN packets : Len(packets[k]) \in Nat /\ Len(packets[k]) <= Len(buffer)
      BY <1>0 DEF Overlaid, RTypes, Texts
    <3> QED
      BY <1>1, <1>2, <1>3, <3>1
  <2>3. BeginsWith(buffer', p)
    <3>1. Len(p) <= Len(buffer')
      BY <1>1, <1>3
    <3>2. SubSeq(buffer', 1, n) \in Seq(Pieces) /\ Len(SubSeq(buffer', 1, n)) = n
          /\ \A i \in 1..n : SubSeq(buffer', 1, n)[i] = buffer'[i]
      BY <1>1, <1>5, <3>1, SubSeqProperties DEF Texts
    <3>3. SubSeq(buffer', 1, n) = p
      BY <1>1, <3>2, SeqEqual DEF Texts
    <3> QED
      BY <1>1, <3>1, <3>3 DEF BeginsWith
  <2> QED
    BY <1>2, <2>1, <2>2, <2>3 DEF Overlaid
<1>9. AllWhole'
  BY <1>0, <1>2 DEF AllWhole, Receive, p
<1>10. HeardUnlessShorter => HeardUnlessShorter'
  <2> SUFFICES ASSUME HeardUnlessShorter, whole', NEW i \in DOMAIN acted, NoneFull(i)'
               PROVE  acted[i] = IF packets'[i] \in Taken /\ Longest(i)' THEN packets'[i] ELSE <<>>
    BY <1>5 DEF HeardUnlessShorter
  <2>1. whole
    BY DEF Receive
  <2>2. \A j \in 1..i : packets'[j] = packets[j]
    BY <1>2, <1>3, <1>6
  <2>3. NoneFull(i) /\ (Longest(i)' <=> Longest(i)) /\ packets'[i] = packets[i]
    BY <1>2, <1>6, <2>2 DEF NoneFull, Longest
  <2> QED
    BY <2>1, <2>3 DEF HeardUnlessShorter
<1>11. MadeOfPackets => MadeOfPackets'
  <2> SUFFICES ASSUME MadeOfPackets, NEW i \in DOMAIN acted, NEW j \in DOMAIN acted[i]
               PROVE  \E k \in DOMAIN packets' : Covers(k, j, i)' /\ acted[i][j] = packets'[k][j]
    BY <1>5 DEF MadeOfPackets
  <2>1. PICK k \in DOMAIN packets : Covers(k, j, i) /\ acted[i][j] = packets[k][j]
    BY DEF MadeOfPackets
  <2>2. k \in DOMAIN packets' /\ \A l \in 1..i : packets'[l] = packets[l]
    BY <1>2, <1>3, <1>6
  <2>3. k \in 1..i
    BY <1>3, <1>6, <2>1 DEF Covers
  <2>4. Covers(k, j, i)'
    BY <1>3, <2>1, <2>2, <2>3 DEF Covers
  <2> QED
    BY <2>1, <2>2, <2>3, <2>4
<1> QED
  BY <1>7, <1>8, <1>9, <1>10, <1>11 DEF RInv
-------------------------------------------------------------------------------
\* A text that is a document and begins with a document is that document.
LEMMA NoDocumentBehind ==
  ASSUME NEW d \in Documents, NEW e \in Documents, BeginsWith(e, d)
  PROVE  d = e
  BY RequestsAssumption

\* A text that begins with a packet of its own length is that packet.
LEMMA WholeBuffer ==
  ASSUME NEW text \in Texts, NEW part \in Texts, BeginsWith(text, part), Len(part) = Len(text)
  PROVE  text = part
<1>1. Len(text) \in Nat /\ \A i \in 1..Len(text) : text[i] \in Pieces
  BY DEF Texts
<1>2. /\ SubSeq(text, 1, Len(text)) \in Seq(Pieces)
      /\ Len(SubSeq(text, 1, Len(text))) = Len(text)
      /\ \A i \in 1..Len(text) : SubSeq(text, 1, Len(text))[i] = text[i]
  <2>1. /\ SubSeq(text, 1, Len(text)) \in Seq(Pieces)
        /\ Len(SubSeq(text, 1, Len(text))) = IF 1 <= Len(text) THEN Len(text) - 1 + 1 ELSE 0
        /\ \A i \in 1..(Len(text) - 1 + 1) : SubSeq(text, 1, Len(text))[i] = text[1 + i - 1]
    BY <1>1, SubSeqProperties
  <2> QED
    BY <1>1, <2>1
<1>3. SubSeq(text, 1, Len(text)) = text
  BY <1>1, <1>2, SeqEqual DEF Texts
<1> QED
  BY <1>3 DEF BeginsWith

\* What is taken is what is in the buffer.
LEMMA TakenIsBuffer ==
  ASSUME RTypes, NEW text \in Strings(buffer), text \in Documents
  PROVE  text = buffer
<1>1. CASE text = buffer
  BY <1>1
<1>2. CASE text # buffer
  <2>1. text = Append(buffer, Unwritten)
    BY <1>2 DEF Strings
  <2>2. Len(buffer) + 1 \in DOMAIN text /\ text[Len(buffer) + 1] = Unwritten
    BY <2>1 DEF RTypes, Texts
  <2>3. text \in Seq(Pieces)
    BY RequestsAssumption
  <2>4. Unwritten \in Pieces
    BY <2>2, <2>3
  <2> QED
    BY <2>4, RequestsAssumption
<1> QED
  BY <1>1, <1>2

\* While a packet waits to be published.
LEMMA LastPacket ==
  ASSUME RInv, received
  PROVE  /\ Len(packets) = Len(acted) + 1 /\ Len(acted) \in Nat
         /\ DOMAIN packets = 1..Len(packets) /\ packets # <<>>
         /\ Len(packets) \in DOMAIN packets
         /\ \A k \in DOMAIN packets : packets[k] \in Texts /\ Len(packets[k]) \in Nat
         /\ \A k \in DOMAIN packets : Len(packets[k]) <= Len(buffer)
         /\ BeginsWith(buffer, packets[Len(packets)])
         /\ buffer \in Texts /\ Len(buffer) \in Nat
         /\ buffer # <<>> => \E k \in DOMAIN packets : Len(packets[k]) = Len(buffer)
<1>1. RTypes /\ Overlaid
  BY DEF RInv
<1>2. /\ Len(packets) = Len(acted) + 1 /\ Len(acted) \in Nat
      /\ DOMAIN packets = 1..Len(packets) /\ packets # <<>>
      /\ Len(packets) \in DOMAIN packets
      /\ buffer \in Texts /\ Len(buffer) \in Nat
  BY <1>1 DEF RTypes, Texts
<1>3. \A k \in DOMAIN packets : packets[k] \in Texts /\ Len(packets[k]) \in Nat
  BY <1>1 DEF RTypes, Texts
<1>4. /\ \A k \in DOMAIN packets : Len(packets[k]) <= Len(buffer)
      /\ BeginsWith(buffer, packets[Len(packets)])
  BY <1>1, <1>2 DEF Overlaid
<1>5. ASSUME buffer # <<>> PROVE \E k \in DOMAIN packets : Len(packets[k]) = Len(buffer)
  <2>1. Len(buffer) \in DOMAIN buffer
    BY <1>2, <1>5 DEF Texts
  <2>2. PICK k \in DOMAIN packets : Covers(k, Len(buffer), Len(packets))
    BY <1>1, <2>1 DEF Overlaid
  <2>3. Len(packets[k]) >= Len(buffer)
    BY <2>2 DEF Covers
  <2> QED
    BY <1>2, <1>3, <1>4, <2>3
<1> QED
  BY <1>2, <1>3, <1>4, <1>5

\* What the handlers get of a packet that is one request.
LEMMA HeardOrNot ==
  ASSUME RInv, received, whole, NoneFull(Len(packets)), NEW text \in Strings(buffer)
  PROVE  (IF Takes(text) THEN text ELSE <<>>) =
           (IF packets[Len(packets)] \in Taken /\ Longest(Len(packets))
            THEN packets[Len(packets)] ELSE <<>>)
<1> DEFINE p == packets[Len(packets)]
<1>1. /\ DOMAIN packets = 1..Len(packets) /\ Len(packets) \in DOMAIN packets
      /\ \A k \in DOMAIN packets : packets[k] \in Texts /\ Len(packets[k]) \in Nat
      /\ \A k \in DOMAIN packets : Len(packets[k]) <= Len(buffer)
      /\ BeginsWith(buffer, p)
      /\ buffer \in Texts /\ Len(buffer) \in Nat
      /\ buffer # <<>> => \E k \in DOMAIN packets : Len(packets[k]) = Len(buffer)
  BY LastPacket
<1>2. p \in Documents
  BY <1>1, RequestsAssumption DEF RInv, AllWhole
<1>3. text = buffer
  <2>1. Len(buffer) < Capacity
    <3>1. CASE buffer = <<>>
      BY <3>1, CapacityNatural
    <3>2. CASE buffer # <<>>
      BY <1>1, <3>2 DEF NoneFull
    <3> QED
      BY <3>1, <3>2
  <2>2. Len(buffer) # Capacity
    BY <1>1, <2>1, CapacityNatural
  <2> QED
    BY <2>2 DEF Strings
<1>4. CASE Longest(Len(packets))
  <2>1. Len(buffer) = Len(p)
    <3>1. CASE buffer = <<>>
      <4>1. Len(buffer) = 0
        BY <3>1
      <4> QED
        BY <1>1, <4>1
    <3>2. CASE buffer # <<>>
      BY <1>1, <1>4, <3>2 DEF Longest
    <3> QED
      BY <3>1, <3>2
  <2>2. buffer = p
    BY <1>1, <2>1, WholeBuffer
  <2> QED
    BY <1>3, <1>4, <2>2 DEF Takes
<1>5. CASE ~Longest(Len(packets))
  <2>1. PICK j \in 1..Len(packets) : ~(Len(packets[j]) <= Len(p))
    BY <1>5 DEF Longest
  <2>2. Len(buffer) # Len(p)
    BY <1>1, <2>1
  <2>3. ~Takes(text)
    <3> SUFFICES ASSUME Takes(text) PROVE FALSE
      OBVIOUS
    <3>1. buffer \in Documents
      BY <1>3, RequestsAssumption DEF Takes
    <3>2. buffer = p
      BY <1>1, <1>2, <3>1, NoDocumentBehind
    <3> QED
      BY <2>2, <3>2
  <2> QED
    BY <1>5, <2>3
<1> QED
  BY <1>4, <1>5

\* Publishing adds a result that is as it should be.
LEMMA PublishKeeps ==
  ASSUME RInv, Publish
  PROVE  /\ RInv'
         /\ HeardUnlessShorter => HeardUnlessShorter'
         /\ MadeOfPackets => MadeOfPackets'
<1>1. PICK text \in Strings(buffer) :
        /\ acted' = Append(acted, IF Takes(text) THEN text ELSE <<>>)
        /\ aborted' = (text \in Fatal)
  BY DEF Publish
<1>2. /\ received /\ received' = FALSE /\ packets' = packets /\ whole' = whole
      /\ buffer' = buffer /\ stream' = stream /\ writes' = writes
  BY DEF Publish
<1>3. RTypes /\ Overlaid /\ AllWhole
  BY DEF RInv
<1> PICK result \in Results : result = IF Takes(text) THEN text ELSE <<>>
  BY DEF Takes, Results
<1> PICK n \in Nat : n = Len(packets)
  BY <1>3 DEF RTypes
<1>4. /\ n = Len(acted) + 1 /\ Len(acted) \in Nat /\ DOMAIN packets = 1..n
  BY <1>2, LastPacket
<1>5. acted \in Seq(Results)
  BY <1>3 DEF RTypes
<1>6. /\ acted' \in Seq(Results) /\ Len(acted') = n /\ DOMAIN acted' = 1..n
      /\ acted'[n] = result
      /\ \A i \in 1..(n - 1) : i \in DOMAIN acted /\ acted'[i] = acted[i]
  BY <1>1, <1>4, <1>5, AppendProperties
<1>7. RTypes'
  <2>1. aborted' \in BOOLEAN /\ received' \in BOOLEAN
    <3>1. (text \in Fatal) \in BOOLEAN
      OBVIOUS
    <3>2. aborted' \in BOOLEAN
      BY <1>1, <3>1, Zenon
    <3> QED
      BY <1>2, <3>2
  <2>2. Len(packets') = Len(acted') + 0
    BY <1>2, <1>6
  <2> QED
    BY <1>2, <1>3, <1>6, <2>1, <2>2 DEF RTypes
<1>8. Overlaid' /\ AllWhole'
  BY <1>2, <1>3 DEF Overlaid, AllWhole, Covers, BeginsWith
<1>9. HeardUnlessShorter => HeardUnlessShorter'
  <2> SUFFICES ASSUME HeardUnlessShorter, whole, NEW i \in 1..n, NoneFull(i)
               PROVE  acted'[i] = IF packets[i] \in Taken /\ Longest(i) THEN packets[i] ELSE <<>>
    BY <1>2, <1>6 DEF HeardUnlessShorter, NoneFull, Longest
  <2>1. CASE i = n
    BY <1>2, <1>6, <2>1, HeardOrNot
  <2>2. CASE i # n
    <3>1. i \in 1..(n - 1)
      BY <2>2
    <3>2. i \in DOMAIN acted /\ acted'[i] = acted[i]
      BY <1>6, <3>1
    <3> QED
      BY <3>2 DEF HeardUnlessShorter
  <2> QED
    BY <2>1, <2>2
<1>10. MadeOfPackets => MadeOfPackets'
  <2> SUFFICES ASSUME MadeOfPackets, NEW i \in 1..n, NEW j \in DOMAIN acted'[i]
               PROVE  \E k \in DOMAIN packets : Covers(k, j, i) /\ acted'[i][j] = packets[k][j]
    BY <1>2, <1>6 DEF MadeOfPackets, Covers
  <2>1. CASE i = n
    <3>1. Takes(text) /\ result = text
      BY <1>6, <2>1
    <3>2. text = buffer
      BY <1>3, <3>1, TakenIsBuffer, RequestsAssumption DEF Takes
    <3>3. acted'[i] = buffer
      BY <1>6, <2>1, <3>1, <3>2
    <3> QED
      BY <1>3, <2>1, <3>3 DEF Overlaid
  <2>2. CASE i # n
    <3>1. i \in 1..(n - 1)
      BY <2>2
    <3>2. i \in DOMAIN acted /\ acted'[i] = acted[i]
      BY <1>6, <3>1
    <3> QED
      BY <3>2 DEF MadeOfPackets
  <2> QED
    BY <2>1, <2>2
<1> QED
  BY <1>7, <1>8, <1>9, <1>10 DEF RInv

\* Writing a request only makes the stream longer.
LEMMA WriteKeeps ==
  ASSUME RInv, NEW d \in Sendable, WriteRequest(d)
  PROVE  /\ RInv'
         /\ HeardUnlessShorter => HeardUnlessShorter'
         /\ MadeOfPackets => MadeOfPackets'
<1>1. /\ writes' = writes + 1 /\ stream' = stream \o d
      /\ UNCHANGED <<buffer, received, packets, acted, whole, aborted>>
  BY DEF WriteRequest
<1>2. d \in Texts
  BY RequestsAssumption DEF Texts
<1>3. stream' \in Texts /\ writes' \in Nat
  BY <1>1, <1>2, ConcatProperties DEF RInv, RTypes, Texts
<1>4. RTypes'
  BY <1>1, <1>3 DEF RInv, RTypes
<1> QED
  BY <1>1, <1>4 DEF RInv, Overlaid, AllWhole, Covers, BeginsWith,
     HeardUnlessShorter, NoneFull, Longest, MadeOfPackets

\* No step breaks the invariant.
LEMMA RNextKeeps ==
  RInv /\ HeardUnlessShorter /\ MadeOfPackets /\ [RNext]_rvars
    => (RInv /\ HeardUnlessShorter /\ MadeOfPackets)'
<1> SUFFICES ASSUME RInv, HeardUnlessShorter, MadeOfPackets, [RNext]_rvars
             PROVE  (RInv /\ HeardUnlessShorter /\ MadeOfPackets)'
  OBVIOUS
<1>1. ASSUME NEW d \in Sendable, WriteRequest(d)
      PROVE  (RInv /\ HeardUnlessShorter /\ MadeOfPackets)'
  BY <1>1, WriteKeeps
<1>2. ASSUME NEW n \in DOMAIN stream, Receive(n)
      PROVE  (RInv /\ HeardUnlessShorter /\ MadeOfPackets)'
  BY <1>2, ReceiveKeeps
<1>3. CASE Publish
  BY <1>3, PublishKeeps
<1>4. CASE UNCHANGED rvars
  BY <1>4 DEF rvars, RInv, RTypes, Overlaid, AllWhole, Covers, BeginsWith,
     HeardUnlessShorter, NoneFull, Longest, MadeOfPackets
<1> QED
  BY <1>1, <1>2, <1>3, <1>4 DEF RNext

\* Every request that comes in a packet of its own is heard as it was sent,
\* unless it is shorter than an earlier one, and then it never is
\* (server.cpp:38-56, hack_action.cpp:15-29).
THEOREM RequestsHeard == RSpec => []HeardUnlessShorter
  BY RInitInv, RNextKeeps, PTL DEF RSpec

\* However packets are cut, what a handler acts on is made of what the client
\* wrote, each piece at its place (server.cpp:38-56).
THEOREM NothingInvented == RSpec => []MadeOfPackets
  BY RInitInv, RNextKeeps, PTL DEF RSpec

-----------------------------------------------------------------------------

\* A packet that is published late is the last: stop is never reset.
LateStops ==
    \A k \in Connection : late[k] \in {0, 1} /\ (late[k] = 1 => stop /\ tpc[k] \in {"loop", "ended"})

\* Until m_sockfd is closed it is what connectTo has opened.
OwnSocket ==
    sockfd \in Descriptors /\ closes = 0 => table[sockfd] = connects /\ connects > 0

ReceiverPC == {"none", "loop", "recv", "publish", "close", "ended"}

CTypes ==
    /\ stop \in BOOLEAN
    /\ tpc \in [Connection -> ReceiverPC]
    /\ table \in [Descriptors \union {Stdin} -> Int]
    /\ late \in [Connection -> Nat]
    /\ closes \in Nat /\ connects \in Nat

CInv == CTypes /\ LateStops /\ OwnSocket

\* The bounds among the constants.
LEMMA ClientConstants ==
  /\ MaxConnects \in Nat /\ MaxPackets \in Nat /\ MaxFinishes \in Nat
  /\ Descriptors \subseteq Nat \ {0}
  BY ClientAssumption

\* No step publishes a second packet late.
LEMMA LateKept ==
  ASSUME CTypes, LateStops, [CNext]_cvars
  PROVE  LateStops'
<1>1. CASE Subscribe
  BY <1>1 DEF Subscribe, threads, LateStops
<1>2. CASE UnsubscribeAll
  BY <1>2 DEF UnsubscribeAll, threads, LateStops
<1>3. CASE ConnectTo
  BY <1>3 DEF ConnectTo, threads, LateStops
<1>4. CASE SocketFails
  BY <1>4 DEF SocketFails, threads, LateStops
<1>5. CASE Connected
  BY <1>5 DEF Connected, members, LateStops, CTypes
<1>6. CASE AssignTask
  BY <1>6 DEF AssignTask, threads, LateStops
<1>7. CASE ConnectFails
  BY <1>7 DEF ConnectFails, members, threads, LateStops
<1>8. CASE WaitResponse
  BY <1>8 DEF WaitResponse, members, threads, LateStops
<1>9. CASE Join
  BY <1>9 DEF Join, members, LateStops
<1>10. CASE Finish
  BY <1>10 DEF Finish, threads, LateStops
<1>11. CASE FinishClose
  BY <1>11 DEF FinishClose, members, threads, LateStops
<1>12. CASE Destroy
  BY <1>12 DEF Destroy, members, threads, LateStops
<1>13. ASSUME NEW d \in Descriptors, OpenSocket(d) PROVE LateStops'
  BY <1>13 DEF OpenSocket, threads, LateStops
<1>14. ASSUME NEW d \in Descriptors, OpenForeign(d) PROVE LateStops'
  BY <1>14 DEF OpenForeign, members, owner, threads, LateStops
<1>15. ASSUME NEW k \in Connection, Stopped(k) PROVE LateStops'
  BY <1>15 DEF Stopped, Goto, members, owner, LateStops, CTypes
<1>16. ASSUME NEW k \in Connection, Recv(k) PROVE LateStops'
  BY <1>16 DEF Recv, Goto, members, owner, LateStops, CTypes
<1>17. ASSUME NEW k \in Connection, RecvPacket(k) PROVE LateStops'
  BY <1>17 DEF RecvPacket, Goto, members, owner, LateStops, CTypes
<1>18. ASSUME NEW k \in Connection, PublishServerMsg(k) PROVE LateStops'
  BY <1>18 DEF PublishServerMsg, Goto, members, owner, LateStops, CTypes
<1>19. ASSUME NEW k \in Connection, RecvEnds(k) PROVE LateStops'
  BY <1>19 DEF RecvEnds, Goto, owner, LateStops, CTypes
<1>20. ASSUME NEW k \in Connection, ReceiverFinishes(k) PROVE LateStops'
  BY <1>20 DEF ReceiverFinishes, Goto, owner, LateStops, CTypes
<1>21. ASSUME NEW k \in Connection, ServerSends(k) PROVE LateStops'
  BY <1>21 DEF ServerSends, members, owner, threads, LateStops
<1>22. ASSUME NEW k \in Connection, ServerCloses(k) PROVE LateStops'
  BY <1>22 DEF ServerCloses, members, owner, threads, LateStops
<1>23. CASE UNCHANGED cvars
  BY <1>23 DEF cvars, members, owner, threads, LateStops
<1> QED
    BY <1>1, <1>2, <1>3, <1>4, <1>5, <1>6, <1>7, <1>8, <1>9, <1>10, <1>11, <1>12, <1>13, <1>14,
     <1>15, <1>16, <1>17, <1>18, <1>19, <1>20, <1>21, <1>22, <1>23 DEF CNext, Receiver

\* No step but close takes the socket away.
LEMMA SocketKept ==
  ASSUME CTypes, OwnSocket, [CNext]_cvars
  PROVE  OwnSocket'
<1>1. CASE Subscribe
  BY <1>1 DEF Subscribe, threads, OwnSocket
<1>2. CASE UnsubscribeAll
  BY <1>2 DEF UnsubscribeAll, threads, OwnSocket
<1>3. CASE ConnectTo
  BY <1>3, ClientConstants DEF ConnectTo, OwnSocket, Stdin
<1>4. CASE SocketFails
  BY <1>4, ClientConstants DEF SocketFails, OwnSocket
<1>5. CASE Connected
  BY <1>5 DEF Connected, members, OwnSocket
<1>6. CASE AssignTask
  BY <1>6 DEF AssignTask, threads, OwnSocket
<1>7. CASE ConnectFails
  BY <1>7 DEF ConnectFails, members, threads, OwnSocket
<1>8. CASE WaitResponse
  BY <1>8 DEF WaitResponse, members, threads, OwnSocket
<1>9. CASE Join
  BY <1>9 DEF Join, members, OwnSocket
<1>10. CASE Finish
  BY <1>10 DEF Finish, threads, OwnSocket
<1>11. CASE FinishClose
  BY <1>11 DEF FinishClose, members, threads, OwnSocket, CTypes, CloseSocket
<1>12. CASE Destroy
  BY <1>12 DEF Destroy, members, threads, OwnSocket
<1>13. ASSUME NEW d \in Descriptors, OpenSocket(d) PROVE OwnSocket'
  BY <1>13 DEF OpenSocket, threads, OwnSocket, CTypes, Free
<1>14. ASSUME NEW d \in Descriptors, OpenForeign(d) PROVE OwnSocket'
  BY <1>14 DEF OpenForeign, members, owner, threads, OwnSocket, CTypes, Free, Foreign
<1>15. ASSUME NEW k \in Connection, Stopped(k) PROVE OwnSocket'
  BY <1>15 DEF Stopped, members, owner, OwnSocket
<1>16. ASSUME NEW k \in Connection, Recv(k) PROVE OwnSocket'
  BY <1>16 DEF Recv, members, owner, OwnSocket
<1>17. ASSUME NEW k \in Connection, RecvPacket(k) PROVE OwnSocket'
  BY <1>17 DEF RecvPacket, members, owner, OwnSocket
<1>18. ASSUME NEW k \in Connection, PublishServerMsg(k) PROVE OwnSocket'
  BY <1>18 DEF PublishServerMsg, members, owner, OwnSocket
<1>19. ASSUME NEW k \in Connection, RecvEnds(k) PROVE OwnSocket'
  BY <1>19 DEF RecvEnds, owner, OwnSocket
<1>20. ASSUME NEW k \in Connection, ReceiverFinishes(k) PROVE OwnSocket'
  BY <1>20 DEF ReceiverFinishes, owner, OwnSocket, CTypes, CloseSocket, Free
<1>21. ASSUME NEW k \in Connection, ServerSends(k) PROVE OwnSocket'
  BY <1>21 DEF ServerSends, members, owner, threads, OwnSocket
<1>22. ASSUME NEW k \in Connection, ServerCloses(k) PROVE OwnSocket'
  BY <1>22 DEF ServerCloses, members, owner, threads, OwnSocket
<1>23. CASE UNCHANGED cvars
  BY <1>23 DEF cvars, members, owner, threads, OwnSocket
<1> QED
    BY <1>1, <1>2, <1>3, <1>4, <1>5, <1>6, <1>7, <1>8, <1>9, <1>10, <1>11, <1>12, <1>13, <1>14,
     <1>15, <1>16, <1>17, <1>18, <1>19, <1>20, <1>21, <1>22, <1>23 DEF CNext, Receiver

\* No step breaks a type.
LEMMA ClientTypesKept ==
  ASSUME CTypes, [CNext]_cvars
  PROVE  CTypes'
<1>1. CASE Subscribe
  BY <1>1 DEF Subscribe, threads, CTypes
<1>2. CASE UnsubscribeAll
  BY <1>2 DEF UnsubscribeAll, threads, CTypes
<1>3. CASE ConnectTo
  BY <1>3 DEF ConnectTo, threads, CTypes, Stdin
<1>4. CASE SocketFails
  BY <1>4 DEF SocketFails, threads, CTypes
<1>5. CASE Connected
  BY <1>5 DEF Connected, members, CTypes, ReceiverPC
<1>6. CASE AssignTask
  BY <1>6 DEF AssignTask, threads, CTypes
<1>7. CASE ConnectFails
  BY <1>7 DEF ConnectFails, members, threads, CTypes
<1>8. CASE WaitResponse
  BY <1>8 DEF WaitResponse, members, threads, CTypes
<1>9. CASE Join
  BY <1>9 DEF Join, members, CTypes
<1>10. CASE Finish
  BY <1>10 DEF Finish, threads, CTypes
<1>11. CASE FinishClose
  BY <1>11 DEF FinishClose, members, threads, CTypes, CloseSocket, Free
<1>12. CASE Destroy
  BY <1>12 DEF Destroy, members, threads, CTypes
<1>13. ASSUME NEW d \in Descriptors, OpenSocket(d) PROVE CTypes'
  BY <1>13 DEF OpenSocket, threads, CTypes, Free
<1>14. ASSUME NEW d \in Descriptors, OpenForeign(d) PROVE CTypes'
  BY <1>14 DEF OpenForeign, members, owner, threads, CTypes, Free, Foreign
<1>15. ASSUME NEW k \in Connection, Stopped(k) PROVE CTypes'
  BY <1>15 DEF Stopped, Goto, members, owner, CTypes, ReceiverPC
<1>16. ASSUME NEW k \in Connection, Recv(k) PROVE CTypes'
  BY <1>16 DEF Recv, Goto, members, owner, CTypes, ReceiverPC
<1>17. ASSUME NEW k \in Connection, RecvPacket(k) PROVE CTypes'
  BY <1>17 DEF RecvPacket, Goto, members, owner, CTypes, ReceiverPC
<1>18. ASSUME NEW k \in Connection, PublishServerMsg(k) PROVE CTypes'
  BY <1>18 DEF PublishServerMsg, Goto, members, owner, CTypes, ReceiverPC
<1>19. ASSUME NEW k \in Connection, RecvEnds(k) PROVE CTypes'
  BY <1>19 DEF RecvEnds, Goto, owner, CTypes, ReceiverPC
<1>20. ASSUME NEW k \in Connection, ReceiverFinishes(k) PROVE CTypes'
  BY <1>20 DEF ReceiverFinishes, Goto, owner, CTypes, ReceiverPC, CloseSocket, Free
<1>21. ASSUME NEW k \in Connection, ServerSends(k) PROVE CTypes'
  BY <1>21 DEF ServerSends, members, owner, threads, CTypes
<1>22. ASSUME NEW k \in Connection, ServerCloses(k) PROVE CTypes'
  BY <1>22 DEF ServerCloses, members, owner, threads, CTypes
<1>23. CASE UNCHANGED cvars
  BY <1>23 DEF cvars, members, owner, threads, CTypes
<1> QED
    BY <1>1, <1>2, <1>3, <1>4, <1>5, <1>6, <1>7, <1>8, <1>9, <1>10, <1>11, <1>12, <1>13, <1>14,
     <1>15, <1>16, <1>17, <1>18, <1>19, <1>20, <1>21, <1>22, <1>23 DEF CNext, Receiver

\* Initially no thread runs and the socket is none.
LEMMA CInitInv == CInit => CInv
<1> SUFFICES ASSUME CInit PROVE CInv
  OBVIOUS
<1>1. LateStops /\ OwnSocket
  BY ClientConstants DEF CInit, LateStops, OwnSocket, Stdin
<1>2. tpc \in [Connection -> ReceiverPC] /\ late \in [Connection -> Nat]
  BY DEF CInit, ReceiverPC
<1>3. table \in [Descriptors \union {Stdin} -> Int]
  BY DEF CInit, Free, Foreign
<1> QED
  BY <1>1, <1>2, <1>3 DEF CInit, CInv, CTypes

\* No step breaks the invariant.
LEMMA CNextKeeps == CInv /\ [CNext]_cvars => CInv'
  BY LateKept, SocketKept, ClientTypesKept DEF CInv

\* A step that takes a descriptor from somebody else has closed it.
LEMMA FirstCloseOwn ==
  ASSUME CTypes, OwnSocket, [CNext]_cvars,
         NEW d \in Descriptors, table[d] = Foreign, closes = 0
  PROVE  table'[d] = Foreign
<1>1. CloseSocket => table'[d] = Foreign
  BY ClientConstants DEF CloseSocket, CTypes, OwnSocket, Foreign
<1>2. ASSUME NEW e \in Descriptors, OpenSocket(e) \/ OpenForeign(e)
      PROVE  table'[d] = Foreign
  BY <1>2, ClientConstants DEF OpenSocket, OpenForeign, CTypes, Free, Foreign
<1>3. table' = table \/ CloseSocket \/ (\E e \in Descriptors : OpenSocket(e) \/ OpenForeign(e))
  BY DEF CNext, Receiver, cvars, Subscribe, UnsubscribeAll, ConnectTo, SocketFails, Connected,
     AssignTask, ConnectFails, WaitResponse, Join, Finish, FinishClose, Destroy, Stopped, Recv,
     RecvPacket, PublishServerMsg, RecvEnds, ReceiverFinishes, ServerSends, ServerCloses
<1> QED
  BY <1>1, <1>2, <1>3

\* A client that has stopped publishes one packet more per thread at most, and
\* one that connects again publishes none (client_manager.cpp:67-101).
THEOREM LateHolds == CSpec => []LateAtMostOne
<1>1. CInv => LateAtMostOne
  BY DEF CInv, LateStops, LateAtMostOne
<1> QED
  BY <1>1, CInitInv, CNextKeeps, PTL DEF CSpec

\* The first close of a socket is a close of that socket
\* (client_manager.cpp:90-101).
THEOREM ForeignHolds == CSpec => ForeignKept
<1>1. CInv /\ [CNext]_cvars
        => [\A d \in Descriptors : table[d] = Foreign /\ closes = 0 => table'[d] = Foreign]_cvars
  BY FirstCloseOwn DEF CInv
<1> QED
  BY <1>1, CInitInv, CNextKeeps, PTL DEF CSpec, ForeignKept
-----------------------------------------------------------------------------
(* AgentSockets: how many connections an agent gets. A thread that connects    *)
(* found no socket. As long as none is cached, each socket is in the hands of  *)
(* a thread about to cache it; from then on only those still at it connect.    *)
At(pc) == {c \in Callers : cpc[c] = pc}

HoldersHaveSockets == \A c \in Callers : cpc[c] = "put" => mine[c] \in Sockets

(* Every socket, and every thread about to connect, but one accounts for a   *)
(* look-up that overlapped.                                                  *)
ConnectionsCounted ==
    /\ cached = NoSocket => Len(peer) = Cardinality(At("put"))
    /\ Len(peer) + Cardinality(At("connect")) <= 1 + overlaps

SInv == STypeOK /\ HoldersHaveSockets /\ ConnectionsCounted

(* The threads at one place are finitely many.                               *)
LEMMA AtFinite ==
  ASSUME NEW pc
  PROVE  IsFiniteSet(At(pc)) /\ Cardinality(At(pc)) \in Nat
<1>1. At(pc) \in SUBSET Callers
  BY DEF At
<1>2. IsFiniteSet(Callers)
  BY SocketsAssumption
<1> QED
  BY <1>1, <1>2, FS_Subset, FS_CardinalityType

(* A thread that goes on leaves one place for the other.                     *)
LEMMA StepMoves ==
  ASSUME STypeOK, NEW c \in Callers, NEW from \in CallPC, NEW to \in CallPC,
         from # to, Step(c, from, to)
  PROVE  /\ cpc' \in [Callers -> CallPC]
         /\ At(to)' = At(to) \cup {c} /\ c \notin At(to)
         /\ At(from)' = At(from) \ {c} /\ c \in At(from)
         /\ \A pc : pc # from /\ pc # to => At(pc)' = At(pc)
<1>1. cpc \in [Callers -> CallPC] /\ cpc[c] = from /\ cpc' = [cpc EXCEPT ![c] = to]
  BY DEF STypeOK, Step
<1> QED
  BY <1>1 DEF At

(* What that does to the numbers of threads.                                 *)
LEMMA StepCounts ==
  ASSUME STypeOK, NEW c \in Callers, NEW from \in CallPC, NEW to \in CallPC,
         from # to, Step(c, from, to)
  PROVE  /\ Cardinality(At(to)') = Cardinality(At(to)) + 1
         /\ Cardinality(At(from)') = Cardinality(At(from)) - 1
<1>1. At(to)' = At(to) \cup {c} /\ c \notin At(to)
  BY StepMoves
<1>2. At(from)' = At(from) \ {c} /\ c \in At(from)
  BY StepMoves
<1>3. IsFiniteSet(At(to)) /\ IsFiniteSet(At(from))
  BY AtFinite
<1>4. Cardinality(At(to) \cup {c}) = Cardinality(At(to)) + 1
  BY <1>1, <1>3, FS_AddElement
<1>5. Cardinality(At(from) \ {c}) = Cardinality(At(from)) - 1
  BY <1>2, <1>3, FS_RemoveElement
<1> QED
  BY <1>1, <1>2, <1>4, <1>5

(* The sockets that are open are some of those there are.                    *)
LEMMA CountedShared == SInv => SharedUnlessOverlap
<1> SUFFICES ASSUME SInv PROVE SharedUnlessOverlap
  OBVIOUS
<1> DEFINE open == {s \in Sockets : Open(s)}
<1>1. Len(peer) \in Nat /\ Sockets = 1..Len(peer) /\ overlaps \in Nat
  BY DEF SInv, STypeOK, Sockets
<1>2. IsFiniteSet(1..Len(peer)) /\ Cardinality(1..Len(peer)) = Len(peer)
  <2>1. 1 \in Int /\ Len(peer) \in Int
    BY <1>1
  <2>2. /\ IsFiniteSet(1..Len(peer))
        /\ Cardinality(1..Len(peer)) = IF 1 > Len(peer) THEN 0 ELSE Len(peer) - 1 + 1
    BY <2>1, FS_Interval, Zenon
  <2> QED
    BY <1>1, <2>2
<1>3. open \in SUBSET (1..Len(peer))
  BY <1>1
<1>4. Cardinality(open) \in Nat /\ Cardinality(open) <= Len(peer)
  BY <1>2, <1>3, FS_Subset, FS_CardinalityType
<1>5. Cardinality(At("connect")) \in Nat
  BY AtFinite
<1>6. Len(peer) + Cardinality(At("connect")) <= 1 + overlaps
  BY DEF SInv, ConnectionsCounted
<1>7. Cardinality(open) <= 1 + overlaps
  BY <1>1, <1>4, <1>5, <1>6
<1> QED
  BY <1>7 DEF SharedUnlessOverlap

(* No thread has begun, no socket is there.                                  *)
LEMMA SInitInv == SInit => SInv
<1> SUFFICES ASSUME SInit PROVE SInv
  OBVIOUS
<1>1. STypeOK
  BY SocketsAssumption DEF SInit, STypeOK, CallPC, Sockets
<1>2. HoldersHaveSockets
  BY DEF SInit, HoldersHaveSockets
<1>3. At("put") = {} /\ At("connect") = {} /\ Len(peer) = 0 /\ overlaps = 0
  BY DEF SInit, At
<1>4. ConnectionsCounted
  BY <1>3, FS_EmptySet DEF ConnectionsCounted
<1> QED
  BY <1>1, <1>2, <1>4 DEF SInv

(* A call that begins, or that has nothing to do with connecting, and what   *)
(* becomes of the agent, leave sockets and counts alone                      *)
(* (TraceThreadAction.java:12-33).                                           *)
LEMMA ElsewhereKeeps ==
  ASSUME SInv, NEW c \in Callers,
         Call(c) \/ TakeCached(c) \/ Write(c) \/ WriteFails(c) \/ ReadEnds(c)
  PROVE  SInv'
<1>1. PICK from \in CallPC \ {"connect", "put"}, to \in CallPC \ {"connect", "put"} :
         from # to /\ Step(c, from, to)
  BY DEF Call, TakeCached, Write, WriteFails, ReadEnds, CallPC
<1>2. cpc' \in [Callers -> CallPC] /\ At("put")' = At("put") /\ At("connect")' = At("connect")
  BY <1>1, StepMoves DEF SInv
<1>3. UNCHANGED <<cached, peer, agent, overlaps>>
  BY DEF Call, TakeCached, Write, WriteFails, ReadEnds
<1>4. mine' = mine \/ mine' = [mine EXCEPT ![c] = cached] \/ mine' = [mine EXCEPT ![c] = NoSocket]
  BY DEF Call, TakeCached, Write, WriteFails, ReadEnds, Return
<1>5. STypeOK'
  <2>1. calls' \in [Callers -> 0..MaxCalls]
    <3>1. calls \in [Callers -> 0..MaxCalls] /\ MaxCalls \in Nat
      BY SocketsAssumption DEF SInv, STypeOK
    <3>2. calls' = calls \/ (calls[c] < MaxCalls /\ calls' = [calls EXCEPT ![c] = calls[c] + 1])
      BY DEF Call, TakeCached, Write, WriteFails, ReadEnds
    <3>3. calls[c] < MaxCalls => calls[c] + 1 \in 0..MaxCalls
      BY <3>1
    <3>4. CASE calls' = calls
      BY <3>1, <3>4
    <3>5. CASE calls[c] < MaxCalls /\ calls' = [calls EXCEPT ![c] = calls[c] + 1]
      BY <3>1, <3>3, <3>5
    <3> QED
      BY <3>2, <3>4, <3>5
  <2>2. mine' \in [Callers -> Sockets' \union {NoSocket}]
    BY <1>3, <1>4 DEF SInv, STypeOK, Sockets
  <2> QED
    BY <1>2, <1>3, <2>1, <2>2 DEF SInv, STypeOK, Sockets, agent
<1>6. HoldersHaveSockets'
  <2> SUFFICES ASSUME NEW d \in Callers, cpc'[d] = "put" PROVE mine'[d] \in Sockets'
    BY DEF HoldersHaveSockets
  <2>1. d \in At("put") /\ d # c
    BY <1>1, <1>2 DEF At, Step
  <2>2. mine'[d] = mine[d]
    BY <1>4, <2>1 DEF SInv, STypeOK
  <2> QED
    BY <1>3, <2>1, <2>2 DEF SInv, HoldersHaveSockets, At, Sockets
<1>7. ConnectionsCounted'
  BY <1>2, <1>3 DEF SInv, ConnectionsCounted
<1> QED
  BY <1>5, <1>6, <1>7 DEF SInv

(* Nothing is cached: the thread is about to connect, as others may be and   *)
(* others that hold a socket may not. It is the first, or one look-up more   *)
(* overlaps (AgentHackAction.java:26-27).                                    *)
LEMMA FindNothingKeeps ==
  ASSUME SInv, NEW c \in Callers, FindNothing(c)
  PROVE  SInv'
<1>1. Step(c, "look", "connect") /\ "look" \in CallPC /\ "connect" \in CallPC
  BY DEF FindNothing, CallPC
<1>2. cpc' \in [Callers -> CallPC] /\ At("put")' = At("put")
  BY <1>1, StepMoves DEF SInv
<1>3. UNCHANGED <<calls, mine, cached, peer, agent>> /\ cached = NoSocket
  BY DEF FindNothing
<1>4. \/ Connecting = {} /\ overlaps' = overlaps
      \/ overlaps' = overlaps + 1
  BY DEF FindNothing, SInv, STypeOK
<1>5. overlaps \in Nat /\ overlaps' \in Nat /\ Len(peer) \in Nat
  BY <1>4 DEF SInv, STypeOK
<1>6. STypeOK'
  BY <1>2, <1>3, <1>5 DEF SInv, STypeOK, Sockets, agent
<1>7. HoldersHaveSockets'
  BY <1>2, <1>3 DEF SInv, HoldersHaveSockets, Sockets, At
<1>8. /\ Cardinality(At("connect")') = Cardinality(At("connect")) + 1
      /\ Cardinality(At("connect")) \in Nat
  BY <1>1, StepCounts, AtFinite DEF SInv
<1>9. Connecting = {} => Len(peer) = 0 /\ Cardinality(At("connect")) = 0
  <2> HAVE Connecting = {}
  <2>1. At("put") = {} /\ At("connect") = {}
    BY DEF Connecting, At
  <2> QED
    BY <1>3, <2>1, FS_EmptySet DEF SInv, ConnectionsCounted
<1>10. Len(peer') + Cardinality(At("connect")') <= 1 + overlaps'
  <2>1. Len(peer) + Cardinality(At("connect")) <= 1 + overlaps
    BY DEF SInv, ConnectionsCounted
  <2> QED
    BY <1>3, <1>4, <1>5, <1>8, <1>9, <2>1
<1>11. ConnectionsCounted'
  BY <1>2, <1>3, <1>10 DEF SInv, ConnectionsCounted
<1> QED
  BY <1>6, <1>7, <1>11 DEF SInv

(* A socket more, a thread about to connect less (lines 30-33).              *)
LEMMA ConnectKeeps ==
  ASSUME SInv, NEW c \in Callers, Connect(c)
  PROVE  SInv'
<1>1. Step(c, "connect", "put") /\ "put" \in CallPC /\ "connect" \in CallPC
  BY DEF Connect, CallPC
<1>2. cpc' \in [Callers -> CallPC] /\ At("put")' = At("put") \cup {c}
  BY <1>1, StepMoves DEF SInv
<1>3. UNCHANGED <<calls, cached, agent, overlaps>> /\ peer' = Append(peer, lives)
      /\ mine' = [mine EXCEPT ![c] = Len(peer) + 1]
  BY DEF Connect
<1>4. peer \in Seq(1..lives) /\ lives \in 1..lives /\ Len(peer) \in Nat
  BY DEF SInv, STypeOK
<1>5. peer' \in Seq(1..lives') /\ Len(peer') = Len(peer) + 1 /\ Sockets' = 1..(Len(peer) + 1)
  BY <1>3, <1>4 DEF agent, Sockets
<1>6. Sockets = 1..Len(peer) /\ Len(peer) + 1 \in Sockets' /\ Sockets \subseteq Sockets'
  BY <1>4, <1>5 DEF Sockets
<1>7. mine \in [Callers -> Sockets \union {NoSocket}]
  BY DEF SInv, STypeOK
<1>8. STypeOK'
  <2>1. mine' \in [Callers -> Sockets' \union {NoSocket}]
    BY <1>3, <1>6, <1>7
  <2> QED
    BY <1>2, <1>3, <1>5, <1>6, <2>1 DEF SInv, STypeOK, agent
<1>9. HoldersHaveSockets'
  <2> SUFFICES ASSUME NEW d \in Callers, cpc'[d] = "put" PROVE mine'[d] \in Sockets'
    BY DEF HoldersHaveSockets
  <2>1. CASE d = c
    BY <1>3, <1>6, <1>7, <2>1
  <2>2. CASE d # c
    <3>1. d \in At("put") /\ mine'[d] = mine[d]
      BY <1>2, <1>3, <1>7, <2>2 DEF At
    <3> QED
      BY <1>6, <3>1 DEF SInv, HoldersHaveSockets, At
  <2> QED
    BY <2>1, <2>2
<1>10. ConnectionsCounted'
  <2>1. /\ Cardinality(At("put")') = Cardinality(At("put")) + 1
        /\ Cardinality(At("connect")') = Cardinality(At("connect")) - 1
    BY <1>1, StepCounts DEF SInv
  <2>2. Cardinality(At("put")) \in Nat /\ Cardinality(At("connect")) \in Nat
        /\ overlaps \in Nat
    BY AtFinite DEF SInv, STypeOK
  <2> QED
    BY <1>3, <1>4, <1>5, <2>1, <2>2 DEF SInv, ConnectionsCounted
<1> QED
  BY <1>8, <1>9, <1>10 DEF SInv

(* Nobody listens: a thread about to connect less (lines 34-37).             *)
LEMMA CannotConnectKeeps ==
  ASSUME SInv, NEW c \in Callers, CannotConnect(c)
  PROVE  SInv'
<1>1. Step(c, "connect", "idle") /\ "idle" \in CallPC /\ "connect" \in CallPC
  BY DEF CannotConnect, CallPC
<1>2. cpc' \in [Callers -> CallPC] /\ At("put")' = At("put")
  BY <1>1, StepMoves DEF SInv
<1>3. UNCHANGED <<calls, cached, peer, agent, overlaps>> /\ mine' = [mine EXCEPT ![c] = NoSocket]
  BY DEF CannotConnect, Return
<1>4. STypeOK'
  BY <1>2, <1>3 DEF SInv, STypeOK, Sockets, agent
<1>5. HoldersHaveSockets'
  <2> SUFFICES ASSUME NEW d \in Callers, cpc'[d] = "put" PROVE mine'[d] \in Sockets'
    BY DEF HoldersHaveSockets
  <2>1. d \in At("put") /\ d # c
    BY <1>1, <1>2 DEF At, Step
  <2> QED
    BY <1>3, <2>1 DEF SInv, STypeOK, HoldersHaveSockets, At, Sockets
<1>6. ConnectionsCounted'
  <2>1. Cardinality(At("connect")') = Cardinality(At("connect")) - 1
    BY <1>1, StepCounts DEF SInv
  <2>2. Cardinality(At("connect")) \in Nat /\ overlaps \in Nat /\ Len(peer) \in Nat
    BY AtFinite DEF SInv, STypeOK
  <2> QED
    BY <1>2, <1>3, <2>1, <2>2 DEF SInv, ConnectionsCounted
<1> QED
  BY <1>4, <1>5, <1>6 DEF SInv

(* The first thread that caches its socket: from here on no other begins to  *)
(* connect. A later one takes its place in the map (lines 38-39).            *)
LEMMA PutSocketKeeps ==
  ASSUME SInv, NEW c \in Callers, PutSocket(c)
  PROVE  SInv'
<1>1. Step(c, "put", "write") /\ "put" \in CallPC /\ "write" \in CallPC
  BY DEF PutSocket, CallPC
<1>2. cpc' \in [Callers -> CallPC] /\ At("put")' = At("put") \ {c}
      /\ At("connect")' = At("connect")
  BY <1>1, StepMoves DEF SInv
<1>3. UNCHANGED <<calls, mine, peer, agent, overlaps>> /\ cached' = mine[c]
  BY DEF PutSocket
<1>4. mine[c] \in Sockets /\ mine[c] # NoSocket
  BY <1>1, SocketsAssumption DEF SInv, STypeOK, HoldersHaveSockets, Step, Sockets
<1>5. STypeOK'
  BY <1>2, <1>3, <1>4 DEF SInv, STypeOK, Sockets, agent
<1>6. HoldersHaveSockets'
  BY <1>2, <1>3 DEF SInv, HoldersHaveSockets, Sockets, At
<1>7. ConnectionsCounted'
  <2>1. Len(peer) + Cardinality(At("connect")) <= 1 + overlaps
    BY DEF SInv, ConnectionsCounted
  <2> QED
    BY <1>2, <1>3, <1>4, <2>1 DEF ConnectionsCounted
<1> QED
  BY <1>5, <1>6, <1>7 DEF SInv

(* The process dies, or another agent comes: the sockets stay.               *)
LEMMA AgentKeeps ==
  ASSUME SInv, AgentDies \/ AgentInjected
  PROVE  SInv'
<1>1. UNCHANGED <<cpc, calls, mine, cached, peer, overlaps>>
  BY DEF AgentDies, AgentInjected
<1>2. /\ running' \in BOOLEAN
      /\ lives' = lives \/ lives' = lives + 1
  <2>1. CASE AgentDies
    BY <2>1 DEF AgentDies
  <2>2. CASE AgentInjected
    BY <2>2 DEF AgentInjected
  <2> QED
    BY <2>1, <2>2
<1>3. lives' \in Nat \ {0} /\ peer' \in Seq(1..lives')
  <2>1. lives \in Nat \ {0} /\ peer \in Seq(1..lives)
    BY DEF SInv, STypeOK
  <2>2. lives' \in Nat \ {0} /\ 1..lives \subseteq 1..lives'
    BY <1>2, <2>1
  <2>3. Len(peer) \in Nat /\ peer \in [1..Len(peer) -> 1..lives]
    BY <2>1
  <2>4. peer \in [1..Len(peer) -> 1..lives']
    BY <2>2, <2>3
  <2>5. peer \in Seq(1..lives')
    BY <2>3, <2>4, SeqDef
  <2> QED
    BY <1>1, <2>2, <2>5
<1>4. STypeOK'
  BY <1>1, <1>2, <1>3 DEF SInv, STypeOK, Sockets
<1>5. HoldersHaveSockets' /\ ConnectionsCounted'
  BY <1>1 DEF SInv, HoldersHaveSockets, ConnectionsCounted, Sockets, At
<1> QED
  BY <1>4, <1>5 DEF SInv

(* SInv is inductive.                                                        *)
LEMMA SNextKeeps == SInv /\ [SNext]_svars => SInv'
<1> SUFFICES ASSUME SInv, [SNext]_svars PROVE SInv'
  OBVIOUS
<1>1. CASE \E c \in Callers :
         Call(c) \/ TakeCached(c) \/ Write(c) \/ WriteFails(c) \/ ReadEnds(c)
  BY <1>1, ElsewhereKeeps
<1>2. CASE \E c \in Callers : FindNothing(c)
  BY <1>2, FindNothingKeeps
<1>3. CASE \E c \in Callers : Connect(c)
  BY <1>3, ConnectKeeps
<1>4. CASE \E c \in Callers : CannotConnect(c)
  BY <1>4, CannotConnectKeeps
<1>5. CASE \E c \in Callers : PutSocket(c)
  BY <1>5, PutSocketKeeps
<1>6. CASE AgentDies \/ AgentInjected
  BY <1>6, AgentKeeps
<1>7. CASE UNCHANGED svars
  BY <1>7 DEF svars, agent, SInv, STypeOK, HoldersHaveSockets, ConnectionsCounted, Sockets, At
<1> QED
  BY <1>1, <1>2, <1>3, <1>4, <1>5, <1>6, <1>7 DEF SNext

(* Threads share one connection to the agent of a pid, with one more for     *)
(* each look-up that overlapped another's connecting, for any threads, calls *)
(* and agents (AgentHackAction.java:25-39).                                  *)
THEOREM ConnectionShared == SSpec => []SharedUnlessOverlap
<1>1. SSpec => []SInv
  BY SInitInv, SNextKeeps, PTL DEF SSpec
<1> QED
  BY <1>1, CountedShared, PTL

(* The types of the sockets and of the threads that use them.                *)
THEOREM SocketsTyped == SSpec => []STypeOK
<1>1. SSpec => []SInv
  BY SInitInv, SNextKeeps, PTL DEF SSpec
<1>2. SInv => STypeOK
  BY DEF SInv
<1> QED
  BY <1>1, <1>2, PTL
===============================================================================
