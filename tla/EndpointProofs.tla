--------------------------- MODULE EndpointProofs ---------------------------
(***************************************************************************)
(* The event loops implement the connections: whatever the two threads and *)
(* their sockets do is a behaviour of Connection, so that everything that  *)
(* is proved of Connection holds of a running pair of endpoints. On top of *)
(* that: the order of the stream, and that a network that keeps the order  *)
(* and loses nothing brings no error. The same for the interop programs,   *)
(* and what is in the files they save.                                     *)
(***************************************************************************)
EXTENDS Interop, ConnectionSafetyProofs, FiniteSetTheorems

\* Sockets hold packets that were sent, and the packet ep_server is about to
\* ingest again is still there.
SocketInv ==
    /\ inbox \in [Side -> Seq(sent)]
    /\ thread \in [Side -> Thread]
    /\ thread["server"] = "Again" => inbox["server"] # <<>>

\* A sequence of packets that were sent stays one as more are sent.
LEMMA SeqGrows ==
    ASSUME NEW S, NEW T, S \subseteq T, NEW q \in Seq(S)
    PROVE  q \in Seq(T)
<1>1. q \in [1..Len(q) -> S] /\ Len(q) \in Nat
  OBVIOUS
<1>2. q \in [1..Len(q) -> T]
  BY <1>1
<1> QED BY <1>1, <1>2

\* The network never forgets a packet.
LEMMA SentGrows == Next => sent \subseteq sent'
<1> SUFFICES ASSUME Next PROVE sent \subseteq sent'
  OBVIOUS
<1>1. CASE Connect BY <1>1 DEF Connect
<1>2. CASE \E p \in sent : Accept(p) BY <1>2 DEF Accept
<1>3. CASE \E s \in Side, p \in sent, t \in Tickets : Ingest(s, p, t) BY <1>3 DEF Ingest
<1>4. CASE \E s \in Side, sp \in SpaceId, room \in Rooms : Egest(s, sp, room)
  BY <1>4 DEF Egest
<1>5. CASE \E s \in Side : SendData(s) BY <1>5 DEF SendData
<1>6. CASE \E s \in Side, n \in 1..MaxRecv : RecvData(s, n) BY <1>6 DEF RecvData
<1>7. CASE \E s \in Side, sp \in SpaceId, code \in {"Known", "Unknown"} : PeerClose(s, sp, code)
  BY <1>7 DEF PeerClose
<1> QED BY <1>1, <1>2, <1>3, <1>4, <1>5, <1>6, <1>7 DEF Next

\* Every step of a thread is a step of the connections or leaves them alone.
LEMMA EpStep ==
    ASSUME SocketInv, EpNext
    PROVE  Next \/ UNCHANGED vars
<1>1. \A s \in Side : inbox[s] # <<>> => Head(inbox[s]) \in sent
  BY DEF SocketInv
<1>2. CASE EpClient BY <1>2 DEF EpClient, Next
<1>3. CASE EpServer BY <1>1, <1>3, Names DEF EpServer, Next
<1>4. CASE EpServerAgain
  <2>1. inbox["server"] # <<>> BY <1>4 DEF EpServerAgain, SocketInv
  <2> QED BY <1>1, <1>4, <2>1, Names DEF EpServerAgain, Next
<1>5. ASSUME NEW s \in Side, Run(s) PROVE Next \/ UNCHANGED vars
  <2>1. CASE Poll(s) BY <2>1 DEF Poll
  <2>2. CASE Recv(s) BY <1>1, <2>2 DEF Recv, Next
  <2>3. CASE RecvError(s) BY <2>3 DEF RecvError
  <2>4. CASE RecvNone(s) BY <2>4 DEF RecvNone
  <2>5. CASE Flush(s) BY <2>5 DEF Flush, Next
  <2>6. CASE FlushNone(s) BY <2>6 DEF FlushNone
  <2> QED BY <1>5, <2>1, <2>2, <2>3, <2>4, <2>5, <2>6 DEF Run
<1>6. ASSUME NEW s \in Side, App(s) PROVE Next
  BY <1>6 DEF App, Next
<1> QED BY <1>2, <1>3, <1>4, <1>5, <1>6 DEF EpNext

\* How a step changes the sockets and the threads: a socket loses its first
\* packet, or gets one that has just been sent.
LEMMA SocketStep ==
    ASSUME SocketInv, EpNext, sent \subseteq sent'
    PROVE  SocketInv'
<1>1. inbox \in [Side -> Seq(sent')]
  <2>1. \A s \in Side : inbox[s] \in Seq(sent')
    BY SeqGrows DEF SocketInv
  <2> QED BY <2>1 DEF SocketInv
<1>2. thread \in [Side -> Thread] /\ (thread["server"] = "Again" => inbox["server"] # <<>>)
  BY DEF SocketInv
<1>3. ASSUME NEW s \in Side, NEW p \in sent', Deliver(s, p)
      PROVE  /\ inbox' \in [Side -> Seq(sent')]
             /\ inbox["server"] # <<>> => inbox'["server"] # <<>>
  <2>1. Peer(s) \in Side BY DEF Peer, Side
  <2>2. CASE inbox' = inbox BY <1>1, <2>2
  <2>3. CASE inbox' = [inbox EXCEPT ![Peer(s)] = Append(inbox[Peer(s)], p)]
    <3>1. /\ Append(inbox[Peer(s)], p) \in Seq(sent')
          /\ Append(inbox[Peer(s)], p) # <<>>
      BY <1>1, <2>1
    <3> QED BY <1>1, <2>1, <2>3, <3>1, Names
  <2> QED BY <1>3, <2>2, <2>3 DEF Deliver
<1>4. ASSUME NEW s \in Side, inbox[s] # <<>>,
             inbox' = [inbox EXCEPT ![s] = Tail(inbox[s])]
      PROVE  inbox' \in [Side -> Seq(sent')]
  <2>1. Tail(inbox[s]) \in Seq(sent') BY <1>1, <1>4
  <2> QED BY <1>1, <1>4, <2>1
<1>5. CASE EpClient
  <2>1. InitialPacket \in sent' BY <1>5 DEF EpClient, Connect
  <2>2. Deliver("client", InitialPacket) /\ thread' = [thread EXCEPT !["client"] = "Loop"]
    BY <1>5 DEF EpClient
  <2>3. /\ inbox' \in [Side -> Seq(sent')]
        /\ inbox["server"] # <<>> => inbox'["server"] # <<>>
    BY <1>3, <2>1, <2>2, Names
  <2> QED BY <1>2, <2>2, <2>3, Names DEF SocketInv, Thread
<1>6. CASE EpServer
  BY <1>1, <1>2, <1>6, Names DEF EpServer, SocketInv, Thread
<1>7. CASE EpServerAgain
  <2>1. inbox["server"] # <<>> BY <1>2, <1>7 DEF EpServerAgain
  <2>2. inbox' \in [Side -> Seq(sent')]
    BY <1>4, <1>7, <2>1, Names DEF EpServerAgain
  <2> QED BY <1>2, <1>7, <2>2, Names DEF EpServerAgain, SocketInv, Thread
<1>8. ASSUME NEW s \in Side, Run(s) PROVE SocketInv'
  <2>1. AfterError(s) \in Thread \ {"Again"} BY DEF AfterError, Thread
  <2>2. CASE Poll(s)
    BY <1>1, <1>2, <2>2 DEF Poll, SocketInv, Thread
  <2>3. CASE Recv(s) \/ RecvError(s)
    <3>1. thread[s] = "Recv" /\ inbox[s] # <<>>
      BY <2>3 DEF Recv, RecvError
    <3>2. inbox' = [inbox EXCEPT ![s] = Tail(inbox[s])]
      BY <2>3 DEF Recv, RecvError
    <3>3. PICK v \in Thread \ {"Again"} : thread' = [thread EXCEPT ![s] = v]
      BY <2>1, <2>3 DEF Recv, RecvError, Thread
    <3>4. inbox' \in [Side -> Seq(sent')]
      BY <1>4, <3>1, <3>2
    <3>5. thread'["server"] = "Again" => s # "server" /\ thread["server"] = "Again"
      BY <1>2, <3>3, Names
    <3>6. s # "server" => inbox'["server"] = inbox["server"]
      BY <1>1, <3>2, Names
    <3>7. thread' \in [Side -> Thread]
      BY <1>2, <3>3
    <3> QED BY <1>2, <3>4, <3>5, <3>6, <3>7 DEF SocketInv
  <2>4. CASE RecvNone(s)
    BY <1>1, <1>2, <2>4 DEF RecvNone, SocketInv, Thread
  <2>5. CASE Flush(s)
    <3>1. PICK sp \in SpaceId, room \in Rooms :
              /\ Egest(s, sp, room)
              /\ IF Units(Assemble(s, sp)) <= room
                 THEN Deliver(s, Assemble(s, sp)) /\ UNCHANGED thread
                 ELSE thread' = [thread EXCEPT ![s] = "Loop"] /\ UNCHANGED inbox
      BY <2>5 DEF Flush
    <3>2. CASE Units(Assemble(s, sp)) <= room
      <4>1. Assemble(s, sp) \in sent' BY <3>1, <3>2 DEF Egest
      <4>2. /\ inbox' \in [Side -> Seq(sent')]
            /\ inbox["server"] # <<>> => inbox'["server"] # <<>>
        BY <1>3, <3>1, <3>2, <4>1
      <4> QED BY <1>2, <3>1, <3>2, <4>2 DEF SocketInv
    <3>3. CASE ~(Units(Assemble(s, sp)) <= room)
      <4>1. thread' = [thread EXCEPT ![s] = "Loop"] /\ inbox' = inbox
        BY <3>1, <3>3
      <4> QED BY <1>1, <1>2, <4>1 DEF SocketInv, Thread
    <3> QED BY <3>2, <3>3
  <2>6. CASE FlushNone(s)
    <3>1. PICK v \in Thread \ {"Again"} : thread' = [thread EXCEPT ![s] = v]
      BY <2>1, <2>6 DEF FlushNone, Thread
    <3> QED BY <1>1, <1>2, <2>6, <3>1 DEF FlushNone, SocketInv
  <2> QED BY <1>8, <2>2, <2>3, <2>4, <2>5, <2>6 DEF Run
<1>9. ASSUME NEW s \in Side, App(s) PROVE SocketInv'
  <2>1. inbox' = inbox /\ (thread' = thread \/ thread' = [thread EXCEPT ![s] = "Flush"])
    BY <1>9 DEF App
  <2>2. thread' \in [Side -> Thread]
    BY <1>2, <2>1 DEF Thread
  <2>3. thread'["server"] = "Again" => thread["server"] = "Again"
    BY <1>2, <2>1, Names
  <2>4. inbox' \in [Side -> Seq(sent')]
    BY <1>1, <2>1
  <2> QED BY <1>2, <2>1, <2>2, <2>3, <2>4 DEF SocketInv
<1> QED BY <1>5, <1>6, <1>7, <1>8, <1>9 DEF EpNext

\* Nothing else goes into a socket or takes the first packet out of it.
LEMMA SocketInvariant == EpSpec => []SocketInv
<1>1. EpInit => SocketInv
  <2> SUFFICES ASSUME EpInit PROVE SocketInv
    OBVIOUS
  <2>1. <<>> \in Seq(sent) OBVIOUS
  <2> QED BY <2>1, Names DEF EpInit, SocketInv, Thread
<1>2. SocketInv /\ [EpNext]_ep_vars => SocketInv'
  <2> SUFFICES ASSUME SocketInv, [EpNext]_ep_vars PROVE SocketInv'
    OBVIOUS
  <2>1. CASE EpNext
    <3>1. sent \subseteq sent'
      BY <2>1, EpStep, SentGrows DEF vars
    <3> QED BY <2>1, <3>1, SocketStep
  <2>2. CASE UNCHANGED ep_vars
    BY <2>2 DEF ep_vars, vars, SocketInv
  <2> QED BY <2>1, <2>2
<1> QED BY <1>1, <1>2, PTL DEF EpSpec

\* The threads implement the connections: everything Connection allows no
\* packet to do, no schedule of the two event loops does either.
THEOREM EndpointImplementsConnection == EpSpec => Spec
<1>1. EpInit => Init
  BY DEF EpInit
<1>2. SocketInv /\ [EpNext]_ep_vars => [Next]_vars
  BY EpStep DEF ep_vars, vars
<1> QED BY <1>1, <1>2, SocketInvariant, PTL DEF EpSpec, Spec

\* What the proofs about Connection give for two running endpoints: no nonce is
\* used twice, TLS never fails, established connections have their keys, neither
\* side is ahead of the other, and keys and flights stay in their spaces.
THEOREM EndpointSafe ==
    EpSpec => []( /\ NonceUnique /\ TlsNeverFails /\ EstablishedHasKeys
                  /\ HandshakeAgreement /\ EpochOfSpace /\ OneFlightPerFrame )
  BY EndpointImplementsConnection, NonceTheorem, TlsTheorem, EstablishedTheorem,
     AgreementTheorem, EpochTheorem, OneFlightTheorem, PTL

\* Whatever two endpoints do, their connections never go back to an earlier state,
\* never lose or replace a key, and are closed for a reason only.
THEOREM EndpointMoves == EpSpec => StateOnlyAdvances /\ KeysNeverReplaced /\ []CloseReasonGiven
  BY EndpointImplementsConnection, AdvancesTheorem, KeysTheorem, ReasonTheorem

\* Two running endpoints agree on keys the way KeyAgreement says, whatever their
\* threads do and the network loses.
THEOREM EndpointAgreement == EpSpec => ImplementsAgreement
  BY EndpointImplementsConnection, AgreementRefinement

\* Two running endpoints keep their acknowledgements and their stream straight.
THEOREM EndpointTraffic ==
    EpSpec => [](AcksNumbersSent /\ StreamOffsetsRight /\ ReceivedWasWritten)
  BY EndpointImplementsConnection, AcksTheorem, OffsetsTheorem, WrittenTheorem, PTL

-----------------------------------------------------------------------------
(* The order of the stream.                                                *)

Increasing(seq) == \A i, j \in 1..Len(seq) : i < j => seq[i] < seq[j]

UpTo(seq, n) == \A i \in 1..Len(seq) : seq[i] <= n

\* What one side has read, what it has still to read and what is in its socket,
\* one after the other, is the stream in its order.
Arrivals(read, got, queue) ==
    /\ Increasing(read) /\ Increasing(got)
    /\ \A i \in 1..Len(read), j \in 1..Len(got) : read[i] < got[j]
    /\ \A k \in 1..Len(queue) : queue[k].stream # <<>> =>
           /\ UpTo(read, queue[k].stream_off) /\ UpTo(got, queue[k].stream_off)
           /\ \A j \in 1..(k - 1) :
                  queue[j].stream_off + Len(queue[j].stream) <= queue[k].stream_off

\* A datagram with later bytes, or none, goes to the end of the socket's queue.
LEMMA ArrivalsAppend ==
    ASSUME NEW read \in Seq(Nat), NEW got \in Seq(Nat), NEW queue \in Seq(Packet),
           NEW p \in Packet, Arrivals(read, got, queue),
           p.stream # <<>> =>
               /\ UpTo(read, p.stream_off) /\ UpTo(got, p.stream_off)
               /\ \A j \in 1..Len(queue) :
                      queue[j].stream_off + Len(queue[j].stream) <= p.stream_off
    PROVE  Arrivals(read, got, Append(queue, p))
<1> DEFINE new == Append(queue, p)
<1>1. /\ Len(new) = Len(queue) + 1 /\ Len(queue) \in Nat
      /\ \A k \in 1..Len(queue) : new[k] = queue[k]
      /\ new[Len(queue) + 1] = p
  OBVIOUS
<1> HIDE DEF new
<1>2. ASSUME NEW k \in 1..Len(new), new[k].stream # <<>>
      PROVE  /\ UpTo(read, new[k].stream_off) /\ UpTo(got, new[k].stream_off)
             /\ \A j \in 1..(k - 1) : new[j].stream_off + Len(new[j].stream) <= new[k].stream_off
  <2>1. CASE k \in 1..Len(queue)
    <3>1. \A j \in 1..(k - 1) : j \in 1..Len(queue) BY <1>1, <2>1
    <3> QED BY <1>1, <1>2, <2>1, <3>1 DEF Arrivals
  <2>2. CASE k = Len(queue) + 1
    <3>1. 1..(k - 1) = 1..Len(queue) BY <1>1, <2>2
    <3> QED BY <1>1, <1>2, <2>2, <3>1
  <2> QED BY <1>1, <2>1, <2>2
<1>3. Arrivals(read, got, new)
  BY <1>2 DEF Arrivals
<1> QED BY <1>3 DEF new

\* A datagram that is lost or refused leaves a gap, no disorder.
LEMMA ArrivalsDrop ==
    ASSUME NEW read \in Seq(Nat), NEW got \in Seq(Nat), NEW queue \in Seq(Packet),
           queue # <<>>, Arrivals(read, got, queue)
    PROVE  Arrivals(read, got, Tail(queue))
<1> DEFINE new == Tail(queue)
<1>1. /\ Len(new) = Len(queue) - 1 /\ Len(queue) \in Nat /\ Len(queue) >= 1
      /\ \A k \in 1..Len(new) : new[k] = queue[k + 1]
  OBVIOUS
<1> HIDE DEF new
<1>2. ASSUME NEW k \in 1..Len(new), new[k].stream # <<>>
      PROVE  /\ UpTo(read, new[k].stream_off) /\ UpTo(got, new[k].stream_off)
             /\ \A j \in 1..(k - 1) : new[j].stream_off + Len(new[j].stream) <= new[k].stream_off
  <2>1. new[k] = queue[k + 1] /\ k + 1 \in 1..Len(queue) BY <1>1
  <2>2. /\ UpTo(read, queue[k + 1].stream_off) /\ UpTo(got, queue[k + 1].stream_off)
        /\ \A j \in 1..(k + 1 - 1) :
               queue[j].stream_off + Len(queue[j].stream) <= queue[k + 1].stream_off
    BY <1>2, <2>1 DEF Arrivals
  <2>3. ASSUME NEW j \in 1..(k - 1)
        PROVE  new[j].stream_off + Len(new[j].stream) <= new[k].stream_off
    <3>0. k \in Nat /\ j \in Nat /\ j >= 1 /\ j <= k - 1 /\ k <= Len(queue) - 1
      BY <1>1
    <3>1. j \in 1..Len(new) /\ j + 1 \in 1..(k + 1 - 1)
      BY <1>1, <3>0
    <3>2. new[j] = queue[j + 1]
      BY <1>1, <3>1
    <3> QED BY <2>1, <2>2, <3>1, <3>2
  <2> QED BY <2>1, <2>2, <2>3
<1>3. Arrivals(read, got, new)
  BY <1>2 DEF Arrivals
<1> QED BY <1>3 DEF new

\* The bytes of the first datagram go after what has been received.
LEMMA ArrivalsIngest ==
    ASSUME NEW read \in Seq(Nat), NEW got \in Seq(Nat), NEW queue \in Seq(Packet),
           queue # <<>>, Arrivals(read, got, queue),
           \A i \in 1..Len(Head(queue).stream) :
               Head(queue).stream[i] = Head(queue).stream_off + i
    PROVE  Arrivals(read, got \o Head(queue).stream, Tail(queue))
<1> DEFINE p == Head(queue)
           new == Tail(queue)
           m == Len(got)
           all == got \o p.stream
<1>1. /\ Len(new) = Len(queue) - 1 /\ Len(queue) \in Nat /\ Len(queue) >= 1
      /\ \A k \in 1..Len(new) : new[k] = queue[k + 1]
      /\ p = queue[1] /\ p \in Packet /\ new \in Seq(Packet)
  OBVIOUS
<1>2. /\ p.stream \in Seq(Nat) /\ p.stream_off \in Nat /\ Len(p.stream) \in Nat
      /\ \A i \in 1..Len(p.stream) : p.stream[i] = p.stream_off + i
  BY <1>1 DEF Packet
<1>3. Arrivals(read, got, new)
  BY ArrivalsDrop
<1> HIDE DEF p, new
<1>4. /\ Len(all) = m + Len(p.stream) /\ m \in Nat
      /\ \A i \in 1..m : all[i] = got[i] /\ got[i] \in Nat
      /\ \A i \in 1..Len(read) : read[i] \in Nat
  BY <1>2
<1>5. \A i \in (m + 1)..Len(all) : all[i] = p.stream_off + (i - m)
  <2> SUFFICES ASSUME NEW i \in (m + 1)..Len(all) PROVE all[i] = p.stream_off + (i - m)
    OBVIOUS
  <2>1. all[i] = p.stream[i - m] /\ i - m \in 1..Len(p.stream) BY <1>2, <1>4
  <2> QED BY <1>2, <2>1
<1>6. Len(p.stream) > 0 => UpTo(read, p.stream_off) /\ UpTo(got, p.stream_off)
  <2>1. Len(p.stream) > 0 => p.stream # <<>> BY <1>2
  <2> QED BY <1>1, <2>1 DEF Arrivals
<1> HIDE DEF all, m
<1>7. \A i \in 1..Len(all) : i \in 1..m \/ i \in (m + 1)..Len(all)
  BY <1>4
<1>8. (m + 1)..Len(all) # {} => Len(p.stream) > 0
  BY <1>2, <1>4
<1>9. Increasing(all)
  <2> SUFFICES ASSUME NEW i \in 1..Len(all), NEW j \in 1..Len(all), i < j PROVE all[i] < all[j]
    BY DEF Increasing
  <2>1. CASE j \in 1..m
    <3>1. i \in 1..m BY <1>4, <2>1
    <3> QED BY <1>4, <2>1, <3>1 DEF Arrivals, Increasing, m
  <2>2. CASE j \in (m + 1)..Len(all) /\ i \in 1..m
    <3>1. got[i] <= p.stream_off BY <1>6, <1>8, <2>2 DEF UpTo, m
    <3>2. all[i] = got[i] /\ got[i] \in Nat /\ all[j] = p.stream_off + (j - m)
      BY <1>4, <1>5, <2>2
    <3>3. j - m >= 1 /\ j - m \in Nat BY <1>4, <2>2
    <3> QED BY <1>2, <3>1, <3>2, <3>3
  <2>3. CASE j \in (m + 1)..Len(all) /\ i \in (m + 1)..Len(all)
    <3>1. all[i] = p.stream_off + (i - m) /\ all[j] = p.stream_off + (j - m) BY <1>5, <2>3
    <3>2. i \in Nat /\ j \in Nat /\ i - m < j - m BY <1>4, <2>3
    <3> QED BY <1>2, <1>4, <3>1, <3>2
  <2> QED BY <1>7, <2>1, <2>2, <2>3
<1>10. ASSUME NEW i \in 1..Len(read), NEW j \in 1..Len(all) PROVE read[i] < all[j]
  <2>1. CASE j \in 1..m
    BY <1>4, <2>1 DEF Arrivals, m
  <2>2. CASE j \in (m + 1)..Len(all)
    <3>1. read[i] <= p.stream_off BY <1>6, <1>8, <2>2 DEF UpTo
    <3>2. all[j] = p.stream_off + (j - m) BY <1>5, <2>2
    <3>3. j - m \in Nat /\ j - m >= 1 BY <1>4, <2>2
    <3>4. read[i] \in Nat BY <1>4
    <3> QED BY <1>2, <3>1, <3>2, <3>3, <3>4
  <2> QED BY <1>7, <2>1, <2>2
<1>11. ASSUME NEW k \in 1..Len(new), new[k].stream # <<>>
       PROVE  UpTo(all, new[k].stream_off)
  <2>1. new[k] = queue[k + 1] /\ k + 1 \in 1..Len(queue) /\ 1 \in 1..(k + 1 - 1)
    BY <1>1
  <2>2. p.stream_off + Len(p.stream) <= new[k].stream_off /\ UpTo(got, new[k].stream_off)
    BY <1>1, <1>11, <2>1 DEF Arrivals
  <2>3. new[k].stream_off \in Nat
    <3>1. new[k] \in Packet BY <1>1
    <3> QED BY <3>1 DEF Packet
  <2> SUFFICES ASSUME NEW i \in 1..Len(all) PROVE all[i] <= new[k].stream_off
    BY DEF UpTo
  <2>4. CASE i \in 1..m
    BY <1>4, <2>2, <2>4 DEF UpTo, m
  <2>5. CASE i \in (m + 1)..Len(all)
    <3>1. all[i] = p.stream_off + (i - m) BY <1>5, <2>5
    <3>2. i - m \in Nat /\ i - m <= Len(p.stream) BY <1>2, <1>4, <2>5
    <3>4. p.stream_off + Len(p.stream) <= new[k].stream_off BY <2>2
    <3>5. p.stream_off \in Nat /\ Len(p.stream) \in Nat BY <1>2
    <3>6. PICK a, b, c, d : /\ a = p.stream_off /\ b = Len(p.stream)
                            /\ c = new[k].stream_off /\ d = i - m
      OBVIOUS
    <3>7. /\ a \in Nat /\ b \in Nat /\ d \in Nat /\ c \in Nat
          /\ d <= b /\ a + b <= c
      BY <2>3, <3>2, <3>4, <3>5, <3>6
    <3>8. a + d <= c BY <3>7
    <3>9. all[i] <= c BY <3>1, <3>6, <3>8
    <3> QED BY <3>6, <3>9
  <2> QED BY <1>7, <2>4, <2>5
<1>12. Arrivals(read, all, new)
  BY <1>3, <1>9, <1>10, <1>11 DEF Arrivals
<1> QED BY <1>12 DEF all, p, new

\* The application reads a first part of what has been received.
LEMMA ArrivalsRead ==
    ASSUME NEW read \in Seq(Nat), NEW got \in Seq(Nat), NEW queue \in Seq(Packet),
           Arrivals(read, got, queue), NEW n \in Nat, n <= Len(got)
    PROVE  Arrivals(read \o SubSeq(got, 1, n), SubSeq(got, n + 1, Len(got)), queue)
<1> DEFINE all == read \o SubSeq(got, 1, n)
           rest == SubSeq(got, n + 1, Len(got))
           m == Len(read)
<1>1. /\ m \in Nat /\ Len(got) \in Nat /\ Len(all) = m + n /\ Len(rest) = Len(got) - n
      /\ \A i \in 1..m : all[i] = read[i]
      /\ \A i \in (m + 1)..(m + n) : all[i] = got[i - m]
      /\ \A i \in 1..(Len(got) - n) : rest[i] = got[i + n]
  OBVIOUS
<1> HIDE DEF all, rest, m
<1>2. \A i \in 1..Len(all) : \/ i \in 1..m /\ all[i] = read[i]
                             \/ i - m \in 1..n /\ i - m \in 1..Len(got) /\ all[i] = got[i - m]
  <2> SUFFICES ASSUME NEW i \in 1..Len(all)
               PROVE  \/ i \in 1..m /\ all[i] = read[i]
                      \/ i - m \in 1..n /\ i - m \in 1..Len(got) /\ all[i] = got[i - m]
    OBVIOUS
  <2>1. i \in 1..m \/ i \in (m + 1)..(m + n) BY <1>1
  <2>2. CASE i \in 1..m BY <1>1, <2>2
  <2>3. CASE i \in (m + 1)..(m + n)
    <3>1. all[i] = got[i - m] BY <1>1, <2>3
    <3>2. i - m \in 1..n /\ i - m \in 1..Len(got) BY <1>1, <2>3
    <3> QED BY <3>1, <3>2
  <2> QED BY <2>1, <2>2, <2>3
<1>3. \A i \in 1..Len(rest) : i + n \in 1..Len(got) /\ rest[i] = got[i + n]
  <2> SUFFICES ASSUME NEW i \in 1..Len(rest)
               PROVE  i + n \in 1..Len(got) /\ rest[i] = got[i + n]
    OBVIOUS
  <2>1. i \in 1..(Len(got) - n) BY <1>1
  <2>2. i + n \in 1..Len(got) BY <1>1, <2>1
  <2> QED BY <1>1, <2>1, <2>2
<1>4. /\ Increasing(read) /\ Increasing(got)
      /\ \A i \in 1..m, j \in 1..Len(got) : read[i] < got[j]
  BY DEF Arrivals, m
<1>5. Increasing(all)
  <2> SUFFICES ASSUME NEW i \in 1..Len(all), NEW j \in 1..Len(all), i < j PROVE all[i] < all[j]
    BY DEF Increasing
  <2>1. i \in Nat /\ j \in Nat BY <1>1
  <2>2. CASE i \in 1..m /\ all[i] = read[i] /\ j \in 1..m /\ all[j] = read[j]
    BY <1>4, <2>2 DEF Increasing, m
  <2>3. CASE /\ i \in 1..m /\ all[i] = read[i]
             /\ j - m \in 1..Len(got) /\ all[j] = got[j - m]
    BY <1>4, <2>3
  <2>4. CASE /\ i - m \in 1..Len(got) /\ all[i] = got[i - m]
             /\ j - m \in 1..Len(got) /\ all[j] = got[j - m]
    <3>1. i - m < j - m BY <1>1, <2>1
    <3> QED BY <1>4, <2>4, <3>1 DEF Increasing
  <2>5. CASE i - m \in 1..n /\ j \in 1..m
    BY <1>1, <2>1, <2>5
  <2> QED BY <1>2, <2>2, <2>3, <2>4, <2>5
<1>6. Increasing(rest)
  <2> SUFFICES ASSUME NEW i \in 1..Len(rest), NEW j \in 1..Len(rest), i < j
               PROVE  rest[i] < rest[j]
    BY DEF Increasing
  <2>1. i + n < j + n /\ i + n \in 1..Len(got) /\ j + n \in 1..Len(got) BY <1>1, <1>3
  <2> QED BY <1>3, <1>4, <2>1 DEF Increasing
<1>7. ASSUME NEW i \in 1..Len(all), NEW j \in 1..Len(rest) PROVE all[i] < rest[j]
  <2>1. j + n \in 1..Len(got) /\ rest[j] = got[j + n] BY <1>3
  <2>2. CASE i \in 1..m /\ all[i] = read[i]
    BY <1>4, <2>1, <2>2
  <2>3. CASE i - m \in 1..n /\ i - m \in 1..Len(got) /\ all[i] = got[i - m]
    <3>1. i - m < j + n BY <1>1, <2>3
    <3> QED BY <1>4, <2>1, <2>3, <3>1 DEF Increasing
  <2> QED BY <1>2, <2>2, <2>3
<1>8. ASSUME NEW k \in 1..Len(queue), queue[k].stream # <<>>
      PROVE  UpTo(all, queue[k].stream_off) /\ UpTo(rest, queue[k].stream_off)
  <2>1. UpTo(read, queue[k].stream_off) /\ UpTo(got, queue[k].stream_off)
    BY <1>8 DEF Arrivals
  <2> QED BY <1>2, <1>3, <2>1 DEF UpTo, m
<1>9. Arrivals(all, rest, queue)
  BY <1>5, <1>6, <1>7, <1>8 DEF Arrivals
<1> QED BY <1>9 DEF all, rest

-----------------------------------------------------------------------------
\* What a step may do to what side s reads: nothing; a datagram is put at the
\* end of its socket, fresh from egest or without data; the first one is taken
\* out, and its data kept or lost; or the application reads.
ReaderMoves(s) ==
    \/ /\ inbox'[s] = inbox[s] /\ delivered'[s] = delivered[s]
       /\ received_app_data'[s] = received_app_data[s]
    \/ /\ delivered'[s] = delivered[s] /\ received_app_data'[s] = received_app_data[s]
       /\ \E p \in Packet :
              /\ inbox'[s] = Append(inbox[s], p) /\ p.from = Peer(s)
              /\ p.stream # <<>> => p.stream_off = stream_send_offset[Peer(s)]
    \/ /\ inbox[s] # <<>> /\ inbox'[s] = Tail(inbox[s]) /\ delivered'[s] = delivered[s]
       /\ \/ received_app_data'[s] = received_app_data[s]
          \/ received_app_data'[s] = received_app_data[s] \o Head(inbox[s]).stream
    \/ /\ inbox'[s] = inbox[s]
       /\ \E n \in Nat :
              /\ n <= Len(received_app_data[s])
              /\ delivered'[s] = delivered[s] \o SubSeq(received_app_data[s], 1, n)
              /\ received_app_data'[s] =
                     SubSeq(received_app_data[s], n + 1, Len(received_app_data[s]))

\* A step that leaves the stream and the sockets alone.
LEMMA ReaderRests ==
    ASSUME UNCHANGED <<inbox, received_app_data, delivered>>, NEW s \in Side
    PROVE  ReaderMoves(s)
  BY DEF ReaderMoves

\* Backend::send of one side moves the reader of the other side.
LEMMA ReaderDeliver ==
    ASSUME SocketInv, NEW r \in Side, NEW p \in Packet, p.from = r,
           p.stream # <<>> => p.stream_off = stream_send_offset[r],
           Deliver(r, p), UNCHANGED <<received_app_data, delivered>>, NEW s \in Side
    PROVE  ReaderMoves(s)
<1>1. CASE inbox' = inbox
  BY <1>1, ReaderRests
<1>2. CASE inbox' = [inbox EXCEPT ![Peer(r)] = Append(inbox[Peer(r)], p)]
  <2>1. inbox \in [Side -> Seq(sent)] BY DEF SocketInv
  <2>2. CASE s = Peer(r)
    <3>1. inbox'[s] = Append(inbox[s], p) BY <1>2, <2>1, <2>2
    <3>2. Peer(s) = r BY <2>2, PeerFacts
    <3> QED BY <3>1, <3>2 DEF ReaderMoves
  <2>3. CASE s # Peer(r)
    <3>1. inbox'[s] = inbox[s] BY <1>2, <2>1, <2>3
    <3> QED BY <3>1 DEF ReaderMoves
  <2> QED BY <2>2, <2>3
<1> QED BY <1>1, <1>2 DEF Deliver

\* The first datagram is ingested, or thrown away.
LEMMA ReaderTakes ==
    ASSUME SocketInv, TypeInv, NEW r \in Side, inbox[r] # <<>>,
           inbox' = [inbox EXCEPT ![r] = Tail(inbox[r])],
           \/ UNCHANGED vars
           \/ \E t \in Tickets : Ingest(r, Head(inbox[r]), t),
           NEW s \in Side
    PROVE  ReaderMoves(s)
<1>1. inbox \in [Side -> Seq(sent)] /\ received_app_data \in [Side -> Seq(Nat)]
  BY DEF SocketInv, TypeInv, TypeOK
<1>2. /\ delivered' = delivered
      /\ \/ received_app_data' = received_app_data
         \/ received_app_data' = [received_app_data EXCEPT ![r] =
                received_app_data[r] \o Head(inbox[r]).stream]
  <2>1. CASE UNCHANGED vars BY <2>1 DEF vars
  <2>2. ASSUME NEW t \in Tickets, Ingest(r, Head(inbox[r]), t)
        PROVE  /\ delivered' = delivered
               /\ \/ received_app_data' = received_app_data
                  \/ received_app_data' = [received_app_data EXCEPT ![r] =
                         received_app_data[r] \o Head(inbox[r]).stream]
    BY <1>1, <2>2 DEF Ingest
  <2> QED BY <2>1, <2>2
<1>3. CASE s = r
  <2>1. inbox'[s] = Tail(inbox[s]) BY <1>1, <1>3
  <2>2. received_app_data'[s] \in {received_app_data[s],
                                   received_app_data[s] \o Head(inbox[s]).stream}
    BY <1>1, <1>2, <1>3
  <2> QED BY <1>2, <1>3, <2>1, <2>2 DEF ReaderMoves
<1>4. CASE s # r
  <2>1. inbox'[s] = inbox[s] /\ received_app_data'[s] = received_app_data[s]
    BY <1>1, <1>2, <1>4
  <2> QED BY <1>2, <2>1 DEF ReaderMoves
<1> QED BY <1>3, <1>4

\* The application of one side writes or reads.
LEMMA ReaderApp ==
    ASSUME TypeInv, NEW r \in Side, inbox' = inbox,
           SendData(r) \/ \E n \in 1..MaxRecv : RecvData(r, n), NEW s \in Side
    PROVE  ReaderMoves(s)
<1>1. CASE SendData(r)
  BY <1>1, ReaderRests DEF SendData
<1>2. ASSUME NEW n \in 1..MaxRecv, RecvData(r, n) PROVE ReaderMoves(s)
  <2>1. /\ received_app_data \in [Side -> Seq(Nat)] /\ delivered \in [Side -> Seq(Nat)]
        /\ n \in Nat
    BY ConnectionAssumption DEF TypeInv, TypeOK
  <2>2. CASE s = r
    BY <1>2, <2>1, <2>2 DEF RecvData, ReaderMoves
  <2>3. CASE s # r
    BY <1>2, <2>1, <2>3 DEF RecvData, ReaderMoves
  <2> QED BY <2>2, <2>3
<1> QED BY <1>1, <1>2

\* Every step of the event loops is one of these for each side.
LEMMA ReaderStep ==
    ASSUME SocketInv, TypeInv, EpNext, NEW s \in Side
    PROVE  ReaderMoves(s)
<1>1. CASE EpClient
  <2>1. InitialPacket \in sent' /\ TypeInv'
    BY <1>1, TypeConnect DEF EpClient, Connect
  <2>2. InitialPacket \in Packet BY <2>1 DEF TypeInv, TypeOK
  <2>3. InitialPacket.from = "client" /\ InitialPacket.stream = <<>> BY DEF InitialPacket
  <2>4. Deliver("client", InitialPacket) /\ UNCHANGED <<received_app_data, delivered>>
    BY <1>1 DEF EpClient, Connect, stream_vars
  <2> QED BY <2>2, <2>3, <2>4, Names, ReaderDeliver
<1>2. CASE EpServer
  BY <1>2, ReaderRests DEF EpServer, Accept, stream_vars
<1>3. CASE EpServerAgain
  <2>1. inbox["server"] # <<>> BY <1>3 DEF EpServerAgain, SocketInv
  <2> QED BY <1>3, <2>1, Names, ReaderTakes DEF EpServerAgain
<1>4. ASSUME NEW r \in Side, Run(r) PROVE ReaderMoves(s)
  <2>1. CASE Poll(r) \/ RecvNone(r) \/ FlushNone(r)
    BY <2>1, ReaderRests DEF Poll, RecvNone, FlushNone, vars
  <2>2. CASE Recv(r)
    BY <2>2, ReaderTakes DEF Recv
  <2>3. CASE RecvError(r)
    BY <2>3, ReaderTakes DEF RecvError
  <2>4. CASE Flush(r)
    <3>1. PICK sp \in SpaceId, room \in Rooms :
              /\ Egest(r, sp, room)
              /\ Deliver(r, Assemble(r, sp)) \/ UNCHANGED inbox
      BY <2>4 DEF Flush
    <3>2. UNCHANGED <<received_app_data, delivered>> BY <3>1 DEF Egest
    <3>3. Assemble(r, sp) \in Packet /\ Assemble(r, sp).from = r
      BY <3>1, AssembleType, AssembleSpace DEF Egest, Selected
    <3>4. Assemble(r, sp).stream # <<>> => Assemble(r, sp).stream_off = stream_send_offset[r]
      BY DEF Assemble
    <3>5. CASE Deliver(r, Assemble(r, sp))
      BY <3>2, <3>3, <3>4, <3>5, ReaderDeliver
    <3>6. CASE UNCHANGED inbox
      BY <3>2, <3>6, ReaderRests
    <3> QED BY <3>1, <3>5, <3>6
  <2> QED BY <1>4, <2>1, <2>2, <2>3, <2>4 DEF Run
<1>5. ASSUME NEW r \in Side, App(r) PROVE ReaderMoves(s)
  BY <1>5, ReaderApp DEF App
<1> QED BY <1>1, <1>2, <1>3, <1>4, <1>5 DEF EpNext

\* The inductive invariant of the stream's order: sockets hold packets of the
\* other side, and each reader's bytes are in order up to the last one queued.
ReaderInv ==
    \A s \in Side :
        /\ \A k \in 1..Len(inbox[s]) : inbox[s][k].from = Peer(s)
        /\ Arrivals(delivered[s], received_app_data[s], inbox[s])

\* Every move of a reader keeps its order.
LEMMA ReaderInvStep ==
    ASSUME SocketInv, TypeInv, StreamInv, ReaderInv, NEW s \in Side, ReaderMoves(s)
    PROVE  /\ \A k \in 1..Len(inbox'[s]) : inbox'[s][k].from = Peer(s)
           /\ Arrivals(delivered'[s], received_app_data'[s], inbox'[s])
<1> DEFINE read == delivered[s]
           got == received_app_data[s]
           queue == inbox[s]
           off == stream_send_offset[Peer(s)]
<1>1. read \in Seq(Nat) /\ got \in Seq(Nat) /\ queue \in Seq(Packet)
      /\ queue \in Seq(sent) /\ off \in Nat
  <2>1. queue \in Seq(sent) /\ sent \subseteq Packet BY DEF SocketInv, TypeInv, TypeOK
  <2>2. queue \in Seq(Packet) BY <2>1, SeqGrows
  <2> QED BY <2>1, <2>2, PeerFacts DEF TypeInv, TypeOK
<1>2. Arrivals(read, got, queue) /\ \A k \in 1..Len(queue) : queue[k].from = Peer(s)
  BY DEF ReaderInv
<1>3. UpTo(read, off) /\ UpTo(got, off)
  BY <1>1 DEF StreamInv, ArrivedInv, UpTo
<1>4. ASSUME NEW k \in 1..Len(queue) PROVE queue[k].stream_off + Len(queue[k].stream) <= off
  <2>1. queue[k] \in sent /\ queue[k].from = Peer(s) BY <1>1, <1>2
  <2> QED BY <2>1 DEF StreamInv, FramesInv
<1>5. queue # <<>> => \A i \in 1..Len(Head(queue).stream) :
                          Head(queue).stream[i] = Head(queue).stream_off + i
  <2>1. queue # <<>> => Head(queue) \in sent BY <1>1
  <2> QED BY <2>1 DEF StreamInv, FramesInv
<1> HIDE DEF read, got, queue, off
<1>6. CASE inbox'[s] = queue /\ delivered'[s] = read /\ received_app_data'[s] = got
  BY <1>2, <1>6
<1>7. ASSUME NEW p \in Packet, delivered'[s] = read, received_app_data'[s] = got,
             inbox'[s] = Append(queue, p), p.from = Peer(s),
             p.stream # <<>> => p.stream_off = off
      PROVE  /\ \A k \in 1..Len(inbox'[s]) : inbox'[s][k].from = Peer(s)
             /\ Arrivals(delivered'[s], received_app_data'[s], inbox'[s])
  <2>1. Arrivals(read, got, Append(queue, p))
    BY <1>1, <1>2, <1>3, <1>4, <1>7, ArrivalsAppend
  <2>2. ASSUME NEW k \in 1..Len(Append(queue, p)) PROVE Append(queue, p)[k].from = Peer(s)
    <3>1. Len(queue) \in Nat /\ Len(Append(queue, p)) = Len(queue) + 1 BY <1>1
    <3>2. CASE k \in 1..Len(queue)
      <4>1. Append(queue, p)[k] = queue[k] BY <1>1, <3>2
      <4> QED BY <1>2, <3>2, <4>1
    <3>3. CASE k = Len(queue) + 1
      <4>1. Append(queue, p)[k] = p BY <1>1, <3>3
      <4> QED BY <1>7, <4>1
    <3> QED BY <3>1, <3>2, <3>3
  <2> QED BY <1>7, <2>1, <2>2
<1>8. CASE /\ queue # <<>> /\ inbox'[s] = Tail(queue) /\ delivered'[s] = read
           /\ received_app_data'[s] = got \/ received_app_data'[s] = got \o Head(queue).stream
  <2>1. Arrivals(read, got, Tail(queue)) /\ Arrivals(read, got \o Head(queue).stream, Tail(queue))
    BY <1>1, <1>2, <1>5, <1>8, ArrivalsDrop, ArrivalsIngest
  <2>2. ASSUME NEW k \in 1..Len(Tail(queue)) PROVE Tail(queue)[k].from = Peer(s)
    <3>1. Tail(queue)[k] = queue[k + 1] /\ k + 1 \in 1..Len(queue) BY <1>1, <1>8
    <3> QED BY <1>2, <3>1
  <2> QED BY <1>8, <2>1, <2>2
<1>9. ASSUME NEW n \in Nat, n <= Len(got), inbox'[s] = queue,
             delivered'[s] = read \o SubSeq(got, 1, n),
             received_app_data'[s] = SubSeq(got, n + 1, Len(got))
      PROVE  /\ \A k \in 1..Len(inbox'[s]) : inbox'[s][k].from = Peer(s)
             /\ Arrivals(delivered'[s], received_app_data'[s], inbox'[s])
  BY <1>1, <1>2, <1>9, ArrivalsRead
<1> QED BY <1>6, <1>7, <1>8, <1>9 DEF ReaderMoves, read, got, queue, off

\* In the beginning nothing has arrived anywhere.
LEMMA ReaderInvInit == EpInit => ReaderInv
<1> SUFFICES ASSUME EpInit PROVE ReaderInv
  OBVIOUS
<1>1. \A s \in Side : inbox[s] = <<>> /\ delivered[s] = <<>> /\ received_app_data[s] = <<>>
  BY DEF EpInit, Init
<1>2. 1..Len(<<>>) = {}
  OBVIOUS
<1> QED BY <1>1, <1>2 DEF ReaderInv, Arrivals, Increasing, UpTo

\* The order of the stream is an invariant of two running endpoints.
LEMMA ReaderInvariant == EpSpec => [](SocketInv /\ TypeInv /\ ReaderInv)
<1>1. SocketInv /\ TypeInv /\ StreamInv /\ ReaderInv /\ [EpNext]_ep_vars => ReaderInv'
  <2> SUFFICES ASSUME SocketInv, TypeInv, StreamInv, ReaderInv, [EpNext]_ep_vars
               PROVE  ReaderInv'
    OBVIOUS
  <2>1. \A s \in Side : ReaderMoves(s)
    BY ReaderStep, ReaderRests DEF ep_vars, vars
  <2> QED BY <2>1, ReaderInvStep DEF ReaderInv
<1>2. EpSpec => [](TypeInv /\ StreamInv)
  BY EndpointImplementsConnection, HandshakeInvariant, StreamInvariant, PTL
<1> QED BY <1>1, <1>2, ReaderInvInit, SocketInvariant, PTL DEF EpSpec

FatalInv == fatal \in [Side -> BOOLEAN]

\* Only poll and the application decide whether errors end a thread.
LEMMA FatalStep ==
    ASSUME FatalInv, EpNext
    PROVE  FatalInv'
<1>1. CASE UNCHANGED fatal
  BY <1>1 DEF FatalInv
<1>2. ASSUME NEW s \in Side, NEW b \in BOOLEAN, fatal' = [fatal EXCEPT ![s] = b]
      PROVE  FatalInv'
  BY <1>2 DEF FatalInv
<1>3. CASE EpClient \/ EpServer \/ EpServerAgain
  BY <1>1, <1>3 DEF EpClient, EpServer, EpServerAgain
<1>4. ASSUME NEW s \in Side, Run(s) \/ App(s) PROVE FatalInv'
  <2>1. CASE Recv(s) \/ RecvError(s) \/ RecvNone(s) \/ Flush(s) \/ FlushNone(s)
    BY <1>1, <2>1 DEF Recv, RecvError, RecvNone, Flush, FlushNone
  <2>2. CASE Poll(s)
    <3>1. (s \in Strict /\ state[s] # "Established") \in BOOLEAN
      OBVIOUS
    <3>2. fatal' = [fatal EXCEPT ![s] = s \in Strict /\ state[s] # "Established"]
      BY <2>2 DEF Poll
    <3> QED BY <1>2, <3>1, <3>2
  <2>3. CASE App(s)
    <3>1. UNCHANGED fatal \/ fatal' = [fatal EXCEPT ![s] = FALSE]
      BY <2>3 DEF App
    <3> QED BY <1>1, <1>2, <3>1
  <2> QED BY <1>4, <2>1, <2>2, <2>3 DEF Run
<1> QED BY <1>3, <1>4 DEF EpNext

LEMMA FatalInvariant == EpSpec => []FatalInv
<1>1. EpInit => FatalInv
  BY DEF EpInit, FatalInv
<1>2. FatalInv /\ [EpNext]_ep_vars => FatalInv'
  BY FatalStep DEF ep_vars, FatalInv
<1> QED BY <1>1, <1>2, PTL DEF EpSpec

\* Sockets hold packets of the other side that were sent, and ep_server's first
\* packet is still there when it is ingested again.
THEOREM EndpointTypeCorrect == EpSpec => []EpTypeOK
<1>1. SocketInv /\ ReaderInv /\ FatalInv => EpTypeOK
  BY DEF SocketInv, ReaderInv, FatalInv, EpTypeOK
<1> QED BY <1>1, ReaderInvariant, FatalInvariant, PTL

\* What an application reads is in the order in which it was written, and no
\* byte comes twice, although offsets are never looked at: the order of the
\* socket is enough, with or without loss.
THEOREM OrderTheorem == EpSpec => []NeverReordered
<1>1. ReaderInv => NeverReordered
  BY DEF ReaderInv, Arrivals, Increasing, NeverReordered
<1> QED BY <1>1, ReaderInvariant, PTL

-----------------------------------------------------------------------------
(* No error before the handshake is over. On a socket that keeps the order *)
(* and loses nothing, every packet comes after the flight that brings the  *)
(* keys it needs.                                                          *)

\* Every buffer egest is given takes a flight.
FlightsFit == \A room \in Rooms : room >= 1

\* Four bytes hold every packet number, and the bound on packets lets the
\* server send HANDSHAKE_DONE.
NumbersFit ==
    /\ \A s \in Side, sp \in SpaceId : MaxPn[s][sp] <= Win(4)
    /\ MaxPn["server"]["AppData"] >= 1

\* The client has handshake keys; it has all keys.
Secure == tls["client"] \in {"C_Secure", "C_Done"}
Complete == tls["client"] = "C_Done"

Carries(p, form, flight) == p.form = form /\ p.crypto = flight

\* In a socket, handshake packets come behind the server's first flight and
\* application packets behind its second one, unless that has been read.
InOrderQueue(q, secure, complete) ==
    \A i \in 1..Len(q) :
        /\ q[i].form = "Handshake" =>
               secure \/ \E j \in 1..(i - 1) : Carries(q[j], "Initial", <<"SH">>)
        /\ SpaceOf(q[i].form) = "AppData" =>
               complete \/ \E j \in 1..(i - 1) : Carries(q[j], "Handshake", <<"SF">>)

\* A flight has been read, or waits in the socket.
Arrives(q, form, flight, read) ==
    read \/ \E j \in 1..Len(q) : Carries(q[j], form, flight)

\* A packet joins the queue behind what it needs.
LEMMA QueueAppend ==
    ASSUME NEW S, NEW q \in Seq(S), NEW p \in S, NEW secure, NEW complete,
           InOrderQueue(q, secure, complete),
           p.form = "Handshake" => Arrives(q, "Initial", <<"SH">>, secure),
           SpaceOf(p.form) = "AppData" => Arrives(q, "Handshake", <<"SF">>, complete)
    PROVE  InOrderQueue(Append(q, p), secure, complete)
<1> DEFINE new == Append(q, p)
<1>1. /\ Len(new) = Len(q) + 1 /\ Len(q) \in Nat
      /\ \A k \in 1..Len(q) : new[k] = q[k]
      /\ new[Len(q) + 1] = p
  OBVIOUS
<1> HIDE DEF new
<1>2. ASSUME NEW i \in 1..Len(new)
      PROVE  /\ new[i].form = "Handshake" =>
                    secure \/ \E j \in 1..(i - 1) : Carries(new[j], "Initial", <<"SH">>)
             /\ SpaceOf(new[i].form) = "AppData" =>
                    complete \/ \E j \in 1..(i - 1) : Carries(new[j], "Handshake", <<"SF">>)
  <2>1. CASE i \in 1..Len(q)
    <3>1. new[i] = q[i] /\ \A j \in 1..(i - 1) : new[j] = q[j]
      BY <1>1, <2>1
    <3> QED BY <2>1, <3>1 DEF InOrderQueue
  <2>2. CASE i = Len(q) + 1
    <3>1. new[i] = p /\ 1..(i - 1) = 1..Len(q)
      BY <1>1, <2>2
    <3> QED BY <1>1, <3>1 DEF Arrives
  <2> QED BY <1>1, <2>1, <2>2
<1>3. InOrderQueue(new, secure, complete)
  BY <1>2 DEF InOrderQueue
<1> QED BY <1>3 DEF new

\* What a queue holds is still there when a packet joins.
LEMMA ArrivesAppend ==
    ASSUME NEW S, NEW q \in Seq(S), NEW p \in S, NEW form, NEW flight, NEW read,
           Arrives(q, form, flight, read) \/ Carries(p, form, flight)
    PROVE  Arrives(Append(q, p), form, flight, read)
<1> DEFINE new == Append(q, p)
<1>1. /\ Len(new) = Len(q) + 1 /\ Len(q) \in Nat
      /\ \A k \in 1..Len(q) : new[k] = q[k] /\ k \in 1..Len(new)
      /\ new[Len(q) + 1] = p /\ Len(q) + 1 \in 1..Len(new)
  OBVIOUS
<1> HIDE DEF new
<1>2. Arrives(new, form, flight, read)
  BY <1>1 DEF Arrives
<1> QED BY <1>2 DEF new

\* The first packet is taken out, and read if it carries a flight.
LEMMA QueueTail ==
    ASSUME NEW S, NEW q \in Seq(S), q # <<>>, NEW secure, NEW complete, NEW secure2, NEW complete2,
           InOrderQueue(q, secure, complete),
           secure \/ Carries(Head(q), "Initial", <<"SH">>) => secure2,
           complete \/ Carries(Head(q), "Handshake", <<"SF">>) => complete2
    PROVE  InOrderQueue(Tail(q), secure2, complete2)
<1> DEFINE new == Tail(q)
<1>1. /\ Len(new) = Len(q) - 1 /\ Len(q) \in Nat /\ Len(q) >= 1
      /\ \A k \in 1..Len(new) : new[k] = q[k + 1]
      /\ Head(q) = q[1]
  OBVIOUS
<1> HIDE DEF new
<1>2. ASSUME NEW i \in 1..Len(new)
      PROVE  /\ new[i].form = "Handshake" =>
                    secure2 \/ \E j \in 1..(i - 1) : Carries(new[j], "Initial", <<"SH">>)
             /\ SpaceOf(new[i].form) = "AppData" =>
                    complete2 \/ \E j \in 1..(i - 1) : Carries(new[j], "Handshake", <<"SF">>)
  <2>1. new[i] = q[i + 1] /\ i + 1 \in 1..Len(q) /\ (i + 1) - 1 = i
    BY <1>1
  <2>2. ASSUME NEW j \in 1..i
        PROVE  j = 1 \/ (j - 1 \in 1..(i - 1) /\ q[j] = new[j - 1])
    <3>1. j \in Nat /\ j >= 1 /\ j <= i /\ i \in Nat /\ i <= Len(new)
      BY <1>1
    <3>2. CASE j # 1
      <4>1. j - 1 \in 1..(i - 1) /\ j - 1 \in 1..Len(new) /\ (j - 1) + 1 = j
        BY <1>1, <3>1, <3>2
      <4> QED BY <1>1, <4>1
    <3> QED BY <3>2
  <2>3. /\ q[i + 1].form = "Handshake" =>
               secure \/ \E j \in 1..i : Carries(q[j], "Initial", <<"SH">>)
        /\ SpaceOf(q[i + 1].form) = "AppData" =>
               complete \/ \E j \in 1..i : Carries(q[j], "Handshake", <<"SF">>)
    BY <2>1 DEF InOrderQueue
  <2> QED BY <1>1, <2>1, <2>2, <2>3
<1>3. InOrderQueue(new, secure2, complete2)
  BY <1>2 DEF InOrderQueue
<1> QED BY <1>3 DEF new

\* A flight that arrives still does when the first packet is taken out.
LEMMA ArrivesTail ==
    ASSUME NEW S, NEW q \in Seq(S), q # <<>>, NEW form, NEW flight, NEW read, NEW read2,
           Arrives(q, form, flight, read), read \/ Carries(Head(q), form, flight) => read2
    PROVE  Arrives(Tail(q), form, flight, read2)
<1> DEFINE new == Tail(q)
<1>1. /\ Len(new) = Len(q) - 1 /\ Len(q) \in Nat /\ Len(q) >= 1
      /\ \A k \in 1..Len(new) : new[k] = q[k + 1]
      /\ Head(q) = q[1]
  OBVIOUS
<1> HIDE DEF new
<1>2. ASSUME NEW j \in 1..Len(q), j # 1
      PROVE  j - 1 \in 1..Len(new) /\ q[j] = new[j - 1]
  <2>1. j - 1 \in 1..Len(new) /\ (j - 1) + 1 = j
    BY <1>1, <1>2
  <2> QED BY <1>1, <2>1
<1>3. Arrives(new, form, flight, read2)
  BY <1>1, <1>2 DEF Arrives
<1> QED BY <1>3 DEF new

\* The packet at the front needs nothing that has not been read.
LEMMA QueueHead ==
    ASSUME NEW S, NEW q \in Seq(S), q # <<>>, NEW secure, NEW complete,
           InOrderQueue(q, secure, complete)
    PROVE  /\ Head(q) \in S
           /\ Head(q).form = "Handshake" => secure
           /\ SpaceOf(Head(q).form) = "AppData" => complete
<1>1. Head(q) = q[1] /\ 1 \in 1..Len(q) /\ 1..(1 - 1) = {} /\ Head(q) \in S
  OBVIOUS
<1> QED BY <1>1 DEF InOrderQueue

-----------------------------------------------------------------------------
\* No packet closes and no connection is closed, and a server never connects;
\* long header numbers come out as they went in; only a client that has all keys
\* uses the last ones; a thread is under way exactly when its connection exists.
QuietInv ==
    /\ \A p \in sent : p.close = "none" /\ LongPn(p.pn) = p.pn
    /\ state["server"] # "Connecting" /\ \A s \in Side : state[s] # "Closed"
    /\ \A p \in sent : p.from = "client" /\ SpaceOf(p.form) = "AppData" => Complete
    /\ \A s \in Side : thread[s] = "Start" <=> state[s] = "None"

\* What the event loops send is connect's packet, or one egest has assembled.
LEMMA EpSends ==
    ASSUME EpNext, NEW p \in sent' \ sent
    PROVE  \/ EpClient /\ p = InitialPacket
           \/ \E s \in Side, sp \in SpaceId, room \in Rooms :
                  Egest(s, sp, room) /\ p = Assemble(s, sp)
<1>1. CASE EpClient
  BY <1>1 DEF EpClient, Connect
<1>2. CASE EpServer
  BY <1>2 DEF EpServer, Accept
<1>3. CASE EpServerAgain
  BY <1>3 DEF EpServerAgain, Ingest
<1>4. ASSUME NEW s \in Side, Run(s)
      PROVE  \E sp \in SpaceId, room \in Rooms : Egest(s, sp, room) /\ p = Assemble(s, sp)
  <2>1. CASE Poll(s) \/ RecvError(s) \/ RecvNone(s) \/ FlushNone(s)
    BY <2>1 DEF Poll, RecvError, RecvNone, FlushNone, vars
  <2>2. CASE Recv(s)
    BY <2>2 DEF Recv, Ingest
  <2>3. CASE Flush(s)
    <3>1. PICK sp \in SpaceId, room \in Rooms : Egest(s, sp, room)
      BY <2>3 DEF Flush
    <3>2. p = Assemble(s, sp)
      BY <3>1 DEF Egest
    <3> QED BY <3>1, <3>2
  <2> QED BY <1>4, <2>1, <2>2, <2>3 DEF Run
<1>5. ASSUME NEW s \in Side, App(s) PROVE FALSE
  BY <1>5 DEF App, SendData, RecvData
<1> QED BY <1>1, <1>2, <1>3, <1>4, <1>5 DEF EpNext

\* A client that has keys keeps them.
LEMMA ClientAdvances ==
    ASSUME Inv, Move
    PROVE  (Secure => Secure') /\ (Complete => Complete')
<1>1. tls \in [Side -> Tls]
  BY DEF Inv, TypeInv, TypeOK
<1>2. /\ tls["client"] = "C_Secure" => tls'["client"] \in {"C_Secure", "C_Done"}
      /\ tls["client"] = "C_Done" => tls'["client"] = "C_Done"
  BY <1>1, Names DEF Move, MoveConnect, MoveAccept, MoveSecure, MoveDone, MoveConfirm,
     MoveReady, MoveClose, Side
<1> QED BY <1>2 DEF Secure, Complete

\* A packet of egest closes nothing, has a number that is decoded right, and a
\* client packs application data only when it is complete.
LEMMA AssembleQuiet ==
    ASSUME Inv, NumbersFit, NEW s \in Side, NEW sp \in SpaceId, NEW room \in Rooms,
           Egest(s, sp, room)
    PROVE  LET p == Assemble(s, sp)
           IN  /\ p.close = "none" /\ LongPn(p.pn) = p.pn
               /\ p.from = "client" /\ SpaceOf(p.form) = "AppData" => Complete
<1>1. /\ space[s][sp].next_send_pn \in Nat
      /\ space[s][sp].next_send_pn < MaxPn[s][sp]
      /\ keys[s][sp] # NoKeys
  BY DEF Egest, Selected, Inv, TypeInv, TypeOK, Space
<1>2. MaxPn[s][sp] \in Nat /\ MaxPn[s][sp] <= Win(4) /\ Win(4) \in Nat
  BY ConnectionAssumption, WinFacts DEF NumbersFit, PnLengths
<1>3. space[s][sp].next_send_pn < Win(4)
  BY <1>1, <1>2
<1>4. LongPn(space[s][sp].next_send_pn) = space[s][sp].next_send_pn
  BY <1>1, <1>3, LongDecodesExactlyTheorem
<1>5. s = "client" /\ sp = "AppData" => Complete
  BY <1>1 DEF Inv, HandshakeInv, ClientInv, Complete
<1> QED BY <1>4, <1>5, AssembleSpace DEF Assemble

\* ingest() of a packet that does not close leaves the connection open.
LEMMA IngestOpen ==
    ASSUME Inv, NEW s \in Side, NEW p \in sent, NEW t \in Tickets, Ingest(s, p, t),
           p.close = "none"
    PROVE  state'[s] # "Closed" /\ state'[s] # "None"
<1>1. Open(s) /\ state \in [Side -> State]
  BY DEF Ingest, Inv, TypeInv, TypeOK
<1>2. PICK k : state' = [state EXCEPT ![s] = StateAfter(s, p, k)] \/ state' = state
  BY <1>1 DEF Ingest
<1>3. StateAfter(s, p, k) \in {"Established", state[s]}
  BY DEF StateAfter
<1> QED BY <1>1, <1>2, <1>3 DEF Open

\* The state of a side after a step of the connections: new, or as it was, or
\* established; and where its thread is.
LEMMA QuietThreads ==
    ASSUME Inv, SocketInv, QuietInv, EpNext, NEW s \in Side
    PROVE  /\ state'[s] # "Closed"
           /\ thread'[s] = "Start" <=> state'[s] = "None"
<1>0. inbox \in [Side -> Seq(sent)] /\ thread \in [Side -> Thread] /\ state \in [Side -> State]
  BY DEF Inv, TypeInv, TypeOK, SocketInv
<1>1. /\ state \in [Side -> State] /\ thread \in [Side -> Thread]
      /\ \A r \in Side : state[r] # "Closed" /\ (thread[r] = "Start" <=> state[r] = "None")
      /\ \A r \in Side : inbox[r] # <<>> => Head(inbox[r]) \in sent
      /\ \A p \in sent : p.close = "none"
  BY <1>0 DEF QuietInv
<1>2. CASE EpClient
  BY <1>1, <1>2, Names DEF EpClient, Connect
<1>3. CASE EpServer
  BY <1>1, <1>3, Names DEF EpServer, Accept
<1>4. CASE EpServerAgain
  <2>1. inbox["server"] # <<>> /\ thread["server"] = "Again"
    BY <1>4 DEF EpServerAgain, SocketInv
  <2>2. PICK t \in Tickets : Ingest("server", Head(inbox["server"]), t)
    BY <1>4 DEF EpServerAgain
  <2>3. state'["server"] # "Closed" /\ state'["server"] # "None"
    BY <1>1, <2>1, <2>2, IngestOpen, Names
  <2>4. s # "server" => state'[s] = state[s] /\ thread'[s] = thread[s]
    BY <1>1, <1>4, <2>2, Names DEF EpServerAgain, Ingest
  <2>5. thread'["server"] = "Flush"
    BY <1>1, <1>4, Names DEF EpServerAgain
  <2> QED BY <1>1, <2>3, <2>4, <2>5
<1>5. ASSUME NEW r \in Side, Run(r)
      PROVE  /\ state'[s] # "Closed"
             /\ thread'[s] = "Start" <=> state'[s] = "None"
  <2>0. AfterError(r) # "Start"
    BY DEF AfterError
  <2>1. CASE Poll(r) \/ RecvError(r) \/ RecvNone(r) \/ FlushNone(r)
    <3>1. state' = state /\ thread[r] # "Start"
      BY <2>1 DEF Poll, RecvError, RecvNone, FlushNone, vars
    <3>2. PICK v : v # "Start" /\ thread' = [thread EXCEPT ![r] = v]
      BY <2>0, <2>1 DEF Poll, RecvError, RecvNone, FlushNone
    <3> QED BY <1>1, <3>1, <3>2
  <2>2. CASE Recv(r)
    <3>1. inbox[r] # <<>> /\ thread[r] = "Recv"
      BY <2>2 DEF Recv
    <3>2. PICK t \in Tickets : Ingest(r, Head(inbox[r]), t)
      BY <2>2 DEF Recv
    <3>3. state'[r] # "Closed" /\ state'[r] # "None"
      BY <1>1, <3>1, <3>2, IngestOpen
    <3>4. s # r => state'[s] = state[s]
      BY <1>1, <3>2 DEF Ingest
    <3>5. PICK v : v # "Start" /\ thread' = [thread EXCEPT ![r] = v]
      BY <2>0, <2>2 DEF Recv
    <3> QED BY <1>1, <3>1, <3>3, <3>4, <3>5
  <2>3. CASE Flush(r)
    <3>1. PICK sp \in SpaceId, room \in Rooms :
              /\ Egest(r, sp, room)
              /\ UNCHANGED thread \/ thread' = [thread EXCEPT ![r] = "Loop"]
      BY <2>3 DEF Flush
    <3>2. /\ thread[r] = "Flush"
          /\ state' = state \/ state' = [state EXCEPT ![r] = "Established"]
      BY <1>1, <2>3, <3>1 DEF Flush, Egest
    <3> QED BY <1>1, <3>1, <3>2
  <2> QED BY <1>5, <2>1, <2>2, <2>3 DEF Run
<1>6. ASSUME NEW r \in Side, App(r)
      PROVE  /\ state'[s] # "Closed"
             /\ thread'[s] = "Start" <=> state'[s] = "None"
  <2>1. /\ state' = state /\ thread[r] = "Loop"
        /\ UNCHANGED thread \/ thread' = [thread EXCEPT ![r] = "Flush"]
    BY <1>6 DEF App, SendData, RecvData, conn_vars
  <2> QED BY <1>1, <2>1
<1> QED BY <1>2, <1>3, <1>4, <1>5, <1>6 DEF EpNext

\* QuietInv is inductive.
LEMMA QuietInvStep ==
    ASSUME Inv, SocketInv, AgreementInv, NumbersFit, QuietInv, [EpNext]_ep_vars
    PROVE  QuietInv'
<1>1. CASE UNCHANGED ep_vars
  BY <1>1 DEF ep_vars, vars, QuietInv, Complete
<1>2. CASE EpNext
  <2>1. Move
    BY <1>2, EpStep, NextMoves
  <2>2. Complete => Complete'
    BY <2>1, ClientAdvances
  <2>3. ASSUME NEW p \in sent'
        PROVE  /\ p.close = "none" /\ LongPn(p.pn) = p.pn
               /\ p.from = "client" /\ SpaceOf(p.form) = "AppData" => Complete'
    <3>1. CASE p \in sent
      BY <2>2, <3>1 DEF QuietInv
    <3>2. CASE p = InitialPacket
      <4>1. LongPn(0) = 0
        BY LongDecodesExactlyTheorem, WinFacts DEF PnLengths
      <4> QED BY <3>2, <4>1 DEF InitialPacket, SpaceOf
    <3>3. ASSUME NEW s \in Side, NEW sp \in SpaceId, NEW room \in Rooms,
                 Egest(s, sp, room), p = Assemble(s, sp)
          PROVE  /\ p.close = "none" /\ LongPn(p.pn) = p.pn
                 /\ p.from = "client" /\ SpaceOf(p.form) = "AppData" => Complete'
      BY <2>2, <3>3, AssembleQuiet
    <3> QED BY <1>2, <3>1, <3>2, <3>3, EpSends
  <2>4. state'["server"] # "Connecting"
    <3>1. state \in [Side -> State] /\ state["server"] # "Connecting"
      BY DEF QuietInv, Inv, TypeInv, TypeOK
    <3> QED BY <2>1, <3>1, Names DEF Move, MoveConnect, MoveAccept, MoveSecure, MoveDone,
               MoveConfirm, MoveReady, MoveClose
  <2> QED BY <1>2, <2>3, <2>4, QuietThreads DEF QuietInv
<1> QED BY <1>1, <1>2

-----------------------------------------------------------------------------
\* Each flight of the server that has left is on its way, in order, or read.
FlightInv ==
    /\ InOrderQueue(inbox["client"], Secure, Complete)
    /\ tls["server"] # "None" /\ pending_crypto["server"]["Initial"] = <<>> =>
           Arrives(inbox["client"], "Initial", <<"SH">>, Secure)
    /\ tls["server"] # "None" /\ pending_crypto["server"]["Handshake"] # <<"SF">> =>
           Arrives(inbox["client"], "Handshake", <<"SF">>, Complete)

\* A server that has sent its flights but not HANDSHAKE_DONE is in the middle
\* of its first flush, with nothing else to send.
FirstFlush ==
    state["server"] = "Handshaking" =>
        /\ space["server"]["AppData"].next_send_pn = 0
        /\ pending_crypto["server"]["Handshake"] # <<"SF">> =>
               /\ thread["server"] = "Flush"
               /\ ~HasFrames("server", "Initial") /\ ~HasFrames("server", "Handshake")

\* A client without all keys has used no number of the last space, and a short
\* packet of the server acknowledges one or carries data.
ShortInv ==
    /\ ~Complete => space["client"]["AppData"].next_send_pn = 0
    /\ \A p \in sent : p.from = "server" /\ p.form = "Short" => p.ack # {} \/ p.stream # <<>>

\* The client's Finished has not left yet.
Finishing == pending_crypto["client"]["Handshake"] = <<"CF">>

\* The server is established before its handshake() makes a step, so that no
\* error of a step ends it.
ServerGoesOn ==
    /\ thread["server"] # "Stopped"
    /\ thread["server"] = "Recv" /\ fatal["server"] => state["server"] # "Established"

\* In the receive loop of a step that handshake() has called, the client has sent
\* nothing since it got its last keys; it stops there if the server has written.
ClientStops ==
    /\ thread["client"] = "Recv" /\ fatal["client"] =>
           /\ space["client"]["AppData"].next_send_pn = 0
           /\ Complete => Finishing
    /\ thread["client"] = "Stopped" => Complete /\ Finishing /\ written["server"] > 0

\* What the two sides do does not change each other's connection.
LEMMA OtherSide ==
    ASSUME Inv, NEW r \in Side, NEW s \in Side, r # s,
           \/ \E p \in sent, t \in Tickets : Ingest(r, p, t)
           \/ \E sp \in SpaceId, room \in Rooms : Egest(r, sp, room)
           \/ SendData(r)
           \/ \E n \in 1..MaxRecv : RecvData(r, n)
           \/ UNCHANGED vars
    PROVE  /\ tls'[s] = tls[s] /\ state'[s] = state[s] /\ keys'[s] = keys[s]
           /\ space'[s] = space[s] /\ pending_crypto'[s] = pending_crypto[s]
<1>1. /\ tls \in [Side -> Tls] /\ state \in [Side -> State]
      /\ keys \in [Side -> [SpaceId -> Keys]] /\ space \in [Side -> [SpaceId -> Space]]
      /\ pending_crypto \in [Side -> [SpaceId -> Seq(Flight)]]
  BY DEF Inv, TypeInv, TypeOK
<1>2. ASSUME NEW p \in sent, NEW t \in Tickets, Ingest(r, p, t)
      PROVE  /\ tls'[s] = tls[s] /\ state'[s] = state[s] /\ keys'[s] = keys[s]
             /\ space'[s] = space[s] /\ pending_crypto'[s] = pending_crypto[s]
  BY <1>1, <1>2 DEF Ingest
<1>3. ASSUME NEW sp \in SpaceId, NEW room \in Rooms, Egest(r, sp, room)
      PROVE  /\ tls'[s] = tls[s] /\ state'[s] = state[s] /\ keys'[s] = keys[s]
             /\ space'[s] = space[s] /\ pending_crypto'[s] = pending_crypto[s]
  BY <1>1, <1>3 DEF Egest
<1>4. CASE SendData(r)
  BY <1>4 DEF SendData, conn_vars
<1>5. ASSUME NEW n \in 1..MaxRecv, RecvData(r, n)
      PROVE  /\ tls'[s] = tls[s] /\ state'[s] = state[s] /\ keys'[s] = keys[s]
             /\ space'[s] = space[s] /\ pending_crypto'[s] = pending_crypto[s]
  BY <1>5 DEF RecvData, conn_vars
<1>6. CASE UNCHANGED vars
  BY <1>6 DEF vars
<1> QED BY <1>2, <1>3, <1>4, <1>5, <1>6

\* The flights of the server are read when they are ingested.
LEMMA ClientReads ==
    ASSUME Inv, AgreementInv, NEW p \in sent, NEW t \in Tickets, Ingest("client", p, t)
    PROVE  /\ Secure \/ Carries(p, "Initial", <<"SH">>) => Secure'
           /\ Complete \/ Carries(p, "Handshake", <<"SF">>) => Complete'
<1>1. /\ Open("client") /\ Decrypts("client", p)
      /\ PacketOK(p) /\ keys["client"][SpaceOf(p.form)] # NoKeys
      /\ tls["client"] # "None"
  BY Names, OpensFacts DEF Ingest, Inv
<1>2. tls \in [Side -> Tls] /\ "client" \in Side
  BY Names DEF Inv, TypeInv, TypeOK
<1>3. /\ InOrder("client", p) =>
             tls' = [tls EXCEPT !["client"] = TlsRead(tls["client"], p.crypto, t).tls]
      /\ ~InOrder("client", p) => tls' = tls
  BY <1>2 DEF Ingest
<1>4. CASE Carries(p, "Initial", <<"SH">>) /\ tls["client"] = "C_Hello"
  <2>1. SpaceOf(p.form) = "Initial" /\ p.crypto = <<"SH">>
    BY <1>4 DEF Carries, SpaceOf
  <2>2. InOrder("client", p)
    BY <1>1, <1>4, <2>1 DEF InOrder, PacketOK, Inv, HandshakeInv, ClientInv
  <2>3. TlsRead(tls["client"], p.crypto, t).tls = "C_Secure"
    BY <1>4, <2>1 DEF TlsRead, TlsStep
  <2>4. Secure' /\ ~Complete
    BY <1>2, <1>3, <1>4, <2>2, <2>3 DEF Secure, Complete
  <2> QED BY <1>4, <2>4 DEF Carries
<1>5. CASE Carries(p, "Handshake", <<"SF">>) /\ tls["client"] = "C_Secure"
  <2>1. SpaceOf(p.form) = "Handshake" /\ p.crypto = <<"SF">>
    BY <1>5 DEF Carries, SpaceOf
  <2>2. InOrder("client", p)
    BY <1>1, <1>5, <2>1 DEF InOrder, PacketOK, Inv, HandshakeInv, ClientInv
  <2>3. TlsRead(tls["client"], p.crypto, t).tls = "C_Done"
    BY <1>5, <2>1 DEF TlsRead, TlsStep
  <2> QED BY <1>2, <1>3, <2>2, <2>3 DEF Secure, Complete
<1>6. (Secure => Secure') /\ (Complete => Complete')
  <2>1. Next
    BY Names DEF Next
  <2> QED BY <2>1, NextMoves, ClientAdvances
<1>7. tls["client"] \in {"C_Hello", "C_Secure", "C_Done"}
  BY <1>1 DEF Inv, HandshakeInv, ClientInv
<1>8. Carries(p, "Handshake", <<"SF">>) => tls["client"] # "C_Hello"
  BY <1>1 DEF Carries, SpaceOf, Inv, HandshakeInv, ClientInv
<1> QED BY <1>4, <1>5, <1>6, <1>7, <1>8 DEF Secure, Complete

\* What TLS writes is queued behind what is queued already.
LEMMA QueueGrows ==
    ASSUME Inv, NEW s \in Side, NEW p \in sent, NEW t \in Tickets, Ingest(s, p, t),
           NEW x \in SpaceId
    PROVE  \E a, b \in Seq(Flight) : pending_crypto'[s][x] = pending_crypto[s][x] \o a \o b
<1> DEFINE r == TlsRead(tls[s], p.crypto, t)
           sp == SpaceOf(p.form)
           out1 == IF x = sp THEN r.out1 ELSE <<>>
           out2 == IF r.keys1 # NoKeys /\ sp # "AppData" /\ x = NextSpace(sp)
                   THEN r.out2 ELSE <<>>
<1>1. r \in TlsResult /\ pending_crypto \in [Side -> [SpaceId -> Seq(Flight)]]
  BY TlsReadType DEF Inv, TypeInv, TypeOK
<1>2. out1 \in Seq(Flight) /\ out2 \in Seq(Flight) /\ pending_crypto[s][x] \in Seq(Flight)
  BY <1>1 DEF TlsResult
<1>3. QueueCrypto(pending_crypto[s], sp, r)[x] = pending_crypto[s][x] \o out1 \o out2
  BY DEF QueueCrypto
<1>4. \/ pending_crypto'[s][x] = pending_crypto[s][x]
      \/ pending_crypto'[s][x] = QueueCrypto(pending_crypto[s], sp, r)[x]
  BY <1>1 DEF Ingest
<1> HIDE DEF r, out1, out2
<1>5. pending_crypto[s][x] = pending_crypto[s][x] \o <<>> \o <<>>
  BY <1>2
<1>6. <<>> \in Seq(Flight)
  OBVIOUS
<1> QED BY <1>2, <1>3, <1>4, <1>5, <1>6

\* What the server ingests may add to what it has queued, and takes nothing away.
LEMMA ServerIngests ==
    ASSUME Inv, Inv', NEW p \in sent, NEW t \in Tickets, Ingest("server", p, t)
    PROVE  /\ tls["server"] # "None"
           /\ pending_crypto'["server"]["Initial"] = <<>> =>
                  pending_crypto["server"]["Initial"] = <<>>
           /\ pending_crypto["server"]["Handshake"] = <<"SF">> =>
                  pending_crypto'["server"]["Handshake"] = <<"SF">>
           /\ space'["server"]["AppData"].next_send_pn = space["server"]["AppData"].next_send_pn
<1>1. /\ tls["server"] # "None" /\ SpaceOf(p.form) \in SpaceId
  BY Names, OpensFacts DEF Ingest, Inv
<1>2. /\ pending_crypto \in [Side -> [SpaceId -> Seq(Flight)]]
      /\ space \in [Side -> [SpaceId -> Space]]
  BY DEF Inv, TypeInv, TypeOK
<1>3. ASSUME NEW x \in SpaceId
      PROVE  \E a, b \in Seq(Flight) :
                 pending_crypto'["server"][x] = pending_crypto["server"][x] \o a \o b
  BY QueueGrows, Names
<1>4. pending_crypto'["server"]["Initial"] = <<>> => pending_crypto["server"]["Initial"] = <<>>
  BY <1>2, <1>3, Names
<1>5. ASSUME pending_crypto["server"]["Handshake"] = <<"SF">>
      PROVE  pending_crypto'["server"]["Handshake"] = <<"SF">>
  <2>1. PICK a, b \in Seq(Flight) :
            pending_crypto'["server"]["Handshake"] = <<"SF">> \o a \o b
    BY <1>3, <1>5, Names
  <2>2. (<<"SF">> \o a \o b)[1] = "SF" /\ <<"SF">> \o a \o b # <<>>
    BY <2>1
  <2>3. pending_crypto'["server"]["Handshake"] \in {<<>>, <<"SF">>, <<"NST">>}
    BY Names DEF Inv, HandshakeInv, PendingInv, FlightsOf
  <2>4. <<"NST">>[1] # "SF"
    OBVIOUS
  <2> QED BY <2>1, <2>2, <2>3, <2>4
<1>6. space'["server"]["AppData"].next_send_pn = space["server"]["AppData"].next_send_pn
  BY <1>1, <1>2, Names DEF Ingest, RecordRecvPn, Space
<1> QED BY <1>1, <1>4, <1>5, <1>6

\* Ingesting uses no number and sends no Finished, and the packet that gives the
\* client its last keys leaves it with one to send.
LEMMA ClientIngests ==
    ASSUME Inv, Inv', NEW p \in sent, NEW t \in Tickets, Ingest("client", p, t)
    PROVE  /\ space'["client"]["AppData"].next_send_pn = space["client"]["AppData"].next_send_pn
           /\ Finishing => Finishing'
           /\ Complete' => Complete \/ Finishing'
<1>1. /\ Open("client") /\ Decrypts("client", p) /\ SpaceOf(p.form) \in SpaceId
  BY Names, OpensFacts DEF Ingest, Inv
<1>2. /\ pending_crypto \in [Side -> [SpaceId -> Seq(Flight)]] /\ tls \in [Side -> Tls]
      /\ space \in [Side -> [SpaceId -> Space]]
  BY DEF Inv, TypeInv, TypeOK
<1>3. pending_crypto'["client"]["Handshake"] \in {<<>>, <<"CF">>}
  BY Names DEF Inv, HandshakeInv, PendingInv, FlightsOf
<1>4. space'["client"]["AppData"].next_send_pn = space["client"]["AppData"].next_send_pn
  BY <1>1, <1>2, Names DEF Ingest, RecordRecvPn, Space
<1>5. ASSUME Finishing PROVE Finishing'
  <2>1. PICK a, b \in Seq(Flight) : pending_crypto'["client"]["Handshake"] = <<"CF">> \o a \o b
    <3>1. \E a, b \in Seq(Flight) : pending_crypto'["client"]["Handshake"]
                                     = pending_crypto["client"]["Handshake"] \o a \o b
      BY QueueGrows, Names
    <3>2. pending_crypto["client"]["Handshake"] = <<"CF">>
      BY <1>5 DEF Finishing
    <3> QED BY <3>1, <3>2
  <2>2. <<"CF">> \o a \o b # <<>>
    BY <2>1
  <2> QED BY <1>3, <2>1, <2>2 DEF Finishing
<1>6. ASSUME ~Complete, Complete' PROVE Finishing'
  <2> DEFINE r == TlsRead(tls["client"], p.crypto, t)
             old == pending_crypto["client"]["Handshake"]
  <2>1. InOrder("client", p)
    <3>1. ~InOrder("client", p) => tls' = tls
      BY <1>2 DEF Ingest
    <3> QED BY <1>6, <3>1 DEF Complete
  <2>2. tls'["client"] = r.tls
    BY <1>2, <2>1, Names DEF Ingest
  <2>3. /\ SpaceOf(p.form) = "Handshake" /\ p.crypto = <<"SF">> /\ tls["client"] = "C_Secure"
    <3>1. ~(p.crypto = <<"SH">> /\ tls["client"] = "C_Hello")
      BY <1>6, <2>2 DEF TlsRead, TlsStep, Complete
    <3> QED BY <1>1, <2>1, <3>1, FedIsNextFlight, Names DEF Inv
  <2>4. r.out1 = <<"CF">> /\ r.out2 = <<>>
    BY <2>3, FlightsDistinct DEF TlsRead, TlsStep
  <2>5. pending_crypto'["client"]["Handshake"]
            = QueueCrypto(pending_crypto["client"], "Handshake", r)["Handshake"]
    BY <1>2, <2>1, <2>3, Names DEF Ingest
  <2> HIDE DEF r
  <2>6. QueueCrypto(pending_crypto["client"], "Handshake", r)["Handshake"] = old \o <<"CF">> \o <<>>
    BY <2>4, Names DEF QueueCrypto, NextSpace
  <2>7. old \in Seq(Flight) /\ <<"CF">> \in Seq(Flight)
    BY <1>2, Names DEF Flight
  <2> HIDE DEF old
  <2>8. old \o <<"CF">> \o <<>> # <<>>
    BY <2>7
  <2> QED BY <1>3, <2>5, <2>6, <2>8 DEF Finishing
<1> QED BY <1>4, <1>5, <1>6

\* A step that leaves the client's socket and both TLS sessions alone, and takes
\* no flight from what the server has queued.
LEMMA FlightRests ==
    ASSUME FlightInv, inbox'["client"] = inbox["client"],
           Secure' = Secure, Complete' = Complete,
           \/ tls["server"] # "None"
           \/ tls'["server"] = tls["server"]
           \/ /\ pending_crypto'["server"]["Initial"] # <<>>
              /\ pending_crypto'["server"]["Handshake"] = <<"SF">>,
           \/ pending_crypto'["server"] = pending_crypto["server"]
           \/ /\ pending_crypto'["server"]["Initial"] = <<>> =>
                     pending_crypto["server"]["Initial"] = <<>>
              /\ pending_crypto["server"]["Handshake"] = <<"SF">> =>
                     pending_crypto'["server"]["Handshake"] = <<"SF">>
           \/ /\ pending_crypto'["server"]["Initial"] # <<>>
              /\ pending_crypto'["server"]["Handshake"] = <<"SF">>
    PROVE  FlightInv'
<1>1. ASSUME tls'["server"] # "None", pending_crypto'["server"]["Initial"] = <<>>
      PROVE  tls["server"] # "None" /\ pending_crypto["server"]["Initial"] = <<>>
  BY <1>1
<1>2. ASSUME tls'["server"] # "None", pending_crypto'["server"]["Handshake"] # <<"SF">>
      PROVE  tls["server"] # "None" /\ pending_crypto["server"]["Handshake"] # <<"SF">>
  BY <1>2
<1> QED BY <1>1, <1>2 DEF FlightInv

\* The first packet is taken out of the client's socket.
LEMMA FlightTaken ==
    ASSUME Inv, AgreementInv, QuietInv, SocketInv, FlightInv, inbox["client"] # <<>>,
           inbox' = [inbox EXCEPT !["client"] = Tail(inbox["client"])],
           \/ \E t \in Tickets : Ingest("client", Head(inbox["client"]), t)
           \/ UNCHANGED vars /\ state["client"] = "Established"
    PROVE  FlightInv'
<1> DEFINE q == inbox["client"]
<1>1. q \in Seq(sent) /\ Head(q) \in sent /\ inbox'["client"] = Tail(q)
  BY Names DEF SocketInv
<1>2. /\ tls'["server"] = tls["server"] /\ pending_crypto'["server"] = pending_crypto["server"]
  BY <1>1, OtherSide, Names
<1>3. /\ Secure \/ Carries(Head(q), "Initial", <<"SH">>) => Secure'
      /\ Complete \/ Carries(Head(q), "Handshake", <<"SF">>) => Complete'
  <2>1. CASE \E t \in Tickets : Ingest("client", Head(q), t)
    BY <1>1, <2>1, ClientReads
  <2>2. CASE UNCHANGED vars /\ state["client"] = "Established"
    BY <2>2 DEF vars, Secure, Complete, Inv, HandshakeInv, ClientInv
  <2> QED BY <2>1, <2>2
<1> HIDE DEF q
<1>4. q # <<>> /\ InOrderQueue(q, Secure, Complete)
  BY DEF q, FlightInv
<1>5. InOrderQueue(Tail(q), Secure', Complete')
  BY <1>1, <1>3, <1>4, QueueTail
<1>6. ASSUME Arrives(q, "Initial", <<"SH">>, Secure)
      PROVE  Arrives(Tail(q), "Initial", <<"SH">>, Secure')
  BY <1>1, <1>3, <1>4, <1>6, ArrivesTail
<1>7. ASSUME Arrives(q, "Handshake", <<"SF">>, Complete)
      PROVE  Arrives(Tail(q), "Handshake", <<"SF">>, Complete')
  BY <1>1, <1>3, <1>4, <1>7, ArrivesTail
<1> QED BY <1>1, <1>2, <1>5, <1>6, <1>7 DEF FlightInv, q

\* A packet of the handshake always fits, and so does HANDSHAKE_DONE.
LEMMA FlightsAreSent ==
    ASSUME Inv, FlightsFit, NEW s \in Side, NEW sp \in SpaceId, NEW room \in Rooms,
           sp # "AppData" \/ state[s] = "Handshaking"
    PROVE  Units(Assemble(s, sp)) <= room
<1>1. Assemble(s, sp).stream = <<>> /\ Assemble(s, sp).crypto = pending_crypto[s][sp]
  BY DEF Assemble, SendsStream
<1>2. pending_crypto[s][sp] \in {<<>>, <<"CH">>, <<"SH">>, <<"SF">>, <<"CF">>, <<"NST">>}
  BY DEF Inv, HandshakeInv, PendingInv, FlightsOf
<1>3. Len(pending_crypto[s][sp]) \in {0, 1} /\ Len(<<>>) = 0
  BY <1>2
<1>4. room \in Nat /\ room >= 1
  BY ConnectionAssumption DEF FlightsFit
<1>5. Units(Assemble(s, sp)) = Len(pending_crypto[s][sp]) + 0
  BY <1>1, <1>3 DEF Units
<1>6. PICK u : u = Units(Assemble(s, sp))
  OBVIOUS
<1>7. u \in {0, 1}
  BY <1>3, <1>5, <1>6
<1>8. u <= room
  BY <1>4, <1>7
<1> QED BY <1>6, <1>8

\* egest visits the spaces in the order in which the client gets the keys.
LEMMA FlightFlush ==
    ASSUME Inv, SocketInv, FlightsFit, ~Lossy, FlightInv, Flush("server")
    PROVE  FlightInv'
<1> DEFINE q == inbox["client"]
           pending == pending_crypto["server"]
<1>1. PICK sp \in SpaceId, room \in Rooms :
          /\ Egest("server", sp, room)
          /\ IF Units(Assemble("server", sp)) <= room
             THEN Deliver("server", Assemble("server", sp)) /\ UNCHANGED thread
             ELSE thread' = [thread EXCEPT !["server"] = "Loop"] /\ UNCHANGED inbox
  BY DEF Flush
<1> DEFINE p == Assemble("server", sp)
<1>2. /\ p.crypto = pending[sp] /\ SpaceOf(p.form) = sp
      /\ p.form = FormFor("server", sp)
  BY AssembleSpace, Names DEF Assemble
<1>3. /\ tls["server"] # "None" /\ tls' = tls
      /\ pending'[sp] = <<>> /\ \A x \in SpaceId \ {sp} : pending'[x] = pending[x]
      /\ Selected("server", sp)
  <2>1. pending_crypto \in [Side -> [SpaceId -> Seq(Flight)]]
    BY DEF Inv, TypeInv, TypeOK
  <2>2. /\ Open("server") /\ tls' = tls /\ Selected("server", sp)
        /\ pending_crypto' = [pending_crypto EXCEPT !["server"][sp] = <<>>]
    BY <1>1 DEF Egest
  <2>3. tls["server"] # "None"
    BY <2>2 DEF Open, Inv, HandshakeInv, ServerInv
  <2> QED BY <2>1, <2>2, <2>3, Names
<1>4. \A x \in Before(sp) : pending[x] = <<>>
  <2>1. \A x \in SpaceId : keys["server"][x] # NoKeys
    BY <1>3 DEF Inv, HandshakeInv, ServerInv, EpochOf, NoKeys
  <2> QED BY <1>3, <2>1 DEF Selected, HasFrames, Before, SpaceId
<1>5. q \in Seq(sent) /\ sent \subseteq sent' /\ inbox \in [Side -> Seq(sent)]
  BY <1>1, Names DEF SocketInv, Egest
<1>6. tls'["client"] = tls["client"] /\ tls'["server"] = tls["server"]
  BY <1>3
<1>7. /\ InOrderQueue(q, Secure, Complete)
      /\ pending["Initial"] = <<>> => Arrives(q, "Initial", <<"SH">>, Secure)
      /\ pending["Handshake"] # <<"SF">> => Arrives(q, "Handshake", <<"SF">>, Complete)
  BY <1>3 DEF FlightInv
<1>8. CASE inbox' = inbox /\ sp = "AppData"
  <2>1. pending'["Initial"] = pending["Initial"] /\ pending'["Handshake"] = pending["Handshake"]
    BY <1>3, <1>8, Names
  <2> QED BY <1>3, <1>6, <1>7, <1>8, <2>1 DEF FlightInv, Secure, Complete
<1>9. CASE Units(p) <= room
  <2>1. inbox' = [inbox EXCEPT !["client"] = Append(q, p)] /\ p \in sent'
    BY <1>1, <1>9 DEF Deliver, Peer, Egest
  <2>2. inbox'["client"] = Append(q, p)
    BY <1>5, <2>1, Names
  <2>3. q \in Seq(sent')
    BY <1>5, SeqGrows
  <2>4. p.form = "Handshake" => sp = "Handshake"
    BY <1>2 DEF SpaceOf
  <2>5. /\ sp # "Initial" => pending["Initial"] = <<>>
        /\ sp = "AppData" => pending["Handshake"] = <<>>
    BY <1>4 DEF Before, SpaceId
  <2>6. <<>> # <<"SF">>
    OBVIOUS
  <2>7. pending["Initial"] \in {<<>>, <<"SH">>}
    BY Names DEF Inv, HandshakeInv, PendingInv, FlightsOf
  <2> HIDE DEF q, p, pending
  <2>8. InOrderQueue(Append(q, p), Secure, Complete)
    BY <1>2, <1>7, <2>1, <2>3, <2>4, <2>5, <2>6, QueueAppend DEF SpaceId
  <2>9. pending'["Initial"] = <<>> => Arrives(Append(q, p), "Initial", <<"SH">>, Secure)
    <3>1. CASE pending["Initial"] = <<>>
      BY <1>7, <2>1, <2>3, <3>1, ArrivesAppend
    <3>2. CASE pending["Initial"] = <<"SH">> /\ sp = "Initial"
      <4>1. Carries(p, "Initial", <<"SH">>)
        BY <1>2, <3>2 DEF Carries, FormFor
      <4> QED BY <2>1, <2>3, <4>1, ArrivesAppend
    <3>3. CASE sp # "Initial"
      BY <2>5, <3>1, <3>3
    <3> QED BY <2>7, <3>1, <3>2, <3>3
  <2>10. pending'["Handshake"] # <<"SF">> => Arrives(Append(q, p), "Handshake", <<"SF">>, Complete)
    <3>1. CASE pending["Handshake"] # <<"SF">>
      BY <1>7, <2>1, <2>3, <3>1, ArrivesAppend
    <3>2. CASE pending["Handshake"] = <<"SF">> /\ sp = "Handshake"
      <4>1. Carries(p, "Handshake", <<"SF">>)
        BY <1>2, <3>2 DEF Carries, FormFor
      <4> QED BY <2>1, <2>3, <4>1, ArrivesAppend
    <3>3. CASE pending["Handshake"] = <<"SF">> /\ sp # "Handshake"
      BY <1>3, <3>3, Names
    <3> QED BY <3>1, <3>2, <3>3
  <2> QED BY <1>6, <2>2, <2>8, <2>9, <2>10 DEF FlightInv, pending, Secure, Complete
<1> QED BY <1>1, <1>8, <1>9, FlightsAreSent, Names

\* Every step of the event loops keeps the flights in order.
LEMMA FlightStep ==
    ASSUME Inv, Inv', SocketInv, AgreementInv, QuietInv, FlightsFit, ~Lossy,
           FlightInv, EpNext,
           \A s \in Side : thread[s] = "Recv" /\ inbox[s] # <<>> /\ Rejects(s, Head(inbox[s])) =>
                               state[s] = "Established"
    PROVE  FlightInv'
<1>0. inbox \in [Side -> Seq(sent)]
  BY DEF SocketInv
<1>1. /\ inbox \in [Side -> Seq(sent)] /\ tls \in [Side -> Tls]
      /\ \A s \in Side : inbox[s] # <<>> => Head(inbox[s]) \in sent
  BY <1>0 DEF Inv, TypeInv, TypeOK
<1>2. CASE EpClient
  <2>1. /\ state["client"] = "None" /\ tls' = [tls EXCEPT !["client"] = "C_Hello"]
        /\ pending_crypto' = pending_crypto
        /\ inbox' = [inbox EXCEPT !["server"] = Append(inbox["server"], InitialPacket)]
    BY <1>2 DEF EpClient, Connect, Deliver, Peer
  <2>2. tls["client"] = "None"
    BY <2>1 DEF Inv, HandshakeInv, ClientInv
  <2>3. Secure' = Secure /\ Complete' = Complete
    BY <1>1, <2>1, <2>2, Names DEF Secure, Complete
  <2>4. inbox'["client"] = inbox["client"] /\ tls'["server"] = tls["server"]
    BY <1>1, <2>1, Names
  <2> QED BY <2>1, <2>3, <2>4, FlightRests
<1>3. CASE EpServer
  <2>1. Head(inbox["server"]) \in sent /\ Accept(Head(inbox["server"])) /\ inbox' = inbox
    BY <1>1, <1>3, Names DEF EpServer
  <2>2. /\ tls' = [tls EXCEPT !["server"] = "S_Flight"]
        /\ pending_crypto'["server"]["Initial"] = <<"SH">>
        /\ pending_crypto'["server"]["Handshake"] = <<"SF">>
    BY <2>1, AcceptFacts DEF Inv
  <2>3. Secure' = Secure /\ Complete' = Complete
    BY <1>1, <2>2, Names DEF Secure, Complete
  <2>4. <<"SH">> # <<>>
    OBVIOUS
  <2> QED BY <2>1, <2>2, <2>3, <2>4, FlightRests
<1>4. ASSUME NEW p \in sent, NEW t \in Tickets, Ingest("server", p, t),
             inbox' = [inbox EXCEPT !["server"] = Tail(inbox["server"])]
      PROVE  FlightInv'
  <2>1. tls'["client"] = tls["client"]
    BY <1>4, OtherSide, Names
  <2>2. Secure' = Secure /\ Complete' = Complete
    BY <2>1 DEF Secure, Complete
  <2>3. inbox'["client"] = inbox["client"]
    BY <1>1, <1>4, Names
  <2> QED BY <1>4, <2>2, <2>3, ServerIngests, FlightRests
<1>5. CASE EpServerAgain
  <2>1. inbox["server"] # <<>>
    BY <1>5 DEF EpServerAgain, SocketInv
  <2> QED BY <1>1, <1>4, <1>5, <2>1, Names DEF EpServerAgain
<1>6. ASSUME inbox'["client"] = inbox["client"], UNCHANGED <<tls, pending_crypto>>
      PROVE  FlightInv'
  <2>1. Secure' = Secure /\ Complete' = Complete
    BY <1>6 DEF Secure, Complete
  <2> QED BY <1>6, <2>1, FlightRests
<1>7. ASSUME NEW s \in Side, Run(s) PROVE FlightInv'
  <2>1. CASE Poll(s) \/ RecvNone(s) \/ FlushNone(s)
    BY <1>6, <2>1 DEF Poll, RecvNone, FlushNone, vars
  <2>2. CASE Recv(s)
    <3>1. /\ inbox[s] # <<>> /\ inbox' = [inbox EXCEPT ![s] = Tail(inbox[s])]
          /\ \E t \in Tickets : Ingest(s, Head(inbox[s]), t)
      BY <2>2 DEF Recv
    <3>2. CASE s = "client"
      BY <3>1, <3>2, FlightTaken
    <3>3. CASE s = "server"
      BY <1>1, <1>4, <3>1, <3>3
    <3> QED BY <3>2, <3>3 DEF Side
  <2>3. CASE RecvError(s)
    <3>1. /\ inbox[s] # <<>> /\ inbox' = [inbox EXCEPT ![s] = Tail(inbox[s])]
          /\ UNCHANGED vars /\ state[s] = "Established"
      BY <2>3 DEF RecvError
    <3>2. CASE s = "client"
      BY <3>1, <3>2, FlightTaken
    <3>3. CASE s = "server"
      <4>1. inbox'["client"] = inbox["client"]
        BY <1>1, <3>1, <3>3, Names
      <4> QED BY <1>6, <3>1, <4>1 DEF vars
    <3> QED BY <3>2, <3>3 DEF Side
  <2>4. CASE Flush(s)
    <3>1. CASE s = "server"
      BY <2>4, <3>1, FlightFlush
    <3>2. CASE s = "client"
      <4>1. PICK sp \in SpaceId, room \in Rooms :
                /\ Egest("client", sp, room)
                /\ Deliver("client", Assemble("client", sp)) \/ UNCHANGED inbox
        BY <2>4, <3>2 DEF Flush
      <4>2. inbox'["client"] = inbox["client"]
        BY <1>1, <4>1, Names DEF Deliver, Peer
      <4>3. tls'["client"] = tls["client"] /\ tls'["server"] = tls["server"]
            /\ pending_crypto'["server"] = pending_crypto["server"]
        BY <4>1, OtherSide, Names DEF Egest
      <4>4. Secure' = Secure /\ Complete' = Complete
        BY <4>3 DEF Secure, Complete
      <4> QED BY <4>2, <4>3, <4>4, FlightRests
    <3> QED BY <3>1, <3>2 DEF Side
  <2> QED BY <1>7, <2>1, <2>2, <2>3, <2>4 DEF Run
<1>8. ASSUME NEW s \in Side, App(s) PROVE FlightInv'
  BY <1>6, <1>8 DEF App, SendData, RecvData, conn_vars
<1> QED BY <1>2, <1>3, <1>5, <1>7, <1>8 DEF EpNext

\* A step that leaves the server alone, or one that leaves its second flight
\* where it is.
LEMMA FirstFlushRests ==
    ASSUME FirstFlush,
           state'["server"] = "Handshaking" => state["server"] = "Handshaking",
           space'["server"]["AppData"].next_send_pn = space["server"]["AppData"].next_send_pn,
           \/ state["server"] = "Handshaking" => pending_crypto'["server"]["Handshake"] = <<"SF">>
           \/ /\ thread'["server"] = thread["server"] /\ space'["server"] = space["server"]
              /\ pending_crypto'["server"] = pending_crypto["server"]
    PROVE  FirstFlush'
  BY DEF FirstFlush, HasFrames, SendsDone, SendsStream

\* In its first flush the server sends its flights and then HANDSHAKE_DONE.
LEMMA FirstFlushFlush ==
    ASSUME Inv, FlightsFit, FirstFlush, Flush("server")
    PROVE  FirstFlush'
<1>1. PICK sp \in SpaceId, room \in Rooms :
          /\ Egest("server", sp, room)
          /\ Units(Assemble("server", sp)) <= room => UNCHANGED thread
  BY DEF Flush
<1>2. /\ pending_crypto \in [Side -> [SpaceId -> Seq(Flight)]]
      /\ space \in [Side -> [SpaceId -> Space]] /\ state \in [Side -> State]
  BY DEF Inv, TypeInv, TypeOK
<1>3. /\ Open("server") /\ Selected("server", sp) /\ thread["server"] = "Flush"
      /\ pending_crypto' = [pending_crypto EXCEPT !["server"][sp] = <<>>]
      /\ space' = [space EXCEPT !["server"][sp] = NextSendPn(TakePendingAcks(space["server"][sp]))]
  BY <1>1 DEF Flush, Egest
<1>4. state'["server"] = IF SendsDone("server", sp) THEN "Established" ELSE state["server"]
  BY <1>1, <1>2, Names DEF Egest, Assemble
<1>5. SUFFICES ASSUME state'["server"] = "Handshaking" PROVE FirstFlush'
  BY DEF FirstFlush
<1>6. state["server"] = "Handshaking" /\ sp # "AppData"
  BY <1>4, <1>5, Names DEF SendsDone
<1>7. /\ HasFrames("server", sp) /\ space["server"]["AppData"].next_send_pn = 0
      /\ space'["server"]["AppData"].next_send_pn = 0
  BY <1>2, <1>3, <1>6, Names DEF Selected, FirstFlush
<1>8. pending_crypto["server"]["Handshake"] = <<"SF">>
  BY <1>6, <1>7 DEF FirstFlush, SpaceId
<1>9. CASE sp = "Initial"
  <2>1. pending_crypto'["server"]["Handshake"] = <<"SF">>
    BY <1>2, <1>3, <1>8, <1>9, Names
  <2> QED BY <1>7, <2>1 DEF FirstFlush
<1>10. CASE sp = "Handshake"
  <2>1. thread' = thread
    BY <1>1, <1>6, FlightsAreSent, Names
  <2>2. keys["server"]["Initial"] # NoKeys
    BY <1>3, Names DEF Open, Inv, HandshakeInv, ServerInv, EpochOf, NoKeys
  <2>3. ~HasFrames("server", "Initial")
    BY <1>3, <1>10, <2>2 DEF Selected, Before
  <2>4. /\ pending_crypto'["server"]["Initial"] = pending_crypto["server"]["Initial"]
        /\ space'["server"]["Initial"] = space["server"]["Initial"]
    BY <1>2, <1>3, <1>10, Names
  <2>5. /\ pending_crypto'["server"]["Handshake"] = <<>>
        /\ space'["server"]["Handshake"].pending_acks = <<>>
    BY <1>2, <1>3, <1>10, Names DEF NextSendPn, TakePendingAcks, Space
  <2>6. ~HasFrames("server", "Initial")' /\ ~HasFrames("server", "Handshake")'
    BY <2>3, <2>4, <2>5 DEF HasFrames, SendsDone, SendsStream
  <2> QED BY <1>3, <1>7, <2>1, <2>6 DEF FirstFlush
<1> QED BY <1>6, <1>9, <1>10 DEF SpaceId

\* Every step of the event loops keeps the server's first flush together.
LEMMA FirstFlushStep ==
    ASSUME Inv, Inv', FreshInv, SocketInv, NumbersFit, FlightsFit, FirstFlush, EpNext
    PROVE  FirstFlush'
<1>0. inbox \in [Side -> Seq(sent)]
  BY DEF SocketInv
<1>1. /\ \A s \in Side : inbox[s] # <<>> => Head(inbox[s]) \in sent
      /\ thread \in [Side -> Thread]
  BY <1>0 DEF SocketInv
<1>2. /\ state \in [Side -> State] /\ space \in [Side -> [SpaceId -> Space]]
      /\ pending_crypto \in [Side -> [SpaceId -> Seq(Flight)]]
  BY DEF Inv, TypeInv, TypeOK
<1>3. CASE EpClient
  <2>1. /\ state' = [state EXCEPT !["client"] = "Connecting"]
        /\ space' = [space EXCEPT !["client"]["Initial"] = NextSendPn(SpaceNew)]
        /\ pending_crypto' = pending_crypto /\ thread' = [thread EXCEPT !["client"] = "Loop"]
    BY <1>3 DEF EpClient, Connect
  <2>2. /\ state'["server"] = state["server"] /\ space'["server"] = space["server"]
        /\ thread'["server"] = thread["server"]
    BY <1>1, <1>2, <2>1, Names
  <2> QED BY <2>1, <2>2, FirstFlushRests
<1>4. CASE EpServer
  <2>1. Head(inbox["server"]) \in sent /\ Accept(Head(inbox["server"]))
    BY <1>1, <1>4, Names DEF EpServer
  <2>2. /\ state["server"] = "None" /\ pending_crypto'["server"]["Handshake"] = <<"SF">>
    BY <2>1, AcceptFacts DEF Inv
  <2>3. space'["server"]["AppData"] = space["server"]["AppData"]
    BY <1>2, <2>1, Names DEF Accept
  <2>4. space["server"]["AppData"] = SpaceNew
    BY <2>2, Names DEF FreshInv
  <2>5. space'["server"]["AppData"].next_send_pn = 0
    BY <2>3, <2>4 DEF SpaceNew
  <2> QED BY <2>2, <2>5 DEF FirstFlush
<1>5. ASSUME NEW p \in sent, NEW t \in Tickets, Ingest("server", p, t),
             thread["server"] # "Flush"
      PROVE  FirstFlush'
  <2>1. state'["server"] = "Handshaking" => state["server"] = "Handshaking"
    <3>1. PICK k : \/ state' = [state EXCEPT !["server"] = StateAfter("server", p, k)]
                   \/ state' = state
      BY <1>2, <1>5, Names DEF Ingest
    <3>2. StateAfter("server", p, k) \in {"Closed", "Established", state["server"]}
      BY DEF StateAfter
    <3> QED BY <1>2, <3>1, <3>2, Names
  <2>2. state["server"] = "Handshaking" => pending_crypto["server"]["Handshake"] = <<"SF">>
    BY <1>5 DEF FirstFlush
  <2> QED BY <1>5, <2>1, <2>2, ServerIngests, FirstFlushRests
<1>6. CASE EpServerAgain
  <2>1. inbox["server"] # <<>>
    BY <1>6 DEF EpServerAgain, SocketInv
  <2> QED BY <1>1, <1>5, <1>6, <2>1, Names DEF EpServerAgain
<1>7. ASSUME NEW r \in Side, r = "client", Run(r) \/ App(r) PROVE FirstFlush'
  <2>1. \/ \E p \in sent, t \in Tickets : Ingest(r, p, t)
        \/ \E sp \in SpaceId, room \in Rooms : Egest(r, sp, room)
        \/ SendData(r)
        \/ \E n \in 1..MaxRecv : RecvData(r, n)
        \/ UNCHANGED vars
    BY <1>1, <1>7 DEF Run, App, Poll, Recv, RecvError, RecvNone, Flush, FlushNone
  <2>2. /\ state'["server"] = state["server"] /\ space'["server"] = space["server"]
        /\ pending_crypto'["server"] = pending_crypto["server"]
    BY <1>7, <2>1, OtherSide, Names
  <2>3. \E v : thread' = [thread EXCEPT ![r] = v]
    <3>1. thread' = thread => thread' = [thread EXCEPT ![r] = thread[r]]
      BY <1>1
    <3> QED BY <1>7, <3>1 DEF Run, App, Poll, Recv, RecvError, RecvNone, Flush, FlushNone
  <2>4. thread'["server"] = thread["server"]
    BY <1>1, <1>7, <2>3, Names
  <2> QED BY <2>2, <2>4, FirstFlushRests
<1>8. CASE Run("server")
  <2>1. CASE Poll("server") \/ RecvError("server") \/ RecvNone("server")
    <3>1. UNCHANGED vars /\ thread["server"] # "Flush"
      BY <2>1 DEF Poll, RecvError, RecvNone
    <3>2. state["server"] = "Handshaking" => pending_crypto["server"]["Handshake"] = <<"SF">>
      BY <3>1 DEF FirstFlush
    <3> QED BY <3>1, <3>2, FirstFlushRests DEF vars
  <2>2. CASE Recv("server")
    <3>1. thread["server"] = "Recv" /\ inbox["server"] # <<>>
      BY <2>2 DEF Recv
    <3> QED BY <1>1, <1>5, <2>2, <3>1, Names DEF Recv
  <2>3. CASE Flush("server")
    BY <2>3, FirstFlushFlush
  <2>4. CASE FlushNone("server")
    <3>1. /\ UNCHANGED vars
          /\ ~(Open("server") /\ Selected("server", "AppData")
               /\ space["server"]["AppData"].next_send_pn < MaxPn["server"]["AppData"])
      BY <2>4, Names DEF FlushNone
    <3>2. ASSUME state["server"] = "Handshaking", pending_crypto["server"]["Handshake"] # <<"SF">>
          PROVE  FALSE
      <4>1. /\ ~HasFrames("server", "Initial") /\ ~HasFrames("server", "Handshake")
            /\ space["server"]["AppData"].next_send_pn = 0
        BY <3>2 DEF FirstFlush
      <4>2. keys["server"]["AppData"] # NoKeys
        BY <3>2, Names DEF Inv, HandshakeInv, ServerInv, EpochOf, NoKeys
      <4>3. Selected("server", "AppData") /\ Open("server")
        BY <3>2, <4>1, <4>2 DEF Selected, HasFrames, SendsDone, Before, Open
      <4>4. 0 < MaxPn["server"]["AppData"]
        <5>1. MaxPn["server"]["AppData"] \in Nat
          BY ConnectionAssumption, Names
        <5> QED BY <5>1 DEF NumbersFit
      <4> QED BY <3>1, <4>1, <4>3, <4>4
    <3> QED BY <3>1, <3>2, FirstFlushRests DEF vars
  <2> QED BY <1>8, <2>1, <2>2, <2>3, <2>4 DEF Run
<1>9. CASE App("server")
  <2>1. state' = state /\ state["server"] = "Established"
    BY <1>9 DEF App, SendData, RecvData, conn_vars
  <2> QED BY <2>1 DEF FirstFlush
<1> QED BY <1>3, <1>4, <1>6, <1>7, <1>8, <1>9 DEF EpNext, Side

-----------------------------------------------------------------------------
\* Before a side is established, it opens every packet that it takes from its
\* socket: the keys are there.
LEMMA NothingRejected ==
    ASSUME Inv, AgreementInv, SocketInv, ReaderInv, QuietInv, FlightInv, FirstFlush,
           NEW s \in Side, thread[s] = "Recv", inbox[s] # <<>>, Rejects(s, Head(inbox[s]))
    PROVE  state[s] = "Established"
<1> SUFFICES ASSUME state[s] # "Established" PROVE FALSE
  OBVIOUS
<1> DEFINE q == inbox[s]
           p == Head(q)
<1>1. q \in Seq(sent)
  BY DEF SocketInv
<1>2. p \in sent /\ p = q[1] /\ 1 \in 1..Len(q)
  BY <1>1
<1>3. p.from = Peer(s) /\ PacketOK(p) /\ p.form \in Form /\ LongPn(p.pn) = p.pn
  <2>1. p.from = Peer(s)
    BY <1>2 DEF ReaderInv
  <2>2. PacketOK(p) /\ LongPn(p.pn) = p.pn
    BY <1>2 DEF Inv, HandshakeInv, PacketInv, QuietInv
  <2>3. p.form \in Form
    BY <1>2 DEF Inv, TypeInv, TypeOK, Packet
  <2> QED BY <2>1, <2>2, <2>3
<1>4. Open(s)
  BY DEF QuietInv, Open
<1>5. ASSUME SpaceOf(p.form) # "AppData", keys[s][SpaceOf(p.form)] = EpochOf(SpaceOf(p.form))
      PROVE  FALSE
  <2>1. p.form # "Short"
    BY <1>5 DEF SpaceOf
  <2> QED BY <1>3, <1>4, <1>5, <2>1 DEF Rejects, Decrypts, PacketOK
<1>6. CASE s = "client"
  <2>1. ~Complete
    BY <1>4, <1>6 DEF Complete, AgreementInv, Open
  <2>2. /\ p.form = "Handshake" => Secure
        /\ SpaceOf(p.form) # "AppData"
    BY <1>1, <1>6, <2>1, QueueHead DEF FlightInv
  <2>3. tls["client"] # "None"
    BY <1>4, <1>6 DEF Open, Inv, HandshakeInv, ClientInv
  <2>4. keys["client"][SpaceOf(p.form)] = EpochOf(SpaceOf(p.form))
    BY <2>2, <2>3 DEF SpaceOf, EpochOf, Secure, Inv, HandshakeInv, ClientInv
  <2> QED BY <1>5, <1>6, <2>2, <2>4
<1>7. CASE s = "server"
  <2>1. state["server"] = "Handshaking"
    <3>1. state["server"] # "Connecting"
      BY <1>7 DEF QuietInv
    <3> QED BY <1>4, <1>7, <3>1 DEF Open, Inv, TypeInv, TypeOK, State
  <2>2. pending_crypto["server"]["Handshake"] = <<"SF">>
    BY <1>7, <2>1 DEF FirstFlush
  <2>3. ~Complete
    BY <2>2 DEF Complete, Inv, HandshakeInv, OrderInv
  <2>4. SpaceOf(p.form) # "AppData"
    BY <1>2, <1>3, <1>7, <2>3 DEF QuietInv, Peer
  <2>5. keys["server"][SpaceOf(p.form)] = EpochOf(SpaceOf(p.form))
    BY <1>4, <1>7 DEF Open, Inv, HandshakeInv, ServerInv, SpaceOf, SpaceId
  <2> QED BY <1>5, <1>7, <2>4, <2>5
<1> QED BY <1>6, <1>7 DEF Side

\* Numbers of the last space are used with its keys, and a short packet is sent
\* when there is something to acknowledge or to say.
LEMMA ShortInvStep ==
    ASSUME Inv, AgreementInv, SocketInv, ShortInv, EpNext
    PROVE  ShortInv'
<1>0. /\ space \in [Side -> [SpaceId -> Space]] /\ state \in [Side -> State]
      /\ keys \in [Side -> [SpaceId -> Keys]]
  BY DEF Inv, TypeInv, TypeOK
<1>1. Next \/ UNCHANGED vars
  BY EpStep
<1>2. ASSUME ~Complete' PROVE space'["client"]["AppData"].next_send_pn = 0
  <2>1. ~Complete
    BY <1>1, <1>2, NextMoves, ClientAdvances
  <2>2. /\ space["client"]["AppData"].next_send_pn = 0
        /\ keys["client"]["AppData"] = NoKeys
    BY <2>1 DEF ShortInv, Complete, Inv, HandshakeInv, ClientInv
  <2>3. CASE space' = space
    BY <2>2, <2>3
  <2>4. ASSUME NEW s \in Side, NEW sp \in SpaceId, NEW v,
               space' = [space EXCEPT ![s][sp] = v],
               s = "client" /\ sp = "AppData" => v.next_send_pn = space[s][sp].next_send_pn
        PROVE  space'["client"]["AppData"].next_send_pn = 0
    <3>1. CASE s = "client" /\ sp = "AppData"
      BY <1>0, <2>2, <2>4, <3>1
    <3>2. CASE ~(s = "client" /\ sp = "AppData")
      <4>1. space'["client"]["AppData"] = space["client"]["AppData"]
        BY <1>0, <2>4, <3>2, Names
      <4> QED BY <2>2, <4>1
    <3> QED BY <3>1, <3>2
  <2>5. CASE Connect
    BY <2>4, <2>5, Names DEF Connect
  <2>6. ASSUME NEW p \in sent, Accept(p) PROVE space'["client"]["AppData"].next_send_pn = 0
    BY <2>4, <2>6, Names DEF Accept
  <2>7. ASSUME NEW s \in Side, NEW p \in sent, NEW t \in Tickets, Ingest(s, p, t)
        PROVE  space'["client"]["AppData"].next_send_pn = 0
    <3>1. SpaceOf(p.form) \in SpaceId
      BY PacketPlace DEF Inv
    <3>2. PICK v : /\ v = RecordRecvPn(space[s][SpaceOf(p.form)], p.pn)
                   /\ space' = [space EXCEPT ![s][SpaceOf(p.form)] = v]
      BY <1>0, <2>7, <3>1 DEF Ingest
    <3>3. v.next_send_pn = space[s][SpaceOf(p.form)].next_send_pn
      BY <1>0, <3>1, <3>2 DEF RecordRecvPn, Space
    <3> QED BY <2>4, <3>1, <3>2, <3>3
  <2>8. ASSUME NEW s \in Side, NEW sp \in SpaceId, NEW v,
               space' = [space EXCEPT ![s][sp] = v], keys[s][sp] # NoKeys
        PROVE  space'["client"]["AppData"].next_send_pn = 0
    BY <2>2, <2>4, <2>8
  <2>9. ASSUME NEW s \in Side, NEW sp \in SpaceId, NEW room \in Rooms, Egest(s, sp, room)
        PROVE  space'["client"]["AppData"].next_send_pn = 0
    <3>1. /\ keys[s][sp] # NoKeys
          /\ space' = [space EXCEPT ![s][sp] = NextSendPn(TakePendingAcks(space[s][sp]))]
      BY <2>9 DEF Egest, Selected
    <3> QED BY <2>8, <3>1
  <2>10. ASSUME NEW s \in Side, NEW sp \in SpaceId, NEW code \in {"Known", "Unknown"},
                PeerClose(s, sp, code)
         PROVE  space'["client"]["AppData"].next_send_pn = 0
    <3>1. /\ keys[s][sp] # NoKeys
          /\ space' = [space EXCEPT ![s][sp] = NextSendPn(space[s][sp])]
      BY <2>10 DEF PeerClose
    <3> QED BY <2>8, <3>1
  <2>11. CASE \E s \in Side : SendData(s) \/ \E n \in 1..MaxRecv : RecvData(s, n)
    BY <2>3, <2>11 DEF SendData, RecvData, conn_vars
  <2>12. CASE UNCHANGED vars
    BY <2>3, <2>12 DEF vars
  <2> QED BY <1>1, <2>5, <2>6, <2>7, <2>9, <2>10, <2>11, <2>12 DEF Next
<1>3. ASSUME NEW p \in sent', p.from = "server", p.form = "Short"
      PROVE  p.ack # {} \/ p.stream # <<>>
  <2>1. CASE p \in sent
    BY <1>3, <2>1 DEF ShortInv
  <2>2. CASE p = InitialPacket
    BY <1>3, <2>2 DEF InitialPacket
  <2>3. ASSUME NEW s \in Side, NEW sp \in SpaceId, NEW room \in Rooms,
               Egest(s, sp, room), p = Assemble(s, sp)
        PROVE  p.ack # {} \/ p.stream # <<>>
    <3>1. s = "server" /\ SpaceOf(p.form) = sp /\ p.form = FormFor(s, sp) /\ Selected(s, sp)
      BY <1>3, <2>3, AssembleSpace DEF Assemble, Egest
    <3>2. sp = "AppData" /\ state["server"] = "Established"
      BY <1>3, <3>1 DEF SpaceOf, FormFor
    <3>3. pending_crypto["server"]["AppData"] = <<>>
      BY Names DEF Inv, HandshakeInv, PendingInv, FlightsOf
    <3>4. \/ space["server"]["AppData"].pending_acks # <<>>
          \/ SendsStream("server", "AppData")
      BY <3>1, <3>2, <3>3 DEF Selected, HasFrames, SendsDone
    <3>5. CASE space["server"]["AppData"].pending_acks # <<>>
      BY <2>3, <3>1, <3>2, <3>5 DEF Assemble
    <3>6. CASE SendsStream("server", "AppData")
      BY <2>3, <3>1, <3>2, <3>6 DEF Assemble, SendsStream
    <3> QED BY <3>4, <3>5, <3>6
  <2> QED BY <2>1, <2>2, <2>3, EpSends
<1> QED BY <1>2, <1>3 DEF ShortInv

\* An established client refuses nothing but short packets. Before it has sent
\* one of its own, there is nothing to acknowledge, and those carry data.
LEMMA ShortRefused ==
    ASSUME Inv, SocketInv, ReaderInv, QuietInv, ShortInv, StreamInv, AcksNumbersSent,
           state["client"] = "Established", space["client"]["AppData"].next_send_pn = 0,
           inbox["client"] # <<>>, Rejects("client", Head(inbox["client"]))
    PROVE  written["server"] > 0
<1> DEFINE q == inbox["client"]
           p == Head(q)
<1>1. q \in Seq(sent)
  BY Names DEF SocketInv
<1>2. p \in sent /\ p = q[1] /\ 1 \in 1..Len(q)
  BY <1>1
<1>3. /\ p.from = "server" /\ PacketOK(p) /\ p \in Packet /\ LongPn(p.pn) = p.pn
  <2>1. p.from = "server"
    BY <1>2, Names DEF ReaderInv, Peer
  <2> QED BY <1>2, <2>1 DEF Inv, HandshakeInv, PacketInv, QuietInv, TypeInv, TypeOK
<1>4. Open("client") /\ tls["client"] = "C_Done"
  BY DEF Open, Inv, HandshakeInv, ClientInv
<1> HIDE DEF p, q
<1>5. keys["client"][SpaceOf(p.form)] = EpochOf(SpaceOf(p.form))
  BY <1>4 DEF SpaceOf, EpochOf, Inv, HandshakeInv, ClientInv
<1>6. p.form = "Short"
  <2>1. Rejects("client", p)
    BY DEF p, q
  <2> QED BY <1>3, <1>4, <1>5, <2>1 DEF Rejects, Decrypts, PacketOK, Peer
<1>7. p.ack = {}
  <2> SUFFICES ASSUME NEW ack \in p.ack PROVE FALSE
    OBVIOUS
  <2>1. SpaceOf(p.form) = "AppData"
    BY <1>6 DEF SpaceOf
  <2>2. ack.largest < 0
    BY <1>2, <1>3, <2>1, Names DEF AcksNumbersSent, Peer
  <2>3. ack.largest \in Nat
    BY <1>3 DEF Packet, Ack
  <2> QED BY <2>2, <2>3
<1>8. p.stream # <<>> /\ p.stream \in Seq(Nat) /\ p.stream_off \in Nat
  BY <1>2, <1>3, <1>6, <1>7 DEF ShortInv, Packet
<1>9. Len(p.stream) \in Nat /\ Len(p.stream) >= 1
  BY <1>8
<1>10. /\ p.stream_off + Len(p.stream) <= stream_send_offset["server"]
       /\ stream_send_offset["server"] + Len(pending_app_data["server"]) = written["server"]
  BY <1>2, <1>3, Names DEF StreamInv, FramesInv, QueueInv
<1>11. /\ stream_send_offset["server"] \in Nat /\ Len(pending_app_data["server"]) \in Nat
       /\ written["server"] \in Nat
  <2>1. pending_app_data["server"] \in Seq(Nat) /\ stream_send_offset["server"] \in Nat
        /\ written["server"] \in Nat
    BY Names DEF Inv, TypeInv, TypeOK
  <2> QED BY <2>1
<1> QED BY <1>8, <1>9, <1>10, <1>11

\* A thread moves nothing but its own place, and its own connection.
LEMMA OtherThread ==
    ASSUME Inv, SocketInv, FatalInv, NEW r \in Side, NEW s \in Side, r # s, Run(r) \/ App(r)
    PROVE  /\ thread'[s] = thread[s] /\ fatal'[s] = fatal[s]
           /\ tls'[s] = tls[s] /\ state'[s] = state[s]
           /\ space'[s] = space[s] /\ pending_crypto'[s] = pending_crypto[s]
<1>1. /\ thread \in [Side -> Thread] /\ fatal \in [Side -> BOOLEAN]
      /\ \A x \in Side : inbox[x] # <<>> => Head(inbox[x]) \in sent
  BY DEF SocketInv, FatalInv
<1>2. \/ \E p \in sent, t \in Tickets : Ingest(r, p, t)
      \/ \E sp \in SpaceId, room \in Rooms : Egest(r, sp, room)
      \/ SendData(r)
      \/ \E n \in 1..MaxRecv : RecvData(r, n)
      \/ UNCHANGED vars
  BY <1>1 DEF Run, App, Poll, Recv, RecvError, RecvNone, Flush, FlushNone
<1>3. thread' = thread \/ \E v : thread' = [thread EXCEPT ![r] = v]
  BY DEF Run, App, Poll, Recv, RecvError, RecvNone, Flush, FlushNone
<1>4. fatal' = fatal \/ \E v : fatal' = [fatal EXCEPT ![r] = v]
  BY DEF Run, App, Poll, Recv, RecvError, RecvNone, Flush, FlushNone
<1> QED BY <1>1, <1>2, <1>3, <1>4, OtherSide

\* No step ends the server's thread.
LEMMA ServerGoesOnStep ==
    ASSUME Inv, Inv', AgreementInv, SocketInv, FatalInv, QuietInv, ServerGoesOn, EpNext,
           thread["server"] = "Recv" /\ inbox["server"] # <<>> /\ Rejects("server", Head(inbox["server"]))
               => state["server"] = "Established"
    PROVE  ServerGoesOn'
<1>1. /\ thread \in [Side -> Thread] /\ fatal \in [Side -> BOOLEAN] /\ state \in [Side -> State]
  BY DEF SocketInv, FatalInv, Inv, TypeInv, TypeOK
<1>2. ASSUME thread'["server"] \notin {"Stopped", "Recv"} PROVE ServerGoesOn'
  BY <1>2 DEF ServerGoesOn
<1>3. ASSUME UNCHANGED <<thread, fatal>>, state'["server"] \in {state["server"], "Closed"}
      PROVE  ServerGoesOn'
  BY <1>3 DEF ServerGoesOn
<1>4. CASE EpClient
  <2>1. /\ thread'["server"] = thread["server"] /\ fatal' = fatal
        /\ state'["server"] = state["server"]
    BY <1>1, <1>4, Names DEF EpClient, Connect
  <2> QED BY <2>1 DEF ServerGoesOn
<1>5. CASE EpServer \/ EpServerAgain
  BY <1>1, <1>2, <1>5, Names DEF EpServer, EpServerAgain
<1>6. CASE Run("client") \/ App("client")
  <2>1. /\ thread'["server"] = thread["server"] /\ fatal'["server"] = fatal["server"]
        /\ state'["server"] = state["server"]
    BY <1>6, OtherThread, Names
  <2> QED BY <2>1 DEF ServerGoesOn
<1>7. CASE Run("server")
  <2>1. CASE Poll("server")
    <3>1. /\ thread'["server"] \in {"Recv", "Flush"} /\ state' = state
          /\ fatal'["server"] => state["server"] # "Established"
      BY <1>1, <2>1, Names DEF Poll, vars
    <3> QED BY <3>1 DEF ServerGoesOn
  <2>2. CASE Recv("server")
    <3>1. tls'["server"] # "Failed"
      BY DEF Inv, HandshakeInv, ServerInv
    <3>2. thread'["server"] = "Recv" /\ thread["server"] = "Recv" /\ fatal' = fatal
      BY <1>1, <2>2, <3>1, Names DEF Recv
    <3>3. PICK p \in sent, t \in Tickets : Ingest("server", p, t)
      <4>1. inbox["server"] # <<>> /\ inbox["server"] \in Seq(sent)
        BY <2>2, Names DEF Recv, SocketInv
      <4>2. Head(inbox["server"]) \in sent
        BY <4>1
      <4> QED BY <2>2, <4>2 DEF Recv
    <3>4. state'["server"] \in {state["server"], "Closed"}
      <4>1. CASE InOrder("server", p)
        <5>1. MoveSecure \/ MoveDone \/ MoveConfirm
          BY <3>3, <4>1, IngestFlight, Names
        <5> QED BY <1>1, <5>1, Names DEF MoveSecure, MoveDone, MoveConfirm
      <4>2. CASE ~InOrder("server", p)
        <5>1. UNCHANGED <<tls, state>> \/ MoveClose("server")
          BY <3>3, <4>2, IngestOther, Names
        <5> QED BY <1>1, <5>1, Names DEF MoveClose
      <4> QED BY <4>1, <4>2
    <3> QED BY <3>2, <3>4 DEF ServerGoesOn
  <2>3. CASE RecvError("server")
    <3>1. ~fatal["server"]
      BY <2>3 DEF RecvError, ServerGoesOn
    <3> QED BY <1>1, <1>2, <2>3, <3>1, Names DEF RecvError, AfterError
  <2>4. CASE RecvNone("server")
    BY <1>1, <1>2, <2>4, Names DEF RecvNone
  <2>5. CASE Flush("server")
    <3>1. thread["server"] = "Flush" /\ (thread' = thread \/ thread' = [thread EXCEPT !["server"] = "Loop"])
      BY <2>5 DEF Flush
    <3> QED BY <1>1, <1>2, <3>1, Names
  <2>6. CASE FlushNone("server")
    <3>1. Open("server")
      BY <2>6, Names DEF FlushNone, QuietInv, Open
    <3> QED BY <1>1, <1>2, <2>6, <3>1, Names DEF FlushNone
  <2> QED BY <1>7, <2>1, <2>2, <2>3, <2>4, <2>5, <2>6 DEF Run
<1>8. CASE App("server")
  <2>1. thread["server"] = "Loop" /\ (thread' = thread \/ thread' = [thread EXCEPT !["server"] = "Flush"])
    BY <1>8 DEF App
  <2> QED BY <1>1, <1>2, <2>1, Names
<1> QED BY <1>4, <1>5, <1>6, <1>7, <1>8 DEF EpNext, Side

\* The client's thread stops in one way only.
LEMMA ClientStopsStep ==
    ASSUME Inv, Inv', AgreementInv, SocketInv, FatalInv, ReaderInv, QuietInv, ShortInv,
           StreamInv, AcksNumbersSent, ClientStops, EpNext,
           thread["client"] = "Recv" /\ inbox["client"] # <<>> /\ Rejects("client", Head(inbox["client"]))
               => state["client"] = "Established"
    PROVE  ClientStops'
<1>1. /\ thread \in [Side -> Thread] /\ fatal \in [Side -> BOOLEAN] /\ state \in [Side -> State]
      /\ tls \in [Side -> Tls] /\ written \in [Side -> Nat]
      /\ space \in [Side -> [SpaceId -> Space]]
      /\ pending_crypto \in [Side -> [SpaceId -> Seq(Flight)]]
  BY DEF SocketInv, FatalInv, Inv, TypeInv, TypeOK
<1>2. ASSUME thread'["client"] \notin {"Stopped", "Recv"} PROVE ClientStops'
  BY <1>2 DEF ClientStops
<1>3. ASSUME thread'["client"] = thread["client"], fatal'["client"] = fatal["client"],
             tls'["client"] = tls["client"], space'["client"] = space["client"],
             pending_crypto'["client"] = pending_crypto["client"],
             written' = written \/ written' = [written EXCEPT !["server"] = written["server"] + 1]
      PROVE  ClientStops'
  <2>1. written["server"] > 0 => written'["server"] > 0
    BY <1>1, <1>3, Names
  <2>2. Complete' = Complete /\ Finishing' = Finishing
    BY <1>3 DEF Complete, Finishing
  <2> QED BY <1>3, <2>1, <2>2 DEF ClientStops
<1>4. CASE EpClient
  BY <1>1, <1>2, <1>4, Names DEF EpClient
<1>5. CASE EpServer
  BY <1>1, <1>3, <1>5, Names DEF EpServer, Accept, stream_vars
<1>6. CASE EpServerAgain
  <2>1. PICK p \in sent, t \in Tickets : Ingest("server", p, t)
    <3>1. inbox["server"] # <<>> /\ inbox["server"] \in Seq(sent)
      BY <1>6, Names DEF EpServerAgain, SocketInv
    <3>2. Head(inbox["server"]) \in sent
      BY <3>1
    <3> QED BY <1>6, <3>2 DEF EpServerAgain
  <2>2. /\ tls'["client"] = tls["client"] /\ space'["client"] = space["client"]
        /\ pending_crypto'["client"] = pending_crypto["client"]
    BY <2>1, OtherSide, Names
  <2>3. thread'["client"] = thread["client"] /\ fatal' = fatal /\ written' = written
    BY <1>1, <1>6, <2>1, Names DEF EpServerAgain, Ingest
  <2> QED BY <1>3, <2>2, <2>3
<1>7. CASE Run("server") \/ App("server")
  <2>1. written' = written \/ written' = [written EXCEPT !["server"] = written["server"] + 1]
    BY <1>7 DEF Run, App, Poll, Recv, RecvError, RecvNone, Flush, FlushNone, Ingest, Egest,
       SendData, RecvData, vars
  <2> QED BY <1>3, <1>7, <2>1, OtherThread, Names
<1>8. CASE Run("client")
  <2>1. CASE Poll("client")
    <3>1. /\ thread'["client"] \in {"Recv", "Flush"} /\ UNCHANGED vars
          /\ fatal'["client"] => state["client"] # "Established"
      BY <1>1, <2>1, Names DEF Poll
    <3>2. ASSUME state["client"] # "Established"
          PROVE  ~Complete' /\ space'["client"]["AppData"].next_send_pn = 0
      <4>1. ~Complete
        BY <3>2, Names DEF QuietInv, AgreementInv, Complete
      <4> QED BY <3>1, <4>1 DEF ShortInv, Complete, vars
    <3> QED BY <3>1, <3>2 DEF ClientStops
  <2>2. CASE Recv("client")
    <3>1. tls'["client"] # "Failed"
      BY DEF Inv, HandshakeInv, ClientInv
    <3>2. thread'["client"] = "Recv" /\ thread["client"] = "Recv" /\ fatal' = fatal
      BY <1>1, <2>2, <3>1, Names DEF Recv
    <3>3. PICK p \in sent, t \in Tickets : Ingest("client", p, t)
      <4>1. inbox["client"] # <<>> /\ inbox["client"] \in Seq(sent)
        BY <2>2, Names DEF Recv, SocketInv
      <4>2. Head(inbox["client"]) \in sent
        BY <4>1
      <4> QED BY <2>2, <4>2 DEF Recv
    <3>4. /\ space'["client"]["AppData"].next_send_pn = space["client"]["AppData"].next_send_pn
          /\ Finishing => Finishing'
          /\ Complete' => Complete \/ Finishing'
      BY <3>3, ClientIngests
    <3> QED BY <3>2, <3>4 DEF ClientStops
  <2>3. CASE RecvError("client")
    <3>1. /\ thread["client"] = "Recv" /\ inbox["client"] # <<>>
          /\ Rejects("client", Head(inbox["client"])) /\ UNCHANGED vars
          /\ thread' = [thread EXCEPT !["client"] = AfterError("client")]
      BY <2>3 DEF RecvError
    <3>2. CASE ~fatal["client"]
      BY <1>1, <1>2, <3>1, <3>2, Names DEF AfterError
    <3>3. CASE fatal["client"]
      <4>1. /\ thread'["client"] = "Stopped" /\ state["client"] = "Established"
            /\ space["client"]["AppData"].next_send_pn = 0
        BY <1>1, <3>1, <3>3, Names DEF AfterError, ClientStops
      <4>2. Complete
        BY <4>1 DEF Complete, Inv, HandshakeInv, ClientInv
      <4>3. Finishing
        BY <3>1, <3>3, <4>2 DEF ClientStops
      <4>4. written["server"] > 0
        BY <3>1, <4>1, ShortRefused
      <4> QED BY <3>1, <4>1, <4>2, <4>3, <4>4 DEF ClientStops, Complete, Finishing, vars
    <3> QED BY <3>2, <3>3
  <2>4. CASE RecvNone("client")
    BY <1>1, <1>2, <2>4, Names DEF RecvNone
  <2>5. CASE Flush("client")
    <3>1. thread["client"] = "Flush" /\ (thread' = thread \/ thread' = [thread EXCEPT !["client"] = "Loop"])
      BY <2>5 DEF Flush
    <3> QED BY <1>1, <1>2, <3>1, Names
  <2>6. CASE FlushNone("client")
    <3>1. Open("client")
      BY <2>6, Names DEF FlushNone, QuietInv, Open
    <3> QED BY <1>1, <1>2, <2>6, <3>1, Names DEF FlushNone
  <2> QED BY <1>8, <2>1, <2>2, <2>3, <2>4, <2>5, <2>6 DEF Run
<1>9. CASE App("client")
  <2>1. thread["client"] = "Loop" /\ (thread' = thread \/ thread' = [thread EXCEPT !["client"] = "Flush"])
    BY <1>9 DEF App
  <2> QED BY <1>1, <1>2, <2>1, Names
<1> QED BY <1>4, <1>5, <1>6, <1>7, <1>8, <1>9 DEF EpNext, Side

\* What holds of two endpoints that a socket without losses connects.
InOrderInv == FlightInv /\ FirstFlush /\ ShortInv /\ ServerGoesOn /\ ClientStops

\* The invariant of the ordered socket is inductive.
LEMMA InOrderStep ==
    ASSUME FlightsFit, NumbersFit, ~Lossy, Inv, Inv', AgreementInv, FreshInv, SocketInv,
           FatalInv, ReaderInv, QuietInv, StreamInv, AcksNumbersSent, InOrderInv,
           [EpNext]_ep_vars
    PROVE  InOrderInv'
<1>1. CASE UNCHANGED ep_vars
  BY <1>1 DEF ep_vars, vars, InOrderInv, FlightInv, FirstFlush, Secure, Complete, HasFrames,
     SendsDone, SendsStream, ShortInv, ServerGoesOn, ClientStops, Finishing
<1>2. CASE EpNext
  <2>1. FlightInv /\ FirstFlush /\ ShortInv /\ ServerGoesOn /\ ClientStops
    BY DEF InOrderInv
  <2>2. \A s \in Side : thread[s] = "Recv" /\ inbox[s] # <<>> /\ Rejects(s, Head(inbox[s])) =>
                            state[s] = "Established"
    BY <2>1, NothingRejected
  <2>3. FlightInv'
    BY <1>2, <2>1, <2>2, FlightStep
  <2>4. FirstFlush'
    BY <1>2, <2>1, FirstFlushStep
  <2>5. ShortInv'
    BY <1>2, <2>1, ShortInvStep
  <2>6. ServerGoesOn'
    BY <1>2, <2>1, <2>2, Names, ServerGoesOnStep
  <2>7. ClientStops'
    BY <1>2, <2>1, <2>2, Names, ClientStopsStep
  <2> QED BY <2>3, <2>4, <2>5, <2>6, <2>7 DEF InOrderInv
<1> QED BY <1>1, <1>2

\* In the beginning nothing has been sent and no thread runs.
LEMMA InOrderInit == EpInit => QuietInv /\ InOrderInv
<1> SUFFICES ASSUME EpInit PROVE QuietInv /\ InOrderInv
  OBVIOUS
<1>1. /\ sent = {} /\ \A s \in Side : state[s] = "None" /\ tls[s] = "None"
      /\ \A s \in Side : thread[s] = "Start" /\ inbox[s] = <<>>
  BY DEF EpInit, Init
<1>2. InOrderQueue(<<>>, Secure, Complete)
  BY DEF InOrderQueue
<1>3. inbox["client"] = <<>> /\ tls["server"] = "None" /\ state["server"] = "None"
  BY <1>1, Names
<1>4. space["client"]["AppData"].next_send_pn = 0
  BY Names DEF EpInit, Init, SpaceNew
<1>5. thread["server"] = "Start" /\ thread["client"] = "Start"
  BY <1>1, Names
<1>6. ShortInv /\ ServerGoesOn /\ ClientStops
  BY <1>1, <1>4, <1>5 DEF ShortInv, ServerGoesOn, ClientStops
<1> QED BY <1>1, <1>2, <1>3, <1>6 DEF QuietInv, InOrderInv, FlightInv, FirstFlush

\* On a network that keeps the order and loses nothing, handshake() fails in one
\* way only, whatever the two threads do and however many packets acknowledge
\* each other. egest visits the spaces in the order in which the other side gets
\* the keys, so no packet overtakes the flight that opens it, and only the step
\* that establishes the client can still meet a packet it refuses: a short one
\* with data of the server, while the client's Finished is queued.
THEOREM NoErrorTheorem ==
    ASSUME FlightsFit, NumbersFit
    PROVE  EpSpec => []NoErrorInOrder
<1>1. CASE Lossy
  <2>1. NoErrorInOrder
    BY <1>1 DEF NoErrorInOrder
  <2> QED BY <2>1, PTL
<1>2. CASE ~Lossy
  <2>1. EpInit => QuietInv /\ InOrderInv /\ AgreementInv /\ FreshInv
    <3>1. Init => AgreementInv /\ FreshInv
      BY Names DEF Init, AgreementInv, FreshInv
    <3> QED BY <3>1, InOrderInit DEF EpInit
  <2>2. SocketInv /\ [EpNext]_ep_vars => [Next]_vars
    BY EpStep DEF ep_vars, vars
  <2>3. Inv /\ SocketInv /\ AgreementInv /\ QuietInv /\ [EpNext]_ep_vars => QuietInv'
    BY QuietInvStep
  <2>4. Inv /\ Inv' /\ AgreementInv /\ FreshInv /\ SocketInv /\ FatalInv /\ ReaderInv
        /\ QuietInv /\ StreamInv /\ AcksNumbersSent /\ InOrderInv /\ [EpNext]_ep_vars
        => InOrderInv'
    BY <1>2, InOrderStep
  <2>5. EpSpec => [](Inv /\ StreamInv)
    BY EndpointImplementsConnection, HandshakeInvariant, StreamInvariant, PTL DEF Inv
  <2>6. EpSpec => []AcksNumbersSent
    BY EndpointTraffic, PTL
  <2>7. AgreementInv /\ QuietInv /\ InOrderInv => NoErrorInOrder
    <3> SUFFICES ASSUME AgreementInv, QuietInv, InOrderInv, NEW s \in Side, thread[s] = "Stopped"
                 PROVE  /\ s = "client" /\ state[s] = "Established"
                        /\ pending_crypto[s]["Handshake"] = <<"CF">> /\ written[Peer(s)] > 0
      BY DEF NoErrorInOrder
    <3>1. s = "client"
      BY DEF InOrderInv, ServerGoesOn, Side
    <3>2. Complete /\ Finishing /\ written["server"] > 0
      BY <3>1 DEF InOrderInv, ClientStops
    <3>3. state["client"] = "Established"
      BY <3>2, Names DEF AgreementInv, QuietInv, Complete
    <3> QED BY <3>1, <3>2, <3>3 DEF Finishing, Peer
  <2> QED BY <2>1, <2>2, <2>3, <2>4, <2>5, <2>6, <2>7, AgreementInvNext, FreshInvNext,
             FatalInvariant, ReaderInvariant, PTL DEF EpSpec
<1> QED BY <1>1, <1>2

-----------------------------------------------------------------------------
(* The interop binary implements the connections: the two programs reach   *)
(* into them (conn_mut) past the endpoint, call send_data whatever the     *)
(* state and ignore every error, and still do nothing that Connection does *)
(* not allow.                                                              *)

\* No more waits to be read than Connection has room for.
RoomInv == \A s \in Side : Len(received_app_data[s]) <= MaxRecv

IoInv == SocketInv /\ TypeInv /\ RoomInv

\* What ingest adds to the received bytes is bounded, and reading takes away.
LEMMA RoomStep ==
    ASSUME TypeInv, RoomInv, Next
    PROVE  RoomInv'
<1>1. /\ received_app_data \in [Side -> Seq(Nat)] /\ MaxRecv \in Nat
      /\ \A s \in Side : Len(received_app_data[s]) <= MaxRecv
  BY ConnectionAssumption DEF TypeInv, TypeOK, RoomInv
<1>2. CASE received_app_data' = received_app_data
  BY <1>1, <1>2 DEF RoomInv
<1>3. ASSUME NEW s \in Side, NEW p \in sent, NEW t \in Tickets, Ingest(s, p, t)
      PROVE  RoomInv'
  <2>1. p.stream \in Seq(Nat)
    BY DEF TypeInv, TypeOK, Packet
  <2>2. PICK q : /\ received_app_data' = [received_app_data EXCEPT ![s] = q]
                 /\ q = received_app_data[s] \o p.stream \/ q = received_app_data[s]
    BY <1>3 DEF Ingest
  <2>3. Len(received_app_data[s]) + Len(p.stream) <= MaxRecv
    BY <1>3 DEF Ingest
  <2>4. Len(q) <= MaxRecv
    <3>1. received_app_data[s] \in Seq(Nat) BY <1>1
    <3>2. Len(received_app_data[s] \o p.stream) = Len(received_app_data[s]) + Len(p.stream)
      BY <2>1, <3>1
    <3> QED BY <1>1, <2>2, <2>3, <3>2
  <2> QED BY <1>1, <2>2, <2>4 DEF RoomInv
<1>4. ASSUME NEW s \in Side, NEW n \in 1..MaxRecv, RecvData(s, n) PROVE RoomInv'
  <2> DEFINE old == received_app_data[s]
             new == SubSeq(old, n + 1, Len(old))
  <2>1. n <= Len(old) /\ received_app_data' = [received_app_data EXCEPT ![s] = new]
    BY <1>4 DEF RecvData
  <2>2. old \in Seq(Nat) /\ Len(old) <= MaxRecv /\ Len(old) \in Nat /\ n \in Nat
    BY <1>1
  <2> HIDE DEF old
  <2>3. Len(new) <= MaxRecv
    BY <1>1, <2>1, <2>2
  <2> HIDE DEF new
  <2> QED BY <1>1, <2>1, <2>3 DEF RoomInv
<1>5. CASE Connect
  BY <1>2, <1>5 DEF Connect, stream_vars
<1>6. CASE \E p \in sent : Accept(p)
  BY <1>2, <1>6 DEF Accept, stream_vars
<1>7. CASE \E s \in Side, sp \in SpaceId, room \in Rooms : Egest(s, sp, room)
  BY <1>2, <1>7 DEF Egest
<1>8. CASE \E s \in Side : SendData(s)
  BY <1>2, <1>8 DEF SendData
<1>9. CASE \E s \in Side, sp \in SpaceId, code \in {"Known", "Unknown"} : PeerClose(s, sp, code)
  BY <1>2, <1>9 DEF PeerClose, stream_vars
<1> QED BY <1>3, <1>4, <1>5, <1>6, <1>7, <1>8, <1>9 DEF Next

\* What a program does between two calls of step: it writes a byte and goes on
\* to flush, reads everything there is, or leaves the endpoint alone.
Touches(s) ==
    \/ SendData(s) /\ inbox' = inbox /\ thread' = [thread EXCEPT ![s] = "Flush"]
    \/ (\E n \in 1..MaxRecv : RecvData(s, n)) /\ inbox' = inbox /\ thread' = thread
    \/ UNCHANGED ep_vars

\* A program reads all there is, which is never more than the bound.
LEMMA ReadAll ==
    ASSUME IoInv, NEW s \in Side, received_app_data[s] # <<>>
    PROVE  Len(received_app_data[s]) \in 1..MaxRecv
<1>1. /\ received_app_data[s] \in Seq(Nat) /\ Len(received_app_data[s]) <= MaxRecv
      /\ MaxRecv \in Nat
  BY ConnectionAssumption DEF IoInv, TypeInv, TypeOK, RoomInv
<1> QED BY <1>1

\* A step of a program is one of its endpoint, or one of its own.
LEMMA ProgramStep ==
    ASSUME IoInv, IoNext
    PROVE  EpNext \/ \E s \in Side : Touches(s)
<1>1. CASE Start
  BY <1>1 DEF Start, EpNext
<1>2. ASSUME NEW s \in Side, Main(s) PROVE EpNext \/ \E x \in Side : Touches(x)
  <2>1. CASE Step(s) \/ Inside(s)
    BY <2>1 DEF Step, Inside, Run, EpNext
  <2>2. CASE Handshake(s)
    BY <2>2 DEF Handshake, Touches
  <2>3. CASE Client
    <3>1. CASE Ask BY <3>1, Names DEF Ask, Touches
    <3>2. CASE AskedAll BY <3>2, Names DEF AskedAll, Touches
    <3>3. CASE Receive BY <3>3, Names, ReadAll DEF Receive, Touches
    <3>4. CASE Silence BY <3>4, Names DEF Silence, Touches
    <3>5. CASE Save BY <3>5, Names DEF Save, Touches
    <3> QED BY <2>3, <3>1, <3>2, <3>3, <3>4, <3>5 DEF Client
  <2>4. CASE Server
    <3>1. CASE Read BY <3>1, Names, ReadAll DEF Read, Touches
    <3>2. CASE Idle BY <3>2, Names DEF Idle, Touches
    <3>3. CASE TimedOut BY <3>3, Names DEF TimedOut, Touches
    <3>4. CASE Serve BY <3>4, Names DEF Serve, Touches
    <3>5. CASE Served BY <3>5, Names DEF Served, Touches
    <3> QED BY <2>4, <3>1, <3>2, <3>3, <3>4, <3>5 DEF Server
  <2> QED BY <1>2, <2>1, <2>2, <2>3, <2>4 DEF Main
<1> QED BY <1>1, <1>2 DEF IoNext

\* A step of a program is a step of the connections or leaves them alone.
LEMMA IoStep ==
    ASSUME IoInv, IoNext
    PROVE  Next \/ UNCHANGED vars
<1>1. CASE EpNext
  BY <1>1, EpStep DEF IoInv
<1>2. ASSUME NEW s \in Side, Touches(s) PROVE Next \/ UNCHANGED vars
  <2>1. CASE SendData(s) BY <2>1 DEF Next
  <2>2. CASE \E n \in 1..MaxRecv : RecvData(s, n) BY <2>2 DEF Next
  <2>3. CASE UNCHANGED ep_vars BY <2>3 DEF ep_vars
  <2> QED BY <1>2, <2>1, <2>2, <2>3 DEF Touches
<1> QED BY <1>1, <1>2, ProgramStep

\* The sockets are the endpoint's: a program does not touch them.
LEMMA IoSockets ==
    ASSUME IoInv, IoNext, sent \subseteq sent'
    PROVE  SocketInv'
<1>1. CASE EpNext
  BY <1>1, SocketStep DEF IoInv
<1>2. ASSUME NEW s \in Side, Touches(s) PROVE SocketInv'
  <2>1. /\ inbox \in [Side -> Seq(sent)] /\ thread \in [Side -> Thread]
        /\ thread["server"] = "Again" => inbox["server"] # <<>>
    BY DEF IoInv, SocketInv
  <2>2. inbox \in [Side -> Seq(sent')]
    <3>1. \A x \in Side : inbox[x] \in Seq(sent')
      BY <2>1, SeqGrows
    <3> QED BY <2>1, <3>1
  <2>3. inbox' = inbox /\ (thread' = thread \/ thread' = [thread EXCEPT ![s] = "Flush"])
    BY <1>2 DEF Touches, ep_vars
  <2>4. thread' \in [Side -> Thread]
    BY <2>1, <2>3 DEF Thread
  <2>5. thread'["server"] = "Again" => thread["server"] = "Again"
    BY <2>1, <2>3, Names
  <2> QED BY <2>1, <2>2, <2>3, <2>4, <2>5 DEF SocketInv
<1> QED BY <1>1, <1>2, ProgramStep

\* The programs never leave the states their connections can be in.
LEMMA IoInvariant == IoSpec => []IoInv
<1>1. IoInit => IoInv
  <2> SUFFICES ASSUME IoInit PROVE IoInv
    OBVIOUS
  <2>1. Init /\ EpInit BY DEF IoInit, EpInit
  <2>2. SocketInv
    <3>1. <<>> \in Seq(sent) OBVIOUS
    <3> QED BY <2>1, <3>1, Names DEF EpInit, SocketInv, Thread
  <2>3. RoomInv BY <2>1, ConnectionAssumption DEF Init, RoomInv
  <2> QED BY <2>1, <2>2, <2>3, TypeInvInit DEF IoInv
<1>2. IoInv /\ [IoNext]_io_vars => IoInv'
  <2> SUFFICES ASSUME IoInv, [IoNext]_io_vars PROVE IoInv'
    OBVIOUS
  <2>1. CASE IoNext
    <3>1. Next \/ UNCHANGED vars BY <2>1, IoStep
    <3>2. sent \subseteq sent' BY <3>1, SentGrows DEF vars
    <3>3. SocketInv' BY <2>1, <3>2, IoSockets
    <3>4. TypeInv' BY <3>1, TypeInvNext DEF IoInv
    <3>5. RoomInv'
      <4>1. CASE Next BY <4>1, RoomStep DEF IoInv
      <4>2. CASE UNCHANGED vars BY <4>2 DEF vars, IoInv, RoomInv
      <4> QED BY <3>1, <4>1, <4>2
    <3> QED BY <3>3, <3>4, <3>5 DEF IoInv
  <2>2. CASE UNCHANGED io_vars
    <3>1. UNCHANGED vars /\ UNCHANGED <<inbox, thread>>
      BY <2>2 DEF io_vars, ep_vars
    <3>2. SocketInv' BY <3>1 DEF IoInv, SocketInv, vars
    <3>3. TypeInv' BY <3>1, TypeInvNext DEF IoInv
    <3>4. RoomInv' BY <3>1 DEF IoInv, RoomInv, vars
    <3> QED BY <3>2, <3>3, <3>4 DEF IoInv
  <2> QED BY <2>1, <2>2
<1> QED BY <1>1, <1>2, PTL DEF IoSpec

\* Everything the two programs do is a behaviour of the connections, although
\* they bypass the endpoint.
THEOREM InteropImplementsConnection == IoSpec => Spec
<1>1. IoInit => Init
  BY DEF IoInit, EpInit
<1>2. IoInv /\ [IoNext]_io_vars => [Next]_vars
  BY IoStep DEF io_vars, ep_vars
<1> QED BY <1>1, <1>2, IoInvariant, PTL DEF IoSpec, Spec

\* What is proved of the connections therefore holds of a file transfer: no
\* nonce is used twice, TLS is fed nothing but its next flight, a program that
\* leaves its handshake loop has the keys for its requests, neither program is
\* ahead of the other, and keys and flights stay in their spaces.
THEOREM InteropSafe ==
    IoSpec => []( /\ NonceUnique /\ TlsNeverFails /\ EstablishedHasKeys
                  /\ HandshakeAgreement /\ EpochOfSpace /\ OneFlightPerFrame )
  BY InteropImplementsConnection, NonceTheorem, TlsTheorem, EstablishedTheorem,
     AgreementTheorem, EpochTheorem, OneFlightTheorem, PTL

\* The programs, which go on after any error, never bring a connection back to an
\* earlier state, never make it lose or replace a key or close it without a reason,
\* and agree on keys the way KeyAgreement says.
THEOREM InteropMoves ==
    IoSpec => StateOnlyAdvances /\ KeysNeverReplaced /\ []CloseReasonGiven /\ ImplementsAgreement
  BY InteropImplementsConnection, AdvancesTheorem, KeysTheorem, ReasonTheorem, AgreementRefinement

\* What the programs send past the endpoint is acknowledged and labelled right
\* too: egest and send_data are whole operations whoever calls them.
THEOREM InteropTraffic ==
    IoSpec => [](AcksNumbersSent /\ StreamOffsetsRight /\ ReceivedWasWritten)
  BY InteropImplementsConnection, AcksTheorem, OffsetsTheorem, WrittenTheorem, PTL

-----------------------------------------------------------------------------
\* Reading past the endpoint keeps the stream in its order: what a program
\* reads is what the other one wrote, in that order, without repetition.
LEMMA IoReaders == IoSpec => [](IoInv /\ StreamInv /\ ReaderInv)
<1>1. IoInv /\ StreamInv /\ ReaderInv /\ [IoNext]_io_vars => ReaderInv'
  <2> SUFFICES ASSUME IoInv, StreamInv, ReaderInv, [IoNext]_io_vars PROVE ReaderInv'
    OBVIOUS
  <2>1. SocketInv /\ TypeInv BY DEF IoInv
  <2>2. ASSUME NEW s \in Side PROVE ReaderMoves(s)
    <3>1. CASE EpNext BY <2>1, <3>1, ReaderStep
    <3>2. ASSUME NEW r \in Side, Touches(r) PROVE ReaderMoves(s)
      <4>1. CASE UNCHANGED ep_vars BY <4>1, ReaderRests DEF ep_vars, vars
      <4>2. CASE ~UNCHANGED ep_vars BY <2>1, <3>2, <4>2, ReaderApp DEF Touches
      <4> QED BY <4>1, <4>2
    <3>3. CASE UNCHANGED io_vars BY <3>3, ReaderRests DEF io_vars, ep_vars, vars
    <3> QED BY <3>1, <3>2, <3>3, ProgramStep
  <2> QED BY <2>1, <2>2, ReaderInvStep DEF ReaderInv
<1>2. IoInit => ReaderInv
  BY ReaderInvInit DEF IoInit
<1>3. IoSpec => []StreamInv
  BY InteropImplementsConnection, StreamInvariant, PTL
<1> QED BY <1>1, <1>2, <1>3, IoInvariant, PTL DEF IoSpec

\* Both programs read the stream in the order in which it was written, each byte
\* at most once.
THEOREM InteropOrder == IoSpec => []NeverReordered
<1>1. ReaderInv => NeverReordered
  BY DEF ReaderInv, Arrivals, Increasing, NeverReordered
<1> QED BY <1>1, IoReaders, PTL

-----------------------------------------------------------------------------
(* The files.                                                              *)

\* The program of side s has read the byte at position n.
HasRead(s, n) == \E i \in 1..Len(delivered[s]) : delivered[s][i] = n

\* The client has asked for one file more than it has saved while it receives,
\* for as many at any other time, and never for more than there are.
AskInv ==
    /\ app \in [Side -> Program]
    /\ written["client"] <= Len(Chunks)
    /\ app["client"] = "Handshake" => written["client"] = 0
    /\ written["client"] = Len(files) + (IF app["client"] = "Receive" THEN 1 ELSE 0)

\* What the server has sent and what it still has to send are answers to requests
\* it has read, in their order, and the chunks that answer a request are close
\* enough together to be those of one file.
AnswerInv ==
    /\ answers \in Seq(Nat) /\ serving \in Seq(Nat)
    /\ Len(answers) = written["server"]
    /\ \A b \in 1..Len(answers) : HasRead("server", answers[b])
    /\ \A k \in 1..Len(serving) : HasRead("server", serving[k])
    /\ \A b, c \in 1..Len(answers) : b <= c => answers[b] <= answers[c]
    /\ \A b \in 1..Len(answers), k \in 1..Len(serving) : answers[b] <= serving[k]
    /\ \A j, k \in 1..Len(serving) : serving[j] = serving[k]
    /\ \A b, c \in 1..Len(answers) :
           answers[b] = answers[c] => c - b < Chunks[answers[b]]
    /\ \A k \in 1..Len(serving) :
           /\ Len(serving) <= Chunks[serving[k]]
           /\ \A b \in 1..Len(answers) : answers[b] = serving[k] =>
                  Len(answers) + Len(serving) - b < Chunks[serving[k]]

\* The files and, after them, the one being received hold bytes that the client
\* has read, in the order of the stream.
SavedInv ==
    /\ files \in Seq(Seq(Nat)) /\ data \in Seq(Nat)
    /\ \A i \in 1..Len(files) : \A a \in 1..Len(files[i]) : HasRead("client", files[i][a])
    /\ \A i, j \in 1..Len(files) : \A a \in 1..Len(files[i]), b \in 1..Len(files[j]) :
           i < j \/ (i = j /\ a < b) => files[i][a] < files[j][b]
    /\ app["client"] = "Receive" =>
           /\ Increasing(data)
           /\ \A b \in 1..Len(data) : HasRead("client", data[b])
           /\ \A i \in 1..Len(files) : \A a \in 1..Len(files[i]), b \in 1..Len(data) :
                  files[i][a] < data[b]

FilesInv == AskInv /\ AnswerInv /\ SavedInv /\ RightSizeRightFile

\* There is no room for more than n different numbers between a and a + n.
LEMMA Crowd ==
    ASSUME NEW seq \in Seq(Nat), Increasing(seq), NEW a \in Nat, NEW n \in Nat,
           \A i \in 1..Len(seq) : a <= seq[i] /\ seq[i] - a < n
    PROVE  Len(seq) <= n
<1> DEFINE S == 1..Len(seq)
           T == a..(a + n - 1)
<1>1. Len(seq) \in Nat /\ seq \in [S -> Nat]
  OBVIOUS
<1>2. seq \in [S -> T]
  <2>1. \A i \in S : seq[i] \in T BY <1>1
  <2> QED BY <1>1, <2>1
<1>3. IsFiniteSet(S) /\ Cardinality(S) = Len(seq)
  <2>1. 1 \in Int /\ Len(seq) \in Int BY <1>1
  <2>2. IsFiniteSet(S) /\ Cardinality(S) = IF 1 > Len(seq) THEN 0 ELSE Len(seq) - 1 + 1
    BY <2>1, FS_Interval
  <2> QED BY <1>1, <2>2
<1>4. IsFiniteSet(T) /\ Cardinality(T) = n
  <2>1. a + n - 1 \in Int /\ a \in Int OBVIOUS
  <2>2. IsFiniteSet(T) /\ Cardinality(T) = IF a > a + n - 1 THEN 0 ELSE (a + n - 1) - a + 1
    BY <2>1, FS_Interval
  <2> QED BY <2>2
<1>5. ASSUME Len(seq) > n PROVE FALSE
  <2> HIDE DEF S, T
  <2>1. \E x, y \in S : x # y /\ seq[x] = seq[y]
    <3>1. Cardinality(T) < Cardinality(S) BY <1>1, <1>3, <1>4, <1>5
    <3> QED BY <1>2, <1>3, <1>4, <3>1, FS_PigeonHole
  <2>2. PICK x \in S, y \in S : x # y /\ seq[x] = seq[y] BY <2>1
  <2>3. x \in Nat /\ y \in Nat BY DEF S
  <2>4. x < y \/ y < x BY <2>2, <2>3
  <2>5. seq[x] < seq[y] \/ seq[y] < seq[x] BY <2>4 DEF Increasing, S
  <2>6. seq[x] \in Nat BY <1>1
  <2> QED BY <2>2, <2>5, <2>6
<1> QED BY <1>1, <1>5

\* What has been read was written, and comes before all that waits to be read.
LEMMA ReadBefore ==
    ASSUME IoInv, StreamInv, ReaderInv, NEW s \in Side, NEW n, HasRead(s, n)
    PROVE  /\ n \in Nat /\ n >= 1 /\ n <= written[Peer(s)]
           /\ \A j \in 1..Len(received_app_data[s]) : n < received_app_data[s][j]
<1>1. PICK i \in 1..Len(delivered[s]) : delivered[s][i] = n
  BY DEF HasRead
<1>2. n \in 1..stream_send_offset[Peer(s)]
  BY <1>1 DEF StreamInv, ArrivedInv
<1>3. /\ stream_send_offset[Peer(s)] \in Nat /\ written[Peer(s)] \in Nat
      /\ Len(pending_app_data[Peer(s)]) \in Nat
      /\ stream_send_offset[Peer(s)] + Len(pending_app_data[Peer(s)]) = written[Peer(s)]
  <2>1. Peer(s) \in Side BY PeerFacts
  <2>2. pending_app_data[Peer(s)] \in Seq(Nat) BY <2>1 DEF IoInv, TypeInv, TypeOK
  <2> QED BY <2>1, <2>2 DEF IoInv, TypeInv, TypeOK, StreamInv, QueueInv
<1>4. \A j \in 1..Len(received_app_data[s]) : delivered[s][i] < received_app_data[s][j]
  BY <1>1 DEF ReaderInv, Arrivals
<1> QED BY <1>1, <1>2, <1>3, <1>4

\* Reading everything leaves nothing behind, and forgets nothing.
LEMMA ReadsAll ==
    ASSUME IoInv, NEW s \in Side, RecvData(s, Len(received_app_data[s]))
    PROVE  /\ written' = written
           /\ \A r \in Side : \A n : HasRead(r, n) => HasRead(r, n)'
           /\ \A n : (\E j \in 1..Len(received_app_data[s]) : received_app_data[s][j] = n)
                         => HasRead(s, n)'
<1> DEFINE got == received_app_data[s]
           old == delivered[s]
<1>1. /\ delivered \in [Side -> Seq(Nat)] /\ got \in Seq(Nat) /\ old \in Seq(Nat)
      /\ Len(got) \in Nat /\ Len(old) \in Nat
  BY DEF IoInv, TypeInv, TypeOK
<1>2. delivered' = [delivered EXCEPT ![s] = old \o SubSeq(got, 1, Len(got))] /\ written' = written
  BY DEF RecvData
<1> HIDE DEF got, old
<1>3. SubSeq(got, 1, Len(got)) = got
  BY <1>1
<1>4. delivered'[s] = old \o got /\ \A r \in Side : r # s => delivered'[r] = delivered[r]
  BY <1>1, <1>2, <1>3
<1>5. /\ Len(old \o got) = Len(old) + Len(got)
      /\ \A i \in 1..Len(old) : (old \o got)[i] = old[i]
      /\ \A j \in 1..Len(got) : (old \o got)[Len(old) + j] = got[j]
  BY <1>1
<1>6. ASSUME NEW r \in Side, NEW n, HasRead(r, n) PROVE HasRead(r, n)'
  <2>1. CASE r # s BY <1>4, <1>6, <2>1 DEF HasRead
  <2>2. CASE r = s
    <3>1. PICK i \in 1..Len(old) : old[i] = n BY <1>6, <2>2 DEF HasRead, old
    <3>2. i \in 1..Len(old \o got) /\ (old \o got)[i] = n BY <1>1, <1>5, <3>1
    <3> QED BY <1>4, <2>2, <3>2 DEF HasRead
  <2> QED BY <2>1, <2>2
<1>7. ASSUME NEW n, NEW j \in 1..Len(got), got[j] = n PROVE HasRead(s, n)'
  <2>1. Len(old) + j \in 1..Len(old \o got) /\ (old \o got)[Len(old) + j] = n
    BY <1>1, <1>5, <1>7
  <2> QED BY <1>4, <2>1 DEF HasRead
<1> QED BY <1>2, <1>6, <1>7 DEF got

\* A step that neither reads nor writes and keeps what the programs hold keeps
\* everything about the files.
LEMMA QuietStep ==
    ASSUME FilesInv, UNCHANGED <<written, delivered, serving, data, files, answers>>,
           app' \in [Side -> Program],
           app'["client"] = "Receive" <=> app["client"] = "Receive",
           app'["client"] = "Handshake" => app["client"] = "Handshake"
    PROVE  FilesInv'
<1>1. \A s \in Side : \A n : HasRead(s, n)' <=> HasRead(s, n)
  BY DEF HasRead
<1>2. AskInv' BY DEF FilesInv, AskInv
<1>3. AnswerInv' BY <1>1, Names DEF FilesInv, AnswerInv
<1>4. SavedInv' BY <1>1, Names DEF FilesInv, SavedInv, Increasing
<1>5. RightSizeRightFile' BY DEF FilesInv, RightSizeRightFile
<1> QED BY <1>2, <1>3, <1>4, <1>5 DEF FilesInv

\* The endpoint neither reads nor writes of its own accord.
LEMMA EndpointQuiet ==
    ASSUME NEW s \in Side, Start \/ Step(s) \/ Inside(s)
    PROVE  UNCHANGED <<written, delivered, serving, data, files, answers, app>>
<1>1. CASE Start
  <2>1. UNCHANGED <<written, delivered>>
    BY <1>1 DEF Start, EpClient, EpServer, EpServerAgain, Connect, Accept, Ingest, stream_vars
  <2> QED BY <1>1, <2>1 DEF Start, app_vars
<1>2. CASE Step(s)
  BY <1>2 DEF Step, Poll, vars
<1>3. CASE Inside(s)
  <2>1. UNCHANGED <<written, delivered>>
    BY <1>3 DEF Inside, Recv, RecvError, RecvNone, Flush, FlushNone, Ingest, Egest, vars
  <2> QED BY <1>3, <2>1 DEF Inside, app_vars
<1> QED BY <1>1, <1>2, <1>3

\* A request begins an empty file.
LEMMA FilesAsk ==
    ASSUME IoInv, FilesInv, Ask
    PROVE  FilesInv'
<1>1. /\ app \in [Side -> Program] /\ written \in [Side -> Nat]
      /\ written' = [written EXCEPT !["client"] = @ + 1] /\ delivered' = delivered
      /\ app["client"] = "Ask" /\ app' = [app EXCEPT !["client"] = "Receive"]
      /\ written["client"] < Len(Chunks) /\ data' = <<>>
      /\ UNCHANGED <<serving, files, answers>>
  BY DEF IoInv, TypeInv, TypeOK, FilesInv, AskInv, Ask, At, GoTo, SendData
<1>2. /\ written'["client"] = written["client"] + 1 /\ written'["server"] = written["server"]
      /\ app'["client"] = "Receive" /\ app' \in [Side -> Program]
  BY <1>1, Names DEF Program
<1>3. \A s \in Side : \A n : HasRead(s, n)' <=> HasRead(s, n)
  BY <1>1 DEF HasRead
<1>4. AskInv'
  <2>1. Len(files) \in Nat /\ Len(Chunks) \in Nat /\ written["client"] \in Nat
    BY <1>1, InteropAssumption, Names DEF FilesInv, SavedInv
  <2> QED BY <1>1, <1>2, <2>1 DEF FilesInv, AskInv
<1>5. AnswerInv' BY <1>1, <1>2, <1>3, Names DEF FilesInv, AnswerInv
<1>6. SavedInv'
  <2>1. Len(data') = 0 /\ data' \in Seq(Nat) BY <1>1
  <2>2. \A b \in 1..Len(data') : FALSE BY <2>1
  <2>3. Increasing(data)' BY <2>2 DEF Increasing
  <2> QED BY <1>1, <1>3, <2>1, <2>2, <2>3, Names DEF FilesInv, SavedInv
<1>7. RightSizeRightFile' BY <1>1 DEF FilesInv, RightSizeRightFile
<1> QED BY <1>4, <1>5, <1>6, <1>7 DEF FilesInv

\* What arrives comes after everything in this file and in those before it.
LEMMA FilesReceive ==
    ASSUME IoInv, StreamInv, ReaderInv, FilesInv, Receive
    PROVE  FilesInv'
<1> DEFINE got == received_app_data["client"]
           new == data \o got
<1>1. /\ RecvData("client", Len(got)) /\ data' = new
      /\ app["client"] = "Receive" /\ UNCHANGED <<app, serving, files, answers>>
  BY DEF Receive, At
<1>2. /\ written' = written
      /\ \A r \in Side : \A n : HasRead(r, n) => HasRead(r, n)'
      /\ \A n : (\E j \in 1..Len(got) : got[j] = n) => HasRead("client", n)'
  BY <1>1, ReadsAll, Names
<1>3. /\ got \in Seq(Nat) /\ data \in Seq(Nat) /\ Increasing(got) /\ Increasing(data)
      /\ \A b \in 1..Len(data) : HasRead("client", data[b])
      /\ \A i \in 1..Len(files) : \A a \in 1..Len(files[i]), b \in 1..Len(data) :
             files[i][a] < data[b]
      /\ \A i \in 1..Len(files) : \A a \in 1..Len(files[i]) : HasRead("client", files[i][a])
  BY <1>1, Names DEF IoInv, TypeInv, TypeOK, FilesInv, SavedInv, ReaderInv, Arrivals
<1>4. \A n : HasRead("client", n) => \A j \in 1..Len(got) : n < got[j]
  BY ReadBefore, Names
<1> HIDE DEF got
<1>5. /\ Len(data) \in Nat /\ Len(got) \in Nat /\ Len(new) = Len(data) + Len(got)
      /\ \A b \in 1..Len(data) : new[b] = data[b]
      /\ \A b \in (Len(data) + 1)..Len(new) : b - Len(data) \in 1..Len(got) /\ new[b] = got[b - Len(data)]
      /\ \A b \in 1..Len(new) : b \in 1..Len(data) \/ b \in (Len(data) + 1)..Len(new)
      /\ new \in Seq(Nat)
  BY <1>3
<1> HIDE DEF new
<1>6. Increasing(new)
  <2> SUFFICES ASSUME NEW i \in 1..Len(new), NEW j \in 1..Len(new), i < j PROVE new[i] < new[j]
    BY DEF Increasing
  <2>1. CASE j \in 1..Len(data)
    <3>1. i \in 1..Len(data) BY <1>5, <2>1
    <3> QED BY <1>3, <1>5, <2>1, <3>1 DEF Increasing
  <2>2. CASE i \in 1..Len(data) /\ j \in (Len(data) + 1)..Len(new)
    BY <1>3, <1>4, <1>5, <2>2
  <2>3. CASE i \in (Len(data) + 1)..Len(new)
    <3>1. j \in (Len(data) + 1)..Len(new) BY <1>5, <2>3
    <3>2. i - Len(data) < j - Len(data) BY <1>5, <2>3, <3>1
    <3> QED BY <1>3, <1>5, <2>3, <3>1, <3>2 DEF Increasing
  <2> QED BY <1>5, <2>1, <2>2, <2>3
<1>7. ASSUME NEW b \in 1..Len(new), NEW n, new[b] = n
      PROVE  /\ HasRead("client", n)'
             /\ \A i \in 1..Len(files) : \A a \in 1..Len(files[i]) : files[i][a] < n
  <2>1. CASE b \in 1..Len(data)
    <3>1. data[b] = n BY <1>5, <1>7, <2>1
    <3>2. HasRead("client", n) BY <1>3, <2>1, <3>1
    <3> QED BY <1>2, <1>3, <2>1, <3>1, <3>2, Names
  <2>2. CASE b \in (Len(data) + 1)..Len(new)
    <3>1. b - Len(data) \in 1..Len(got) /\ n = got[b - Len(data)] BY <1>5, <1>7, <2>2
    <3>2. HasRead("client", n)' BY <1>2, <3>1
    <3> QED BY <1>3, <1>4, <3>1, <3>2
  <2> QED BY <1>5, <2>1, <2>2
<1>8. AskInv' BY <1>1, <1>2 DEF FilesInv, AskInv
<1>9. AnswerInv' BY <1>1, <1>2, Names DEF FilesInv, AnswerInv
<1>10. SavedInv'
  <2>1. Increasing(data)' BY <1>1, <1>6 DEF Increasing
  <2>2. \A b \in 1..Len(data') : HasRead("client", data[b])' BY <1>1, <1>7 DEF HasRead
  <2>3. \A i \in 1..Len(files) : \A a \in 1..Len(files[i]) : HasRead("client", files[i][a])'
    BY <1>1, <1>2, <1>3, Names DEF HasRead
  <2> QED BY <1>1, <1>3, <1>5, <1>7, <2>1, <2>2, <2>3 DEF FilesInv, SavedInv
<1>11. RightSizeRightFile' BY <1>1 DEF FilesInv, RightSizeRightFile
<1> QED BY <1>8, <1>9, <1>10, <1>11 DEF FilesInv

\* A chunk that comes late, after its file was saved with all the chunks it
\* should have, would be one chunk too many.
LEMMA NoneLate ==
    ASSUME IoInv, StreamInv, ReaderInv, FilesInv, app["client"] = "Receive",
           \A i \in 1..Len(files) : Len(files[i]) = Chunks[i],
           NEW b \in 1..Len(data)
    PROVE  answers[data[b]] = Len(files) + 1
<1> DEFINE c == data[b]
           v == answers[c]
<1>1. /\ data \in Seq(Nat) /\ files \in Seq(Seq(Nat)) /\ answers \in Seq(Nat)
      /\ Len(answers) = written["server"] /\ Len(files) \in Nat
      /\ HasRead("client", c) /\ c \in Nat
  BY DEF FilesInv, SavedInv, AnswerInv
<1>2. Peer("client") = "server" /\ Peer("server") = "client"
  BY DEF Peer
<1>3. c \in 1..Len(answers)
  <2>1. c >= 1 /\ c <= written["server"] BY <1>1, <1>2, ReadBefore, Names
  <2> QED BY <1>1, <2>1
<1>4. HasRead("server", v) BY <1>3 DEF FilesInv, AnswerInv
<1>5. v \in Nat /\ v >= 1 /\ v <= Len(files) + 1 /\ v <= Len(Chunks)
  <2>1. v \in Nat /\ v >= 1 /\ v <= written["client"] BY <1>2, <1>4, ReadBefore, Names
  <2>2. written["client"] = Len(files) + 1 /\ written["client"] <= Len(Chunks)
    BY DEF FilesInv, AskInv
  <2>3. PICK w : w = written["client"] OBVIOUS
  <2>4. w = Len(files) + 1 /\ w <= Len(Chunks) /\ v <= w BY <2>1, <2>2, <2>3
  <2>5. PICK x, l : x = v /\ l = Len(Chunks) OBVIOUS
  <2>6. l \in Nat BY <2>5, InteropAssumption
  <2>7. x \in Nat /\ x >= 1 /\ x <= w /\ w <= l /\ w \in Nat
    BY <1>1, <2>1, <2>4, <2>5
  <2>8. x <= l BY <2>6, <2>7
  <2> QED BY <2>4, <2>5, <2>7, <2>8
<1>6. ASSUME v <= Len(files) PROVE FALSE
  <2> DEFINE file == files[v]
             all == Append(file, c)
             n == Len(file)
  <2>1. v \in 1..Len(files) BY <1>1, <1>5, <1>6
  <2>2. file \in Seq(Nat) /\ n \in Nat /\ n = Chunks[v]
    <3>1. files[v] \in Seq(Nat)
      <4>1. PICK i \in 1..Len(files) : i = v BY <2>1
      <4>2. files[i] \in Seq(Nat) BY <1>1
      <4> QED BY <4>1, <4>2
    <3>2. Len(files[v]) = Chunks[v] BY <2>1
    <3> QED BY <3>1, <3>2
  <2>3. \A i \in 1..n : answers[file[i]] = v
    <3>1. \A i \in 1..v : i \in 1..Len(files) BY <2>1
    <3> QED BY <2>1, <3>1 DEF FilesInv, RightSizeRightFile
  <2>4. \A i \in 1..n : file[i] \in 1..Len(answers)
    <3>1. \A i \in 1..n : HasRead("client", file[i]) BY <2>1 DEF FilesInv, SavedInv
    <3> SUFFICES ASSUME NEW i \in 1..n PROVE file[i] \in 1..Len(answers) OBVIOUS
    <3>2. PICK x : x = file[i] OBVIOUS
    <3>3. HasRead("client", x) BY <3>1, <3>2
    <3>4. x \in Nat /\ x >= 1 /\ x <= written["server"]
      BY <1>2, <3>3, ReadBefore, Names
    <3>5. Len(answers) \in Nat /\ x <= Len(answers) BY <1>1, <3>4
    <3> QED BY <3>2, <3>4, <3>5
  <2>5. /\ \A i, j \in 1..n : i < j => file[i] < file[j]
        /\ \A i \in 1..n : file[i] < c
    BY <2>1 DEF FilesInv, SavedInv
  <2>6. \A x, y \in 1..Len(answers) : answers[x] = v /\ answers[y] = v => y - x < n
    BY <2>2 DEF FilesInv, AnswerInv
  <2>7. n > 0
    <3>1. c - c < n BY <1>3, <2>6
    <3> QED BY <1>1, <2>2, <3>1
  <2> HIDE DEF file, n, c, v
  <2>8. /\ all \in Seq(Nat) /\ Len(all) = n + 1 /\ all[n + 1] = c
        /\ \A i \in 1..n : all[i] = file[i]
        /\ \A i \in 1..Len(all) : i \in 1..n \/ i = n + 1
    <3>1. PICK g, d : g = file /\ d = c OBVIOUS
    <3>2. g \in Seq(Nat) /\ d \in Nat /\ n \in Nat /\ Len(g) = n BY <1>1, <2>2, <3>1 DEF n
    <3>3. all = Append(g, d) BY <3>1
    <3>4. all \in Seq(Nat) /\ Len(all) = n + 1 BY <3>2, <3>3
    <3>5. all[n + 1] = d /\ \A i \in 1..n : all[i] = g[i] BY <3>2, <3>3
    <3>6. \A i \in 1..(n + 1) : i \in 1..n \/ i = n + 1 BY <3>2
    <3> QED BY <3>1, <3>4, <3>5, <3>6
  <2> HIDE DEF all
  <2>9. Increasing(all)
    <3> SUFFICES ASSUME NEW i \in 1..Len(all), NEW j \in 1..Len(all), i < j PROVE all[i] < all[j]
      BY DEF Increasing
    <3>1. i \in 1..n BY <2>2, <2>8
    <3> QED BY <2>5, <2>8, <3>1
  <2>10. file[1] \in Nat /\ 1 \in 1..n BY <2>2, <2>4, <2>7
  <2>11. ASSUME NEW i \in 1..Len(all) PROVE file[1] <= all[i] /\ all[i] - file[1] < n
    <3>1. all[i] \in 1..Len(answers) /\ answers[all[i]] = v
      BY <1>3, <2>3, <2>4, <2>8 DEF v
    <3>2. all[i] - file[1] < n
      <4>1. file[1] \in 1..Len(answers) /\ answers[file[1]] = v BY <2>3, <2>4, <2>10
      <4> QED BY <2>6, <3>1, <4>1
    <3>3. 1 \in 1..Len(all) /\ (i = 1 \/ 1 < i) BY <2>2, <2>7, <2>8
    <3>4. file[1] <= all[i]
      <4>1. CASE i = 1 BY <2>8, <2>10, <4>1
      <4>2. CASE 1 < i
        <5>1. all[1] < all[i] BY <2>9, <3>3, <4>2 DEF Increasing
        <5> QED BY <2>8, <2>10, <3>1, <5>1
      <4> QED BY <3>3, <4>1, <4>2
    <3> QED BY <3>2, <3>4
  <2>12. Len(all) <= n BY <2>2, <2>8, <2>9, <2>10, <2>11, Crowd
  <2> QED BY <2>2, <2>8, <2>12
<1>7. v = Len(files) + 1
  <2>1. PICK x, l : x = v /\ l = Len(files) OBVIOUS
  <2>2. x \in Nat /\ l \in Nat /\ x <= l + 1 /\ ~(x <= l) BY <1>1, <1>5, <1>6, <2>1
  <2> QED BY <2>1, <2>2
<1> QED BY <1>7

\* A file is saved after all the others.
LEMMA FilesSave ==
    ASSUME IoInv, StreamInv, ReaderInv, FilesInv, Save
    PROVE  FilesInv'
<1> DEFINE new == Append(files, data)
           n == Len(files)
<1>1. /\ app \in [Side -> Program] /\ app["client"] = "Receive"
      /\ files' = new /\ app' = [app EXCEPT !["client"] = "Ask"]
      /\ UNCHANGED <<written, delivered, serving, data, answers>>
  BY DEF Save, At, GoTo, FilesInv, AskInv, ep_vars, vars
<1>2. app'["client"] = "Ask" /\ app' \in [Side -> Program]
  BY <1>1, Names DEF Program
<1>3. files \in Seq(Seq(Nat)) /\ data \in Seq(Nat) /\ n \in Nat
  BY DEF FilesInv, SavedInv
<1>4. /\ new \in Seq(Seq(Nat)) /\ Len(new) = n + 1 /\ new[n + 1] = data
      /\ \A i \in 1..n : new[i] = files[i]
      /\ \A i \in 1..(n + 1) : i \in 1..n \/ i = n + 1
  BY <1>3
<1> HIDE DEF new, n
<1>5. \A s \in Side : \A x : HasRead(s, x)' <=> HasRead(s, x)
  BY <1>1 DEF HasRead
<1>6. AskInv' BY <1>1, <1>2, <1>3, <1>4 DEF FilesInv, AskInv, n
<1>7. AnswerInv' BY <1>1, <1>5, Names DEF FilesInv, AnswerInv
<1>8. SavedInv'
  <2>1. ASSUME NEW i \in 1..(n + 1), NEW a \in 1..Len(new[i]) PROVE HasRead("client", new[i][a])
    BY <1>1, <1>4 DEF FilesInv, SavedInv, n
  <2>2. ASSUME NEW i \in 1..(n + 1), NEW j \in 1..(n + 1), NEW a \in 1..Len(new[i]),
               NEW b \in 1..Len(new[j]), i < j \/ (i = j /\ a < b)
        PROVE  new[i][a] < new[j][b]
    <3>1. CASE j \in 1..n
      <4>1. i \in 1..n BY <1>3, <2>2, <3>1
      <4> QED BY <1>4, <2>2, <3>1, <4>1 DEF FilesInv, SavedInv, n
    <3>2. CASE j = n + 1 /\ i \in 1..n
      BY <1>1, <1>4, <3>2 DEF FilesInv, SavedInv, n
    <3>3. CASE j = n + 1 /\ i = n + 1
      BY <1>1, <1>3, <1>4, <2>2, <3>3 DEF FilesInv, SavedInv, Increasing
    <3> QED BY <1>4, <3>1, <3>2, <3>3
  <2>3. \A i \in 1..(n + 1) : \A a \in 1..Len(files'[i]) : HasRead("client", files[i][a])'
    BY <1>1, <2>1 DEF HasRead
  <2> QED BY <1>1, <1>2, <1>3, <1>4, <2>2, <2>3 DEF FilesInv, SavedInv
<1>9. RightSizeRightFile'
  <2> SUFFICES ASSUME NEW k \in 1..(n + 1), \A i \in 1..k : Len(new[i]) = Chunks[i],
                      NEW a \in 1..Len(new[k])
               PROVE  answers[new[k][a]] = k
    BY <1>1, <1>4 DEF RightSizeRightFile
  <2>1. CASE k \in 1..n
    <3>1. \A i \in 1..k : i \in 1..n BY <1>3, <2>1
    <3> QED BY <1>4, <2>1, <3>1 DEF FilesInv, RightSizeRightFile, n
  <2>2. CASE k = n + 1
    <3>1. \A i \in 1..n : i \in 1..k BY <1>3, <2>2
    <3>2. \A i \in 1..Len(files) : Len(files[i]) = Chunks[i] BY <1>4, <3>1 DEF n
    <3>3. a \in 1..Len(data) BY <1>4, <2>2
    <3> QED BY <1>1, <1>4, <2>2, <3>2, <3>3, NoneLate DEF n
  <2> QED BY <1>4, <2>1, <2>2
<1> QED BY <1>6, <1>7, <1>8, <1>9 DEF FilesInv

\* The request that is read is later than all that were answered before.
LEMMA FilesRead ==
    ASSUME IoInv, StreamInv, ReaderInv, FilesInv, Read
    PROVE  FilesInv'
<1> DEFINE req == received_app_data["server"]
           new == Answer(req)
<1>0. PICK v : v = req[1]
  OBVIOUS
<1>1. /\ req # <<>> /\ RecvData("server", Len(req)) /\ serving' = new
      /\ app' = [app EXCEPT !["server"] = "Serve"] /\ app \in [Side -> Program]
      /\ UNCHANGED <<data, files, answers>>
  BY DEF Read, GoTo, FilesInv, AskInv
<1>2. app'["client"] = app["client"] /\ app' \in [Side -> Program]
  BY <1>1, Names DEF Program
<1>3. /\ written' = written
      /\ \A r \in Side : \A n : HasRead(r, n) => HasRead(r, n)'
      /\ \A n : (\E j \in 1..Len(req) : req[j] = n) => HasRead("server", n)'
  BY <1>1, ReadsAll, Names
<1>4. req \in Seq(Nat) /\ Len(req) \in Nat /\ 1 \in 1..Len(req)
  <2>1. req \in Seq(Nat) BY Names DEF IoInv, TypeInv, TypeOK
  <2> QED BY <1>1, <2>1
<1>5. v \in Nat /\ Chunks[v] \in Nat
  <2>1. Peer("server") = "client" BY DEF Peer
  <2>2. v \in 1..stream_send_offset["client"] BY <1>0, <1>4, <2>1, Names DEF StreamInv, ArrivedInv
  <2>3. /\ stream_send_offset["client"] \in Nat /\ pending_app_data["client"] \in Seq(Nat)
        /\ stream_send_offset["client"] + Len(pending_app_data["client"]) = written["client"]
    BY Names DEF IoInv, TypeInv, TypeOK, StreamInv, QueueInv
  <2>4. Len(pending_app_data["client"]) \in Nat BY <2>3
  <2>5. written["client"] <= Len(Chunks) /\ Len(Chunks) \in Nat
    BY InteropAssumption DEF FilesInv, AskInv
  <2>6. v \in 1..Len(Chunks) BY <2>2, <2>3, <2>4, <2>5
  <2> QED BY <2>6, InteropAssumption
<1>6. ASSUME NEW b \in 1..Len(answers) PROVE answers[b] < v /\ answers[b] \in Nat
  <2>1. HasRead("server", answers[b]) BY DEF FilesInv, AnswerInv
  <2> QED BY <1>0, <1>4, <2>1, ReadBefore, Names
<1>7. /\ new \in Seq(Nat) /\ \A k \in 1..Len(new) : new[k] = v /\ Len(new) = Chunks[v]
  <2>1. CASE Len(req) = 1
    <3>1. new = [c \in 1..Chunks[v] |-> v] BY <1>0, <2>1 DEF Answer
    <3> QED BY <1>5, <3>1
  <2>2. CASE Len(req) # 1
    <3>1. new = <<>> BY <2>2 DEF Answer
    <3> QED BY <3>1
  <2> QED BY <2>1, <2>2
<1>8. HasRead("server", v)' BY <1>0, <1>3, <1>4
<1> HIDE DEF new
<1>9. AskInv' BY <1>1, <1>2, <1>3 DEF FilesInv, AskInv
<1>10. AnswerInv'
  <2>1. \A k \in 1..Len(serving') : serving'[k] = v /\ Len(serving') = Chunks[v] BY <1>1, <1>7
  <2>2. \A k \in 1..Len(serving') : HasRead("server", serving[k])' BY <1>8, <2>1 DEF HasRead
  <2>3. \A b \in 1..Len(answers) : HasRead("server", answers[b])'
    BY <1>1, <1>3, Names DEF FilesInv, AnswerInv, HasRead
  <2>4. serving' \in Seq(Nat) /\ Len(serving') \in Nat BY <1>1, <1>7
  <2>5. \A b \in 1..Len(answers), k \in 1..Len(serving') :
            answers[b] <= serving'[k] /\ answers[b] # serving'[k]
    BY <1>5, <1>6, <2>1
  <2>6. \A k \in 1..Len(serving') : Len(serving') <= Chunks[serving'[k]]
    BY <1>5, <2>1
  <2>7. \A j, k \in 1..Len(serving') : serving'[j] = serving'[k]
    BY <2>1
  <2> QED BY <1>1, <1>3, <2>2, <2>3, <2>4, <2>5, <2>6, <2>7 DEF FilesInv, AnswerInv
<1>11. SavedInv'
  BY <1>1, <1>2, <1>3, Names DEF FilesInv, SavedInv, Increasing
<1>12. RightSizeRightFile' BY <1>1 DEF FilesInv, RightSizeRightFile
<1> QED BY <1>9, <1>10, <1>11, <1>12 DEF FilesInv

\* A chunk goes to the end of the stream.
LEMMA FilesServe ==
    ASSUME IoInv, StreamInv, ReaderInv, FilesInv, Serve
    PROVE  FilesInv'
<1> DEFINE n == Len(answers)
           m == Len(serving)
<1>0. PICK v : v = Head(serving)
  OBVIOUS
<1>1. /\ written \in [Side -> Nat] /\ answers \in Seq(Nat) /\ serving \in Seq(Nat)
      /\ written["server"] = n /\ serving # <<>>
  BY DEF IoInv, TypeInv, TypeOK, FilesInv, AnswerInv, Serve
<1>2. /\ written' = [written EXCEPT !["server"] = @ + 1] /\ delivered' = delivered
      /\ answers' = Append(answers, v) /\ serving' = Tail(serving)
      /\ UNCHANGED <<app, data, files>>
  BY <1>0 DEF Serve, SendData
<1>3. written'["server"] = n + 1 /\ written'["client"] = written["client"]
  BY <1>1, <1>2, Names
<1>4. /\ n \in Nat /\ m \in Nat /\ m >= 1 /\ v \in Nat /\ v = serving[1]
      /\ Len(answers') = n + 1 /\ Len(serving') = m - 1
      /\ answers' \in Seq(Nat) /\ serving' \in Seq(Nat)
      /\ \A b \in 1..n : answers'[b] = answers[b] /\ answers[b] \in Nat
      /\ answers'[n + 1] = v
      /\ \A k \in 1..(m - 1) : serving'[k] = serving[k + 1] /\ k + 1 \in 1..m
      /\ \A b \in 1..(n + 1) : b \in 1..n \/ b = n + 1
      /\ 1 \in 1..m
  BY <1>0, <1>1, <1>2
<1> HIDE DEF n, m
<1>5. \A s \in Side : \A x : HasRead(s, x)' <=> HasRead(s, x)
  BY <1>2 DEF HasRead
<1>6. /\ HasRead("server", v)
      /\ \A k \in 1..m : serving[k] = v
      /\ m <= Chunks[v]
      /\ \A b \in 1..n : answers[b] <= v /\ HasRead("server", answers[b])
      /\ \A b \in 1..n : answers[b] = v => n + m - b < Chunks[v]
  BY <1>4 DEF FilesInv, AnswerInv, n, m
<1>7. Chunks[v] \in Nat
  <2>1. Peer("server") = "client" /\ Len(Chunks) \in Nat BY InteropAssumption DEF Peer
  <2>2. v \in Nat /\ v >= 1 /\ v <= written["client"] BY <1>6, <2>1, ReadBefore, Names
  <2>3. written["client"] <= Len(Chunks) /\ written["client"] \in Nat
    BY <1>1, Names DEF FilesInv, AskInv
  <2>4. v \in 1..Len(Chunks) BY <2>1, <2>2, <2>3
  <2> QED BY <2>4, InteropAssumption
<1>8. AskInv' BY <1>2, <1>3 DEF FilesInv, AskInv
<1>9. AnswerInv'
  <2>1. \A k \in 1..(m - 1) : serving'[k] = v BY <1>4, <1>6
  <2>2. \A b \in 1..(n + 1) : HasRead("server", answers[b])'
    <3>1. \A b \in 1..(n + 1) : HasRead("server", answers'[b]) BY <1>4, <1>6
    <3> QED BY <1>2, <3>1 DEF HasRead
  <2>3. \A k \in 1..(m - 1) : HasRead("server", serving[k])'
    BY <1>2, <1>6, <2>1 DEF HasRead
  <2>4. ASSUME NEW b \in 1..(n + 1), NEW c \in 1..(n + 1), b <= c
        PROVE  answers'[b] <= answers'[c]
    <3>1. CASE c \in 1..n
      <4>1. b \in 1..n BY <1>4, <2>4, <3>1
      <4> QED BY <1>4, <2>4, <3>1, <4>1 DEF FilesInv, AnswerInv, n
    <3>2. CASE c = n + 1
      <4>1. answers'[c] = v /\ v \in Nat BY <1>4, <3>2
      <4>2. b \in 1..n => answers'[b] <= v BY <1>4, <1>6
      <4> QED BY <1>4, <4>1, <4>2
    <3> QED BY <1>4, <3>1, <3>2
  <2>5. ASSUME NEW b \in 1..(n + 1), NEW c \in 1..(n + 1), answers'[b] = answers'[c]
        PROVE  c - b < Chunks[answers'[b]]
    <3>1. CASE b \in 1..n /\ c \in 1..n
      BY <1>4, <2>5, <3>1 DEF FilesInv, AnswerInv, n
    <3>2. CASE b \in 1..n /\ c = n + 1
      <4>1. answers'[b] = v /\ answers[b] = v BY <1>4, <2>5, <3>2
      <4>2. n + m - b < Chunks[v] BY <1>6, <3>2, <4>1
      <4> QED BY <1>4, <1>7, <3>2, <4>1, <4>2
    <3>3. CASE b = n + 1
      <4>1. answers'[b] = v BY <1>4, <3>3
      <4>2. c - b <= 0 /\ c - b \in Int BY <1>4, <3>3
      <4> QED BY <1>4, <1>6, <1>7, <4>1, <4>2
    <3> QED BY <1>4, <3>1, <3>2, <3>3
  <2>6. ASSUME NEW b \in 1..(n + 1), NEW k \in 1..(m - 1)
        PROVE  /\ answers'[b] <= serving'[k] /\ m - 1 <= Chunks[serving'[k]]
               /\ answers'[b] = serving'[k] => (n + 1) + (m - 1) - b < Chunks[serving'[k]]
    <3>1. serving'[k] = v BY <2>1
    <3>2. CASE b \in 1..n
      <4>1. answers'[b] = answers[b] /\ answers[b] <= v BY <1>4, <1>6, <3>2
      <4>2. answers[b] = v => n + m - b < Chunks[v] BY <1>6, <3>2
      <4>3. (n + 1) + (m - 1) - b = n + m - b /\ m - 1 <= Chunks[v]
        <5>1. n \in Nat /\ m \in Nat /\ m <= Chunks[v] BY <1>4, <1>6
        <5> QED BY <1>7, <3>2, <5>1
      <4> QED BY <3>1, <4>1, <4>2, <4>3
    <3>3. CASE b = n + 1
      <4>1. answers'[b] = v BY <1>4, <3>3
      <4>2. m \in Nat /\ m <= Chunks[v] /\ n \in Nat BY <1>4, <1>6
      <4>3. m - 1 <= Chunks[v] /\ (n + 1) + (m - 1) - b < Chunks[v]
        BY <1>7, <3>3, <4>2
      <4> QED BY <1>4, <3>1, <4>1, <4>3
    <3> QED BY <1>4, <3>2, <3>3
  <2>7. \A k \in 1..(m - 1) : m - 1 <= Chunks[serving'[k]]
    <3>1. m \in Nat /\ m <= Chunks[v] BY <1>4, <1>6
    <3>2. m - 1 <= Chunks[v] BY <1>7, <3>1
    <3> QED BY <2>1, <3>2
  <2>8. \A j, k \in 1..(m - 1) : serving'[j] = serving'[k]
    BY <2>1
  <2> QED BY <1>3, <1>4, <2>2, <2>3, <2>4, <2>5, <2>6, <2>7, <2>8 DEF AnswerInv
<1>10. SavedInv'
  BY <1>2, <1>5, Names DEF FilesInv, SavedInv, Increasing
<1>11. RightSizeRightFile'
  <2>1. \A i \in 1..Len(files) : \A a \in 1..Len(files[i]) : answers'[files[i][a]] = answers[files[i][a]]
    <3>1. Peer("client") = "server" BY DEF Peer
    <3>2. \A i \in 1..Len(files) : \A a \in 1..Len(files[i]) : HasRead("client", files[i][a])
      BY DEF FilesInv, SavedInv
    <3>3. \A i \in 1..Len(files) : \A a \in 1..Len(files[i]) :
              /\ files[i][a] \in Nat /\ files[i][a] >= 1 /\ files[i][a] <= n
      BY <1>1, <3>1, <3>2, ReadBefore, Names
    <3>4. \A i \in 1..Len(files) : \A a \in 1..Len(files[i]) : files[i][a] \in 1..n
      BY <1>4, <3>3
    <3> QED BY <1>4, <3>4
  <2> SUFFICES ASSUME NEW k \in 1..Len(files), \A i \in 1..k : Len(files[i]) = Chunks[i],
                      NEW a \in 1..Len(files[k])
               PROVE  answers'[files[k][a]] = k
    BY <1>2 DEF RightSizeRightFile
  <2>2. answers[files[k][a]] = k BY DEF FilesInv, RightSizeRightFile
  <2> QED BY <2>1, <2>2
<1> QED BY <1>8, <1>9, <1>10, <1>11 DEF FilesInv

\* Every step of the two programs and their endpoints keeps the files in order.
LEMMA FilesStep ==
    ASSUME IoInv, StreamInv, ReaderInv, FilesInv, IoNext
    PROVE  FilesInv'
<1>0. app \in [Side -> Program] BY DEF FilesInv, AskInv
<1>1. ASSUME NEW s \in Side, Start \/ Step(s) \/ Inside(s) PROVE FilesInv'
  BY <1>0, <1>1, EndpointQuiet, QuietStep
<1>2. ASSUME NEW s \in Side, Handshake(s) PROVE FilesInv'
  <2>1. UNCHANGED <<written, delivered, serving, data, files, answers>>
    BY <1>2 DEF Handshake, ep_vars, vars
  <2>2. /\ app[s] = "Handshake"
        /\ app' = app \/ app' = [app EXCEPT ![s] = IF s = "client" THEN "Ask" ELSE "Wait"]
    BY <1>2 DEF Handshake, At, GoTo
  <2>3. app' \in [Side -> Program] BY <1>0, <2>2 DEF Program
  <2>4. app'["client"] = app["client"] \/ (app["client"] = "Handshake" /\ app'["client"] = "Ask")
    BY <1>0, <2>2, Names
  <2> QED BY <2>1, <2>3, <2>4, QuietStep
<1>3. CASE Client
  <2>1. CASE AskedAll
    <3>1. UNCHANGED <<written, delivered, serving, data, files, answers>>
      BY <2>1 DEF AskedAll, ep_vars, vars
    <3>2. app["client"] = "Ask" /\ app' = [app EXCEPT !["client"] = "Done"]
      BY <2>1 DEF AskedAll, At, GoTo
    <3>3. app' \in [Side -> Program] /\ app'["client"] = "Done"
      BY <1>0, <3>2, Names DEF Program
    <3> QED BY <3>1, <3>2, <3>3, QuietStep
  <2>2. CASE Silence
    <3>1. UNCHANGED <<written, delivered, serving, data, files, answers, app>>
      BY <2>2 DEF Silence, ep_vars, vars
    <3> QED BY <1>0, <3>1, QuietStep
  <2> QED BY <1>3, <2>1, <2>2, FilesAsk, FilesReceive, FilesSave DEF Client
<1>4. CASE Server
  <2>1. CASE Idle \/ TimedOut \/ Served
    <3>1. UNCHANGED <<written, delivered, serving, data, files, answers>>
      BY <2>1 DEF Idle, TimedOut, Served, ep_vars, vars
    <3>2. app' = app \/ \E place \in {"Wait", "Done"} : app' = [app EXCEPT !["server"] = place]
      BY <2>1 DEF Idle, TimedOut, Served, GoTo
    <3>3. app' \in [Side -> Program] /\ app'["client"] = app["client"]
      BY <1>0, <3>2, Names DEF Program
    <3> QED BY <3>1, <3>3, QuietStep
  <2> QED BY <1>4, <2>1, FilesRead, FilesServe DEF Server
<1> QED BY <1>1, <1>2, <1>3, <1>4, Names DEF IoNext, Main

\* The two programs always keep their books.
LEMMA FilesInvariant == IoSpec => [](IoInv /\ StreamInv /\ ReaderInv /\ FilesInv)
<1>1. IoInit => FilesInv
  <2> SUFFICES ASSUME IoInit PROVE FilesInv
    OBVIOUS
  <2>1. /\ serving = <<>> /\ data = <<>> /\ files = <<>> /\ answers = <<>>
        /\ app = [s \in Side |-> "Handshake"] /\ written = [s \in Side |-> 0]
    BY DEF IoInit, EpInit, Init
  <2>2. /\ serving \in Seq(Nat) /\ data \in Seq(Nat) /\ answers \in Seq(Nat)
        /\ files \in Seq(Seq(Nat))
        /\ Len(serving) = 0 /\ Len(data) = 0 /\ Len(files) = 0 /\ Len(answers) = 0
    BY <2>1
  <2>3. Len(Chunks) \in Nat BY InteropAssumption
  <2>4. app["client"] = "Handshake" /\ written["client"] = 0 /\ written["server"] = 0
    BY <2>1, Names
  <2>5. AskInv BY <2>1, <2>2, <2>3, <2>4 DEF AskInv, Program
  <2>6. AnswerInv BY <2>2, <2>4 DEF AnswerInv
  <2>7. SavedInv BY <2>2, <2>4 DEF SavedInv
  <2>8. RightSizeRightFile BY <2>2 DEF RightSizeRightFile
  <2> QED BY <2>5, <2>6, <2>7, <2>8 DEF FilesInv
<1>2. IoInv /\ StreamInv /\ ReaderInv /\ FilesInv /\ [IoNext]_io_vars => FilesInv'
  <2> SUFFICES ASSUME IoInv, StreamInv, ReaderInv, FilesInv, [IoNext]_io_vars PROVE FilesInv'
    OBVIOUS
  <2>1. CASE IoNext BY <2>1, FilesStep
  <2>2. CASE UNCHANGED io_vars
    <3>1. UNCHANGED <<written, delivered, serving, data, files, answers, app>>
      BY <2>2 DEF io_vars, ep_vars, vars, app_vars
    <3>2. app \in [Side -> Program] BY DEF FilesInv, AskInv
    <3> QED BY <3>1, <3>2, QuietStep
  <2> QED BY <2>1, <2>2
<1> QED BY <1>1, <1>2, IoReaders, PTL DEF IoSpec

\* The files, one after the other, are the server's stream in its order and the
\* answers in the order of the requests, however many there are, whatever is
\* lost and whoever is slow.
THEOREM FilesTheorem == IoSpec => []FilesInOrder
<1>1. IoInv /\ StreamInv /\ ReaderInv /\ FilesInv => FilesInOrder
  <2> SUFFICES ASSUME IoInv, StreamInv, ReaderInv, FilesInv,
                      NEW i \in 1..Len(files), NEW j \in 1..Len(files),
                      NEW a \in 1..Len(files[i]), NEW b \in 1..Len(files[j]),
                      i < j \/ (i = j /\ a < b)
               PROVE  /\ files[i][a] < files[j][b]
                      /\ answers[files[i][a]] <= answers[files[j][b]]
    BY DEF FilesInOrder
  <2>1. files[i][a] < files[j][b]
    BY DEF FilesInv, SavedInv
  <2>2. HasRead("client", files[i][a]) /\ HasRead("client", files[j][b])
    BY DEF FilesInv, SavedInv
  <2>3. Peer("client") = "server" /\ written["server"] = Len(answers) /\ Len(answers) \in Nat
    BY DEF Peer, FilesInv, AnswerInv
  <2>4. files[i][a] \in 1..Len(answers) /\ files[j][b] \in 1..Len(answers)
    BY <2>2, <2>3, ReadBefore, Names
  <2>5. files[i][a] <= files[j][b] BY <2>1, <2>4
  <2> QED BY <2>1, <2>4, <2>5 DEF FilesInv, AnswerInv
<1> QED BY <1>1, FilesInvariant, PTL

\* A client that gets every file in its full length has got the right files, for
\* any number of files of any lengths and any patience of the two programs.
THEOREM RightFileTheorem == IoSpec => []RightSizeRightFile
<1>1. FilesInv => RightSizeRightFile
  BY DEF FilesInv
<1> QED BY <1>1, FilesInvariant, PTL
=============================================================================
