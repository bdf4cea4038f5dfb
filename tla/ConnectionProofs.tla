-------------------------- MODULE ConnectionProofs --------------------------
(***************************************************************************)
(* Type correctness and the safety of the handshake of Connection, for     *)
(* every value of the bounds, every radix and every schedule of the        *)
(* network.                                                                *)
(***************************************************************************)
EXTENDS ConnectionInvariant, SpaceProofs

\* Every pending list of numbers has a largest entry, the one its ACK names.
AcksInv == \A s \in Side, sp \in SpaceId : HasLargest(space[s][sp].pending_acks)

TypeInv == TypeOK /\ AcksInv

\* The result of a TLS step: a session, what it wrote and the keys it gave.
TlsResult ==
    [tls : Tls, out1 : Seq(Flight), keys1 : Keys, out2 : Seq(Flight), keys2 : Keys]

\* Whatever TLS is fed, it gives flights and keys.
LEMMA TlsReadType ==
    ASSUME NEW t \in Tls, NEW f, NEW tickets \in Tickets
    PROVE  TlsRead(t, f, tickets) \in TlsResult
<1>1. /\ <<>> \in Seq(Flight) /\ <<"SH">> \in Seq(Flight) /\ <<"SF">> \in Seq(Flight)
      /\ <<"CF">> \in Seq(Flight) /\ <<"NST">> \in Seq(Flight)
  BY DEF Flight
<1>2. tickets \in Seq(Flight)
  BY <1>1 DEF Tickets
<1> QED BY <1>1, <1>2 DEF TlsRead, TlsStep, TlsResult, Tls, Keys, Epoch

\* handle_crypto_output queues flights and installs keys.
LEMMA CryptoOutputType ==
    ASSUME NEW r \in TlsResult, NEW sp \in SpaceId
    PROVE  /\ \A pending \in [SpaceId -> Seq(Flight)] :
                  QueueCrypto(pending, sp, r) \in [SpaceId -> Seq(Flight)]
           /\ \A k \in [SpaceId -> Keys] : InstallKeys(k, sp, r) \in [SpaceId -> Keys]
<1>1. r.out1 \in Seq(Flight) /\ r.out2 \in Seq(Flight) /\ r.keys1 \in Keys /\ r.keys2 \in Keys
  BY DEF TlsResult
<1>2. <<>> \in Seq(Flight)
  OBVIOUS
<1>3. ASSUME NEW pending \in [SpaceId -> Seq(Flight)]
      PROVE  QueueCrypto(pending, sp, r) \in [SpaceId -> Seq(Flight)]
  BY <1>1, <1>2 DEF QueueCrypto
<1>4. ASSUME NEW k \in [SpaceId -> Keys]
      PROVE  InstallKeys(k, sp, r) \in [SpaceId -> Keys]
  BY <1>1 DEF InstallKeys, SetIfNone
<1> QED BY <1>3, <1>4

\* A packet egest assembles in a space with keys is well formed.
LEMMA AssembleType ==
    ASSUME TypeInv, NEW s \in Side, NEW sp \in SpaceId, keys[s][sp] # NoKeys
    PROVE  Assemble(s, sp) \in Packet
<1>1. FormFor(s, sp) \in Form
  BY DEF FormFor, Form, SpaceId
<1>2. keys[s][sp] \in Epoch
  BY DEF TypeInv, TypeOK, Keys
<1>3. /\ space[s][sp].next_send_pn \in Nat
      /\ space[s][sp].pending_acks \in Seq(Nat)
      /\ HasLargest(space[s][sp].pending_acks)
  BY DEF TypeInv, TypeOK, AcksInv, Space
<1>4. pending_crypto[s][sp] \in Seq(Flight)
  BY DEF TypeInv, TypeOK
<1>5. pending_app_data[s] \in Seq(Nat) /\ stream_send_offset[s] \in Nat
  BY DEF TypeInv, TypeOK
<1>6. space[s][sp].pending_acks # <<>> => AckFrame(space[s][sp].pending_acks) \in Ack
  BY <1>3, AckFrameFacts DEF Ack
<1>7. <<>> \in Seq(Nat)
  OBVIOUS
<1>8. SendsDone(s, sp) \in BOOLEAN
  BY DEF SendsDone
<1> QED BY <1>1, <1>2, <1>3, <1>4, <1>5, <1>6, <1>7, <1>8
        DEF Assemble, Packet, CloseCode

-----------------------------------------------------------------------------
\* Changing one space of one side to a well formed one keeps all spaces so.
LEMMA UpdateSpace ==
    ASSUME TypeInv, NEW s \in Side, NEW sp \in SpaceId,
           NEW v \in Space, HasLargest(v.pending_acks),
           space' = [space EXCEPT ![s][sp] = v]
    PROVE  space' \in [Side -> [SpaceId -> Space]] /\ AcksInv'
<1>1. space \in [Side -> [SpaceId -> Space]]
  BY DEF TypeInv, TypeOK
<1>2. space' \in [Side -> [SpaceId -> Space]]
  BY <1>1
<1>3. ASSUME NEW s2 \in Side, NEW q \in SpaceId
      PROVE  HasLargest(space'[s2][q].pending_acks)
  <2>1. CASE s2 = s /\ q = sp
    BY <1>1, <2>1
  <2>2. CASE ~(s2 = s /\ q = sp)
    <3>1. space'[s2][q] = space[s2][q] BY <1>1, <2>2
    <3> QED BY <3>1 DEF TypeInv, AcksInv
  <2> QED BY <2>1, <2>2
<1> QED BY <1>2, <1>3 DEF AcksInv

\* Before any connection exists everything is empty.
LEMMA TypeInvInit == Init => TypeInv
<1> SUFFICES ASSUME Init PROVE TypeInv
  OBVIOUS
<1>1. SpaceNew \in Space /\ SpaceNew.pending_acks = <<>>
  BY SpaceTypes DEF SpaceNew
<1>2. <<>> \in Seq(Nat) /\ <<>> \in Seq(Flight)
  OBVIOUS
<1>3. TypeOK
  BY <1>1, <1>2 DEF Init, TypeOK, State, Tls, Keys, CloseReason
<1>4. AcksInv
  BY <1>1 DEF Init, AcksInv, HasLargest
<1> QED BY <1>3, <1>4 DEF TypeInv

\* connect() builds a well formed client.
LEMMA TypeConnect == TypeInv /\ Connect => TypeInv'
<1> SUFFICES ASSUME TypeInv, Connect PROVE TypeInv'
  OBVIOUS
<1>1. NextSendPn(SpaceNew) \in Space /\ NextSendPn(SpaceNew).pending_acks = <<>>
  BY SpaceTypes DEF NextSendPn, SpaceNew
<1>2. space' \in [Side -> [SpaceId -> Space]] /\ AcksInv'
  <2>1. space' = [space EXCEPT !["client"]["Initial"] = NextSendPn(SpaceNew)]
    BY DEF Connect
  <2>2. "client" \in Side /\ "Initial" \in SpaceId
    BY DEF Side, SpaceId
  <2> QED BY <1>1, <2>1, <2>2, UpdateSpace DEF HasLargest
<1>3. InitialPacket \in Packet
  <2>1. <<"CH">> \in Seq(Flight) /\ <<>> \in Seq(Nat)
    BY DEF Flight
  <2> QED BY <2>1 DEF InitialPacket, Packet, Side, Form, Epoch, CloseCode
<1>4. TypeOK'
  BY <1>2, <1>3
     DEF Connect, TypeInv, TypeOK, State, Tls, Keys, Epoch, Side, SpaceId, stream_vars
<1> QED BY <1>2, <1>4 DEF TypeInv

\* accept() builds a well formed server.
LEMMA TypeAccept ==
    ASSUME TypeInv, NEW p \in Packet, Accept(p)
    PROVE  TypeInv'
<1> DEFINE r == TlsRead("None", p.crypto, <<>>)
           k == [keys["server"] EXCEPT !["Initial"] = "InitialKeys"]
<1>1. r \in TlsResult
  BY TlsReadType DEF Tls, Tickets
<1>2. p.crypto \in Seq(Flight)
  BY DEF Packet
<1>3. "server" \in Side /\ "Initial" \in SpaceId
  BY DEF Side, SpaceId
<1>4. k \in [SpaceId -> Keys]
  BY <1>3 DEF TypeInv, TypeOK, Keys, Epoch
<1>5. RecordRecvPn(SpaceNew, 0) \in Space /\ HasLargest(RecordRecvPn(SpaceNew, 0).pending_acks)
  <2>1. SpaceNew \in Space /\ HasLargest(SpaceNew.pending_acks)
    BY SpaceTypes DEF SpaceNew, HasLargest
  <2> QED BY <2>1, RecordRecvPnFacts
<1>6. space' \in [Side -> [SpaceId -> Space]] /\ AcksInv'
  <2>1. space' = [space EXCEPT !["server"]["Initial"] = RecordRecvPn(SpaceNew, 0)]
    BY DEF Accept
  <2> QED BY <1>3, <1>5, <2>1, UpdateSpace
<1>7. /\ InstallKeys(k, "Initial", r) \in [SpaceId -> Keys]
      /\ QueueCrypto(pending_crypto["server"], "Initial", r) \in [SpaceId -> Seq(Flight)]
  <2>1. pending_crypto["server"] \in [SpaceId -> Seq(Flight)]
    BY <1>3 DEF TypeInv, TypeOK
  <2> HIDE DEF r, k
  <2> QED BY <1>1, <1>3, <1>4, <2>1, CryptoOutputType
<1>8. r.tls \in Tls /\ Len(p.crypto) \in Nat
  BY <1>1, <1>2 DEF TlsResult
<1>9. /\ state' = [state EXCEPT !["server"] = "Handshaking"]
      /\ tls' = [tls EXCEPT !["server"] = r.tls]
      /\ keys' = [keys EXCEPT !["server"] = InstallKeys(k, "Initial", r)]
      /\ pending_crypto' = [pending_crypto EXCEPT !["server"] =
                                QueueCrypto(pending_crypto["server"], "Initial", r)]
      /\ crypto_recv_offset' =
             [crypto_recv_offset EXCEPT !["server"]["Initial"] = Len(p.crypto)]
      /\ UNCHANGED <<close_reason, stream_vars, sent>>
  BY DEF Accept
<1> HIDE DEF r, k
<1>10. TypeOK'
  BY <1>3, <1>6, <1>7, <1>8, <1>9 DEF TypeInv, TypeOK, State, stream_vars
<1> QED BY <1>6, <1>10 DEF TypeInv

\* ingest() keeps its connection well formed, whatever the packet holds.
LEMMA TypeIngest ==
    ASSUME TypeInv, NEW s \in Side, NEW p \in sent, NEW tickets \in Tickets,
           Ingest(s, p, tickets)
    PROVE  TypeInv'
<1> DEFINE sp == SpaceOf(p.form)
           r == TlsRead(tls[s], p.crypto, tickets)
           run == InOrder(s, p)
           ok == ~run \/ r.tls # "Failed"
           k == IF run THEN InstallKeys(keys[s], sp, r) ELSE keys[s]
           q == IF run THEN QueueCrypto(pending_crypto[s], sp, r) ELSE pending_crypto[s]
<1>1. p \in Packet /\ sp \in SpaceId
  BY DEF TypeInv, TypeOK, Packet, SpaceOf, SpaceId, Form
<1>2. p.pn \in Nat /\ Len(p.crypto) \in Nat /\ p.stream \in Seq(Nat) /\ p.close \in CloseCode
  BY <1>1 DEF Packet
<1>3. tls[s] \in Tls /\ keys[s] \in [SpaceId -> Keys]
      /\ pending_crypto[s] \in [SpaceId -> Seq(Flight)]
      /\ received_app_data[s] \in Seq(Nat) /\ state[s] \in State
      /\ crypto_recv_offset[s][sp] \in Nat
  BY <1>1 DEF TypeInv, TypeOK
<1>4. r \in TlsResult
  BY <1>3, TlsReadType
<1>5. k \in [SpaceId -> Keys] /\ q \in [SpaceId -> Seq(Flight)] /\ r.tls \in Tls
  <2>1. r.tls \in Tls BY <1>4 DEF TlsResult
  <2> HIDE DEF r, sp
  <2> QED BY <1>1, <1>3, <1>4, <2>1, CryptoOutputType
<1>6. space' \in [Side -> [SpaceId -> Space]] /\ AcksInv'
  <2>1. space' = [space EXCEPT ![s][sp] = RecordRecvPn(space[s][sp], p.pn)]
    BY <1>1 DEF Ingest, TypeInv, TypeOK
  <2>2. space[s][sp] \in Space /\ HasLargest(space[s][sp].pending_acks)
    BY <1>1 DEF TypeInv, TypeOK, AcksInv
  <2> HIDE DEF sp
  <2>3. RecordRecvPn(space[s][sp], p.pn) \in Space
        /\ HasLargest(RecordRecvPn(space[s][sp], p.pn).pending_acks)
    BY <1>2, <2>2, RecordRecvPnFacts
  <2> QED BY <1>1, <2>1, <2>3, UpdateSpace
<1>7. StateAfter(s, p, k) \in State
  BY <1>3 DEF StateAfter, State
<1>8. received_app_data[s] \o p.stream \in Seq(Nat)
  BY <1>2, <1>3
<1>9. /\ tls' = [tls EXCEPT ![s] = IF run THEN r.tls ELSE tls[s]]
      /\ keys' = [keys EXCEPT ![s] = k]
      /\ pending_crypto' = [pending_crypto EXCEPT ![s] = q]
      /\ crypto_recv_offset' =
             [crypto_recv_offset EXCEPT ![s][sp] =
                  IF run /\ ok THEN crypto_recv_offset[s][sp] + Len(p.crypto)
                  ELSE crypto_recv_offset[s][sp]]
      /\ state' = [state EXCEPT ![s] = IF ok THEN StateAfter(s, p, k) ELSE state[s]]
      /\ close_reason' =
             [close_reason EXCEPT ![s] = IF ~ok \/ p.close = "none" THEN close_reason[s]
                                         ELSE ReasonOf(p.close)]
      /\ received_app_data' =
             [received_app_data EXCEPT ![s] = IF ok THEN received_app_data[s] \o p.stream
                                              ELSE received_app_data[s]]
      /\ UNCHANGED <<pending_app_data, stream_send_offset, written, delivered, sent>>
  BY DEF Ingest
<1> HIDE DEF sp, r, run, ok, k, q
<1>10. /\ tls' \in [Side -> Tls] /\ keys' \in [Side -> [SpaceId -> Keys]]
       /\ pending_crypto' \in [Side -> [SpaceId -> Seq(Flight)]]
  BY <1>3, <1>5, <1>9 DEF TypeInv, TypeOK
<1>11. crypto_recv_offset' \in [Side -> [SpaceId -> Nat]]
  <2>1. PICK o : o = IF run /\ ok THEN crypto_recv_offset[s][sp] + Len(p.crypto)
                     ELSE crypto_recv_offset[s][sp]
    OBVIOUS
  <2>2. crypto_recv_offset[s][sp] \in Nat /\ Len(p.crypto) \in Nat
    BY <1>1, <1>2, <1>3 DEF TypeInv, TypeOK
  <2>3. o \in Nat BY <2>1, <2>2
  <2>4. crypto_recv_offset' = [crypto_recv_offset EXCEPT ![s][sp] = o] BY <1>9, <2>1
  <2> QED BY <1>1, <1>2, <2>3, <2>4 DEF TypeInv, TypeOK
<1>12. state' \in [Side -> State] /\ received_app_data' \in [Side -> Seq(Nat)]
  BY <1>3, <1>7, <1>8, <1>9 DEF TypeInv, TypeOK
<1>13. close_reason' \in [Side -> CloseReason]
  BY <1>2, <1>9 DEF TypeInv, TypeOK, CloseReason, CloseCode, ReasonOf
<1>14. TypeOK'
  BY <1>6, <1>9, <1>10, <1>11, <1>12, <1>13 DEF TypeInv, TypeOK
<1> QED BY <1>6, <1>14 DEF TypeInv

\* egest() keeps its connection and the network well formed, packet sent or
\* dropped.
LEMMA TypeEgest ==
    ASSUME TypeInv, NEW s \in Side, NEW sp \in SpaceId, NEW room, Egest(s, sp, room)
    PROVE  TypeInv'
<1> DEFINE p == Assemble(s, sp)
           v == NextSendPn(TakePendingAcks(space[s][sp]))
<1>1. p \in Packet
  BY AssembleType DEF Egest, Selected
<1>2. p.stream \in Seq(Nat) /\ Len(p.stream) \in Nat
  BY <1>1 DEF Packet
<1>3. v \in Space /\ v.pending_acks = <<>>
  <2>1. space[s][sp] \in Space
    BY DEF TypeInv, TypeOK
  <2>2. TakePendingAcks(space[s][sp]) \in Space
        /\ TakePendingAcks(space[s][sp]).pending_acks = <<>>
    BY <2>1, SpaceTypes DEF TakePendingAcks, Space
  <2> QED BY <2>2, SpaceTypes DEF NextSendPn, Space
<1>4. space' \in [Side -> [SpaceId -> Space]] /\ AcksInv'
  <2>1. space' = [space EXCEPT ![s][sp] = v]
    BY DEF Egest, TypeInv, TypeOK
  <2> HIDE DEF v
  <2> QED BY <1>3, <2>1, UpdateSpace DEF HasLargest
<1>5. /\ pending_crypto' = [pending_crypto EXCEPT ![s][sp] = <<>>]
      /\ state' = [state EXCEPT ![s] = IF p.done THEN "Established" ELSE state[s]]
      /\ pending_app_data' =
             [pending_app_data EXCEPT ![s] = IF p.stream # <<>> THEN <<>> ELSE pending_app_data[s]]
      /\ stream_send_offset' =
             [stream_send_offset EXCEPT ![s] = stream_send_offset[s] + Len(p.stream)]
      /\ sent' = IF Units(p) <= room THEN sent \cup {p} ELSE sent
      /\ UNCHANGED <<tls, keys, crypto_recv_offset, received_app_data, close_reason,
                     written, delivered>>
  BY DEF Egest, StreamOffsetAfter
<1> HIDE DEF p
<1>6. pending_crypto' \in [Side -> [SpaceId -> Seq(Flight)]]
  BY <1>5 DEF TypeInv, TypeOK
<1>7. pending_app_data' \in [Side -> Seq(Nat)]
  <2>1. <<>> \in Seq(Nat) OBVIOUS
  <2> QED BY <1>5, <2>1 DEF TypeInv, TypeOK
<1>8. state' \in [Side -> State] /\ stream_send_offset' \in [Side -> Nat]
  <2>1. state' \in [Side -> State] BY <1>5 DEF TypeInv, TypeOK, State
  <2>2. stream_send_offset[s] + Len(p.stream) \in Nat BY <1>2 DEF TypeInv, TypeOK
  <2>3. stream_send_offset' \in [Side -> Nat] BY <1>5, <2>2 DEF TypeInv, TypeOK
  <2> QED BY <2>1, <2>3
<1>9. sent' \subseteq Packet
  BY <1>1, <1>5 DEF TypeInv, TypeOK
<1>10. TypeOK'
  BY <1>4, <1>5, <1>6, <1>7, <1>8, <1>9 DEF TypeInv, TypeOK
<1> QED BY <1>4, <1>10 DEF TypeInv

\* send_data() and recv_data() touch the stream buffers only.
LEMMA TypeData ==
    ASSUME TypeInv, NEW s \in Side,
           SendData(s) \/ \E n \in 1..MaxRecv : RecvData(s, n)
    PROVE  TypeInv'
<1>1. CASE SendData(s)
  <2>1. written[s] + 1 \in Nat /\ pending_app_data[s] \in Seq(Nat)
    BY DEF TypeInv, TypeOK
  <2>2. Append(pending_app_data[s], written[s] + 1) \in Seq(Nat)
    BY <2>1
  <2>3. TypeOK'
    BY <1>1, <2>1, <2>2 DEF SendData, TypeInv, TypeOK, conn_vars
  <2> QED BY <1>1, <2>3 DEF SendData, conn_vars, TypeInv, AcksInv
<1>2. ASSUME NEW n \in 1..MaxRecv, RecvData(s, n) PROVE TypeInv'
  <2>1. received_app_data[s] \in Seq(Nat) /\ delivered[s] \in Seq(Nat) /\ n \in Nat
    BY <1>2, ConnectionAssumption DEF TypeInv, TypeOK
  <2>2. /\ SubSeq(received_app_data[s], 1, n) \in Seq(Nat)
        /\ SubSeq(received_app_data[s], n + 1, Len(received_app_data[s])) \in Seq(Nat)
    <3>1. PICK got, m : got = received_app_data[s] /\ m = Len(got) OBVIOUS
    <3>2. got \in Seq(Nat) /\ m \in Nat /\ n <= m BY <1>2, <2>1, <3>1 DEF RecvData
    <3>3. n \in 1..m /\ n + 1 \in 1..(m + 1) BY <2>1, <3>2
    <3>4. SubSeq(got, 1, n) \in Seq(Nat) BY <3>1, <3>2, <3>3
    <3>5. SubSeq(got, n + 1, m) \in Seq(Nat) BY <3>1, <3>2, <3>3
    <3> QED BY <3>1, <3>4, <3>5
  <2>3. delivered[s] \o SubSeq(received_app_data[s], 1, n) \in Seq(Nat)
    BY <2>1, <2>2
  <2>4. TypeOK'
    BY <1>2, <2>2, <2>3 DEF RecvData, TypeInv, TypeOK, conn_vars
  <2> QED BY <1>2, <2>4 DEF RecvData, conn_vars, TypeInv, AcksInv
<1> QED BY <1>1, <1>2

\* A peer that closes sends a well formed packet.
LEMMA TypePeerClose ==
    ASSUME TypeInv, NEW s \in Side, NEW sp \in SpaceId, NEW code \in {"Known", "Unknown"},
           PeerClose(s, sp, code)
    PROVE  TypeInv'
<1> DEFINE v == NextSendPn(space[s][sp])
           c == [ from |-> s, form |-> FormFor(s, sp), key |-> keys[s][sp],
                  pn |-> space[s][sp].next_send_pn, crypto |-> <<>>, crypto_off |-> 0,
                  ack |-> {}, done |-> FALSE, stream |-> <<>>, stream_off |-> 0,
                  close |-> code ]
<1>1. space[s][sp] \in Space /\ HasLargest(space[s][sp].pending_acks)
  BY DEF TypeInv, TypeOK, AcksInv
<1>2. v \in Space /\ v.pending_acks = space[s][sp].pending_acks
  BY <1>1, SpaceTypes DEF NextSendPn, Space
<1>3. space' \in [Side -> [SpaceId -> Space]] /\ AcksInv'
  <2>1. space' = [space EXCEPT ![s][sp] = v]
    BY DEF PeerClose, TypeInv, TypeOK
  <2> HIDE DEF v
  <2> QED BY <1>1, <1>2, <2>1, UpdateSpace
<1>4. c \in Packet
  <2>1. FormFor(s, sp) \in Form /\ keys[s][sp] \in Epoch
    BY DEF PeerClose, FormFor, Form, SpaceId, TypeInv, TypeOK, Keys
  <2>2. space[s][sp].next_send_pn \in Nat
    BY <1>1 DEF Space
  <2>3. <<>> \in Seq(Nat) /\ <<>> \in Seq(Flight)
    OBVIOUS
  <2> QED BY <2>1, <2>2, <2>3 DEF Packet, CloseCode
<1>5. /\ sent' = sent \cup {c}
      /\ state' = [state EXCEPT ![s] = "Closed"]
      /\ UNCHANGED <<tls, keys, pending_crypto, crypto_recv_offset, close_reason, stream_vars>>
  BY DEF PeerClose
<1> HIDE DEF c
<1>6. TypeOK'
  BY <1>3, <1>4, <1>5 DEF TypeInv, TypeOK, State, stream_vars
<1> QED BY <1>3, <1>6 DEF TypeInv

\* Every step keeps both connections and the network well formed.
LEMMA TypeInvNext == TypeInv /\ [Next]_vars => TypeInv'
<1> SUFFICES ASSUME TypeInv, [Next]_vars PROVE TypeInv'
  OBVIOUS
<1>1. CASE UNCHANGED vars
  BY <1>1 DEF vars, TypeInv, TypeOK, AcksInv
<1>2. CASE \E p \in sent : Accept(p)
  <2>1. sent \subseteq Packet BY DEF TypeInv, TypeOK
  <2> QED BY <1>2, <2>1, TypeAccept
<1>3. CASE Next
  BY <1>2, <1>3, TypeConnect, TypeIngest, TypeEgest, TypeData, TypePeerClose DEF Next
<1> QED BY <1>1, <1>3

\* Type correctness: whatever the network does, every field of both connections
\* stays in the type the struct declares, and only packets are sent.
THEOREM TypeCorrect == Spec => []TypeOK
<1>1. TypeInv => TypeOK BY DEF TypeInv
<1> QED BY <1>1, TypeInvInit, TypeInvNext, PTL DEF Spec

-----------------------------------------------------------------------------
(* The handshake. *)

\* Strings used as flights are different, and none is the empty frame.
LEMMA FlightsDistinct ==
    /\ <<"CH">> # <<>> /\ <<"SH">> # <<>> /\ <<"SF">> # <<>> /\ <<"CF">> # <<>> /\ <<"NST">> # <<>>
    /\ <<"CH">> # <<"CF">> /\ <<"CH">> # <<"SF">> /\ <<"CH">> # <<"NST">>
    /\ <<"SH">> # <<"SF">> /\ <<"SH">> # <<"CF">> /\ <<"SH">> # <<"NST">>
    /\ <<"SF">> # <<"CF">> /\ <<"SF">> # <<"NST">> /\ <<"CF">> # <<"NST">>
  OBVIOUS

\* Before any connection exists, no flight does.
LEMMA HandshakeInit == Init => HandshakeInv
<1> SUFFICES ASSUME Init PROVE HandshakeInv
  OBVIOUS
<1>1. "client" \in Side /\ "server" \in Side
      /\ "Initial" \in SpaceId /\ "Handshake" \in SpaceId /\ "AppData" \in SpaceId
  BY DEF Side, SpaceId
<1>2. ClientInv BY <1>1 DEF Init, ClientInv
<1>3. ServerInv BY <1>1 DEF Init, ServerInv
<1>4. PacketInv BY DEF Init, PacketInv
<1>5. PendingInv BY DEF Init, PendingInv, FlightsOf
<1>6. OrderInv BY <1>1, FlightsDistinct DEF Init, OrderInv
<1> QED BY <1>2, <1>3, <1>4, <1>5, <1>6 DEF HandshakeInv

\* connect(): there was no client packet before, and the first one has number 0.
LEMMA HandshakeConnect == TypeInv /\ HandshakeInv /\ Connect => HandshakeInv'
<1> SUFFICES ASSUME TypeInv, HandshakeInv, Connect PROVE HandshakeInv'
  OBVIOUS
<1>1. "client" \in Side /\ "server" \in Side
      /\ "Initial" \in SpaceId /\ "Handshake" \in SpaceId /\ "AppData" \in SpaceId
  BY DEF Side, SpaceId
<1>2. /\ state' = [state EXCEPT !["client"] = "Connecting"]
      /\ tls' = [tls EXCEPT !["client"] = "C_Hello"]
      /\ keys' = [keys EXCEPT !["client"]["Initial"] = "InitialKeys"]
      /\ space' = [space EXCEPT !["client"]["Initial"] = NextSendPn(SpaceNew)]
      /\ sent' = sent \cup {InitialPacket}
      /\ UNCHANGED <<pending_crypto, crypto_recv_offset>>
      /\ state["client"] = "None" /\ tls["client"] = "None"
  BY DEF Connect, HandshakeInv, ClientInv
<1>3. NextSendPn(SpaceNew).next_send_pn = 1
  BY DEF NextSendPn, SpaceNew
<1>4. ClientInv'
  BY <1>1, <1>2 DEF HandshakeInv, ClientInv, TypeInv, TypeOK
<1>5. ServerInv'
  BY <1>1, <1>2 DEF HandshakeInv, ServerInv, TypeInv, TypeOK
<1>6. PacketInv'
  <2>1. ASSUME NEW p \in sent
        PROVE  p.from = "server" /\ p \in Packet
    BY <1>2 DEF HandshakeInv, PacketInv, PacketOK, TypeInv, TypeOK, Packet, Side
  <2>2. ASSUME NEW p \in sent
        PROVE  state'[p.from] = state[p.from] /\ space'[p.from] = space[p.from]
    BY <1>2, <2>1, <1>1 DEF TypeInv, TypeOK
  <2>3. /\ InitialPacket.from = "client" /\ SpaceOf(InitialPacket.form) = "Initial"
        /\ InitialPacket.key = "InitialKeys" /\ InitialPacket.pn = 0
        /\ InitialPacket.crypto = <<"CH">> /\ InitialPacket.crypto_off = 0
        /\ InitialPacket.done = FALSE
    BY DEF InitialPacket, SpaceOf
  <2>4. space'["client"]["Initial"].next_send_pn = 1 /\ state'["client"] = "Connecting"
    BY <1>1, <1>2, <1>3 DEF TypeInv, TypeOK
  <2>5. ASSUME NEW p \in sent PROVE PacketOK(p)'
    BY <2>2 DEF HandshakeInv, PacketInv, PacketOK
  <2>6. PacketOK(InitialPacket)'
    BY <2>3, <2>4 DEF PacketOK, EpochOf, FlightsOf
  <2> QED BY <1>2, <2>5, <2>6 DEF PacketInv
<1>7. PendingInv'
  <2>1. \A s \in Side : state'[s] = "None" => state[s] = "None"
    BY <1>2 DEF TypeInv, TypeOK
  <2> QED BY <1>2, <2>1 DEF HandshakeInv, PendingInv
<1>8. OrderInv'
  <2>1. InitialPacket.crypto = <<"CH">>
    BY DEF InitialPacket
  <2>2. tls'["client"] = "C_Hello" /\ tls'["server"] = tls["server"]
    BY <1>1, <1>2 DEF TypeInv, TypeOK
  <2>3. \A p \in sent' : p \in sent \/ p.crypto = <<"CH">>
    BY <1>2, <2>1
  <2> QED BY <1>2, <2>2, <2>3, FlightsDistinct DEF HandshakeInv, OrderInv
<1> QED BY <1>4, <1>5, <1>6, <1>7, <1>8 DEF HandshakeInv

\* A packet in the network stays accounted for while connections stay created
\* and counters only grow.
LEMMA PacketStays ==
    ASSUME TypeInv, TypeInv', PacketInv, NEW p \in sent,
           \A s \in Side : state[s] # "None" => state'[s] # "None",
           \A s \in Side, sp \in SpaceId : state[s] # "None" =>
               space[s][sp].next_send_pn <= space'[s][sp].next_send_pn
    PROVE  PacketOK(p)'
<1>1. p \in Packet /\ PacketOK(p)
  BY DEF TypeInv, TypeOK, PacketInv
<1>2. p.from \in Side /\ SpaceOf(p.form) \in SpaceId /\ p.pn \in Nat
  BY <1>1 DEF Packet, SpaceOf, SpaceId, Form
<1>3. /\ space[p.from][SpaceOf(p.form)].next_send_pn \in Nat
      /\ space'[p.from][SpaceOf(p.form)].next_send_pn \in Nat
  BY <1>2 DEF TypeInv, TypeOK, Space
<1>4. p.pn < space'[p.from][SpaceOf(p.form)].next_send_pn
  BY <1>1, <1>2, <1>3 DEF PacketOK
<1> QED BY <1>1, <1>2, <1>4 DEF PacketOK

\* Appending nothing to a queue changes nothing.
LEMMA ConcatEmpty ==
    \A q \in Seq(Flight) : q \o <<>> = q /\ <<>> \o q = q
  OBVIOUS

\* accept(): TLS answers the ClientHello with both flights of the server and
\* the keys of both remaining spaces.
LEMMA AcceptFacts ==
    ASSUME TypeInv, HandshakeInv, NEW p \in sent, Accept(p)
    PROVE  /\ tls["server"] = "None" /\ state["server"] = "None"
           /\ p.from = "client" /\ SpaceOf(p.form) = "Initial" /\ PacketOK(p)
           /\ tls' = [tls EXCEPT !["server"] = "S_Flight"]
           /\ state' = [state EXCEPT !["server"] = "Handshaking"]
           /\ \A sp \in SpaceId : keys'["server"][sp] = EpochOf(sp)
           /\ keys'["client"] = keys["client"]
           /\ pending_crypto'["server"]["Initial"] = <<"SH">>
           /\ pending_crypto'["server"]["Handshake"] = <<"SF">>
           /\ pending_crypto'["server"]["AppData"] = <<>>
           /\ pending_crypto'["client"] = pending_crypto["client"]
           /\ crypto_recv_offset'["server"]["Initial"] = 1
           /\ crypto_recv_offset'["server"]["Handshake"] = 0
           /\ crypto_recv_offset'["client"] = crypto_recv_offset["client"]
           /\ sent' = sent
<1> DEFINE r == TlsRead("None", p.crypto, <<>>)
           k == [keys["server"] EXCEPT !["Initial"] = "InitialKeys"]
<1>1. "client" \in Side /\ "server" \in Side
      /\ "Initial" \in SpaceId /\ "Handshake" \in SpaceId /\ "AppData" \in SpaceId
  BY DEF Side, SpaceId
<1>2. tls["server"] = "None" /\ state["server"] = "None"
  BY DEF Accept, HandshakeInv, ServerInv
<1>3. /\ \A sp \in SpaceId : keys["server"][sp] = NoKeys /\ pending_crypto["server"][sp] = <<>>
      /\ crypto_recv_offset["server"]["Handshake"] = 0
  BY <1>1, <1>2 DEF HandshakeInv, ServerInv, PendingInv
<1>4. p.crypto = <<"CH">> /\ r = TlsStep("S_Flight", <<"SH">>, "HandshakeKeys", <<"SF">>, "OneRttKeys")
  BY DEF Accept, TlsRead, TlsStep
<1>5. /\ r.tls = "S_Flight" /\ r.out1 = <<"SH">> /\ r.keys1 = "HandshakeKeys"
      /\ r.out2 = <<"SF">> /\ r.keys2 = "OneRttKeys"
  BY <1>4 DEF TlsStep
<1>6. /\ state' = [state EXCEPT !["server"] = "Handshaking"]
      /\ tls' = [tls EXCEPT !["server"] = r.tls]
      /\ keys' = [keys EXCEPT !["server"] = InstallKeys(k, "Initial", r)]
      /\ pending_crypto' = [pending_crypto EXCEPT !["server"] =
                                QueueCrypto(pending_crypto["server"], "Initial", r)]
      /\ crypto_recv_offset' =
             [crypto_recv_offset EXCEPT !["server"]["Initial"] = Len(p.crypto)]
      /\ sent' = sent
      /\ p.from = "client" /\ p.key = "InitialKeys"
  BY DEF Accept
<1> HIDE DEF r
<1>7. \A sp \in SpaceId : InstallKeys(k, "Initial", r)[sp] = EpochOf(sp)
  <2>1. k \in [SpaceId -> Keys] /\ k["Initial"] = "InitialKeys"
        /\ k["Handshake"] = NoKeys /\ k["AppData"] = NoKeys
    BY <1>1, <1>3 DEF TypeInv, TypeOK, Keys, Epoch
  <2> HIDE DEF k
  <2> QED BY <1>5, <2>1 DEF InstallKeys, SetIfNone, EpochOf, SpaceId, NoKeys
<1>8. LET q == QueueCrypto(pending_crypto["server"], "Initial", r)
      IN  q["Initial"] = <<"SH">> /\ q["Handshake"] = <<"SF">> /\ q["AppData"] = <<>>
  <2>1. <<>> \o <<"SH">> \o <<>> = <<"SH">> /\ <<>> \o <<>> \o <<"SF">> = <<"SF">>
        /\ <<>> \o <<>> \o <<>> = <<>>
    BY ConcatEmpty DEF Flight
  <2> QED BY <1>1, <1>3, <1>5, <2>1 DEF QueueCrypto, NextSpace, NoKeys
<1>9. PacketOK(p) /\ SpaceOf(p.form) = "Initial"
  BY <1>6 DEF HandshakeInv, PacketInv, PacketOK, EpochOf
<1>10. Len(p.crypto) = 1
  BY <1>4
<1> HIDE DEF k
<1> QED BY <1>1, <1>2, <1>3, <1>5, <1>6, <1>7, <1>8, <1>9, <1>10 DEF TypeInv, TypeOK

\* accept() is where the server's flights come from, and there is only one.
LEMMA HandshakeAccept ==
    ASSUME TypeInv, TypeInv', HandshakeInv, NEW p \in sent, Accept(p)
    PROVE  HandshakeInv'
<1>1. "client" \in Side /\ "server" \in Side
      /\ "Initial" \in SpaceId /\ "Handshake" \in SpaceId /\ "AppData" \in SpaceId
  BY DEF Side, SpaceId
<1>2. /\ tls'["server"] = "S_Flight" /\ tls'["client"] = tls["client"]
      /\ state'["server"] = "Handshaking" /\ state'["client"] = state["client"]
  BY <1>1, AcceptFacts DEF TypeInv, TypeOK
<1>3. ClientInv'
  BY <1>2, AcceptFacts DEF HandshakeInv, ClientInv
<1>4. ServerInv'
  BY <1>2, AcceptFacts DEF ServerInv
<1>5. PacketInv'
  <2>1. \A s \in Side : state[s] # "None" => state'[s] # "None"
    BY <1>2 DEF Side
  <2>2. ASSUME NEW s \in Side, NEW sp \in SpaceId, state[s] # "None"
        PROVE  space[s][sp].next_send_pn <= space'[s][sp].next_send_pn
    <3>1. s = "client"
      BY <2>2, AcceptFacts DEF Side
    <3>2. space'[s][sp] = space[s][sp]
      BY <1>1, <3>1 DEF Accept, TypeInv, TypeOK
    <3>3. space[s][sp].next_send_pn \in Nat
      BY DEF TypeInv, TypeOK, Space
    <3> QED BY <3>2, <3>3
  <2>3. PacketInv
    BY DEF HandshakeInv
  <2>4. ASSUME NEW q \in sent PROVE PacketOK(q)'
    BY <2>1, <2>2, <2>3, PacketStays
  <2> QED BY <2>4, AcceptFacts DEF PacketInv
<1>6. PendingInv'
  <2>1. ASSUME NEW sp \in SpaceId
        PROVE  pending_crypto'["server"][sp] \in FlightsOf("server", sp)
    BY AcceptFacts DEF FlightsOf, SpaceId
  <2>2. ASSUME NEW sp \in SpaceId
        PROVE  /\ pending_crypto'["client"][sp] \in FlightsOf("client", sp)
               /\ state'["client"] = "None" => pending_crypto'["client"][sp] = <<>>
    BY <1>1, <1>2, AcceptFacts DEF HandshakeInv, PendingInv
  <2> QED BY <1>2, <2>1, <2>2 DEF PendingInv, Side
<1>7. OrderInv'
  <2>1. /\ tls["client"] \notin {"C_Secure", "C_Done"}
        /\ \A q \in sent : q.from = "client" /\ q.crypto # <<"SF">> /\ q.crypto # <<"NST">>
    <3>1. tls["server"] = "None" /\ state["server"] = "None"
      BY AcceptFacts
    <3>2. ASSUME NEW q \in sent
          PROVE  q.from = "client" /\ q.crypto # <<"SF">> /\ q.crypto # <<"NST">>
      <4>1. PacketOK(q) /\ q \in Packet
        BY DEF HandshakeInv, PacketInv, TypeInv, TypeOK
      <4>2. q.from = "client"
        BY <3>1, <4>1 DEF PacketOK, Packet, Side
      <4> QED BY <4>1, <4>2, FlightsDistinct DEF PacketOK, FlightsOf
    <3> QED BY <3>1, <3>2 DEF HandshakeInv, OrderInv
  <2>2. /\ \A q \in sent' : q \in sent
        /\ pending_crypto'["server"]["Handshake"] = <<"SF">>
        /\ pending_crypto'["client"]["Handshake"] = pending_crypto["client"]["Handshake"]
    BY AcceptFacts
  <2> QED BY <1>2, <2>1, <2>2, FlightsDistinct DEF HandshakeInv, OrderInv
<1> QED BY <1>3, <1>4, <1>5, <1>6, <1>7 DEF HandshakeInv

\* What a packet that opens tells about its sender and its keys.
LEMMA OpensFacts ==
    ASSUME TypeInv, HandshakeInv, NEW s \in Side, NEW p \in sent, Open(s), Decrypts(s, p)
    PROVE  /\ p \in Packet /\ PacketOK(p)
           /\ SpaceOf(p.form) \in SpaceId
           /\ p.from = Peer(s) /\ Peer(s) \in Side
           /\ keys[s][SpaceOf(p.form)] # NoKeys
           /\ state[s] # "None" /\ state[Peer(s)] # "None"
           /\ tls[s] # "None" /\ tls[Peer(s)] # "None"
<1>1. p \in Packet /\ PacketOK(p)
  BY DEF TypeInv, TypeOK, HandshakeInv, PacketInv
<1>2. SpaceOf(p.form) \in SpaceId /\ Peer(s) \in Side
  BY DEF SpaceOf, SpaceId, Peer, Side
<1>3. p.from = Peer(s) /\ keys[s][SpaceOf(p.form)] = p.key
  BY DEF Decrypts
<1>4. p.key # NoKeys
  BY <1>1 DEF Packet, Epoch, NoKeys
<1>5. state[s] # "None" /\ state[Peer(s)] # "None"
  BY <1>1, <1>3 DEF PacketOK, Open
<1>6. \A x \in Side : state[x] # "None" => tls[x] # "None"
  BY DEF HandshakeInv, ClientInv, ServerInv, Side
<1> QED BY <1>1, <1>2, <1>3, <1>4, <1>5, <1>6

\* The heart of the matter: when the offset check lets a CRYPTO frame through,
\* it holds the flight that TLS waits for. Late, repeated and reordered packets,
\* and the tickets that are sent with offset 0 too, never get there.
LEMMA FedIsNextFlight ==
    ASSUME TypeInv, HandshakeInv, NEW s \in Side, NEW p \in sent,
           Open(s), Decrypts(s, p), InOrder(s, p)
    PROVE  \/ /\ s = "client" /\ SpaceOf(p.form) = "Initial"
              /\ p.crypto = <<"SH">> /\ tls[s] = "C_Hello"
           \/ /\ s = "client" /\ SpaceOf(p.form) = "Handshake"
              /\ p.crypto = <<"SF">> /\ tls[s] = "C_Secure"
           \/ /\ s = "server" /\ SpaceOf(p.form) = "Handshake"
              /\ p.crypto = <<"CF">> /\ tls[s] = "S_Flight"
<1> DEFINE sp == SpaceOf(p.form)
<1>1. /\ p.from = Peer(s) /\ PacketOK(p) /\ sp \in SpaceId /\ tls[s] # "None"
      /\ keys[s][sp] # NoKeys
  BY OpensFacts
<1>2. /\ p.crypto # <<>> /\ p.crypto \in FlightsOf(Peer(s), sp)
      /\ crypto_recv_offset[s][sp] = 0
  BY <1>1 DEF InOrder, PacketOK
<1> HIDE DEF sp
<1>3. CASE s = "client"
  <2>1. Peer(s) = "server" /\ ClientInv
    BY <1>3 DEF Peer, HandshakeInv
  <2>2. CASE sp = "Initial"
    <3>1. p.crypto = <<"SH">>
      BY <1>2, <2>1, <2>2 DEF FlightsOf
    <3>2. tls[s] = "C_Hello"
      BY <1>1, <1>2, <1>3, <2>1, <2>2 DEF ClientInv
    <3> QED BY <1>3, <2>2, <3>1, <3>2 DEF sp
  <2>3. CASE sp = "Handshake"
    <3>1. tls[s] = "C_Secure"
      BY <1>1, <1>2, <1>3, <2>1, <2>3 DEF ClientInv
    <3>2. p.crypto \in {<<"SF">>, <<"NST">>}
      BY <1>2, <2>1, <2>3 DEF FlightsOf
    <3>3. p.crypto # <<"NST">>
      BY <1>3, <3>1 DEF HandshakeInv, OrderInv
    <3> QED BY <1>3, <2>3, <3>1, <3>2, <3>3 DEF sp
  <2>4. CASE sp = "AppData"
    BY <1>2, <2>1, <2>4 DEF FlightsOf
  <2> QED BY <1>1, <2>2, <2>3, <2>4 DEF SpaceId
<1>4. CASE s = "server"
  <2>1. Peer(s) = "client" /\ ServerInv
    BY <1>4 DEF Peer, HandshakeInv
  <2>2. CASE sp = "Initial"
    BY <1>1, <1>2, <1>4, <2>1, <2>2 DEF ServerInv
  <2>3. CASE sp = "Handshake"
    <3>1. p.crypto = <<"CF">>
      BY <1>2, <2>1, <2>3 DEF FlightsOf
    <3>2. tls[s] = "S_Flight"
      BY <1>1, <1>2, <1>4, <2>1, <2>3 DEF ServerInv
    <3> QED BY <1>4, <2>3, <3>1, <3>2 DEF sp
  <2>4. CASE sp = "AppData"
    BY <1>2, <2>1, <2>4 DEF FlightsOf
  <2> QED BY <1>1, <2>2, <2>3, <2>4 DEF SpaceId
<1> QED BY <1>3, <1>4 DEF Side

\* ingest() never uncreates a connection and leaves the send counters alone, so
\* the packets in the network stay accounted for.
LEMMA IngestPackets ==
    ASSUME TypeInv, TypeInv', HandshakeInv, NEW s \in Side, NEW p \in sent,
           NEW tickets \in Tickets, Ingest(s, p, tickets)
    PROVE  /\ PacketInv'
           /\ sent' = sent
           /\ \A x \in Side : state[x] # "None" => state'[x] # "None"
           /\ \A x \in Side : x # s => state'[x] = state[x]
           /\ state'[s] \in {state[s], "Established", "Closed"}
<1>1. /\ p \in Packet /\ SpaceOf(p.form) \in SpaceId /\ p.pn \in Nat
  BY OpensFacts DEF Ingest, Packet
<1>2. sent' = sent
  BY DEF Ingest
<1>3. /\ \A x \in Side : x # s => state'[x] = state[x]
      /\ state'[s] \in {state[s], "Established", "Closed"}
  BY DEF Ingest, StateAfter, TypeInv, TypeOK
<1>4. \A x \in Side : state[x] # "None" => state'[x] # "None"
  BY <1>3
<1>5. ASSUME NEW x \in Side, NEW q \in SpaceId
      PROVE  space[x][q].next_send_pn <= space'[x][q].next_send_pn
  <2>1. space' = [space EXCEPT ![s][SpaceOf(p.form)] =
                      RecordRecvPn(space[s][SpaceOf(p.form)], p.pn)]
    BY <1>1 DEF Ingest, TypeInv, TypeOK
  <2>2. space[x][q].next_send_pn \in Nat
    BY DEF TypeInv, TypeOK, Space
  <2>3. \A v : RecordRecvPn(v, p.pn).next_send_pn = v.next_send_pn
    BY DEF RecordRecvPn
  <2>4. space'[x][q].next_send_pn = space[x][q].next_send_pn
    <3>1. CASE x = s /\ q = SpaceOf(p.form)
      BY <1>1, <2>1, <2>3, <3>1 DEF TypeInv, TypeOK
    <3>2. CASE ~(x = s /\ q = SpaceOf(p.form))
      <4>1. space'[x][q] = space[x][q]
        BY <1>1, <2>1, <3>2 DEF TypeInv, TypeOK
      <4> QED BY <4>1
    <3> QED BY <3>1, <3>2
  <2> QED BY <2>2, <2>4
<1>6. PacketInv
  BY DEF HandshakeInv
<1>7. ASSUME NEW q \in sent PROVE PacketOK(q)'
  BY <1>4, <1>5, <1>6, PacketStays
<1> QED BY <1>2, <1>3, <1>4, <1>7 DEF PacketInv

\* A packet without the CRYPTO frame that is waited for leaves the handshake
\* where it is. It may establish a client (HANDSHAKE_DONE), which then has the
\* 1-RTT keys, as the packet opened with them.
LEMMA HandshakeIngestOther ==
    ASSUME TypeInv, TypeInv', HandshakeInv, NEW s \in Side, NEW p \in sent,
           NEW tickets \in Tickets, Ingest(s, p, tickets), ~InOrder(s, p)
    PROVE  HandshakeInv'
<1>1. /\ tls' = tls /\ keys' = keys /\ pending_crypto' = pending_crypto
      /\ crypto_recv_offset' = crypto_recv_offset
  BY OpensFacts DEF Ingest, TypeInv, TypeOK
<1>2. /\ PacketInv' /\ sent' = sent
      /\ \A x \in Side : state[x] # "None" => state'[x] # "None"
      /\ \A x \in Side : x # s => state'[x] = state[x]
      /\ state'[s] \in {state[s], "Established", "Closed"}
  BY IngestPackets
<1>3. /\ p \in Packet /\ PacketOK(p) /\ keys[s][SpaceOf(p.form)] # NoKeys
      /\ state[s] # "None" /\ tls[s] # "None"
  BY OpensFacts DEF Ingest
<1>4. s = "client" /\ state'[s] = "Established" => tls[s] = "C_Done"
  <2> SUFFICES ASSUME s = "client", state'[s] = "Established" PROVE tls[s] = "C_Done"
    OBVIOUS
  <2>1. state'[s] = StateAfter(s, p, keys[s])
    BY DEF Ingest, TypeInv, TypeOK
  <2>2. p.done \/ state[s] = "Established"
    BY <2>1 DEF StateAfter
  <2>3. CASE p.done
    <3>1. keys["client"]["AppData"] # NoKeys
      BY <1>3, <2>3 DEF PacketOK
    <3> QED BY <3>1 DEF HandshakeInv, ClientInv
  <2>4. CASE state[s] = "Established"
    BY <2>4 DEF HandshakeInv, ClientInv
  <2> QED BY <2>2, <2>3, <2>4
<1>5. "client" \in Side /\ "server" \in Side
  BY DEF Side
<1>6. ClientInv'
  <2>1. state'["client"] = "None" <=> state["client"] = "None"
    BY <1>2, <1>3, <1>5
  <2>2. state'["client"] # "Handshaking"
    BY <1>2, <1>5 DEF HandshakeInv, ClientInv
  <2>3. state'["client"] = "Established" => tls["client"] = "C_Done"
    BY <1>2, <1>4, <1>5 DEF HandshakeInv, ClientInv
  <2> QED BY <1>1, <2>1, <2>2, <2>3 DEF HandshakeInv, ClientInv
<1>7. ServerInv'
  <2>1. state'["server"] = "None" <=> state["server"] = "None"
    BY <1>2, <1>3, <1>5
  <2> QED BY <1>1, <2>1 DEF HandshakeInv, ServerInv
<1>8. PendingInv'
  BY <1>1, <1>2 DEF HandshakeInv, PendingInv
<1>9. OrderInv'
  BY <1>1, <1>2 DEF HandshakeInv, OrderInv
<1> QED BY <1>2, <1>6, <1>7, <1>8, <1>9 DEF HandshakeInv

\* ServerHello at the client: the keys of the Handshake space.
LEMMA HandshakeIngestSH ==
    ASSUME TypeInv, TypeInv', HandshakeInv, NEW p \in sent,
           NEW tickets \in Tickets, Ingest("client", p, tickets), InOrder("client", p),
           SpaceOf(p.form) = "Initial", p.crypto = <<"SH">>, tls["client"] = "C_Hello"
    PROVE  HandshakeInv'
<1> DEFINE r == TlsRead(tls["client"], p.crypto, tickets)
<1>1. "client" \in Side /\ "server" \in Side
      /\ "Initial" \in SpaceId /\ "Handshake" \in SpaceId /\ "AppData" \in SpaceId
  BY DEF Side, SpaceId
<1>2. /\ r.tls = "C_Secure" /\ r.out1 = <<>> /\ r.keys1 = "HandshakeKeys"
      /\ r.out2 = <<>> /\ r.keys2 = NoKeys
  BY DEF TlsRead, TlsStep
<1>3. /\ tls' = [tls EXCEPT !["client"] = r.tls]
      /\ keys' = [keys EXCEPT !["client"] = InstallKeys(keys["client"], "Initial", r)]
      /\ pending_crypto' = [pending_crypto EXCEPT !["client"] =
                                QueueCrypto(pending_crypto["client"], "Initial", r)]
      /\ crypto_recv_offset' = [crypto_recv_offset EXCEPT !["client"]["Initial"] =
                                    crypto_recv_offset["client"]["Initial"] + Len(p.crypto)]
      /\ state' = [state EXCEPT !["client"] =
                       StateAfter("client", p, InstallKeys(keys["client"], "Initial", r))]
  BY <1>1, <1>2 DEF Ingest, TypeInv, TypeOK
<1> HIDE DEF r
<1>4. /\ PacketInv' /\ sent' = sent
      /\ \A x \in Side : state[x] # "None" => state'[x] # "None"
      /\ \A x \in Side : x # "client" => state'[x] = state[x]
      /\ state'["client"] \in {state["client"], "Established", "Closed"}
  BY <1>1, IngestPackets
<1>5. /\ PacketOK(p) /\ state["client"] # "None" /\ tls["server"] # "None"
  BY <1>1, OpensFacts DEF Ingest, Peer
<1>6. /\ keys["client"]["Initial"] = "InitialKeys" /\ keys["client"]["Handshake"] = NoKeys
      /\ keys["client"]["AppData"] = NoKeys
      /\ crypto_recv_offset["client"]["Initial"] = 0
      /\ crypto_recv_offset["client"]["Handshake"] = 0
      /\ state["client"] # "Handshaking" /\ state["client"] # "Established"
  BY DEF HandshakeInv, ClientInv
<1>7. LET k == InstallKeys(keys["client"], "Initial", r)
      IN  k["Initial"] = "InitialKeys" /\ k["Handshake"] = "HandshakeKeys" /\ k["AppData"] = NoKeys
  BY <1>1, <1>2, <1>6 DEF InstallKeys, SetIfNone, NoKeys
<1>8. tls'["client"] = "C_Secure" /\ tls'["server"] = tls["server"]
  BY <1>1, <1>2, <1>3 DEF TypeInv, TypeOK
<1>9. state'["client"] # "Established"
  <2>1. ~p.done
    BY <1>5 DEF PacketOK
  <2>2. StateAfter("client", p, InstallKeys(keys["client"], "Initial", r)) # "Established"
    BY <1>6, <1>7, <2>1 DEF StateAfter
  <2> QED BY <1>1, <1>3, <2>2 DEF TypeInv, TypeOK
<1>10. pending_crypto' = pending_crypto
  <2>1. pending_crypto["client"] \in [SpaceId -> Seq(Flight)]
    BY <1>1 DEF TypeInv, TypeOK
  <2>2. ASSUME NEW x \in SpaceId
        PROVE  QueueCrypto(pending_crypto["client"], "Initial", r)[x] = pending_crypto["client"][x]
    BY <1>2, <2>1, ConcatEmpty DEF QueueCrypto
  <2>3. QueueCrypto(pending_crypto["client"], "Initial", r) = pending_crypto["client"]
    BY <2>1, <2>2 DEF QueueCrypto
  <2> QED BY <1>1, <1>3, <2>3 DEF TypeInv, TypeOK
<1>11. /\ crypto_recv_offset'["client"]["Initial"] = 1
       /\ crypto_recv_offset'["client"]["Handshake"] = 0
       /\ crypto_recv_offset'["server"] = crypto_recv_offset["server"]
  <2>1. Len(p.crypto) = 1 OBVIOUS
  <2> QED BY <1>1, <1>3, <1>6, <2>1 DEF TypeInv, TypeOK
<1>12. /\ keys'["client"]["Initial"] = "InitialKeys"
       /\ keys'["client"]["Handshake"] = "HandshakeKeys"
       /\ keys'["client"]["AppData"] = NoKeys
       /\ keys'["server"] = keys["server"]
  BY <1>1, <1>3, <1>7 DEF TypeInv, TypeOK
<1>13. ClientInv'
  BY <1>1, <1>4, <1>5, <1>6, <1>8, <1>9, <1>11, <1>12 DEF ClientInv
<1>14. ServerInv'
  <2>1. state'["server"] = state["server"] BY <1>1, <1>4
  <2> QED BY <1>8, <1>11, <1>12, <2>1 DEF HandshakeInv, ServerInv
<1>15. PendingInv'
  BY <1>4, <1>10 DEF HandshakeInv, PendingInv
<1>16. OrderInv'
  BY <1>4, <1>5, <1>8, <1>10 DEF HandshakeInv, OrderInv
<1> QED BY <1>4, <1>13, <1>14, <1>15, <1>16 DEF HandshakeInv

\* The server's flight at the client: TLS is done, the Finished is queued, the
\* 1-RTT keys are installed and the connection is established.
LEMMA HandshakeIngestSF ==
    ASSUME TypeInv, TypeInv', HandshakeInv, NEW p \in sent,
           NEW tickets \in Tickets, Ingest("client", p, tickets), InOrder("client", p),
           SpaceOf(p.form) = "Handshake", p.crypto = <<"SF">>, tls["client"] = "C_Secure"
    PROVE  HandshakeInv'
<1> DEFINE r == TlsRead(tls["client"], p.crypto, tickets)
<1>1. "client" \in Side /\ "server" \in Side
      /\ "Initial" \in SpaceId /\ "Handshake" \in SpaceId /\ "AppData" \in SpaceId
  BY DEF Side, SpaceId
<1>2. /\ r.tls = "C_Done" /\ r.out1 = <<"CF">> /\ r.keys1 = "OneRttKeys"
      /\ r.out2 = <<>> /\ r.keys2 = NoKeys
  BY DEF TlsRead, TlsStep
<1>3. /\ tls' = [tls EXCEPT !["client"] = r.tls]
      /\ keys' = [keys EXCEPT !["client"] = InstallKeys(keys["client"], "Handshake", r)]
      /\ pending_crypto' = [pending_crypto EXCEPT !["client"] =
                                QueueCrypto(pending_crypto["client"], "Handshake", r)]
      /\ crypto_recv_offset' = [crypto_recv_offset EXCEPT !["client"]["Handshake"] =
                                    crypto_recv_offset["client"]["Handshake"] + Len(p.crypto)]
  BY <1>1, <1>2 DEF Ingest, TypeInv, TypeOK
<1> HIDE DEF r
<1>4. /\ PacketInv' /\ sent' = sent
      /\ \A x \in Side : state[x] # "None" => state'[x] # "None"
      /\ \A x \in Side : x # "client" => state'[x] = state[x]
      /\ state'["client"] \in {state["client"], "Established", "Closed"}
  BY <1>1, IngestPackets
<1>5. state["client"] # "None" /\ tls["server"] # "None"
  BY <1>1, OpensFacts DEF Ingest, Peer
<1>6. /\ keys["client"]["Initial"] = "InitialKeys"
      /\ keys["client"]["Handshake"] = "HandshakeKeys"
      /\ keys["client"]["AppData"] = NoKeys
      /\ crypto_recv_offset["client"]["Initial"] = 1
      /\ crypto_recv_offset["client"]["Handshake"] = 0
      /\ state["client"] # "Handshaking"
  BY DEF HandshakeInv, ClientInv
<1>7. LET k == InstallKeys(keys["client"], "Handshake", r)
      IN  /\ k["Initial"] = "InitialKeys" /\ k["Handshake"] = "HandshakeKeys"
          /\ k["AppData"] = "OneRttKeys"
  BY <1>1, <1>2, <1>6 DEF InstallKeys, SetIfNone, NoKeys
<1>8. tls'["client"] = "C_Done" /\ tls'["server"] = tls["server"]
  BY <1>1, <1>2, <1>3 DEF TypeInv, TypeOK
<1>9. /\ pending_crypto'["client"]["Initial"] = pending_crypto["client"]["Initial"]
      /\ pending_crypto'["client"]["Handshake"] = <<"CF">>
      /\ pending_crypto'["client"]["AppData"] = pending_crypto["client"]["AppData"]
      /\ pending_crypto'["server"] = pending_crypto["server"]
  <2>1. pending_crypto["client"] \in [SpaceId -> Seq(Flight)]
    BY <1>1 DEF TypeInv, TypeOK
  <2>2. pending_crypto["client"]["Handshake"] = <<>>
    BY <1>1 DEF HandshakeInv, PendingInv, OrderInv, FlightsOf
  <2>3. <<"CF">> \in Seq(Flight)
    BY DEF Flight
  <2>4. LET q == QueueCrypto(pending_crypto["client"], "Handshake", r)
        IN  /\ q["Initial"] = pending_crypto["client"]["Initial"]
            /\ q["Handshake"] = <<"CF">>
            /\ q["AppData"] = pending_crypto["client"]["AppData"]
    BY <1>1, <1>2, <2>1, <2>2, <2>3, ConcatEmpty DEF QueueCrypto, NextSpace
  <2> QED BY <1>1, <1>3, <2>4 DEF TypeInv, TypeOK
<1>10. /\ crypto_recv_offset'["client"]["Initial"] = 1
       /\ crypto_recv_offset'["client"]["Handshake"] = 1
       /\ crypto_recv_offset'["server"] = crypto_recv_offset["server"]
  <2>1. Len(p.crypto) = 1 OBVIOUS
  <2> QED BY <1>1, <1>3, <1>6, <2>1 DEF TypeInv, TypeOK
<1>11. /\ keys'["client"]["Initial"] = "InitialKeys"
       /\ keys'["client"]["Handshake"] = "HandshakeKeys"
       /\ keys'["client"]["AppData"] = "OneRttKeys"
       /\ keys'["server"] = keys["server"]
  BY <1>1, <1>3, <1>7 DEF TypeInv, TypeOK
<1>12. ClientInv'
  BY <1>1, <1>4, <1>5, <1>6, <1>8, <1>10, <1>11 DEF ClientInv
<1>13. ServerInv'
  <2>1. state'["server"] = state["server"] BY <1>1, <1>4
  <2> QED BY <1>8, <1>10, <1>11, <2>1 DEF HandshakeInv, ServerInv
<1>14. PendingInv'
  <2>1. ASSUME NEW sp \in SpaceId
        PROVE  pending_crypto'["client"][sp] \in FlightsOf("client", sp)
    <3>1. CASE sp = "Handshake" BY <1>9, <3>1 DEF FlightsOf
    <3>2. CASE sp # "Handshake"
      BY <1>1, <1>9, <3>2 DEF HandshakeInv, PendingInv, SpaceId
    <3> QED BY <3>1, <3>2
  <2>2. state'["client"] # "None" BY <1>1, <1>4, <1>5
  <2>3. ASSUME NEW sp \in SpaceId
        PROVE  /\ pending_crypto'["server"][sp] \in FlightsOf("server", sp)
               /\ state'["server"] = "None" => pending_crypto'["server"][sp] = <<>>
    BY <1>1, <1>4, <1>9 DEF HandshakeInv, PendingInv
  <2> QED BY <2>1, <2>2, <2>3 DEF PendingInv, Side
<1>15. OrderInv'
  <2>1. pending_crypto["server"]["Handshake"] # <<"SF">>
    BY DEF HandshakeInv, OrderInv
  <2> QED BY <1>4, <1>5, <1>8, <1>9, <2>1 DEF HandshakeInv, OrderInv
<1> QED BY <1>4, <1>12, <1>13, <1>14, <1>15 DEF HandshakeInv

\* The client's Finished at the server: the handshake is complete, and tickets
\* may be queued behind a flight that has left.
LEMMA HandshakeIngestCF ==
    ASSUME TypeInv, TypeInv', HandshakeInv, NEW p \in sent,
           NEW tickets \in Tickets, Ingest("server", p, tickets), InOrder("server", p),
           SpaceOf(p.form) = "Handshake", p.crypto = <<"CF">>, tls["server"] = "S_Flight"
    PROVE  HandshakeInv'
<1> DEFINE r == TlsRead(tls["server"], p.crypto, tickets)
<1>1. "client" \in Side /\ "server" \in Side
      /\ "Initial" \in SpaceId /\ "Handshake" \in SpaceId /\ "AppData" \in SpaceId
  BY DEF Side, SpaceId
<1>2. /\ r.tls = "S_Done" /\ r.out1 = tickets /\ r.keys1 = NoKeys
      /\ r.out2 = <<>> /\ r.keys2 = NoKeys
  BY DEF TlsRead, TlsStep
<1>3. /\ tls' = [tls EXCEPT !["server"] = r.tls]
      /\ keys' = [keys EXCEPT !["server"] = InstallKeys(keys["server"], "Handshake", r)]
      /\ pending_crypto' = [pending_crypto EXCEPT !["server"] =
                                QueueCrypto(pending_crypto["server"], "Handshake", r)]
      /\ crypto_recv_offset' = [crypto_recv_offset EXCEPT !["server"]["Handshake"] =
                                    crypto_recv_offset["server"]["Handshake"] + Len(p.crypto)]
  BY <1>1, <1>2 DEF Ingest, TypeInv, TypeOK
<1> HIDE DEF r
<1>4. /\ PacketInv' /\ sent' = sent
      /\ \A x \in Side : state[x] # "None" => state'[x] # "None"
      /\ \A x \in Side : x # "server" => state'[x] = state[x]
  BY <1>1, IngestPackets
<1>5. state["server"] # "None"
  BY <1>1, OpensFacts DEF Ingest
<1>6. tls["client"] = "C_Done" /\ pending_crypto["server"]["Handshake"] = <<>>
  <2>1. tls["client"] = "C_Done"
    BY DEF HandshakeInv, OrderInv
  <2>2. pending_crypto["server"]["Handshake"] \notin {<<"SF">>, <<"NST">>}
    BY <2>1 DEF HandshakeInv, OrderInv
  <2> QED BY <1>1, <2>1, <2>2 DEF HandshakeInv, PendingInv, FlightsOf
<1>7. keys' = keys
  <2>1. keys["server"] \in [SpaceId -> Keys] BY <1>1 DEF TypeInv, TypeOK
  <2>2. InstallKeys(keys["server"], "Handshake", r) = keys["server"]
    BY <1>2, <2>1 DEF InstallKeys
  <2> QED BY <1>1, <1>3, <2>2 DEF TypeInv, TypeOK
<1>8. tls'["server"] = "S_Done" /\ tls'["client"] = "C_Done"
  BY <1>1, <1>2, <1>3, <1>6 DEF TypeInv, TypeOK
<1>9. /\ pending_crypto'["server"]["Initial"] = pending_crypto["server"]["Initial"]
      /\ pending_crypto'["server"]["Handshake"] = tickets
      /\ pending_crypto'["server"]["AppData"] = pending_crypto["server"]["AppData"]
      /\ pending_crypto'["client"] = pending_crypto["client"]
  <2>1. pending_crypto["server"] \in [SpaceId -> Seq(Flight)]
    BY <1>1 DEF TypeInv, TypeOK
  <2>2. tickets \in Seq(Flight)
    <3>1. <<>> \in Seq(Flight) /\ <<"NST">> \in Seq(Flight) BY DEF Flight
    <3> QED BY <3>1 DEF Tickets
  <2>3. LET q == QueueCrypto(pending_crypto["server"], "Handshake", r)
        IN  /\ q["Initial"] = pending_crypto["server"]["Initial"]
            /\ q["Handshake"] = tickets
            /\ q["AppData"] = pending_crypto["server"]["AppData"]
    BY <1>1, <1>2, <1>6, <2>1, <2>2, ConcatEmpty DEF QueueCrypto, NextSpace
  <2> QED BY <1>1, <1>3, <2>3 DEF TypeInv, TypeOK
<1>10. /\ crypto_recv_offset'["server"]["Initial"] = crypto_recv_offset["server"]["Initial"]
       /\ crypto_recv_offset'["server"]["Handshake"] = 1
       /\ crypto_recv_offset'["client"] = crypto_recv_offset["client"]
  <2>1. Len(p.crypto) = 1 OBVIOUS
  <2>2. crypto_recv_offset["server"]["Handshake"] = 0
    BY DEF HandshakeInv, ServerInv
  <2> QED BY <1>1, <1>3, <2>1, <2>2 DEF TypeInv, TypeOK
<1>11. ClientInv'
  <2>1. state'["client"] = state["client"] BY <1>1, <1>4
  <2> QED BY <1>6, <1>7, <1>8, <1>10, <2>1 DEF HandshakeInv, ClientInv
<1>12. ServerInv'
  <2>1. state'["server"] # "None" BY <1>1, <1>4, <1>5
  <2> QED BY <1>7, <1>8, <1>10, <2>1 DEF HandshakeInv, ServerInv
<1>13. PendingInv'
  <2>1. ASSUME NEW sp \in SpaceId
        PROVE  pending_crypto'["server"][sp] \in FlightsOf("server", sp)
    <3>1. CASE sp = "Handshake" BY <1>9, <3>1 DEF FlightsOf, Tickets
    <3>2. CASE sp # "Handshake"
      BY <1>1, <1>9, <3>2 DEF HandshakeInv, PendingInv, SpaceId
    <3> QED BY <3>1, <3>2
  <2>2. state'["server"] # "None" BY <1>1, <1>4, <1>5
  <2>3. ASSUME NEW sp \in SpaceId
        PROVE  /\ pending_crypto'["client"][sp] \in FlightsOf("client", sp)
               /\ state'["client"] = "None" => pending_crypto'["client"][sp] = <<>>
    BY <1>1, <1>4, <1>9 DEF HandshakeInv, PendingInv
  <2> QED BY <2>1, <2>2, <2>3 DEF PendingInv, Side
<1>14. OrderInv'
  <2>1. tickets # <<"SF">>
    BY FlightsDistinct DEF Tickets
  <2> QED BY <1>4, <1>8, <1>9, <2>1 DEF HandshakeInv, OrderInv
<1> QED BY <1>4, <1>11, <1>12, <1>13, <1>14 DEF HandshakeInv

\* ingest() in all cases.
LEMMA HandshakeIngest ==
    ASSUME TypeInv, TypeInv', HandshakeInv, NEW s \in Side, NEW p \in sent,
           NEW tickets \in Tickets, Ingest(s, p, tickets)
    PROVE  HandshakeInv'
<1>1. CASE ~InOrder(s, p)
  BY <1>1, HandshakeIngestOther
<1>2. CASE InOrder(s, p)
  <2>1. Open(s) /\ Decrypts(s, p)
    BY DEF Ingest
  <2> QED BY <1>2, <2>1, FedIsNextFlight, HandshakeIngestSH, HandshakeIngestSF,
             HandshakeIngestCF
<1> QED BY <1>1, <1>2

\* egest(): what leaves was queued, under a fresh number and the space's keys.
LEMMA HandshakeEgest ==
    ASSUME TypeInv, TypeInv', HandshakeInv, NEW s \in Side, NEW sp \in SpaceId, NEW room,
           Egest(s, sp, room)
    PROVE  HandshakeInv'
<1> DEFINE v == NextSendPn(TakePendingAcks(space[s][sp]))
<1>0. PICK p : p = Assemble(s, sp)
  OBVIOUS
<1>1. "client" \in Side /\ "server" \in Side
      /\ "Initial" \in SpaceId /\ "Handshake" \in SpaceId /\ "AppData" \in SpaceId
  BY DEF Side, SpaceId
<1>2. /\ pending_crypto' = [pending_crypto EXCEPT ![s][sp] = <<>>]
      /\ space' = [space EXCEPT ![s][sp] = v]
      /\ state' = [state EXCEPT ![s] = IF p.done THEN "Established" ELSE state[s]]
      /\ sent' = IF Units(p) <= room THEN sent \cup {p} ELSE sent
      /\ UNCHANGED <<tls, keys, crypto_recv_offset>>
      /\ state[s] # "None" /\ keys[s][sp] # NoKeys
  BY <1>0 DEF Egest, Open, Selected, TypeInv, TypeOK
<1>3. /\ p.from = s /\ SpaceOf(p.form) = sp /\ p.key = keys[s][sp]
      /\ p.pn = space[s][sp].next_send_pn /\ p.crypto = pending_crypto[s][sp]
      /\ p.crypto_off = 0 /\ p.done = SendsDone(s, sp)
  BY <1>0 DEF Assemble, FormFor, SpaceOf, SpaceId
<1>4. p.done => s = "server" /\ sp = "AppData"
  BY <1>3 DEF SendsDone
<1>5. /\ state'["client"] = state["client"]
      /\ \A x \in Side : state[x] # "None" <=> state'[x] # "None"
  BY <1>1, <1>2, <1>4 DEF TypeInv, TypeOK, Side
<1>6. \A x \in Side, q \in SpaceId : pending_crypto'[x][q] \in {<<>>, pending_crypto[x][q]}
  BY <1>2 DEF TypeInv, TypeOK
<1>7. ClientInv'
  BY <1>2, <1>5 DEF HandshakeInv, ClientInv
<1>8. ServerInv'
  BY <1>1, <1>2, <1>5 DEF HandshakeInv, ServerInv
<1>9. v.next_send_pn = space[s][sp].next_send_pn + 1 /\ space[s][sp].next_send_pn \in Nat
  BY DEF NextSendPn, TakePendingAcks, TypeInv, TypeOK, Space
<1> HIDE DEF v
<1>10. space'[s][sp].next_send_pn = space[s][sp].next_send_pn + 1
  BY <1>2, <1>9 DEF TypeInv, TypeOK
<1>11. PacketInv'
  <2>1. ASSUME NEW x \in Side, NEW q \in SpaceId
        PROVE  space[x][q].next_send_pn <= space'[x][q].next_send_pn
    <3>1. space[x][q].next_send_pn \in Nat
      BY DEF TypeInv, TypeOK, Space
    <3>2. CASE x = s /\ q = sp
      BY <1>10, <3>1, <3>2
    <3>3. CASE ~(x = s /\ q = sp)
      <4>1. space'[x][q] = space[x][q] BY <1>2, <3>3 DEF TypeInv, TypeOK
      <4> QED BY <3>1, <4>1
    <3> QED BY <3>2, <3>3
  <2>2. ASSUME NEW y \in sent PROVE PacketOK(y)'
    BY <1>5, <2>1, PacketStays DEF HandshakeInv
  <2>3. PacketOK(p)'
    <3>1. state'[s] # "None" BY <1>2, <1>5
    <3>2. keys[s][sp] = EpochOf(sp)
      <4>1. CASE s = "client"
        BY <1>2, <4>1 DEF HandshakeInv, ClientInv, EpochOf, SpaceId
      <4>2. CASE s = "server"
        BY <1>2, <4>2 DEF HandshakeInv, ServerInv
      <4> QED BY <4>1, <4>2 DEF Side
    <3>3. pending_crypto[s][sp] \in FlightsOf(s, sp)
      BY DEF HandshakeInv, PendingInv
    <3>4. p.pn < space'[s][sp].next_send_pn
      BY <1>3, <1>9, <1>10
    <3> QED BY <1>3, <1>4, <3>1, <3>2, <3>3, <3>4 DEF PacketOK
  <2> QED BY <1>2, <2>2, <2>3 DEF PacketInv
<1>12. PendingInv'
  <2>1. ASSUME NEW x \in Side, NEW q \in SpaceId
        PROVE  /\ pending_crypto'[x][q] \in FlightsOf(x, q)
               /\ state'[x] = "None" => pending_crypto'[x][q] = <<>>
    <3>1. <<>> \in FlightsOf(x, q) BY DEF FlightsOf
    <3> QED BY <1>5, <1>6, <3>1 DEF HandshakeInv, PendingInv
  <2> QED BY <2>1 DEF PendingInv
<1>13. OrderInv'
  <2>1. \A y \in sent' : y \in sent \/ y.crypto = pending_crypto[s][sp]
    BY <1>2, <1>3
  <2>2. ASSUME NEW f \in {<<"CF">>, <<"NST">>, <<"SF">>}, pending_crypto[s][sp] = f
        PROVE  sp = "Handshake" /\ s = IF f = <<"CF">> THEN "client" ELSE "server"
    BY <2>2, FlightsDistinct DEF HandshakeInv, PendingInv, FlightsOf, Side, SpaceId
  <2>3. \A y \in sent' : y.crypto = <<"CF">> => tls["client"] = "C_Done"
    BY <2>1, <2>2 DEF HandshakeInv, OrderInv
  <2>4. \A y \in sent' : y.crypto = <<"NST">> => tls["server"] = "S_Done"
    BY <2>1, <2>2, FlightsDistinct DEF HandshakeInv, OrderInv
  <2>5. pending_crypto'["server"]["Handshake"] = <<"SF">> =>
            pending_crypto["server"]["Handshake"] = <<"SF">> /\ ~(s = "server" /\ sp = "Handshake")
    <3>1. pending_crypto' = [pending_crypto EXCEPT ![s][sp] = <<>>] BY <1>2
    <3>2. "server" \in Side /\ "Handshake" \in SpaceId BY DEF Side, SpaceId
    <3>3. CASE s = "server" /\ sp = "Handshake"
      <4>1. pending_crypto'["server"]["Handshake"] = <<>>
        BY <3>1, <3>2, <3>3 DEF TypeInv, TypeOK
      <4> QED BY <4>1, FlightsDistinct
    <3>4. CASE ~(s = "server" /\ sp = "Handshake")
      <4>1. pending_crypto'["server"]["Handshake"] = pending_crypto["server"]["Handshake"]
        BY <3>1, <3>2, <3>4 DEF TypeInv, TypeOK
      <4> QED BY <3>4, <4>1
    <3> QED BY <3>3, <3>4
  <2>6. \A y \in sent' : y.crypto = <<"SF">> => pending_crypto'["server"]["Handshake"] # <<"SF">>
    BY <2>1, <2>2, <2>5, FlightsDistinct DEF HandshakeInv, OrderInv
  <2>7. tls["client"] = "C_Done" => pending_crypto'["server"]["Handshake"] # <<"SF">>
    BY <2>5 DEF HandshakeInv, OrderInv
  <2>8. pending_crypto'["client"]["Handshake"] = <<"CF">> => tls["client"] = "C_Done"
    BY <1>1, <1>6, FlightsDistinct DEF HandshakeInv, OrderInv
  <2>9. pending_crypto'["server"]["Handshake"] = <<"NST">> => tls["server"] = "S_Done"
    BY <1>1, <1>6, FlightsDistinct DEF HandshakeInv, OrderInv
  <2>10. /\ tls["client"] \in {"C_Secure", "C_Done"} => tls["server"] # "None"
         /\ tls["server"] = "S_Done" => tls["client"] = "C_Done"
    BY DEF HandshakeInv, OrderInv
  <2> QED BY <1>2, <2>3, <2>4, <2>6, <2>7, <2>8, <2>9, <2>10 DEF OrderInv
<1> QED BY <1>7, <1>8, <1>11, <1>12, <1>13 DEF HandshakeInv

\* The application's calls do not touch the handshake.
LEMMA HandshakeData ==
    ASSUME HandshakeInv, UNCHANGED <<conn_vars, sent>>
    PROVE  HandshakeInv'
<1>1. UNCHANGED <<state, tls, keys, space, pending_crypto, crypto_recv_offset, sent>>
  BY DEF conn_vars
<1>2. ClientInv' BY <1>1 DEF HandshakeInv, ClientInv
<1>3. ServerInv' BY <1>1 DEF HandshakeInv, ServerInv
<1>4. PacketInv' BY <1>1 DEF HandshakeInv, PacketInv, PacketOK
<1>5. PendingInv' BY <1>1 DEF HandshakeInv, PendingInv
<1>6. OrderInv' BY <1>1 DEF HandshakeInv, OrderInv
<1> QED BY <1>2, <1>3, <1>4, <1>5, <1>6 DEF HandshakeInv

\* A peer that closes seals its last packet like any other.
LEMMA HandshakePeerClose ==
    ASSUME TypeInv, TypeInv', HandshakeInv, NEW s \in Side, NEW sp \in SpaceId, NEW code,
           PeerClose(s, sp, code)
    PROVE  HandshakeInv'
<1> DEFINE v == NextSendPn(space[s][sp])
<1>0. PICK c : c = [ from |-> s, form |-> FormFor(s, sp), key |-> keys[s][sp],
                     pn |-> space[s][sp].next_send_pn, crypto |-> <<>>, crypto_off |-> 0,
                     ack |-> {}, done |-> FALSE, stream |-> <<>>, stream_off |-> 0,
                     close |-> code ]
  OBVIOUS
<1>1. "client" \in Side /\ "server" \in Side
      /\ "Initial" \in SpaceId /\ "Handshake" \in SpaceId /\ "AppData" \in SpaceId
  BY DEF Side, SpaceId
<1>2. /\ sent' = sent \cup {c}
      /\ space' = [space EXCEPT ![s][sp] = v]
      /\ state' = [state EXCEPT ![s] = "Closed"]
      /\ UNCHANGED <<tls, keys, pending_crypto, crypto_recv_offset>>
      /\ state[s] # "None" /\ keys[s][sp] # NoKeys
  BY <1>0 DEF PeerClose, Open, TypeInv, TypeOK
<1>3. /\ c.from = s /\ SpaceOf(c.form) = sp /\ c.key = keys[s][sp]
      /\ c.pn = space[s][sp].next_send_pn /\ c.crypto = <<>>
      /\ c.crypto_off = 0 /\ c.done = FALSE
  BY <1>0 DEF FormFor, SpaceOf, SpaceId
<1>4. \A x \in Side : state'[x] = state[x] \/ (state'[x] = "Closed" /\ state[x] # "None")
  BY <1>2 DEF TypeInv, TypeOK
<1>5. ClientInv'
  BY <1>1, <1>2, <1>4 DEF HandshakeInv, ClientInv
<1>6. ServerInv'
  BY <1>1, <1>2, <1>4 DEF HandshakeInv, ServerInv
<1>7. v.next_send_pn = space[s][sp].next_send_pn + 1 /\ space[s][sp].next_send_pn \in Nat
  BY DEF NextSendPn, TypeInv, TypeOK, Space
<1> HIDE DEF v
<1>8. space'[s][sp].next_send_pn = space[s][sp].next_send_pn + 1
  BY <1>2, <1>7 DEF TypeInv, TypeOK
<1>9. PacketInv'
  <2>1. ASSUME NEW x \in Side, NEW q \in SpaceId
        PROVE  space[x][q].next_send_pn <= space'[x][q].next_send_pn
    <3>1. space[x][q].next_send_pn \in Nat
      BY DEF TypeInv, TypeOK, Space
    <3>2. CASE x = s /\ q = sp
      BY <1>8, <3>1, <3>2
    <3>3. CASE ~(x = s /\ q = sp)
      <4>1. space'[x][q] = space[x][q] BY <1>2, <3>3 DEF TypeInv, TypeOK
      <4> QED BY <3>1, <4>1
    <3> QED BY <3>2, <3>3
  <2>2. ASSUME NEW y \in sent PROVE PacketOK(y)'
    BY <1>4, <2>1, PacketStays DEF HandshakeInv
  <2>3. PacketOK(c)'
    <3>1. state'[s] # "None" BY <1>2, <1>4
    <3>2. keys[s][sp] = EpochOf(sp)
      <4>1. CASE s = "client"
        BY <1>2, <4>1 DEF HandshakeInv, ClientInv, EpochOf, SpaceId
      <4>2. CASE s = "server"
        BY <1>2, <4>2 DEF HandshakeInv, ServerInv
      <4> QED BY <4>1, <4>2 DEF Side
    <3>3. <<>> \in FlightsOf(s, sp)
      BY DEF FlightsOf
    <3>4. c.pn < space'[s][sp].next_send_pn
      BY <1>3, <1>7, <1>8
    <3> QED BY <1>3, <3>1, <3>2, <3>3, <3>4 DEF PacketOK
  <2> QED BY <1>2, <2>2, <2>3 DEF PacketInv
<1>10. PendingInv'
  BY <1>2, <1>4 DEF HandshakeInv, PendingInv
<1>11. OrderInv'
  <2>1. \A y \in sent' : y \in sent \/ y.crypto = <<>>
    BY <1>2, <1>3
  <2> QED BY <1>2, <2>1, FlightsDistinct DEF HandshakeInv, OrderInv
<1> QED BY <1>5, <1>6, <1>9, <1>10, <1>11 DEF HandshakeInv

\* The invariant is inductive, together with the types.
LEMMA HandshakeNext == TypeInv /\ TypeInv' /\ HandshakeInv /\ [Next]_vars => HandshakeInv'
<1> SUFFICES ASSUME TypeInv, TypeInv', HandshakeInv, [Next]_vars PROVE HandshakeInv'
  OBVIOUS
<1>1. CASE UNCHANGED vars
  BY <1>1, HandshakeData DEF vars, conn_vars
<1>2. ASSUME NEW s \in Side, SendData(s) PROVE HandshakeInv'
  BY <1>2, HandshakeData DEF SendData
<1>3. ASSUME NEW s \in Side, NEW n \in 1..MaxRecv, RecvData(s, n) PROVE HandshakeInv'
  BY <1>3, HandshakeData DEF RecvData
<1>4. CASE Next
  BY <1>2, <1>3, <1>4, HandshakeConnect, HandshakeAccept, HandshakeIngest, HandshakeEgest,
     HandshakePeerClose DEF Next
<1> QED BY <1>1, <1>4

\* The invariant holds in every reachable state.
THEOREM HandshakeInvariant == Spec => [](TypeInv /\ HandshakeInv)
<1>1. Init => TypeInv /\ HandshakeInv
  BY TypeInvInit, HandshakeInit
<1>2. TypeInv /\ HandshakeInv /\ [Next]_vars => (TypeInv /\ HandshakeInv)'
  BY TypeInvNext, HandshakeNext
<1> QED BY <1>1, <1>2, PTL DEF Spec
=============================================================================
