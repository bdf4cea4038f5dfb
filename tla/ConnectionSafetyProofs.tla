------------------------ MODULE ConnectionSafetyProofs ------------------------
(***************************************************************************)
(* What follows from the inductive invariant of the handshake: the safety  *)
(* properties that the runs check on small instances, the refinement of    *)
(* KeyAgreement, and what the two connections tell each other once they    *)
(* have keys (acknowledgements, stream data), for every number of packets, *)
(* every buffer size and every schedule of the network.                    *)
(***************************************************************************)
EXTENDS ConnectionProofs, ConnectionAgreement

\* Types and the handshake invariant, the ground of everything below.
Inv == TypeInv /\ HandshakeInv

\* The names of the sides and spaces, as members of their sets.
LEMMA Names ==
    /\ "client" \in Side /\ "server" \in Side
    /\ "Initial" \in SpaceId /\ "Handshake" \in SpaceId /\ "AppData" \in SpaceId
  BY DEF Side, SpaceId

\* TLS is never fed anything but its next flight: the offset check of
\* process_frames protects it from every reordering and duplication.
THEOREM TlsTheorem == Spec => []TlsNeverFails
<1>1. Inv => TlsNeverFails
  BY DEF Inv, HandshakeInv, ClientInv, ServerInv, TlsNeverFails, Side
<1> QED BY <1>1, HandshakeInvariant, PTL DEF Inv

\* Each space holds the keys of its own epoch or none.
THEOREM EpochTheorem == Spec => []EpochOfSpace
<1>1. Inv => EpochOfSpace
  <2> SUFFICES ASSUME Inv, NEW s \in Side
               PROVE  /\ keys[s]["Initial"] \in {NoKeys, "InitialKeys"}
                      /\ keys[s]["Handshake"] \in {NoKeys, "HandshakeKeys"}
                      /\ keys[s]["AppData"] \in {NoKeys, "OneRttKeys"}
    BY DEF EpochOfSpace
  <2>1. CASE s = "client" BY <2>1 DEF Inv, HandshakeInv, ClientInv
  <2>2. CASE s = "server" BY <2>2, Names DEF Inv, HandshakeInv, ServerInv, EpochOf
  <2> QED BY <2>1, <2>2 DEF Side
<1> QED BY <1>1, HandshakeInvariant, PTL DEF Inv

\* An established connection has its 1-RTT keys.
THEOREM EstablishedTheorem == Spec => []EstablishedHasKeys
<1>1. Inv => EstablishedHasKeys
  <2> SUFFICES ASSUME Inv, NEW s \in Side, state[s] = "Established"
               PROVE  keys[s]["AppData"] = "OneRttKeys"
    BY DEF EstablishedHasKeys
  <2>1. CASE s = "client" BY <2>1 DEF Inv, HandshakeInv, ClientInv
  <2>2. CASE s = "server" BY <2>2, Names DEF Inv, HandshakeInv, ServerInv, EpochOf
  <2> QED BY <2>1, <2>2 DEF Side
<1> QED BY <1>1, HandshakeInvariant, PTL DEF Inv

\* The two sides never disagree about the handshake.
THEOREM AgreementTheorem == Spec => []HandshakeAgreement
<1>1. Inv => HandshakeAgreement
  <2> SUFFICES ASSUME Inv PROVE HandshakeAgreement
    OBVIOUS
  <2>1. ASSUME NEW sp \in SpaceId \ {"Initial"}, keys["client"][sp] # NoKeys
        PROVE  keys["server"][sp] = keys["client"][sp]
    <3>1. tls["client"] \in {"C_Secure", "C_Done"}
      BY <2>1 DEF Inv, HandshakeInv, ClientInv, SpaceId
    <3>2. keys["client"][sp] = EpochOf(sp)
      BY <2>1, <3>1 DEF Inv, HandshakeInv, ClientInv, SpaceId, EpochOf
    <3>3. tls["server"] # "None"
      BY <3>1 DEF Inv, HandshakeInv, OrderInv
    <3> QED BY <3>2, <3>3 DEF Inv, HandshakeInv, ServerInv
  <2>2. tls["server"] = "S_Done" =>
            tls["client"] = "C_Done" /\ keys["client"]["AppData"] = "OneRttKeys"
    BY DEF Inv, HandshakeInv, OrderInv, ClientInv
  <2> QED BY <2>1, <2>2 DEF HandshakeAgreement
<1> QED BY <1>1, HandshakeInvariant, PTL DEF Inv

\* A frame carries one flight at most.
THEOREM OneFlightTheorem == Spec => []OneFlightPerFrame
<1>1. ASSUME NEW s \in Side, NEW sp \in SpaceId, NEW f \in FlightsOf(s, sp)
      PROVE  Len(f) <= 1
  <2>1. f \in {<<>>, <<"CH">>, <<"SH">>, <<"SF">>, <<"CF">>, <<"NST">>}
    BY DEF FlightsOf
  <2>2. /\ Len(<<>>) = 0 /\ Len(<<"CH">>) = 1 /\ Len(<<"SH">>) = 1
        /\ Len(<<"SF">>) = 1 /\ Len(<<"CF">>) = 1 /\ Len(<<"NST">>) = 1
    OBVIOUS
  <2>3. 0 <= 1 /\ 1 <= 1
    OBVIOUS
  <2> QED BY <2>1, <2>2, <2>3, Zenon
<1>2. Inv => OneFlightPerFrame
  <2> SUFFICES ASSUME Inv PROVE OneFlightPerFrame
    OBVIOUS
  <2>1. \A s \in Side, sp \in SpaceId : Len(pending_crypto[s][sp]) <= 1
    BY <1>1 DEF Inv, HandshakeInv, PendingInv
  <2>2. ASSUME NEW p \in sent PROVE Len(p.crypto) <= 1
    <3>1. PacketOK(p) /\ p.from \in Side /\ SpaceOf(p.form) \in SpaceId
      BY DEF Inv, HandshakeInv, PacketInv, TypeInv, TypeOK, Packet, SpaceOf, SpaceId, Form
    <3> QED BY <1>1, <3>1 DEF PacketOK
  <2> QED BY <2>1, <2>2 DEF OneFlightPerFrame
<1> QED BY <1>2, HandshakeInvariant, PTL DEF Inv

-----------------------------------------------------------------------------
\* The packets a step adds to the network: at most one, sealed by its sender
\* under the number its counter held.
LEMMA NewPacket ==
    ASSUME Inv, Next
    PROVE  \/ sent' = sent
           \/ \E p : /\ sent' = sent \cup {p}
                     /\ p.from \in Side /\ SpaceOf(p.form) \in SpaceId
                     /\ p.key = EpochOf(SpaceOf(p.form))
                     /\ p.pn = space[p.from][SpaceOf(p.form)].next_send_pn
                        \/ state[p.from] = "None"
<1>1. CASE Connect
  <2>1. sent' = sent \cup {InitialPacket} /\ state["client"] = "None"
    BY <1>1 DEF Connect
  <2>2. /\ InitialPacket.from = "client" /\ SpaceOf(InitialPacket.form) = "Initial"
        /\ InitialPacket.key = "InitialKeys"
    BY DEF InitialPacket, SpaceOf
  <2> QED BY <2>1, <2>2, Names DEF EpochOf
<1>2. CASE \E p \in sent : Accept(p)
  BY <1>2 DEF Accept
<1>3. CASE \E s \in Side, p \in sent, t \in Tickets : Ingest(s, p, t)
  BY <1>3 DEF Ingest
<1>4. ASSUME NEW s \in Side, NEW sp \in SpaceId, keys[s][sp] # NoKeys
      PROVE  keys[s][sp] = EpochOf(sp)
  <2>1. CASE s = "client"
    BY <1>4, <2>1 DEF Inv, HandshakeInv, ClientInv, EpochOf, SpaceId
  <2>2. CASE s = "server"
    BY <1>4, <2>2 DEF Inv, HandshakeInv, ServerInv
  <2> QED BY <2>1, <2>2 DEF Side
<1>5. ASSUME NEW s \in Side, NEW sp \in SpaceId, NEW room \in Rooms, Egest(s, sp, room)
      PROVE  \/ sent' = sent
             \/ \E p : /\ sent' = sent \cup {p}
                       /\ p.from = s /\ SpaceOf(p.form) = sp
                       /\ p.key = EpochOf(sp)
                       /\ p.pn = space[s][sp].next_send_pn
  <2>1. PICK p : p = Assemble(s, sp)
    OBVIOUS
  <2>2. sent' = sent \/ sent' = sent \cup {p}
    BY <1>5, <2>1 DEF Egest
  <2>3. p.from = s /\ SpaceOf(p.form) = sp /\ p.key = keys[s][sp]
        /\ p.pn = space[s][sp].next_send_pn
    BY <2>1 DEF Assemble, FormFor, SpaceOf, SpaceId
  <2>4. keys[s][sp] = EpochOf(sp)
    BY <1>4, <1>5 DEF Egest, Selected
  <2> QED BY <2>2, <2>3, <2>4
<1>6. ASSUME NEW s \in Side, NEW sp \in SpaceId, NEW code \in {"Known", "Unknown"},
             PeerClose(s, sp, code)
      PROVE  \E p : /\ sent' = sent \cup {p}
                    /\ p.from = s /\ SpaceOf(p.form) = sp
                    /\ p.key = EpochOf(sp)
                    /\ p.pn = space[s][sp].next_send_pn
  <2>1. PICK c : c = [ from |-> s, form |-> FormFor(s, sp), key |-> keys[s][sp],
                       pn |-> space[s][sp].next_send_pn, crypto |-> <<>>, crypto_off |-> 0,
                       ack |-> {}, done |-> FALSE, stream |-> <<>>, stream_off |-> 0,
                       close |-> code ]
    OBVIOUS
  <2>2. sent' = sent \cup {c} /\ keys[s][sp] # NoKeys
    BY <1>6, <2>1 DEF PeerClose
  <2>3. c.from = s /\ SpaceOf(c.form) = sp /\ c.key = keys[s][sp]
        /\ c.pn = space[s][sp].next_send_pn
    BY <2>1 DEF FormFor, SpaceOf, SpaceId
  <2> QED BY <1>4, <2>2, <2>3
<1>7. CASE \E s \in Side : SendData(s)
  BY <1>7 DEF SendData
<1>8. CASE \E s \in Side, n \in 1..MaxRecv : RecvData(s, n)
  BY <1>8 DEF RecvData
<1> QED BY <1>1, <1>2, <1>3, <1>5, <1>6, <1>7, <1>8 DEF Next

\* No nonce is used twice: packets sealed by one side with the same keys and
\* number are the same packet, for any number of packets sent or dropped.
THEOREM NonceTheorem == Spec => []NonceUnique
<1>1. Init => NonceUnique
  BY DEF Init, NonceUnique
<1>2. Inv /\ NonceUnique /\ [Next]_vars => NonceUnique'
  <2> SUFFICES ASSUME Inv, NonceUnique, [Next]_vars PROVE NonceUnique'
    OBVIOUS
  <2>1. CASE sent' = sent
    BY <2>1 DEF NonceUnique
  <2>2. CASE sent' # sent
    <3>1. Next BY <2>2 DEF vars
    <3>2. PICK p : /\ sent' = sent \cup {p}
                   /\ p.from \in Side /\ SpaceOf(p.form) \in SpaceId
                   /\ p.key = EpochOf(SpaceOf(p.form))
                   /\ p.pn = space[p.from][SpaceOf(p.form)].next_send_pn
                      \/ state[p.from] = "None"
      BY <2>2, <3>1, NewPacket
    <3>3. ASSUME NEW q \in sent, q.from = p.from, q.key = p.key, q.pn = p.pn
          PROVE  FALSE
      <4>1. PacketOK(q) /\ q \in Packet
        BY DEF Inv, HandshakeInv, PacketInv, TypeInv, TypeOK
      <4>2. SpaceOf(q.form) \in SpaceId /\ q.pn \in Nat
        BY <4>1 DEF Packet, SpaceOf, SpaceId, Form
      <4>3. SpaceOf(q.form) = SpaceOf(p.form)
        BY <3>2, <3>3, <4>1, <4>2 DEF PacketOK, EpochOf, SpaceId
      <4>4. q.pn < space[p.from][SpaceOf(p.form)].next_send_pn /\ state[p.from] # "None"
        BY <3>3, <4>1, <4>3 DEF PacketOK
      <4>5. space[p.from][SpaceOf(p.form)].next_send_pn \in Nat
        BY <3>2 DEF Inv, TypeInv, TypeOK, Space
      <4> QED BY <3>2, <3>3, <4>2, <4>4, <4>5
    <3> QED BY <3>2, <3>3 DEF NonceUnique
  <2> QED BY <2>1, <2>2
<1> QED BY <1>1, <1>2, HandshakeInvariant, PTL DEF Spec, Inv

-----------------------------------------------------------------------------
\* handle_crypto_output never takes keys away.
LEMMA InstallKeysKeeps ==
    ASSUME NEW k \in [SpaceId -> Keys], NEW sp \in SpaceId, NEW r, NEW x \in SpaceId,
           k[x] # NoKeys
    PROVE  InstallKeys(k, sp, r)[x] # NoKeys
  BY DEF InstallKeys, SetIfNone

\* The keys of a space, once there, stay there.
LEMMA KeysKept ==
    ASSUME Inv, Next, NEW s \in Side, NEW sp \in SpaceId, keys[s][sp] # NoKeys
    PROVE  keys'[s][sp] # NoKeys
<1>1. keys \in [Side -> [SpaceId -> Keys]]
  BY DEF Inv, TypeInv, TypeOK
<1>2. CASE keys' = keys
  BY <1>2
<1>3. CASE Connect
  <2>1. keys' = [keys EXCEPT !["client"]["Initial"] = "InitialKeys"]
    BY <1>3 DEF Connect
  <2> QED BY <1>1, <2>1 DEF NoKeys
<1>4. ASSUME NEW p \in sent, Accept(p) PROVE keys'[s][sp] # NoKeys
  <2>1. CASE s = "client"
    BY <1>4, <2>1, AcceptFacts DEF Inv
  <2>2. CASE s = "server"
    BY <1>4, <2>2, AcceptFacts DEF Inv, EpochOf, NoKeys
  <2> QED BY <2>1, <2>2 DEF Side
<1>5. ASSUME NEW x \in Side, NEW p \in sent, NEW t \in Tickets, Ingest(x, p, t)
      PROVE  keys'[s][sp] # NoKeys
  <2>1. PICK k : /\ keys' = [keys EXCEPT ![x] = k]
                 /\ \/ k = keys[x]
                    \/ k = InstallKeys(keys[x], SpaceOf(p.form), TlsRead(tls[x], p.crypto, t))
    BY <1>5 DEF Ingest
  <2>2. SpaceOf(p.form) \in SpaceId
    BY DEF SpaceOf, SpaceId
  <2>3. CASE x # s
    BY <1>1, <2>1, <2>3
  <2>4. CASE x = s
    <3>1. k[sp] # NoKeys
      BY <1>1, <2>1, <2>2, <2>4, InstallKeysKeeps
    <3> QED BY <1>1, <2>1, <2>4, <3>1
  <2> QED BY <2>3, <2>4
<1>6. CASE \E x \in Side, q \in SpaceId, room \in Rooms : Egest(x, q, room)
  BY <1>2, <1>6 DEF Egest
<1>7. CASE \E x \in Side : SendData(x)
  BY <1>2, <1>7 DEF SendData, conn_vars
<1>8. CASE \E x \in Side, n \in 1..MaxRecv : RecvData(x, n)
  BY <1>2, <1>8 DEF RecvData, conn_vars
<1>9. CASE \E x \in Side, q \in SpaceId, code \in {"Known", "Unknown"} : PeerClose(x, q, code)
  BY <1>2, <1>9 DEF PeerClose
<1> QED BY <1>3, <1>4, <1>5, <1>6, <1>7, <1>8, <1>9 DEF Next

\* Keys are never replaced either: a space has one epoch.
THEOREM KeysTheorem == Spec => KeysNeverReplaced
<1>1. ASSUME Inv, Inv', Next, NEW s \in Side, NEW sp \in SpaceId, keys[s][sp] # NoKeys
      PROVE  keys'[s][sp] = keys[s][sp]
  <2>1. keys'[s][sp] # NoKeys
    BY <1>1, KeysKept
  <2>2. CASE s = "client"
    <3>1. keys[s][sp] = EpochOf(sp)
      BY <1>1, <2>2 DEF Inv, HandshakeInv, ClientInv, EpochOf, SpaceId
    <3>2. keys'[s][sp] = EpochOf(sp)
      BY <1>1, <2>1, <2>2 DEF Inv, HandshakeInv, ClientInv, EpochOf, SpaceId
    <3> QED BY <3>1, <3>2
  <2>3. CASE s = "server"
    <3>1. keys[s][sp] = EpochOf(sp)
      BY <1>1, <2>3 DEF Inv, HandshakeInv, ServerInv
    <3>2. keys'[s][sp] = EpochOf(sp)
      BY <1>1, <2>1, <2>3 DEF Inv, HandshakeInv, ServerInv
    <3> QED BY <3>1, <3>2
  <2> QED BY <2>2, <2>3 DEF Side
<1>2. Inv /\ Inv' /\ [Next]_vars =>
          [\A s \in Side, sp \in SpaceId :
               keys[s][sp] # NoKeys => keys'[s][sp] = keys[s][sp]]_vars
  BY <1>1
<1> QED BY <1>2, HandshakeInvariant, PTL DEF Spec, Inv, KeysNeverReplaced

-----------------------------------------------------------------------------
(* The two connections implement KeyAgreement. By the handshake invariant  *)
(* the keys of both sides are a function of how far their TLS sessions     *)
(* are, so it is enough to know how a step moves the TLS sessions and the  *)
(* states; there are eight such moves, one of which is none.               *)

\* The epochs each side holds, by the progress of its TLS session.
ClientHolds(t) ==
    IF t = "None" THEN {}
    ELSE IF t = "C_Hello" THEN {"InitialKeys"}
    ELSE IF t = "C_Secure" THEN {"InitialKeys", "HandshakeKeys"}
    ELSE {"InitialKeys", "HandshakeKeys", "OneRttKeys"}

ServerHolds(t) ==
    IF t = "None" THEN {} ELSE {"InitialKeys", "HandshakeKeys", "OneRttKeys"}

HoldsByTls ==
    Holds = [s \in Side |-> IF s = "client" THEN ClientHolds(tls["client"])
                            ELSE ServerHolds(tls["server"])]

\* The moves of the TLS sessions and states of both sides.
MoveConnect ==
    /\ tls["client"] = "None" /\ state["client"] = "None"
    /\ tls' = [tls EXCEPT !["client"] = "C_Hello"]
    /\ state' = [state EXCEPT !["client"] = "Connecting"]

MoveAccept ==
    /\ tls["server"] = "None" /\ state["server"] = "None" /\ state["client"] # "None"
    /\ tls' = [tls EXCEPT !["server"] = "S_Flight"]
    /\ state' = [state EXCEPT !["server"] = "Handshaking"]

MoveSecure ==
    /\ tls["client"] = "C_Hello" /\ state["client"] = "Connecting" /\ tls["server"] # "None"
    /\ tls' = [tls EXCEPT !["client"] = "C_Secure"]
    /\ state' = state

MoveDone ==
    /\ tls["client"] = "C_Secure" /\ state["client"] = "Connecting" /\ tls["server"] # "None"
    /\ tls' = [tls EXCEPT !["client"] = "C_Done"]
    /\ state' = [state EXCEPT !["client"] = "Established"]

MoveConfirm ==
    /\ tls["server"] = "S_Flight" /\ tls["client"] = "C_Done" /\ Open("server")
    /\ tls' = [tls EXCEPT !["server"] = "S_Done"]
    /\ state' = state

MoveReady ==
    /\ state["server"] = "Handshaking"
    /\ tls' = tls
    /\ state' = [state EXCEPT !["server"] = "Established"]

MoveClose(s) ==
    /\ Open(s)
    /\ tls' = tls
    /\ state' = [state EXCEPT ![s] = "Closed"]

Move ==
    \/ UNCHANGED <<tls, state>>
    \/ MoveConnect \/ MoveAccept \/ MoveSecure \/ MoveDone \/ MoveConfirm \/ MoveReady
    \/ \E s \in Side : MoveClose(s)

-----------------------------------------------------------------------------
\* The keys of a side are the first epochs, up to where its TLS session is.
LEMMA KeysByTls == Inv => HoldsByTls
<1> SUFFICES ASSUME Inv PROVE HoldsByTls
  OBVIOUS
<1>1. \A s \in Side : {keys[s][sp] : sp \in SpaceId} =
          {keys[s]["Initial"], keys[s]["Handshake"], keys[s]["AppData"]}
  BY DEF SpaceId
<1>2. {keys["client"]["Initial"], keys["client"]["Handshake"], keys["client"]["AppData"]} \ {NoKeys}
          = ClientHolds(tls["client"])
  <2>1. ClientInv
    BY DEF Inv, HandshakeInv
  <2> QED BY <2>1 DEF ClientInv, ClientHolds, NoKeys
<1>3. {keys["server"]["Initial"], keys["server"]["Handshake"], keys["server"]["AppData"]} \ {NoKeys}
          = ServerHolds(tls["server"])
  <2>1. ServerInv
    BY DEF Inv, HandshakeInv
  <2> QED BY <2>1, Names DEF ServerInv, ServerHolds, NoKeys, EpochOf
<1> QED BY <1>1, <1>2, <1>3, Names DEF HoldsByTls, Holds, Side

-----------------------------------------------------------------------------
\* A client that can still learn something is connecting.
LEMMA ClientConnecting ==
    ASSUME Inv, Open("client"), tls["client"] \in {"C_Hello", "C_Secure"}
    PROVE  state["client"] = "Connecting"
<1>1. state["client"] \in State
  BY Names DEF Inv, TypeInv, TypeOK
<1> QED BY <1>1 DEF Inv, HandshakeInv, ClientInv, Open, State

\* ingest() of a packet without the flight TLS waits for closes or does nothing
\* to the state: a client that can open HANDSHAKE_DONE is established already.
LEMMA IngestOther ==
    ASSUME Inv, AgreementInv, NEW s \in Side, NEW p \in sent, NEW t \in Tickets,
           Ingest(s, p, t), ~InOrder(s, p)
    PROVE  UNCHANGED <<tls, state>> \/ MoveClose(s)
<1>1. tls' = tls /\ Open(s)
  BY DEF Ingest, Inv, TypeInv, TypeOK
<1>2. state' = [state EXCEPT ![s] = StateAfter(s, p, keys[s])]
  BY DEF Ingest
<1>3. PacketOK(p) /\ keys[s][SpaceOf(p.form)] # NoKeys
  BY OpensFacts DEF Ingest, Inv
<1>4. CASE p.close # "none"
  BY <1>1, <1>2, <1>4 DEF StateAfter, MoveClose
<1>5. CASE p.close = "none" /\ p.done /\ s = "client"
  <2>1. keys["client"]["AppData"] # NoKeys
    BY <1>3, <1>5 DEF PacketOK
  <2>2. tls["client"] = "C_Done"
    BY <2>1 DEF Inv, HandshakeInv, ClientInv
  <2>3. state["client"] = "Established"
    BY <1>1, <1>5, <2>2 DEF AgreementInv, Open
  <2>4. state' = state
    BY <1>2, <1>5, <2>3 DEF StateAfter, Inv, TypeInv, TypeOK
  <2> QED BY <1>1, <2>4
<1>6. CASE p.close = "none" /\ ~(p.done /\ s = "client")
  <2>1. StateAfter(s, p, keys[s]) = state[s]
    BY <1>6 DEF StateAfter
  <2> QED BY <1>1, <1>2, <2>1 DEF Inv, TypeInv, TypeOK
<1> QED BY <1>4, <1>5, <1>6

\* ingest() of a flight: the three flights that move a TLS session.
LEMMA IngestFlight ==
    ASSUME Inv, AgreementInv, NEW s \in Side, NEW p \in sent, NEW t \in Tickets,
           Ingest(s, p, t), InOrder(s, p)
    PROVE  MoveSecure \/ MoveDone \/ MoveConfirm
<1> DEFINE r == TlsRead(tls[s], p.crypto, t)
           sp == SpaceOf(p.form)
           k == InstallKeys(keys[s], sp, r)
<1>1. p.close = "none" /\ Open(s) /\ Decrypts(s, p)
  BY DEF Ingest, InOrder, AgreementInv
<1>2. PacketOK(p) /\ tls[Peer(s)] # "None"
  BY <1>1, OpensFacts DEF Inv
<1>3. r.tls # "Failed" =>
          /\ tls' = [tls EXCEPT ![s] = r.tls]
          /\ state' = [state EXCEPT ![s] = StateAfter(s, p, k)]
  BY DEF Ingest
<1>4. CASE s = "client" /\ sp = "Initial" /\ p.crypto = <<"SH">> /\ tls[s] = "C_Hello"
  <2>1. r.tls = "C_Secure" /\ r.keys2 = NoKeys /\ r.keys1 = "HandshakeKeys"
    BY <1>4 DEF TlsRead, TlsStep
  <2>2. ~p.done
    BY <1>2, <1>4 DEF PacketOK
  <2>3. keys["client"]["AppData"] = NoKeys
    BY <1>4 DEF Inv, HandshakeInv, ClientInv
  <2>4. k["AppData"] = NoKeys
    <3> HIDE DEF r
    <3> QED BY <1>4, <2>1, <2>3, Names DEF InstallKeys, SetIfNone, NoKeys
  <2> HIDE DEF r, k
  <2>5. state' = state
    BY <1>1, <1>3, <1>4, <2>1, <2>2, <2>3, <2>4 DEF StateAfter, Inv, TypeInv, TypeOK
  <2>6. state["client"] = "Connecting"
    BY <1>1, <1>4, ClientConnecting
  <2> QED BY <1>2, <1>3, <1>4, <2>1, <2>5, <2>6 DEF MoveSecure, Peer
<1>5. CASE s = "client" /\ sp = "Handshake" /\ p.crypto = <<"SF">> /\ tls[s] = "C_Secure"
  <2>1. r.tls = "C_Done" /\ r.keys2 = NoKeys /\ r.keys1 = "OneRttKeys"
    BY <1>5, FlightsDistinct DEF TlsRead, TlsStep
  <2>2. keys["client"]["AppData"] = NoKeys
    BY <1>5 DEF Inv, HandshakeInv, ClientInv
  <2>3. k["AppData"] # NoKeys
    <3> HIDE DEF r
    <3> QED BY <1>5, <2>1, <2>2, Names DEF InstallKeys, SetIfNone, NoKeys
  <2> HIDE DEF r, k
  <2>4. state' = [state EXCEPT !["client"] = "Established"]
    BY <1>1, <1>3, <1>5, <2>1, <2>2, <2>3 DEF StateAfter
  <2>5. state["client"] = "Connecting"
    BY <1>1, <1>5, ClientConnecting
  <2> QED BY <1>2, <1>3, <1>5, <2>1, <2>4, <2>5 DEF MoveDone, Peer
<1>6. CASE s = "server" /\ sp = "Handshake" /\ p.crypto = <<"CF">> /\ tls[s] = "S_Flight"
  <2>1. r.tls = "S_Done"
    BY <1>6, FlightsDistinct DEF TlsRead, TlsStep
  <2>2. keys["server"]["AppData"] # NoKeys
    BY <1>6, Names DEF Inv, HandshakeInv, ServerInv, EpochOf, NoKeys
  <2> HIDE DEF r, k
  <2>3. state' = state
    BY <1>1, <1>3, <1>6, <2>1, <2>2 DEF StateAfter, Inv, TypeInv, TypeOK
  <2>4. tls["client"] = "C_Done"
    BY <1>6 DEF Inv, HandshakeInv, OrderInv
  <2> QED BY <1>1, <1>3, <1>6, <2>1, <2>3, <2>4 DEF MoveConfirm
<1> HIDE DEF r, k
<1> QED BY <1>1, <1>4, <1>5, <1>6, FedIsNextFlight DEF Inv

\* egest() moves the state when it sends HANDSHAKE_DONE, and only then.
LEMMA EgestMoves ==
    ASSUME Inv, NEW s \in Side, NEW sp \in SpaceId, NEW room \in Rooms, Egest(s, sp, room)
    PROVE  UNCHANGED <<tls, state>> \/ MoveReady
<1>1. /\ tls' = tls
      /\ state' = [state EXCEPT ![s] = IF Assemble(s, sp).done THEN "Established" ELSE state[s]]
  BY DEF Egest
<1>2. Assemble(s, sp).done = SendsDone(s, sp)
  BY DEF Assemble
<1>3. CASE SendsDone(s, sp)
  BY <1>1, <1>2, <1>3 DEF SendsDone, MoveReady
<1>4. CASE ~SendsDone(s, sp)
  BY <1>1, <1>2, <1>4 DEF Inv, TypeInv, TypeOK
<1> QED BY <1>3, <1>4

\* Every step of the two connections is one of the moves.
LEMMA NextMoves == Inv /\ AgreementInv /\ [Next]_vars => Move
<1> SUFFICES ASSUME Inv, AgreementInv, [Next]_vars PROVE Move
  OBVIOUS
<1>1. CASE UNCHANGED vars
  BY <1>1 DEF vars, Move
<1>2. CASE Connect
  BY <1>2 DEF Connect, Move, MoveConnect, Inv, HandshakeInv, ClientInv
<1>3. ASSUME NEW p \in sent, Accept(p) PROVE Move
  <2>1. p.from = "client" /\ PacketOK(p)
    BY <1>3, AcceptFacts DEF Inv
  <2>2. state["client"] # "None"
    BY <2>1 DEF PacketOK
  <2> QED BY <1>3, <2>2, AcceptFacts DEF Inv, Move, MoveAccept
<1>4. ASSUME NEW s \in Side, NEW p \in sent, NEW t \in Tickets, Ingest(s, p, t) PROVE Move
  BY <1>4, IngestOther, IngestFlight DEF Move
<1>5. ASSUME NEW s \in Side, NEW sp \in SpaceId, NEW room \in Rooms, Egest(s, sp, room) PROVE Move
  BY <1>5, EgestMoves DEF Move
<1>6. ASSUME NEW s \in Side, SendData(s) PROVE Move
  BY <1>6 DEF SendData, conn_vars, Move
<1>7. ASSUME NEW s \in Side, NEW n \in 1..MaxRecv, RecvData(s, n) PROVE Move
  BY <1>7 DEF RecvData, conn_vars, Move
<1>8. ASSUME NEW s \in Side, NEW sp \in SpaceId, NEW code \in {"Known", "Unknown"},
             PeerClose(s, sp, code)
      PROVE  Move
  BY <1>8 DEF PeerClose, Move, MoveClose
<1> QED BY <1>1, <1>2, <1>3, <1>4, <1>5, <1>6, <1>7, <1>8 DEF Next

-----------------------------------------------------------------------------
\* A packet that closes was built by a closing peer, and holds nothing else.
LEMMA ClosesAlone ==
    ASSUME AgreementInv, Next, NEW p \in sent', p.close # "none"
    PROVE  p.crypto = <<>>
<1>1. CASE p \in sent
  BY <1>1 DEF AgreementInv
<1>2. CASE p \notin sent
  <2>1. CASE Connect
    BY <1>2, <2>1 DEF Connect, InitialPacket
  <2>2. ASSUME NEW q \in sent, Accept(q) PROVE p.crypto = <<>>
    BY <1>2, <2>2 DEF Accept
  <2>3. ASSUME NEW s \in Side, NEW q \in sent, NEW t \in Tickets, Ingest(s, q, t)
        PROVE  p.crypto = <<>>
    BY <1>2, <2>3 DEF Ingest
  <2>4. ASSUME NEW s \in Side, NEW sp \in SpaceId, NEW room \in Rooms, Egest(s, sp, room)
        PROVE  p.crypto = <<>>
    <3>1. p = Assemble(s, sp)
      BY <1>2, <2>4 DEF Egest
    <3>2. Assemble(s, sp).close = "none"
      BY DEF Assemble
    <3> QED BY <3>1, <3>2
  <2>5. ASSUME NEW s \in Side, SendData(s) PROVE p.crypto = <<>>
    BY <1>2, <2>5 DEF SendData
  <2>6. ASSUME NEW s \in Side, NEW n \in 1..MaxRecv, RecvData(s, n) PROVE p.crypto = <<>>
    BY <1>2, <2>6 DEF RecvData
  <2>7. ASSUME NEW s \in Side, NEW sp \in SpaceId, NEW code \in {"Known", "Unknown"},
               PeerClose(s, sp, code)
        PROVE  p.crypto = <<>>
    BY <1>2, <2>7 DEF PeerClose
  <2> QED BY <2>1, <2>2, <2>3, <2>4, <2>5, <2>6, <2>7 DEF Next
<1> QED BY <1>1, <1>2

\* The two additions to the handshake invariant are invariant.
LEMMA AgreementInvNext == Inv /\ AgreementInv /\ [Next]_vars => AgreementInv'
<1> SUFFICES ASSUME Inv, AgreementInv, [Next]_vars PROVE AgreementInv'
  OBVIOUS
<1>1. \A p \in sent' : p.close # "none" => p.crypto = <<>>
  <2>1. CASE UNCHANGED vars
    BY <2>1 DEF vars, AgreementInv
  <2>2. CASE Next
    BY <2>2, ClosesAlone
  <2> QED BY <2>1, <2>2
<1>2. tls'["client"] = "C_Done" => state'["client"] \in {"Established", "Closed"}
  <2>1. Move
    BY NextMoves
  <2>2. /\ tls \in [Side -> Tls] /\ state \in [Side -> State]
        /\ tls["client"] = "C_Done" => state["client"] \in {"Established", "Closed"}
    BY DEF Inv, TypeInv, TypeOK, AgreementInv
  <2> QED BY <2>1, <2>2, Names DEF Move, MoveConnect, MoveAccept, MoveSecure, MoveDone,
             MoveConfirm, MoveReady, MoveClose
<1> QED BY <1>1, <1>2 DEF AgreementInv

-----------------------------------------------------------------------------
\* Every move is a step of the abstract key agreement, or none.
LEMMA MoveIsStep ==
    ASSUME Inv, Inv', HoldsByTls, HoldsByTls', Move
    PROVE  [Agreement!Next]_(Agreement!vars)
<1> DEFINE status == [s \in Side |-> StatusOf(state[s])]
           confirmed == tls["server"] = "S_Done"
<1>1. /\ tls \in [Side -> Tls] /\ state \in [Side -> State]
      /\ tls' \in [Side -> Tls] /\ state' \in [Side -> State]
  BY DEF Inv, TypeInv, TypeOK
<1>2. CASE UNCHANGED <<tls, state>>
  BY <1>2 DEF HoldsByTls, Agreement!vars
<1>3. CASE MoveConnect
  <2>1. Agreement!Begin
    BY <1>1, <1>3, Names DEF MoveConnect, Agreement!Begin, StatusOf, HoldsByTls, ClientHolds, Side
  <2> QED BY <2>1 DEF Agreement!Next
<1>4. CASE MoveAccept
  <2>1. Agreement!Answer
    BY <1>1, <1>4, Names DEF MoveAccept, Agreement!Answer, Agreement!AllEpochs, StatusOf,
       HoldsByTls, ServerHolds, Side
  <2> QED BY <2>1 DEF Agreement!Next
<1>5. CASE MoveSecure
  <2>1. Agreement!Learn("HandshakeKeys")
    BY <1>1, <1>5, Names DEF MoveSecure, Agreement!Learn, Agreement!Below, StatusOf,
       HoldsByTls, ClientHolds, ServerHolds, Side
  <2> QED BY <2>1 DEF Agreement!Next, Agreement!AllEpochs
<1>6. CASE MoveDone
  <2>1. Agreement!Learn("OneRttKeys")
    BY <1>1, <1>6, Names DEF MoveDone, Agreement!Learn, Agreement!Below, StatusOf,
       HoldsByTls, ClientHolds, ServerHolds, Side
  <2> QED BY <2>1 DEF Agreement!Next, Agreement!AllEpochs
<1>7. CASE MoveConfirm
  <2>1. Agreement!Confirm
    BY <1>1, <1>7, Names DEF MoveConfirm, Agreement!Confirm, Agreement!AllEpochs, StatusOf,
       Open, State, HoldsByTls, ClientHolds, ServerHolds, Side
  <2> QED BY <2>1 DEF Agreement!Next
<1>8. CASE MoveReady
  <2>1. Agreement!Ready
    BY <1>1, <1>8, Names DEF MoveReady, Agreement!Ready, StatusOf, HoldsByTls, Side
  <2> QED BY <2>1 DEF Agreement!Next
<1>9. ASSUME NEW s \in Side, MoveClose(s) PROVE Agreement!Next
  <2>1. Agreement!Close(s)
    BY <1>1, <1>9 DEF MoveClose, Agreement!Close, StatusOf, Open, State, HoldsByTls
  <2> QED BY <2>1 DEF Agreement!Next, Agreement!Party, Side
<1> QED BY <1>2, <1>3, <1>4, <1>5, <1>6, <1>7, <1>8, <1>9 DEF Move

\* The connections implement the abstract key agreement: no loss, repetition,
\* reordering or dropped packet makes them do anything else.
THEOREM AgreementRefinement == Spec => ImplementsAgreement
<1>1. Init => AgreementInv
  BY Names DEF Init, AgreementInv
<1>2. Init => Agreement!Init
  <2> SUFFICES ASSUME Init PROVE Agreement!Init
    OBVIOUS
  <2>1. Holds = [s \in Side |-> {}]
    BY DEF Init, Holds
  <2>2. [s \in Side |-> StatusOf(state[s])] = [s \in Side |-> "idle"]
    BY DEF Init, StatusOf
  <2>3. (tls["server"] = "S_Done") = FALSE
    BY Names DEF Init
  <2> QED BY <2>1, <2>2, <2>3 DEF Agreement!Init, Agreement!Party, Side
<1>3. Inv /\ AgreementInv /\ [Next]_vars => AgreementInv'
  BY AgreementInvNext
<1>4. Inv' => HoldsByTls'
  BY KeysByTls, PTL
<1>5. Inv /\ Inv' /\ AgreementInv /\ [Next]_vars => [Agreement!Next]_(Agreement!vars)
  BY <1>4, KeysByTls, NextMoves, MoveIsStep
<1> QED BY <1>1, <1>2, <1>3, <1>5, HandshakeInvariant, PTL
       DEF Spec, Inv, ImplementsAgreement, Agreement!Spec

-----------------------------------------------------------------------------
\* A closed connection is silent: no operation of a side that is not open adds
\* a packet of its own.
LEMMA ClosedSilent ==
    ASSUME Next, NEW s \in Side, state[s] = "Closed", NEW p \in sent' \ sent
    PROVE  p.from # s
<1>1. CASE Connect
  BY <1>1 DEF Connect, InitialPacket
<1>2. ASSUME NEW q \in sent, Accept(q) PROVE FALSE
  BY <1>2 DEF Accept
<1>3. ASSUME NEW r \in Side, NEW q \in sent, NEW t \in Tickets, Ingest(r, q, t) PROVE FALSE
  BY <1>3 DEF Ingest
<1>4. ASSUME NEW r \in Side, NEW sp \in SpaceId, NEW room \in Rooms, Egest(r, sp, room)
      PROVE  p.from # s
  <2>1. p = Assemble(r, sp) /\ Open(r)
    BY <1>4 DEF Egest
  <2>2. Assemble(r, sp).from = r
    BY DEF Assemble
  <2> QED BY <2>1, <2>2 DEF Open
<1>5. ASSUME NEW r \in Side, SendData(r) PROVE FALSE
  BY <1>5 DEF SendData
<1>6. ASSUME NEW r \in Side, NEW n \in 1..MaxRecv, RecvData(r, n) PROVE FALSE
  BY <1>6 DEF RecvData
<1>7. ASSUME NEW r \in Side, NEW sp \in SpaceId, NEW code \in {"Known", "Unknown"},
             PeerClose(r, sp, code)
      PROVE  p.from # s
  BY <1>7 DEF PeerClose, Open
<1> QED BY <1>1, <1>2, <1>3, <1>4, <1>5, <1>6, <1>7 DEF Next

\* A move takes no state back.
LEMMA MoveAdvances ==
    ASSUME Inv, Move, NEW s \in Side
    PROVE  Rank(state'[s]) >= Rank(state[s])
<1>1. state \in [Side -> State] /\ state[s] \in State
  BY DEF Inv, TypeInv, TypeOK
<1>2. \A st \in State : Rank(st) \in 0..3
  BY DEF State, Rank
<1>3. CASE state'[s] = state[s]
  BY <1>1, <1>2, <1>3
<1>4. CASE state'[s] # state[s]
  <2>1. \/ state[s] = "None" /\ state'[s] \in {"Connecting", "Handshaking"}
        \/ state[s] \in {"Connecting", "Handshaking"} /\ state'[s] = "Established"
        \/ state'[s] = "Closed"
    BY <1>1, <1>4, Names DEF Move, MoveConnect, MoveAccept, MoveSecure, MoveDone,
       MoveConfirm, MoveReady, MoveClose
  <2>2. /\ Rank("None") = 0 /\ Rank("Connecting") = 1 /\ Rank("Handshaking") = 1
        /\ Rank("Established") = 2 /\ Rank("Closed") = 3
    BY DEF Rank
  <2> QED BY <1>1, <1>2, <2>1, <2>2
<1> QED BY <1>3, <1>4

\* The state of a connection never goes back, and a closed one is silent,
\* whatever arrives late.
THEOREM AdvancesTheorem == Spec => StateOnlyAdvances
<1>1. Init => AgreementInv
  BY Names DEF Init, AgreementInv
<1>2. Inv /\ AgreementInv /\ [Next]_vars =>
          [\A s \in Side : /\ Rank(state'[s]) >= Rank(state[s])
                           /\ state[s] = "Closed" =>
                                  \A p \in sent' \ sent : p.from # s]_vars
  BY NextMoves, MoveAdvances, ClosedSilent
<1> QED BY <1>1, <1>2, AgreementInvNext, HandshakeInvariant, PTL
       DEF Spec, Inv, StateOnlyAdvances

-----------------------------------------------------------------------------
\* What CloseReasonGiven needs to be inductive: no reason without a close, and
\* for a side whose peer implementation does not close, no close without one.
ReasonInv ==
    \A s \in Side : /\ close_reason[s] # "none" => state[s] = "Closed"
                    /\ s \notin PeerCloses /\ state[s] = "Closed" => close_reason[s] # "none"

\* A side that has not closed and is not closed by the step keeps its reason.
LEMMA ReasonKept ==
    ASSUME Inv, ReasonInv, Move, close_reason' = close_reason,
           \A s \in Side : state'[s] = "Closed" => state[s] = "Closed" \/ s \in PeerCloses
    PROVE  ReasonInv'
<1>1. \A s \in Side : state[s] = "Closed" => state'[s] = "Closed"
  <2>1. state \in [Side -> State]
    BY DEF Inv, TypeInv, TypeOK
  <2> QED BY <2>1, Names DEF Move, MoveConnect, MoveAccept, MoveSecure, MoveDone,
             MoveConfirm, MoveReady, MoveClose
<1> QED BY <1>1 DEF ReasonInv

\* ingest() sets the reason exactly when it closes.
LEMMA ReasonIngest ==
    ASSUME Inv, AgreementInv, ReasonInv, NEW s \in Side, NEW p \in sent, NEW t \in Tickets,
           Ingest(s, p, t)
    PROVE  ReasonInv'
<1>1. Open(s) /\ p.close \in CloseCode
  BY DEF Ingest, Inv, TypeInv, TypeOK, Packet
<1>2. /\ state \in [Side -> State] /\ close_reason \in [Side -> CloseReason]
  BY DEF Inv, TypeInv, TypeOK
<1>3. CASE p.close # "none"
  <2>1. ~InOrder(s, p)
    BY <1>3 DEF AgreementInv, InOrder
  <2>2. /\ state' = [state EXCEPT ![s] = "Closed"]
        /\ close_reason' = [close_reason EXCEPT ![s] = ReasonOf(p.close)]
    BY <1>3, <2>1 DEF Ingest, StateAfter
  <2>3. ReasonOf(p.close) # "none"
    BY <1>3 DEF ReasonOf
  <2> QED BY <1>2, <2>2, <2>3 DEF ReasonInv
<1>4. CASE p.close = "none"
  <2>1. close_reason' = close_reason
    BY <1>2, <1>4 DEF Ingest
  <2>2. \A r \in Side : state'[r] = "Closed" => state[r] = "Closed"
    BY <1>2, <1>4 DEF Ingest, StateAfter
  <2>3. Move
    BY IngestOther, IngestFlight DEF Move
  <2> QED BY <2>1, <2>2, <2>3, ReasonKept
<1> QED BY <1>3, <1>4

\* A connection has a reason exactly if its peer closed it.
THEOREM ReasonTheorem == Spec => []CloseReasonGiven
<1>1. Init => AgreementInv /\ ReasonInv
  BY Names DEF Init, AgreementInv, ReasonInv
<1>2. Inv /\ AgreementInv /\ ReasonInv /\ [Next]_vars => ReasonInv'
  <2> SUFFICES ASSUME Inv, AgreementInv, ReasonInv, [Next]_vars PROVE ReasonInv'
    OBVIOUS
  <2>1. Move /\ state \in [Side -> State]
    BY NextMoves DEF Inv, TypeInv, TypeOK
  <2>2. CASE UNCHANGED vars
    BY <2>2 DEF vars, ReasonInv
  <2>3. CASE Connect
    BY <2>1, <2>3, ReasonKept DEF Connect
  <2>4. ASSUME NEW p \in sent, Accept(p) PROVE ReasonInv'
    BY <2>1, <2>4, ReasonKept DEF Accept
  <2>5. ASSUME NEW s \in Side, NEW p \in sent, NEW t \in Tickets, Ingest(s, p, t)
        PROVE  ReasonInv'
    BY <2>5, ReasonIngest
  <2>6. ASSUME NEW s \in Side, NEW sp \in SpaceId, NEW room \in Rooms, Egest(s, sp, room)
        PROVE  ReasonInv'
    <3>1. close_reason' = close_reason
      BY <2>6 DEF Egest
    <3>2. UNCHANGED <<tls, state>> \/ MoveReady
      BY <2>6, EgestMoves
    <3>3. \A r \in Side : state'[r] = "Closed" => state[r] = "Closed"
      BY <2>1, <3>2, Names DEF MoveReady
    <3> QED BY <2>1, <3>1, <3>3, ReasonKept
  <2>7. ASSUME NEW s \in Side, SendData(s) PROVE ReasonInv'
    BY <2>7 DEF SendData, conn_vars, ReasonInv
  <2>8. ASSUME NEW s \in Side, NEW n \in 1..MaxRecv, RecvData(s, n) PROVE ReasonInv'
    BY <2>8 DEF RecvData, conn_vars, ReasonInv
  <2>9. ASSUME NEW s \in Side, NEW sp \in SpaceId, NEW code \in {"Known", "Unknown"},
               PeerClose(s, sp, code)
        PROVE  ReasonInv'
    BY <2>1, <2>9, ReasonKept DEF PeerClose
  <2> QED BY <2>2, <2>3, <2>4, <2>5, <2>6, <2>7, <2>8, <2>9 DEF Next
<1>3. ReasonInv => CloseReasonGiven
  BY DEF ReasonInv, CloseReasonGiven
<1> QED BY <1>1, <1>2, <1>3, AgreementInvNext, HandshakeInvariant, PTL DEF Spec, Inv

-----------------------------------------------------------------------------
(* Acknowledgements and stream data. *)

\* Each side is the peer of its peer.
LEMMA PeerFacts ==
    ASSUME NEW s \in Side
    PROVE  Peer(s) \in Side /\ Peer(Peer(s)) = s /\ Peer(s) # s
  BY DEF Peer, Side

\* A packet belongs to one side and one space.
LEMMA PacketPlace ==
    ASSUME TypeInv, NEW p \in sent
    PROVE  /\ p \in Packet /\ p.from \in Side /\ SpaceOf(p.form) \in SpaceId
           /\ p.stream \in Seq(Nat) /\ p.stream_off \in Nat /\ Len(p.stream) \in Nat
<1>1. p \in Packet
  BY DEF TypeInv, TypeOK
<1> QED BY <1>1 DEF Packet, SpaceOf, SpaceId, Form

\* The space a packet of egest is assembled in is the one its header names.
LEMMA AssembleSpace ==
    ASSUME NEW s \in Side, NEW sp \in SpaceId
    PROVE  Assemble(s, sp).from = s /\ SpaceOf(Assemble(s, sp).form) = sp
<1>1. SpaceOf(FormFor(s, sp)) = sp
  BY DEF SpaceOf, FormFor, SpaceId
<1> QED BY <1>1 DEF Assemble

\* A packet that is new in the network was assembled by egest, or acknowledges
\* nothing and has no stream data: connect and a closing peer build those.
LEMMA PacketAdded ==
    ASSUME Next, NEW p \in sent' \ sent
    PROVE  \/ p.ack = {} /\ p.stream = <<>> /\ p.stream_off = 0
           \/ \E s \in Side, sp \in SpaceId, room \in Rooms :
                  Egest(s, sp, room) /\ p = Assemble(s, sp)
<1>1. CASE Connect
  BY <1>1 DEF Connect, InitialPacket
<1>2. ASSUME NEW q \in sent, Accept(q) PROVE FALSE
  BY <1>2 DEF Accept
<1>3. ASSUME NEW s \in Side, NEW q \in sent, NEW t \in Tickets, Ingest(s, q, t) PROVE FALSE
  BY <1>3 DEF Ingest
<1>4. ASSUME NEW s \in Side, NEW sp \in SpaceId, NEW room \in Rooms, Egest(s, sp, room)
      PROVE  p = Assemble(s, sp)
  BY <1>4 DEF Egest
<1>5. ASSUME NEW s \in Side, SendData(s) PROVE FALSE
  BY <1>5 DEF SendData
<1>6. ASSUME NEW s \in Side, NEW n \in 1..MaxRecv, RecvData(s, n) PROVE FALSE
  BY <1>6 DEF RecvData
<1>7. ASSUME NEW s \in Side, NEW sp \in SpaceId, NEW code \in {"Known", "Unknown"},
             PeerClose(s, sp, code)
      PROVE  p.ack = {} /\ p.stream = <<>> /\ p.stream_off = 0
  BY <1>7 DEF PeerClose
<1> QED BY <1>1, <1>2, <1>3, <1>4, <1>5, <1>6, <1>7 DEF Next

-----------------------------------------------------------------------------
(* Acknowledgements.                                                       *)

\* How one operation may change the space of a side: it exists afterwards, its
\* counter does not go back, and what it has to acknowledge is what it had,
\* nothing, or a number more that the other side has used.
SpaceMoves(s, sp, v) ==
    /\ v.next_send_pn >= space[s][sp].next_send_pn
    /\ \/ v.pending_acks = space[s][sp].pending_acks
       \/ v.pending_acks = <<>>
       \/ \E pn \in Nat : /\ pn < space[Peer(s)][sp].next_send_pn
                          /\ v.pending_acks = Append(space[s][sp].pending_acks, pn)

\* Every step changes at most one space, of a side that is there afterwards.
LEMMA SpaceStep ==
    ASSUME Inv, FreshInv, Next
    PROVE  \/ space' = space
           \/ \E s \in Side, sp \in SpaceId : \E v :
                  /\ space' = [space EXCEPT ![s][sp] = v]
                  /\ state'[s] # "None"
                  /\ SpaceMoves(s, sp, v)
<1> DEFINE Goal == \/ space' = space
                   \/ \E s \in Side, sp \in SpaceId : \E v :
                          /\ space' = [space EXCEPT ![s][sp] = v]
                          /\ state'[s] # "None"
                          /\ SpaceMoves(s, sp, v)
<1>0. /\ space \in [Side -> [SpaceId -> Space]] /\ state \in [Side -> State]
      /\ \A s \in Side, sp \in SpaceId : /\ space[s][sp] \in Space
                                         /\ HasLargest(space[s][sp].pending_acks)
  BY DEF Inv, TypeInv, TypeOK, AcksInv
<1>1. CASE Connect
  <2>1. space' = [space EXCEPT !["client"]["Initial"] = NextSendPn(SpaceNew)]
        /\ state'["client"] = "Connecting"
        /\ space["client"]["Initial"] = SpaceNew
    BY <1>0, <1>1, Names DEF Connect, FreshInv
  <2>2. /\ NextSendPn(SpaceNew).next_send_pn = 1 /\ NextSendPn(SpaceNew).pending_acks = <<>>
        /\ SpaceNew.next_send_pn = 0
    BY DEF NextSendPn, SpaceNew
  <2>3. SpaceMoves("client", "Initial", NextSendPn(SpaceNew))
    BY <2>1, <2>2 DEF SpaceMoves
  <2> QED BY <2>1, <2>3, Names
<1>2. ASSUME NEW p \in sent, Accept(p) PROVE Goal
  <2>1. space' = [space EXCEPT !["server"]["Initial"] = RecordRecvPn(SpaceNew, 0)]
        /\ state'["server"] = "Handshaking"
        /\ space["server"]["Initial"] = SpaceNew
    BY <1>0, <1>2, Names DEF Accept, FreshInv
  <2>2. SpaceOf(p.form) = "Initial" /\ p.from = "client" /\ PacketOK(p)
    BY <1>2, AcceptFacts DEF Inv
  <2>3. p.pn \in Nat /\ p.pn < space["client"]["Initial"].next_send_pn
    BY <2>2 DEF PacketOK, Inv, TypeInv, TypeOK, Packet
  <2>4. 0 < space["client"]["Initial"].next_send_pn
    <3>1. space["client"]["Initial"].next_send_pn \in Nat BY <1>0, Names DEF Space
    <3> QED BY <2>3, <3>1
  <2>5. /\ RecordRecvPn(SpaceNew, 0).next_send_pn = SpaceNew.next_send_pn
        /\ RecordRecvPn(SpaceNew, 0).pending_acks = Append(SpaceNew.pending_acks, 0)
        /\ SpaceNew.next_send_pn = 0
    BY DEF RecordRecvPn, SpaceNew
  <2>6. SpaceMoves("server", "Initial", RecordRecvPn(SpaceNew, 0))
    BY <2>1, <2>4, <2>5 DEF SpaceMoves, Peer
  <2> QED BY <2>1, <2>6, Names
<1>3. ASSUME NEW s \in Side, NEW p \in sent, NEW t \in Tickets, Ingest(s, p, t) PROVE Goal
  <2> DEFINE sp == SpaceOf(p.form)
             v == RecordRecvPn(space[s][sp], p.pn)
  <2>1. sp \in SpaceId /\ p.pn \in Nat
    BY PacketPlace DEF Inv, Packet
  <2>2. space' = [space EXCEPT ![s][sp] = v]
    BY <1>0, <1>3, <2>1 DEF Ingest
  <2>3. p.from = Peer(s) /\ p.pn < space[Peer(s)][sp].next_send_pn
    BY <1>3, OpensFacts DEF Ingest, Inv, Decrypts, PacketOK
  <2>4. Open(s)
    BY <1>3 DEF Ingest
  <2>5. state'[s] # "None"
    BY <1>0, <1>3, <2>4 DEF Ingest, Open, StateAfter
  <2>6. v.next_send_pn = space[s][sp].next_send_pn
        /\ v.pending_acks = Append(space[s][sp].pending_acks, p.pn)
    BY <1>0, <2>1, RecordRecvPnFacts
  <2>7. space[s][sp].next_send_pn \in Nat
    BY <1>0, <2>1 DEF Space
  <2> HIDE DEF v, sp
  <2>8. SpaceMoves(s, sp, v)
    BY <2>1, <2>3, <2>6, <2>7 DEF SpaceMoves
  <2> QED BY <2>1, <2>2, <2>5, <2>8
<1>4. ASSUME NEW s \in Side, NEW sp \in SpaceId, NEW room \in Rooms, Egest(s, sp, room)
      PROVE  Goal
  <2> DEFINE v == NextSendPn(TakePendingAcks(space[s][sp]))
  <2>1. space' = [space EXCEPT ![s][sp] = v] /\ state'[s] # "None"
    BY <1>0, <1>4 DEF Egest, Open
  <2>2. v.next_send_pn = space[s][sp].next_send_pn + 1 /\ v.pending_acks = <<>>
    BY <1>0 DEF NextSendPn, TakePendingAcks, Space
  <2>3. space[s][sp].next_send_pn \in Nat
    BY <1>0 DEF Space
  <2> HIDE DEF v
  <2>4. SpaceMoves(s, sp, v)
    BY <2>2, <2>3 DEF SpaceMoves
  <2> QED BY <2>1, <2>4
<1>5. CASE \E s \in Side : SendData(s)
  BY <1>5 DEF SendData, conn_vars
<1>6. CASE \E s \in Side, n \in 1..MaxRecv : RecvData(s, n)
  BY <1>6 DEF RecvData, conn_vars
<1>7. ASSUME NEW s \in Side, NEW sp \in SpaceId, NEW code \in {"Known", "Unknown"},
             PeerClose(s, sp, code)
      PROVE  Goal
  <2> DEFINE v == NextSendPn(space[s][sp])
  <2>1. space' = [space EXCEPT ![s][sp] = v] /\ state'[s] # "None"
    BY <1>0, <1>7 DEF PeerClose
  <2>2. v.next_send_pn = space[s][sp].next_send_pn + 1
        /\ v.pending_acks = space[s][sp].pending_acks
    BY <1>0 DEF NextSendPn, Space
  <2>3. space[s][sp].next_send_pn \in Nat
    BY <1>0 DEF Space
  <2> HIDE DEF v
  <2>4. SpaceMoves(s, sp, v)
    BY <2>2, <2>3 DEF SpaceMoves
  <2> QED BY <2>1, <2>4
<1> QED BY <1>1, <1>2, <1>3, <1>4, <1>5, <1>6, <1>7 DEF Next

\* What SpaceStep says of every space at once.
LEMMA SpacesMove ==
    ASSUME Inv, FreshInv, Next, NEW s \in Side, NEW sp \in SpaceId
    PROVE  /\ SpaceMoves(s, sp, space'[s][sp])
           /\ state'[s] = "None" => space'[s][sp] = space[s][sp]
<1>1. space \in [Side -> [SpaceId -> Space]] /\ space[s][sp].next_send_pn \in Nat
  BY DEF Inv, TypeInv, TypeOK, Space
<1>2. SpaceMoves(s, sp, space[s][sp])
  BY <1>1 DEF SpaceMoves
<1>3. CASE space' = space
  BY <1>2, <1>3
<1>4. ASSUME NEW s2 \in Side, NEW sp2 \in SpaceId, NEW v,
             space' = [space EXCEPT ![s2][sp2] = v], state'[s2] # "None", SpaceMoves(s2, sp2, v)
      PROVE  /\ SpaceMoves(s, sp, space'[s][sp])
             /\ state'[s] = "None" => space'[s][sp] = space[s][sp]
  <2>1. CASE s2 = s /\ sp2 = sp
    <3>1. space'[s][sp] = v BY <1>1, <1>4, <2>1
    <3> QED BY <1>4, <2>1, <3>1
  <2>2. CASE ~(s2 = s /\ sp2 = sp)
    <3>1. space'[s][sp] = space[s][sp] BY <1>1, <1>4, <2>2
    <3> QED BY <1>2, <3>1
  <2> QED BY <2>1, <2>2
<1> QED BY <1>3, <1>4, SpaceStep

\* No side that does not exist yet has counted anything.
LEMMA FreshInvNext == Inv /\ AgreementInv /\ FreshInv /\ [Next]_vars => FreshInv'
<1> SUFFICES ASSUME Inv, AgreementInv, FreshInv, [Next]_vars PROVE FreshInv'
  OBVIOUS
<1>1. CASE UNCHANGED vars
  BY <1>1 DEF vars, FreshInv
<1>2. CASE Next
  <2>1. ASSUME NEW s \in Side, state'[s] = "None" PROVE state[s] = "None"
    <3>1. Move /\ state \in [Side -> State]
      BY NextMoves DEF Inv, TypeInv, TypeOK
    <3> QED BY <2>1, <3>1, Names DEF Move, MoveConnect, MoveAccept, MoveSecure, MoveDone,
               MoveConfirm, MoveReady, MoveClose
  <2> QED BY <1>2, <2>1, SpacesMove DEF FreshInv
<1> QED BY <1>1, <1>2

\* Numbers waiting to be acknowledged were used by the other side.
LEMMA PendingAcksUsed ==
    ASSUME Inv, FreshInv, AckInv, Next, NEW s \in Side, NEW sp \in SpaceId,
           NEW i \in 1..Len(space'[s][sp].pending_acks)
    PROVE  space'[s][sp].pending_acks[i] < space'[Peer(s)][sp].next_send_pn
<1> DEFINE old == space[s][sp].pending_acks
           new == space'[s][sp].pending_acks
           n == space[Peer(s)][sp].next_send_pn
           n2 == space'[Peer(s)][sp].next_send_pn
<1>1. SpaceMoves(s, sp, space'[s][sp]) /\ SpaceMoves(Peer(s), sp, space'[Peer(s)][sp])
  BY PeerFacts, SpacesMove
<1>2. n2 >= n
  BY <1>1 DEF SpaceMoves
<1>3. \/ new = old \/ new = <<>>
      \/ \E pn \in Nat : pn < n /\ new = Append(old, pn)
  BY <1>1 DEF SpaceMoves
<1>4. /\ old \in Seq(Nat) /\ n \in Nat
      /\ \A j \in 1..Len(old) : old[j] < n
  BY PeerFacts DEF AckInv, Inv, TypeInv, TypeOK, Space
<1>5. TypeInv'
  BY TypeInvNext DEF Inv
<1>6. n2 \in Nat
  BY <1>5, PeerFacts DEF TypeInv, TypeOK, Space
<1> HIDE DEF old, new, n, n2
<1>7. i \in 1..Len(new)
  BY DEF new
<1>8. new[i] < n /\ new[i] \in Nat
  <2>1. CASE new = old
    BY <1>4, <1>7, <2>1
  <2>2. CASE new = <<>>
    BY <1>7, <2>2
  <2>3. ASSUME NEW pn \in Nat, pn < n, new = Append(old, pn) PROVE new[i] < n /\ new[i] \in Nat
    <3>1. Len(new) = Len(old) + 1 /\ Len(old) \in Nat
      BY <1>4, <2>3
    <3>2. CASE i = Len(old) + 1
      BY <1>4, <2>3, <3>2
    <3>3. CASE i \in 1..Len(old)
      <4>1. new[i] = old[i] BY <1>4, <2>3, <3>3
      <4> QED BY <1>4, <3>3, <4>1
    <3> QED BY <1>7, <3>1, <3>2, <3>3
  <2> QED BY <1>3, <2>1, <2>2, <2>3
<1>9. new[i] < n2
  BY <1>2, <1>4, <1>6, <1>8
<1> QED BY <1>9 DEF new, n2

\* The ACK frame of a packet names a number the other side has used.
LEMMA AckFramesUsed ==
    ASSUME Inv, FreshInv, AckInv, Next, NEW p \in sent', NEW ack \in p.ack
    PROVE  ack.largest < space'[Peer(p.from)][SpaceOf(p.form)].next_send_pn
<1>1. TypeInv'
  BY TypeInvNext DEF Inv
<1>2. p \in Packet /\ p.from \in Side /\ SpaceOf(p.form) \in SpaceId
  BY <1>1 DEF TypeInv, TypeOK, Packet, SpaceOf, SpaceId, Form
<1> DEFINE s == p.from
           sp == SpaceOf(p.form)
           n == space[Peer(s)][sp].next_send_pn
           n2 == space'[Peer(s)][sp].next_send_pn
<1>3. n \in Nat /\ n2 \in Nat /\ n2 >= n
  <2>1. Peer(s) \in Side /\ sp \in SpaceId
    BY <1>2, PeerFacts
  <2>2. n \in Nat /\ n2 \in Nat
    BY <1>1, <2>1 DEF Inv, TypeInv, TypeOK, Space
  <2>3. SpaceMoves(Peer(s), sp, space'[Peer(s)][sp])
    BY <2>1, SpacesMove
  <2> QED BY <2>2, <2>3 DEF SpaceMoves
<1>4. ack.largest \in Nat /\ ack.largest < n
  <2>0. ack.largest \in Nat
    BY <1>2 DEF Packet, Ack
  <2>1. CASE p \in sent
    BY <2>0, <2>1 DEF AckInv
  <2>2. CASE p \notin sent
    <3>1. PICK r \in Side, q \in SpaceId, room \in Rooms :
              Egest(r, q, room) /\ p = Assemble(r, q)
      BY <2>2, PacketAdded
    <3>2. s = r /\ sp = q
      BY <3>1, AssembleSpace
    <3> DEFINE acks == space[s][sp].pending_acks
    <3>3. p.ack = IF acks = <<>> THEN {} ELSE {AckFrame(acks)}
      BY <3>1, <3>2 DEF Assemble
    <3>4. acks # <<>> /\ ack = AckFrame(acks)
      BY <3>3
    <3>5. acks \in Seq(Nat) /\ HasLargest(acks) /\ \A i \in 1..Len(acks) : acks[i] < n
      BY <1>2 DEF Inv, TypeInv, TypeOK, AcksInv, AckInv, Space
    <3> HIDE DEF acks, n
    <3>6. ack.largest \in Range(acks)
      BY <3>4, <3>5, AckFrameFacts
    <3>7. \A x \in Range(acks) : x < n
      BY <3>5 DEF Range
    <3> QED BY <2>0, <3>6, <3>7
  <2> QED BY <2>1, <2>2
<1> HIDE DEF n, n2
<1>5. ack.largest < n2
  BY <1>3, <1>4
<1> QED BY <1>5 DEF n2

\* A side acknowledges only numbers the other side has used, although accept
\* records 0 without looking at the packet it has, and although the counter of
\* the client's first packet is set by hand.
THEOREM AcksTheorem == Spec => []AcksNumbersSent
<1>1. Init => AgreementInv /\ FreshInv /\ AckInv
  <2> SUFFICES ASSUME Init PROVE AgreementInv /\ FreshInv /\ AckInv
    OBVIOUS
  <2>1. \A s \in Side, sp \in SpaceId : space[s][sp].pending_acks = <<>>
    BY DEF Init, SpaceNew
  <2> QED BY <2>1, Names DEF Init, AgreementInv, FreshInv, AckInv
<1>2. Inv /\ FreshInv /\ AckInv /\ [Next]_vars => AckInv'
  <2> SUFFICES ASSUME Inv, FreshInv, AckInv, [Next]_vars PROVE AckInv'
    OBVIOUS
  <2>1. CASE UNCHANGED vars
    BY <2>1 DEF vars, AckInv
  <2>2. CASE Next
    BY <2>2, PendingAcksUsed, AckFramesUsed DEF AckInv
  <2> QED BY <2>1, <2>2
<1>3. AckInv => AcksNumbersSent
  BY DEF AckInv, AcksNumbersSent
<1> QED BY <1>1, <1>2, <1>3, FreshInvNext, AgreementInvNext, HandshakeInvariant, PTL
       DEF Spec, Inv

-----------------------------------------------------------------------------
(* Stream data.                                                            *)

\* The ranges stay below the offsets and apart when offsets only grow and the
\* packet that is added starts where its sender was.
LEMMA FramesStep ==
    ASSUME TypeInv, TypeInv', FramesInv,
           \A s \in Side : stream_send_offset'[s] >= stream_send_offset[s],
           NEW p \in Packet, sent' \subseteq sent \cup {p},
           \/ p.stream = <<>> /\ p.stream_off = 0
           \/ /\ p.stream_off = stream_send_offset[p.from]
              /\ \A i \in 1..Len(p.stream) : p.stream[i] = p.stream_off + i
              /\ p.stream_off + Len(p.stream) <= stream_send_offset'[p.from]
    PROVE  FramesInv'
<1>1. /\ \A s \in Side : stream_send_offset[s] \in Nat /\ stream_send_offset'[s] \in Nat
      /\ p.from \in Side /\ p.stream_off \in Nat /\ Len(p.stream) \in Nat
  BY DEF TypeInv, TypeOK, Packet
<1>2. \A q \in sent : q.from \in Side /\ q.stream_off \in Nat /\ Len(q.stream) \in Nat
  BY PacketPlace
<1> DEFINE Empty == Len(p.stream) = 0 /\ p.stream_off = 0
           Starts == /\ p.stream_off = stream_send_offset[p.from]
                     /\ \A i \in 1..Len(p.stream) : p.stream[i] = p.stream_off + i
                     /\ p.stream_off + Len(p.stream) <= stream_send_offset'[p.from]
<1>0. Empty \/ Starts
  OBVIOUS
<1>3. ASSUME NEW q \in sent'
      PROVE  /\ \A i \in 1..Len(q.stream) : q.stream[i] = q.stream_off + i
             /\ q.stream_off + Len(q.stream) <= stream_send_offset'[q.from]
  <2>1. CASE q \in sent
    <3>1. /\ \A i \in 1..Len(q.stream) : q.stream[i] = q.stream_off + i
          /\ q.stream_off + Len(q.stream) <= stream_send_offset[q.from]
      BY <2>1 DEF FramesInv
    <3>2. /\ q.from \in Side /\ q.stream_off \in Nat /\ Len(q.stream) \in Nat
          /\ stream_send_offset[q.from] \in Nat /\ stream_send_offset'[q.from] \in Nat
          /\ stream_send_offset'[q.from] >= stream_send_offset[q.from]
      BY <1>1, <1>2, <2>1
    <3> QED BY <3>1, <3>2
  <2>2. CASE q = p /\ Empty
    <3>1. stream_send_offset'[p.from] \in Nat BY <1>1
    <3> QED BY <2>2, <3>1
  <2>3. CASE q = p /\ Starts
    BY <2>3
  <2> QED BY <1>0, <2>1, <2>2, <2>3
<1>4. ASSUME NEW q \in sent, p.from = q.from
      PROVE  \/ p.stream_off + Len(p.stream) <= q.stream_off
             \/ q.stream_off + Len(q.stream) <= p.stream_off
  <2>1. q.stream_off + Len(q.stream) <= stream_send_offset[q.from]
    BY DEF FramesInv
  <2>2. q.stream_off \in Nat /\ Len(q.stream) \in Nat
    BY <1>2
  <2>3. CASE Empty
    BY <2>2, <2>3
  <2>4. CASE Starts
    BY <1>4, <2>1, <2>4
  <2> QED BY <1>0, <2>3, <2>4
<1>5. ASSUME NEW q \in sent', NEW r \in sent', q # r, q.from = r.from
      PROVE  \/ q.stream_off + Len(q.stream) <= r.stream_off
             \/ r.stream_off + Len(r.stream) <= q.stream_off
  <2>1. CASE q \in sent /\ r \in sent
    BY <1>5, <2>1 DEF FramesInv
  <2>2. CASE q = p \/ r = p
    BY <1>4, <1>5, <2>2
  <2> QED BY <2>1, <2>2
<1> QED BY <1>3, <1>5 DEF FramesInv

\* What has arrived stays below offsets that only grow.
LEMMA ArrivedKept ==
    ASSUME TypeInv, TypeInv', ArrivedInv,
           \A s \in Side : stream_send_offset'[s] >= stream_send_offset[s],
           UNCHANGED <<received_app_data, delivered>>
    PROVE  ArrivedInv'
<1> SUFFICES ASSUME NEW s \in Side
             PROVE  /\ \A i \in 1..Len(received_app_data[s]) :
                           received_app_data[s][i] \in 1..stream_send_offset'[Peer(s)]
                    /\ \A i \in 1..Len(delivered[s]) :
                           delivered[s][i] \in 1..stream_send_offset'[Peer(s)]
  BY DEF ArrivedInv
<1>1. /\ stream_send_offset[Peer(s)] \in Nat /\ stream_send_offset'[Peer(s)] \in Nat
      /\ stream_send_offset'[Peer(s)] >= stream_send_offset[Peer(s)]
  BY PeerFacts DEF TypeInv, TypeOK
<1>2. 1..stream_send_offset[Peer(s)] \subseteq 1..stream_send_offset'[Peer(s)]
  BY <1>1
<1> QED BY <1>2 DEF ArrivedInv

\* What egest does to the stream: either all that waits leaves in the packet, or
\* nothing does.
LEMMA EgestData ==
    ASSUME TypeInv, NEW s \in Side, NEW sp \in SpaceId, NEW room, Egest(s, sp, room)
    PROVE  \/ /\ Assemble(s, sp).stream = <<>> /\ Assemble(s, sp).stream_off = 0
              /\ UNCHANGED <<pending_app_data, stream_send_offset>>
           \/ /\ Assemble(s, sp).stream = pending_app_data[s]
              /\ Assemble(s, sp).stream_off = stream_send_offset[s]
              /\ pending_app_data' = [pending_app_data EXCEPT ![s] = <<>>]
              /\ stream_send_offset' = [stream_send_offset EXCEPT ![s] =
                     stream_send_offset[s] + Len(pending_app_data[s])]
<1> DEFINE p == Assemble(s, sp)
<1>1. /\ pending_app_data' = [pending_app_data EXCEPT ![s] = IF p.stream # <<>> THEN <<>> ELSE @]
      /\ stream_send_offset' = [stream_send_offset EXCEPT ![s] = @ + Len(p.stream)]
  BY DEF Egest, StreamOffsetAfter
<1>2. /\ pending_app_data \in [Side -> Seq(Nat)] /\ stream_send_offset \in [Side -> Nat]
  BY DEF TypeInv, TypeOK
<1>3. /\ p.stream = IF SendsStream(s, sp) THEN pending_app_data[s] ELSE <<>>
      /\ p.stream_off = IF SendsStream(s, sp) THEN stream_send_offset[s] ELSE 0
  BY DEF Assemble
<1> HIDE DEF p
<1>4. CASE SendsStream(s, sp)
  <2>1. pending_app_data[s] # <<>> BY <1>4 DEF SendsStream
  <2> QED BY <1>1, <1>3, <1>4, <2>1 DEF p
<1>5. CASE ~SendsStream(s, sp)
  <2>1. p.stream = <<>> /\ p.stream_off = 0 BY <1>3, <1>5
  <2>2. Len(<<>>) = 0 /\ stream_send_offset[s] + 0 = stream_send_offset[s]
    BY <1>2
  <2>3. UNCHANGED <<pending_app_data, stream_send_offset>>
    BY <1>1, <1>2, <2>1, <2>2
  <2> QED BY <2>1, <2>3 DEF p
<1> QED BY <1>4, <1>5

\* egest() moves all that waits into its packet, sent or dropped, or nothing.
LEMMA StreamEgest ==
    ASSUME Inv, TypeInv', StreamInv, NEW s \in Side, NEW sp \in SpaceId, NEW room \in Rooms,
           Egest(s, sp, room)
    PROVE  StreamInv'
<1> DEFINE p == Assemble(s, sp)
           n == Len(pending_app_data[s])
<1>1. /\ pending_app_data \in [Side -> Seq(Nat)] /\ stream_send_offset \in [Side -> Nat]
      /\ written \in [Side -> Nat] /\ n \in Nat
  BY DEF Inv, TypeInv, TypeOK
<1>2. p \in Packet /\ p.from = s
  BY AssembleType, AssembleSpace DEF Inv, Egest, Selected
<1>3. sent' \subseteq sent \cup {p} /\ UNCHANGED <<received_app_data, written, delivered>>
  BY DEF Egest
<1>4. QueueInv /\ FramesInv /\ ArrivedInv /\ TypeInv
  BY DEF StreamInv, Inv
<1>5. CASE /\ p.stream = <<>> /\ p.stream_off = 0
           /\ UNCHANGED <<pending_app_data, stream_send_offset>>
  <2>1. \A r \in Side : stream_send_offset'[r] >= stream_send_offset[r]
    BY <1>1, <1>5
  <2>2. FramesInv'
    <3> HIDE DEF p
    <3> QED BY <1>2, <1>3, <1>4, <1>5, <2>1, FramesStep
  <2>3. ArrivedInv'
    BY <1>3, <1>4, <2>1, ArrivedKept
  <2>4. QueueInv'
    BY <1>3, <1>4, <1>5 DEF QueueInv
  <2> QED BY <2>2, <2>3, <2>4 DEF StreamInv
<1>6. CASE /\ p.stream = pending_app_data[s]
           /\ p.stream_off = stream_send_offset[s]
           /\ pending_app_data' = [pending_app_data EXCEPT ![s] = <<>>]
           /\ stream_send_offset' = [stream_send_offset EXCEPT ![s] = stream_send_offset[s] + n]
  <2>1. \A r \in Side : stream_send_offset'[r] >= stream_send_offset[r]
    BY <1>1, <1>6
  <2>2. FramesInv'
    <3>1. /\ p.stream_off = stream_send_offset[p.from]
          /\ \A i \in 1..Len(p.stream) : p.stream[i] = p.stream_off + i
      BY <1>2, <1>4, <1>6 DEF QueueInv
    <3>2. p.stream_off + Len(p.stream) <= stream_send_offset'[p.from]
      BY <1>1, <1>2, <1>6
    <3> HIDE DEF p
    <3> QED BY <1>2, <1>3, <1>4, <2>1, <3>1, <3>2, FramesStep
  <2>3. ArrivedInv'
    BY <1>3, <1>4, <2>1, ArrivedKept
  <2>4. QueueInv'
    <3> SUFFICES ASSUME NEW r \in Side
                 PROVE  /\ stream_send_offset'[r] + Len(pending_app_data'[r]) = written[r]
                        /\ \A i \in 1..Len(pending_app_data'[r]) :
                               pending_app_data'[r][i] = stream_send_offset'[r] + i
      BY <1>3 DEF QueueInv
    <3>1. CASE r = s
      <4>1. pending_app_data'[s] = <<>> /\ stream_send_offset'[s] = stream_send_offset[s] + n
        BY <1>1, <1>6
      <4>2. Len(<<>>) = 0 OBVIOUS
      <4>3. stream_send_offset[s] + n = written[s] BY <1>4 DEF QueueInv
      <4> QED BY <1>1, <3>1, <4>1, <4>2, <4>3
    <3>2. CASE r # s
      <4>1. pending_app_data'[r] = pending_app_data[r]
            /\ stream_send_offset'[r] = stream_send_offset[r]
        BY <1>1, <1>6, <3>2
      <4> QED BY <1>4, <4>1 DEF QueueInv
    <3> QED BY <3>1, <3>2
  <2> QED BY <2>2, <2>3, <2>4 DEF StreamInv
<1> QED BY <1>4, <1>5, <1>6, EgestData

\* send_data() puts the next position at the end of the queue.
LEMMA StreamSendData ==
    ASSUME Inv, TypeInv', StreamInv, NEW s \in Side, SendData(s)
    PROVE  StreamInv'
<1> DEFINE old == pending_app_data[s]
           new == Append(old, written[s] + 1)
           off == stream_send_offset[s]
<1>1. /\ pending_app_data \in [Side -> Seq(Nat)] /\ stream_send_offset \in [Side -> Nat]
      /\ written \in [Side -> Nat]
  BY DEF Inv, TypeInv, TypeOK
<1>2. /\ written' = [written EXCEPT ![s] = written[s] + 1]
      /\ pending_app_data' = [pending_app_data EXCEPT ![s] = new]
      /\ UNCHANGED <<received_app_data, stream_send_offset, delivered, sent>>
  BY DEF SendData
<1>3. QueueInv'
  <2> SUFFICES ASSUME NEW r \in Side
               PROVE  /\ stream_send_offset[r] + Len(pending_app_data'[r]) = written'[r]
                      /\ \A i \in 1..Len(pending_app_data'[r]) :
                             pending_app_data'[r][i] = stream_send_offset[r] + i
    BY <1>2 DEF QueueInv
  <2>1. CASE r = s
    <3>1. pending_app_data'[r] = new /\ written'[r] = written[s] + 1
      BY <1>1, <1>2, <2>1
    <3>2. /\ old \in Seq(Nat) /\ off \in Nat /\ written[s] \in Nat
          /\ off + Len(old) = written[s]
          /\ \A i \in 1..Len(old) : old[i] = off + i
      BY <1>1 DEF StreamInv, QueueInv
    <3> HIDE DEF old, off
    <3>3. /\ Len(new) = Len(old) + 1 /\ Len(old) \in Nat
          /\ \A i \in 1..Len(old) : new[i] = old[i]
          /\ new[Len(old) + 1] = written[s] + 1
      BY <3>2
    <3>4. off + Len(new) = written[s] + 1
      BY <3>2, <3>3
    <3> HIDE DEF new
    <3>5. ASSUME NEW i \in 1..Len(new) PROVE new[i] = off + i
      <4>1. CASE i \in 1..Len(old) BY <3>2, <3>3, <4>1
      <4>2. CASE i = Len(old) + 1 BY <3>2, <3>3, <4>2
      <4> QED BY <3>3, <4>1, <4>2
    <3> QED BY <2>1, <3>1, <3>4, <3>5 DEF off
  <2>2. CASE r # s
    <3>1. pending_app_data'[r] = pending_app_data[r] /\ written'[r] = written[r]
      BY <1>1, <1>2, <2>2
    <3> QED BY <3>1 DEF StreamInv, QueueInv
  <2> QED BY <2>1, <2>2
<1>4. FramesInv' /\ ArrivedInv'
  BY <1>2 DEF StreamInv, FramesInv, ArrivedInv
<1> QED BY <1>3, <1>4 DEF StreamInv

\* What a sequence made of two holds.
LEMMA ConcatHolds ==
    ASSUME NEW S, NEW a \in Seq(Nat), NEW b \in Seq(Nat),
           \A i \in 1..Len(a) : a[i] \in S, \A i \in 1..Len(b) : b[i] \in S
    PROVE  \A i \in 1..Len(a \o b) : (a \o b)[i] \in S
<1> SUFFICES ASSUME NEW i \in 1..Len(a \o b) PROVE (a \o b)[i] \in S
  OBVIOUS
<1>1. Len(a \o b) = Len(a) + Len(b) /\ Len(a) \in Nat /\ Len(b) \in Nat
  OBVIOUS
<1>2. CASE i <= Len(a)
  <2>1. (a \o b)[i] = a[i] /\ i \in 1..Len(a) BY <1>1, <1>2
  <2> QED BY <2>1
<1>3. CASE i > Len(a)
  <2>1. (a \o b)[i] = b[i - Len(a)] /\ i - Len(a) \in 1..Len(b) BY <1>1, <1>3
  <2> QED BY <2>1
<1> QED BY <1>1, <1>2, <1>3

\* recv_data() hands over what has arrived.
LEMMA StreamRecvData ==
    ASSUME Inv, TypeInv', StreamInv, NEW s \in Side, NEW n \in 1..MaxRecv, RecvData(s, n)
    PROVE  StreamInv'
<1> DEFINE got == received_app_data[s]
           head == SubSeq(got, 1, n)
           rest == SubSeq(got, n + 1, Len(got))
           S == 1..stream_send_offset[Peer(s)]
<1>1. /\ received_app_data \in [Side -> Seq(Nat)] /\ delivered \in [Side -> Seq(Nat)]
      /\ n \in Nat /\ n >= 1 /\ n <= Len(got)
  BY ConnectionAssumption DEF Inv, TypeInv, TypeOK, RecvData
<1>2. /\ delivered' = [delivered EXCEPT ![s] = delivered[s] \o head]
      /\ received_app_data' = [received_app_data EXCEPT ![s] = rest]
      /\ UNCHANGED <<pending_app_data, stream_send_offset, written, sent>>
  BY DEF RecvData
<1>3. got \in Seq(Nat) /\ \A i \in 1..Len(got) : got[i] \in S
  BY <1>1 DEF StreamInv, ArrivedInv
<1> HIDE DEF got, S
<1>4. head \in Seq(Nat) /\ rest \in Seq(Nat)
  BY <1>1, <1>3
<1>5. \A i \in 1..Len(head) : head[i] \in S
  BY <1>1, <1>3
<1>6. \A i \in 1..Len(rest) : rest[i] \in S
  BY <1>1, <1>3
<1> HIDE DEF head, rest
<1>7. \A i \in 1..Len(delivered[s] \o head) : (delivered[s] \o head)[i] \in S
  <2>1. delivered[s] \in Seq(Nat) /\ \A i \in 1..Len(delivered[s]) : delivered[s][i] \in S
    BY <1>1 DEF S, StreamInv, ArrivedInv
  <2> QED BY <1>4, <1>5, <2>1, ConcatHolds
<1>8. ArrivedInv'
  <2> SUFFICES ASSUME NEW r \in Side
               PROVE  /\ \A i \in 1..Len(received_app_data'[r]) :
                             received_app_data'[r][i] \in 1..stream_send_offset[Peer(r)]
                      /\ \A i \in 1..Len(delivered'[r]) :
                             delivered'[r][i] \in 1..stream_send_offset[Peer(r)]
    BY <1>2 DEF ArrivedInv
  <2>1. CASE r = s
    <3>1. received_app_data'[r] = rest /\ delivered'[r] = delivered[s] \o head
      BY <1>1, <1>2, <2>1
    <3> QED BY <1>6, <1>7, <2>1, <3>1 DEF S
  <2>2. CASE r # s
    <3>1. received_app_data'[r] = received_app_data[r] /\ delivered'[r] = delivered[r]
      BY <1>1, <1>2, <2>2
    <3> QED BY <3>1 DEF StreamInv, ArrivedInv
  <2> QED BY <2>1, <2>2
<1>9. QueueInv' /\ FramesInv'
  BY <1>2 DEF StreamInv, QueueInv, FramesInv
<1> QED BY <1>8, <1>9 DEF StreamInv

\* ingest() appends what the packet holds, which is below its sender's offset.
LEMMA StreamIngest ==
    ASSUME Inv, TypeInv', StreamInv, NEW s \in Side, NEW p \in sent, NEW t \in Tickets,
           Ingest(s, p, t)
    PROVE  StreamInv'
<1> DEFINE got == received_app_data[s]
           S == 1..stream_send_offset[Peer(s)]
<1>1. /\ UNCHANGED <<pending_app_data, stream_send_offset, written, delivered, sent>>
      /\ \/ received_app_data' = [received_app_data EXCEPT ![s] = got \o p.stream]
         \/ received_app_data' = [received_app_data EXCEPT ![s] = got]
      /\ p.from = Peer(s)
  BY DEF Ingest, Decrypts
<1>2. /\ received_app_data \in [Side -> Seq(Nat)] /\ got \in Seq(Nat)
      /\ p.stream \in Seq(Nat) /\ p.stream_off \in Nat /\ Len(p.stream) \in Nat
      /\ stream_send_offset[Peer(s)] \in Nat
  BY PacketPlace, PeerFacts DEF Inv, TypeInv, TypeOK
<1>3. /\ \A i \in 1..Len(p.stream) : p.stream[i] = p.stream_off + i
      /\ p.stream_off + Len(p.stream) <= stream_send_offset[Peer(s)]
  BY <1>1 DEF StreamInv, FramesInv
<1>4. \A i \in 1..Len(p.stream) : p.stream[i] \in S
  <2> SUFFICES ASSUME NEW i \in 1..Len(p.stream) PROVE p.stream[i] \in S OBVIOUS
  <2>1. p.stream[i] = p.stream_off + i BY <1>3
  <2>2. PICK off, len, top : off = p.stream_off /\ len = Len(p.stream)
                             /\ top = stream_send_offset[Peer(s)]
    OBVIOUS
  <2>3. i \in Nat /\ i >= 1 /\ off + i <= top BY <1>2, <1>3, <2>2
  <2> QED BY <1>2, <2>1, <2>2, <2>3
<1>5. \A i \in 1..Len(got) : got[i] \in S
  BY DEF StreamInv, ArrivedInv
<1> HIDE DEF got, S
<1>6. \A i \in 1..Len(got \o p.stream) : (got \o p.stream)[i] \in S
  BY <1>2, <1>4, <1>5, ConcatHolds
<1>7. \A i \in 1..Len(received_app_data'[s]) : received_app_data'[s][i] \in S
  <2>1. received_app_data'[s] = got \o p.stream \/ received_app_data'[s] = got
    BY <1>1, <1>2
  <2> QED BY <1>5, <1>6, <2>1
<1>8. \A r \in Side : r # s => received_app_data'[r] = received_app_data[r]
  BY <1>1, <1>2
<1>9. ArrivedInv'
  BY <1>1, <1>7, <1>8 DEF S, StreamInv, ArrivedInv
<1>10. QueueInv' /\ FramesInv'
  BY <1>1 DEF StreamInv, QueueInv, FramesInv
<1> QED BY <1>9, <1>10 DEF StreamInv

\* connect(), accept() and a closing peer leave the stream alone.
LEMMA StreamOther ==
    ASSUME Inv, TypeInv', StreamInv, UNCHANGED stream_vars,
           NEW p \in Packet, p.stream = <<>>, p.stream_off = 0, sent' \subseteq sent \cup {p}
    PROVE  StreamInv'
<1>1. \A r \in Side : stream_send_offset'[r] >= stream_send_offset[r]
  BY DEF stream_vars, Inv, TypeInv, TypeOK
<1>2. FramesInv'
  BY <1>1, FramesStep DEF StreamInv, Inv
<1>3. QueueInv' /\ ArrivedInv'
  BY DEF stream_vars, StreamInv, QueueInv, ArrivedInv
<1> QED BY <1>2, <1>3 DEF StreamInv

\* The invariant of the stream is inductive.
LEMMA StreamInvNext == Inv /\ StreamInv /\ [Next]_vars => StreamInv'
<1> SUFFICES ASSUME Inv, StreamInv, [Next]_vars PROVE StreamInv'
  OBVIOUS
<1>1. TypeInv'
  BY TypeInvNext DEF Inv
<1>2. CASE UNCHANGED vars
  BY <1>2 DEF vars, StreamInv, QueueInv, FramesInv, ArrivedInv
<1>3. CASE Connect
  <2>1. InitialPacket \in sent' /\ sent' \subseteq sent \cup {InitialPacket}
        /\ UNCHANGED stream_vars
    BY <1>3 DEF Connect
  <2>2. InitialPacket \in Packet
    BY <1>1, <2>1 DEF TypeInv, TypeOK
  <2>3. InitialPacket.stream = <<>> /\ InitialPacket.stream_off = 0
    BY DEF InitialPacket
  <2> QED BY <1>1, <2>1, <2>2, <2>3, StreamOther
<1>4. ASSUME NEW p \in sent, Accept(p) PROVE StreamInv'
  <2>1. UNCHANGED <<stream_vars, sent>>
    BY <1>4 DEF Accept
  <2> QED BY <2>1 DEF stream_vars, StreamInv, QueueInv, FramesInv, ArrivedInv
<1>5. ASSUME NEW s \in Side, NEW sp \in SpaceId, NEW code \in {"Known", "Unknown"},
             PeerClose(s, sp, code)
      PROVE  StreamInv'
  <2>1. PICK p : sent' = sent \cup {p} /\ p.stream = <<>> /\ p.stream_off = 0
    <3> DEFINE p == [ from |-> s, form |-> FormFor(s, sp), key |-> keys[s][sp],
                      pn |-> space[s][sp].next_send_pn, crypto |-> <<>>, crypto_off |-> 0,
                      ack |-> {}, done |-> FALSE, stream |-> <<>>, stream_off |-> 0,
                      close |-> code ]
    <3>1. sent' = sent \cup {p} BY <1>5 DEF PeerClose
    <3>2. p.stream = <<>> /\ p.stream_off = 0 OBVIOUS
    <3> HIDE DEF p
    <3> QED BY <3>1, <3>2
  <2>2. p \in Packet
    BY <1>1, <2>1 DEF TypeInv, TypeOK
  <2>3. UNCHANGED stream_vars
    BY <1>5 DEF PeerClose
  <2> QED BY <1>1, <2>1, <2>2, <2>3, StreamOther
<1>6. CASE \E s \in Side, p \in sent, t \in Tickets : Ingest(s, p, t)
  BY <1>1, <1>6, StreamIngest
<1>7. CASE \E s \in Side, sp \in SpaceId, room \in Rooms : Egest(s, sp, room)
  BY <1>1, <1>7, StreamEgest
<1>8. CASE \E s \in Side : SendData(s)
  BY <1>1, <1>8, StreamSendData
<1>9. CASE \E s \in Side, n \in 1..MaxRecv : RecvData(s, n)
  BY <1>1, <1>9, StreamRecvData
<1> QED BY <1>2, <1>3, <1>4, <1>5, <1>6, <1>7, <1>8, <1>9 DEF Next

\* Nothing is written, queued, sent or received at first.
LEMMA StreamInvariant == Spec => []StreamInv
<1>1. Init => StreamInv
  <2>1. Len(<<>>) = 0 /\ 0 + 0 = 0 /\ 1..0 = {}
    OBVIOUS
  <2> QED BY <2>1 DEF Init, StreamInv, QueueInv, FramesInv, ArrivedInv
<1> QED BY <1>1, StreamInvNext, HandshakeInvariant, PTL DEF Spec, Inv

\* STREAM frames label every byte with the position it was written at, and no
\* byte is in two packets, dropped packets and the switch to Established
\* included.
THEOREM OffsetsTheorem == Spec => []StreamOffsetsRight
<1>1. TypeInv /\ StreamInv => StreamOffsetsRight
  <2> SUFFICES ASSUME TypeInv, StreamInv PROVE StreamOffsetsRight
    OBVIOUS
  <2>1. ASSUME NEW p \in sent
        PROVE  \A x \in Range(p.stream) :
                   x \in Nat /\ x > p.stream_off /\ x <= p.stream_off + Len(p.stream)
    <3>1. /\ p.stream \in Seq(Nat) /\ p.stream_off \in Nat /\ Len(p.stream) \in Nat
          /\ \A i \in 1..Len(p.stream) : p.stream[i] = p.stream_off + i
      BY PacketPlace DEF StreamInv, FramesInv
    <3>2. DOMAIN p.stream = 1..Len(p.stream) BY <3>1
    <3>3. ASSUME NEW x \in Range(p.stream)
          PROVE  x \in Nat /\ x > p.stream_off /\ x <= p.stream_off + Len(p.stream)
      <4>1. PICK i \in 1..Len(p.stream) : x = p.stream[i] BY <3>2 DEF Range
      <4> QED BY <3>1, <4>1
    <3> QED BY <3>3
  <2>2. ASSUME NEW p \in sent, NEW q \in sent, p # q, p.from = q.from
        PROVE  Range(p.stream) \cap Range(q.stream) = {}
    <3>1. /\ p.stream_off \in Nat /\ Len(p.stream) \in Nat
          /\ q.stream_off \in Nat /\ Len(q.stream) \in Nat
          /\ \/ p.stream_off + Len(p.stream) <= q.stream_off
             \/ q.stream_off + Len(q.stream) <= p.stream_off
      BY <2>2, PacketPlace DEF StreamInv, FramesInv
    <3>2. ASSUME NEW x, x \in Range(p.stream), x \in Range(q.stream) PROVE FALSE
      <4>1. /\ x \in Nat /\ x > p.stream_off /\ x <= p.stream_off + Len(p.stream)
            /\ x > q.stream_off /\ x <= q.stream_off + Len(q.stream)
        BY <2>1, <3>2
      <4> QED BY <3>1, <4>1
    <3> QED BY <3>2
  <2> QED BY <2>2 DEF StreamInv, FramesInv, StreamOffsetsRight
<1> QED BY <1>1, StreamInvariant, HandshakeInvariant, PTL

\* What has been received was written by the other application before.
THEOREM WrittenTheorem == Spec => []ReceivedWasWritten
<1>1. TypeInv /\ StreamInv => ReceivedWasWritten
  <2> SUFFICES ASSUME TypeInv, StreamInv, NEW s \in Side
               PROVE  Range(delivered[s] \o received_app_data[s]) \subseteq 1..written[Peer(s)]
    BY DEF ReceivedWasWritten
  <2> DEFINE a == delivered[s]
             b == received_app_data[s]
             off == stream_send_offset[Peer(s)]
             n == written[Peer(s)]
  <2>1. /\ a \in Seq(Nat) /\ b \in Seq(Nat) /\ off \in Nat /\ n \in Nat
        /\ Len(pending_app_data[Peer(s)]) \in Nat
    BY PeerFacts DEF TypeInv, TypeOK
  <2>2. off + Len(pending_app_data[Peer(s)]) = n
    BY PeerFacts DEF StreamInv, QueueInv
  <2>3. /\ \A i \in 1..Len(a) : a[i] \in 1..off
        /\ \A i \in 1..Len(b) : b[i] \in 1..off
    BY DEF StreamInv, ArrivedInv
  <2> HIDE DEF a, b, off, n
  <2>4. \A i \in 1..Len(a \o b) : (a \o b)[i] \in 1..off
    BY <2>1, <2>3, ConcatHolds
  <2>5. 1..off \subseteq 1..n
    BY <2>1, <2>2
  <2>6. DOMAIN (a \o b) = 1..Len(a \o b)
    BY <2>1
  <2>7. Range(a \o b) \subseteq 1..n
    BY <2>4, <2>5, <2>6 DEF Range
  <2> QED BY <2>7 DEF a, b, n
<1> QED BY <1>1, StreamInvariant, HandshakeInvariant, PTL
=============================================================================
