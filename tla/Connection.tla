----------------------------- MODULE Connection -----------------------------
(***************************************************************************)
(* The QUIC connection state machine: one client and one server            *)
(* Connection, each with its three packet number spaces, its TLS session   *)
(* and its stream buffers, joined by a network that loses, duplicates,     *)
(* delays and reorders. A packet that was sent stays in "sent" for ever    *)
(* and may be ingested at any time, any number of times, or never.         *)
(*                                                                         *)
(* What a packet holds is abstracted: a TLS flight is one message, a byte  *)
(* of the stream is the position at which the application wrote it, a key  *)
(* is the name of its epoch. Sealing is modelled by what it guarantees:    *)
(* a packet opens only with the keys of its epoch and with the packet      *)
(* number it was sealed with.                                              *)
(***************************************************************************)
EXTENDS Space

CONSTANTS MaxPn,     \* bound: packets sent, per side and space
          MaxAcks,   \* bound: packets received and not yet acknowledged
          MaxData,   \* bound: bytes the application writes, per side
          MaxRecv,   \* bound: bytes waiting to be read by the application
          Rooms,     \* sizes of the buffers egest is given, in units of payload
          PeerCloses \* the sides whose peer implementation may close

Side == {"client", "server"}
Peer(s) == IF s = "client" THEN "server" ELSE "client"

SpaceId == {"Initial", "Handshake", "AppData"}

ASSUME ConnectionAssumption ==
    /\ MaxPn \in [Side -> [SpaceId -> Nat]]
    /\ MaxData \in [Side -> Nat]
    /\ MaxAcks \in Nat /\ MaxRecv \in Nat
    /\ Rooms \subseteq Nat
    /\ PeerCloses \subseteq Side

\* Mutant: the application data first.
Before_Reversed(sp) ==
    IF sp = "AppData" THEN {}
    ELSE IF sp = "Handshake" THEN {"AppData"}
    ELSE {"AppData", "Handshake"}

\* The order in which egest visits the spaces: those visited before sp.
Before(sp) ==
    IF sp = "Initial" THEN {}
    ELSE IF sp = "Handshake" THEN {"Initial"}
    ELSE {"Initial", "Handshake"}

State == {"None", "Connecting", "Handshaking", "Established", "Closed"}

\* The TLS session (rustls): what it has read so far.
Tls == {"None", "C_Hello", "C_Secure", "C_Done", "S_Flight", "S_Done", "Failed"}

NoKeys == "NoKeys"
Epoch == {"InitialKeys", "HandshakeKeys", "OneRttKeys"}
Keys == Epoch \cup {NoKeys}

\* TLS flights: ClientHello, ServerHello, EncryptedExtensions to server
\* Finished, client Finished, NewSessionTicket.
Flight == {"CH", "SH", "SF", "CF", "NST"}

Form == {"Initial", "Handshake", "ZeroRtt", "Short"}

CloseCode == {"none", "Known", "Unknown"}
CloseReason == {"none", "Known", "InternalError"}

Ack == [largest : Nat, first_range : Nat]

Packet ==
    [ from       : Side,
      form       : Form,         \* the header: long type or short
      key        : Epoch,        \* the keys that sealed it
      pn         : Nat,
      crypto     : Seq(Flight),  \* CRYPTO frame, <<>> if absent
      crypto_off : Nat,
      ack        : SUBSET Ack,   \* ACK frame, a set of at most one
      done       : BOOLEAN,      \* HANDSHAKE_DONE frame
      stream     : Seq(Nat),     \* STREAM frame, <<>> if absent
      stream_off : Nat,
      close      : CloseCode ]   \* CONNECTION_CLOSE frame

VARIABLES
    state, tls, keys, space, pending_crypto, crypto_recv_offset,
    pending_app_data, received_app_data, stream_send_offset, close_reason,
    written,    \* history: bytes the application has handed to send_data
    delivered,  \* history: bytes recv_data has returned
    sent        \* the network: every packet ever sent

conn_vars == <<state, tls, keys, space, pending_crypto, crypto_recv_offset>>
stream_vars == <<pending_app_data, received_app_data, stream_send_offset,
                 written, delivered>>
vars == <<state, tls, keys, space, pending_crypto, crypto_recv_offset,
          pending_app_data, received_app_data, stream_send_offset, close_reason,
          written, delivered, sent>>

Init ==
    /\ state = [s \in Side |-> "None"]
    /\ tls = [s \in Side |-> "None"]
    /\ keys = [s \in Side |-> [sp \in SpaceId |-> NoKeys]]
    /\ space = [s \in Side |-> [sp \in SpaceId |-> SpaceNew]]
    /\ pending_crypto = [s \in Side |-> [sp \in SpaceId |-> <<>>]]
    /\ crypto_recv_offset = [s \in Side |-> [sp \in SpaceId |-> 0]]
    /\ pending_app_data = [s \in Side |-> <<>>]
    /\ received_app_data = [s \in Side |-> <<>>]
    /\ stream_send_offset = [s \in Side |-> 0]
    /\ close_reason = [s \in Side |-> "none"]
    /\ written = [s \in Side |-> 0]
    /\ delivered = [s \in Side |-> <<>>]
    /\ sent = {}

-----------------------------------------------------------------------------
(* TLS (external): what read_hs followed by write_hs, called until it gives *)
(* no further keys, does to a session. out1 and keys1 are the first write,  *)
(* out2 and keys2 the second one. A server may add tickets once the client  *)
(* has finished, and a client that has finished takes any number of them in *)
(* silence. Anything else that is not the next flight is an error.          *)

TlsStep(next, o1, k1, o2, k2) ==
    [tls |-> next, out1 |-> o1, keys1 |-> k1, out2 |-> o2, keys2 |-> k2]

TlsRead(t, flights, tickets) ==
    IF t = "None" /\ flights = <<"CH">>
    THEN TlsStep("S_Flight", <<"SH">>, "HandshakeKeys", <<"SF">>, "OneRttKeys")
    ELSE IF t = "C_Hello" /\ flights = <<"SH">>
    THEN TlsStep("C_Secure", <<>>, "HandshakeKeys", <<>>, NoKeys)
    ELSE IF t = "C_Secure" /\ flights = <<"SF">>
    THEN TlsStep("C_Done", <<"CF">>, "OneRttKeys", <<>>, NoKeys)
    ELSE IF t = "S_Flight" /\ flights = <<"CF">>
    THEN TlsStep("S_Done", tickets, NoKeys, <<>>, NoKeys)
    ELSE IF t = "C_Done" /\ flights = <<"NST">>
    THEN TlsStep("C_Done", <<>>, NoKeys, <<>>, NoKeys)
    ELSE TlsStep("Failed", <<>>, NoKeys, <<>>, NoKeys)

Tickets == {<<>>, <<"NST">>}

-----------------------------------------------------------------------------
(* handle_crypto_output: TLS output is queued at the level it was read at,  *)
(* and the second write one level up; new keys go to the next space. Which  *)
(* epoch the keys belong to is not looked at.                               *)

NextSpace(sp) == IF sp = "Initial" THEN "Handshake" ELSE "AppData"

\* Mutant: the second write is queued at the level of the first.
QueueCrypto_SameLevel(pending, sp, r) ==
    [pending EXCEPT ![sp] = @ \o r.out1 \o r.out2]

QueueCrypto(pending, sp, r) ==
    [x \in SpaceId |->
        pending[x]
            \o (IF x = sp THEN r.out1 ELSE <<>>)
            \o (IF r.keys1 # NoKeys /\ sp # "AppData" /\ x = NextSpace(sp)
                THEN r.out2 ELSE <<>>)]

\* set_keys guarded by !has_keys.
SetIfNone(old, new) == IF old = NoKeys THEN new ELSE old

\* Mutants: keys go one space too far; the keys of the second write are
\* forgotten; keys are set whether TLS gave some or not.
InstallKeys_TooFar(k, sp, r) ==
    [k EXCEPT !["AppData"] = SetIfNone(@, r.keys1)]
InstallKeys_FirstOnly(k, sp, r) ==
    [k EXCEPT ![NextSpace(sp)] = SetIfNone(@, r.keys1)]
InstallKeys_Always(k, sp, r) ==
    IF sp = "Initial" THEN [k EXCEPT !["Handshake"] = r.keys1, !["AppData"] = r.keys2]
    ELSE [k EXCEPT !["AppData"] = r.keys1]

InstallKeys(k, sp, r) ==
    [x \in SpaceId |->
        IF r.keys1 = NoKeys THEN k[x]
        ELSE IF sp = "Initial" /\ x = "Handshake" THEN SetIfNone(k[x], r.keys1)
        ELSE IF sp = "Initial" /\ x = "AppData" THEN SetIfNone(k[x], r.keys2)
        ELSE IF sp = "Handshake" /\ x = "AppData"
        THEN IF r.keys2 # NoKeys THEN r.keys2 ELSE SetIfNone(k[x], r.keys1)
        ELSE k[x]]

-----------------------------------------------------------------------------
\* connect(): the first Initial packet is built by hand, not by egest.
InitialPacket ==
    [ from |-> "client", form |-> "Initial", key |-> "InitialKeys", pn |-> 0,
      crypto |-> <<"CH">>, crypto_off |-> 0, ack |-> {}, done |-> FALSE,
      stream |-> <<>>, stream_off |-> 0, close |-> "none" ]

Connect ==
    /\ state["client"] = "None"
    /\ state' = [state EXCEPT !["client"] = "Connecting"]
    /\ tls' = [tls EXCEPT !["client"] = "C_Hello"]
    /\ keys' = [keys EXCEPT !["client"]["Initial"] = "InitialKeys"]
    /\ space' = [space EXCEPT !["client"]["Initial"] = NextSendPn(SpaceNew)]
    /\ sent' = sent \cup {InitialPacket}
    /\ UNCHANGED <<pending_crypto, crypto_recv_offset, close_reason, stream_vars>>

\* accept(): both flights of the server are taken from TLS at once, so all
\* three spaces have keys before anything is sent. The packet's own number is
\* not looked at: 0 is recorded. What the packet has at offset 0 is all that TLS
\* is given, and it is a ClientHello in every packet that a server may find.
Accept(p) ==
    LET r == TlsRead("None", p.crypto, <<>>)
        k == [keys["server"] EXCEPT !["Initial"] = "InitialKeys"]
    IN  /\ state["server"] = "None"
        /\ p.from = "client" /\ p.key = "InitialKeys" /\ LongPn(p.pn) = p.pn
        /\ p.crypto_off = 0
        /\ r.tls # "Failed"
        /\ state' = [state EXCEPT !["server"] = "Handshaking"]
        /\ tls' = [tls EXCEPT !["server"] = r.tls]
        /\ keys' = [keys EXCEPT !["server"] = InstallKeys(k, "Initial", r)]
        /\ space' = [space EXCEPT !["server"]["Initial"] = RecordRecvPn(SpaceNew, 0)]
        /\ pending_crypto' = [pending_crypto EXCEPT !["server"] = QueueCrypto(@, "Initial", r)]
        /\ crypto_recv_offset' =
               [crypto_recv_offset EXCEPT !["server"]["Initial"] = Len(p.crypto)]
        /\ UNCHANGED <<close_reason, stream_vars, sent>>

-----------------------------------------------------------------------------
\* Mutant: a closed connection goes on.
Open_EvenClosed(s) == state[s] # "None"

\* ingest and egest return Err(Closed) once the state is Closed.
Open(s) == state[s] \notin {"None", "Closed"}

\* The space a packet belongs to, by its header.
SpaceOf(form) == IF form \in {"Initial", "Handshake"} THEN form ELSE "AppData"

\* Mutant: the keys of both directions are taken for the same.
Decrypts_AnyDirection(s, p) ==
    keys[s][SpaceOf(p.form)] = p.key /\ LongPn(p.pn) = p.pn

\* Header parsing, header protection, packet number decoding and AEAD, as one
\* question: does the receiver get at the frames? It opens packets with the
\* remote half of its keys. (A short header packet whose protected first byte
\* parse_short_header rejects is a packet that is never ingested.)
Decrypts(s, p) ==
    LET sp == SpaceOf(p.form)
    IN  /\ p.from = Peer(s)
        /\ keys[s][sp] = p.key
        /\ IF p.form = "Short"
           THEN ShortPn(space[s][sp].largest_recv_pn, p.pn) = p.pn
           ELSE LongPn(p.pn) = p.pn

\* Mutant: a CRYPTO frame is fed to TLS whatever its offset.
InOrder_Ignored(s, p) == p.crypto # <<>>

\* Is there a CRYPTO frame, and is it the one this level waits for?
InOrder(s, p) ==
    p.crypto # <<>> /\ p.crypto_off = crypto_recv_offset[s][SpaceOf(p.form)]

\* Mutants: handshake keys are taken for the end of the handshake; the frame
\* CONNECTION_CLOSE does not stop the connection.
StateAfter_Early(s, p, k) ==
    IF p.close # "none" THEN "Closed"
    ELSE IF k["Handshake"] # NoKeys THEN "Established" ELSE state[s]
StateAfter_NoClose(s, p, k) ==
    IF k["AppData"] # NoKeys THEN "Established" ELSE state[s]

\* The state of side s when the frames have been processed in their order:
\* CRYPTO, then CONNECTION_CLOSE or HANDSHAKE_DONE. The keys k are those
\* installed by the CRYPTO frame.
StateAfter(s, p, k) ==
    IF p.close # "none" THEN "Closed"
    ELSE IF p.done /\ s = "client" THEN "Established"
    ELSE IF keys[s]["AppData"] = NoKeys /\ k["AppData"] # NoKeys THEN "Established"
    ELSE state[s]

\* TransportError::from_code: a code outside its table is an internal error.
ReasonOf(code) == IF code = "Unknown" THEN "InternalError" ELSE code

\* ingest(): nothing changes unless the packet opens. Its number is recorded
\* before the frames are processed; a TLS error stops there. ACK frames are
\* ignored, and a STREAM frame is appended whatever its offset.
Ingest(s, p, tickets) ==
    LET sp  == SpaceOf(p.form)
        r   == TlsRead(tls[s], p.crypto, tickets)
        run == InOrder(s, p)
        ok  == ~run \/ r.tls # "Failed"
        k   == IF run THEN InstallKeys(keys[s], sp, r) ELSE keys[s]
    IN  /\ Open(s)
        /\ Decrypts(s, p)
        /\ Len(space[s][sp].pending_acks) < MaxAcks
        /\ Len(received_app_data[s]) + Len(p.stream) <= MaxRecv
        /\ (run /\ tls[s] = "S_Flight") \/ tickets = <<>>
        /\ space' = [space EXCEPT ![s][sp] = RecordRecvPn(@, p.pn)]
        /\ tls' = [tls EXCEPT ![s] = IF run THEN r.tls ELSE @]
        /\ keys' = [keys EXCEPT ![s] = k]
        /\ pending_crypto' = [pending_crypto EXCEPT ![s] = IF run THEN QueueCrypto(@, sp, r) ELSE @]
        /\ crypto_recv_offset' =
               [crypto_recv_offset EXCEPT ![s][sp] = IF run /\ ok THEN @ + Len(p.crypto) ELSE @]
        /\ state' = [state EXCEPT ![s] = IF ok THEN StateAfter(s, p, k) ELSE @]
        /\ close_reason' =
               [close_reason EXCEPT ![s] = IF ~ok \/ p.close = "none" THEN @
                                           ELSE ReasonOf(p.close)]
        /\ received_app_data' = [received_app_data EXCEPT ![s] = IF ok THEN @ \o p.stream ELSE @]
        /\ UNCHANGED <<pending_app_data, stream_send_offset, written, delivered, sent>>

-----------------------------------------------------------------------------
\* The frames egest has for a space.
SendsDone(s, sp) == sp = "AppData" /\ s = "server" /\ state[s] = "Handshaking"

SendsStream(s, sp) ==
    sp = "AppData" /\ state[s] = "Established" /\ pending_app_data[s] # <<>>

HasFrames(s, sp) ==
    \/ pending_crypto[s][sp] # <<>>
    \/ space[s][sp].pending_acks # <<>>
    \/ SendsDone(s, sp)
    \/ SendsStream(s, sp)

\* The first space, in egest's order, with keys and something to send.
Selected(s, sp) ==
    /\ keys[s][sp] # NoKeys
    /\ HasFrames(s, sp)
    /\ \A q \in Before(sp) : ~(keys[s][q] # NoKeys /\ HasFrames(s, q))

\* Mutant: the header type is the name of the space.
FormFor_SpaceName(s, sp) == sp

\* encrypt_packet: a packet of the application space has a short header once
\* the connection is established, the header of a 0-RTT packet before.
FormFor(s, sp) ==
    IF sp # "AppData" THEN sp
    ELSE IF state[s] = "Established" THEN "Short" ELSE "ZeroRtt"

Assemble(s, sp) ==
    LET acks == space[s][sp].pending_acks
    IN  [ from       |-> s,
          form       |-> FormFor(s, sp),
          key        |-> keys[s][sp],
          pn         |-> space[s][sp].next_send_pn,
          crypto     |-> pending_crypto[s][sp],
          crypto_off |-> 0,
          ack        |-> IF acks = <<>> THEN {} ELSE {AckFrame(acks)},
          done       |-> SendsDone(s, sp),
          stream     |-> IF SendsStream(s, sp) THEN pending_app_data[s] ELSE <<>>,
          stream_off |-> IF SendsStream(s, sp) THEN stream_send_offset[s] ELSE 0,
          close      |-> "none" ]

\* The room a packet takes: one unit per flight and per byte of stream data.
Units(p) == Len(p.crypto) + Len(p.stream)

\* Mutant: the offset of the next STREAM frame stays where it was.
StreamOffsetAfter_Stuck(off, p) == off

StreamOffsetAfter(off, p) == off + Len(p.stream)

\* egest(): everything the packet holds is taken from the connection before
\* the packet is known to fit; if it does not fit, it is dropped and 0 returned.
Egest(s, sp, room) ==
    LET p == Assemble(s, sp)
    IN  /\ Open(s)
        /\ Selected(s, sp)
        /\ space[s][sp].next_send_pn < MaxPn[s][sp]
        /\ pending_crypto' = [pending_crypto EXCEPT ![s][sp] = <<>>]
        /\ space' = [space EXCEPT ![s][sp] = NextSendPn(TakePendingAcks(@))]
        /\ state' = [state EXCEPT ![s] = IF p.done THEN "Established" ELSE @]
        /\ pending_app_data' = [pending_app_data EXCEPT ![s] = IF p.stream # <<>> THEN <<>> ELSE @]
        /\ stream_send_offset' = [stream_send_offset EXCEPT ![s] = StreamOffsetAfter(@, p)]
        /\ sent' = IF Units(p) <= room THEN sent \cup {p} ELSE sent
        /\ UNCHANGED <<tls, keys, crypto_recv_offset, received_app_data, close_reason,
                       written, delivered>>

-----------------------------------------------------------------------------
\* send_data(), one byte at a time; a byte is named by its position. The code
\* does not ask for the state of the connection.
SendData(s) ==
    /\ state[s] # "None"
    /\ written[s] < MaxData[s]
    /\ written' = [written EXCEPT ![s] = @ + 1]
    /\ pending_app_data' = [pending_app_data EXCEPT ![s] = Append(@, written[s] + 1)]
    /\ UNCHANGED <<conn_vars, received_app_data, stream_send_offset, close_reason,
                   delivered, sent>>

\* recv_data(): the first n bytes received are copied out and drained.
RecvData(s, n) ==
    /\ n <= Len(received_app_data[s])
    /\ delivered' = [delivered EXCEPT ![s] = @ \o SubSeq(received_app_data[s], 1, n)]
    /\ received_app_data' =
           [received_app_data EXCEPT ![s] = SubSeq(@, n + 1, Len(@))]
    /\ UNCHANGED <<conn_vars, pending_app_data, stream_send_offset, close_reason,
                   written, sent>>

\* External: deerquic never sends CONNECTION_CLOSE, but it handles one. A side
\* in PeerCloses is another implementation that closes, with any code, in any
\* space it has keys for, and then is silent. A client waits with that until the
\* server is there: all that accept may find is then a packet of connect.
PeerClose(s, sp, code) ==
    /\ s \in PeerCloses
    /\ s = "client" => state["server"] # "None"
    /\ Open(s)
    /\ keys[s][sp] # NoKeys
    /\ space[s][sp].next_send_pn < MaxPn[s][sp]
    /\ sent' = sent \cup
           {[ from |-> s, form |-> FormFor(s, sp), key |-> keys[s][sp],
              pn |-> space[s][sp].next_send_pn, crypto |-> <<>>, crypto_off |-> 0,
              ack |-> {}, done |-> FALSE, stream |-> <<>>, stream_off |-> 0,
              close |-> code ]}
    /\ space' = [space EXCEPT ![s][sp] = NextSendPn(@)]
    /\ state' = [state EXCEPT ![s] = "Closed"]
    /\ UNCHANGED <<tls, keys, pending_crypto, crypto_recv_offset, close_reason, stream_vars>>

Next ==
    \/ Connect
    \/ \E p \in sent : Accept(p)
    \/ \E s \in Side, p \in sent, t \in Tickets : Ingest(s, p, t)
    \/ \E s \in Side, sp \in SpaceId, room \in Rooms : Egest(s, sp, room)
    \/ \E s \in Side : SendData(s)
    \/ \E s \in Side, n \in 1..MaxRecv : RecvData(s, n)
    \/ \E s \in Side, sp \in SpaceId, code \in {"Known", "Unknown"} : PeerClose(s, sp, code)

Spec == Init /\ [][Next]_vars

-----------------------------------------------------------------------------
\* Every variable of both connections has the shape of the struct's field.
TypeOK ==
    /\ state \in [Side -> State]
    /\ tls \in [Side -> Tls]
    /\ keys \in [Side -> [SpaceId -> Keys]]
    /\ space \in [Side -> [SpaceId -> Space]]
    /\ pending_crypto \in [Side -> [SpaceId -> Seq(Flight)]]
    /\ crypto_recv_offset \in [Side -> [SpaceId -> Nat]]
    /\ pending_app_data \in [Side -> Seq(Nat)]
    /\ received_app_data \in [Side -> Seq(Nat)]
    /\ stream_send_offset \in [Side -> Nat]
    /\ close_reason \in [Side -> CloseReason]
    /\ written \in [Side -> Nat]
    /\ delivered \in [Side -> Seq(Nat)]
    /\ sent \subseteq Packet

\* AEAD nonces are never reused: a side seals at most one packet with the same
\* keys and packet number, even when egest drops a packet that does not fit,
\* and although connect numbers its first packet by hand.
NonceUnique ==
    \A p, q \in sent : p.from = q.from /\ p.key = q.key /\ p.pn = q.pn => p = q

\* No order, loss or duplication of packets feeds TLS anything but its next
\* flight: the offset check of process_frames is enough, although every CRYPTO
\* frame is sent with offset 0, session tickets included.
TlsNeverFails == \A s \in Side : tls[s] # "Failed"

\* A level never has two flights queued in one CRYPTO frame: what egest takes
\* is exactly one flight, so the receiver's offset moves by whole flights.
OneFlightPerFrame ==
    /\ \A s \in Side, sp \in SpaceId : Len(pending_crypto[s][sp]) <= 1
    /\ \A p \in sent : Len(p.crypto) <= 1

\* Each space only ever holds the keys of its own epoch, on both sides, though
\* handle_crypto_output does not look at which KeyChange it was given.
EpochOfSpace ==
    \A s \in Side :
        /\ keys[s]["Initial"] \in {NoKeys, "InitialKeys"}
        /\ keys[s]["Handshake"] \in {NoKeys, "HandshakeKeys"}
        /\ keys[s]["AppData"] \in {NoKeys, "OneRttKeys"}

\* is_established() means that application data can be sealed: whichever of the
\* three ways led to Established (keys installed, HANDSHAKE_DONE received or
\* HANDSHAKE_DONE sent), the 1-RTT keys are there.
EstablishedHasKeys ==
    \A s \in Side : state[s] = "Established" => keys[s]["AppData"] = "OneRttKeys"

\* The client never gets keys its server does not have, and a server whose TLS
\* has finished knows that the client has: what one side believes of the
\* handshake is never ahead of the other side.
HandshakeAgreement ==
    /\ \A sp \in SpaceId \ {"Initial"} :
           keys["client"][sp] # NoKeys => keys["server"][sp] = keys["client"][sp]
    /\ tls["server"] = "S_Done" =>
           tls["client"] = "C_Done" /\ keys["client"]["AppData"] = "OneRttKeys"

\* A side records and acknowledges as largest only numbers the other side used,
\* although accept records 0 without looking at the packet.
AcksNumbersSent ==
    \A s \in Side, sp \in SpaceId :
        /\ \A i \in 1..Len(space[s][sp].pending_acks) :
               space[s][sp].pending_acks[i] < space[Peer(s)][sp].next_send_pn
        /\ \A p \in sent : p.from = s /\ SpaceOf(p.form) = sp =>
               \A ack \in p.ack : ack.largest < space[Peer(s)][sp].next_send_pn

\* STREAM frames label bytes with the position the application wrote them at,
\* and no byte is put in two packets, even when some packets are dropped by
\* egest or cross the switch to Established.
StreamOffsetsRight ==
    /\ \A p \in sent : \A i \in 1..Len(p.stream) : p.stream[i] = p.stream_off + i
    /\ \A p, q \in sent : p # q /\ p.from = q.from =>
           Range(p.stream) \cap Range(q.stream) = {}

\* What has been received is made of what the other application wrote.
ReceivedWasWritten ==
    \A s \in Side :
        Range(delivered[s] \o received_app_data[s]) \subseteq 1..written[Peer(s)]

\* close_reason() is there exactly when the peer closed the connection.
CloseReasonGiven ==
    \A s \in Side \ PeerCloses : state[s] = "Closed" <=> close_reason[s] # "none"

Rank(st) ==
    CASE st = "None" -> 0 [] st = "Connecting" -> 1 [] st = "Handshaking" -> 1
      [] st = "Established" -> 2 [] st = "Closed" -> 3

\* The connection state never goes back, whatever arrives late: in particular a
\* closed connection stays closed and silent.
StateOnlyAdvances ==
    [][\A s \in Side : /\ Rank(state'[s]) >= Rank(state[s])
                       /\ state[s] = "Closed" =>
                              \A p \in sent' \ sent : p.from # s]_vars

\* Keys, once installed in a space, are never replaced or dropped.
KeysNeverReplaced ==
    [][\A s \in Side, sp \in SpaceId :
           keys[s][sp] # NoKeys => keys'[s][sp] = keys[s][sp]]_vars

-----------------------------------------------------------------------------
(* What the documents the repository keeps say of the program and the code  *)
(* does not do: each of these is refuted by a run.                          *)

\* RFC 9000 19.20: "Servers MUST NOT send a HANDSHAKE_DONE frame before
\* completing the handshake." egest sends it as soon as it has 1-RTT keys,
\* which is before the client's Finished.
DoneAfterHandshake == (\E p \in sent : p.done) => tls["server"] = "S_Done"

\* The comment on egest: "Returns bytes written (0 if idle)." It also returns 0
\* when the packet does not fit, and then the data it took is lost: it is
\* neither queued nor on its way.
ZeroOnlyIfIdle ==
    \A s \in Side : \A b \in 1..written[s] :
        \/ b \in Range(pending_app_data[s])
        \/ \E p \in sent : p.from = s /\ b \in Range(p.stream)
=============================================================================
