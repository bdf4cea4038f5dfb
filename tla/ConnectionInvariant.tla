------------------------- MODULE ConnectionInvariant -------------------------
(***************************************************************************)
(* The inductive invariant of Connection: what is true of both             *)
(* connections and of the network between any two operations.              *)
(***************************************************************************)
EXTENDS Connection

\* The epoch whose keys a space uses.
EpochOf(sp) ==
    IF sp = "Initial" THEN "InitialKeys"
    ELSE IF sp = "Handshake" THEN "HandshakeKeys" ELSE "OneRttKeys"

\* What a side may have in the CRYPTO frame of a packet, or queued for one.
FlightsOf(s, sp) ==
    {<<>>} \cup
    (IF s = "client"
     THEN IF sp = "Initial" THEN {<<"CH">>}
          ELSE IF sp = "Handshake" THEN {<<"CF">>} ELSE {}
     ELSE IF sp = "Initial" THEN {<<"SH">>}
          ELSE IF sp = "Handshake" THEN {<<"SF">>, <<"NST">>} ELSE {})

\* The client's keys and receive offsets are a function of how far its TLS got.
ClientInv ==
    /\ tls["client"] \in {"None", "C_Hello", "C_Secure", "C_Done"}
    /\ state["client"] = "None" <=> tls["client"] = "None"
    /\ state["client"] # "Handshaking"
    /\ state["client"] = "Established" => tls["client"] = "C_Done"
    /\ keys["client"]["Initial"] =
           IF tls["client"] = "None" THEN NoKeys ELSE "InitialKeys"
    /\ keys["client"]["Handshake"] =
           IF tls["client"] \in {"C_Secure", "C_Done"} THEN "HandshakeKeys" ELSE NoKeys
    /\ keys["client"]["AppData"] =
           IF tls["client"] = "C_Done" THEN "OneRttKeys" ELSE NoKeys
    /\ crypto_recv_offset["client"]["Initial"] =
           IF tls["client"] \in {"C_Secure", "C_Done"} THEN 1 ELSE 0
    /\ crypto_recv_offset["client"]["Handshake"] =
           IF tls["client"] = "C_Done" THEN 1 ELSE 0

\* The server has all keys or none.
ServerInv ==
    /\ tls["server"] \in {"None", "S_Flight", "S_Done"}
    /\ state["server"] = "None" <=> tls["server"] = "None"
    /\ \A sp \in SpaceId :
           keys["server"][sp] = IF tls["server"] = "None" THEN NoKeys ELSE EpochOf(sp)
    /\ crypto_recv_offset["server"]["Initial"] =
           IF tls["server"] = "None" THEN 0 ELSE 1
    /\ crypto_recv_offset["server"]["Handshake"] =
           IF tls["server"] = "S_Done" THEN 1 ELSE 0

\* A packet was sealed with the keys of its space, under a number its sender
\* has used, and holds at most one flight, one its sender sends in that space.
PacketOK(p) ==
    /\ state[p.from] # "None"
    /\ p.key = EpochOf(SpaceOf(p.form))
    /\ p.pn < space[p.from][SpaceOf(p.form)].next_send_pn
    /\ p.crypto \in FlightsOf(p.from, SpaceOf(p.form))
    /\ p.crypto_off = 0
    /\ p.done => SpaceOf(p.form) = "AppData"

PacketInv == \A p \in sent : PacketOK(p)

\* What is queued is one flight at most, and nothing before the connection is.
PendingInv ==
    \A s \in Side, sp \in SpaceId :
        /\ pending_crypto[s][sp] \in FlightsOf(s, sp)
        /\ state[s] = "None" => pending_crypto[s][sp] = <<>>

\* Where the two sides are with respect to each other, and which flights can
\* exist at that point.
OrderInv ==
    /\ tls["client"] \in {"C_Secure", "C_Done"} => tls["server"] # "None"
    /\ tls["server"] = "S_Done" => tls["client"] = "C_Done"
    /\ \A p \in sent : p.crypto = <<"CF">> => tls["client"] = "C_Done"
    /\ \A p \in sent : p.crypto = <<"NST">> => tls["server"] = "S_Done"
    /\ \A p \in sent : p.crypto = <<"SF">> => pending_crypto["server"]["Handshake"] # <<"SF">>
    /\ tls["client"] = "C_Done" => pending_crypto["server"]["Handshake"] # <<"SF">>
    /\ pending_crypto["client"]["Handshake"] = <<"CF">> => tls["client"] = "C_Done"
    /\ pending_crypto["server"]["Handshake"] = <<"NST">> => tls["server"] = "S_Done"

\* Everything a handshake depends on.
HandshakeInv == ClientInv /\ ServerInv /\ PacketInv /\ PendingInv /\ OrderInv

-----------------------------------------------------------------------------
\* The counters of a side that does not exist yet are those of a new space.
FreshInv ==
    \A s \in Side, sp \in SpaceId : state[s] = "None" => space[s][sp] = SpaceNew

\* Only numbers that the other side has used wait to be acknowledged, or are
\* named by an ACK frame.
AckInv ==
    /\ \A s \in Side, sp \in SpaceId : \A i \in 1..Len(space[s][sp].pending_acks) :
           space[s][sp].pending_acks[i] < space[Peer(s)][sp].next_send_pn
    /\ \A p \in sent : \A ack \in p.ack :
           ack.largest < space[Peer(p.from)][SpaceOf(p.form)].next_send_pn

\* The bytes written are those that left and, after them, those that wait.
QueueInv ==
    \A s \in Side :
        /\ stream_send_offset[s] + Len(pending_app_data[s]) = written[s]
        /\ \A i \in 1..Len(pending_app_data[s]) :
               pending_app_data[s][i] = stream_send_offset[s] + i

\* A STREAM frame is a range of positions below its sender's offset, and the
\* ranges of two packets of a side do not overlap.
FramesInv ==
    /\ \A p \in sent : /\ \A i \in 1..Len(p.stream) : p.stream[i] = p.stream_off + i
                       /\ p.stream_off + Len(p.stream) <= stream_send_offset[p.from]
    /\ \A p, q \in sent : p # q /\ p.from = q.from =>
           \/ p.stream_off + Len(p.stream) <= q.stream_off
           \/ q.stream_off + Len(q.stream) <= p.stream_off

\* What arrived has left the other side before.
ArrivedInv ==
    \A s \in Side :
        /\ \A i \in 1..Len(received_app_data[s]) :
               received_app_data[s][i] \in 1..stream_send_offset[Peer(s)]
        /\ \A i \in 1..Len(delivered[s]) :
               delivered[s][i] \in 1..stream_send_offset[Peer(s)]

\* Everything the stream depends on.
StreamInv == QueueInv /\ FramesInv /\ ArrivedInv
=============================================================================
