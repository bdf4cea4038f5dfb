------------------------------ MODULE FrameLoop ------------------------------
(***************************************************************************)
(* process_frames, one frame at a time, for one connection whose peer is   *)
(* any implementation: it holds the keys, but its packets hold any frames  *)
(* in any order, in any space. Connection takes ingest to be one step on   *)
(* the packets that egest builds; here the loop is the loop of the code,   *)
(* and the two are compared on those packets.                              *)
(*                                                                         *)
(* The variables are those of Connection, of which one side is used.       *)
(***************************************************************************)
EXTENDS Connection

CONSTANTS MaxFrames,   \* bound: frames of a packet
          MaxIngested  \* bound: packets ingested, per space

ASSUME FrameLoopAssumption == MaxFrames \in Nat /\ MaxIngested \in Nat

VARIABLES me,         \* the side this connection plays
          packet,     \* the packet being ingested
          next,       \* the frame to process next; 0 between two packets
          before,     \* history: the connection before the packet
          processed,  \* history: how many frames of the packet were processed
          opened_at   \* history: the frame whose answer brought the 1-RTT keys

loop_vars == <<me, packet, next, before, processed, opened_at>>
all_vars == <<vars, loop_vars>>

\* The frames process_frames tells apart. PADDING, PING, ACK and all others that
\* it does nothing with are one.
Ignored == [kind |-> "Ignored"]
Crypto(off, flights) == [kind |-> "Crypto", off |-> off, flights |-> flights]
Close(code) == [kind |-> "Close", code |-> code]
Done == [kind |-> "Done"]
Stream(data) == [kind |-> "Stream", data |-> data]

\* The flights that the peer of side s has for it, each one a CRYPTO frame.
FlightsTo(s) ==
    IF s = "client" THEN {<<"SH">>, <<"SF">>, <<"NST">>} ELSE {<<"CH">>, <<"CF">>}

\* What a peer of side s may put in a packet: its flights, in or out of place,
\* and every other frame.
FramesTo(s) ==
    {Ignored, Close("Known"), Close("Unknown"), Done, Stream(<<1>>)}
        \cup {Crypto(off, f) : off \in 0..1, f \in FlightsTo(s)}

\* The frames of a packet of Connection, in the order in which egest writes them.
FramesOf(p) ==
    (IF p.crypto # <<>> THEN <<Crypto(p.crypto_off, p.crypto)>> ELSE <<>>)
    \o (IF p.ack # {} THEN <<Ignored>> ELSE <<>>)
    \o (IF p.done THEN <<Done>> ELSE <<>>)
    \o (IF p.stream # <<>> THEN <<Stream(p.stream)>> ELSE <<>>)
    \o (IF p.close # "none" THEN <<Close(p.close)>> ELSE <<>>)

\* The packets of Connection that side s may get in space sp, with number pn.
PacketsTo(s, sp, pn) ==
    {p \in [ from : {Peer(s)}, form : {f \in Form : SpaceOf(f) = sp}, key : {keys[s][sp]}, pn : {pn},
             crypto : {<<>>} \cup FlightsTo(s), crypto_off : {0},
             ack : {{}, {[largest |-> 0, first_range |-> 0]}},
             done : BOOLEAN, stream : {<<>>, <<1>>}, stream_off : {0},
             close : CloseCode ] :
        /\ p.done \/ p.stream # <<>> => sp = "AppData"
        /\ p.done => Peer(s) = "server"
        /\ FramesOf(p) # <<>>
        /\ p.close # "none" => Len(FramesOf(p)) = 1}

Snapshot ==
    [ state |-> state, tls |-> tls, keys |-> keys, space |-> space,
      pending_crypto |-> pending_crypto, crypto_recv_offset |-> crypto_recv_offset,
      received_app_data |-> received_app_data, close_reason |-> close_reason ]

-----------------------------------------------------------------------------
LoopInit ==
    /\ Init
    /\ me \in Side
    /\ packet = [sp |-> "Initial", frames |-> <<>>, own |-> {}]
    /\ next = 0 /\ before = Snapshot /\ processed = 0 /\ opened_at = 0

\* A client that has connected, or a server that has accepted.
Start ==
    /\ IF me = "client" THEN Connect ELSE Accept(InitialPacket)
    /\ before' = Snapshot'
    /\ UNCHANGED <<me, packet, next, processed, opened_at>>

\* ingest: the packet opens and its number is recorded.
Begin(sp, pn, frames, own) ==
    /\ space' = [space EXCEPT ![me][sp] = RecordRecvPn(@, pn)]
    /\ packet' = [sp |-> sp, frames |-> frames, own |-> own]
    /\ next' = 1 /\ before' = Snapshot /\ processed' = 0 /\ opened_at' = 0
    /\ UNCHANGED <<me, state, tls, keys, pending_crypto, crypto_recv_offset, close_reason,
                   stream_vars, sent>>

Ingested ==
    \E sp \in SpaceId :
        LET pn == space[me][sp].largest_recv_pn + 1
        IN  /\ next = 0 /\ Open(me) /\ keys[me][sp] # NoKeys
            /\ pn <= MaxIngested
            /\ Len(space[me][sp].pending_acks) < MaxAcks
            /\ \/ \E p \in PacketsTo(me, sp, pn) :
                      /\ Decrypts(me, p)
                      /\ Len(received_app_data[me]) + Len(p.stream) <= MaxRecv
                      /\ Begin(sp, pn, FramesOf(p), {p})
               \/ \E n \in 1..MaxFrames : \E frames \in [1..n -> FramesTo(me)] :
                      Begin(sp, pn, frames, {})

-----------------------------------------------------------------------------
\* The loop goes on with the next frame.
GoOn ==
    /\ processed' = next
    /\ next' = IF next = Len(packet.frames) THEN 0 ELSE next + 1
    /\ UNCHANGED <<me, packet, before>>

\* The answer of TLS is an error: process_frames returns it.
Stop == processed' = next /\ next' = 0 /\ UNCHANGED <<me, packet, before>>

OnIgnored(frame) ==
    /\ frame.kind = "Ignored" \/ (frame.kind = "Done" /\ me = "server")
    /\ GoOn
    /\ UNCHANGED <<vars, opened_at>>

\* A CRYPTO frame that is not the one this level waits for is ignored too.
OnCryptoOutOfOrder(frame) ==
    /\ frame.kind = "Crypto" /\ frame.off # crypto_recv_offset[me][packet.sp]
    /\ GoOn
    /\ UNCHANGED <<vars, opened_at>>

\* Mutant: of the answer only the keys are used, whatever is there already.
OnCrypto_KeysOnly(frame) ==
    \E t \in Tickets :
        LET r == TlsRead(tls[me], frame.flights, t)
        IN  /\ frame.kind = "Crypto" /\ frame.off = crypto_recv_offset[me][packet.sp]
            /\ tls[me] = "S_Flight" \/ t = <<>>
            /\ r.tls # "Failed"
            /\ tls' = [tls EXCEPT ![me] = r.tls]
            /\ keys' = [keys EXCEPT ![me][NextSpace(packet.sp)] = r.keys1]
            /\ GoOn
            /\ UNCHANGED <<pending_crypto, crypto_recv_offset, state, opened_at, space,
                           close_reason, stream_vars, sent>>

\* TLS reads the flight and answers; the answer is queued, its keys installed.
\* Keys for the application data make the connection established.
OnCrypto(frame) ==
    \E t \in Tickets :
        LET sp == packet.sp
            r  == TlsRead(tls[me], frame.flights, t)
            k  == InstallKeys(keys[me], sp, r)
            opens == keys[me]["AppData"] = NoKeys /\ k["AppData"] # NoKeys
        IN  /\ frame.kind = "Crypto" /\ frame.off = crypto_recv_offset[me][sp]
            /\ tls[me] = "S_Flight" \/ t = <<>>
            /\ r.tls # "Failed"
            /\ tls' = [tls EXCEPT ![me] = r.tls]
            /\ keys' = [keys EXCEPT ![me] = k]
            /\ pending_crypto' = [pending_crypto EXCEPT ![me] = QueueCrypto(@, sp, r)]
            /\ crypto_recv_offset' =
                   [crypto_recv_offset EXCEPT ![me][sp] = @ + Len(frame.flights)]
            /\ state' = [state EXCEPT ![me] = IF opens THEN "Established" ELSE @]
            /\ opened_at' = IF opens THEN next ELSE opened_at
            /\ GoOn
            /\ UNCHANGED <<space, close_reason, stream_vars, sent>>

OnCryptoError(frame) ==
    /\ frame.kind = "Crypto" /\ frame.off = crypto_recv_offset[me][packet.sp]
    /\ TlsRead(tls[me], frame.flights, <<>>).tls = "Failed"
    /\ tls' = [tls EXCEPT ![me] = "Failed"]
    /\ Stop
    /\ UNCHANGED <<state, keys, space, pending_crypto, crypto_recv_offset, close_reason,
                   stream_vars, sent, opened_at>>

\* Mutant: the first reason is kept.
OnClose_FirstReason(frame) ==
    /\ frame.kind = "Close"
    /\ state' = [state EXCEPT ![me] = "Closed"]
    /\ close_reason' = [close_reason EXCEPT ![me] = IF @ = "none" THEN ReasonOf(frame.code) ELSE @]
    /\ GoOn
    /\ UNCHANGED <<tls, keys, space, pending_crypto, crypto_recv_offset, stream_vars, sent, opened_at>>

\* The frames after a CONNECTION_CLOSE are processed like those before it.
OnClose(frame) ==
    /\ frame.kind = "Close"
    /\ state' = [state EXCEPT ![me] = "Closed"]
    /\ close_reason' = [close_reason EXCEPT ![me] = ReasonOf(frame.code)]
    /\ GoOn
    /\ UNCHANGED <<tls, keys, space, pending_crypto, crypto_recv_offset, stream_vars, sent, opened_at>>

\* HANDSHAKE_DONE is believed in any space, and whatever the state.
OnDone(frame) ==
    /\ frame.kind = "Done" /\ me = "client"
    /\ state' = [state EXCEPT ![me] = "Established"]
    /\ GoOn
    /\ UNCHANGED <<tls, keys, space, pending_crypto, crypto_recv_offset, close_reason,
                   stream_vars, sent, opened_at>>

OnStream(frame) ==
    /\ frame.kind = "Stream"
    /\ received_app_data' = [received_app_data EXCEPT ![me] = @ \o frame.data]
    /\ GoOn
    /\ UNCHANGED <<conn_vars, pending_app_data, stream_send_offset, close_reason, written,
                   delivered, sent, opened_at>>

ProcessFrame ==
    /\ next # 0
    /\ LET frame == packet.frames[next]
       IN  \/ OnIgnored(frame) \/ OnCryptoOutOfOrder(frame) \/ OnCrypto(frame)
           \/ OnCryptoError(frame) \/ OnClose(frame) \/ OnDone(frame) \/ OnStream(frame)

\* Between two packets the connection may answer.
Answer ==
    /\ next = 0
    /\ \E sp \in SpaceId, room \in Rooms : Egest(me, sp, room)
    /\ before' = Snapshot' /\ processed' = 0 /\ opened_at' = 0
    /\ UNCHANGED <<me, packet, next>>

LoopNext == Start \/ Ingested \/ ProcessFrame \/ Answer

LoopSpec == LoopInit /\ [][LoopNext]_all_vars

-----------------------------------------------------------------------------
(* Connection as the loop implements it: what the loop does to the         *)
(* connection is seen when it has ended.                                   *)

Seen(now, then) == IF next = 0 THEN now ELSE then

Atomic == INSTANCE Connection WITH
    state <- Seen(state, before.state), tls <- Seen(tls, before.tls),
    keys <- Seen(keys, before.keys), space <- Seen(space, before.space),
    pending_crypto <- Seen(pending_crypto, before.pending_crypto),
    crypto_recv_offset <- Seen(crypto_recv_offset, before.crypto_recv_offset),
    received_app_data <- Seen(received_app_data, before.received_app_data),
    close_reason <- Seen(close_reason, before.close_reason)

\* The loop of process_frames, taken as a whole, is the single step Ingest of
\* Connection for every packet that egest or a closing peer builds: the order in
\* which the loop takes the frames, its early return and the TLS calls between
\* them make no difference, in every state that any peer can bring about.
LoopIsIngest ==
    [][/\ next' # 0 => UNCHANGED Atomic!vars
       /\ next # 0 /\ next' = 0 =>
              \A p \in packet.own : \E t \in Tickets : Atomic!Ingest(me, p, t)]_all_vars

\* For any sequence of frames: the last frame that has a say decides the state
\* of the connection, and the last CONNECTION_CLOSE its reason. A close is final
\* exactly if neither HANDSHAKE_DONE (for a client) nor the flight that brings
\* the 1-RTT keys comes after it in the same packet; after the packet, nothing
\* opens the connection again.
LastWordDecides ==
    LET fs     == packet.frames
        closes == {i \in 1..processed : fs[i].kind = "Close"}
        dones  == {i \in 1..processed : fs[i].kind = "Done" /\ me = "client"}
        says   == closes \cup dones \cup ({opened_at} \ {0})
        Last(S) == CHOOSE i \in S : \A j \in S : j <= i
    IN  /\ state[me] = IF says = {} THEN before.state[me]
                       ELSE IF Last(says) \in closes THEN "Closed" ELSE "Established"
        /\ close_reason[me] = IF closes = {} THEN before.close_reason[me]
                              ELSE ReasonOf(fs[Last(closes)].code)
=============================================================================
