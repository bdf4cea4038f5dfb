--------------------------- MODULE FrameLoopProofs ---------------------------
(***************************************************************************)
(* process_frames on packets of any peer, with any number of frames: which *)
(* frame has the last word, that no peer can put keys in the wrong space,  *)
(* and that on deerquic's own packets the loop is the step Ingest that     *)
(* everything about Connection is proved with.                             *)
(***************************************************************************)
EXTENDS FrameLoop, ConnectionProofs

AnyFrame ==
    {Ignored, Done} \cup {Close(code) : code \in {"Known", "Unknown"}}
        \cup {Stream(d) : d \in Seq(Nat)}
        \cup {Crypto(off, flights) : off \in Nat, flights \in Seq(Flight)}

\* Where the loop is: before frame next, which follows the ones processed.
LoopInv ==
    /\ TypeInv
    /\ me \in Side /\ packet.sp \in SpaceId /\ packet.frames \in Seq(AnyFrame)
    /\ next \in Nat /\ processed \in Nat /\ opened_at \in Nat
    /\ next # 0 => processed + 1 = next /\ next <= Len(packet.frames)
    /\ processed <= Len(packet.frames) /\ opened_at <= processed
    /\ opened_at # 0 => packet.frames[opened_at].kind = "Crypto"
    /\ state[me] = "None" => next = 0 /\ processed = 0

\* The kinds of frames, and what they hold.
LEMMA FrameKinds ==
    ASSUME NEW f \in AnyFrame
    PROVE  /\ f.kind \in {"Ignored", "Done", "Close", "Stream", "Crypto"}
           /\ f.kind = "Close" => f.code \in {"Known", "Unknown"}
           /\ f.kind = "Stream" => f.data \in Seq(Nat)
           /\ f.kind = "Crypto" => f.off \in Nat /\ f.flights \in Seq(Flight)
<1>1. CASE f \in {Ignored, Done} BY <1>1 DEF Ignored, Done
<1>2. CASE f \in {Close(code) : code \in {"Known", "Unknown"}} BY <1>2 DEF Close
<1>3. CASE f \in {Stream(d) : d \in Seq(Nat)} BY <1>3 DEF Stream
<1>4. CASE f \in {Crypto(off, flights) : off \in Nat, flights \in Seq(Flight)} BY <1>4 DEF Crypto
<1> QED BY <1>1, <1>2, <1>3, <1>4 DEF AnyFrame

\* The two sides have names of their own.
LEMMA SideNames ==
    "client" \in Side /\ "server" \in Side /\ \A s \in Side : s = "client" \/ s = "server"
  BY DEF Side

\* What a frame does to everything but the progress of the loop.
FrameStep(frame) ==
    \/ OnIgnored(frame) \/ OnCryptoOutOfOrder(frame) \/ OnCrypto(frame)
    \/ OnCryptoError(frame) \/ OnClose(frame) \/ OnDone(frame) \/ OnStream(frame)

\* Every frame is counted, and the loop goes on behind it or ends.
LEMMA LoopProgress ==
    ASSUME LoopInv, next # 0, NEW frame, FrameStep(frame)
    PROVE  /\ processed' = next /\ UNCHANGED <<me, packet, before>>
           /\ next' = 0 \/ (next' = next + 1 /\ next < Len(packet.frames))
           /\ next' = 0 => next = Len(packet.frames) \/ OnCryptoError(frame)
<1>1. CASE GoOn
  <2>1. Len(packet.frames) \in Nat BY DEF LoopInv
  <2> QED BY <1>1, <2>1 DEF GoOn, LoopInv
<1>2. CASE OnCryptoError(frame) BY <1>2 DEF OnCryptoError, Stop
<1> QED BY <1>1, <1>2 DEF FrameStep, OnIgnored, OnCryptoOutOfOrder, OnCrypto, OnClose, OnDone, OnStream

\* Processing a frame keeps the connection well formed.
LEMMA FrameTypes ==
    ASSUME LoopInv, next # 0, NEW frame \in AnyFrame, FrameStep(frame)
    PROVE  /\ TypeInv'
           /\ state'[me] # "None"
<1>1. /\ state \in [Side -> State] /\ tls \in [Side -> Tls] /\ keys \in [Side -> [SpaceId -> Keys]]
      /\ pending_crypto \in [Side -> [SpaceId -> Seq(Flight)]]
      /\ crypto_recv_offset \in [Side -> [SpaceId -> Nat]]
      /\ received_app_data \in [Side -> Seq(Nat)] /\ close_reason \in [Side -> CloseReason]
      /\ me \in Side /\ packet.sp \in SpaceId /\ state[me] # "None"
  BY DEF LoopInv, TypeInv, TypeOK
<1>2. ASSUME space' = space, sent' = sent, UNCHANGED <<pending_app_data, stream_send_offset, written, delivered>>,
             state' \in [Side -> State], tls' \in [Side -> Tls],
             keys' \in [Side -> [SpaceId -> Keys]],
             pending_crypto' \in [Side -> [SpaceId -> Seq(Flight)]],
             crypto_recv_offset' \in [Side -> [SpaceId -> Nat]],
             received_app_data' \in [Side -> Seq(Nat)], close_reason' \in [Side -> CloseReason]
      PROVE  TypeInv'
  BY <1>2 DEF LoopInv, TypeInv, TypeOK, AcksInv
<1>3. CASE OnIgnored(frame) \/ OnCryptoOutOfOrder(frame)
  <2>1. UNCHANGED vars BY <1>3 DEF OnIgnored, OnCryptoOutOfOrder
  <2> QED BY <1>1, <1>2, <2>1 DEF vars
<1>4. CASE OnCrypto(frame)
  <2>1. PICK t \in Tickets :
          LET sp == packet.sp
              r == TlsRead(tls[me], frame.flights, t)
              k == InstallKeys(keys[me], sp, r)
              opens == keys[me]["AppData"] = NoKeys /\ k["AppData"] # NoKeys
          IN  /\ frame.kind = "Crypto"
              /\ tls' = [tls EXCEPT ![me] = r.tls]
              /\ keys' = [keys EXCEPT ![me] = k]
              /\ pending_crypto' = [pending_crypto EXCEPT ![me] = QueueCrypto(pending_crypto[me], sp, r)]
              /\ crypto_recv_offset' =
                     [crypto_recv_offset EXCEPT ![me][sp] = @ + Len(frame.flights)]
              /\ state' = [state EXCEPT ![me] = IF opens THEN "Established" ELSE @]
              /\ UNCHANGED <<space, close_reason, stream_vars, sent>>
    BY <1>4 DEF OnCrypto
  <2> DEFINE r == TlsRead(tls[me], frame.flights, t)
             k == InstallKeys(keys[me], packet.sp, r)
             q == QueueCrypto(pending_crypto[me], packet.sp, r)
  <2>2. r \in TlsResult BY <1>1, TlsReadType
  <2>3. k \in [SpaceId -> Keys] /\ q \in [SpaceId -> Seq(Flight)] /\ r.tls \in Tls
    <3> HIDE DEF r
    <3> QED BY <1>1, <2>2, CryptoOutputType DEF TlsResult
  <2>4. Len(frame.flights) \in Nat BY <2>1, FrameKinds
  <2>5. tls' = [tls EXCEPT ![me] = r.tls] /\ keys' = [keys EXCEPT ![me] = k]
        /\ pending_crypto' = [pending_crypto EXCEPT ![me] = q]
    BY <2>1
  <2> HIDE DEF r, k, q
  <2>6. tls' \in [Side -> Tls] /\ keys' \in [Side -> [SpaceId -> Keys]]
        /\ pending_crypto' \in [Side -> [SpaceId -> Seq(Flight)]]
    BY <1>1, <2>3, <2>5
  <2>7. crypto_recv_offset' \in [Side -> [SpaceId -> Nat]] BY <1>1, <2>1, <2>4
  <2>8. state' \in [Side -> State] /\ state'[me] # "None" BY <1>1, <2>1 DEF State
  <2> QED BY <1>1, <1>2, <2>1, <2>6, <2>7, <2>8 DEF stream_vars
<1>5. CASE OnCryptoError(frame)
  BY <1>1, <1>2, <1>5 DEF OnCryptoError, stream_vars, Tls
<1>6. CASE OnClose(frame)
  <2>1. ReasonOf(frame.code) \in CloseReason
    BY <1>6, FrameKinds DEF OnClose, ReasonOf, CloseReason
  <2> QED BY <1>1, <1>2, <1>6, <2>1 DEF OnClose, stream_vars, State
<1>7. CASE OnDone(frame)
  BY <1>1, <1>2, <1>7 DEF OnDone, stream_vars, State
<1>8. CASE OnStream(frame)
  <2>1. frame.data \in Seq(Nat) BY <1>8, FrameKinds DEF OnStream
  <2>2. received_app_data[me] \o frame.data \in Seq(Nat) BY <1>1, <2>1
  <2> QED BY <1>1, <1>2, <1>8, <2>2 DEF OnStream, conn_vars
<1> QED BY <1>3, <1>4, <1>5, <1>6, <1>7, <1>8 DEF FrameStep

-----------------------------------------------------------------------------
\* A flight is one message.
LEMMA FlightTypes ==
    ASSUME NEW s PROVE \A f \in FlightsTo(s) : f \in Seq(Flight)
<1>1. <<"SH">> \in Seq(Flight) /\ <<"SF">> \in Seq(Flight) /\ <<"NST">> \in Seq(Flight)
      /\ <<"CH">> \in Seq(Flight) /\ <<"CF">> \in Seq(Flight)
  BY DEF Flight
<1> QED BY <1>1 DEF FlightsTo

\* The frames of a packet are those of the types the loop knows.
LEMMA OwnFramesType ==
    ASSUME NEW s \in Side, NEW sp \in SpaceId, NEW pn, NEW p \in PacketsTo(s, sp, pn)
    PROVE  FramesOf(p) \in Seq(AnyFrame)
<1>1. p.crypto_off = 0 /\ p.crypto \in Seq(Flight) /\ p.stream \in Seq(Nat) /\ p.close \in CloseCode
  <2>1. \A f \in FlightsTo(s) : f \in Seq(Flight) BY FlightTypes
  <2>2. /\ p.crypto_off \in {0} /\ p.crypto \in {<<>>} \cup FlightsTo(s)
        /\ p.stream \in {<<>>, <<1>>} /\ p.close \in CloseCode
    BY DEF PacketsTo
  <2>3. <<>> \in Seq(Flight) /\ <<>> \in Seq(Nat) /\ <<1>> \in Seq(Nat) OBVIOUS
  <2>4. p.crypto \in Seq(Flight) BY <2>1, <2>2, <2>3
  <2> QED BY <2>2, <2>3, <2>4
<1>2. p.close # "none" => Close(p.close) \in AnyFrame
  BY <1>1 DEF AnyFrame, CloseCode
<1>3. Crypto(p.crypto_off, p.crypto) \in AnyFrame /\ Ignored \in AnyFrame /\ Done \in AnyFrame
      /\ Stream(p.stream) \in AnyFrame
  BY <1>1 DEF AnyFrame
<1> DEFINE c == IF p.crypto # <<>> THEN <<Crypto(p.crypto_off, p.crypto)>> ELSE <<>>
           a == IF p.ack # {} THEN <<Ignored>> ELSE <<>>
           d == IF p.done THEN <<Done>> ELSE <<>>
           e == IF p.stream # <<>> THEN <<Stream(p.stream)>> ELSE <<>>
           x == IF p.close # "none" THEN <<Close(p.close)>> ELSE <<>>
<1>4. c \in Seq(AnyFrame) /\ a \in Seq(AnyFrame) /\ d \in Seq(AnyFrame) /\ e \in Seq(AnyFrame)
      /\ x \in Seq(AnyFrame)
  BY <1>2, <1>3
<1>5. FramesOf(p) = c \o a \o d \o e \o x BY DEF FramesOf
<1> HIDE DEF c, a, d, e, x
<1> QED BY <1>4, <1>5

\* What any peer may send is of these types too.
LEMMA AnyFramesType ==
    ASSUME NEW s \in Side, NEW n \in Nat, NEW frames \in [1..n -> FramesTo(s)]
    PROVE  frames \in Seq(AnyFrame) /\ Len(frames) = n
<1>1. \A f \in FlightsTo(s) : f \in Seq(Flight) BY FlightTypes
<1>2. ASSUME NEW off \in 0..1, NEW f \in FlightsTo(s) PROVE Crypto(off, f) \in AnyFrame
  <2>1. off \in Nat OBVIOUS
  <2> QED BY <1>1, <2>1 DEF AnyFrame
<1>3. Stream(<<1>>) \in AnyFrame
  <2>1. PICK d : d = <<1>> OBVIOUS
  <2>2. d \in Seq(Nat) BY <2>1
  <2>3. Stream(d) \in AnyFrame BY <2>2 DEF AnyFrame
  <2> QED BY <2>1, <2>3
<1>4. Ignored \in AnyFrame /\ Done \in AnyFrame /\ Close("Known") \in AnyFrame
      /\ Close("Unknown") \in AnyFrame
  BY DEF AnyFrame
<1>5. FramesTo(s) \subseteq AnyFrame
  <2> SUFFICES ASSUME NEW g \in FramesTo(s) PROVE g \in AnyFrame OBVIOUS
  <2>1. CASE g \in {Crypto(off, f) : off \in 0..1, f \in FlightsTo(s)}
    <3>1. PICK off \in 0..1, f \in FlightsTo(s) : g = Crypto(off, f) BY <2>1
    <3> QED BY <1>2, <3>1, Zenon
  <2>2. CASE g \in {Ignored, Close("Known"), Close("Unknown"), Done, Stream(<<1>>)}
    BY <1>3, <1>4, <2>2
  <2> QED BY <2>1, <2>2 DEF FramesTo
<1>6. frames \in [1..n -> AnyFrame] BY <1>5
<1> QED BY <1>6

\* Before there is a connection the loop is at rest.
LEMMA LoopInvInit == LoopInit => LoopInv
<1> SUFFICES ASSUME LoopInit PROVE LoopInv OBVIOUS
<1>1. TypeInv BY TypeInvInit DEF LoopInit
<1>2. packet.frames = <<>> /\ packet.sp = "Initial" BY DEF LoopInit
<1>3. <<>> \in Seq(AnyFrame) /\ Len(<<>>) = 0 OBVIOUS
<1> QED BY <1>1, <1>2, <1>3 DEF LoopInit, LoopInv, SpaceId

\* connect or accept, of the side the connection plays.
LEMMA LoopInvStart == LoopInv /\ Start => LoopInv'
<1> SUFFICES ASSUME LoopInv, Start PROVE LoopInv' OBVIOUS
<1>1. InitialPacket \in Packet
  <2>1. <<"CH">> \in Seq(Flight) /\ <<>> \in Seq(Nat) BY DEF Flight
  <2> QED BY <2>1 DEF InitialPacket, Packet, Side, Form, Epoch, CloseCode
<1>2. TypeInv'
  BY <1>1, TypeConnect, TypeAccept DEF LoopInv, Start
<1>3. state'[me] # "None"
  <2>1. state \in [Side -> State] BY DEF LoopInv, TypeInv, TypeOK
  <2> QED BY <2>1, SideNames DEF LoopInv, Start, Connect, Accept
<1> QED BY <1>2, <1>3 DEF LoopInv, Start

\* The packet opens: the loop stands before its first frame.
LEMMA LoopInvBegin == LoopInv /\ Ingested => LoopInv'
<1> SUFFICES ASSUME LoopInv, Ingested PROVE LoopInv' OBVIOUS
<1>1. PICK sp, pn, frames, own :
        /\ sp \in SpaceId /\ next = 0 /\ Open(me) /\ pn = space[me][sp].largest_recv_pn + 1
        /\ frames \in Seq(AnyFrame) /\ frames # <<>>
        /\ Begin(sp, pn, frames, own)
  <2>1. PICK sp \in SpaceId : LET pn == space[me][sp].largest_recv_pn + 1
        IN  /\ next = 0 /\ Open(me)
            /\ \/ \E p \in PacketsTo(me, sp, pn) : Begin(sp, pn, FramesOf(p), {p})
               \/ \E n \in 1..MaxFrames : \E frames \in [1..n -> FramesTo(me)] :
                      Begin(sp, pn, frames, {})
    BY DEF Ingested
  <2>2. PICK pn : pn = space[me][sp].largest_recv_pn + 1 OBVIOUS
  <2>3. CASE \E p \in PacketsTo(me, sp, pn) : Begin(sp, pn, FramesOf(p), {p})
    <3>1. PICK p \in PacketsTo(me, sp, pn) : Begin(sp, pn, FramesOf(p), {p}) BY <2>3
    <3>2. FramesOf(p) # <<>> BY DEF PacketsTo
    <3>3. FramesOf(p) \in Seq(AnyFrame) BY OwnFramesType DEF LoopInv
    <3> QED BY <2>1, <2>2, <3>1, <3>2, <3>3
  <2>4. CASE \E n \in 1..MaxFrames : \E frames \in [1..n -> FramesTo(me)] :
                 Begin(sp, pn, frames, {})
    <3>1. PICK n \in 1..MaxFrames : \E frames \in [1..n -> FramesTo(me)] :
                 Begin(sp, pn, frames, {})
      BY <2>4
    <3>2. PICK frames \in [1..n -> FramesTo(me)] : Begin(sp, pn, frames, {}) BY <3>1
    <3>3. n \in Nat /\ n # 0 BY FrameLoopAssumption
    <3>4. frames \in Seq(AnyFrame) /\ Len(frames) = n BY <3>3, AnyFramesType DEF LoopInv
    <3>5. frames # <<>> BY <3>3, <3>4
    <3> QED BY <2>1, <2>2, <3>2, <3>4, <3>5
  <2> QED BY <2>1, <2>2, <2>3, <2>4
<1>2. space[me][sp] \in Space /\ HasLargest(space[me][sp].pending_acks) /\ pn \in Nat
  <2>1. space[me][sp] \in Space BY <1>1 DEF LoopInv, TypeInv, TypeOK
  <2>2. HasLargest(space[me][sp].pending_acks) BY <1>1 DEF LoopInv, TypeInv, AcksInv
  <2>3. space[me][sp].largest_recv_pn \in Nat BY <2>1 DEF Space
  <2> QED BY <1>1, <2>1, <2>2, <2>3
<1>3. space' \in [Side -> [SpaceId -> Space]] /\ AcksInv'
  <2>1. PICK v : v = RecordRecvPn(space[me][sp], pn) OBVIOUS
  <2>2. v \in Space /\ HasLargest(v.pending_acks) BY <1>2, <2>1, RecordRecvPnFacts
  <2>3. space' = [space EXCEPT ![me][sp] = v]
    BY <1>1, <2>1 DEF Begin, LoopInv, TypeInv, TypeOK
  <2> QED BY <1>1, <2>2, <2>3, UpdateSpace DEF LoopInv
<1>4. TypeInv'
  BY <1>1, <1>3 DEF Begin, LoopInv, TypeInv, TypeOK, stream_vars
<1>5. /\ packet'.sp = sp /\ packet'.frames = frames /\ next' = 1 /\ processed' = 0
      /\ opened_at' = 0 /\ me' = me /\ state' = state
  BY <1>1 DEF Begin
<1>6. Len(frames) \in Nat /\ Len(frames) >= 1 BY <1>1
<1> QED BY <1>1, <1>4, <1>5, <1>6 DEF LoopInv, Open

\* A frame is processed.
LEMMA LoopInvFrame == LoopInv /\ ProcessFrame => LoopInv'
<1> SUFFICES ASSUME LoopInv, ProcessFrame PROVE LoopInv' OBVIOUS
<1>1. PICK frame : frame = packet.frames[next] OBVIOUS
<1>2. next # 0 /\ FrameStep(frame) BY <1>1 DEF ProcessFrame, FrameStep
<1>3. next \in 1..Len(packet.frames) /\ Len(packet.frames) \in Nat BY <1>2 DEF LoopInv
<1>4. frame \in AnyFrame BY <1>1, <1>3 DEF LoopInv
<1>5. /\ processed' = next /\ UNCHANGED <<me, packet>>
      /\ next' = 0 \/ (next' = next + 1 /\ next < Len(packet.frames))
  BY <1>2, LoopProgress
<1>6. TypeInv' /\ state'[me] # "None" BY <1>2, <1>4, FrameTypes
<1>7. opened_at' = opened_at \/ (opened_at' = next /\ frame.kind = "Crypto")
  BY <1>2 DEF FrameStep, OnIgnored, OnCryptoOutOfOrder, OnCrypto, OnCryptoError, OnClose, OnDone, OnStream
<1> QED BY <1>1, <1>2, <1>3, <1>5, <1>6, <1>7 DEF LoopInv

\* egest, between two packets.
LEMMA LoopInvAnswer == LoopInv /\ Answer => LoopInv'
<1> SUFFICES ASSUME LoopInv, Answer PROVE LoopInv' OBVIOUS
<1>1. PICK sp \in SpaceId, room \in Rooms : Egest(me, sp, room) BY DEF Answer
<1>2. TypeInv' BY <1>1, TypeEgest DEF LoopInv
<1>3. state'[me] # "None"
  BY <1>1 DEF Egest, Open, LoopInv, TypeInv, TypeOK
<1> QED BY <1>2, <1>3 DEF LoopInv, Answer

\* The loop counts its frames, and keeps the connection well formed.
LEMMA LoopInvNext == LoopInv /\ [LoopNext]_all_vars => LoopInv'
<1> SUFFICES ASSUME LoopInv, [LoopNext]_all_vars PROVE LoopInv' OBVIOUS
<1>1. CASE UNCHANGED all_vars
  BY <1>1 DEF all_vars, vars, loop_vars, LoopInv, TypeInv, TypeOK, AcksInv
<1>2. CASE LoopNext
  BY <1>2, LoopInvStart, LoopInvBegin, LoopInvFrame, LoopInvAnswer DEF LoopNext
<1> QED BY <1>1, <1>2

-----------------------------------------------------------------------------
(* Which frame has the last word. *)

\* The frames that say something about the state, or about the reason, when the
\* ones up to n have been processed and the keys came with frame o.
Closes(n) == {i \in 1..n : packet.frames[i].kind = "Close"}
Dones(n) == {i \in 1..n : packet.frames[i].kind = "Done" /\ me = "client"}
Says(n, o) == Closes(n) \cup Dones(n) \cup ({o} \ {0})
LastOf(S) == CHOOSE i \in S : \A j \in S : j <= i

\* LastWordDecides, with its sets named.
LEMMA LastWordNamed ==
    LastWordDecides <=>
        /\ state[me] = IF Says(processed, opened_at) = {} THEN before.state[me]
                       ELSE IF LastOf(Says(processed, opened_at)) \in Closes(processed)
                            THEN "Closed" ELSE "Established"
        /\ close_reason[me] = IF Closes(processed) = {} THEN before.close_reason[me]
                              ELSE ReasonOf(packet.frames[LastOf(Closes(processed))].code)
  BY DEF LastWordDecides, Says, Closes, Dones, LastOf

\* The frame just processed is the last of those that have a say.
LEMMA LastIsNew ==
    ASSUME NEW n \in Nat, NEW S \in SUBSET (0..n), n \in S
    PROVE  LastOf(S) = n
<1>1. \A j \in S : j \in Nat /\ j <= n OBVIOUS
<1>2. ASSUME NEW i \in S, \A j \in S : j <= i PROVE i = n BY <1>1, <1>2
<1>3. \E i \in S : \A j \in S : j <= i BY <1>1
<1> QED BY <1>2, <1>3 DEF LastOf

\* Processing one more frame adds it to those of its kind.
LEMMA OneMore ==
    ASSUME NEW n \in Nat
    PROVE  /\ Closes(n + 1) = IF packet.frames[n + 1].kind = "Close"
                              THEN Closes(n) \cup {n + 1} ELSE Closes(n)
           /\ Dones(n + 1) = IF packet.frames[n + 1].kind = "Done" /\ me = "client"
                             THEN Dones(n) \cup {n + 1} ELSE Dones(n)
           /\ Closes(n) \subseteq 1..n /\ Dones(n) \subseteq 1..n
<1>1. 1..(n + 1) = 1..n \cup {n + 1} OBVIOUS
<1> QED BY <1>1 DEF Closes, Dones

\* Before the first frame the connection is as it was.
LEMMA NothingSaid ==
    ASSUME processed = 0, opened_at = 0,
           state[me] = before.state[me], close_reason[me] = before.close_reason[me]
    PROVE  LastWordDecides
<1>1. Closes(0) = {} /\ Dones(0) = {} /\ Says(0, 0) = {} BY DEF Closes, Dones, Says
<1> QED BY <1>1, LastWordNamed

\* A frame that says nothing leaves the last word to the ones before it.
LEMMA LastWordFrame == LoopInv /\ LastWordDecides /\ ProcessFrame => LastWordDecides'
<1> SUFFICES ASSUME LoopInv, LastWordDecides, ProcessFrame PROVE LastWordDecides'
  OBVIOUS
<1>1. PICK frame : frame = packet.frames[next] OBVIOUS
<1>2. next # 0 /\ FrameStep(frame) BY <1>1 DEF ProcessFrame, FrameStep
<1>3. next \in 1..Len(packet.frames) /\ Len(packet.frames) \in Nat BY <1>2 DEF LoopInv
<1>4. frame \in AnyFrame BY <1>1, <1>3 DEF LoopInv
<1>5. processed' = next /\ UNCHANGED <<me, packet, before>> BY <1>2, LoopProgress
<1>6. PICK n \in Nat, o \in Nat : n = processed /\ o = opened_at BY DEF LoopInv
<1>7. next = n + 1 /\ o <= n BY <1>2, <1>6 DEF LoopInv
<1>8. PICK C, D, S, C2, D2 : C = Closes(n) /\ D = Dones(n) /\ S = Says(n, o)
                             /\ C2 = Closes(n + 1) /\ D2 = Dones(n + 1)
  OBVIOUS
<1>9. /\ state[me] = IF S = {} THEN before.state[me]
                     ELSE IF LastOf(S) \in C THEN "Closed" ELSE "Established"
      /\ close_reason[me] = IF C = {} THEN before.close_reason[me]
                            ELSE ReasonOf(packet.frames[LastOf(C)].code)
  BY <1>6, <1>8, LastWordNamed
<1>10. /\ C2 = IF frame.kind = "Close" THEN C \cup {n + 1} ELSE C
       /\ D2 = IF frame.kind = "Done" /\ me = "client" THEN D \cup {n + 1} ELSE D
       /\ C \subseteq 1..n /\ D \subseteq 1..n
       /\ S = C \cup D \cup ({o} \ {0})
  BY <1>1, <1>7, <1>8, OneMore DEF Says
<1>11. PICK o2 : o2 = opened_at' OBVIOUS
<1>12. PICK S2 : S2 = C2 \cup D2 \cup ({o2} \ {0}) OBVIOUS
<1>13. SUFFICES /\ state'[me] = IF S2 = {} THEN before.state[me]
                         ELSE IF LastOf(S2) \in C2 THEN "Closed" ELSE "Established"
                /\ close_reason'[me] = IF C2 = {} THEN before.close_reason[me]
                         ELSE ReasonOf(packet.frames[LastOf(C2)].code)
  <2>1. Closes(n + 1)' = C2 /\ Dones(n + 1)' = D2 BY <1>5, <1>8 DEF Closes, Dones
  <2>2. (LastWordDecides <=>
          /\ state[me] = IF Says(processed, opened_at) = {} THEN before.state[me]
                         ELSE IF LastOf(Says(processed, opened_at)) \in Closes(processed)
                              THEN "Closed" ELSE "Established"
          /\ close_reason[me] = IF Closes(processed) = {} THEN before.close_reason[me]
                                ELSE ReasonOf(packet.frames[LastOf(Closes(processed))].code))'
    BY LastWordNamed, PTL
  <2>3. Closes(processed)' = C2 /\ Dones(processed)' = D2 /\ Says(processed, opened_at)' = S2
    BY <1>5, <1>7, <1>11, <1>12, <2>1 DEF Says, Closes, Dones
  <2>4. LastOf(Says(processed, opened_at))' = LastOf(S2) /\ LastOf(Closes(processed))' = LastOf(C2)
    BY <2>3 DEF LastOf
  <2> QED BY <1>5, <2>2, <2>3, <2>4
<1>14. state \in [Side -> State] /\ close_reason \in [Side -> CloseReason] /\ me \in Side
  BY DEF LoopInv, TypeInv, TypeOK
<1>15. ASSUME state'[me] = state[me], close_reason'[me] = close_reason[me], o2 = o,
              frame.kind # "Close", ~(frame.kind = "Done" /\ me = "client")
       PROVE  /\ state'[me] = IF S2 = {} THEN before.state[me]
                         ELSE IF LastOf(S2) \in C2 THEN "Closed" ELSE "Established"
              /\ close_reason'[me] = IF C2 = {} THEN before.close_reason[me]
                         ELSE ReasonOf(packet.frames[LastOf(C2)].code)
  <2>1. C2 = C /\ S2 = S BY <1>10, <1>12, <1>15
  <2> QED BY <1>9, <1>15, <2>1
<1>16. n + 1 \in S2 /\ o2 \in 0..(n + 1) => LastOf(S2) = n + 1
  <2>1. o2 \in 0..(n + 1) => S2 \in SUBSET (0..(n + 1)) BY <1>10, <1>12
  <2> QED BY <2>1, LastIsNew
<1>17. CASE OnClose(frame)
  <2>1. /\ state'[me] = "Closed" /\ close_reason'[me] = ReasonOf(frame.code)
        /\ o2 = o /\ frame.kind = "Close"
    BY <1>11, <1>6, <1>14, <1>17 DEF OnClose
  <2>2. C2 = C \cup {n + 1} BY <1>10, <2>1
  <2>3. LastOf(C2) = n + 1
    <3>1. C2 \in SUBSET (0..(n + 1)) /\ n + 1 \in C2 BY <1>10, <2>2
    <3> QED BY <3>1, LastIsNew
  <2>4. LastOf(S2) = n + 1 BY <1>7, <1>12, <1>16, <2>1, <2>2
  <2> QED BY <1>1, <1>7, <1>12, <2>1, <2>2, <2>3, <2>4
<1>18. ASSUME state'[me] = "Established", close_reason'[me] = close_reason[me], frame.kind # "Close",
              n + 1 \in S2, o2 \in 0..(n + 1)
       PROVE  /\ state'[me] = IF S2 = {} THEN before.state[me]
                         ELSE IF LastOf(S2) \in C2 THEN "Closed" ELSE "Established"
              /\ close_reason'[me] = IF C2 = {} THEN before.close_reason[me]
                         ELSE ReasonOf(packet.frames[LastOf(C2)].code)
  <2>1. C2 = C /\ n + 1 \notin C2 BY <1>10, <1>18
  <2>2. LastOf(S2) = n + 1 BY <1>16, <1>18
  <2> QED BY <1>9, <1>18, <2>1, <2>2
<1>19. CASE OnDone(frame)
  <2>1. /\ state'[me] = "Established" /\ close_reason'[me] = close_reason[me]
        /\ o2 = o /\ frame.kind = "Done" /\ me = "client"
    BY <1>11, <1>6, <1>14, <1>19 DEF OnDone
  <2> QED BY <1>7, <1>10, <1>12, <1>18, <2>1
<1>20. CASE OnCrypto(frame)
  <2>1. /\ close_reason'[me] = close_reason[me] /\ frame.kind = "Crypto"
        /\ \/ state'[me] = state[me] /\ o2 = o
           \/ state'[me] = "Established" /\ o2 = n + 1
    BY <1>11, <1>6, <1>7, <1>14, <1>20 DEF OnCrypto
  <2> QED BY <1>12, <1>15, <1>18, <2>1
<1>21. CASE OnIgnored(frame) \/ OnCryptoOutOfOrder(frame) \/ OnCryptoError(frame) \/ OnStream(frame)
  <2>1. state' = state /\ close_reason' = close_reason /\ o2 = o
    BY <1>6, <1>11, <1>21 DEF OnIgnored, OnCryptoOutOfOrder, OnCryptoError, OnStream, vars, conn_vars
  <2>2. frame.kind # "Close" /\ ~(frame.kind = "Done" /\ me = "client")
    BY <1>21 DEF OnIgnored, OnCryptoOutOfOrder, OnCryptoError, OnStream
  <2> QED BY <1>15, <2>1, <2>2
<1> QED BY <1>2, <1>17, <1>19, <1>20, <1>21 DEF FrameStep

\* Between two packets nothing has been said yet.
LEMMA LastWordNext ==
    LoopInv /\ LastWordDecides /\ [LoopNext]_all_vars => LastWordDecides'
<1> SUFFICES ASSUME LoopInv, LastWordDecides, [LoopNext]_all_vars PROVE LastWordDecides'
  OBVIOUS
<1>1. CASE UNCHANGED all_vars
  <2>1. UNCHANGED <<state, close_reason, me, packet, before, processed, opened_at>>
    BY <1>1 DEF all_vars, vars, loop_vars
  <2>2. Closes(processed)' = Closes(processed) /\ Dones(processed)' = Dones(processed)
    BY <2>1 DEF Closes, Dones
  <2>3. Says(processed, opened_at)' = Says(processed, opened_at) BY <2>1, <2>2 DEF Says
  <2>4. LastOf(Says(processed, opened_at))' = LastOf(Says(processed, opened_at))
        /\ LastOf(Closes(processed))' = LastOf(Closes(processed))
    BY <2>2, <2>3 DEF LastOf
  <2>5. (LastWordDecides <=>
          /\ state[me] = IF Says(processed, opened_at) = {} THEN before.state[me]
                         ELSE IF LastOf(Says(processed, opened_at)) \in Closes(processed)
                              THEN "Closed" ELSE "Established"
          /\ close_reason[me] = IF Closes(processed) = {} THEN before.close_reason[me]
                                ELSE ReasonOf(packet.frames[LastOf(Closes(processed))].code))'
    BY LastWordNamed, PTL
  <2> QED BY <2>1, <2>2, <2>3, <2>4, <2>5, LastWordNamed
<1>2. (processed = 0 /\ opened_at = 0 /\ state[me] = before.state[me]
          /\ close_reason[me] = before.close_reason[me] => LastWordDecides)'
  BY NothingSaid, PTL
<1>3. CASE Ingested
  <2>1. \E sp, pn, frames, own : Begin(sp, pn, frames, own) BY <1>3 DEF Ingested
  <2>2. processed' = 0 /\ opened_at' = 0 /\ before' = Snapshot
        /\ UNCHANGED <<me, state, close_reason>>
    BY <2>1 DEF Begin
  <2>3. before'.state = state /\ before'.close_reason = close_reason BY <2>2 DEF Snapshot
  <2> QED BY <1>2, <2>2, <2>3
<1>4. CASE Start
  <2>1. state[me] = "None"
    BY <1>4, SideNames DEF Start, Connect, Accept, LoopInv
  <2>2. processed = 0 /\ opened_at = 0 BY <2>1 DEF LoopInv
  <2> QED BY <1>2, <1>4, <2>2 DEF Start, Snapshot
<1>5. CASE Answer
  BY <1>2, <1>5 DEF Answer, Snapshot
<1> QED BY <1>1, <1>3, <1>4, <1>5, LastWordFrame DEF LoopNext

\* Whatever frames a peer puts in its packets, in whatever order: the last one
\* that has a say decides whether the connection is open, and the last
\* CONNECTION_CLOSE gives the reason.
THEOREM LastWordTheorem == LoopSpec => []LastWordDecides
<1>1. LoopInit => LastWordDecides
  BY NothingSaid DEF LoopInit, Snapshot
<1> QED BY <1>1, LoopInvInit, LoopInvNext, LastWordNext, PTL DEF LoopSpec

-----------------------------------------------------------------------------
(* Keys stay in the space of their epoch, whatever a peer sends. *)

\* What TLS has read tells which keys are there, and a packet is only looked
\* into in a space that has keys: so TLS answers each flight in the space whose
\* next keys the answer brings.
KeyInv ==
    /\ EpochOfSpace
    /\ \A s \in Side : state[s] = "None" =>
           \A sp \in SpaceId : keys[s][sp] = NoKeys
    /\ state[me] # "None" => tls[me] # "None"
    /\ tls[me] = "C_Hello" => keys[me]["Handshake"] = NoKeys /\ keys[me]["AppData"] = NoKeys
    /\ tls[me] = "C_Secure" => keys[me]["Handshake"] = "HandshakeKeys"
    /\ next # 0 => keys[me][packet.sp] # NoKeys

\* The answer to a flight, in any space where it can be read, brings the keys of
\* the epoch of the next space or none.
LEMMA AnswerKeys ==
    ASSUME NEW k \in [SpaceId -> Keys], NEW sp \in SpaceId, NEW t \in Tls, NEW flights, NEW tickets,
           k["Initial"] \in {NoKeys, "InitialKeys"},
           k["Handshake"] \in {NoKeys, "HandshakeKeys"},
           k["AppData"] \in {NoKeys, "OneRttKeys"},
           t # "None", k[sp] # NoKeys,
           t = "C_Hello" => k["Handshake"] = NoKeys /\ k["AppData"] = NoKeys,
           t = "C_Secure" => k["Handshake"] = "HandshakeKeys"
    PROVE  LET r == TlsRead(t, flights, tickets)
               m == InstallKeys(k, sp, r)
           IN  /\ m["Initial"] \in {NoKeys, "InitialKeys"}
               /\ m["Handshake"] \in {NoKeys, "HandshakeKeys"}
               /\ m["AppData"] \in {NoKeys, "OneRttKeys"}
               /\ m[sp] # NoKeys
               /\ r.tls \notin {"None", "C_Hello"}
               /\ r.tls = "C_Secure" => m["Handshake"] = "HandshakeKeys"
<1>1. "Initial" \in SpaceId /\ "Handshake" \in SpaceId /\ "AppData" \in SpaceId BY DEF SpaceId
<1>2. CASE t = "C_Hello" /\ flights = <<"SH">>
  <2>1. sp = "Initial" BY <1>2 DEF SpaceId
  <2>2. TlsRead(t, flights, tickets) = TlsStep("C_Secure", <<>>, "HandshakeKeys", <<>>, NoKeys)
    BY <1>2 DEF TlsRead
  <2> QED BY <1>1, <1>2, <2>1, <2>2 DEF TlsStep, InstallKeys, SetIfNone, NoKeys
<1>3. CASE t = "C_Secure" /\ flights = <<"SF">>
  <2>1. TlsRead(t, flights, tickets) = TlsStep("C_Done", <<"CF">>, "OneRttKeys", <<>>, NoKeys)
    BY <1>3 DEF TlsRead
  <2> QED BY <1>1, <1>3, <2>1 DEF TlsStep, InstallKeys, SetIfNone, NoKeys
<1>4. CASE ~(t = "C_Hello" /\ flights = <<"SH">>) /\ ~(t = "C_Secure" /\ flights = <<"SF">>)
  <2>1. \/ TlsRead(t, flights, tickets) = TlsStep("S_Done", tickets, NoKeys, <<>>, NoKeys)
        \/ TlsRead(t, flights, tickets) = TlsStep("C_Done", <<>>, NoKeys, <<>>, NoKeys)
        \/ TlsRead(t, flights, tickets) = TlsStep("Failed", <<>>, NoKeys, <<>>, NoKeys)
    BY <1>4 DEF TlsRead
  <2> QED BY <1>1, <2>1 DEF TlsStep, InstallKeys, NoKeys
<1> QED BY <1>2, <1>3, <1>4

\* connect and accept put each key they have in its space.
LEMMA KeyInvStart == LoopInv /\ KeyInv /\ Start => KeyInv'
<1> SUFFICES ASSUME LoopInv, KeyInv, Start PROVE KeyInv' OBVIOUS
<1>1. /\ state \in [Side -> State] /\ tls \in [Side -> Tls]
      /\ keys \in [Side -> [SpaceId -> Keys]] /\ me \in Side
      /\ "Initial" \in SpaceId /\ "Handshake" \in SpaceId /\ "AppData" \in SpaceId
  BY DEF LoopInv, TypeInv, TypeOK, SpaceId
<1>2. state[me] = "None"
  BY SideNames DEF Start, Connect, Accept, LoopInv
<1>3. next = 0 /\ \A sp \in SpaceId : keys[me][sp] = NoKeys BY <1>1, <1>2 DEF LoopInv, KeyInv
<1>4. CASE me = "client"
  <2>1. /\ state' = [state EXCEPT ![me] = "Connecting"] /\ tls' = [tls EXCEPT ![me] = "C_Hello"]
        /\ keys' = [keys EXCEPT ![me]["Initial"] = "InitialKeys"] /\ next' = next /\ me' = me
    BY <1>4 DEF Start, Connect
  <2> QED BY <1>1, <1>3, <2>1 DEF KeyInv, EpochOfSpace, NoKeys
<1>5. CASE me = "server"
  <2>1. TlsRead("None", InitialPacket.crypto, <<>>)
            = TlsStep("S_Flight", <<"SH">>, "HandshakeKeys", <<"SF">>, "OneRttKeys")
    BY DEF TlsRead, InitialPacket
  <2>2. PICK k : k = InstallKeys([keys[me] EXCEPT !["Initial"] = "InitialKeys"], "Initial",
               TlsStep("S_Flight", <<"SH">>, "HandshakeKeys", <<"SF">>, "OneRttKeys"))
    OBVIOUS
  <2>3. k["Initial"] = "InitialKeys" /\ k["Handshake"] = "HandshakeKeys" /\ k["AppData"] = "OneRttKeys"
    BY <1>1, <1>3, <2>2 DEF InstallKeys, SetIfNone, TlsStep, NoKeys
  <2>4. /\ state' = [state EXCEPT ![me] = "Handshaking"] /\ tls' = [tls EXCEPT ![me] = "S_Flight"]
        /\ keys' = [keys EXCEPT ![me] = k] /\ next' = next /\ me' = me
    <3>1. Accept(InitialPacket) /\ next' = next /\ me' = me BY <1>5 DEF Start
    <3>2. TlsStep("S_Flight", <<"SH">>, "HandshakeKeys", <<"SF">>, "OneRttKeys").tls = "S_Flight"
      BY DEF TlsStep
    <3> QED BY <1>5, <2>1, <2>2, <3>1, <3>2 DEF Accept
  <2> QED BY <1>1, <1>3, <2>3, <2>4 DEF KeyInv, EpochOfSpace, NoKeys
<1> QED BY <1>1, <1>4, <1>5, SideNames

\* No frame disturbs the order of the keys.
LEMMA KeyInvFrame == LoopInv /\ KeyInv /\ ProcessFrame => KeyInv'
<1> SUFFICES ASSUME LoopInv, KeyInv, ProcessFrame PROVE KeyInv' OBVIOUS
<1>1. PICK frame : frame = packet.frames[next] OBVIOUS
<1>2. next # 0 /\ FrameStep(frame) BY <1>1 DEF ProcessFrame, FrameStep
<1>3. frame \in AnyFrame BY <1>1, <1>2 DEF LoopInv
<1>4. UNCHANGED <<me, packet>> /\ state'[me] # "None" BY <1>2, <1>3, LoopProgress, FrameTypes
<1>5. /\ state \in [Side -> State] /\ tls \in [Side -> Tls]
      /\ keys \in [Side -> [SpaceId -> Keys]] /\ me \in Side /\ packet.sp \in SpaceId
      /\ state[me] # "None" /\ tls[me] # "None" /\ keys[me][packet.sp] # NoKeys
  BY <1>2 DEF LoopInv, TypeInv, TypeOK, KeyInv
<1>6. \A s \in Side : s # me => state'[s] = state[s]
  BY <1>2, <1>5 DEF FrameStep, OnIgnored, OnCryptoOutOfOrder, OnCrypto, OnCryptoError, OnClose,
                    OnDone, OnStream, vars, conn_vars
<1>7. CASE tls' = tls /\ keys' = keys
  BY <1>4, <1>5, <1>6, <1>7 DEF KeyInv, EpochOfSpace
<1>8. CASE OnCryptoError(frame)
  <2>1. keys' = keys /\ tls'[me] = "Failed" BY <1>5, <1>8 DEF OnCryptoError
  <2> QED BY <1>4, <1>5, <1>6, <2>1 DEF KeyInv, EpochOfSpace
<1>9. CASE OnCrypto(frame)
  <2>1. PICK t \in Tickets :
          /\ tls' = [tls EXCEPT ![me] = TlsRead(tls[me], frame.flights, t).tls]
          /\ keys' = [keys EXCEPT ![me] =
                 InstallKeys(keys[me], packet.sp, TlsRead(tls[me], frame.flights, t))]
    BY <1>9 DEF OnCrypto
  <2>2. PICK r, m : r = TlsRead(tls[me], frame.flights, t) /\ m = InstallKeys(keys[me], packet.sp, r)
    OBVIOUS
  <2>3. /\ m["Initial"] \in {NoKeys, "InitialKeys"}
        /\ m["Handshake"] \in {NoKeys, "HandshakeKeys"}
        /\ m["AppData"] \in {NoKeys, "OneRttKeys"}
        /\ m[packet.sp] # NoKeys
        /\ r.tls \notin {"None", "C_Hello"}
        /\ r.tls = "C_Secure" => m["Handshake"] = "HandshakeKeys"
    <3>1. /\ keys[me] \in [SpaceId -> Keys] /\ tls[me] \in Tls
          /\ keys[me]["Initial"] \in {NoKeys, "InitialKeys"}
          /\ keys[me]["Handshake"] \in {NoKeys, "HandshakeKeys"}
          /\ keys[me]["AppData"] \in {NoKeys, "OneRttKeys"}
          /\ tls[me] = "C_Hello" => keys[me]["Handshake"] = NoKeys /\ keys[me]["AppData"] = NoKeys
          /\ tls[me] = "C_Secure" => keys[me]["Handshake"] = "HandshakeKeys"
      BY <1>5 DEF KeyInv, EpochOfSpace
    <3> QED BY <1>5, <2>2, <3>1, AnswerKeys
  <2>4. tls' = [tls EXCEPT ![me] = r.tls] /\ keys' = [keys EXCEPT ![me] = m] BY <2>1, <2>2
  <2>5. tls'[me] = r.tls /\ keys'[me] = m /\ \A s \in Side : s # me => keys'[s] = keys[s]
    BY <1>5, <2>4
  <2>6. EpochOfSpace' BY <1>5, <2>3, <2>5 DEF KeyInv, EpochOfSpace
  <2> QED BY <1>4, <1>5, <1>6, <2>3, <2>5, <2>6 DEF KeyInv
<1> QED BY <1>2, <1>7, <1>8, <1>9 DEF FrameStep, OnIgnored, OnCryptoOutOfOrder, OnClose, OnDone,
                                     OnStream, vars, conn_vars

\* No peer can put keys in the space of another epoch, whatever flights it sends
\* in whatever space, although handle_crypto_output does not look at which keys
\* TLS gives it.
THEOREM LoopEpochTheorem == LoopSpec => []EpochOfSpace
<1>1. LoopInit => KeyInv
  BY SideNames DEF LoopInit, Init, KeyInv, EpochOfSpace, SpaceId, NoKeys
<1>2. LoopInv /\ KeyInv /\ [LoopNext]_all_vars => KeyInv'
  <2> SUFFICES ASSUME LoopInv, KeyInv, [LoopNext]_all_vars PROVE KeyInv' OBVIOUS
  <2>1. CASE UNCHANGED all_vars
    BY <2>1 DEF all_vars, vars, loop_vars, KeyInv, EpochOfSpace
  <2>2. CASE Ingested
    <3>1. PICK sp \in SpaceId : keys[me][sp] # NoKeys /\ \E pn, frames, own : Begin(sp, pn, frames, own)
      BY <2>2 DEF Ingested
    <3>2. packet'.sp = sp /\ UNCHANGED <<me, state, tls, keys>> BY <3>1 DEF Begin
    <3> QED BY <3>1, <3>2 DEF KeyInv, EpochOfSpace
  <2>3. CASE Answer
    <3>1. PICK sp \in SpaceId, room \in Rooms : Egest(me, sp, room) BY <2>3 DEF Answer
    <3>2. UNCHANGED <<me, packet, next, tls, keys>> BY <2>3, <3>1 DEF Answer, Egest
    <3>3. state[me] # "None" /\ \A s \in Side : state'[s] = "None" => state[s] = "None"
      BY <3>1 DEF Egest, Open, LoopInv, TypeInv, TypeOK
    <3> QED BY <3>2, <3>3 DEF KeyInv, EpochOfSpace
  <2> QED BY <2>1, <2>2, <2>3, KeyInvStart, KeyInvFrame DEF LoopNext
<1>3. KeyInv => EpochOfSpace BY DEF KeyInv
<1> QED BY <1>1, <1>2, <1>3, LoopInvInit, LoopInvNext, PTL DEF LoopSpec

-----------------------------------------------------------------------------
(* The loop on the packets of Connection is the step Ingest. *)

\* The position of the last frame, in the order of FramesOf, up to each kind.
One(b) == IF b THEN 1 ELSE 0
PosCrypto(p) == One(p.crypto # <<>>)
PosAck(p) == PosCrypto(p) + One(p.ack # {})
PosDone(p) == PosAck(p) + One(p.done)
PosStream(p) == PosDone(p) + One(p.stream # <<>>)
PosClose(p) == PosStream(p) + One(p.close # "none")

\* One more frame, or none.
LEMMA AddOptional ==
    ASSUME NEW S, NEW a \in Seq(S), NEW b \in BOOLEAN, NEW f, b => f \in S
    PROVE  LET c == a \o (IF b THEN <<f>> ELSE <<>>)
           IN  /\ c \in Seq(S) /\ Len(c) = Len(a) + One(b)
               /\ \A i \in 1..Len(a) : c[i] = a[i]
               /\ b => c[Len(a) + 1] = f
<1>1. CASE b
  <2>1. PICK c : c = Append(a, f) OBVIOUS
  <2>2. a \o <<f>> = c BY <1>1, <2>1
  <2>3. /\ c \in Seq(S) /\ Len(c) = Len(a) + 1 /\ c[Len(a) + 1] = f
        /\ \A i \in 1..Len(a) : c[i] = a[i]
    BY <1>1, <2>1
  <2> QED BY <1>1, <2>2, <2>3 DEF One
<1>2. CASE ~b
  <2>1. a \o <<>> = a OBVIOUS
  <2> QED BY <1>2, <2>1 DEF One
<1> QED BY <1>1, <1>2

\* Which frame of a packet is where.
LEMMA FramePositions ==
    ASSUME NEW p \in Packet
    PROVE  LET fs == FramesOf(p)
           IN  /\ fs \in Seq(AnyFrame) /\ Len(fs) = PosClose(p)
               /\ p.crypto # <<>> => fs[PosCrypto(p)] = Crypto(p.crypto_off, p.crypto)
               /\ p.ack # {} => fs[PosAck(p)] = Ignored
               /\ p.done => fs[PosDone(p)] = Done
               /\ p.stream # <<>> => fs[PosStream(p)] = Stream(p.stream)
               /\ p.close # "none" => fs[PosClose(p)] = Close(p.close)
<1>1. p.crypto_off \in Nat /\ p.crypto \in Seq(Flight) /\ p.stream \in Seq(Nat)
      /\ p.close \in CloseCode /\ p.done \in BOOLEAN
  BY DEF Packet
<1>2. p.close # "none" => Close(p.close) \in AnyFrame BY <1>1 DEF AnyFrame, CloseCode
<1>3. Crypto(p.crypto_off, p.crypto) \in AnyFrame /\ Ignored \in AnyFrame /\ Done \in AnyFrame
      /\ Stream(p.stream) \in AnyFrame
  BY <1>1 DEF AnyFrame
<1>4. PICK c, a, d, e, x :
        /\ c = (IF p.crypto # <<>> THEN <<Crypto(p.crypto_off, p.crypto)>> ELSE <<>>)
        /\ a = c \o (IF p.ack # {} THEN <<Ignored>> ELSE <<>>)
        /\ d = a \o (IF p.done THEN <<Done>> ELSE <<>>)
        /\ e = d \o (IF p.stream # <<>> THEN <<Stream(p.stream)>> ELSE <<>>)
        /\ x = e \o (IF p.close # "none" THEN <<Close(p.close)>> ELSE <<>>)
  OBVIOUS
<1>5. FramesOf(p) = x BY <1>4 DEF FramesOf
<1>6. c \in Seq(AnyFrame) /\ Len(c) = PosCrypto(p)
      /\ (p.crypto # <<>> => c[PosCrypto(p)] = Crypto(p.crypto_off, p.crypto))
  BY <1>3, <1>4 DEF PosCrypto, One
<1>7. /\ a \in Seq(AnyFrame) /\ Len(a) = PosAck(p) /\ \A i \in 1..Len(c) : a[i] = c[i]
      /\ p.ack # {} => a[PosAck(p)] = Ignored
  <2>1. PICK b, f : b \in BOOLEAN /\ b = (p.ack # {}) /\ f = Ignored OBVIOUS
  <2>2. b \in BOOLEAN /\ (b => f \in AnyFrame) /\ a = c \o (IF b THEN <<f>> ELSE <<>>) BY <1>3, <1>4, <1>6, <2>1
  <2>3. /\ a \in Seq(AnyFrame) /\ Len(a) = Len(c) + One(b)
        /\ \A i \in 1..Len(c) : a[i] = c[i]
        /\ b => a[Len(c) + 1] = f
    BY <1>6, <2>2, AddOptional
  <2>4. PosAck(p) = Len(c) + One(b) BY <1>6, <2>1 DEF PosAck
  <2>5. b => One(b) = 1 BY DEF One
  <2> QED BY <2>1, <2>3, <2>4, <2>5
<1>8. /\ d \in Seq(AnyFrame) /\ Len(d) = PosDone(p) /\ \A i \in 1..Len(a) : d[i] = a[i]
      /\ p.done => d[PosDone(p)] = Done
  <2>1. PICK b, f : b \in BOOLEAN /\ b = (p.done) /\ f = Done BY <1>1
  <2>2. b \in BOOLEAN /\ (b => f \in AnyFrame) /\ d = a \o (IF b THEN <<f>> ELSE <<>>) BY <1>1, <1>3, <1>4, <1>7, <2>1
  <2>3. /\ d \in Seq(AnyFrame) /\ Len(d) = Len(a) + One(b)
        /\ \A i \in 1..Len(a) : d[i] = a[i]
        /\ b => d[Len(a) + 1] = f
    BY <1>7, <2>2, AddOptional
  <2>4. PosDone(p) = Len(a) + One(b) BY <1>7, <2>1 DEF PosDone
  <2>5. b => One(b) = 1 BY DEF One
  <2> QED BY <2>1, <2>3, <2>4, <2>5
<1>9. /\ e \in Seq(AnyFrame) /\ Len(e) = PosStream(p) /\ \A i \in 1..Len(d) : e[i] = d[i]
      /\ p.stream # <<>> => e[PosStream(p)] = Stream(p.stream)
  <2>1. PICK b, f : b \in BOOLEAN /\ b = (p.stream # <<>>) /\ f = Stream(p.stream) OBVIOUS
  <2>2. b \in BOOLEAN /\ (b => f \in AnyFrame) /\ e = d \o (IF b THEN <<f>> ELSE <<>>) BY <1>3, <1>4, <1>8, <2>1
  <2>3. /\ e \in Seq(AnyFrame) /\ Len(e) = Len(d) + One(b)
        /\ \A i \in 1..Len(d) : e[i] = d[i]
        /\ b => e[Len(d) + 1] = f
    BY <1>8, <2>2, AddOptional
  <2>4. PosStream(p) = Len(d) + One(b) BY <1>8, <2>1 DEF PosStream
  <2>5. b => One(b) = 1 BY DEF One
  <2> QED BY <2>1, <2>3, <2>4, <2>5
<1>10. /\ x \in Seq(AnyFrame) /\ Len(x) = PosClose(p) /\ \A i \in 1..Len(e) : x[i] = e[i]
       /\ p.close # "none" => x[PosClose(p)] = Close(p.close)
  <2>1. PICK b, f : b \in BOOLEAN /\ b = (p.close # "none") /\ f = Close(p.close) OBVIOUS
  <2>2. b \in BOOLEAN /\ (b => f \in AnyFrame) /\ x = e \o (IF b THEN <<f>> ELSE <<>>) BY <1>2, <1>4, <1>9, <2>1
  <2>3. /\ x \in Seq(AnyFrame) /\ Len(x) = Len(e) + One(b)
        /\ \A i \in 1..Len(e) : x[i] = e[i]
        /\ b => x[Len(e) + 1] = f
    BY <1>9, <2>2, AddOptional
  <2>4. PosClose(p) = Len(e) + One(b) BY <1>9, <2>1 DEF PosClose
  <2>5. b => One(b) = 1 BY DEF One
  <2> QED BY <2>1, <2>3, <2>4, <2>5
<1>11. /\ PosCrypto(p) \in Nat /\ PosAck(p) \in Nat /\ PosDone(p) \in Nat /\ PosStream(p) \in Nat
       /\ PosCrypto(p) <= PosAck(p) /\ PosAck(p) <= PosDone(p) /\ PosDone(p) <= PosStream(p)
       /\ p.crypto # <<>> => PosCrypto(p) >= 1
       /\ p.ack # {} => PosAck(p) >= 1
       /\ p.done => PosDone(p) >= 1
       /\ p.stream # <<>> => PosStream(p) >= 1
  BY DEF PosCrypto, PosAck, PosDone, PosStream, One
<1> HIDE DEF PosCrypto, PosAck, PosDone, PosStream, PosClose
<1>12. p.crypto # <<>> => x[PosCrypto(p)] = c[PosCrypto(p)]
  BY <1>6, <1>7, <1>8, <1>9, <1>10, <1>11
<1>13. p.ack # {} => x[PosAck(p)] = a[PosAck(p)]
  BY <1>7, <1>8, <1>9, <1>10, <1>11
<1>14. p.done => x[PosDone(p)] = d[PosDone(p)]
  BY <1>8, <1>9, <1>10, <1>11
<1>15. p.stream # <<>> => x[PosStream(p)] = e[PosStream(p)]
  BY <1>9, <1>10, <1>11
<1> QED BY <1>5, <1>6, <1>7, <1>8, <1>9, <1>10, <1>12, <1>13, <1>14, <1>15

\* Has TLS read the flight of packet p, when m of its frames have been processed?
\* If so, what it answered with the tickets t, and the keys there are then.
Run(p, m) ==
    m >= 1 /\ p.crypto # <<>> /\ p.crypto_off = before.crypto_recv_offset[me][SpaceOf(p.form)]
TlsAnswer(p, t) == TlsRead(before.tls[me], p.crypto, t)
KeysAfter(p, t, m) ==
    IF Run(p, m) THEN InstallKeys(before.keys[me], SpaceOf(p.form), TlsAnswer(p, t))
    ELSE before.keys[me]

\* The handshake of this side when m frames of packet p have been processed.
AfterCrypto(p, t, m) ==
    LET sp == SpaceOf(p.form)
        r  == TlsAnswer(p, t)
    IN  /\ Run(p, m) => r.tls # "Failed"
        /\ (Run(p, m) /\ before.tls[me] = "S_Flight") \/ t = <<>>
        /\ space = [before.space EXCEPT ![me][sp] = RecordRecvPn(@, p.pn)]
        /\ tls = [before.tls EXCEPT ![me] = IF Run(p, m) THEN r.tls ELSE @]
        /\ keys = [before.keys EXCEPT ![me] = KeysAfter(p, t, m)]
        /\ pending_crypto =
               [before.pending_crypto EXCEPT ![me] = IF Run(p, m) THEN QueueCrypto(@, sp, r) ELSE @]
        /\ crypto_recv_offset =
               [before.crypto_recv_offset EXCEPT ![me][sp] = IF Run(p, m) THEN @ + Len(p.crypto) ELSE @]

\* And the rest of it.
StateAt(p, t, m) ==
    IF p.close # "none" /\ m >= PosClose(p) THEN "Closed"
    ELSE IF p.done /\ m >= PosDone(p) /\ me = "client" THEN "Established"
    ELSE IF before.keys[me]["AppData"] = NoKeys /\ KeysAfter(p, t, m)["AppData"] # NoKeys
    THEN "Established" ELSE before.state[me]
ReasonAt(p, m) ==
    IF p.close # "none" /\ m >= PosClose(p) THEN ReasonOf(p.close) ELSE before.close_reason[me]
ReceivedAt(p, m) ==
    IF p.stream # <<>> /\ m >= PosStream(p) THEN before.received_app_data[me] \o p.stream
    ELSE before.received_app_data[me]
AfterRest(p, t, m) ==
    /\ state = [before.state EXCEPT ![me] = StateAt(p, t, m)]
    /\ close_reason = [before.close_reason EXCEPT ![me] = ReasonAt(p, m)]
    /\ received_app_data = [before.received_app_data EXCEPT ![me] = ReceivedAt(p, m)]

After(p, t, m) == AfterCrypto(p, t, m) /\ AfterRest(p, t, m)

\* The connection as it was before the packet.
BeforeTypes ==
    /\ before.state \in [Side -> State] /\ before.tls \in [Side -> Tls]
    /\ before.keys \in [Side -> [SpaceId -> Keys]]
    /\ before.space \in [Side -> [SpaceId -> Space]]
    /\ before.pending_crypto \in [Side -> [SpaceId -> Seq(Flight)]]
    /\ before.crypto_recv_offset \in [Side -> [SpaceId -> Nat]]
    /\ before.received_app_data \in [Side -> Seq(Nat)]
    /\ before.close_reason \in [Side -> CloseReason]

\* ingest went as far as the loop with p: it is open and the packet opens.
Admitted(p) ==
    LET sp == SpaceOf(p.form)
    IN  /\ before.state[me] \notin {"None", "Closed"}
        /\ p.from = Peer(me) /\ before.keys[me][sp] = p.key
        /\ IF p.form = "Short"
           THEN ShortPn(before.space[me][sp].largest_recv_pn, p.pn) = p.pn
           ELSE LongPn(p.pn) = p.pn
        /\ Len(before.space[me][sp].pending_acks) < MaxAcks
        /\ Len(before.received_app_data[me]) + Len(p.stream) <= MaxRecv

\* In the middle of the loop the connection is what the frames so far have made
\* of the one before the packet.
OwnInv ==
    next # 0 =>
        /\ BeforeTypes
        /\ \A p \in packet.own :
               /\ p \in Packet /\ SpaceOf(p.form) = packet.sp /\ packet.frames = FramesOf(p)
               /\ Admitted(p)
               /\ \E t \in Tickets : After(p, t, processed)

\* The positions are in order.
LEMMA PositionFacts ==
    ASSUME NEW p
    PROVE  /\ PosCrypto(p) \in 0..1 /\ PosAck(p) \in Nat /\ PosDone(p) \in Nat
           /\ PosStream(p) \in Nat /\ PosClose(p) \in Nat
           /\ PosCrypto(p) = IF p.crypto # <<>> THEN 1 ELSE 0
           /\ PosAck(p) = IF p.ack # {} THEN PosCrypto(p) + 1 ELSE PosCrypto(p)
           /\ PosDone(p) = IF p.done THEN PosAck(p) + 1 ELSE PosAck(p)
           /\ PosStream(p) = IF p.stream # <<>> THEN PosDone(p) + 1 ELSE PosDone(p)
           /\ PosClose(p) = IF p.close # "none" THEN PosStream(p) + 1 ELSE PosStream(p)
  BY DEF PosCrypto, PosAck, PosDone, PosStream, PosClose, One

\* The same without cases: later frames come at later positions.
LEMMA PositionOrder ==
    ASSUME NEW p
    PROVE  /\ PosAck(p) \in Nat /\ PosDone(p) \in Nat
           /\ PosStream(p) \in Nat /\ PosClose(p) \in Nat
           /\ PosAck(p) <= PosDone(p) /\ PosDone(p) <= PosStream(p) /\ PosStream(p) <= PosClose(p)
           /\ p.done => PosAck(p) < PosDone(p)
           /\ p.stream # <<>> => PosDone(p) < PosStream(p)
           /\ p.close # "none" => PosStream(p) < PosClose(p)
  BY PositionFacts

\* What a packet to this side is.
LEMMA PacketsToType ==
    ASSUME TypeInv, NEW s \in Side, NEW sp \in SpaceId, NEW pn \in Nat, keys[s][sp] # NoKeys,
           NEW p \in PacketsTo(s, sp, pn)
    PROVE  p \in Packet /\ SpaceOf(p.form) = sp /\ p.pn = pn
<1>1. p \in [ from : {Peer(s)}, form : {f \in Form : SpaceOf(f) = sp}, key : {keys[s][sp]}, pn : {pn},
              crypto : {<<>>} \cup FlightsTo(s), crypto_off : {0},
              ack : {{}, {[largest |-> 0, first_range |-> 0]}},
              done : BOOLEAN, stream : {<<>>, <<1>>}, stream_off : {0},
              close : CloseCode ]
  BY DEF PacketsTo
<1>2. Peer(s) \in Side BY DEF Peer, Side
<1>3. keys[s][sp] \in Epoch BY DEF TypeInv, TypeOK, Keys
<1>4. {<<>>} \cup FlightsTo(s) \subseteq Seq(Flight)
  <2>1. <<>> \in Seq(Flight) OBVIOUS
  <2> QED BY <2>1, FlightTypes
<1>5. {{}, {[largest |-> 0, first_range |-> 0]}} \subseteq SUBSET Ack
  <2>1. [largest |-> 0, first_range |-> 0] \in Ack BY DEF Ack
  <2> QED BY <2>1
<1>6. {<<>>, <<1>>} \subseteq Seq(Nat)
  <2>1. <<>> \in Seq(Nat) /\ <<1>> \in Seq(Nat) OBVIOUS
  <2> QED BY <2>1
<1>7. p = [from |-> p.from, form |-> p.form, key |-> p.key, pn |-> p.pn, crypto |-> p.crypto,
           crypto_off |-> p.crypto_off, ack |-> p.ack, done |-> p.done, stream |-> p.stream,
           stream_off |-> p.stream_off, close |-> p.close]
  BY <1>1
<1>8. /\ p.from \in Side /\ p.form \in Form /\ p.key \in Epoch /\ p.pn \in Nat
      /\ p.crypto_off \in Nat /\ p.done \in BOOLEAN /\ p.stream_off \in Nat /\ p.close \in CloseCode
      /\ SpaceOf(p.form) = sp /\ p.pn = pn
  BY <1>1, <1>2, <1>3
<1>9. p.crypto \in {<<>>} \cup FlightsTo(s) /\ p.ack \in {{}, {[largest |-> 0, first_range |-> 0]}}
      /\ p.stream \in {<<>>, <<1>>}
  BY <1>1
<1>10. p.crypto \in Seq(Flight) /\ p.ack \in SUBSET Ack /\ p.stream \in Seq(Nat)
  BY <1>4, <1>5, <1>6, <1>9
<1>11. p \in Packet BY <1>7, <1>8, <1>10 DEF Packet
<1> QED BY <1>8, <1>11

\* The loop begins with the connection as it is.
LEMMA OwnInvBegin == LoopInv /\ Ingested => OwnInv'
<1> SUFFICES ASSUME LoopInv, Ingested PROVE OwnInv' OBVIOUS
<1>1. /\ state \in [Side -> State] /\ tls \in [Side -> Tls] /\ keys \in [Side -> [SpaceId -> Keys]]
      /\ space \in [Side -> [SpaceId -> Space]]
      /\ pending_crypto \in [Side -> [SpaceId -> Seq(Flight)]]
      /\ crypto_recv_offset \in [Side -> [SpaceId -> Nat]]
      /\ received_app_data \in [Side -> Seq(Nat)] /\ close_reason \in [Side -> CloseReason]
      /\ me \in Side
  BY DEF LoopInv, TypeInv, TypeOK
<1>2. before' = Snapshot
  <2>1. \E sp, pn, frames, own : Begin(sp, pn, frames, own) BY DEF Ingested
  <2> QED BY <2>1 DEF Begin
<1>3. /\ before'.state = state /\ before'.tls = tls /\ before'.keys = keys /\ before'.space = space
      /\ before'.pending_crypto = pending_crypto /\ before'.crypto_recv_offset = crypto_recv_offset
      /\ before'.received_app_data = received_app_data /\ before'.close_reason = close_reason
  BY <1>2 DEF Snapshot
<1>4. BeforeTypes' BY <1>1, <1>3 DEF BeforeTypes
<1>5. ASSUME NEW p \in packet'.own
      PROVE  /\ p \in Packet /\ SpaceOf(p.form) = packet'.sp /\ packet'.frames = FramesOf(p)
             /\ Admitted(p)' /\ After(p, <<>>, 0)' /\ processed' = 0
  <2>1. PICK sp \in SpaceId : LET pn == space[me][sp].largest_recv_pn + 1
        IN  /\ Open(me) /\ keys[me][sp] # NoKeys
            /\ Len(space[me][sp].pending_acks) < MaxAcks
            /\ \/ \E q \in PacketsTo(me, sp, pn) :
                      /\ Decrypts(me, q)
                      /\ Len(received_app_data[me]) + Len(q.stream) <= MaxRecv
                      /\ Begin(sp, pn, FramesOf(q), {q})
               \/ \E n \in 1..MaxFrames : \E frames \in [1..n -> FramesTo(me)] :
                      Begin(sp, pn, frames, {})
    BY DEF Ingested
  <2>2. PICK pn : pn = space[me][sp].largest_recv_pn + 1 OBVIOUS
  <2>3. pn \in Nat BY <1>1, <2>2 DEF Space
  <2>4. ~ \E n \in 1..MaxFrames : \E frames \in [1..n -> FramesTo(me)] : Begin(sp, pn, frames, {})
    <3> SUFFICES ASSUME NEW frames, Begin(sp, pn, frames, {}) PROVE FALSE OBVIOUS
    <3>1. packet'.own = {} BY DEF Begin
    <3> QED BY <1>5, <3>1
  <2>5. PICK q \in PacketsTo(me, sp, pn) :
                      /\ Decrypts(me, q)
                      /\ Len(received_app_data[me]) + Len(q.stream) <= MaxRecv
                      /\ Begin(sp, pn, FramesOf(q), {q})
    BY <2>1, <2>2, <2>4
  <2>6. packet'.own = {q} /\ packet'.sp = sp /\ packet'.frames = FramesOf(q) BY <2>5 DEF Begin
  <2>7. p = q BY <1>5, <2>6
  <2>8. p \in Packet /\ SpaceOf(p.form) = sp /\ p.pn = pn
    BY <1>1, <2>1, <2>3, <2>7, PacketsToType DEF LoopInv
  <2>9. /\ space' = [space EXCEPT ![me][sp] = RecordRecvPn(@, pn)] /\ processed' = 0
        /\ UNCHANGED <<me, state, tls, keys, pending_crypto, crypto_recv_offset, close_reason,
                       received_app_data>>
    BY <2>5 DEF Begin, stream_vars
  <2>10. Admitted(p)'
    BY <1>3, <2>1, <2>5, <2>7, <2>8, <2>9 DEF Admitted, Decrypts, Open
  <2>11. /\ p.close # "none" => ~(0 >= PosClose(p))
         /\ p.done => ~(0 >= PosDone(p))
         /\ p.stream # <<>> => ~(0 >= PosStream(p))
    BY PositionFacts
  <2>12. After(p, <<>>, 0)'
    <3>1. ~(0 >= 1) OBVIOUS
    <3>2. /\ [state EXCEPT ![me] = state[me]] = state /\ [tls EXCEPT ![me] = tls[me]] = tls
          /\ [keys EXCEPT ![me] = keys[me]] = keys
          /\ [pending_crypto EXCEPT ![me] = pending_crypto[me]] = pending_crypto
          /\ [crypto_recv_offset EXCEPT ![me][sp] = crypto_recv_offset[me][sp]] = crypto_recv_offset
          /\ [close_reason EXCEPT ![me] = close_reason[me]] = close_reason
          /\ [received_app_data EXCEPT ![me] = received_app_data[me]] = received_app_data
      BY <1>1
    <3>3. ~(keys[me]["AppData"] = NoKeys /\ keys[me]["AppData"] # NoKeys) OBVIOUS
    <3> QED BY <1>3, <2>8, <2>9, <2>11, <3>1, <3>2, <3>3
         DEF After, AfterCrypto, AfterRest, Run, KeysAfter, StateAt, ReasonAt, ReceivedAt
  <2> QED BY <2>6, <2>7, <2>8, <2>9, <2>10, <2>12
<1>6. <<>> \in Tickets BY DEF Tickets
<1>7. ASSUME NEW p \in packet'.own PROVE \E t \in Tickets : After(p, t, processed)'
  <2>1. After(p, <<>>, 0)' /\ processed' = 0 BY <1>5, <1>7
  <2>2. After(p, <<>>, processed)'
    BY <2>1 DEF After, AfterCrypto, AfterRest, Run, KeysAfter, StateAt, ReasonAt, ReceivedAt
  <2> QED BY <1>6, <2>2
<1> QED BY <1>4, <1>5, <1>7 DEF OwnInv

\* Where the loop stands on a packet of Connection, as numbers and values.
LEMMA OwnFrame ==
    ASSUME LoopInv, OwnInv, next # 0, NEW p \in packet.own
    PROVE  /\ BeforeTypes /\ p \in Packet /\ SpaceOf(p.form) = packet.sp /\ packet.sp \in SpaceId
           /\ me \in Side /\ Admitted(p) /\ next \in 1..PosClose(p) /\ processed = next - 1
           /\ Len(packet.frames) = PosClose(p)
           /\ \E t \in Tickets : After(p, t, processed)
           /\ \/ next = 1 /\ p.crypto # <<>> /\ packet.frames[next] = Crypto(p.crypto_off, p.crypto)
              \/ (p.crypto = <<>> \/ next > 1) /\
                 \/ p.ack # {} /\ next = PosAck(p) /\ packet.frames[next] = Ignored
                 \/ p.done /\ next = PosDone(p) /\ packet.frames[next] = Done
                 \/ p.stream # <<>> /\ next = PosStream(p) /\ packet.frames[next] = Stream(p.stream)
                 \/ p.close # "none" /\ next = PosClose(p) /\ packet.frames[next] = Close(p.close)
<1>1. /\ BeforeTypes /\ p \in Packet /\ SpaceOf(p.form) = packet.sp /\ packet.frames = FramesOf(p)
      /\ Admitted(p) /\ \E t \in Tickets : After(p, t, processed)
  BY DEF OwnInv
<1>2. /\ Len(packet.frames) = PosClose(p)
      /\ p.crypto # <<>> => packet.frames[PosCrypto(p)] = Crypto(p.crypto_off, p.crypto)
      /\ p.ack # {} => packet.frames[PosAck(p)] = Ignored
      /\ p.done => packet.frames[PosDone(p)] = Done
      /\ p.stream # <<>> => packet.frames[PosStream(p)] = Stream(p.stream)
      /\ p.close # "none" => packet.frames[PosClose(p)] = Close(p.close)
  BY <1>1, FramePositions
<1>3. next \in Nat /\ next <= PosClose(p) /\ processed = next - 1 /\ next >= 1
  BY <1>2 DEF LoopInv
<1>4. \/ next = 1 /\ p.crypto # <<>> /\ next = PosCrypto(p)
      \/ (p.crypto = <<>> \/ next > 1) /\
         \/ p.ack # {} /\ next = PosAck(p)
         \/ p.done /\ next = PosDone(p)
         \/ p.stream # <<>> /\ next = PosStream(p)
         \/ p.close # "none" /\ next = PosClose(p)
  <2>1. CASE next <= PosCrypto(p)
    <3>1. next = 1 /\ PosCrypto(p) = 1 BY <1>3, <2>1, PositionFacts
    <3> QED BY <3>1, PositionFacts
  <2>2. CASE ~(next <= PosCrypto(p))
    <3>1. p.crypto = <<>> \/ next > 1 BY <1>3, <2>2, PositionFacts
    <3>2. CASE next <= PosAck(p)
      <4>1. p.ack # {} BY <2>2, <3>2, PositionFacts
      <4>2. PosAck(p) = PosCrypto(p) + 1 /\ PosCrypto(p) \in Nat BY <4>1, PositionFacts
      <4> QED BY <1>3, <2>2, <3>1, <3>2, <4>1, <4>2
    <3>3. CASE ~(next <= PosAck(p)) /\ next <= PosDone(p)
      <4>1. p.done BY <3>3, PositionFacts
      <4>2. PosDone(p) = PosAck(p) + 1 /\ PosAck(p) \in Nat BY <4>1, PositionFacts
      <4> QED BY <1>3, <3>1, <3>3, <4>1, <4>2
    <3>4. CASE ~(next <= PosDone(p)) /\ next <= PosStream(p)
      <4>1. p.stream # <<>> BY <3>4, PositionFacts
      <4>2. PosStream(p) = PosDone(p) + 1 /\ PosDone(p) \in Nat BY <4>1, PositionFacts
      <4> QED BY <1>3, <3>1, <3>4, <4>1, <4>2
    <3>5. CASE ~(next <= PosStream(p))
      <4>1. p.close # "none" BY <1>3, <3>5, PositionFacts
      <4>2. PosClose(p) = PosStream(p) + 1 /\ PosStream(p) \in Nat BY <4>1, PositionFacts
      <4> QED BY <1>3, <3>1, <3>5, <4>1, <4>2
    <3> QED BY <3>2, <3>3, <3>4, <3>5
  <2> QED BY <2>1, <2>2
<1>5. me \in Side /\ packet.sp \in SpaceId BY DEF LoopInv
<1>6. next \in 1..PosClose(p) BY <1>3, PositionFacts
<1> QED BY <1>1, <1>2, <1>3, <1>4, <1>5, <1>6

\* The kind of a frame decides which branch of the loop takes it.
LEMMA KindDecides ==
    ASSUME NEW frame, FrameStep(frame)
    PROVE  /\ frame.kind = "Ignored" => OnIgnored(frame)
           /\ frame.kind = "Done" => (OnIgnored(frame) /\ me = "server") \/ OnDone(frame)
           /\ frame.kind = "Stream" => OnStream(frame)
           /\ frame.kind = "Close" => OnClose(frame)
           /\ frame.kind = "Crypto" =>
                  OnCryptoOutOfOrder(frame) \/ OnCrypto(frame) \/ OnCryptoError(frame)
<1>1. OnIgnored(frame) => frame.kind = "Ignored" \/ (frame.kind = "Done" /\ me = "server")
  BY DEF OnIgnored
<1>2. /\ OnCryptoOutOfOrder(frame) => frame.kind = "Crypto"
      /\ OnCrypto(frame) => frame.kind = "Crypto"
      /\ OnCryptoError(frame) => frame.kind = "Crypto"
  BY DEF OnCryptoOutOfOrder, OnCrypto, OnCryptoError
<1>3. /\ OnClose(frame) => frame.kind = "Close"
      /\ OnDone(frame) => frame.kind = "Done"
      /\ OnStream(frame) => frame.kind = "Stream"
  BY DEF OnClose, OnDone, OnStream
<1> QED BY <1>1, <1>2, <1>3 DEF FrameStep

\* What a frame that is not CRYPTO does is added to what the ones before it did.
LEMMA AfterOther ==
    ASSUME LoopInv, OwnInv, next # 0, NEW p \in packet.own, NEW t \in Tickets, NEW n, n = next,
           After(p, t, processed), FrameStep(packet.frames[next]),
           p.crypto = <<>> \/ next > 1,
           \/ p.ack # {} /\ next = PosAck(p) /\ packet.frames[next] = Ignored
           \/ p.done /\ next = PosDone(p) /\ packet.frames[next] = Done
           \/ p.stream # <<>> /\ next = PosStream(p) /\ packet.frames[next] = Stream(p.stream)
           \/ p.close # "none" /\ next = PosClose(p) /\ packet.frames[next] = Close(p.close)
    PROVE  After(p, t, n)'
<1>1. PICK m, frame : m = processed /\ frame = packet.frames[next] OBVIOUS
<1>2. /\ BeforeTypes /\ p \in Packet /\ me \in Side /\ n \in 1..PosClose(p) /\ m = n - 1
      /\ PosClose(p) \in Nat
  BY <1>1, OwnFrame, PositionFacts
<1>3. UNCHANGED <<me, packet, before>> BY LoopProgress
<1>4. After(p, t, m) BY <1>1
<1>5. Run(p, n)' <=> Run(p, m) BY <1>2, <1>3 DEF Run
<1>6. KeysAfter(p, t, n)' = KeysAfter(p, t, m)
  BY <1>3, <1>5 DEF KeysAfter, TlsAnswer
<1>7. ASSUME UNCHANGED <<space, tls, keys, pending_crypto, crypto_recv_offset>>
      PROVE  AfterCrypto(p, t, n)'
  <2>1. AfterCrypto(p, t, m) BY <1>4 DEF After
  <2> QED BY <1>3, <1>5, <1>6, <1>7, <2>1 DEF AfterCrypto, TlsAnswer
<1>8. /\ state = [before.state EXCEPT ![me] = StateAt(p, t, m)]
      /\ close_reason = [before.close_reason EXCEPT ![me] = ReasonAt(p, m)]
      /\ received_app_data = [before.received_app_data EXCEPT ![me] = ReceivedAt(p, m)]
  BY <1>4 DEF After, AfterRest
<1>9. ASSUME state' = [before.state EXCEPT ![me] = StateAt(p, t, n)'],
             close_reason' = [before.close_reason EXCEPT ![me] = ReasonAt(p, n)'],
             received_app_data' = [before.received_app_data EXCEPT ![me] = ReceivedAt(p, n)'],
             UNCHANGED <<space, tls, keys, pending_crypto, crypto_recv_offset>>
      PROVE  After(p, t, n)'
  BY <1>3, <1>7, <1>9 DEF After, AfterRest
<1>10. /\ state[me] = StateAt(p, t, m) /\ received_app_data[me] = ReceivedAt(p, m)
       /\ state \in [Side -> State] /\ received_app_data \in [Side -> Seq(Nat)]
       /\ close_reason \in [Side -> CloseReason]
  BY <1>2, <1>8 DEF LoopInv, TypeInv, TypeOK, BeforeTypes
<1>11. CASE p.ack # {} /\ next = PosAck(p) /\ frame = Ignored
  <2>1. UNCHANGED vars
    <3>1. frame.kind = "Ignored" BY <1>11 DEF Ignored
    <3>2. OnIgnored(frame) BY <1>1, <3>1, KindDecides
    <3> QED BY <3>2 DEF OnIgnored
  <2>2. /\ p.close # "none" => ~(n >= PosClose(p)) /\ ~(m >= PosClose(p))
        /\ p.done => ~(n >= PosDone(p)) /\ ~(m >= PosDone(p))
        /\ p.stream # <<>> => ~(n >= PosStream(p)) /\ ~(m >= PosStream(p))
    <3>1. n = PosAck(p) BY <1>11
    <3> QED BY <1>2, <3>1, PositionOrder
  <2>3. StateAt(p, t, n)' = StateAt(p, t, m) /\ ReasonAt(p, n)' = ReasonAt(p, m)
        /\ ReceivedAt(p, n)' = ReceivedAt(p, m)
    BY <1>3, <1>6, <2>2 DEF StateAt, ReasonAt, ReceivedAt
  <2> QED BY <1>8, <1>9, <2>1, <2>3 DEF vars
<1>12. CASE p.done /\ next = PosDone(p) /\ frame = Done
  <2>1. /\ p.close # "none" => ~(n >= PosClose(p)) /\ ~(m >= PosClose(p))
        /\ n >= PosDone(p) /\ ~(m >= PosDone(p))
        /\ p.stream # <<>> => ~(n >= PosStream(p)) /\ ~(m >= PosStream(p))
    <3>1. n = PosDone(p) BY <1>12
    <3> QED BY <1>2, <3>1, PositionOrder
  <2>2. ReasonAt(p, n)' = ReasonAt(p, m) /\ ReceivedAt(p, n)' = ReceivedAt(p, m)
    BY <1>3, <2>1 DEF ReasonAt, ReceivedAt
  <2>3. /\ UNCHANGED <<space, tls, keys, pending_crypto, crypto_recv_offset, close_reason,
                       received_app_data>>
        /\ state' = IF me = "client" THEN [state EXCEPT ![me] = "Established"] ELSE state
    <3>1. frame.kind = "Done" BY <1>12 DEF Done
    <3>2. (OnIgnored(frame) /\ me = "server") \/ OnDone(frame) BY <1>1, <3>1, KindDecides
    <3> QED BY <3>2 DEF OnIgnored, OnDone, vars, stream_vars
  <2>4. StateAt(p, t, n)' = IF me = "client" THEN "Established" ELSE StateAt(p, t, m)
    BY <1>3, <1>6, <1>12, <2>1 DEF StateAt
  <2>5. state' = [before.state EXCEPT ![me] = StateAt(p, t, n)'] BY <1>2, <1>8, <2>3, <2>4 DEF BeforeTypes
  <2> QED BY <1>8, <1>9, <2>2, <2>3, <2>5
<1>13. CASE p.stream # <<>> /\ next = PosStream(p) /\ frame = Stream(p.stream)
  <2>1. /\ p.close # "none" => ~(n >= PosClose(p)) /\ ~(m >= PosClose(p))
        /\ p.done => n >= PosDone(p) /\ m >= PosDone(p)
        /\ n >= PosStream(p) /\ ~(m >= PosStream(p))
    <3>1. n = PosStream(p) /\ p.stream # <<>> BY <1>13
    <3>2. PosStream(p) = PosDone(p) + 1 /\ PosDone(p) \in Nat BY <3>1, PositionFacts
    <3>3. p.close # "none" => PosClose(p) = PosStream(p) + 1 BY PositionFacts
    <3> QED BY <1>2, <3>1, <3>2, <3>3
  <2>2. ReasonAt(p, n)' = ReasonAt(p, m) /\ StateAt(p, t, n)' = StateAt(p, t, m)
    BY <1>3, <1>6, <2>1 DEF ReasonAt, StateAt
  <2>3. /\ UNCHANGED <<space, tls, keys, pending_crypto, crypto_recv_offset, close_reason, state>>
        /\ received_app_data' = [received_app_data EXCEPT ![me] = @ \o p.stream]
    <3>1. frame.kind = "Stream" /\ frame.data = p.stream BY <1>13 DEF Stream
    <3>2. OnStream(frame) BY <1>1, <3>1, KindDecides
    <3> QED BY <3>1, <3>2 DEF OnStream, conn_vars
  <2>4. ReceivedAt(p, n)' = ReceivedAt(p, m) \o p.stream
    BY <1>3, <1>13, <2>1 DEF ReceivedAt
  <2>5. received_app_data' = [before.received_app_data EXCEPT ![me] = ReceivedAt(p, n)']
    BY <1>2, <1>8, <1>10, <2>3, <2>4 DEF BeforeTypes
  <2> QED BY <1>8, <1>9, <2>2, <2>3, <2>5
<1>14. CASE p.close # "none" /\ next = PosClose(p) /\ frame = Close(p.close)
  <2>1. /\ n >= PosClose(p)
        /\ p.stream # <<>> => n >= PosStream(p) /\ m >= PosStream(p)
    <3>1. n = PosClose(p) /\ p.close # "none" BY <1>14
    <3>2. PosStream(p) < n BY <3>1, PositionOrder
    <3> QED BY <1>2, <3>1, <3>2, PositionOrder
  <2>2. ReceivedAt(p, n)' = ReceivedAt(p, m)
    BY <1>3, <2>1 DEF ReceivedAt
  <2>3. /\ UNCHANGED <<space, tls, keys, pending_crypto, crypto_recv_offset, received_app_data>>
        /\ state' = [state EXCEPT ![me] = "Closed"]
        /\ close_reason' = [close_reason EXCEPT ![me] = ReasonOf(p.close)]
    <3>1. frame.kind = "Close" /\ frame.code = p.close BY <1>14 DEF Close
    <3>2. OnClose(frame) BY <1>1, <3>1, KindDecides
    <3> QED BY <3>1, <3>2 DEF OnClose, stream_vars
  <2>4. StateAt(p, t, n)' = "Closed" /\ ReasonAt(p, n)' = ReasonOf(p.close)
    BY <1>3, <1>14, <2>1 DEF StateAt, ReasonAt
  <2>5. /\ state' = [before.state EXCEPT ![me] = StateAt(p, t, n)']
        /\ close_reason' = [before.close_reason EXCEPT ![me] = ReasonAt(p, n)']
    BY <1>2, <1>8, <2>3, <2>4 DEF BeforeTypes
  <2> QED BY <1>8, <1>9, <2>2, <2>3, <2>5
<1> QED BY <1>1, <1>11, <1>12, <1>13, <1>14

\* Before the first frame only the packet number has been recorded.
LEMMA Untouched ==
    ASSUME BeforeTypes, me \in Side, NEW p \in Packet, SpaceOf(p.form) \in SpaceId,
           NEW t, After(p, t, 0)
    PROVE  /\ t = <<>>
           /\ state = before.state /\ tls = before.tls /\ keys = before.keys
           /\ pending_crypto = before.pending_crypto
           /\ crypto_recv_offset = before.crypto_recv_offset
           /\ close_reason = before.close_reason
           /\ received_app_data = before.received_app_data
           /\ space = [before.space EXCEPT ![me][SpaceOf(p.form)] = RecordRecvPn(@, p.pn)]
<1>1. ~Run(p, 0) BY DEF Run
<1>2. KeysAfter(p, t, 0) = before.keys[me] BY <1>1 DEF KeysAfter
<1>3. /\ p.close # "none" => ~(0 >= PosClose(p))
      /\ p.done => ~(0 >= PosDone(p))
      /\ p.stream # <<>> => ~(0 >= PosStream(p))
  BY PositionOrder
<1>4. StateAt(p, t, 0) = before.state[me] /\ ReasonAt(p, 0) = before.close_reason[me]
      /\ ReceivedAt(p, 0) = before.received_app_data[me]
  BY <1>2, <1>3 DEF StateAt, ReasonAt, ReceivedAt
<1>5. AfterCrypto(p, t, 0) /\ AfterRest(p, t, 0) BY DEF After
<1> QED BY <1>1, <1>2, <1>4, <1>5 DEF AfterCrypto, AfterRest, BeforeTypes

\* The CRYPTO frame comes first, and is read by TLS or ignored.
LEMMA AfterFlight ==
    ASSUME LoopInv, OwnInv, next = 1, NEW p \in packet.own, p.crypto # <<>>,
           packet.frames[next] = Crypto(p.crypto_off, p.crypto),
           FrameStep(packet.frames[next]), ~OnCryptoError(packet.frames[next])
    PROVE  \E t \in Tickets : After(p, t, 1)'
<1>1. PICK sp, frame : sp = packet.sp /\ frame = packet.frames[next] OBVIOUS
<1>2. /\ BeforeTypes /\ p \in Packet /\ me \in Side /\ SpaceOf(p.form) = sp /\ sp \in SpaceId
      /\ processed = 0
  BY <1>1, OwnFrame
<1>3. PICK u \in Tickets : After(p, u, 0) BY <1>2, OwnFrame
<1>4. /\ state = before.state /\ tls = before.tls /\ keys = before.keys
      /\ pending_crypto = before.pending_crypto
      /\ crypto_recv_offset = before.crypto_recv_offset
      /\ close_reason = before.close_reason
      /\ received_app_data = before.received_app_data
      /\ space = [before.space EXCEPT ![me][sp] = RecordRecvPn(@, p.pn)]
  BY <1>2, <1>3, Untouched
<1>5. UNCHANGED <<me, packet, before>> BY LoopProgress
<1>6. frame.kind = "Crypto" /\ frame.off = p.crypto_off /\ frame.flights = p.crypto
  BY <1>1 DEF Crypto
<1>7. OnCryptoOutOfOrder(frame) \/ OnCrypto(frame) BY <1>1, <1>6, KindDecides
<1>8. /\ p.close # "none" => ~(1 >= PosClose(p))
      /\ p.done => ~(1 >= PosDone(p))
      /\ p.stream # <<>> => ~(1 >= PosStream(p))
  <2>1. 1 <= PosAck(p) /\ PosAck(p) \in Nat
    <3>1. PosCrypto(p) = 1 /\ PosAck(p) \in Nat BY PositionFacts
    <3>2. PosAck(p) = PosCrypto(p) \/ PosAck(p) = PosCrypto(p) + 1 BY PositionFacts
    <3> QED BY <3>1, <3>2
  <2>2. PICK a, d, str, c : /\ a = PosAck(p) /\ d = PosDone(p) /\ str = PosStream(p)
                          /\ c = PosClose(p)
    OBVIOUS
  <2>3. /\ a \in Nat /\ d \in Nat /\ str \in Nat /\ c \in Nat
        /\ 1 <= a /\ a <= d /\ d <= str /\ str <= c
        /\ p.done => a < d
        /\ p.stream # <<>> => d < str
        /\ p.close # "none" => str < c
    BY <2>1, <2>2, PositionOrder
  <2>4. /\ p.close # "none" => ~(1 >= c) /\ c \in Nat
        /\ p.done => ~(1 >= d)
        /\ p.stream # <<>> => ~(1 >= str)
    BY <2>3
  <2> QED BY <2>2, <2>4
<1>9. ReasonAt(p, 1)' = before.close_reason[me] /\ ReceivedAt(p, 1)' = before.received_app_data[me]
  BY <1>5, <1>8 DEF ReasonAt, ReceivedAt
<1>10. ASSUME NEW t
       PROVE  StateAt(p, t, 1)' = IF before.keys[me]["AppData"] = NoKeys
                                     /\ KeysAfter(p, t, 1)'["AppData"] # NoKeys
                                  THEN "Established" ELSE before.state[me]
  BY <1>5, <1>8 DEF StateAt
<1>11. CASE OnCryptoOutOfOrder(frame)
  <2>1. UNCHANGED vars /\ p.crypto_off # before.crypto_recv_offset[me][sp]
    BY <1>1, <1>4, <1>6, <1>11 DEF OnCryptoOutOfOrder
  <2>2. ~Run(p, 1)' BY <1>2, <1>5, <2>1 DEF Run
  <2>3. KeysAfter(p, <<>>, 1)' = before.keys[me] BY <1>5, <2>2 DEF KeysAfter
  <2>4. StateAt(p, <<>>, 1)' = before.state[me] BY <1>10, <2>3
  <2>5. AfterRest(p, <<>>, 1)'
    BY <1>2, <1>4, <1>5, <1>9, <2>1, <2>4 DEF AfterRest, BeforeTypes, vars
  <2>6. AfterCrypto(p, <<>>, 1)'
    BY <1>2, <1>4, <1>5, <2>1, <2>2, <2>3 DEF AfterCrypto, BeforeTypes, vars
  <2>7. <<>> \in Tickets BY DEF Tickets
  <2> QED BY <2>5, <2>6, <2>7 DEF After
<1>12. CASE OnCrypto(frame)
  <2>1. PICK t \in Tickets :
          LET r  == TlsRead(before.tls[me], p.crypto, t)
              k  == InstallKeys(before.keys[me], sp, r)
              opens == before.keys[me]["AppData"] = NoKeys /\ k["AppData"] # NoKeys
          IN  /\ p.crypto_off = before.crypto_recv_offset[me][sp]
              /\ before.tls[me] = "S_Flight" \/ t = <<>>
              /\ r.tls # "Failed"
              /\ tls' = [before.tls EXCEPT ![me] = r.tls]
              /\ keys' = [before.keys EXCEPT ![me] = k]
              /\ pending_crypto' =
                     [before.pending_crypto EXCEPT ![me] = QueueCrypto(@, sp, r)]
              /\ crypto_recv_offset' =
                     [before.crypto_recv_offset EXCEPT ![me][sp] = @ + Len(p.crypto)]
              /\ state' = [before.state EXCEPT ![me] = IF opens THEN "Established" ELSE @]
              /\ UNCHANGED <<space, close_reason, stream_vars, sent>>
    <3>1. PICK fl : fl = p.crypto OBVIOUS
    <3>2. /\ frame.flights = fl /\ frame.off = p.crypto_off /\ packet.sp = sp
          /\ state = before.state /\ tls = before.tls /\ keys = before.keys
          /\ pending_crypto = before.pending_crypto
          /\ crypto_recv_offset = before.crypto_recv_offset
      BY <1>1, <1>4, <1>6, <3>1
    <3>3. PICK t \in Tickets :
            LET r == TlsRead(tls[me], frame.flights, t)
                k == InstallKeys(keys[me], sp, r)
            IN  /\ frame.off = crypto_recv_offset[me][sp]
                /\ tls[me] = "S_Flight" \/ t = <<>>
                /\ r.tls # "Failed"
                /\ tls' = [tls EXCEPT ![me] = r.tls]
                /\ keys' = [keys EXCEPT ![me] = k]
                /\ pending_crypto' = [pending_crypto EXCEPT ![me] = QueueCrypto(@, sp, r)]
                /\ crypto_recv_offset' =
                       [crypto_recv_offset EXCEPT ![me][sp] = @ + Len(frame.flights)]
                /\ state' = [state EXCEPT ![me] =
                       IF keys[me]["AppData"] = NoKeys /\ k["AppData"] # NoKeys
                       THEN "Established" ELSE @]
                /\ UNCHANGED <<space, close_reason, stream_vars, sent>>
      BY <1>12, <3>2 DEF OnCrypto
    <3> QED BY <3>1, <3>2, <3>3
  <2>2. PICK r, k : r = TlsRead(before.tls[me], p.crypto, t)
                    /\ k = InstallKeys(before.keys[me], sp, r)
    OBVIOUS
  <2>3. TlsAnswer(p, t)' = r BY <1>5, <2>2 DEF TlsAnswer
  <2>4. Run(p, 1)' BY <1>2, <1>5, <2>1 DEF Run
  <2>5. KeysAfter(p, t, 1)' = k BY <1>2, <1>5, <2>2, <2>3, <2>4 DEF KeysAfter
  <2>6. AfterRest(p, t, 1)'
    <3>1. state' = [before.state EXCEPT ![me] = StateAt(p, t, 1)']
      <4>1. PICK st : st = StateAt(p, t, 1)' OBVIOUS
      <4>2. st = IF before.keys[me]["AppData"] = NoKeys /\ k["AppData"] # NoKeys
                 THEN "Established" ELSE before.state[me]
        BY <1>10, <2>5, <4>1
      <4> QED BY <2>1, <2>2, <4>1, <4>2
    <3>2. close_reason' = before.close_reason /\ received_app_data' = before.received_app_data
      BY <1>4, <2>1 DEF stream_vars
    <3>3. /\ close_reason' = [before.close_reason EXCEPT ![me] = ReasonAt(p, 1)']
          /\ received_app_data' = [before.received_app_data EXCEPT ![me] = ReceivedAt(p, 1)']
      BY <1>2, <1>9, <3>2 DEF BeforeTypes
    <3> QED BY <1>5, <3>1, <3>3 DEF AfterRest
  <2>7. AfterCrypto(p, t, 1)'
    BY <1>2, <1>4, <1>5, <2>1, <2>2, <2>3, <2>4, <2>5 DEF AfterCrypto
  <2> QED BY <2>6, <2>7 DEF After
<1> QED BY <1>7, <1>11, <1>12

\* In the middle of the loop the frames so far have had their effect.
LEMMA OwnInvFrame == LoopInv /\ OwnInv /\ ProcessFrame => OwnInv'
<1> SUFFICES ASSUME LoopInv, OwnInv, ProcessFrame, next' # 0 PROVE OwnInv'
  BY DEF OwnInv
<1>1. next # 0 /\ FrameStep(packet.frames[next]) BY DEF ProcessFrame, FrameStep
<1>2. processed' = next /\ UNCHANGED <<me, packet, before>> BY <1>1, LoopProgress
<1>3. ~OnCryptoError(packet.frames[next]) BY DEF OnCryptoError, Stop
<1>4. ASSUME NEW p \in packet.own PROVE \E t \in Tickets : After(p, t, processed)'
  <2>1. PICK n : n = next OBVIOUS
  <2>2. \E t \in Tickets : After(p, t, n)'
    <3>1. CASE next = 1 /\ p.crypto # <<>> /\ packet.frames[next] = Crypto(p.crypto_off, p.crypto)
      BY <1>1, <1>3, <2>1, <3>1, AfterFlight
    <3>2. PICK u \in Tickets : After(p, u, processed) BY <1>1, OwnFrame
    <3> QED BY <1>1, <2>1, <3>1, <3>2, AfterOther, OwnFrame
  <2>3. PICK t \in Tickets : After(p, t, n)' BY <2>2
  <2>4. After(p, t, processed)'
    BY <1>2, <2>1, <2>3 DEF After, AfterCrypto, AfterRest, Run, KeysAfter, StateAt, ReasonAt, ReceivedAt
  <2> QED BY <2>4
<1>5. BeforeTypes' BY <1>1, <1>2 DEF OwnInv, BeforeTypes
<1>6. ASSUME NEW p \in packet.own PROVE Admitted(p)' BY <1>1, <1>2 DEF OwnInv, Admitted
<1> QED BY <1>1, <1>2, <1>4, <1>5, <1>6 DEF OwnInv

\* The operators of Connection mean the same in both readings of it.
LEMMA AtomicOperators ==
    /\ \A s : Atomic!Peer(s) = Peer(s)
    /\ \A f : Atomic!SpaceOf(f) = SpaceOf(f)
    /\ \A c : Atomic!ReasonOf(c) = ReasonOf(c)
    /\ \A v, pn : Atomic!RecordRecvPn(v, pn) = RecordRecvPn(v, pn)
    /\ \A t, f, k : Atomic!TlsRead(t, f, k) = TlsRead(t, f, k)
    /\ \A k, sp, r : Atomic!InstallKeys(k, sp, r) = InstallKeys(k, sp, r)
    /\ \A q, sp, r : Atomic!QueueCrypto(q, sp, r) = QueueCrypto(q, sp, r)
    /\ \A pn : Atomic!LongPn(pn) = LongPn(pn)
    /\ \A v, pn : Atomic!ShortPn(v, pn) = ShortPn(v, pn)
    /\ Atomic!NoKeys = NoKeys
<1>1. \A s : Atomic!Peer(s) = Peer(s) BY DEF Atomic!Peer, Peer
<1>2. \A f : Atomic!SpaceOf(f) = SpaceOf(f) BY DEF Atomic!SpaceOf, SpaceOf
<1>3. \A c : Atomic!ReasonOf(c) = ReasonOf(c) BY DEF Atomic!ReasonOf, ReasonOf
<1>4. \A v, pn : Atomic!RecordRecvPn(v, pn) = RecordRecvPn(v, pn)
  BY DEF Atomic!RecordRecvPn, RecordRecvPn
<1>5. Atomic!NoKeys = NoKeys BY DEF Atomic!NoKeys, NoKeys
<1>6. \A t, f, k : Atomic!TlsRead(t, f, k) = TlsRead(t, f, k)
  BY <1>5 DEF Atomic!TlsRead, TlsRead, Atomic!TlsStep, TlsStep
<1>7. Atomic!SpaceId = SpaceId BY DEF Atomic!SpaceId, SpaceId
<1>8. \A k, sp, r : Atomic!InstallKeys(k, sp, r) = InstallKeys(k, sp, r)
  BY <1>5, <1>7 DEF Atomic!InstallKeys, InstallKeys, Atomic!SetIfNone, SetIfNone
<1>9. \A q, sp, r : Atomic!QueueCrypto(q, sp, r) = QueueCrypto(q, sp, r)
  BY <1>5, <1>7 DEF Atomic!QueueCrypto, QueueCrypto, Atomic!NextSpace, NextSpace
<1>10. \A n : Atomic!Win(n) = Win(n) BY DEF Atomic!Win, Win
<1>11. \A n : Atomic!HalfWin(n) = HalfWin(n) BY <1>10 DEF Atomic!HalfWin, HalfWin
<1>12. \A pn : Atomic!EncodedPnLen(pn) = EncodedPnLen(pn)
  BY <1>10 DEF Atomic!EncodedPnLen, EncodedPnLen
<1>13. \A pn, len : Atomic!Truncate(pn, len) = Truncate(pn, len) BY <1>10 DEF Atomic!Truncate, Truncate
<1>14. \A l, pn, len : Atomic!DecodePacketNumber(l, pn, len) = DecodePacketNumber(l, pn, len)
  BY <1>10, <1>11 DEF Atomic!DecodePacketNumber, DecodePacketNumber, Atomic!DecodeNear, DecodeNear
<1>15. /\ \A pn : Atomic!LongPn(pn) = LongPn(pn)
       /\ \A v, pn : Atomic!ShortPn(v, pn) = ShortPn(v, pn)
  BY <1>12, <1>13, <1>14 DEF Atomic!LongPn, LongPn, Atomic!ShortPn, ShortPn
<1> QED BY <1>1, <1>2, <1>3, <1>4, <1>5, <1>6, <1>8, <1>9, <1>15

\* Ingest of Connection, on the connection before the packet and the one after.
LEMMA AtomicIngest ==
    ASSUME next # 0, next' = 0, NEW p, NEW t, NEW sp, sp = SpaceOf(p.form), Admitted(p),
           UNCHANGED <<pending_app_data, stream_send_offset, written, delivered, sent>>,
           NEW r, r = TlsRead(before.tls[me], p.crypto, t),
           NEW run \in BOOLEAN,
           run <=> p.crypto # <<>> /\ p.crypto_off = before.crypto_recv_offset[me][sp],
           NEW k, k = IF run THEN InstallKeys(before.keys[me], sp, r) ELSE before.keys[me],
           NEW ok \in BOOLEAN, ok <=> ~run \/ r.tls # "Failed",
           (run /\ before.tls[me] = "S_Flight") \/ t = <<>>,
           space' = [before.space EXCEPT ![me][sp] = RecordRecvPn(@, p.pn)],
           tls' = [before.tls EXCEPT ![me] = IF run THEN r.tls ELSE @],
           keys' = [before.keys EXCEPT ![me] = k],
           pending_crypto' =
               [before.pending_crypto EXCEPT ![me] = IF run THEN QueueCrypto(@, sp, r) ELSE @],
           crypto_recv_offset' =
               [before.crypto_recv_offset EXCEPT ![me][sp] =
                    IF run /\ ok THEN @ + Len(p.crypto) ELSE @],
           state' = [before.state EXCEPT ![me] =
               IF ~ok THEN @
               ELSE IF p.close # "none" THEN "Closed"
               ELSE IF p.done /\ me = "client" THEN "Established"
               ELSE IF before.keys[me]["AppData"] = NoKeys /\ k["AppData"] # NoKeys
               THEN "Established" ELSE @],
           close_reason' = [before.close_reason EXCEPT ![me] =
               IF ~ok \/ p.close = "none" THEN @ ELSE ReasonOf(p.close)],
           received_app_data' = [before.received_app_data EXCEPT ![me] =
               IF ok THEN @ \o p.stream ELSE @]
    PROVE  Atomic!Ingest(me, p, t)
<1>1. Atomic!Open(me) BY DEF Atomic!Open, Seen, Admitted
<1>2. Atomic!Decrypts(me, p)
  BY AtomicOperators DEF Atomic!Decrypts, Seen, Admitted
<1>3. Atomic!InOrder(me, p) <=> run BY AtomicOperators DEF Atomic!InOrder, Seen
<1>4. Atomic!TlsRead(before.tls[me], p.crypto, t) = r BY AtomicOperators
<1>5. Atomic!SpaceOf(p.form) = sp BY AtomicOperators
<1>6. k = IF run THEN Atomic!InstallKeys(before.keys[me], sp, r) ELSE before.keys[me]
  BY AtomicOperators
<1>7. Atomic!StateAfter(me, p, k) =
          IF p.close # "none" THEN "Closed"
          ELSE IF p.done /\ me = "client" THEN "Established"
          ELSE IF before.keys[me]["AppData"] = NoKeys /\ k["AppData"] # NoKeys
          THEN "Established" ELSE before.state[me]
  BY AtomicOperators DEF Atomic!StateAfter, Seen
<1>8. /\ Len(before.space[me][sp].pending_acks) < MaxAcks
      /\ Len(before.received_app_data[me]) + Len(p.stream) <= MaxRecv
  BY DEF Admitted
<1> QED BY <1>1, <1>2, <1>3, <1>4, <1>5, <1>6, <1>7, <1>8, AtomicOperators DEF Atomic!Ingest, Seen

\* When the last frame has been processed, what the loop did is Ingest.
LEMMA AfterIsIngest ==
    ASSUME LoopInv, OwnInv, next # 0, next' = 0, NEW p \in packet.own, NEW t \in Tickets,
           NEW n, n = PosClose(p), After(p, t, n)', UNCHANGED <<me, packet, before>>,
           UNCHANGED <<pending_app_data, stream_send_offset, written, delivered, sent>>
    PROVE  Atomic!Ingest(me, p, t)
<1>1. /\ BeforeTypes /\ p \in Packet /\ me \in Side /\ SpaceOf(p.form) \in SpaceId
      /\ Admitted(p) /\ n \in Nat /\ n >= 1
  BY OwnFrame, PositionFacts
<1>2. PICK sp, r : sp = SpaceOf(p.form) /\ r = TlsRead(before.tls[me], p.crypto, t) OBVIOUS
<1>3. PICK run \in BOOLEAN :
        run <=> p.crypto # <<>> /\ p.crypto_off = before.crypto_recv_offset[me][sp]
  OBVIOUS
<1>4. PICK k : k = IF run THEN InstallKeys(before.keys[me], sp, r) ELSE before.keys[me] OBVIOUS
<1>5. Run(p, n)' <=> run BY <1>1, <1>2, <1>3 DEF Run
<1>6. TlsAnswer(p, t)' = r BY <1>2 DEF TlsAnswer
<1>7. KeysAfter(p, t, n)' = k BY <1>2, <1>4, <1>5, <1>6 DEF KeysAfter
<1>8. AfterCrypto(p, t, n)' /\ AfterRest(p, t, n)' BY DEF After
<1>9. /\ n >= PosClose(p) /\ n >= PosDone(p) /\ n >= PosStream(p) BY PositionFacts
<1>10. StateAt(p, t, n)' =
          IF p.close # "none" THEN "Closed"
          ELSE IF p.done /\ me = "client" THEN "Established"
          ELSE IF before.keys[me]["AppData"] = NoKeys /\ k["AppData"] # NoKeys
          THEN "Established" ELSE before.state[me]
  BY <1>7, <1>9 DEF StateAt
<1>11. ReasonAt(p, n)' = IF p.close # "none" THEN ReasonOf(p.close) ELSE before.close_reason[me]
  BY <1>9 DEF ReasonAt
<1>12. ReceivedAt(p, n)' = before.received_app_data[me] \o p.stream
  <2>1. before.received_app_data[me] \in Seq(Nat) BY <1>1 DEF BeforeTypes
  <2>2. p.stream = <<>> => before.received_app_data[me] \o p.stream = before.received_app_data[me]
    BY <2>1
  <2> QED BY <1>9, <2>2 DEF ReceivedAt
<1>13. ~run \/ r.tls # "Failed" BY <1>5, <1>6, <1>8 DEF AfterCrypto
<1>14. /\ space' = [before.space EXCEPT ![me][sp] = RecordRecvPn(@, p.pn)]
       /\ tls' = [before.tls EXCEPT ![me] = IF run THEN r.tls ELSE @]
       /\ keys' = [before.keys EXCEPT ![me] = k]
       /\ pending_crypto' =
              [before.pending_crypto EXCEPT ![me] = IF run THEN QueueCrypto(@, sp, r) ELSE @]
       /\ crypto_recv_offset' =
              [before.crypto_recv_offset EXCEPT ![me][sp] = IF run THEN @ + Len(p.crypto) ELSE @]
       /\ (run /\ before.tls[me] = "S_Flight") \/ t = <<>>
  BY <1>2, <1>5, <1>6, <1>7, <1>8 DEF AfterCrypto
<1>15. /\ state' = [before.state EXCEPT ![me] =
               IF p.close # "none" THEN "Closed"
               ELSE IF p.done /\ me = "client" THEN "Established"
               ELSE IF before.keys[me]["AppData"] = NoKeys /\ k["AppData"] # NoKeys
               THEN "Established" ELSE @]
       /\ close_reason' = [before.close_reason EXCEPT ![me] =
               IF p.close = "none" THEN @ ELSE ReasonOf(p.close)]
       /\ received_app_data' = [before.received_app_data EXCEPT ![me] = @ \o p.stream]
  BY <1>8, <1>10, <1>11, <1>12 DEF AfterRest
<1>16. TRUE \in BOOLEAN /\ (TRUE <=> ~run \/ r.tls # "Failed") BY <1>13
<1> QED BY <1>1, <1>2, <1>3, <1>4, <1>14, <1>15, <1>16, AtomicIngest

\* An error of TLS ends the loop: nothing after the CRYPTO frame is processed.
LEMMA ErrorIsIngest ==
    ASSUME LoopInv, OwnInv, next # 0, NEW p \in packet.own, OnCryptoError(packet.frames[next])
    PROVE  Atomic!Ingest(me, p, <<>>)
<1>1. PICK sp, frame : sp = packet.sp /\ frame = packet.frames[next] OBVIOUS
<1>2. /\ BeforeTypes /\ p \in Packet /\ me \in Side /\ SpaceOf(p.form) = sp /\ sp \in SpaceId
      /\ Admitted(p) /\ processed = next - 1 /\ next \in 1..PosClose(p)
  BY <1>1, OwnFrame
<1>3. next = 1 /\ p.crypto # <<>> /\ frame = Crypto(p.crypto_off, p.crypto)
  <2>1. frame.kind = "Crypto" BY <1>1 DEF OnCryptoError
  <2>2. frame # Ignored /\ frame # Done /\ frame # Stream(p.stream) /\ frame # Close(p.close)
    BY <2>1 DEF Ignored, Done, Stream, Close
  <2> QED BY <1>1, <2>2, OwnFrame
<1>4. processed = 0 BY <1>2, <1>3
<1>5. PICK u \in Tickets : After(p, u, 0) BY <1>4, OwnFrame
<1>6. /\ state = before.state /\ tls = before.tls /\ keys = before.keys
      /\ pending_crypto = before.pending_crypto
      /\ crypto_recv_offset = before.crypto_recv_offset
      /\ close_reason = before.close_reason
      /\ received_app_data = before.received_app_data
      /\ space = [before.space EXCEPT ![me][sp] = RecordRecvPn(@, p.pn)]
  BY <1>2, <1>5, Untouched
<1>7. PICK r : r = TlsRead(before.tls[me], p.crypto, <<>>) OBVIOUS
<1>8. /\ p.crypto_off = before.crypto_recv_offset[me][sp] /\ r.tls = "Failed"
      /\ tls' = [before.tls EXCEPT ![me] = "Failed"] /\ next' = 0
      /\ UNCHANGED <<state, keys, space, pending_crypto, crypto_recv_offset, close_reason,
                     stream_vars, sent>>
  BY <1>1, <1>3, <1>6, <1>7 DEF OnCryptoError, Stop, Crypto
<1>9. r = TlsStep("Failed", <<>>, NoKeys, <<>>, NoKeys)
  BY <1>7, <1>8 DEF TlsRead, TlsStep
<1>10. r.keys1 = NoKeys /\ r.out1 = <<>> BY <1>9 DEF TlsStep
<1>11. before.keys[me] \in [SpaceId -> Keys] /\ before.pending_crypto[me] \in [SpaceId -> Seq(Flight)]
       /\ before.received_app_data[me] \in Seq(Nat)
  BY <1>2 DEF BeforeTypes
<1>12. InstallKeys(before.keys[me], sp, r) = before.keys[me]
  BY <1>10, <1>11 DEF InstallKeys
<1>13. QueueCrypto(before.pending_crypto[me], sp, r) = before.pending_crypto[me]
  BY <1>10, <1>11, ConcatEmpty DEF QueueCrypto
<1>14. PICK k : k = InstallKeys(before.keys[me], sp, r) OBVIOUS
<1>15. PICK run \in BOOLEAN, ok \in BOOLEAN : run = TRUE /\ ok = FALSE OBVIOUS
<1>16. /\ run <=> p.crypto # <<>> /\ p.crypto_off = before.crypto_recv_offset[me][sp]
       /\ k = IF run THEN InstallKeys(before.keys[me], sp, r) ELSE before.keys[me]
       /\ ok <=> ~run \/ r.tls # "Failed"
       /\ space' = [before.space EXCEPT ![me][sp] = RecordRecvPn(@, p.pn)]
       /\ tls' = [before.tls EXCEPT ![me] = IF run THEN r.tls ELSE @]
  BY <1>3, <1>6, <1>8, <1>14, <1>15
<1>17. /\ keys' = [before.keys EXCEPT ![me] = k]
       /\ pending_crypto' =
              [before.pending_crypto EXCEPT ![me] = IF run THEN QueueCrypto(@, sp, r) ELSE @]
       /\ crypto_recv_offset' =
              [before.crypto_recv_offset EXCEPT ![me][sp] =
                   IF run /\ ok THEN @ + Len(p.crypto) ELSE @]
  BY <1>2, <1>6, <1>8, <1>12, <1>13, <1>14, <1>15 DEF BeforeTypes
<1>18. /\ state' = [before.state EXCEPT ![me] =
              IF ~ok THEN @
              ELSE IF p.close # "none" THEN "Closed"
              ELSE IF p.done /\ me = "client" THEN "Established"
              ELSE IF before.keys[me]["AppData"] = NoKeys /\ k["AppData"] # NoKeys
              THEN "Established" ELSE @]
       /\ close_reason' = [before.close_reason EXCEPT ![me] =
              IF ~ok \/ p.close = "none" THEN @ ELSE ReasonOf(p.close)]
       /\ received_app_data' = [before.received_app_data EXCEPT ![me] =
              IF ok THEN @ \o p.stream ELSE @]
  BY <1>2, <1>6, <1>8, <1>15 DEF BeforeTypes, stream_vars
<1>19. UNCHANGED <<pending_app_data, stream_send_offset, written, delivered, sent>>
  BY <1>8 DEF stream_vars
<1>20. PICK t : t = <<>> OBVIOUS
<1>21. r = TlsRead(before.tls[me], p.crypto, t) /\ ((run /\ before.tls[me] = "S_Flight") \/ t = <<>>)
  BY <1>7, <1>20
<1>22. next # 0 /\ next' = 0 /\ Admitted(p) /\ sp = SpaceOf(p.form) BY <1>2, <1>3, <1>8
<1>23. Atomic!Ingest(me, p, t) BY <1>16, <1>17, <1>18, <1>19, <1>21, <1>22, AtomicIngest
<1> QED BY <1>20, <1>23

\* The invariant, step by step.
LEMMA OwnInvNext == LoopInv /\ OwnInv /\ [LoopNext]_all_vars => OwnInv'
<1> SUFFICES ASSUME LoopInv, OwnInv, [LoopNext]_all_vars PROVE OwnInv' OBVIOUS
<1>1. CASE UNCHANGED all_vars
  <2>1. UNCHANGED <<me, packet, next, before, processed>> /\ UNCHANGED vars
    BY <1>1 DEF all_vars, loop_vars
  <2>2. ASSUME NEW p, NEW t, After(p, t, processed) PROVE After(p, t, processed)'
    BY <2>1, <2>2 DEF vars, After, AfterCrypto, AfterRest, Run, TlsAnswer, KeysAfter, StateAt,
                      ReasonAt, ReceivedAt
  <2>3. BeforeTypes' <=> BeforeTypes BY <2>1 DEF BeforeTypes
  <2>4. ASSUME NEW p PROVE Admitted(p)' <=> Admitted(p) BY <2>1 DEF Admitted
  <2>5. ASSUME NEW p, \E t \in Tickets : After(p, t, processed)
        PROVE  (\E t \in Tickets : After(p, t, processed))'
    <3>1. PICK t \in Tickets : After(p, t, processed) BY <2>5
    <3> QED BY <2>2, <3>1
  <2> QED BY <2>1, <2>3, <2>4, <2>5 DEF OwnInv
<1>2. CASE Start
  <2>1. state[me] = "None" BY <1>2, SideNames DEF Start, Connect, Accept, LoopInv
  <2>2. next' = 0 BY <1>2, <2>1 DEF Start, LoopInv
  <2> QED BY <2>2 DEF OwnInv
<1>3. CASE Answer
  BY <1>3 DEF Answer, OwnInv
<1> QED BY <1>1, <1>2, <1>3, OwnInvBegin, OwnInvFrame DEF LoopNext

\* One step of the loop, as Connection sees it.
LEMMA LoopStepIsIngest ==
    ASSUME LoopInv, OwnInv, [LoopNext]_all_vars
    PROVE  /\ next' # 0 => UNCHANGED Atomic!vars
           /\ next # 0 /\ next' = 0 =>
                  \A p \in packet.own : \E t \in Tickets : Atomic!Ingest(me, p, t)
<1>1. ASSUME next' # 0 PROVE UNCHANGED Atomic!vars
  <2>1. CASE UNCHANGED all_vars
    BY <2>1 DEF all_vars, vars, loop_vars, Atomic!vars, Seen
  <2>2. CASE Start
    <3>1. state[me] = "None" BY <2>2, SideNames DEF Start, Connect, Accept, LoopInv
    <3>2. next' = 0 BY <2>2, <3>1 DEF Start, LoopInv
    <3> QED BY <1>1, <3>2
  <2>3. CASE Answer BY <1>1, <2>3 DEF Answer
  <2>4. CASE Ingested
    <3>1. next = 0 /\ \E sp, pn, frames, own : Begin(sp, pn, frames, own) BY <2>4 DEF Ingested
    <3>2. next = 0 /\ before' = Snapshot /\ UNCHANGED <<stream_vars, sent>> BY <3>1 DEF Begin
    <3> QED BY <1>1, <3>2 DEF Snapshot, Atomic!vars, Seen, stream_vars
  <2>5. CASE ProcessFrame
    <3>1. next # 0 /\ FrameStep(packet.frames[next]) BY <2>5 DEF ProcessFrame, FrameStep
    <3>2. before' = before BY <3>1, LoopProgress
    <3>3. UNCHANGED <<pending_app_data, stream_send_offset, written, delivered, sent>>
      BY <3>1 DEF FrameStep, OnIgnored, OnCryptoOutOfOrder, OnCrypto, OnCryptoError, OnClose, OnDone,
                  OnStream, vars, stream_vars
    <3> QED BY <1>1, <3>1, <3>2, <3>3 DEF Atomic!vars, Seen
  <2> QED BY <2>1, <2>2, <2>3, <2>4, <2>5 DEF LoopNext
<1>2. ASSUME next # 0, next' = 0, NEW p \in packet.own
      PROVE  \E t \in Tickets : Atomic!Ingest(me, p, t)
  <2>1. ProcessFrame
    <3>1. ~(UNCHANGED all_vars) BY <1>2 DEF all_vars, loop_vars
    <3>2. ~Answer /\ ~Ingested BY <1>2 DEF Answer, Ingested
    <3>3. ~Start
      <4> SUFFICES ASSUME Start PROVE FALSE OBVIOUS
      <4>1. state[me] = "None" BY SideNames DEF Start, Connect, Accept, LoopInv
      <4> QED BY <1>2, <4>1 DEF LoopInv
    <3> QED BY <3>1, <3>2, <3>3 DEF LoopNext
  <2>2. FrameStep(packet.frames[next]) BY <2>1 DEF ProcessFrame, FrameStep
  <2>3. <<>> \in Tickets BY DEF Tickets
  <2>4. CASE OnCryptoError(packet.frames[next]) BY <1>2, <2>3, <2>4, ErrorIsIngest
  <2>5. CASE ~OnCryptoError(packet.frames[next])
    <3>1. UNCHANGED <<me, packet, before>> /\ next = Len(packet.frames)
      BY <1>2, <2>2, <2>5, LoopProgress
    <3>2. PICK n : n = next OBVIOUS
    <3>3. n = PosClose(p) BY <1>2, <3>1, <3>2, OwnFrame
    <3>4. \E t \in Tickets : After(p, t, n)'
      <4>1. CASE next = 1 /\ p.crypto # <<>> /\ packet.frames[next] = Crypto(p.crypto_off, p.crypto)
        BY <1>2, <2>2, <2>5, <3>2, <4>1, AfterFlight
      <4>2. PICK u \in Tickets : After(p, u, processed) BY <1>2, OwnFrame
      <4> QED BY <1>2, <2>2, <3>2, <4>1, <4>2, AfterOther, OwnFrame
    <3>5. PICK t \in Tickets : After(p, t, n)' BY <3>4
    <3>6. UNCHANGED <<pending_app_data, stream_send_offset, written, delivered, sent>>
      BY <2>2 DEF FrameStep, OnIgnored, OnCryptoOutOfOrder, OnCrypto, OnCryptoError, OnClose, OnDone,
                  OnStream, vars, stream_vars
    <3>7. Atomic!Ingest(me, p, t) BY <1>2, <3>1, <3>3, <3>5, <3>6, AfterIsIngest
    <3> QED BY <3>7
  <2> QED BY <2>4, <2>5
<1> QED BY <1>1, <1>2

\* On the packets of deerquic the loop of process_frames, whatever was ingested
\* before, is the one step Ingest that the proofs about Connection rest on.
THEOREM LoopTheorem == LoopSpec => LoopIsIngest
<1>1. LoopInit => OwnInv BY DEF LoopInit, OwnInv
<1>2. LoopInv /\ OwnInv /\ [LoopNext]_all_vars =>
          [/\ next' # 0 => UNCHANGED Atomic!vars
           /\ next # 0 /\ next' = 0 =>
                  \A p \in packet.own : \E t \in Tickets : Atomic!Ingest(me, p, t)]_all_vars
  BY LoopStepIsIngest
<1> QED BY <1>1, <1>2, LoopInvInit, LoopInvNext, OwnInvNext, PTL DEF LoopSpec, LoopIsIngest
=============================================================================
