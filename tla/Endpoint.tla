------------------------------ MODULE Endpoint ------------------------------
(***************************************************************************)
(* The runtime: each Connection is driven by one thread that polls its UDP *)
(* socket, ingests every datagram that waits there and then flushes what   *)
(* egest has to say. The socket is a queue: packets arrive in the order in *)
(* which they were sent, and may be lost on the way if Lossy. Whatever the *)
(* two threads do is a behaviour of the two connections (Connection!Spec). *)
(***************************************************************************)
EXTENDS Connection

CONSTANTS Lossy,   \* may the network lose datagrams?
          Strict   \* the sides driven by handshake(), which returns the first
                   \* error of its steps, and whose program then gives up; the
                   \* others ignore errors (drive_handshake, the interop binary)

ASSUME EndpointAssumption == Lossy \in BOOLEAN /\ Strict \subseteq Side

VARIABLES inbox,   \* the datagrams waiting in the socket of each side
          thread,  \* where the thread of each side is
          fatal    \* does an error of the call under way end it?

ep_vars == <<vars, inbox, thread, fatal>>

\* "Start": no endpoint yet. "Again": ep_server has accepted and has the first
\* packet to ingest. "Loop": between two calls of step. "Recv" and "Flush": in
\* the two loops of step. "Stopped": handshake() returned an error.
Thread == {"Start", "Again", "Loop", "Recv", "Flush", "Stopped"}

EpInit ==
    /\ Init
    /\ inbox = [s \in Side |-> <<>>]
    /\ thread = [s \in Side |-> "Start"]
    /\ fatal = [s \in Side |-> TRUE]

\* Backend::send: the datagram reaches the socket of the other side, or not.
Deliver(s, p) ==
    \/ inbox' = [inbox EXCEPT ![Peer(s)] = Append(@, p)]
    \/ Lossy /\ UNCHANGED inbox

-----------------------------------------------------------------------------
EpClient ==
    /\ Connect
    /\ Deliver("client", InitialPacket)
    /\ thread' = [thread EXCEPT !["client"] = "Loop"]
    /\ UNCHANGED fatal

\* Mutant: the datagram is gone once it is accepted.
EpServer_Takes ==
    /\ thread["server"] = "Start" /\ inbox["server"] # <<>>
    /\ Accept(Head(inbox["server"]))
    /\ thread' = [thread EXCEPT !["server"] = "Again"]
    /\ inbox' = [inbox EXCEPT !["server"] = Tail(@)]
    /\ UNCHANGED fatal

\* ep_server takes the first datagram from the socket and accepts it ...
EpServer ==
    /\ thread["server"] = "Start" /\ inbox["server"] # <<>>
    /\ Accept(Head(inbox["server"]))
    /\ thread' = [thread EXCEPT !["server"] = "Again"]
    /\ UNCHANGED <<inbox, fatal>>

\* ... and then ingests the same packet again, before it flushes.
EpServerAgain ==
    /\ thread["server"] = "Again"
    /\ \E t \in Tickets : Ingest("server", Head(inbox["server"]), t)
    /\ inbox' = [inbox EXCEPT !["server"] = Tail(@)]
    /\ thread' = [thread EXCEPT !["server"] = "Flush"]
    /\ UNCHANGED fatal

-----------------------------------------------------------------------------
\* Mutant: nothing is flushed when nothing arrived.
Poll_NoFlush(s) ==
    /\ thread[s] = "Loop"
    /\ thread' = [thread EXCEPT ![s] = IF inbox[s] # <<>> THEN "Recv" ELSE "Loop"]
    /\ fatal' = [fatal EXCEPT ![s] = s \in Strict /\ state[s] # "Established"]
    /\ UNCHANGED <<vars, inbox>>

\* step(): poll says whether the receive loop is entered at all. handshake()
\* looks at the state before it calls step, and not again until step returns.
Poll(s) ==
    /\ thread[s] = "Loop"
    /\ thread' = [thread EXCEPT ![s] = IF inbox[s] # <<>> THEN "Recv" ELSE "Flush"]
    /\ fatal' = [fatal EXCEPT ![s] = s \in Strict /\ state[s] # "Established"]
    /\ UNCHANGED <<vars, inbox>>

\* Mutant: every error ends the thread.
AfterError_Always(s) == "Stopped"

\* Where an error leaves the thread: the rest of the socket and everything
\* egest has are left for the next call, if there is one. A call of handshake()
\* returns the error of its step even if that step established the connection.
AfterError(s) == IF fatal[s] THEN "Stopped" ELSE "Loop"

\* Mutant: the datagram that came last is ingested first.
Recv_Newest(s) ==
    /\ thread[s] = "Recv" /\ inbox[s] # <<>>
    /\ \E t \in Tickets : Ingest(s, inbox[s][Len(inbox[s])], t)
    /\ inbox' = [inbox EXCEPT ![s] = SubSeq(@, 1, Len(@) - 1)]
    /\ UNCHANGED <<thread, fatal>>

\* One datagram is taken from the socket and ingested.
Recv(s) ==
    /\ thread[s] = "Recv" /\ inbox[s] # <<>>
    /\ \E t \in Tickets : Ingest(s, Head(inbox[s]), t)
    /\ inbox' = [inbox EXCEPT ![s] = Tail(@)]
    /\ thread' = [thread EXCEPT ![s] = IF tls'[s] = "Failed" THEN AfterError(s) ELSE "Recv"]
    /\ UNCHANGED fatal

\* ingest returns an error: the connection is closed, the packet does not open,
\* or parse_short_header, which reads the first byte while it is still
\* protected, takes it for a packet with reserved bits set.
Rejects(s, p) == ~Open(s) \/ ~Decrypts(s, p) \/ p.form = "Short"

RecvError(s) ==
    /\ thread[s] = "Recv" /\ inbox[s] # <<>>
    /\ Rejects(s, Head(inbox[s]))
    /\ inbox' = [inbox EXCEPT ![s] = Tail(@)]
    /\ thread' = [thread EXCEPT ![s] = AfterError(s)]
    /\ UNCHANGED <<vars, fatal>>

RecvNone(s) ==
    /\ thread[s] = "Recv" /\ inbox[s] = <<>>
    /\ thread' = [thread EXCEPT ![s] = "Flush"]
    /\ UNCHANGED <<vars, inbox, fatal>>

-----------------------------------------------------------------------------
\* flush_egress(): one packet is assembled and sent. A packet that does not
\* fit the buffer looks like the end of what there is to send.
Flush(s) ==
    /\ thread[s] = "Flush"
    /\ \E sp \in SpaceId, room \in Rooms :
           /\ Egest(s, sp, room)
           /\ IF Units(Assemble(s, sp)) <= room
              THEN Deliver(s, Assemble(s, sp)) /\ UNCHANGED thread
              ELSE thread' = [thread EXCEPT ![s] = "Loop"] /\ UNCHANGED inbox
    /\ UNCHANGED fatal

\* Nothing to send (or the bound on packets is reached), or the connection is
\* closed, which is an error.
FlushNone(s) ==
    /\ thread[s] = "Flush"
    /\ ~\E sp \in SpaceId : Open(s) /\ Selected(s, sp) /\ space[s][sp].next_send_pn < MaxPn[s][sp]
    /\ thread' = [thread EXCEPT ![s] = IF Open(s) THEN "Loop" ELSE AfterError(s)]
    /\ UNCHANGED <<vars, inbox, fatal>>

-----------------------------------------------------------------------------
\* The application acts between two calls of step, once it is established:
\* send_app_data flushes at once, recv_app_data has stepped before. Their
\* errors do not end it.
App(s) ==
    /\ thread[s] = "Loop" /\ state[s] = "Established"
    /\ \/ /\ SendData(s)
          /\ thread' = [thread EXCEPT ![s] = "Flush"]
          /\ fatal' = [fatal EXCEPT ![s] = FALSE]
       \/ (\E n \in 1..MaxRecv : RecvData(s, n)) /\ UNCHANGED <<thread, fatal>>
    /\ UNCHANGED inbox

\* The thread of one side.
Run(s) ==
    \/ Poll(s) \/ Recv(s) \/ RecvError(s) \/ RecvNone(s) \/ Flush(s) \/ FlushNone(s)

EpNext ==
    \/ EpClient
    \/ EpServer
    \/ EpServerAgain
    \/ \E s \in Side : Run(s) \/ App(s)

EpSpec == EpInit /\ [][EpNext]_ep_vars

\* A thread never stops between two instructions; the application may.
Fairness ==
    /\ WF_ep_vars(EpClient)
    /\ WF_ep_vars(EpServer \/ EpServerAgain)
    /\ \A s \in Side : WF_ep_vars(Run(s))

FairEpSpec == EpSpec /\ Fairness

-----------------------------------------------------------------------------
\* Sockets hold packets of the other side that were sent, and a server thread
\* that is about to ingest its first packet again still has it.
EpTypeOK ==
    /\ inbox \in [Side -> Seq(sent)]
    /\ thread \in [Side -> Thread]
    /\ fatal \in [Side -> BOOLEAN]
    /\ \A s \in Side : \A i \in 1..Len(inbox[s]) : inbox[s][i].from = Peer(s)
    /\ thread["server"] = "Again" => inbox["server"] # <<>>

\* On a network that keeps the order and loses nothing, both sides become
\* established, and the server's TLS gets the client's Finished unless
\* handshake() fails in the client: no timer and no retransmission is needed,
\* although acknowledgements of acknowledgements compete with the flights.
HandshakeCompletes ==
    <>[](/\ \A s \in Side : state[s] = "Established"
         /\ tls["server"] = "S_Done" \/ thread["client"] = "Stopped")

\* On a network that keeps the order and loses nothing, handshake() can fail in
\* one way only. No packet comes before the keys that open it, so there is no
\* error until the client is established. But in the step that establishes it,
\* the client may go on to a short packet, which parse_short_header refuses: if
\* the server has written before it got the Finished, which then never leaves.
NoErrorInOrder ==
    ~Lossy => \A s \in Side : thread[s] = "Stopped" =>
        /\ s = "client" /\ state[s] = "Established"
        /\ pending_crypto[s]["Handshake"] = <<"CF">>
        /\ written[Peer(s)] > 0

\* What TLS has given always leaves, unless handshake() has failed: when step
\* returns any other error it skips its flush, but a later call makes up for it
\* even if nothing arrives any more.
FlightsLeave ==
    \A s \in Side, sp \in SpaceId :
        pending_crypto[s][sp] # <<>> ~> pending_crypto[s][sp] = <<>> \/ thread[s] = "Stopped"

\* A socket that keeps the order is enough for the stream to stay in order,
\* with every byte read once at most: process_frames does not look at offsets,
\* but neither egest nor the event loop sends or ingests a byte twice.
NeverReordered ==
    \A s \in Side : \A i, j \in 1..Len(delivered[s]) :
        i < j => delivered[s][i] < delivered[s][j]

\* RFC 9000 19.3.1: "If any computed packet number is negative, an endpoint
\* MUST generate a connection error of type FRAME_ENCODING_ERROR." ep_server
\* ingests the packet that accept has already recorded: packet 0 is counted
\* twice, and the server's first ACK frame reaches below 0.
AckRangesNatural == \A p \in sent : \A ack \in p.ack : ack.first_range <= ack.largest
=============================================================================
