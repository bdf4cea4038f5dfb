---------------------------- MODULE MCFrameCodec ----------------------------
(***************************************************************************)
(* Instances of FrameCodec: a frame of every kind, with integers on both   *)
(* sides of the boundaries between encodings, and bytes that start most    *)
(* kinds of frames and integers of every length.                           *)
(***************************************************************************)
EXTENDS FrameCodec

Fill(n) == [i \in 1..n |-> i]

SomeFrames ==
    {Frame(k, <<>>, <<>>, FALSE) : k \in {"PADDING", "PING", "HANDSHAKE_DONE"}}
    \cup {Frame("MAX_DATA", <<v>>, <<>>, FALSE) : v \in {63, 64, 16383, 16384, 1073741823, 1073741824}}
    \cup {Frame(k, <<5>>, <<>>, b) : k \in {"MAX_STREAMS", "STREAMS_BLOCKED"}, b \in BOOLEAN}
    \cup {Frame(k, <<0, 70>>, <<>>, FALSE) :
              k \in {"STOP_SENDING", "MAX_STREAM_DATA", "STREAM_DATA_BLOCKED"}}
    \cup {Frame("DATA_BLOCKED", <<64>>, <<>>, FALSE), Frame("RETIRE_CONNECTION_ID", <<1>>, <<>>, FALSE),
          Frame("RESET_STREAM", <<4, 300, 20000>>, <<>>, FALSE)}
    \cup {Frame("ACK", <<9, 0>> \o ranges \o ecn, <<>>, ecn # <<>>) :
              ranges \in {<<3>>, <<1, 2, 64>>}, ecn \in {<<>>, <<1, 2, 0>>}}
    \cup {Frame("STREAM", <<0, off>>, <<d>>, fin) : off \in {0, 64}, d \in {<<>>, <<30, 0>>}, fin \in BOOLEAN}
    \cup {Frame("CRYPTO", <<0>>, <<Fill(2)>>, FALSE), Frame("NEW_TOKEN", <<>>, <<<<>>>>, FALSE)}
    \cup {Frame("NEW_CONNECTION_ID", <<1, 0>>, <<Fill(n), Fill(16)>>, FALSE) : n \in {1, 20}}
    \cup {Frame(k, <<>>, <<Fill(8)>>, FALSE) : k \in {"PATH_CHALLENGE", "PATH_RESPONSE"}}
    \cup {Frame("CONNECTION_CLOSE", <<10, 6>>, <<<<7>>>>, TRUE),
          Frame("CONNECTION_CLOSE", <<256>>, <<<<>>>>, FALSE)}

\* PADDING, ACK, ACK with counts, CRYPTO, STREAM with and without length, MAX_DATA,
\* integers of 2, 4 and 8 bytes, and a number that is of no frame and, as the count
\* of an ACK frame, of more ranges than there is memory for.
SomeBytes == {0, 2, 3, 6, 8, 15, 16, 31, 64, 128, 192}
=============================================================================
