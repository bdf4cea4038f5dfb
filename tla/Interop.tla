------------------------------ MODULE Interop ------------------------------
(***************************************************************************)
(* The interop binary: HTTP/0.9 over one stream. The client asks for its   *)
(* files one after the other and saves whatever arrives before the line    *)
(* has been silent for a while; the server answers a request with the file *)
(* it names, in chunks. Neither the requests nor the answers are framed:   *)
(* what belongs to which file is decided by time alone. Both sides drive   *)
(* their Endpoint by hand and throw the errors of step and egest away.     *)
(*                                                                         *)
(* A request is one byte of the client's stream, so its number is its      *)
(* position there; a chunk of an answer is one byte of the server's.       *)
(***************************************************************************)
EXTENDS Endpoint

CONSTANTS Chunks,       \* the chunks of each file asked for; 0 if there is none
          IdleLimit,    \* 50 in the code: empty steps a server puts up with
          SilenceLimit  \* 30 in the code: empty steps a client waits for more

ASSUME InteropAssumption ==
    /\ Chunks \in Seq(Nat)
    /\ IdleLimit \in Nat /\ SilenceLimit \in Nat
    /\ Strict = {}

VARIABLES app,      \* where each program is
          due,      \* the program looks at the connection next; else it steps
          count,    \* idle and silence
          serving,  \* the server's answer: the request each chunk to come is for
          data,     \* the client's answer so far
          files,    \* what the client has saved, one entry per request
          answers   \* history: the request each byte of the server answers

app_vars == <<app, due, count, serving, data, files, answers>>
io_vars == <<ep_vars, app_vars>>

Program == {"Handshake", "Ask", "Receive", "Wait", "Serve", "Done"}

IoInit ==
    /\ EpInit
    /\ app = [s \in Side |-> "Handshake"]
    /\ due = [s \in Side |-> FALSE]
    /\ count = [s \in Side |-> 0]
    /\ serving = <<>> /\ data = <<>> /\ files = <<>> /\ answers = <<>>

Start == (EpClient \/ EpServer \/ EpServerAgain) /\ UNCHANGED app_vars

\* let _ = step(): called by a program in one of its loops ...
Step(s) ==
    /\ ~due[s]
    /\ Poll(s)
    /\ due' = [due EXCEPT ![s] = TRUE]
    /\ UNCHANGED <<app, count, serving, data, files, answers>>

\* ... and what happens inside it, or inside the program's own egest loop.
Inside(s) ==
    /\ Recv(s) \/ RecvError(s) \/ RecvNone(s) \/ Flush(s) \/ FlushNone(s)
    /\ UNCHANGED app_vars

\* The program of side s is at a point of its own code, between two calls.
At(s, place) == app[s] = place /\ thread[s] = "Loop" /\ due[s]

GoTo(s, place) == app' = [app EXCEPT ![s] = place]
StepNext(s) == due' = [due EXCEPT ![s] = FALSE]

-----------------------------------------------------------------------------
\* loop { step; if is_established { break } }: the only way out. The client
\* goes on to its requests, the server steps before it looks for one.
Handshake(s) ==
    /\ At(s, "Handshake")
    /\ IF state[s] = "Established"
       THEN /\ GoTo(s, IF s = "client" THEN "Ask" ELSE "Wait")
            /\ due' = [due EXCEPT ![s] = s = "client"]
       ELSE StepNext(s) /\ UNCHANGED app
    /\ UNCHANGED <<ep_vars, count, serving, data, files, answers>>

\* Mutant: what is left of one answer begins the next file.
Ask_Keeps ==
    /\ At("client", "Ask")
    /\ written["client"] < Len(Chunks)
    /\ SendData("client")
    /\ thread' = [thread EXCEPT !["client"] = "Flush"]
    /\ GoTo("client", "Receive") /\ StepNext("client")
    /\ count' = [count EXCEPT !["client"] = 0]
    /\ UNCHANGED <<inbox, fatal, data, serving, files, answers>>

\* The next request is sent and flushed.
Ask ==
    /\ At("client", "Ask")
    /\ written["client"] < Len(Chunks)
    /\ SendData("client")
    /\ thread' = [thread EXCEPT !["client"] = "Flush"]
    /\ GoTo("client", "Receive") /\ StepNext("client")
    /\ count' = [count EXCEPT !["client"] = 0]
    /\ data' = <<>>
    /\ UNCHANGED <<inbox, fatal, serving, files, answers>>

AskedAll ==
    /\ At("client", "Ask")
    /\ written["client"] = Len(Chunks)
    /\ GoTo("client", "Done")
    /\ UNCHANGED <<ep_vars, due, count, serving, data, files, answers>>

\* Something arrived: it belongs to the file being received.
Receive ==
    /\ At("client", "Receive")
    /\ received_app_data["client"] # <<>>
    /\ RecvData("client", Len(received_app_data["client"]))
    /\ data' = data \o received_app_data["client"]
    /\ count' = [count EXCEPT !["client"] = 0]
    /\ StepNext("client")
    /\ UNCHANGED <<inbox, thread, fatal, app, serving, files, answers>>

Silence ==
    /\ At("client", "Receive")
    /\ received_app_data["client"] = <<>>
    /\ count["client"] < SilenceLimit
    /\ count' = [count EXCEPT !["client"] = @ + 1]
    /\ StepNext("client")
    /\ UNCHANGED <<ep_vars, app, serving, data, files, answers>>

\* Silent for too long: the file is saved and the next one asked for.
Save ==
    /\ At("client", "Receive")
    /\ received_app_data["client"] = <<>>
    /\ count["client"] = SilenceLimit
    /\ files' = Append(files, data)
    /\ GoTo("client", "Ask")
    /\ UNCHANGED <<ep_vars, due, count, serving, data, answers>>

-----------------------------------------------------------------------------
\* The chunks of the file a read names. Two requests read at once make one
\* path that names no file.
Answer(req) ==
    IF Len(req) = 1 THEN [c \in 1..Chunks[req[1]] |-> req[1]] ELSE <<>>

\* Mutant: when nothing was received, the buffer still holds the last request.
Read_Stale ==
    LET new == received_app_data["server"]
        req == IF new # <<>> THEN new ELSE delivered["server"]
    IN  /\ At("server", "Wait")
        /\ req # <<>>
        /\ RecvData("server", Len(new))
        /\ count' = [count EXCEPT !["server"] = 0]
        /\ serving' = Answer(req)
        /\ GoTo("server", "Serve")
        /\ UNCHANGED <<inbox, thread, fatal, due, data, files, answers>>

\* recv_data returns everything that has been received: a request.
Read ==
    LET req == received_app_data["server"]
    IN  /\ At("server", "Wait")
        /\ req # <<>>
        /\ RecvData("server", Len(req))
        /\ count' = [count EXCEPT !["server"] = 0]
        /\ serving' = Answer(req)
        /\ GoTo("server", "Serve")
        /\ UNCHANGED <<inbox, thread, fatal, due, data, files, answers>>

\* Mutant: an empty step is not counted.
Idle_Uncounted ==
    /\ At("server", "Wait")
    /\ received_app_data["server"] = <<>>
    /\ StepNext("server")
    /\ UNCHANGED <<ep_vars, app, count, serving, data, files, answers>>

Idle ==
    /\ At("server", "Wait")
    /\ received_app_data["server"] = <<>>
    /\ count["server"] < IdleLimit
    /\ count' = [count EXCEPT !["server"] = @ + 1]
    /\ StepNext("server")
    /\ UNCHANGED <<ep_vars, app, serving, data, files, answers>>

TimedOut ==
    /\ At("server", "Wait")
    /\ received_app_data["server"] = <<>>
    /\ count["server"] = IdleLimit
    /\ GoTo("server", "Done")
    /\ UNCHANGED <<ep_vars, due, count, serving, data, files, answers>>

\* Chunk after chunk is sent and flushed, and nothing is received meanwhile.
Serve ==
    /\ At("server", "Serve")
    /\ serving # <<>>
    /\ SendData("server")
    /\ thread' = [thread EXCEPT !["server"] = "Flush"]
    /\ answers' = Append(answers, Head(serving))
    /\ serving' = Tail(serving)
    /\ UNCHANGED <<inbox, fatal, app, due, count, data, files>>

Served ==
    /\ At("server", "Serve")
    /\ serving = <<>>
    /\ GoTo("server", "Wait") /\ StepNext("server")
    /\ UNCHANGED <<ep_vars, count, serving, data, files, answers>>

-----------------------------------------------------------------------------
\* The program of each side, with its endpoint.
Client == Ask \/ AskedAll \/ Receive \/ Silence \/ Save
Server == Read \/ Idle \/ TimedOut \/ Serve \/ Served

Main(s) ==
    \/ Step(s) \/ Inside(s) \/ Handshake(s)
    \/ (s = "client" /\ Client)
    \/ (s = "server" /\ Server)

IoNext ==
    \/ Start
    \/ \E s \in Side : Main(s)

\* The programs never wait for anything but time; of the network nothing is
\* assumed.
IoSpec ==
    /\ IoInit /\ [][IoNext]_io_vars
    /\ WF_io_vars(Start)
    /\ \A s \in Side : WF_io_vars(Main(s))

-----------------------------------------------------------------------------
\* Every byte the client saves is in one file and in one place of it: whatever
\* is late, the files one after the other are the stream in its order, and the
\* answers in the order of the requests.
FilesInOrder ==
    \A i, j \in 1..Len(files) : \A a \in 1..Len(files[i]), b \in 1..Len(files[j]) :
        i < j \/ (i = j /\ a < b) =>
            /\ files[i][a] < files[j][b]
            /\ answers[files[i][a]] <= answers[files[j][b]]

\* A late answer ends in the file of a later request, and two requests read at
\* once get none. Yet as long as every file has come out with as many chunks as
\* it should have, each of them is the file that was asked for: an answer is
\* never early, and there is none that nobody waits for.
RightSizeRightFile ==
    \A n \in 1..Len(files) :
        (\A i \in 1..n : Len(files[i]) = Chunks[i]) =>
            \A i \in 1..Len(files[n]) : answers[files[n][i]] = n

\* Nothing is retransmitted and no timer runs, yet whatever is lost, a side that
\* once sees its connection established comes to the end of its program, even if
\* the other side never does; only a side that never sees that spins for ever.
Ends ==
    \A s \in Side : <>(app[s] = "Done") \/ []<>(app[s] = "Handshake" /\ state[s] # "Established")
=============================================================================
