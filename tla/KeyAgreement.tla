---------------------------- MODULE KeyAgreement ----------------------------
(***************************************************************************)
(* What the handshake of the two connections promises, without packets,    *)
(* flights or a network: the keys each side holds are learned one epoch    *)
(* after the other, the client only ever learns what its server holds, a   *)
(* side is ready exactly when it takes its last step up, and closing is    *)
(* final.                                                                  *)
(***************************************************************************)
VARIABLES holds,     \* the epochs whose keys each side holds
          status,    \* "idle", "live", "ready" or "closed", for each side
          confirmed  \* the server knows that its client holds everything

vars == <<holds, status, confirmed>>

Party == {"client", "server"}
AllEpochs == {"InitialKeys", "HandshakeKeys", "OneRttKeys"}

\* The epochs that come before e.
Below(e) ==
    CASE e = "InitialKeys" -> {}
      [] e = "HandshakeKeys" -> {"InitialKeys"}
      [] e = "OneRttKeys" -> {"InitialKeys", "HandshakeKeys"}

Init ==
    /\ holds = [s \in Party |-> {}]
    /\ status = [s \in Party |-> "idle"]
    /\ confirmed = FALSE

\* The client begins with keys that anyone can derive.
Begin ==
    /\ status["client"] = "idle"
    /\ status' = [status EXCEPT !["client"] = "live"]
    /\ holds' = [holds EXCEPT !["client"] = {"InitialKeys"}]
    /\ UNCHANGED confirmed

\* The server's first answer gives it the keys of every epoch.
Answer ==
    /\ status["server"] = "idle" /\ status["client"] # "idle"
    /\ status' = [status EXCEPT !["server"] = "live"]
    /\ holds' = [holds EXCEPT !["server"] = AllEpochs]
    /\ UNCHANGED confirmed

\* The client learns the next epoch from a server that holds it, and is ready
\* with the last one.
Learn(e) ==
    /\ status["client"] = "live"
    /\ e \in holds["server"] \ holds["client"]
    /\ holds["client"] = Below(e)
    /\ holds' = [holds EXCEPT !["client"] = @ \cup {e}]
    /\ status' = [status EXCEPT !["client"] = IF e = "OneRttKeys" THEN "ready" ELSE "live"]
    /\ UNCHANGED confirmed

\* The server is ready when it pleases: it does not wait for its client.
Ready ==
    /\ status["server"] = "live"
    /\ status' = [status EXCEPT !["server"] = "ready"]
    /\ UNCHANGED <<holds, confirmed>>

\* The server hears from a client that holds everything.
Confirm ==
    /\ ~confirmed
    /\ status["server"] \in {"live", "ready"}
    /\ holds["client"] = AllEpochs
    /\ confirmed' = TRUE
    /\ UNCHANGED <<holds, status>>

Close(s) ==
    /\ status[s] \in {"live", "ready"}
    /\ status' = [status EXCEPT ![s] = "closed"]
    /\ UNCHANGED <<holds, confirmed>>

Next ==
    \/ Begin \/ Answer \/ Ready \/ Confirm
    \/ \E e \in AllEpochs : Learn(e)
    \/ \E s \in Party : Close(s)

Spec == Init /\ [][Next]_vars
=============================================================================
