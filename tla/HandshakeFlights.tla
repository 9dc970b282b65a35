-------------------------- MODULE HandshakeFlights --------------------------
(***************************************************************************)
(* What a TLS handshake is to the two sessions that carry it: a number of  *)
(* flights, the odd ones the client's, the even ones the server's.  Each   *)
(* end counts the flights it has sent or taken whole, and is over when it  *)
(* has counted all of them; while it waits for the other's flight it may   *)
(* give the handshake up.  TlsStream.tla is built on this description;     *)
(* TlsHandshake.tla, the two state machines of mbedTLS, implements it.     *)
(***************************************************************************)
EXTENDS Naturals

VARIABLES
    total,   \* flights of this handshake
    count,   \* count[e]: flights e has sent or taken
    status   \* status[e]: "running", "over" or "failed"

vars == <<total, count, status>>

Ends == {"client", "server"}
Other(e) == IF e = "client" THEN "server" ELSE "client"
Sender(flight) == IF flight % 2 = 1 THEN "client" ELSE "server"

TypeOK ==
    /\ total \in Nat
    /\ count \in [Ends -> Nat]
    /\ status \in [Ends -> {"running", "over", "failed"}]

Init ==
    /\ total \in Nat
    /\ count = [e \in Ends |-> 0]
    /\ status = [e \in Ends |-> "running"]

Send(e) ==
    /\ status[e] = "running"
    /\ count[e] < total
    /\ Sender(count[e] + 1) = e
    /\ count' = [count EXCEPT ![e] = @ + 1]
    /\ UNCHANGED <<total, status>>

Accept(e) ==
    /\ status[e] = "running"
    /\ count[e] < count[Other(e)]
    /\ Sender(count[e] + 1) = Other(e)
    /\ count' = [count EXCEPT ![e] = @ + 1]
    /\ UNCHANGED <<total, status>>

Finish(e) ==
    /\ status[e] = "running"
    /\ count[e] = total
    /\ status' = [status EXCEPT ![e] = "over"]
    /\ UNCHANGED <<total, count>>

GiveUp(e) ==
    /\ status[e] = "running"
    /\ count[e] < total
    /\ Sender(count[e] + 1) = Other(e)
    /\ status' = [status EXCEPT ![e] = "failed"]
    /\ UNCHANGED <<total, count>>

Next == \E e \in Ends : Send(e) \/ Accept(e) \/ Finish(e) \/ GiveUp(e)

Spec == Init /\ [][Next]_vars

-----------------------------------------------------------------------------
\* The two ends are never both running and both waiting for a flight the
\* other has not sent: the code that drives them (pump_handshake) may read
\* whenever its session wants to, without a rule of whose turn it is.
Waits(e) ==
    /\ status[e] = "running"
    /\ count[e] < total
    /\ Sender(count[e] + 1) = Other(e)
    /\ count[Other(e)] <= count[e]

NeverBothWait == ~ \A e \in Ends : Waits(e)

\* An end is over only when its peer has sent everything that end needs: at
\* most the last flight, its own, is still to be taken by the peer.
OverMeansComplete ==
    \A e \in Ends : status[e] = "over" => count[Other(e)] + 1 >= total

=============================================================================
