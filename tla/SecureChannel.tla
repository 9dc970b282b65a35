--------------------------- MODULE SecureChannel ----------------------------
(***************************************************************************)
(* What a pair of TlsStreams promises the two applications: each direction *)
(* is a byte stream that arrives in order, without gaps or repetitions,    *)
(* and whose clean end (@read returning Ok(0) for a close_notify, the      *)
(* contract above read_step in src/stream.nv) is reported only after the   *)
(* writer closed and its last byte was read.  How and when a stream fails  *)
(* is left open: a failure stops progress and takes nothing back.          *)
(***************************************************************************)
EXTENDS Naturals, Sequences

CONSTANT MaxBytes   \* bound: bytes an application writes

Endpoint == {"client", "server"}
Peer(e) == IF e = "client" THEN "server" ELSE "client"

VARIABLES
    written,   \* bytes accepted from the application of e; byte i has value i
    received,  \* bytes returned to the application of e
    notified,  \* e closed its stream
    ended      \* e was told that its peer's stream ended

vars == << written, received, notified, ended >>

\* The first n bytes a peer writes.
FirstBytes(n) == [i \in 1 .. n |-> i]

Init ==
    /\ written = [e \in Endpoint |-> 0]
    /\ received = [e \in Endpoint |-> <<>>]
    /\ notified = [e \in Endpoint |-> FALSE]
    /\ ended = [e \in Endpoint |-> FALSE]

Write(e) ==
    /\ ~notified[e]
    /\ \E n \in written[e] + 1 .. MaxBytes : written' = [written EXCEPT ![e] = n]
    /\ UNCHANGED << received, notified, ended >>

Read(e) ==
    /\ ~ended[e]
    /\ \E n \in Len(received[e]) + 1 .. written[Peer(e)] :
          received' = [received EXCEPT ![e] = FirstBytes(n)]
    /\ UNCHANGED << written, notified, ended >>

Close(e) ==
    /\ ~notified[e]
    /\ notified' = [notified EXCEPT ![e] = TRUE]
    /\ UNCHANGED << written, received, ended >>

ReadEnd(e) ==
    /\ notified[Peer(e)]
    /\ Len(received[e]) = written[Peer(e)]
    /\ ended' = [ended EXCEPT ![e] = TRUE]
    /\ UNCHANGED << written, received, notified >>

Next == \E e \in Endpoint : Write(e) \/ Read(e) \/ Close(e) \/ ReadEnd(e)

Spec == Init /\ [][Next]_vars

=============================================================================
