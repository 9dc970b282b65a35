----------------------------- MODULE TlsStream ------------------------------
(***************************************************************************)
(* Two fibers, one per endpoint of a TCP connection, each running the pump *)
(* of src/stream.nv over its own shim session: TlsStream.connect on the    *)
(* client, TlsStream.accept on the server, then any sequence of @read,     *)
(* @write, @write_all, @flush and a final @close the application makes.    *)
(*                                                                         *)
(* A fiber gives way only inside Net.read and Net.write_all.  The code     *)
(* between two such points touches nothing but its own session, and is cut *)
(* into actions at the loop heads of the source.  The session is that of   *)
(* TlsSession.tla, as tls_client_new / tls_server_new return it.           *)
(***************************************************************************)
EXTENDS TlsSession

CONSTANTS
    Capacity,         \* units TCP holds in each direction before a writer waits
    MaxBytes,         \* bound: plaintext bytes each application writes
    MaxRead,          \* bound: largest buffer the application passes to @read
    RefusableFlights, \* flights the receiver may refuse (certificate, ALPN, version)
    Faults            \* TRUE: TCP may fail and an endpoint's process may die

ASSUME StreamAssumption ==
    /\ Capacity \in Nat \ {0}
    /\ MaxBytes \in Nat
    /\ MaxRead \in Nat \ {0}
    /\ RefusableFlights \subseteq 1 .. NumFlights
    /\ Faults \in BOOLEAN

Endpoint == {"client", "server"}
Peer(e) == IF e = "client" THEN "server" ELSE "client"

VARIABLES
    pc,        \* where each fiber is
    call,      \* the operation it is executing
    session,   \* its shim session
    scratch,   \* ciphertext taken from the session, being written to TCP
    todo,      \* bytes @write or @write_all has still to hand to the session
    result,    \* how the last operation ended
    chan,      \* chan[e]: units TCP carries from e to its peer
    open,      \* open[e]: e's socket is open
    broken,    \* the TCP connection was reset
    refused,   \* the flight whose receiver refuses it, 0 if none
    written,   \* history: bytes the session of e accepted
    received,  \* history: bytes @read returned at e
    notified,  \* history: close_notify was sealed by the session of e
    ended      \* history: @read returned Ok(0) at e for a close_notify

vars == << pc, call, session, scratch, todo, result, chan, open, broken,
           refused, written, received, notified, ended >>

\* What an action changes beside the place of the fiber.
NetVars == << chan, open, broken >>
HistoryVars == << written, received, notified, ended >>

Running == {"pump", "process", "flush", "send", "fill", "write", "read"}
Over == {"failed", "closed", "crashed"}
PC == Running \cup {"idle"} \cup Over
Call == {"none", "handshake", "final", "alert", "read", "write", "write_all", "flush", "close"}
Error == {"HandshakeFailure", "PeerMisbehaved", "Net", "Internal"}
Result == {"none", "ok", "eof"} \cup Error

TypeOK ==
    /\ pc \in [Endpoint -> PC]
    /\ call \in [Endpoint -> Call]
    /\ session \in [Endpoint -> NovaTlsSession]
    /\ scratch \in [Endpoint -> Seq(Unit)]
    /\ todo \in [Endpoint -> Nat]
    /\ result \in [Endpoint -> Result]
    /\ chan \in [Endpoint -> Seq(Unit)]
    /\ open \in [Endpoint -> BOOLEAN]
    /\ broken \in BOOLEAN
    /\ refused \in {0} \cup RefusableFlights
    /\ written \in [Endpoint -> Nat]
    /\ received \in [Endpoint -> Seq(Nat)]
    /\ notified \in [Endpoint -> BOOLEAN]
    /\ ended \in [Endpoint -> BOOLEAN]

-----------------------------------------------------------------------------
(* Both sessions exist, the client's with its ClientHello.                 *)
Init ==
    /\ pc = [e \in Endpoint |-> "pump"]
    /\ call = [e \in Endpoint |-> "handshake"]
    /\ session = [e \in Endpoint |->
                    IF e = "client"
                    THEN SendRecord([Freed EXCEPT !.hs = 1], Flight(1))
                    ELSE Freed]
    /\ scratch = [e \in Endpoint |-> <<>>]
    /\ todo = [e \in Endpoint |-> 0]
    /\ result = [e \in Endpoint |-> "none"]
    /\ chan = [e \in Endpoint |-> <<>>]
    /\ open = [e \in Endpoint |-> TRUE]
    /\ broken = FALSE
    /\ refused \in {0} \cup RefusableFlights
    /\ written = [e \in Endpoint |-> 0]
    /\ received = [e \in Endpoint |-> <<>>]
    /\ notified = [e \in Endpoint |-> FALSE]
    /\ ended = [e \in Endpoint |-> FALSE]

-----------------------------------------------------------------------------
(* How the fiber moves on.                                                 *)

Goto(e, to) == pc' = [pc EXCEPT ![e] = to]

\* The operation returns to the application, which holds the stream.
Return(e, outcome) ==
    /\ Goto(e, "idle")
    /\ call' = [call EXCEPT ![e] = "none"]
    /\ result' = [result EXCEPT ![e] = outcome]
    /\ todo' = [todo EXCEPT ![e] = 0]

\* The fiber ends: the socket is closed and the session freed (tls_free).
Release(e, to) ==
    /\ Goto(e, to)
    /\ open' = [open EXCEPT ![e] = FALSE]
    /\ session' = [session EXCEPT ![e] = Freed]
    /\ scratch' = [scratch EXCEPT ![e] = <<>>]
    /\ todo' = [todo EXCEPT ![e] = 0]

\* connect or accept returns Err: tls_free, then the scope closes the socket.
FailHandshake(e, error) ==
    /\ Release(e, "failed")
    /\ result' = [result EXCEPT ![e] = error]
    /\ UNCHANGED << call, chan, broken, refused, HistoryVars >>

\* (mutant: @close insists that its flush succeeds)
InsistsOnFlush(e) ==
    /\ ~broken
    /\ Release(e, "closed")
    /\ UNCHANGED << call, result, chan, broken, refused, HistoryVars >>

\* @close, whatever its flush_out returned: tcp.close, tls_free.
EndClose(e) ==
    /\ Release(e, "closed")
    /\ UNCHANGED << call, result, chan, broken, refused, HistoryVars >>

-----------------------------------------------------------------------------
(* TCP, external to the package: two FIFO byte pipes.                      *)

\* Data reaching a closed socket is answered by RST, which discards what
\* either side had in flight.
ResetByPeer ==
    /\ ~broken
    /\ \E e \in Endpoint : ~open[e] /\ chan[Peer(e)] # <<>>
    /\ broken' = TRUE
    /\ chan' = [e \in Endpoint |-> <<>>]
    /\ UNCHANGED << pc, call, session, scratch, todo, result, open, refused, HistoryVars >>

\* The network gives up on the connection.
TcpFault ==
    /\ Faults
    /\ ~broken
    /\ \E e \in Endpoint : open[e]
    /\ broken' = TRUE
    /\ chan' = [e \in Endpoint |-> <<>>]
    /\ UNCHANGED << pc, call, session, scratch, todo, result, open, refused, HistoryVars >>

\* The process of e dies; the kernel sends what it has, then FIN.
Crash(e) ==
    /\ Faults
    /\ pc[e] \notin Over
    /\ Release(e, "crashed")
    /\ UNCHANGED << call, result, chan, broken, refused, HistoryVars >>

-----------------------------------------------------------------------------
(* flush_out, called by every operation.                                   *)

\* Loop body up to tcp.write_all: a chunk leaves the session for scratch.
FlushChunk(e) ==
    /\ pc[e] = "flush"
    /\ tls_wants_write(session[e])
    /\ scratch' = [scratch EXCEPT ![e] = Dequeued(session[e])]
    /\ session' = [session EXCEPT ![e] = tls_write_tls(@)]
    /\ Goto(e, "send")
    /\ UNCHANGED << call, todo, result, NetVars, refused, HistoryVars >>

\* (mutant: a short write taken for a complete one)
WritesOnce(e) ==
    /\ pc[e] = "send"
    /\ ~broken
    /\ \E k \in 1 .. Len(scratch[e]) :
        /\ Len(chan[e]) + k <= Capacity
        /\ chan' = [chan EXCEPT ![e] = @ \o SubSeq(scratch[e], 1, k)]
        /\ scratch' = [scratch EXCEPT ![e] = SubSeq(@, k + 1, Len(@))]
        /\ Goto(e, "flush")
    /\ UNCHANGED << call, session, todo, result, open, broken, refused, HistoryVars >>

\* tcp.write_all hands TCP as much as there is room for, until all is gone.
SendToTcp(e) ==
    /\ pc[e] = "send"
    /\ ~broken
    /\ \E k \in 1 .. Len(scratch[e]) :
        /\ Len(chan[e]) + k <= Capacity
        /\ chan' = [chan EXCEPT ![e] = @ \o SubSeq(scratch[e], 1, k)]
        /\ scratch' = [scratch EXCEPT ![e] = SubSeq(@, k + 1, Len(@))]
        /\ Goto(e, IF k = Len(scratch[e]) THEN "flush" ELSE "send")
    /\ UNCHANGED << call, session, todo, result, open, broken, refused, HistoryVars >>

\* tcp.write_all fails: the chunk is gone, flush_out returns TlsError.Net.
SendFails(e) ==
    /\ pc[e] = "send"
    /\ broken
    /\ \/ /\ call[e] \in {"handshake", "final"}
          /\ FailHandshake(e, "Net")
       \/ /\ call[e] = "alert"
          /\ FailHandshake(e, result[e])
       \/ /\ call[e] \in {"read", "write", "write_all", "flush"}
          /\ Return(e, "Net")
          /\ scratch' = [scratch EXCEPT ![e] = <<>>]
          /\ UNCHANGED << session, NetVars, refused, HistoryVars >>
       \/ /\ call[e] = "close"
          /\ EndClose(e)

\* The loop's condition no longer holds: nothing is pending.
Flushed(e) == ~tls_wants_write(session[e])

\* out_buf is empty: flush_out returns Ok, and its caller goes on.
FlushDone(e) ==
    /\ pc[e] = "flush"
    /\ Flushed(e)
    /\ \/ /\ call[e] = "handshake"
          /\ Goto(e, "pump")
          /\ UNCHANGED << call, session, scratch, todo, result, NetVars, refused, HistoryVars >>
       \/ /\ call[e] = "read"
          /\ Goto(e, "fill")
          /\ UNCHANGED << call, session, scratch, todo, result, NetVars, refused, HistoryVars >>
       \/ /\ call[e] = "write_all" /\ todo[e] > 0
          /\ Goto(e, "write")
          /\ UNCHANGED << call, session, scratch, todo, result, NetVars, refused, HistoryVars >>
       \/ /\ call[e] \in {"final", "write", "write_all", "flush"} /\ todo[e] = 0
          /\ Return(e, "ok")
          /\ UNCHANGED << session, scratch, NetVars, refused, HistoryVars >>
       \/ /\ call[e] = "alert"
          /\ FailHandshake(e, result[e])
       \/ /\ call[e] = "close"
          /\ EndClose(e)

-----------------------------------------------------------------------------
(* fill_from_tcp, called by pump_handshake and read_step.                  *)

\* Net.read gives some of what has arrived, and the session takes it all.
\* tls_process runs the handshake while there is one.
FillFromTcp(e) ==
    /\ pc[e] = "fill"
    /\ \E n \in 1 .. Smaller(Chunk, Len(chan[Peer(e)])) :
        /\ session' = [session EXCEPT ![e] = tls_read_tls(@, SubSeq(chan[Peer(e)], 1, n))]
        /\ chan' = [chan EXCEPT ![Peer(e)] = SubSeq(@, n + 1, Len(@))]
    /\ Goto(e, IF call[e] = "read" THEN "read" ELSE "process")
    /\ UNCHANGED << call, scratch, todo, result, open, broken, refused, HistoryVars >>

\* Net.read fails (error), or finds the end of the stream: each caller
\* reports its own error then.
FillEnds(e, atEof, atRead) ==
    \/ /\ call[e] = "handshake"
       /\ FailHandshake(e, atEof)
    \/ /\ call[e] = "read"
       /\ Return(e, atRead)
       /\ UNCHANGED << session, scratch, NetVars, refused, HistoryVars >>

FillEof(e) ==
    /\ pc[e] = "fill"
    /\ ~broken /\ ~open[Peer(e)] /\ chan[Peer(e)] = <<>>
    /\ FillEnds(e, "HandshakeFailure", "PeerMisbehaved")

FillFails(e) ==
    /\ pc[e] = "fill"
    /\ broken
    /\ FillEnds(e, "Net", "Net")

-----------------------------------------------------------------------------
(* pump_handshake, and the handshake itself in tls_process.                *)

\* (mutant: no flush_out after the loop)
PumpSkipsFinalFlush(e) ==
    /\ pc[e] = "pump"
    /\ \/ /\ ~tls_is_handshaking(session[e])
          /\ Return(e, "ok")
          /\ UNCHANGED << session, scratch, NetVars, refused, HistoryVars >>
       \/ /\ tls_is_handshaking(session[e]) /\ tls_wants_write(session[e])
          /\ Goto(e, "flush")
          /\ UNCHANGED << call, session, scratch, todo, result, NetVars, refused, HistoryVars >>
       \/ /\ tls_wants_read(session[e])
          /\ Goto(e, "fill")
          /\ UNCHANGED << call, session, scratch, todo, result, NetVars, refused, HistoryVars >>

\* The loop head: done, or write, or read.  The last branch is the stall
\* the source guards against.
PumpStep(e) ==
    /\ pc[e] = "pump"
    /\ \/ /\ ~tls_is_handshaking(session[e])
          /\ Goto(e, "flush")
          /\ call' = [call EXCEPT ![e] = "final"]
          /\ UNCHANGED << session, scratch, todo, result, NetVars, refused, HistoryVars >>
       \/ /\ tls_is_handshaking(session[e]) /\ tls_wants_write(session[e])
          /\ Goto(e, "flush")
          /\ UNCHANGED << call, session, scratch, todo, result, NetVars, refused, HistoryVars >>
       \/ /\ tls_is_handshaking(session[e]) /\ ~tls_wants_write(session[e])
          /\ IF tls_wants_read(session[e])
             THEN /\ Goto(e, "fill")
                  /\ UNCHANGED << call, session, scratch, todo, result, NetVars,
                                  refused, HistoryVars >>
             ELSE FailHandshake(e, "Internal")

\* The handshake is over, or mbedTLS wants more input: back to the pump.
ProcessDone(e) ==
    /\ pc[e] = "process"
    /\ \/ /\ ~tls_is_handshaking(session[e])
          /\ UNCHANGED session
       \/ /\ tls_is_handshaking(session[e]) /\ ~HasRecord(session[e])
          /\ session' = [session EXCEPT ![e] = KeepPartial(@)]
    /\ Goto(e, "pump")
    /\ UNCHANGED << call, scratch, todo, result, NetVars, refused, HistoryVars >>

\* (mutant: a refusal that does not count, as with VERIFY_OPTIONAL)
AcceptsAnyway(e) == ExpectedFlight(session[e])
AcceptsNext(e) ==
    /\ ExpectedFlight(session[e])
    /\ session[e].hs + 1 # refused

\* The peer's next flight is accepted, and answered.
ProcessFlight(e) ==
    /\ pc[e] = "process"
    /\ tls_is_handshaking(session[e]) /\ HasRecord(session[e])
    /\ AcceptsNext(e)
    /\ session' = [session EXCEPT ![e] = AcceptFlight(@)]
    /\ UNCHANGED << pc, call, scratch, todo, result, NetVars, refused, HistoryVars >>

\* The flight is refused, or another record came: tls_process returns the
\* error, after an alert of mbedTLS's unless it sends none for this cause,
\* and fill_from_tcp flushes it before it returns Err.
ProcessFails(e) ==
    /\ pc[e] = "process"
    /\ tls_is_handshaking(session[e]) /\ HasRecord(session[e])
    /\ ~AcceptsNext(e)
    /\ \/ session' = [session EXCEPT ![e] = TakeRecord(@)]
       \/ /\ NextRecord(session[e]).type \in {"hs", "data", "bad"}
          /\ session' = [session EXCEPT ![e] = SendRecord(TakeRecord(@), Alert)]
    /\ Goto(e, "flush")
    /\ call' = [call EXCEPT ![e] = "alert"]
    /\ result' = [result EXCEPT ![e] = "HandshakeFailure"]
    /\ UNCHANGED << scratch, todo, NetVars, refused, HistoryVars >>

-----------------------------------------------------------------------------
(* read_step.  An empty buffer returns Ok(0) at once and changes nothing.  *)

Read(e) ==
    /\ pc[e] = "idle"
    /\ Goto(e, "read")
    /\ call' = [call EXCEPT ![e] = "read"]
    /\ UNCHANGED << session, scratch, todo, result, NetVars, refused, HistoryVars >>

\* tls_read_plain returns n > 0: what is decrypted, or the next data record.
ReadPlain(e) ==
    /\ pc[e] = "read"
    /\ LET s == session[e]
       IN  /\ \/ s.plain # <<>>
              \/ HasRecord(s) /\ NextRecord(s).type = "data"
           /\ LET opened == IF s.plain # <<>> THEN s ELSE OpenData(s)
              IN  \E cap \in 1 .. MaxRead :
                    /\ received' = [received EXCEPT ![e] = @ \o HandedOut(opened, cap)]
                    /\ session' = [session EXCEPT ![e] = HandOut(opened, cap)]
    /\ Return(e, "ok")
    /\ UNCHANGED << scratch, NetVars, refused, written, notified, ended >>

\* tls_read_plain returns -1: the peer's close_notify, Ok(0).
ReadCloseNotify(e) ==
    /\ pc[e] = "read"
    /\ session[e].plain = <<>>
    /\ HasRecord(session[e]) /\ NextRecord(session[e]).type = "close_notify"
    /\ session' = [session EXCEPT ![e] = TakeRecord(@)]
    /\ ended' = [ended EXCEPT ![e] = TRUE]
    /\ Return(e, "eof")
    /\ UNCHANGED << scratch, NetVars, refused, written, received, notified >>

\* tls_read_plain returns an error: no alert is flushed here.
ReadError(e) ==
    /\ pc[e] = "read"
    /\ session[e].plain = <<>>
    /\ HasRecord(session[e])
    /\ NextRecord(session[e]).type \in {"hs", "alert", "bad"}
    /\ session' = [session EXCEPT ![e] = TakeRecord(@)]
    /\ Return(e, "HandshakeFailure")
    /\ UNCHANGED << scratch, NetVars, refused, HistoryVars >>

\* tls_read_plain returns 0: what the session has to say goes first, then
\* the socket is read.
ReadNeedsMore(e) ==
    /\ pc[e] = "read"
    /\ session[e].plain = <<>>
    /\ ~HasRecord(session[e])
    /\ session' = [session EXCEPT ![e] = KeepPartial(@)]
    /\ Goto(e, IF tls_wants_write(session[e]) THEN "flush" ELSE "fill")
    /\ UNCHANGED << call, scratch, todo, result, NetVars, refused, HistoryVars >>

-----------------------------------------------------------------------------
(* @write, @write_all, @flush and @close.                                  *)

Write(e, op) ==
    /\ pc[e] = "idle"
    /\ \E n \in 1 .. MaxBytes - written[e] : todo' = [todo EXCEPT ![e] = n]
    /\ Goto(e, "write")
    /\ call' = [call EXCEPT ![e] = op]
    /\ UNCHANGED << session, scratch, result, NetVars, refused, HistoryVars >>

\* write_step up to flush_out: one record's worth of the data is sealed.
\* @write leaves the rest to its caller, @write_all comes back for it.
WriteStep(e) ==
    /\ pc[e] = "write"
    /\ LET n == Accepted(todo[e])
       IN  /\ session' = [session EXCEPT ![e] =
                             tls_write_plain(@, [i \in 1 .. n |-> written[e] + i])]
           /\ written' = [written EXCEPT ![e] = @ + n]
           /\ todo' = [todo EXCEPT ![e] = IF call[e] = "write_all" THEN @ - n ELSE 0]
    /\ Goto(e, "flush")
    /\ UNCHANGED << call, scratch, result, NetVars, refused, received, notified, ended >>

Flush(e) ==
    /\ pc[e] = "idle"
    /\ Goto(e, "flush")
    /\ call' = [call EXCEPT ![e] = "flush"]
    /\ UNCHANGED << session, scratch, todo, result, NetVars, refused, HistoryVars >>

\* @close, and the @cleanup a scope runs on every exit: close_notify, a
\* flush whose outcome is ignored, then the socket and the session go.
Close(e) ==
    /\ pc[e] = "idle"
    /\ session' = [session EXCEPT ![e] = tls_send_close_notify(@)]
    /\ notified' = [notified EXCEPT ![e] = TRUE]
    /\ Goto(e, "flush")
    /\ call' = [call EXCEPT ![e] = "close"]
    /\ UNCHANGED << scratch, todo, result, NetVars, refused, written, received, ended >>

-----------------------------------------------------------------------------
\* A step of the package's own code, once called.
Step(e) ==
    \/ FlushChunk(e) \/ SendToTcp(e) \/ SendFails(e) \/ FlushDone(e)
    \/ FillFromTcp(e) \/ FillEof(e) \/ FillFails(e)
    \/ PumpStep(e) \/ ProcessDone(e) \/ ProcessFlight(e) \/ ProcessFails(e)
    \/ ReadPlain(e) \/ ReadCloseNotify(e) \/ ReadError(e) \/ ReadNeedsMore(e)
    \/ WriteStep(e)

\* A call of the application's.
Use(e) ==
    \/ Read(e)
    \/ Write(e, "write") \/ Write(e, "write_all")
    \/ Flush(e)
    \/ Close(e)

Next ==
    \/ \E e \in Endpoint : Step(e) \/ Use(e) \/ Crash(e)
    \/ ResetByPeer
    \/ TcpFault

Spec == Init /\ [][Next]_vars

(* The scheduler runs every fiber that can run, and TCP answers data sent  *)
(* to a closed socket.  What the application calls, and whether it calls   *)
(* anything, is its own affair.                                            *)
Fairness ==
    /\ \A e \in Endpoint : WF_vars(Step(e))
    /\ WF_vars(ResetByPeer)

FairSpec == Spec /\ Fairness
-----------------------------------------------------------------------------
(* Safety.                                                                 *)

\* A fiber blocks in Net.read only when its session has nothing left that
\* the program could use: no plaintext, no complete record, and no
\* ciphertext of its own still waiting to be sent.  (fill_from_tcp is called
\* from pump_handshake and read_step; data that rode in behind the last
\* handshake flight, or behind another record, must not be waited for.)
BlocksOnlyWhenDrained ==
    \A e \in Endpoint :
        pc[e] = "fill" =>
            /\ session[e].plain = <<>>
            /\ session[e].inb = <<>>
            /\ Len(session[e].left) < 2
            /\ session[e].outb = <<>>
            /\ scratch[e] = <<>>

\* During a handshake the two pumps never wait for each other: if one is in
\* Net.read with its handshake unfinished, the other is not waiting too
\* unless something is on its way to one of them, or the connection was
\* reset and both are about to be told.  Nor does a pump ever find neither
\* reading nor writing to do ("handshake state machine stalled").
NoHandshakeStandoff ==
    /\ \A e \in Endpoint : result[e] # "Internal"
    /\ ~broken /\ (\A e \in Endpoint : pc[e] = "fill" /\ chan[e] = <<>>) =>
           \A e \in Endpoint : ~tls_is_handshaking(session[e])

\* A stream whose peer refused its side of the handshake carries nothing: the
\* sender of the refused flight reads no byte and no clean end of stream,
\* also when its own handshake ended before the refusal reached it (TLS 1.3,
\* client certificates).  The refusing side never gets a stream.
RefusedGetsNothing ==
    refused # 0 =>
        LET sender == IF refused % 2 = 1 THEN "client" ELSE "server"
        IN  /\ received[sender] = <<>> /\ ~ended[sender]
            /\ result[Peer(sender)] \in Error \cup {"none"}
            /\ pc[Peer(sender)] # "idle"

\* A session is freed with ciphertext unsent only if TCP is gone: @close and
\* the error paths of connect and accept hand the peer everything that was
\* sealed, close_notify and alert included, before they close the socket.
NothingUnsentOnRelease ==
    [][\A e \in Endpoint :
          pc[e] \notin Over /\ pc'[e] \in {"failed", "closed"} /\ ~broken =>
              session[e].outb = <<>> /\ scratch[e] = <<>>]_vars

\* The two streams implement the channel the applications are promised: bytes
\* in order, once, and an end of stream only where the peer put it, whatever
\* the cuts TLS_CHUNK, TCP and the reader's buffers make, and whatever fails.
Channel == INSTANCE SecureChannel WITH
    MaxBytes <- MaxBytes, written <- written, received <- received,
    notified <- notified, ended <- ended
ImplementsChannel == Channel!Spec

\* What the comment above read_step says of TlsError.PeerMisbehaved: TCP
\* ended without a close_notify.
TruncationIsReal ==
    \A e \in Endpoint : result[e] = "PeerMisbehaved" => ~ended[e]

-----------------------------------------------------------------------------
(* Liveness.                                                               *)

\* connect and accept return, with a stream or an error: the pumps need
\* nothing from either application to finish.
HandshakeEnds ==
    \A e \in Endpoint : <>(pc[e] \in {"idle"} \cup Over)

(* An application that reads again and again, and a close it can see: once *)
(* one side closed, the other is told by a clean end of stream, unless it  *)
(* stopped itself or TCP was reset.                                        *)
ReadingSpec == FairSpec /\ \A e \in Endpoint : SF_vars(Read(e))

\* @close returns: no one waits in it for ever, given TCP room for what was
\* written.
CloseReturns ==
    \A e \in Endpoint : notified[e] ~> pc[e] \in Over

\* @close reaches a peer that keeps reading.
CloseIsSeen ==
    \A e \in Endpoint :
        notified[e] ~> ended[Peer(e)] \/ pc[Peer(e)] \in Over \/ broken

=============================================================================
