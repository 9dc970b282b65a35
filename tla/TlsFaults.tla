----------------------------- MODULE TlsFaults ------------------------------
(***************************************************************************)
(* One client stream (src/stream.nv over native/tls_c_shim.c) in a world   *)
(* less kind than that of TlsStream.tla: the queues of its session may be  *)
(* unable to grow, Net.read and Net.write_all may fail and work again at   *)
(* the next call, and the peer is another TLS implementation, which also   *)
(* sends records nova-tls never sends itself.                              *)
(*                                                                         *)
(* What mbedTLS does with a record it sealed and could not hand to         *)
(* _tls_send_cb matters here, so the session has ssl->out_left, and every  *)
(* record its sequence number, without which no hole would be noticed.     *)
(* The plaintext of a record is one byte; the i-th @write carries byte i.  *)
(***************************************************************************)
EXTENDS Naturals, Sequences, FiniteSets

CONSTANTS
    Chunk,           \* TLS_CHUNK, in units
    BaseCap,         \* units the first allocation of a queue holds (4096 bytes)
    MaxWrites,       \* bound: calls of @write
    MaxPeerRecords,  \* bound: records the peer sends
    PeerTypes,       \* what the peer may send behind its handshake flight
    MayStarve,       \* TRUE: realloc may fail
    NetMayFail       \* TRUE: Net.read and Net.write_all may fail and recover

FromPeer == {"flight", "data", "empty", "warning", "no_renegotiation", "hello_request",
             "close_notify", "fatal"}
FromUs == {"hello", "finished", "data", "warning", "fatal", "close_notify"}

ASSUME FaultsAssumption ==
    /\ Chunk \in Nat \ {0}
    /\ BaseCap \in Nat \ {0}
    /\ MaxWrites \in Nat
    /\ MaxPeerRecords \in Nat
    /\ PeerTypes \subseteq FromPeer \ {"flight"}
    /\ MayStarve \in BOOLEAN
    /\ NetMayFail \in BOOLEAN

VARIABLES
    pc,        \* where the fiber is
    call,      \* the operation it is executing
    result,    \* how the last operation ended
    hs,        \* the handshake is over, for the session
    session,   \* the shim session
    scratch,   \* ciphertext taken from the session, being written to TCP
    toPeer,    \* units TCP carries to the peer
    toUs,      \* units TCP carries to the stream
    peer,      \* the other implementation
    tries,     \* calls of @write so far
    sealed,    \* history: bytes in the order mbedTLS sealed them
    told,      \* history: bytes of the @write calls that returned Ok
    received,  \* history: bytes @read returned
    ended,     \* history: @read returned Ok(0) for a close_notify
    closed     \* history: @close was called

vars == << pc, call, result, hs, session, scratch, toPeer, toUs, peer,
           tries, sealed, told, received, ended, closed >>

Wire == << toPeer, toUs >>
Histories == << sealed, told, received, ended, closed >>

-----------------------------------------------------------------------------
(* Records and their units on the wire.                                    *)

Record == [seq : Nat, type : FromPeer \cup FromUs, val : Nat]
Unit == [rec : Record, part : {"header", "body"}]
Units(r) == << [rec |-> r, part |-> "header"], [rec |-> r, part |-> "body"] >>

\* inb, outb: in_buf and out_buf; left: bytes of a record mbedTLS has begun to
\* fetch; outLeft: records it sealed that _tls_send_cb did not take; nextIn,
\* nextOut: its record counters; zeros: nb_zero.
Session ==
    [ inb : Seq(Unit), left : Seq(Unit), outb : Seq(Unit), outLeft : Seq(Unit),
      inCap : Nat, outCap : Nat, nextIn : Nat, nextOut : Nat, zeros : 0 .. 4 ]

\* heard: it has the ClientHello; log: the records it sent; got: the bytes it
\* read; end: how its own reading ended; here: it has the socket open.
Peer == [ heard : BOOLEAN, next : Nat, got : Seq(Nat), end : {"open", "clean", "broken"},
          log : Seq(Record), here : BOOLEAN ]

Running == {"pump", "process", "flush", "send", "fill", "read", "reread", "write"}
Over == {"failed", "closed"}
Call == {"none", "handshake", "final", "alert", "read", "write", "flush", "close"}
Result == {"none", "ok", "eof", "HandshakeFailure", "PeerMisbehaved", "Net", "Internal"}

\* The type invariant.  The buffer of flush_out never outgrows TLS_CHUNK, in
\* however many records the answers to the peer have piled up behind it.
TypeOK ==
    /\ pc \in Running \cup {"idle"} \cup Over
    /\ call \in Call
    /\ result \in Result
    /\ hs \in BOOLEAN
    /\ session \in Session
    /\ scratch \in Seq(Unit) /\ Len(scratch) <= Chunk
    /\ toPeer \in Seq(Unit) /\ toUs \in Seq(Unit)
    /\ peer \in Peer
    /\ tries \in 0 .. MaxWrites
    /\ sealed \in Seq(1 .. MaxWrites) /\ told \in Seq(1 .. MaxWrites)
    /\ received \in Seq(Nat)
    /\ ended \in BOOLEAN /\ closed \in BOOLEAN

-----------------------------------------------------------------------------
(* The queues and mbedTLS's output, as sets of possible outcomes.          *)

\* The room a queue takes: data records are larger than any other of ours, so
\* they may need a buffer to grow that held a handshake.
Bulky(units) == {i \in 1 .. Len(units) : units[i].rec.type = "data" /\ units[i].part = "body"}
Size(units) == Len(units) + Cardinality(Bulky(units))

\* _tls_buf_ensure: the capacity a queue may have once need units were asked for.
\* (mutant: a queue starts with its first allocation, whatever is asked for)
StartsSmall(need) == BaseCap
Capacity[k \in Nat] == IF k = 0 THEN BaseCap ELSE 2 * Capacity[k - 1]
Doubled(need) ==
    CHOOSE c \in {Capacity[k] : k \in 0 .. need} : c >= need /\ (c = BaseCap \/ c < 2 * need)
_tls_buf_ensure(cap, need) ==
    IF need <= cap THEN {cap}
    ELSE {Doubled(need)} \cup (IF MayStarve THEN {cap} ELSE {})

\* (mutant: a callback that does not look whether realloc failed)
CopiesUnchecked(s) ==
    { [s EXCEPT !.outb = @ \o s.outLeft, !.outLeft = <<>>, !.outCap = cap]
      : cap \in _tls_buf_ensure(s.outCap, Size(s.outb \o s.outLeft)) }
\* mbedtls_ssl_flush_output over _tls_send_cb: all of out_left, or nothing.
FlushOutput(s) ==
    LET need == Size(s.outb \o s.outLeft)
    IN  { IF cap < need /\ cap = s.outCap
          THEN s
          ELSE [s EXCEPT !.outb = @ \o s.outLeft, !.outLeft = <<>>, !.outCap = cap]
          : cap \in _tls_buf_ensure(s.outCap, need) }
Sent(s) == s.outLeft = <<>>

\* mbedtls_ssl_write_record.
Seal(s, type, val) ==
    [s EXCEPT !.outLeft = @ \o Units([seq |-> s.nextOut, type |-> type, val |-> val]),
              !.nextOut = @ + 1]
WriteRecord(s, type, val) == FlushOutput(Seal(s, type, val))

\* mbedtls_ssl_send_alert_message: what is left over goes out instead of it.
SendAlert(s, type) == IF Sent(s) THEN WriteRecord(s, type, 0) ELSE FlushOutput(s)

\* tls_read_tls: either all of it, or none of it.
tls_read_tls(s, units) ==
    LET need == Size(s.inb \o units)
    IN  { IF cap < need /\ cap = s.inCap
          THEN s
          ELSE [s EXCEPT !.inb = @ \o units, !.inCap = cap]
          : cap \in _tls_buf_ensure(s.inCap, need) }

-----------------------------------------------------------------------------
(* mbedTLS fetching one record.                                            *)

Fetched(s) == s.left \o s.inb
\* The bytes where a header should be are none.
Garbled(s) == Fetched(s) # <<>> /\ Fetched(s)[1].part = "body"
HasRecord(s) == ~Garbled(s) /\ Len(Fetched(s)) >= 2
NextRecord(s) == Fetched(s)[1].rec
\* (mutant: record counters that are not compared)
IgnoresCounter(s) == Fetched(s)[2] = [Fetched(s)[1] EXCEPT !.part = "body"]
\* Decryption succeeds: it is one record, and the one the counter says.
Genuine(s) ==
    /\ Fetched(s)[2] = [Fetched(s)[1] EXCEPT !.part = "body"]
    /\ NextRecord(s).seq = s.nextIn
Is(s, type) == HasRecord(s) /\ Genuine(s) /\ NextRecord(s).type = type

Discard(s) == [s EXCEPT !.left = <<>>, !.inb = SubSeq(Fetched(s), 3, Len(Fetched(s)))]
TakeRecord(s) == [Discard(s) EXCEPT !.nextIn = @ + 1, !.zeros = 0]
TakeEmpty(s) == [Discard(s) EXCEPT !.nextIn = @ + 1, !.zeros = @ + 1]
\* (mutant: an incomplete record is thrown away)
DropsPartial(s) == [s EXCEPT !.left = <<>>, !.inb = <<>>]
KeepPartial(s) == [s EXCEPT !.left = Fetched(s), !.inb = <<>>]
\* A header that cannot be one stays where it is, and is found again.
KeepGarbage(s) ==
    [s EXCEPT !.left = << Fetched(s)[1] >>, !.inb = SubSeq(Fetched(s), 2, Len(Fetched(s)))]
\* Reading a record fails; with a bad MAC an alert is sealed, come of it what may.
Rejected(s) == IF Garbled(s) THEN {KeepGarbage(s)} ELSE SendAlert(Discard(s), "fatal")

-----------------------------------------------------------------------------
Fresh == [ inb |-> <<>>, left |-> <<>>, outb |-> <<>>, outLeft |-> <<>>,
           inCap |-> 0, outCap |-> 0, nextIn |-> 0, nextOut |-> 0, zeros |-> 0 ]

\* tls_client_new has taken the first handshake step, whatever came of it.
Init ==
    /\ pc = "pump" /\ call = "handshake" /\ result = "none" /\ hs = FALSE
    /\ session \in WriteRecord(Fresh, "hello", 0)
    /\ scratch = <<>> /\ toPeer = <<>> /\ toUs = <<>>
    /\ peer = [ heard |-> FALSE, next |-> 0, got |-> <<>>, end |-> "open",
                log |-> <<>>, here |-> TRUE ]
    /\ tries = 0 /\ sealed = <<>> /\ told = <<>> /\ received = <<>>
    /\ ended = FALSE /\ closed = FALSE

Return(outcome) == pc' = "idle" /\ call' = "none" /\ result' = outcome

\* connect returns Err, or @close is done: socket and session go.
Release(to, outcome) ==
    /\ pc' = to
    /\ result' = outcome
    /\ session' = Fresh
    /\ scratch' = <<>>
    /\ UNCHANGED << call, hs, peer, tries, Histories >>

-----------------------------------------------------------------------------
(* flush_out.                                                              *)

\* (mutant: scratch is resized to all that is pending, not to TLS_CHUNK)
FlushAllAtOnce ==
    /\ pc = "flush" /\ session.outb # <<>>
    /\ scratch' = session.outb
    /\ session' = [session EXCEPT !.outb = <<>>]
    /\ pc' = "send"
    /\ UNCHANGED << call, result, hs, Wire, peer, tries, Histories >>
FlushChunk ==
    /\ pc = "flush" /\ session.outb # <<>>
    /\ LET n == IF Len(session.outb) < Chunk THEN Len(session.outb) ELSE Chunk
       IN  /\ scratch' = SubSeq(session.outb, 1, n)
           /\ session' = [session EXCEPT !.outb = SubSeq(@, n + 1, Len(@))]
    /\ pc' = "send"
    /\ UNCHANGED << call, result, hs, Wire, peer, tries, Histories >>

SendToTcp ==
    /\ pc = "send"
    /\ toPeer' = toPeer \o scratch
    /\ scratch' = <<>>
    /\ pc' = "flush"
    /\ UNCHANGED << call, result, hs, session, toUs, peer, tries, Histories >>

\* tcp.write_all fails after k units.  The chunk is no longer in the session:
\* its rest is lost, and the stream goes on being usable.
SendFails ==
    /\ pc = "send"
    /\ NetMayFail \/ ~peer.here
    /\ \E k \in 0 .. Len(scratch) - 1 : toPeer' = toPeer \o SubSeq(scratch, 1, k)
    /\ \/ /\ call \in {"handshake", "final"}
          /\ Release("failed", "Net")
       \/ /\ call = "alert"
          /\ Release("failed", result)
       \/ /\ call \in {"read", "write", "flush"}
          /\ Return("Net")
          /\ scratch' = <<>>
          /\ UNCHANGED << hs, session, peer, tries, Histories >>
       \/ /\ call = "close"
          /\ Release("closed", result)
    /\ UNCHANGED toUs

FlushDone ==
    /\ pc = "flush" /\ session.outb = <<>>
    /\ \/ /\ call \in {"handshake", "read"}
          /\ pc' = IF call = "read" THEN "fill" ELSE "pump"
          /\ UNCHANGED << call, result, hs, session, scratch, peer, tries, Histories >>
       \/ /\ call \in {"final", "write", "flush"}
          /\ Return("ok")
          /\ told' = IF call = "write" THEN Append(told, tries) ELSE told
          /\ UNCHANGED << hs, session, scratch, peer, tries, sealed, received, ended, closed >>
       \/ /\ call = "alert"
          /\ Release("failed", result)
       \/ /\ call = "close"
          /\ Release("closed", result)
    /\ UNCHANGED Wire

-----------------------------------------------------------------------------
(* fill_from_tcp.                                                          *)

\* What each caller makes of an error, or of the end of the stream.
FillEnds(atHandshake, atRead) ==
    \/ /\ call = "handshake"
       /\ Release("failed", atHandshake)
    \/ /\ call = "read"
       /\ Return(atRead)
       /\ UNCHANGED << hs, session, scratch, peer, tries, Histories >>

\* Some bytes come.  If in_buf cannot hold them they are gone.
FillFromTcp ==
    /\ pc = "fill"
    /\ \E n \in 1 .. (IF Len(toUs) < Chunk THEN Len(toUs) ELSE Chunk) :
        /\ toUs' = SubSeq(toUs, n + 1, Len(toUs))
        /\ \E s \in tls_read_tls(session, SubSeq(toUs, 1, n)) :
            \/ /\ Len(s.inb) = Len(session.inb) + n
               /\ session' = s
               /\ pc' = IF call = "read" THEN "read" ELSE "process"
               /\ UNCHANGED << call, result, hs, scratch, peer, tries, Histories >>
            \/ /\ Len(s.inb) # Len(session.inb) + n
               /\ FillEnds("Internal", "Internal")
    /\ UNCHANGED toPeer

\* (mutant: an error of Net.read after which the session starts a record anew)
FillForgets ==
    /\ pc = "fill"
    /\ NetMayFail
    /\ call = "read" /\ Return("Net")
    /\ session' = [session EXCEPT !.left = <<>>]
    /\ UNCHANGED << hs, scratch, peer, tries, Histories, Wire >>
FillFails ==
    /\ pc = "fill"
    /\ NetMayFail
    /\ FillEnds("Net", "Net")
    /\ UNCHANGED Wire

FillEof ==
    /\ pc = "fill"
    /\ ~peer.here /\ toUs = <<>>
    /\ FillEnds("HandshakeFailure", "PeerMisbehaved")
    /\ UNCHANGED Wire

-----------------------------------------------------------------------------
(* pump_handshake and tls_process.                                         *)

PumpStep ==
    /\ pc = "pump"
    /\ pc' = IF hs \/ session.outb # <<>> THEN "flush" ELSE "fill"
    /\ call' = IF hs THEN "final" ELSE call
    /\ UNCHANGED << result, hs, session, scratch, Wire, peer, tries, Histories >>

\* mbedTLS sends what is left over before the next handshake step, takes the
\* server's flight and answers it.  An error goes the way of all errors of
\* tls_process: what is in out_buf is flushed, then connect fails.
Process ==
    /\ pc = "process"
    /\ \E s \in FlushOutput(session) :
        \/ /\ Sent(s) /\ ~HasRecord(s) /\ ~Garbled(s)
           /\ session' = KeepPartial(s)
           /\ pc' = "pump"
           /\ UNCHANGED << call, result, hs >>
        \/ /\ Sent(s) /\ Is(s, "flight")
           /\ session' \in WriteRecord(TakeRecord(s), "finished", 0)
           /\ \/ /\ Sent(session')
                 /\ hs' = TRUE
                 /\ pc' = "pump"
                 /\ UNCHANGED << call, result >>
              \/ /\ ~Sent(session')
                 /\ pc' = "flush" /\ call' = "alert" /\ result' = "HandshakeFailure"
                 /\ UNCHANGED hs
        \/ /\ ~Sent(s) \/ Garbled(s) \/ (HasRecord(s) /\ ~Is(s, "flight"))
           /\ session' \in IF Sent(s) THEN Rejected(s) ELSE {s}
           /\ pc' = "flush" /\ call' = "alert" /\ result' = "HandshakeFailure"
           /\ UNCHANGED hs
    /\ UNCHANGED << scratch, Wire, peer, tries, Histories >>

-----------------------------------------------------------------------------
(* read_step over mbedtls_ssl_read.  Its loop over records is unrolled:    *)
(* each action but the last three stays in the call.                       *)

Read ==
    /\ pc = "idle"
    /\ pc' = "read" /\ call' = "read"
    /\ UNCHANGED << result, hs, session, scratch, Wire, peer, tries, Histories >>

Reading == pc \in {"read", "reread"}
ReadFrame == UNCHANGED << hs, scratch, Wire, peer, tries, sealed, told, closed >>

\* tls_read_plain returns 0: flush what is queued, then Net.read.
AskForMore(s) ==
    /\ session' = s
    /\ pc' = IF s.outb # <<>> THEN "flush" ELSE "fill"
    /\ UNCHANGED << call, result, received, ended >>

\* A warning alert is passed over inside mbedtls_ssl_read_record.
\* (mutant: it ends the call, as an alert does that mbedtls_ssl_read sees)
WarningEndsCall ==
    /\ Reading /\ Is(session, "warning")
    /\ AskForMore(TakeRecord(session))
    /\ ReadFrame
ReadWarning ==
    /\ Reading /\ Is(session, "warning")
    /\ session' = TakeRecord(session)
    /\ UNCHANGED << pc, call, result, received, ended >>
    /\ ReadFrame

\* An empty data record: one in a call is passed over, the second makes the
\* call return 0 bytes, the fourth in a row is taken for an attack.
ReadEmpty ==
    /\ Reading /\ Is(session, "empty")
    /\ \/ /\ session.zeros < 3 /\ pc = "read"
          /\ session' = TakeEmpty(session)
          /\ pc' = "reread"
          /\ UNCHANGED << call, result, received, ended >>
       \/ /\ session.zeros < 3 /\ pc = "reread"
          /\ AskForMore(TakeEmpty(session))
       \/ /\ session.zeros >= 3
          /\ session' \in SendAlert([Discard(session) EXCEPT !.zeros = 4], "fatal")
          /\ Return("HandshakeFailure")
          /\ UNCHANGED << received, ended >>
    /\ ReadFrame

\* HelloRequest (TLS 1.2): renegotiation is refused with an alert.
ReadHelloRequest ==
    /\ Reading /\ Is(session, "hello_request")
    /\ session' \in SendAlert(TakeRecord(session), "warning")
    /\ \/ Sent(session') /\ pc' = "read" /\ UNCHANGED << call, result >>
       \/ ~Sent(session') /\ Return("HandshakeFailure")
    /\ UNCHANGED << received, ended >>
    /\ ReadFrame

\* The one warning mbedtls_ssl_read itself gets to see: WANT_READ.
ReadNoRenegotiation ==
    /\ Reading /\ Is(session, "no_renegotiation")
    /\ AskForMore(TakeRecord(session))
    /\ ReadFrame

ReadNeedsMore ==
    /\ Reading /\ ~HasRecord(session) /\ ~Garbled(session)
    /\ AskForMore(KeepPartial(session))
    /\ ReadFrame

\* (mutant: the record stays where it is)
ReadsAgain ==
    /\ Reading /\ Is(session, "data")
    /\ received' = Append(received, NextRecord(session).val)
    /\ Return("ok")
    /\ UNCHANGED << session, ended >>
    /\ ReadFrame
ReadData ==
    /\ Reading /\ Is(session, "data")
    /\ received' = Append(received, NextRecord(session).val)
    /\ session' = TakeRecord(session)
    /\ Return("ok")
    /\ UNCHANGED ended
    /\ ReadFrame

\* (mutant: every alert taken for the end)
AnyAlertEnds ==
    /\ Reading
    /\ Is(session, "close_notify") \/ Is(session, "no_renegotiation")
    /\ session' = TakeRecord(session)
    /\ ended' = TRUE
    /\ Return("eof")
    /\ UNCHANGED received
    /\ ReadFrame
ReadCloseNotify ==
    /\ Reading /\ Is(session, "close_notify")
    /\ session' = TakeRecord(session)
    /\ ended' = TRUE
    /\ Return("eof")
    /\ UNCHANGED received
    /\ ReadFrame

\* A fatal alert, or a record that is none.
ReadError ==
    /\ Reading
    /\ \/ Is(session, "fatal") /\ session' = TakeRecord(session)
       \/ /\ Garbled(session) \/ (HasRecord(session) /\ ~Genuine(session))
          /\ session' \in Rejected(session)
    /\ Return("HandshakeFailure")
    /\ UNCHANGED << received, ended >>
    /\ ReadFrame

-----------------------------------------------------------------------------
(* @write, @flush and @close.                                              *)

Write ==
    /\ pc = "idle" /\ tries < MaxWrites
    /\ tries' = tries + 1
    /\ pc' = "write" /\ call' = "write"
    /\ UNCHANGED << result, hs, session, scratch, Wire, peer, Histories >>

\* ssl_write_real: with a record left over, that is sent and the length of
\* the new data reported; otherwise the new data is sealed.
\* (mutant: the length is reported and nothing sealed)
WriteForgets(s, byte) == {s}
tls_write_plain(s, byte) ==
    IF Sent(s) THEN WriteRecord(s, "data", byte) ELSE FlushOutput(s)

\* write_step up to flush_out.
WriteStep ==
    /\ pc = "write"
    /\ session' \in tls_write_plain(session, tries)
    /\ sealed' = IF session'.nextOut # session.nextOut THEN Append(sealed, tries) ELSE sealed
    /\ \/ Sent(session') /\ pc' = "flush" /\ UNCHANGED << call, result >>
       \/ ~Sent(session') /\ Return("HandshakeFailure")
    /\ UNCHANGED << hs, scratch, Wire, peer, tries, told, received, ended, closed >>

Flush ==
    /\ pc = "idle"
    /\ pc' = "flush" /\ call' = "flush"
    /\ UNCHANGED << result, hs, session, scratch, Wire, peer, tries, Histories >>

Close ==
    /\ pc = "idle"
    /\ session' \in SendAlert(session, "close_notify")
    /\ closed' = TRUE
    /\ pc' = "flush" /\ call' = "close"
    /\ UNCHANGED << result, hs, scratch, Wire, peer, tries, sealed, told, received, ended >>

-----------------------------------------------------------------------------
(* The peer, external.                                                     *)

\* The places of its bytes among the records it sent.
SentBytes == {i \in 1 .. Len(peer.log) : peer.log[i].type = "data"}
Finished == \E i \in 1 .. Len(peer.log) : peer.log[i].type \in {"close_notify", "fatal"}

\* It answers the ClientHello, then says what it likes.
PeerSends ==
    /\ peer.here /\ peer.heard /\ ~Finished
    /\ Len(peer.log) < MaxPeerRecords
    /\ \E type \in (IF peer.log = <<>> THEN {"flight"} ELSE PeerTypes) :
        LET r == [ seq |-> Len(peer.log), type |-> type,
                   val |-> IF type = "data" THEN Cardinality(SentBytes) + 1 ELSE 0 ]
        IN  /\ peer' = [peer EXCEPT !.log = Append(@, r)]
            /\ toUs' = toUs \o Units(r)
    /\ UNCHANGED << pc, call, result, hs, session, scratch, toPeer, tries, Histories >>

\* It reads a record.  What does not decrypt with its counter ends its reading.
PeerReads ==
    /\ peer.here /\ peer.end = "open" /\ toPeer # <<>>
    /\ \/ /\ toPeer[1].part = "body"
          /\ peer' = [peer EXCEPT !.end = "broken"]
          /\ toPeer' = <<>>
       \/ /\ toPeer[1].part = "header" /\ Len(toPeer) >= 2
          /\ toPeer' = SubSeq(toPeer, 3, Len(toPeer))
          /\ LET r == toPeer[1].rec
                 genuine == toPeer[2] = [toPeer[1] EXCEPT !.part = "body"] /\ r.seq = peer.next
             IN  peer' =
                   IF ~genuine \/ r.type = "fatal" THEN [peer EXCEPT !.end = "broken"]
                   ELSE [peer EXCEPT
                           !.next = @ + 1,
                           !.heard = TRUE,
                           !.got = IF r.type = "data" THEN Append(@, r.val) ELSE @,
                           !.end = IF r.type = "close_notify" THEN "clean" ELSE @]
    /\ UNCHANGED << pc, call, result, hs, session, scratch, toUs, tries, Histories >>

PeerLeaves ==
    /\ peer.here
    /\ peer' = [peer EXCEPT !.here = FALSE]
    /\ UNCHANGED << pc, call, result, hs, session, scratch, Wire, tries, Histories >>

-----------------------------------------------------------------------------
\* A step of the package's own code that the network lets succeed.
Works ==
    \/ FlushChunk \/ SendToTcp \/ FlushDone
    \/ FillFromTcp \/ FillEof
    \/ PumpStep \/ Process
    \/ ReadWarning \/ ReadEmpty \/ ReadHelloRequest \/ ReadNoRenegotiation
    \/ ReadNeedsMore \/ ReadData \/ ReadCloseNotify \/ ReadError
    \/ WriteStep

Next ==
    \/ Works \/ SendFails \/ FillFails
    \/ Read \/ Write \/ Flush \/ Close
    \/ PeerSends \/ PeerReads \/ PeerLeaves

Spec == Init /\ [][Next]_vars

-----------------------------------------------------------------------------
(* Properties.                                                             *)

\* What _tls_send_cb and tls_read_tls copied behind a queue fits the buffer
\* _tls_buf_ensure left them with: their test of a failed realloc ("smaller
\* than needed, and not grown") is enough, also when several grow in a row.
QueuesFit ==
    /\ Size(session.inb) <= session.inCap
    /\ Size(session.outb) <= session.outCap

\* What is under way from the peer to its reader, the session's two places
\* included.
UnderWay == Fetched(session) \o toUs
\* As long as the stream is there and no record was refused, the ciphertext
\* mbedTLS has begun to fetch, in_buf and TCP hold together exactly the
\* records the peer sent and mbedTLS has not counted.  An @read that returned
\* an error of Net, or gave way to a write in the middle of a record, has lost
\* nothing; only memory that fails (tls_read_tls) can.
NothingLostInside ==
    (pc \notin Over /\ session.zeros <= 3) =>
        LET n == Len(peer.log) - session.nextIn
        IN  /\ Len(UnderWay) = 2 * n
            /\ \A i \in 1 .. n :
                  SubSeq(UnderWay, 2 * i - 1, 2 * i) = Units(peer.log[session.nextIn + i])

\* A peer told by close_notify that the stream is over has every byte of the
\* @write calls that returned Ok: none is lost between Ok and the wire, in
\* out_buf or in mbedTLS's own output, whatever Net and the peer did between.
CleanEndLosesNothing ==
    peer.end = "clean" => \A i \in 1 .. Len(told) : \E j \in 1 .. Len(peer.got) :
                              peer.got[j] = told[i]

\* The stream and its peer are a secure channel (SecureChannel.tla), whatever
\* fails at our end: each reads a prefix of what the other sealed, in order,
\* and a clean end only behind the last byte.  The bytes the peer got are
\* mapped to their places among the bytes mbedTLS sealed, which are not all
\* the application tried to write.
Place(byte) == CHOOSE i \in 1 .. Len(sealed) : sealed[i] = byte
Channel == INSTANCE SecureChannel WITH
    MaxBytes <- MaxWrites + MaxPeerRecords,
    written  <- [e \in {"client", "server"} |->
                    IF e = "client" THEN Len(sealed) ELSE Cardinality(SentBytes)],
    received <- [e \in {"client", "server"} |->
                    IF e = "client" THEN received
                    ELSE [i \in 1 .. Len(peer.got) |-> Place(peer.got[i])]],
    notified <- [e \in {"client", "server"} |->
                    IF e = "client" THEN closed
                    ELSE \E i \in 1 .. Len(peer.log) : peer.log[i].type = "close_notify"],
    ended    <- [e \in {"client", "server"} |->
                    IF e = "client" THEN ended ELSE peer.end = "clean"]
ImplementsChannel == Channel!Spec

\* The doc of @write in stream.nv: the accepted prefix is encrypted and goes
\* to the socket.  Every byte of a @write that returned Ok was sealed.
AcceptedIsSealed == \A i \in 1 .. Len(told) : \E j \in 1 .. Len(sealed) : sealed[j] = told[i]

\* The comment in tls_client_new: the step there produces the ClientHello.  A
\* client that waits for the answer has handed its ClientHello out.
HelloIsOut == (pc = "fill" /\ call = "handshake") => Sent(session)

\* The scheduler runs a fiber that can run.  Net need not fail, and an error
\* of Net.read passes: one that is tried again and again with bytes there gets
\* some.  The application keeps reading, whatever else it does in between.
\* Then it gets every byte the peer sent: none stays behind in the session
\* while the fiber waits for the socket.
Fairness == WF_vars(Works) /\ SF_vars(FillFromTcp) /\ SF_vars(Read)
FairSpec == Spec /\ Fairness
SentIsRead ==
    \A n \in 1 .. MaxPeerRecords :
        Cardinality(SentBytes) >= n ~> (Len(received) >= n \/ pc \in Over)
=============================================================================
