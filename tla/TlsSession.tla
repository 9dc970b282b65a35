----------------------------- MODULE TlsSession -----------------------------
(***************************************************************************)
(* One session of the shim (native/tls_c_shim.c, struct NovaTlsSession):   *)
(* the mbedTLS context and the two ciphertext queues the Nova side feeds   *)
(* and drains.  The shim does no I/O, so every function of it is a pure    *)
(* operator on a session record here; TlsStream.tla calls them between     *)
(* its Net calls.                                                          *)
(*                                                                         *)
(* A TLS record crosses the queues as two units, its header and its body,  *)
(* which is the finest cut that matters: mbedTLS fetches the header, then  *)
(* the body, and can use neither alone.  A TLS_CHUNK of k units therefore  *)
(* cuts records wherever the code may.                                     *)
(***************************************************************************)
EXTENDS Naturals, Sequences

CONSTANTS
    NumFlights,  \* handshake flights, odd ones the client's: 3 in TLS 1.3, 4 in TLS 1.2
    Chunk,       \* TLS_CHUNK, in units
    MaxFragment  \* plaintext bytes one record carries (MBEDTLS_SSL_OUT_CONTENT_LEN)

ASSUME SessionAssumption ==
    /\ NumFlights \in Nat \ {0}
    /\ Chunk \in Nat \ {0}
    /\ MaxFragment \in Nat \ {0}

Smaller(a, b) == IF a < b THEN a ELSE b

-----------------------------------------------------------------------------
(* Records, and their two units on the wire.  val: the flight's number, or *)
(* the plaintext bytes.                                                    *)

RecordTypes == {"hs", "data", "close_notify", "alert", "bad"}
Record == [type : RecordTypes, val : Seq(Nat)]
Unit == [rec : Record, part : {"header", "body"}]

Flight(f) == [type |-> "hs", val |-> <<f>>]
Data(bytes) == [type |-> "data", val |-> bytes]
CloseNotify == [type |-> "close_notify", val |-> <<>>]
Alert == [type |-> "alert", val |-> <<>>]
BadRecord == [type |-> "bad", val |-> <<>>]

Units(r) == << [rec |-> r, part |-> "header"], [rec |-> r, part |-> "body"] >>

-----------------------------------------------------------------------------
(* The session.  hs: flights this side has sent or accepted; left: bytes   *)
(* of an incomplete record mbedTLS already took (ssl->in_left); plain:     *)
(* decrypted bytes not handed out yet (ssl->in_offt, in_msglen); inb and   *)
(* outb: in_buf[in_pos..in_len) and out_buf[0..out_len).                   *)

NovaTlsSession ==
    [ hs : 0 .. NumFlights, left : Seq(Unit), plain : Seq(Nat),
      inb : Seq(Unit), outb : Seq(Unit) ]

Freed == [hs |-> 0, left |-> <<>>, plain |-> <<>>, inb |-> <<>>, outb |-> <<>>]

\* _tls_send_cb: a record mbedTLS emits is appended to out_buf.
SendRecord(s, r) == [s EXCEPT !.outb = @ \o Units(r)]

tls_is_handshaking(s) == s.hs # NumFlights
tls_wants_write(s) == s.outb # <<>>
tls_wants_read(s) == ~tls_wants_write(s) /\ tls_is_handshaking(s)

\* tls_read_tls: what the socket gave goes behind what is still unread.
tls_read_tls(s, bytes) == [s EXCEPT !.inb = @ \o bytes]

\* tls_write_tls: the first chunk of out_buf, and the session without it.
WriteSize(s) == Smaller(Chunk, Len(s.outb))
Dequeued(s) == SubSeq(s.outb, 1, WriteSize(s))
tls_write_tls(s) == [s EXCEPT !.outb = SubSeq(@, WriteSize(s) + 1, Len(@))]

-----------------------------------------------------------------------------
(* mbedTLS reading one record through _tls_recv_cb.  With a whole record   *)
(* at hand it takes exactly that; otherwise it takes all there is into its *)
(* own buffer and answers MBEDTLS_ERR_SSL_WANT_READ.                       *)

Fetched(s) == s.left \o s.inb
\* (mutant: forgets the bytes mbedTLS already took)
CountsQueueOnly(s) == Len(s.inb) >= 2
HasRecord(s) == Len(Fetched(s)) >= 2
NextRecord(s) ==
    LET f == Fetched(s)
    IN  IF f[1].part = "header" /\ f[2] = [f[1] EXCEPT !.part = "body"]
        THEN f[1].rec
        ELSE BadRecord
TakeRecord(s) ==
    [s EXCEPT !.left = <<>>, !.inb = SubSeq(Fetched(s), 3, Len(Fetched(s)))]
\* (mutant: an incomplete record is thrown away)
DropsPartial(s) == [s EXCEPT !.left = <<>>, !.inb = <<>>]
KeepPartial(s) == [s EXCEPT !.left = Fetched(s), !.inb = <<>>]

(* mbedtls_ssl_handshake_step: the flight expected next is accepted and    *)
(* answered by the flight after it, if the handshake has one.              *)
ExpectedFlight(s) == NextRecord(s) = Flight(s.hs + 1)
\* (mutant: answers the last flight too)
AnswersEveryFlight(s) == SendRecord([TakeRecord(s) EXCEPT !.hs = s.hs + 2], Flight(s.hs + 2))
AcceptFlight(s) ==
    LET accepted == [TakeRecord(s) EXCEPT !.hs = s.hs + 1]
    IN  IF accepted.hs = NumFlights
        THEN accepted
        ELSE SendRecord([accepted EXCEPT !.hs = @ + 1], Flight(accepted.hs + 1))

(* mbedtls_ssl_read once a data record is decrypted, and the next cap      *)
(* bytes of it handed out.                                                 *)
OpenData(s) == [TakeRecord(s) EXCEPT !.plain = NextRecord(s).val]
HandedOut(s, cap) == SubSeq(s.plain, 1, Smaller(cap, Len(s.plain)))
\* (mutant: the bytes handed out stay)
HandOutKeeps(s, cap) == s
HandOut(s, cap) ==
    [s EXCEPT !.plain = SubSeq(@, Smaller(cap, Len(@)) + 1, Len(@))]

(* mbedtls_ssl_write: one record with at most MaxFragment bytes.           *)
Accepted(n) == Smaller(n, MaxFragment)
tls_write_plain(s, bytes) == IF bytes = <<>> THEN s ELSE SendRecord(s, Data(bytes))

\* (mutant: no alert)
SealsNoCloseNotify(s) == s
tls_send_close_notify(s) == SendRecord(s, CloseNotify)

=============================================================================
