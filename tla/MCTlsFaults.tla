---------------------------- MODULE MCTlsFaults -----------------------------
(* Instances of TlsFaults for TLC: what the peer may send.                 *)
EXTENDS TlsFaults

\* What nova-tls never sends.
ForeignRecords == {"data", "empty", "warning", "no_renegotiation", "fatal"}
\* What mbedtls_ssl_read passes over without returning.
PassedOver == {"data", "warning"}
\* What makes the session send, or end, something of its own.
AnsweredRecords == {"data", "hello_request", "close_notify"}

=============================================================================
