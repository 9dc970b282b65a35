---------------------------- MODULE MCTlsStream -----------------------------
(* Instances of TlsStream for TLC: values the .cfg files give its CONSTANTs.*)
EXTENDS TlsStream

\* ClientHello; ServerHello .. Finished; the client's Finished, and in TLS 1.2
\* one more flight, the server's Finished.
Tls13 == 3
Tls12 == 4

\* Who may refuse what: the server a ClientHello (version, ALPN) or a client
\* certificate, the client a server certificate.
NoRefusal == {}
ClientCertificate == {3}
Certificates == {2, 3}
AnyRefusal == {1, 2, 3}

=============================================================================
