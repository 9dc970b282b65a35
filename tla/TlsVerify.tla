----------------------------- MODULE TlsVerify ------------------------------
(***************************************************************************)
(* How a verification mode of config.nv becomes settings of mbedTLS        *)
(* (tls_client_new, tls_server_new), and what mbedTLS does with them when  *)
(* the peer's certificate comes.  Pure operators, used by TlsLifecycle.    *)
(***************************************************************************)
EXTENDS Naturals

VerificationMode == {"SystemRoots", "CustomRoots", "Pinned", "InsecureSkipVerify"}
ClientCertMode == {"NoClientAuth", "Optional", "Required"}
Rooted == {"SystemRoots", "CustomRoots"}

\* authmode: MBEDTLS_SSL_VERIFY_*; ca: trust anchors given; pin: the pin
\* callback registered; hostname: sent as SNI and compared with the
\* certificate; own: a certificate and key of our own; alpn: how many
\* protocol names.
Settings == [ authmode : {"NONE", "OPTIONAL", "REQUIRED"}, ca : BOOLEAN, pin : BOOLEAN,
              hostname : BOOLEAN, own : BOOLEAN, alpn : Nat ]

\* mbedtls_ssl_config_defaults.
Defaults(role) ==
    [ authmode |-> IF role = "client" THEN "REQUIRED" ELSE "NONE",
      ca |-> FALSE, pin |-> FALSE, hostname |-> FALSE, own |-> FALSE, alpn |-> 0 ]

Anchored(s, mode) == [s EXCEPT !.ca = TRUE, !.authmode = mode]

\* (mutant: the callback registered with verification switched off)
PinsWithoutVerification(s, mode) ==
    IF mode = "Pinned" THEN [s EXCEPT !.authmode = "NONE", !.pin = TRUE]
    ELSE Anchored(s, "REQUIRED")
ClientTrust(s, mode) ==
    CASE mode \in Rooted -> Anchored(s, "REQUIRED")
      [] mode = "Pinned" -> [s EXCEPT !.authmode = "OPTIONAL", !.pin = TRUE]
      [] mode = "InsecureSkipVerify" -> [s EXCEPT !.authmode = "NONE"]

ServerTrust(s, mode) ==
    CASE mode = "NoClientAuth" -> s
      [] mode = "Optional" -> Anchored(s, "OPTIONAL")
      [] mode = "Required" -> Anchored(s, "REQUIRED")

NeedHostname(mode) == mode \in Rooted

-----------------------------------------------------------------------------
(* The peer's certificate, by what the checks find out about it: its chain *)
(* ends at a trust anchor, its dates hold, it covers the server name, its  *)
(* key has a pin, it may be used for this purpose.                         *)
Certificate == [ sent : BOOLEAN, trusted : BOOLEAN, current : BOOLEAN,
                 named : BOOLEAN, pinned : BOOLEAN, usable : BOOLEAN ]

\* None: there is nothing to find out.
NoCertificate == [ sent |-> FALSE, trusted |-> FALSE, current |-> FALSE,
                   named |-> FALSE, pinned |-> FALSE, usable |-> FALSE ]

\* A server that does not ask for a certificate is not sent one.
Presented(role, s) ==
    { cert \in Certificate :
        \/ cert = NoCertificate
        \/ cert.sent /\ (role = "server" => s.authmode # "NONE") }

\* mbedtls_x509_crt_verify: the flags it raises.
Flags(s, cert) ==
    { f \in {"NOT_TRUSTED", "EXPIRED", "CN_MISMATCH"} :
        \/ f = "NOT_TRUSTED" /\ (s.ca => ~cert.trusted)
        \/ f = "EXPIRED" /\ ~cert.current
        \/ f = "CN_MISMATCH" /\ s.hostname /\ ~cert.named }

\* _tls_verify_pinned_cb: a certificate it stops is refused in every authmode.
Stopped(s, cert) == s.pin /\ ~cert.pinned

\* mbedtls_ssl_verify_certificate, and the certificate that did not come.
Verdict(role, s, cert) ==
    CASE ~cert.sent -> IF role = "server" /\ s.authmode # "REQUIRED" THEN "ok" ELSE "missing"
      [] cert.sent /\ s.authmode = "NONE" -> "ok"
      [] cert.sent /\ s.authmode # "NONE" /\ Stopped(s, cert) -> "fatal"
      [] cert.sent /\ s.authmode = "OPTIONAL" /\ ~Stopped(s, cert) -> "ok"
      [] cert.sent /\ s.authmode = "REQUIRED" /\ ~Stopped(s, cert) ->
            IF ~s.ca THEN "no_ca"
            ELSE IF Flags(s, cert) # {} THEN "verify_failed"
            ELSE IF ~cert.usable THEN "bad_certificate" ELSE "ok"

\* _tls_classify of that result, and TlsError.from_shim.
\* (mutants: the flags read whatever went wrong; a verdict that gets out as it is)
FlagsFirst(s, cert, verdict) ==
    IF "CN_MISMATCH" \in Flags(s, cert) THEN "HostnameMismatch"
    ELSE IF Flags(s, cert) # {} THEN "CertificateInvalid" ELSE "HandshakeFailure"
PassesOn(s, cert, verdict) ==
    IF verdict = "verify_failed" THEN "CertificateInvalid" ELSE verdict
ErrorOf(s, cert, verdict) ==
    IF verdict # "verify_failed" THEN "HandshakeFailure"
    ELSE IF "CN_MISMATCH" \in Flags(s, cert) THEN "HostnameMismatch"
    ELSE IF "EXPIRED" \in Flags(s, cert) THEN "CertificateExpired"
    ELSE "CertificateInvalid"

=============================================================================
