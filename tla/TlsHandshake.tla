---------------------------- MODULE TlsHandshake ----------------------------
(***************************************************************************)
(* The handshake state machines of mbedTLS that pump_handshake turns, for  *)
(* both ends and both versions: library/ssl_client.c, ssl_tls13_client.c,  *)
(* ssl_tls13_server.c, ssl_tls13_generic.c, ssl_tls12_client.c,            *)
(* ssl_tls12_server.c and the parts of ssl_tls.c and ssl_msg.c they share. *)
(* One action per handler of the two dispatch functions.  TlsStream.tla    *)
(* counts flights; here are the messages they consist of.                  *)
(*                                                                         *)
(* A record carries one message, under the keys it was sealed with.  A     *)
(* transcript is the sequence of messages hashed so far, and what a        *)
(* Finished or CertificateVerify binds is the transcript of its sender at  *)
(* that moment.  The bytes of a record move through the queues of          *)
(* TlsSession.tla and are left out: the wire is a queue of whole records.  *)
(***************************************************************************)
EXTENDS Naturals, Sequences

CONSTANTS
    Protocols,  \* the names ALPN lists are made of
    Setups      \* the configurations of the two ends that may meet

VARIABLES
    setup,   \* the one of this handshake
    ssl,     \* ssl[e]: the mbedtls_ssl_context of e
    wire,    \* wire[e]: records e has sent, not read by its peer
    flights  \* flights[e]: flights e has sent or taken (history)

vars == <<setup, ssl, wire, flights>>

Ends == {"client", "server"}
Other(e) == IF e = "client" THEN "server" ELSE "client"
Versions == {"tls12", "tls13"}
Keys == {"plain", "handshake", "app", "session"}
Authmodes == {"none", "optional", "required"}
Certificates == {"empty", "good", "bad"}  \* bad: does not verify

\* clientMax, serverMax: highest version offered (nova-tls: 1.3, so an end
\* below that is another build).  shareRefused: the group of the client's
\* first key share is not one the server takes.  rsa: a TLS 1.2 suite without
\* ServerKeyExchange.  ticket: a TLS 1.2 server of another build gives one.
\* alpn: the names of an end's list, none where it has no list.  A client with
\* pins is one that requires, and a wrong pin a certificate that is bad.
\* Suites, groups and signature algorithms are those of the library at either
\* end: nova-tls sets none, and there is always one in common.
Setup ==
    [ clientMax : Versions, serverMax : Versions, shareRefused : BOOLEAN,
      rsa : BOOLEAN, ticket : BOOLEAN, authmode : [Ends -> Authmodes],
      cert : [Ends -> Certificates], alpn : [Ends -> SUBSET Protocols] ]

ASSUME SetupAssumption == Setups \subseteq Setup

\* tls_server_new (tls_c_shim.c) makes no session of a server without a
\* certificate.
ASSUME ServerAssumption == \A s \in Setups : s.cert["server"] # "empty"

-----------------------------------------------------------------------------
(* States of each dispatch.  The TLS 1.2 handlers step with state++, so    *)
(* the order of the enumeration is the order of the protocol there.        *)

States12 ==
    << "SERVER_HELLO", "SERVER_CERTIFICATE", "SERVER_KEY_EXCHANGE",
       "CERTIFICATE_REQUEST", "SERVER_HELLO_DONE", "CLIENT_CERTIFICATE",
       "CLIENT_KEY_EXCHANGE", "CERTIFICATE_VERIFY",
       "CLIENT_CHANGE_CIPHER_SPEC", "CLIENT_FINISHED",
       "SERVER_CHANGE_CIPHER_SPEC", "SERVER_FINISHED", "FLUSH_BUFFERS",
       "HANDSHAKE_WRAPUP" >>

HelloStates == {"HELLO_REQUEST", "CLIENT_HELLO", "SERVER_HELLO", "HANDSHAKE_OVER"}

States ==
    [ client |->
        [ tls12 |-> HelloStates \union {"NEW_SESSION_TICKET"}
                    \union {States12[i] : i \in DOMAIN States12},
          tls13 |-> HelloStates \union
                    { "CLIENT_CCS_BEFORE_2ND_CLIENT_HELLO", "ENCRYPTED_EXTENSIONS",
                      "CERTIFICATE_REQUEST", "SERVER_CERTIFICATE", "CERTIFICATE_VERIFY",
                      "SERVER_FINISHED", "CLIENT_CCS_AFTER_SERVER_FINISHED",
                      "CLIENT_CERTIFICATE", "CLIENT_CERTIFICATE_VERIFY",
                      "CLIENT_FINISHED", "FLUSH_BUFFERS", "HANDSHAKE_WRAPUP" } ],
      server |->
        [ tls12 |-> HelloStates \union {States12[i] : i \in DOMAIN States12},
          tls13 |-> HelloStates \union
                    { "HELLO_RETRY_REQUEST", "SERVER_CCS_AFTER_HELLO_RETRY_REQUEST",
                      "SERVER_CCS_AFTER_SERVER_HELLO", "ENCRYPTED_EXTENSIONS",
                      "CERTIFICATE_REQUEST", "SERVER_CERTIFICATE", "CERTIFICATE_VERIFY",
                      "SERVER_FINISHED", "CLIENT_CERTIFICATE",
                      "CLIENT_CERTIFICATE_VERIFY", "CLIENT_FINISHED",
                      "HANDSHAKE_WRAPUP", "TLS1_3_NEW_SESSION_TICKET" } ] ]

\* ssl->state++
Following(state) ==
    States12[1 + CHOOSE i \in 1 .. Len(States12) - 1 : States12[i] = state]

-----------------------------------------------------------------------------
(* The context.  out: a record sealed but not flushed (out_left).  keep    *)
(* and msg: keep_current_message and the message it keeps.  checksum: the  *)
(* transcript.  clientAuth: client_auth, or certificate_request_sent.      *)
(* result: what the last handshake step returned, once it was an error.    *)

NoMessage == <<>>

NewContext(version) ==
    [ state |-> "HELLO_REQUEST", version |-> version, out |-> <<>>, keep |-> FALSE,
      msg |-> NoMessage, checksum |-> <<>>, inKey |-> "plain", outKey |-> "plain",
      clientAuth |-> FALSE, retried |-> FALSE, ccsSent |-> FALSE,
      peerCert |-> "empty", newTicket |-> FALSE, result |-> "running" ]

Bound == {"Finished", "CertificateVerify"}

\* mbedtls_ssl_write_record: seals a message under the outbound transform.
Seal(s, type, body) ==
    [ type |-> type, body |-> body, key |-> s.outKey,
      covers |-> IF type \in Bound THEN s.checksum ELSE <<>> ]

Hashed(s, type, body) == [s EXCEPT !.checksum = Append(@, <<type, body>>)]

\* mbedtls_ssl_reset_transcript_for_hrr: the first ClientHello is replaced by
\* its hash.
TranscriptReset(s) == [s EXCEPT !.checksum = << <<"message_hash", @[1][2]>> >>]

\* mbedtls_ssl_session_reset_msg_layer
LayerReset(s) == [s EXCEPT !.out = <<>>, !.keep = FALSE, !.msg = NoMessage,
                           !.inKey = "plain", !.outKey = "plain"]

\* The message that ends a flight: the peer has to answer it.
EndsFlight(type, body) ==
    \/ type \in {"ClientHello", "ServerHelloDone", "Finished"}
    \/ type = "ServerHello" /\ body = "retry"

Count(e, type, body) ==
    flights' = IF EndsFlight(type, body) THEN [flights EXCEPT ![e] = @ + 1] ELSE flights

Init ==
    /\ setup \in Setups
    /\ ssl = [client |-> NewContext(setup.clientMax), server |-> NewContext(setup.serverMax)]
    /\ wire = [e \in Ends |-> <<>>]
    /\ flights = [e \in Ends |-> 0]

-----------------------------------------------------------------------------
(* A handshake step: flush what the step before left, then run the handler *)
(* of the state.                                                           *)

Running(e) == ssl[e].result = "running" /\ ssl[e].state # "HANDSHAKE_OVER"

Flush(e) ==
    /\ Running(e)
    /\ ssl[e].out # <<>>
    /\ wire' = [wire EXCEPT ![e] = @ \o ssl[e].out]
    /\ ssl' = [ssl EXCEPT ![e].out = <<>>]
    /\ UNCHANGED <<setup, flights>>

At(e, version, state) ==
    /\ Running(e)
    /\ ssl[e].out = <<>>
    /\ ssl[e].version = version
    /\ ssl[e].state = state

\* A handler that only changes the context of e.
Become(e, s) ==
    /\ ssl' = [ssl EXCEPT ![e] = s]
    /\ UNCHANGED <<setup, wire, flights>>

Go(e, state) == Become(e, [ssl[e] EXCEPT !.state = state])

\* A handler that writes one message, with context s, and goes on to state.
\* TLS 1.3 handlers and ClientHello leave the record in out_left
\* (mbedtls_ssl_finish_handshake_msg), TLS 1.2 handlers flush it
\* (mbedtls_ssl_write_handshake_msg).
Write(e, s, type, body, state) ==
    LET hashed == IF type = "ChangeCipherSpec" THEN s ELSE Hashed(s, type, body)
        later  == s.version = "tls13" \/ type = "ClientHello"
        record == Seal(s, type, body)
    IN  /\ ssl' = [ssl EXCEPT ![e] =
                     [hashed EXCEPT !.state = state,
                                    !.out = IF later THEN Append(@, record) ELSE @]]
        /\ wire' = IF later THEN wire ELSE [wire EXCEPT ![e] = Append(@, record)]
        /\ Count(e, type, body)
        /\ UNCHANGED setup

-----------------------------------------------------------------------------
(* Reading: mbedtls_ssl_read_record.                                       *)

Has(e) == ssl[e].keep \/ wire[Other(e)] # <<>>
Got(e) == IF ssl[e].keep THEN ssl[e].msg ELSE Head(wire[Other(e)])

\* In TLS 1.3 a ChangeCipherSpec is read as plaintext and passed over.
Ignored(e, r) == r.type = "ChangeCipherSpec" /\ ssl[e].version = "tls13"

\* What the handler of a state takes; the empty set where it does not read.
\* A state that asks "is it a CertificateRequest?" takes any message.
AnyMessage ==
    { "ClientHello", "ServerHello", "EncryptedExtensions", "CertificateRequest",
      "Certificate", "CertificateVerify", "ServerKeyExchange", "ServerHelloDone",
      "ClientKeyExchange", "NewSessionTicket", "Finished" }

Takes12(e, state) ==
    CASE e = "client" /\ state = "SERVER_HELLO"        -> {"ServerHello"}
      [] e = "client" /\ state = "SERVER_CERTIFICATE"  -> {"Certificate"}
      [] e = "client" /\ state = "SERVER_KEY_EXCHANGE" ->
            IF setup.rsa THEN {} ELSE {"ServerKeyExchange"}
      [] e = "client" /\ state = "CERTIFICATE_REQUEST" -> AnyMessage
      [] e = "client" /\ state = "SERVER_HELLO_DONE"   -> {"ServerHelloDone"}
      [] e = "client" /\ state = "NEW_SESSION_TICKET"  -> {"NewSessionTicket"}
      [] e = "client" /\ state = "SERVER_CHANGE_CIPHER_SPEC" /\ ~ ssl[e].newTicket
            -> {"ChangeCipherSpec"}
      [] e = "client" /\ state = "SERVER_FINISHED"     -> {"Finished"}
      [] e = "server" /\ state = "CLIENT_HELLO"        -> {"ClientHello"}
      [] e = "server" /\ state = "CLIENT_CERTIFICATE"  ->
            IF setup.authmode[e] = "none" THEN {} ELSE {"Certificate"}
      [] e = "server" /\ state = "CLIENT_KEY_EXCHANGE" -> {"ClientKeyExchange"}
      [] e = "server" /\ state = "CERTIFICATE_VERIFY"  ->
            IF ssl[e].peerCert = "empty" THEN {} ELSE {"CertificateVerify"}
      [] e = "server" /\ state = "CLIENT_CHANGE_CIPHER_SPEC" -> {"ChangeCipherSpec"}
      [] e = "server" /\ state = "CLIENT_FINISHED"     -> {"Finished"}
      [] OTHER -> {}

Takes13(e, state) ==
    CASE e = "client" /\ state = "SERVER_HELLO"         -> {"ServerHello"}
      [] e = "client" /\ state = "ENCRYPTED_EXTENSIONS" -> {"EncryptedExtensions"}
      [] e = "client" /\ state = "CERTIFICATE_REQUEST"  -> AnyMessage
      [] e = "client" /\ state = "SERVER_CERTIFICATE"   -> {"Certificate"}
      [] e = "client" /\ state = "CERTIFICATE_VERIFY"   -> {"CertificateVerify"}
      [] e = "client" /\ state = "SERVER_FINISHED"      -> {"Finished"}
      [] e = "server" /\ state = "CLIENT_HELLO"         -> {"ClientHello"}
      [] e = "server" /\ state = "CLIENT_CERTIFICATE"   -> {"Certificate"}
      [] e = "server" /\ state = "CLIENT_CERTIFICATE_VERIFY" -> {"CertificateVerify"}
      [] e = "server" /\ state = "CLIENT_FINISHED"      -> {"Finished"}
      [] OTHER -> {}

Takes(e) == IF ssl[e].version = "tls12" THEN Takes12(e, ssl[e].state)
                                       ELSE Takes13(e, ssl[e].state)

\* The handler of this state reads a message it takes.
Reads(e, version, state) ==
    /\ At(e, version, state)
    /\ Has(e)
    /\ ~ Ignored(e, Got(e))
    /\ Got(e).key = ssl[e].inKey \/ ssl[e].keep
    /\ Got(e).type \in Takes(e)

Consumed(e) == IF ssl[e].keep THEN wire ELSE [wire EXCEPT ![Other(e)] = Tail(@)]

\* The context with the message read: hashed by the handler in TLS 1.3, and by
\* mbedtls_ssl_read_record in TLS 1.2, which does not hash a kept one again.
Hash13(e) == Hashed([ssl[e] EXCEPT !.keep = FALSE, !.msg = NoMessage], Got(e).type, Got(e).body)
\* (mutant: a kept message is hashed a second time)
KeptHashedAgain(e) == Hash13(e)
Hash12(e) == IF ssl[e].keep THEN [ssl[e] EXCEPT !.keep = FALSE, !.msg = NoMessage] ELSE Hash13(e)
Unhashed(e) == [ssl[e] EXCEPT !.keep = FALSE, !.msg = NoMessage]

\* The handler accepts the message and leaves context s, in state.
Accept(e, s, state) ==
    /\ ssl' = [ssl EXCEPT ![e] = [s EXCEPT !.state = state]]
    /\ wire' = Consumed(e)
    /\ Count(e, Got(e).type, Got(e).body)
    /\ UNCHANGED setup

\* The handler leaves the message for the next one (keep_current_message).
Keep(e, s, state) ==
    /\ ssl' = [ssl EXCEPT ![e] = [s EXCEPT !.state = state, !.keep = TRUE, !.msg = Got(e)]]
    /\ wire' = Consumed(e)
    /\ UNCHANGED <<setup, flights>>

\* The handshake ends in an error; alerts is what is sent of it.
Fail(e, reason, alerts) ==
    /\ ssl' = [ssl EXCEPT ![e].result = reason]
    /\ wire' = [Consumed(e) EXCEPT ![e] = @ \o alerts]
    /\ UNCHANGED <<setup, flights>>

FatalAlert(e) == << Seal(ssl[e], "alert", "fatal") >>
Refuse(e, reason) == Fail(e, reason, FatalAlert(e))
Quit(e, reason) == Fail(e, reason, <<>>)

\* A record that passes over, cannot be opened, or is not what the state takes.
\* (mutant: the record that is passed over stays the current one)
PassedOverNotConsumed(e) ==
    /\ Running(e) /\ ssl[e].out = <<>> /\ Takes(e) # {} /\ ~ ssl[e].keep
    /\ Has(e) /\ Ignored(e, Got(e))
    /\ UNCHANGED vars

IgnoreChangeCipherSpec(e) ==
    /\ Running(e) /\ ssl[e].out = <<>> /\ Takes(e) # {} /\ ~ ssl[e].keep
    /\ Has(e) /\ Ignored(e, Got(e))
    /\ wire' = Consumed(e)
    /\ UNCHANGED <<setup, ssl, flights>>

ReadFails(e) ==
    /\ Running(e) /\ ssl[e].out = <<>> /\ Takes(e) # {}
    /\ Has(e) /\ ~ Ignored(e, Got(e))
    /\ \/ ~ ssl[e].keep /\ Got(e).key # ssl[e].inKey
       \/ Got(e).type \notin Takes(e)
    /\ IF ~ ssl[e].keep /\ Got(e).key # ssl[e].inKey THEN Refuse(e, "bad_mac")
       ELSE IF Got(e).type = "alert" THEN Quit(e, "alert")
       ELSE IF ssl[e].version = "tls12" /\ ssl[e].state = "CERTIFICATE_VERIFY"
            THEN Quit(e, "unexpected")
       ELSE Refuse(e, "unexpected")

\* fill_from_tcp: the peer gave up and closed, and nothing of it is left.
PeerClosed(e) ==
    /\ Running(e) /\ ssl[e].out = <<>> /\ Takes(e) # {} /\ ~ Has(e)
    /\ ssl[Other(e)].result # "running"
    /\ ssl' = [ssl EXCEPT ![e].result = "eof"]
    /\ UNCHANGED <<setup, wire, flights>>

-----------------------------------------------------------------------------
(* Both versions.                                                          *)

hello_request(e, version) == At(e, version, "HELLO_REQUEST") /\ Go(e, "CLIENT_HELLO")

\* mbedtls_ssl_write_client_hello: the second one carries the share asked for.
ClientHelloBody ==
    IF setup.clientMax = "tls12" THEN "tls12"
    ELSE IF ssl["client"].retried THEN "tls13 again" ELSE "tls13"

write_client_hello(version) ==
    /\ At("client", version, "CLIENT_HELLO")
    /\ Write("client", ssl["client"], "ClientHello", ClientHelloBody, "SERVER_HELLO")

\* mbedtls_ssl_verify_certificate: does the certificate end the handshake?
Forgiven(e, cert) == cert = "good" \/ setup.authmode[e] \in {"none", "optional"}

\* mbedtls_ssl_parse_alpn_ext: does the ClientHello end the handshake?  A client
\* without a list sends no extension, a server without one ignores it.
NoCommonProtocol ==
    /\ \A e \in Ends : setup.alpn[e] # {}
    /\ setup.alpn["client"] \cap setup.alpn["server"] = {}

\* A Finished or a CertificateVerify of the peer, against the own transcript.
Binds(e) == Got(e).covers = ssl[e].checksum

-----------------------------------------------------------------------------
(* TLS 1.3, client.                                                        *)

\* (mutant: the handler goes on after it has fallen back)
FallsBackTooLate ==
    LET e == "client"
    IN  /\ Reads(e, "tls13", "SERVER_HELLO")
        /\ IF Got(e).body = "tls12"
           THEN Keep(e, [Hash13(e) EXCEPT !.version = "tls12"], "ENCRYPTED_EXTENSIONS")
           ELSE Accept(e, [Hash13(e) EXCEPT !.inKey = "handshake"], "ENCRYPTED_EXTENSIONS")

tls13_process_server_hello ==
    LET e == "client"
        body == Got(e).body
    IN  /\ Reads(e, "tls13", "SERVER_HELLO")
        /\ IF body = "tls12 downgraded" THEN Refuse(e, "downgrade")
           ELSE IF body = "tls12"
                THEN Keep(e, [Hash13(e) EXCEPT !.version = "tls12"], "SERVER_HELLO")
           ELSE IF body = "retry" /\ ssl[e].retried THEN Refuse(e, "unexpected")
           ELSE IF body = "retry"
                THEN Accept(e, LayerReset([Hashed(TranscriptReset(ssl[e]), "ServerHello", body)
                                             EXCEPT !.retried = TRUE]),
                            "CLIENT_CCS_BEFORE_2ND_CLIENT_HELLO")
           ELSE Accept(e, [Hash13(e) EXCEPT !.inKey = "handshake"], "ENCRYPTED_EXTENSIONS")

\* mbedtls_ssl_tls13_write_change_cipher_spec: only once in a handshake.
tls13_write_change_cipher_spec(e, state, next) ==
    /\ At(e, "tls13", state)
    /\ IF ssl[e].ccsSent THEN Go(e, next)
       ELSE Write(e, [ssl[e] EXCEPT !.ccsSent = TRUE], "ChangeCipherSpec", "", next)

tls13_process_encrypted_extensions ==
    /\ Reads("client", "tls13", "ENCRYPTED_EXTENSIONS")
    /\ Accept("client", Hash13("client"), "CERTIFICATE_REQUEST")

tls13_process_certificate_request ==
    LET e == "client"
    IN  /\ Reads(e, "tls13", "CERTIFICATE_REQUEST")
        /\ IF Got(e).type = "CertificateRequest"
           THEN Accept(e, [Hash13(e) EXCEPT !.clientAuth = TRUE], "SERVER_CERTIFICATE")
           ELSE Keep(e, ssl[e], "SERVER_CERTIFICATE")

\* (mutant: no certificate is nothing to verify)
NothingToVerify(e, state, next) ==
    LET cert == Got(e).body
    IN  /\ Reads(e, "tls13", state)
        /\ IF cert # "empty" /\ ~ Forgiven(e, cert) THEN Refuse(e, "bad_certificate")
           ELSE Accept(e, [Hash13(e) EXCEPT !.peerCert = cert],
                       IF cert = "empty" THEN "CLIENT_FINISHED" ELSE next)

\* mbedtls_ssl_tls13_process_certificate
tls13_process_certificate(e, state, next) ==
    LET cert == Got(e).body
        missing == cert = "empty"
    IN  /\ Reads(e, "tls13", state)
        /\ IF missing /\ (e = "client" \/ setup.authmode[e] # "optional")
           THEN Refuse(e, "no_certificate")
           ELSE IF ~ missing /\ ~ Forgiven(e, cert) THEN Refuse(e, "bad_certificate")
           ELSE Accept(e, [Hash13(e) EXCEPT !.peerCert = cert],
                       IF missing THEN "CLIENT_FINISHED" ELSE next)

tls13_process_certificate_verify(e, state, next) ==
    /\ Reads(e, "tls13", state)
    /\ IF Binds(e) THEN Accept(e, Hash13(e), next) ELSE Refuse(e, "bad_signature")

tls13_process_server_finished ==
    LET e == "client"
    IN  /\ Reads(e, "tls13", "SERVER_FINISHED")
        /\ IF Binds(e) THEN Accept(e, Hash13(e), "CLIENT_CCS_AFTER_SERVER_FINISHED")
           ELSE Refuse(e, "bad_finished")

tls13_write_client_certificate ==
    LET e == "client"
        s == [ssl[e] EXCEPT !.outKey = "handshake"]
        next == IF s.clientAuth /\ setup.cert[e] # "empty"
                THEN "CLIENT_CERTIFICATE_VERIFY" ELSE "CLIENT_FINISHED"
    IN  /\ At(e, "tls13", "CLIENT_CERTIFICATE")
        /\ IF s.clientAuth THEN Write(e, s, "Certificate", setup.cert[e], next)
           ELSE Become(e, [s EXCEPT !.state = next])

tls13_write_certificate_verify(e, state, next) ==
    /\ At(e, "tls13", state)
    /\ Write(e, ssl[e], "CertificateVerify", e, next)

tls13_write_client_finished ==
    /\ At("client", "tls13", "CLIENT_FINISHED")
    /\ Write("client", ssl["client"], "Finished", "client", "FLUSH_BUFFERS")

tls13_flush_buffers ==
    /\ At("client", "tls13", "FLUSH_BUFFERS")
    /\ Go("client", "HANDSHAKE_WRAPUP")

\* (mutant: application keys in one direction only)
OutboundOnly(e) ==
    /\ At(e, "tls13", "HANDSHAKE_WRAPUP")
    /\ Become(e, [ssl[e] EXCEPT !.outKey = "app",
                     !.state = IF e = "client" THEN "HANDSHAKE_OVER"
                               ELSE "TLS1_3_NEW_SESSION_TICKET"])

\* mbedtls_ssl_tls13_handshake_wrapup; the server goes on to its tickets, of
\* which nova-tls configures none.
tls13_handshake_wrapup(e) ==
    /\ At(e, "tls13", "HANDSHAKE_WRAPUP")
    /\ Become(e, [ssl[e] EXCEPT !.inKey = "app", !.outKey = "app",
                     !.state = IF e = "client" THEN "HANDSHAKE_OVER"
                               ELSE "TLS1_3_NEW_SESSION_TICKET"])

-----------------------------------------------------------------------------
(* TLS 1.3, server.                                                        *)

tls13_process_client_hello ==
    LET e == "server"
        body == Got(e).body
    IN  /\ Reads(e, "tls13", "CLIENT_HELLO")
        /\ IF body = "tls12"
           THEN Keep(e, [ssl[e] EXCEPT !.version = "tls12"], "CLIENT_HELLO")
           ELSE IF NoCommonProtocol THEN Refuse(e, "no_application_protocol")
           ELSE Accept(e, Hash13(e), IF setup.shareRefused /\ body = "tls13"
                                     THEN "HELLO_RETRY_REQUEST" ELSE "SERVER_HELLO")

tls13_write_hello_retry_request ==
    LET e == "server"
        s == [LayerReset(TranscriptReset(ssl[e])) EXCEPT !.retried = TRUE]
    IN  /\ At(e, "tls13", "HELLO_RETRY_REQUEST")
        /\ IF ssl[e].retried
           THEN /\ ssl' = [ssl EXCEPT ![e].result = "unexpected"]
                /\ wire' = [wire EXCEPT ![e] = @ \o FatalAlert(e)]
                /\ UNCHANGED <<setup, flights>>
           ELSE Write(e, s, "ServerHello", "retry", "SERVER_CCS_AFTER_HELLO_RETRY_REQUEST")

tls13_write_server_hello ==
    /\ At("server", "tls13", "SERVER_HELLO")
    /\ Write("server", ssl["server"], "ServerHello", "tls13", "SERVER_CCS_AFTER_SERVER_HELLO")

tls13_write_encrypted_extensions ==
    LET s == [ssl["server"] EXCEPT !.outKey = "handshake"]
    IN  /\ At("server", "tls13", "ENCRYPTED_EXTENSIONS")
        /\ Write("server", s, "EncryptedExtensions", "", "CERTIFICATE_REQUEST")

tls13_write_certificate_request ==
    LET e == "server"
        s == [ssl[e] EXCEPT !.clientAuth = TRUE]
    IN  /\ At(e, "tls13", "CERTIFICATE_REQUEST")
        /\ IF setup.authmode[e] = "none" THEN Go(e, "SERVER_CERTIFICATE")
           ELSE Write(e, s, "CertificateRequest", "", "SERVER_CERTIFICATE")

tls13_write_server_certificate ==
    /\ At("server", "tls13", "SERVER_CERTIFICATE")
    /\ Write("server", ssl["server"], "Certificate", setup.cert["server"], "CERTIFICATE_VERIFY")

tls13_write_server_finished ==
    LET s == [ssl["server"] EXCEPT !.inKey = "handshake"]
    IN  /\ At("server", "tls13", "SERVER_FINISHED")
        /\ Write("server", s, "Finished", "server",
                 IF s.clientAuth THEN "CLIENT_CERTIFICATE" ELSE "CLIENT_FINISHED")

tls13_process_client_finished ==
    LET e == "server"
    IN  /\ Reads(e, "tls13", "CLIENT_FINISHED")
        /\ IF Binds(e) THEN Accept(e, Hash13(e), "HANDSHAKE_WRAPUP")
           ELSE Refuse(e, "bad_finished")

\* (mutant: over with the ticket still in out_left)
TicketNotFlushed ==
    /\ At("server", "tls13", "TLS1_3_NEW_SESSION_TICKET")
    /\ Write("server", ssl["server"], "NewSessionTicket", "", "HANDSHAKE_OVER")

tls13_write_new_session_ticket ==
    /\ At("server", "tls13", "TLS1_3_NEW_SESSION_TICKET")
    /\ Go("server", "HANDSHAKE_OVER")

-----------------------------------------------------------------------------
(* TLS 1.2: handlers of both ends.                                         *)

\* A handler that has nothing to do in this handshake.
Skip12(e, state, idle) == At(e, "tls12", state) /\ idle /\ Go(e, Following(state))

Write12(e, state, type, body) ==
    /\ At(e, "tls12", state)
    /\ Write(e, ssl[e], type, body, Following(state))

\* mbedtls_ssl_write_change_cipher_spec
tls12_write_change_cipher_spec(e, state) ==
    /\ e = "server" => ~ ssl[e].newTicket
    /\ Write12(e, state, "ChangeCipherSpec", "")

\* (mutant: the client does not wait for the server's Finished)
FalseStart(e, state) ==
    /\ Reads(e, "tls12", state)
    /\ Accept(e, [Unhashed(e) EXCEPT !.inKey = "session"],
              IF e = "client" THEN "FLUSH_BUFFERS" ELSE Following(state))

\* mbedtls_ssl_parse_change_cipher_spec
tls12_parse_change_cipher_spec(e, state) ==
    /\ Reads(e, "tls12", state)
    /\ Accept(e, [Unhashed(e) EXCEPT !.inKey = "session"], Following(state))

\* mbedtls_ssl_write_finished: the keys change before the record is sealed.
tls12_write_finished(e, state) ==
    /\ At(e, "tls12", state)
    /\ Write(e, [ssl[e] EXCEPT !.outKey = "session"], "Finished", e, Following(state))

\* mbedtls_ssl_parse_finished
tls12_parse_finished(e, state) ==
    /\ Reads(e, "tls12", state)
    /\ IF Binds(e) THEN Accept(e, Hash12(e), Following(state)) ELSE Refuse(e, "bad_finished")

\* mbedtls_ssl_parse_certificate: an empty chain is too short a message, but
\* where the server may do without one not worth an alert.
tls12_parse_certificate(e, state) ==
    LET cert == Got(e).body
        missing == cert = "empty"
    IN  /\ Reads(e, "tls12", state)
        /\ IF missing /\ e = "client" THEN Refuse(e, "no_certificate")
           ELSE IF missing /\ setup.authmode[e] # "optional" THEN Quit(e, "no_certificate")
           ELSE IF ~ missing /\ ~ Forgiven(e, cert) THEN Refuse(e, "bad_certificate")
           ELSE Accept(e, [Hash12(e) EXCEPT !.peerCert = cert], Following(state))

\* MBEDTLS_SSL_FLUSH_BUFFERS, mbedtls_ssl_handshake_wrapup
tls12_wrapup(e) ==
    \/ At(e, "tls12", "FLUSH_BUFFERS") /\ Go(e, "HANDSHAKE_WRAPUP")
    \/ At(e, "tls12", "HANDSHAKE_WRAPUP") /\ Go(e, "HANDSHAKE_OVER")

-----------------------------------------------------------------------------
(* TLS 1.2, client.                                                        *)

tls12_parse_server_hello ==
    LET e == "client"
    IN  /\ Reads(e, "tls12", "SERVER_HELLO")
        /\ Accept(e, [Hash12(e) EXCEPT !.newTicket = setup.ticket], "SERVER_CERTIFICATE")

tls12_parse_server_key_exchange ==
    LET e == "client"
    IN  \/ Skip12(e, "SERVER_KEY_EXCHANGE", setup.rsa)
        \/ /\ Reads(e, "tls12", "SERVER_KEY_EXCHANGE")
           /\ Accept(e, Hash12(e), "CERTIFICATE_REQUEST")

\* Any other message is hashed as it is read, then kept for the next state.
tls12_parse_certificate_request ==
    LET e == "client"
    IN  /\ Reads(e, "tls12", "CERTIFICATE_REQUEST")
        /\ IF Got(e).type = "CertificateRequest"
           THEN Accept(e, [Hash12(e) EXCEPT !.clientAuth = TRUE], "SERVER_HELLO_DONE")
           ELSE Keep(e, Hash12(e), "SERVER_HELLO_DONE")

tls12_parse_server_hello_done ==
    /\ Reads("client", "tls12", "SERVER_HELLO_DONE")
    /\ Accept("client", Hash12("client"), "CLIENT_CERTIFICATE")

tls12_write_client_certificate ==
    LET e == "client"
    IN  \/ Skip12(e, "CLIENT_CERTIFICATE", ~ ssl[e].clientAuth)
        \/ ssl[e].clientAuth /\ Write12(e, "CLIENT_CERTIFICATE", "Certificate", setup.cert[e])

tls12_write_client_key_exchange ==
    Write12("client", "CLIENT_KEY_EXCHANGE", "ClientKeyExchange", "")

tls12_write_certificate_verify ==
    LET e == "client"
        signs == ssl[e].clientAuth /\ setup.cert[e] # "empty"
    IN  \/ Skip12(e, "CERTIFICATE_VERIFY", ~ signs)
        \/ signs /\ Write12(e, "CERTIFICATE_VERIFY", "CertificateVerify", e)

\* mbedtls_ssl_handshake_client_step: where a ticket is awaited, the state in
\* front of the server's ChangeCipherSpec is another one.
tls12_await_ticket ==
    /\ At("client", "tls12", "SERVER_CHANGE_CIPHER_SPEC")
    /\ ssl["client"].newTicket
    /\ Go("client", "NEW_SESSION_TICKET")

tls12_parse_new_session_ticket ==
    LET e == "client"
    IN  /\ Reads(e, "tls12", "NEW_SESSION_TICKET")
        /\ Accept(e, [Hash12(e) EXCEPT !.newTicket = FALSE], "SERVER_CHANGE_CIPHER_SPEC")

-----------------------------------------------------------------------------
(* TLS 1.2, server.                                                        *)

\* Hashes the ClientHello itself, whether it was kept by the TLS 1.3 code or not.
tls12_parse_client_hello ==
    LET e == "server"
    IN  /\ Reads(e, "tls12", "CLIENT_HELLO")
        /\ IF NoCommonProtocol THEN Refuse(e, "no_application_protocol")
           ELSE Accept(e, Hash13(e), "SERVER_HELLO")

\* A server that has TLS 1.3 marks the downgrade in its random.
tls12_write_server_hello ==
    LET e == "server"
        body == IF setup.serverMax = "tls13" THEN "tls12 downgraded" ELSE "tls12"
    IN  /\ At(e, "tls12", "SERVER_HELLO")
        /\ Write(e, [ssl[e] EXCEPT !.newTicket = setup.ticket], "ServerHello", body,
                 "SERVER_CERTIFICATE")

tls12_write_server_certificate ==
    Write12("server", "SERVER_CERTIFICATE", "Certificate", setup.cert["server"])

tls12_write_server_key_exchange ==
    \/ Skip12("server", "SERVER_KEY_EXCHANGE", setup.rsa)
    \/ ~ setup.rsa /\ Write12("server", "SERVER_KEY_EXCHANGE", "ServerKeyExchange", "")

tls12_write_certificate_request ==
    LET asks == setup.authmode["server"] # "none"
    IN  \/ Skip12("server", "CERTIFICATE_REQUEST", ~ asks)
        \/ asks /\ Write12("server", "CERTIFICATE_REQUEST", "CertificateRequest", "")

tls12_write_server_hello_done ==
    Write12("server", "SERVER_HELLO_DONE", "ServerHelloDone", "")

tls12_skip_certificate ==
    Skip12("server", "CLIENT_CERTIFICATE", setup.authmode["server"] = "none")

tls12_parse_client_key_exchange ==
    /\ Reads("server", "tls12", "CLIENT_KEY_EXCHANGE")
    /\ Accept("server", Hash12("server"), "CERTIFICATE_VERIFY")

\* The signature covers what came before it: read without hashing, hash after.
tls12_parse_certificate_verify ==
    LET e == "server"
    IN  \/ Skip12(e, "CERTIFICATE_VERIFY", ssl[e].peerCert = "empty")
        \/ /\ Reads(e, "tls12", "CERTIFICATE_VERIFY")
           /\ IF Binds(e) THEN Accept(e, Hash13(e), "CLIENT_CHANGE_CIPHER_SPEC")
              ELSE Quit(e, "bad_signature")

\* ssl_write_new_session_ticket shares the state with ChangeCipherSpec.
tls12_write_new_session_ticket ==
    LET e == "server"
        state == "SERVER_CHANGE_CIPHER_SPEC"
    IN  /\ At(e, "tls12", state)
        /\ ssl[e].newTicket
        /\ Write(e, [ssl[e] EXCEPT !.newTicket = FALSE], "NewSessionTicket", "", state)

-----------------------------------------------------------------------------
(* mbedtls_ssl_handshake_step and its four dispatch functions.             *)

Step(e) ==
    \/ Flush(e)
    \/ \E version \in Versions : hello_request(e, version)
    \/ IgnoreChangeCipherSpec(e)
    \/ ReadFails(e)
    \/ PeerClosed(e)
    \/ tls13_handshake_wrapup(e)
    \/ tls12_wrapup(e)

Client13 ==
    \/ write_client_hello("tls13")
    \/ tls13_process_server_hello
    \/ tls13_process_encrypted_extensions
    \/ tls13_process_certificate_request
    \/ tls13_process_certificate("client", "SERVER_CERTIFICATE", "CERTIFICATE_VERIFY")
    \/ tls13_process_certificate_verify("client", "CERTIFICATE_VERIFY", "SERVER_FINISHED")
    \/ tls13_process_server_finished
    \/ tls13_write_client_certificate
    \/ tls13_write_certificate_verify("client", "CLIENT_CERTIFICATE_VERIFY", "CLIENT_FINISHED")
    \/ tls13_write_client_finished
    \/ tls13_flush_buffers
    \/ tls13_write_change_cipher_spec("client", "CLIENT_CCS_BEFORE_2ND_CLIENT_HELLO",
                                      "CLIENT_HELLO")
    \/ tls13_write_change_cipher_spec("client", "CLIENT_CCS_AFTER_SERVER_FINISHED",
                                      "CLIENT_CERTIFICATE")

Server13 ==
    \/ tls13_process_client_hello
    \/ tls13_write_hello_retry_request
    \/ tls13_write_server_hello
    \/ tls13_write_encrypted_extensions
    \/ tls13_write_certificate_request
    \/ tls13_write_server_certificate
    \/ tls13_write_certificate_verify("server", "CERTIFICATE_VERIFY", "SERVER_FINISHED")
    \/ tls13_write_server_finished
    \/ tls13_process_certificate("server", "CLIENT_CERTIFICATE", "CLIENT_CERTIFICATE_VERIFY")
    \/ tls13_process_certificate_verify("server", "CLIENT_CERTIFICATE_VERIFY", "CLIENT_FINISHED")
    \/ tls13_process_client_finished
    \/ tls13_write_new_session_ticket
    \/ tls13_write_change_cipher_spec("server", "SERVER_CCS_AFTER_HELLO_RETRY_REQUEST",
                                      "CLIENT_HELLO")
    \/ tls13_write_change_cipher_spec("server", "SERVER_CCS_AFTER_SERVER_HELLO",
                                      "ENCRYPTED_EXTENSIONS")

Client12 ==
    \/ write_client_hello("tls12")
    \/ tls12_parse_server_hello
    \/ tls12_parse_certificate("client", "SERVER_CERTIFICATE")
    \/ tls12_parse_server_key_exchange
    \/ tls12_parse_certificate_request
    \/ tls12_parse_server_hello_done
    \/ tls12_write_client_certificate
    \/ tls12_write_client_key_exchange
    \/ tls12_write_certificate_verify
    \/ tls12_write_change_cipher_spec("client", "CLIENT_CHANGE_CIPHER_SPEC")
    \/ tls12_write_finished("client", "CLIENT_FINISHED")
    \/ tls12_await_ticket
    \/ tls12_parse_new_session_ticket
    \/ tls12_parse_change_cipher_spec("client", "SERVER_CHANGE_CIPHER_SPEC")
    \/ tls12_parse_finished("client", "SERVER_FINISHED")

Server12 ==
    \/ tls12_parse_client_hello
    \/ tls12_write_server_hello
    \/ tls12_write_server_certificate
    \/ tls12_write_server_key_exchange
    \/ tls12_write_certificate_request
    \/ tls12_write_server_hello_done
    \/ tls12_skip_certificate
    \/ tls12_parse_certificate("server", "CLIENT_CERTIFICATE")
    \/ tls12_parse_client_key_exchange
    \/ tls12_parse_certificate_verify
    \/ tls12_parse_change_cipher_spec("server", "CLIENT_CHANGE_CIPHER_SPEC")
    \/ tls12_parse_finished("server", "CLIENT_FINISHED")
    \/ tls12_write_new_session_ticket
    \/ tls12_write_change_cipher_spec("server", "SERVER_CHANGE_CIPHER_SPEC")
    \/ tls12_write_finished("server", "SERVER_FINISHED")

ClientStep == Step("client") \/ Client13 \/ Client12
ServerStep == Step("server") \/ Server13 \/ Server12

\* Both ends are through: nothing is left to do, which is no deadlock.
Terminated == (\A e \in Ends : ~ Running(e)) /\ UNCHANGED vars

Next == ClientStep \/ ServerStep \/ Terminated

Spec == Init /\ [][Next]_vars

\* pump_handshake steps the session as long as it can, on either side.
FairSpec == Spec /\ WF_vars(ClientStep) /\ WF_vars(ServerStep)

-----------------------------------------------------------------------------
Results == { "running", "alert", "bad_mac", "eof", "unexpected", "downgrade",
             "bad_certificate", "no_certificate", "bad_signature", "bad_finished",
             "no_application_protocol" }

\* Every context is one the code can be in; above all, its state is one the
\* dispatch function of its side and version has a case for, although it may
\* have changed the dispatch function on the way and steps with state++
\* (ssl_tls13_process_client_hello, ssl_tls13_preprocess_server_hello).
TypeOK ==
    /\ setup \in Setups
    /\ \A e \in Ends :
        /\ ssl[e].version \in Versions
        /\ ssl[e].state \in States[e][ssl[e].version]
        /\ {ssl[e].inKey, ssl[e].outKey} \subseteq Keys
        /\ ssl[e].peerCert \in Certificates
        /\ ssl[e].result \in Results
        /\ Len(ssl[e].out) <= 1
        /\ flights[e] \in Nat

Over(e) == ssl[e].state = "HANDSHAKE_OVER"

\* Is the certificate of the peer one e refuses?  (configurations only)
Asks(e) == e = "client" \/ setup.authmode[e] # "none"
Unacceptable(e) == Asks(e) /\ setup.authmode[e] = "required" /\ setup.cert[Other(e)] # "good"

\* The two things an end refuses, and what in the configurations explains it.
Refusals == {"bad_certificate", "no_certificate", "no_application_protocol"}
Refused(e) == ssl[e].result \in Refusals
Explained(e, reason) ==
    IF reason = "no_application_protocol" THEN e = "server" /\ NoCommonProtocol
    ELSE Unacceptable(e)

\* Two ends of this code fail for one of two causes: an end requires a
\* certificate that verifies and the other has none, or both have lists of
\* application protocols without a common name.  Whatever else a step may
\* return, for a transcript, a key, a message out of order or the end of the
\* stream, is only ever a consequence of that refusal.
FailsOnlyByRefusal ==
    \A e \in Ends :
        /\ Refused(e) => Explained(e, ssl[e].result)
        /\ ssl[e].result \in {"alert", "bad_mac", "eof"} => Refused(Other(e))
        /\ ssl[e].result \notin
             {"unexpected", "downgrade", "bad_signature", "bad_finished"}

\* An end whose handshake is over has flushed its last message, keeps none for
\* a handler that will not run again, and, when both are, nothing of the
\* handshake is left where the first mbedtls_ssl_read would find it.
NothingLeftWhenOver ==
    /\ \A e \in Ends : Over(e) => ssl[e].out = <<>> /\ ~ ssl[e].keep
    /\ (\A e \in Ends : Over(e)) => (\A e \in Ends : wire[e] = <<>>)

\* Ends that are both over agree on version (1.3 if both have it), on the keys
\* of either direction, on whether the client was asked to authenticate, and
\* on every message of the handshake.
AgreeWhenOver ==
    LET c == ssl["client"]
        s == ssl["server"]
    IN  (\A e \in Ends : Over(e)) =>
            /\ c.version = s.version
            /\ c.version = "tls13" <=> (setup.clientMax = "tls13" /\ setup.serverMax = "tls13")
            /\ c.outKey = s.inKey /\ s.outKey = c.inKey /\ c.outKey # "plain"
            /\ c.clientAuth <=> setup.authmode["server"] # "none"
            /\ c.checksum = s.checksum

\* An end that requires authentication is over only when its peer has shown a
\* certificate that verifies and proved to hold its key: by a signature over
\* the transcript, or, the server of TLS 1.2, by the key exchange.
Proved(e) ==
    \/ ssl[e].version = "tls12" /\ e = "client"
    \/ \E i \in DOMAIN ssl[e].checksum : ssl[e].checksum[i] = <<"CertificateVerify", Other(e)>>

AuthenticatedWhenOver ==
    \A e \in Ends : Over(e) /\ setup.authmode[e] = "required" =>
        ssl[e].peerCert = "good" /\ Proved(e)

\* The handshake comes to an end on both sides, whatever the configurations,
\* without a timeout: an end that fails takes the other one with it, and both
\* are over just when no certificate and no list of protocols was to be refused
\* (connect, accept).
BothEnd ==
    <>(/\ \A e \in Ends : ~ Running(e)
       /\ (\A e \in Ends : Over(e)) <=>
            (~ NoCommonProtocol /\ \A e \in Ends : ~ Unacceptable(e)))

\* Seen from outside the messages are flights that alternate: the description
\* TlsStream.tla rests on, with 3 flights in TLS 1.3, 5 when the client has to
\* send its hello again, and 4 in TLS 1.2.
Total ==
    IF setup.clientMax = "tls12" \/ setup.serverMax = "tls12" THEN 4
    ELSE IF setup.shareRefused THEN 5 ELSE 3

Flights ==
    INSTANCE HandshakeFlights
        WITH total <- Total,
             count <- flights,
             status <- [e \in Ends |-> IF ssl[e].result # "running" THEN "failed"
                                       ELSE IF Over(e) THEN "over" ELSE "running"]

ImplementsFlights == Flights!Spec

=============================================================================
