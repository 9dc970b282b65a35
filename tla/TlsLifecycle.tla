---------------------------- MODULE TlsLifecycle ----------------------------
(***************************************************************************)
(* One call of TlsStream.connect (client.nv) or TlsStream.accept           *)
(* (server.nv) from its first line to the @close of the stream it returns: *)
(* the socket it was given, the config builder, the session under          *)
(* construction, and what each of them owns.  Any allocation may fail, in  *)
(* the shim and inside mbedTLS.                                            *)
(* The exchange inside pump_handshake is one step here; TlsStream has it.  *)
(***************************************************************************)
EXTENDS TlsVerify, Sequences

CONSTANT MaxAlpn   \* bound: protocol names in a configuration

ASSUME LifecycleAssumption == MaxAlpn \in Nat

\* An argument is what the checks in the code tell apart.  "none" and
\* "keyless": no certificate, one without its key.  "long": mbedTLS refuses it.
Material == {"missing", "malformed", "good"}
AlpnList == UNION { [1 .. n -> {"empty", "long", "fine"}] : n \in 0 .. MaxAlpn }
Config ==
    [ role : {"client", "server"}, mode : VerificationMode \cup ClientCertMode,
      name : {"empty", "invalid", "valid"}, material : Material,
      certs : {"none", "keyless", "bad", "good"}, alpn : AlpnList ]
NeedsMaterial == {"CustomRoots", "Pinned", "Optional", "Required"}
ClientConfig ==
    { c \in Config : c.role = "client" /\ c.mode \in VerificationMode
                     /\ (c.mode \notin NeedsMaterial => c.material = "missing") }
ServerConfig ==
    { c \in Config : c.role = "server" /\ c.mode \in ClientCertMode /\ c.name = "valid"
                     /\ (c.mode \notin NeedsMaterial => c.material = "missing") }

\* What is allocated, and who keeps the pointer to it.
Holder == {"call", "builder", "session", "stream"}
Parts == {"roots", "pins", "alpn", "certs", "auth_roots", "session_pins"}
Object == {"socket", "builder", "session", "sni"} \cup Parts

VARIABLES
    pc,        \* the next statement
    config,    \* ClientConfig or ServerConfig
    live,      \* objects allocated, or open, and not yet released
    stray,     \* objects that were released when they were not live
    holds,     \* holds[h]: objects h has a pointer to and must release
    added,     \* ALPN names the builder has
    settings,  \* what mbedTLS was told
    err,       \* rc and err_code of tls_client_new, tls_server_new
    peer,      \* the peer's certificate, once seen
    result     \* what the call returned

vars == << pc, config, live, stray, holds, added, settings, err, peer, result >>
Memory == << live, stray, holds >>

Client == config.role = "client"

Building == {"builder_new", "verify", "auth", "alpn", "cert", "new"}
Constructing == {"setup", "trust", "move_alpn", "own_cert", "client_ca", "ssl_setup", "discard"}
PC == {"arguments", "pump", "open", "closed", "failed"} \cup Building \cup Constructing

SetupError == {"Internal", "InvalidPem", "InvalidServerName", "AlpnNoCommonProtocol"}
CertificateError == {"HostnameMismatch", "CertificateExpired", "CertificateInvalid"}
Error == SetupError \cup CertificateError
         \cup {"HandshakeFailure", "UnsupportedProtocolVersion", "Net"}

\* Types.
TypeOK ==
    /\ pc \in PC
    /\ config \in ClientConfig \cup ServerConfig
    /\ live \subseteq Object /\ stray \subseteq Object
    /\ holds \in [Holder -> SUBSET Object]
    /\ added \in 0 .. Len(config.alpn)
    /\ settings \in Settings
    /\ err \in SetupError \cup {"none"}
    /\ peer \in Certificate
    /\ result \in Error \cup {"none", "ok"}

Init ==
    /\ pc = "arguments"
    /\ config \in ClientConfig \cup ServerConfig
    /\ live = {"socket"}
    /\ stray = {}
    /\ holds = [h \in Holder |-> IF h = "call" THEN {"socket"} ELSE {}]
    /\ added = 0
    /\ settings = Defaults(config.role)
    /\ err = "none"
    /\ peer = NoCertificate
    /\ result = "none"

-----------------------------------------------------------------------------
(* Memory.                                                                 *)

Grab(h, objects) ==
    /\ live' = live \cup objects
    /\ UNCHANGED stray
    /\ holds' = [holds EXCEPT ![h] = @ \cup objects]

\* h gives up objects, and every one of them releases what it holds.
Gone(objects) == objects \cup UNION { holds[o] : o \in objects \cap Holder }
Free(h, objects) ==
    /\ live' = live \ Gone(objects)
    /\ stray' = stray \cup (Gone(objects) \ live)
    /\ holds' = [g \in Holder |-> IF g \in objects THEN {}
                                  ELSE IF g = h THEN holds[g] \ objects ELSE holds[g]]

\* (mutant: the builder keeps its pointer)
CopyPointer(o, from, to) == [holds EXCEPT ![to] = @ \cup {o}]
Moved(o, from, to) == [holds EXCEPT ![from] = @ \ {o}, ![to] = @ \cup {o}]

\* What tls_client_new and tls_server_new release on every path.
Temporaries == IF Client THEN {"builder", "sni"} ELSE {"builder"}

Goto(place) == pc' = place /\ UNCHANGED << err, result >>

\* `return Err(error)`: the consume scope closes the socket.
Fail(objects, error) ==
    /\ Free("call", objects \cup {"socket"})
    /\ pc' = "failed"
    /\ result' = error
    /\ UNCHANGED << added, settings, err >>

\* An error of a builder function: tls_cfg_free, then return.
\* (mutant: return without it)
ForgetBuilder(error) == Fail({}, error)
Abandon(error) == Fail({"builder"}, error)

-----------------------------------------------------------------------------
(* build_client_cfg and build_server_cfg.                                  *)

CheckArguments ==
    /\ pc = "arguments"
    /\ \/ Client /\ config.name = "empty" /\ Fail({}, "InvalidServerName")
       \/ ~Client /\ config.certs \in {"none", "keyless"} /\ Fail({}, "InvalidPem")
       \/ /\ IF Client THEN config.name # "empty" ELSE config.certs \in {"bad", "good"}
          /\ Goto("builder_new")
          /\ UNCHANGED << Memory, added, settings >>

CfgNew ==
    /\ pc = "builder_new"
    /\ \/ Fail({}, "Internal")
       \/ /\ Grab("call", {"builder"})
          /\ Goto(IF Client THEN "verify" ELSE "cert")
          /\ UNCHANGED << added, settings >>

\* The builder gets a copy of what it was given, or there is no room for it.
Copy(objects, place) ==
    /\ \/ Abandon("Internal")
       \/ /\ Grab("builder", objects)
          /\ Goto(place)
          /\ UNCHANGED << added, settings >>

\* tls_cfg_verify_*, after the checks on the pins.
SetVerification ==
    /\ pc = "verify"
    /\ \/ /\ config.mode = "Pinned" /\ config.material # "good"
          /\ Abandon("Internal")
       \/ config.mode = "Pinned" /\ config.material = "good" /\ Copy({"pins"}, "alpn")
       \/ config.mode = "CustomRoots" /\ Copy({"roots"}, "alpn")
       \/ /\ config.mode \in {"SystemRoots", "InsecureSkipVerify"}
          /\ Goto("alpn") /\ UNCHANGED << Memory, added, settings >>

\* The loop over tls_cfg_alpn_add.
\* (mutant: it stops one short)
StopsShort == added + 1 >= Len(config.alpn)
AllAdded == added = Len(config.alpn)

AlpnAdd ==
    /\ pc = "alpn" /\ ~AllAdded
    /\ \/ Abandon("Internal")
       \/ /\ config.alpn[added + 1] # "empty"
          /\ Grab("builder", {"alpn"})
          /\ added' = added + 1
          /\ Goto("alpn")
          /\ UNCHANGED settings

AlpnAdded ==
    /\ pc = "alpn" /\ AllAdded
    /\ Goto(IF Client THEN "cert" ELSE "new")
    /\ UNCHANGED << Memory, added, settings >>

\* tls_cfg_cert_key_pem, if the client has a certificate; the server has.
SetCertKey ==
    /\ pc = "cert"
    /\ \/ config.certs = "none" /\ Goto("new") /\ UNCHANGED << Memory, added, settings >>
       \/ config.certs = "keyless" /\ Abandon("Internal")
       \/ config.certs \in {"bad", "good"} /\ Copy({"certs"}, IF Client THEN "new" ELSE "auth")

SetClientAuth ==
    /\ pc = "auth"
    /\ \/ config.mode = "NoClientAuth" /\ Goto("alpn") /\ UNCHANGED << Memory, added, settings >>
       \/ /\ config.mode # "NoClientAuth" /\ config.material = "missing"
          /\ Abandon("Internal")
       \/ /\ config.mode # "NoClientAuth" /\ config.material # "missing"
          /\ Copy({"auth_roots"}, "alpn")

Build ==
    \/ CheckArguments \/ CfgNew \/ SetVerification \/ AlpnAdd \/ AlpnAdded
    \/ SetCertKey \/ SetClientAuth

-----------------------------------------------------------------------------
(* tls_client_new and tls_server_new: they consume the builder.            *)

NewSession ==
    /\ pc = "new"
    /\ \/ Client /\ config.name = "invalid" /\ Abandon("InvalidServerName")
       \/ Abandon("Internal")
       \/ /\ Client => config.name = "valid"
          /\ Grab("call", {"session"} \cup (Temporaries \ {"builder"}))
          /\ Goto("setup")
          /\ UNCHANGED << added, settings >>

\* rc # 0: the rest of the construction is skipped.
Broken(error) ==
    /\ err' = error
    /\ pc' = "discard"
    /\ UNCHANGED << Memory, added, settings, result >>

\* One statement of the construction went well.
Told(s, place) ==
    /\ settings' = s
    /\ Goto(place)
    /\ UNCHANGED << Memory, added >>

Setup ==
    /\ pc = "setup"
    /\ \/ Broken("Internal")
       \/ Told(Defaults(config.role), IF Client THEN "trust" ELSE "own_cert")

\* The pins are copied; roots are parsed into the session itself.
Trust ==
    /\ pc = "trust"
    /\ \/ config.mode = "CustomRoots" /\ Broken("InvalidPem")
       \/ config.mode \in {"SystemRoots", "Pinned"} /\ Broken("Internal")
       \/ /\ config.mode = "CustomRoots" => config.material = "good"
          /\ config.mode # "Pinned"
          /\ Told(ClientTrust(settings, config.mode), "move_alpn")
       \/ /\ config.mode = "Pinned"
          /\ Grab("session", {"session_pins"})
          /\ settings' = ClientTrust(settings, config.mode)
          /\ Goto("move_alpn")
          /\ UNCHANGED added

\* The list changes hands before mbedTLS looks at it.
MoveAlpn ==
    /\ pc = "move_alpn"
    /\ \/ added = 0 /\ Told(settings, IF Client THEN "own_cert" ELSE "ssl_setup")
       \/ /\ added > 0
          /\ holds' = Moved("alpn", "builder", "session")
          /\ UNCHANGED << live, stray, added, result >>
          /\ \/ /\ \E i \in DOMAIN config.alpn : config.alpn[i] = "long"
                /\ err' = "AlpnNoCommonProtocol" /\ pc' = "discard"
                /\ UNCHANGED settings
             \/ /\ \A i \in DOMAIN config.alpn : config.alpn[i] # "long"
                /\ settings' = [settings EXCEPT !.alpn = added]
                /\ pc' = (IF Client THEN "own_cert" ELSE "ssl_setup")
                /\ UNCHANGED err

OwnCert ==
    /\ pc = "own_cert"
    /\ LET place == IF Client THEN "ssl_setup" ELSE "client_ca" IN
       \/ config.certs = "none" /\ Told(settings, place)
       \/ config.certs # "none" /\ Broken("InvalidPem")
       \/ config.certs = "good" /\ Broken("Internal")
       \/ config.certs = "good" /\ Told([settings EXCEPT !.own = TRUE], place)

ClientCA ==
    /\ pc = "client_ca"
    /\ \/ config.mode # "NoClientAuth" /\ Broken("InvalidPem")
       \/ /\ config.mode # "NoClientAuth" => config.material = "good"
          /\ Told(ServerTrust(settings, config.mode), "move_alpn")

\* mbedtls_ssl_setup, mbedtls_ssl_set_hostname, mbedtls_ssl_set_bio.
SslSetup ==
    /\ pc = "ssl_setup"
    /\ \/ Broken("Internal")
       \/ Told([settings EXCEPT !.hostname = Client /\ NeedHostname(config.mode)], "discard")

\* The builder goes, and with rc # 0 the session.
Discard ==
    /\ pc = "discard"
    /\ \/ err # "none" /\ Fail(Temporaries \cup {"session"}, err)
       \/ /\ err = "none"
          /\ Free("call", Temporaries)
          /\ Goto("pump")
          /\ UNCHANGED << added, settings >>

Construct ==
    \/ NewSession \/ Setup \/ Trust \/ MoveAlpn \/ OwnCert \/ ClientCA \/ SslSetup
    \/ Discard

-----------------------------------------------------------------------------
(* pump_handshake and what follows it.                                     *)

Established ==
    /\ pc = "pump"
    /\ \E cert \in Presented(config.role, settings) :
        /\ Verdict(config.role, settings, cert) = "ok"
        /\ peer' = cert
    /\ holds' = [holds EXCEPT !["call"] = @ \ {"socket", "session"},
                              !["stream"] = {"socket", "session"}]
    /\ pc' = "open"
    /\ result' = "ok"
    /\ UNCHANGED << live, stray, added, settings, err >>

PeerRefused ==
    /\ pc = "pump"
    /\ \E cert \in Presented(config.role, settings) :
        LET verdict == Verdict(config.role, settings, cert) IN
        /\ verdict # "ok"
        /\ peer' = cert
        /\ Fail({"session"}, ErrorOf(settings, cert, verdict))

\* Any other end of the pump; only a server reports that ALPN names differ.
PumpFails ==
    /\ pc = "pump"
    /\ \/ \E error \in {"HandshakeFailure", "UnsupportedProtocolVersion", "Net", "Internal"} :
             Fail({"session"}, error)
       \/ ~Client /\ settings.alpn > 0 /\ Fail({"session"}, "AlpnNoCommonProtocol")

Close ==
    /\ pc = "open"
    /\ Free("stream", {"socket", "session"})
    /\ pc' = "closed"
    /\ UNCHANGED << added, settings, err, peer, result >>

Next ==
    /\ UNCHANGED config
    /\ \/ (Build \/ Construct \/ PumpFails) /\ UNCHANGED peer
       \/ Established \/ PeerRefused \/ Close

Spec == Init /\ [][Next]_vars

-----------------------------------------------------------------------------
(* Properties.                                                             *)

\* Every object has one owner, and nothing is released twice: a pointer to an
\* object that is gone, or two pointers that both mean to release it, would be
\* a double free; an object without an owner is a leak.
Owned ==
    /\ stray = {}
    /\ live = UNION { holds[h] : h \in Holder }
    /\ \A g, h \in Holder : g # h => holds[g] \cap holds[h] = {}
    /\ \A h \in {"builder", "session"} : h \notin live => holds[h] = {}

\* connect and accept return an error with everything released, the socket
\* included, on every path; a stream they return owns the socket and the
\* session and nothing else is left; @close leaves nothing (client.nv:5-7,
\* server.nv:5-6).
ReleasedOnReturn ==
    /\ pc \in {"failed", "closed"} => live = {}
    /\ pc = "open" => live = {"socket", "session"} \cup holds["session"]

\* A stream exists only with a peer that passed what the mode promises
\* (config.nv:21-31): roots mean a valid chain, for the name, and now; pins a
\* pinned key; Required a client with a valid certificate.
EstablishedIsVerified ==
    pc = "open" =>
        /\ config.mode \in Rooted \cup {"Required"} =>
               peer.sent /\ peer.trusted /\ peer.current /\ peer.usable
        /\ config.mode \in Rooted => peer.named
        /\ config.mode = "Pinned" => peer.sent /\ peer.pinned

\* The handshake starts only with all the caller asked for in force: no fault
\* of the configuration is passed over, no name or certificate forgotten.
PumpsAsConfigured ==
    pc \in {"pump", "open"} =>
        /\ config.name = "valid"
        /\ config.mode \in NeedsMaterial => config.material = "good"
        /\ settings.alpn = Len(config.alpn)
        /\ \A i \in DOMAIN config.alpn : config.alpn[i] = "fine"
        /\ config.certs \in {"none", "good"}
        /\ settings.own <=> config.certs = "good"

\* A certificate error has a certificate that deserves it, from a peer this
\* configuration verifies; an error about names or PEM has such an argument.
ErrorTellsCause ==
    /\ result = "HostnameMismatch" => config.mode \in Rooted /\ peer.sent /\ ~peer.named
    /\ result = "CertificateExpired" => peer.sent /\ ~peer.current
    /\ result = "CertificateInvalid" => peer.sent /\ ~peer.trusted
    /\ result \in CertificateError => config.mode \in Rooted \cup {"Required"}
    /\ result = "InvalidServerName" => config.name # "valid"
    /\ result = "InvalidPem" =>
           ~Client \/ config.certs # "none" \/ config.mode = "CustomRoots"

\* config.nv:59-60: the shim always sends SNI and checks the name.
NameAlwaysChecked == Client /\ pc = "open" => settings.hostname

=============================================================================
