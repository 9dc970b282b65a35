--------------------------- MODULE MCTlsHandshake ---------------------------
(* Instances of TlsHandshake for TLC.                                      *)
EXTENDS TlsHandshake

\* A server always has a certificate: accept refuses a ServerConfig without.
Certs == [Ends -> Certificates]
ServerHasOne == {c \in Certs : c["server"] # "empty"}

\* ALPN: no lists, one of the client or the server only, two lists that have a
\* name in common, and two that have none.
Lists(client, server) == [e \in Ends |-> IF e = "client" THEN client ELSE server]
AlpnLists ==
    { Lists({}, {}), Lists({"h2"}, {}), Lists({}, {"h2"}),
      Lists({"h2", "http/1.1"}, {"http/1.1"}), Lists({"h2"}, {"http/1.1"}) }

\* Every pair of ends of which one, at least, is of nova-tls, and so has both
\* versions.  What TLS 1.3 has no use for is fixed there, and the other way
\* round.
AllSetups ==
    { s \in [ clientMax : Versions, serverMax : Versions, shareRefused : BOOLEAN,
              rsa : BOOLEAN, ticket : BOOLEAN, authmode : [Ends -> Authmodes],
              cert : ServerHasOne, alpn : AlpnLists ] :
        /\ s.clientMax = "tls13" \/ s.serverMax = "tls13"
        /\ s.shareRefused => s.clientMax = "tls13" /\ s.serverMax = "tls13"
        /\ s.rsa => s.clientMax = "tls12" \/ s.serverMax = "tls12"
        /\ s.ticket => s.serverMax = "tls12" }

=============================================================================
