------------------------ MODULE TlsHandshake_proofs ------------------------
(***************************************************************************)
(* Proofs about the two handshake state machines of mbedTLS, for every     *)
(* set of configurations.                                                  *)
(*                                                                         *)
(* That both ends agree is not shown by following the two machines in      *)
(* step, through every product of their states: it is shown the way TLS    *)
(* means it to be.  Each end knows what its own state says (ClientKnows,   *)
(* ServerKnows); a Finished that is accepted carries the transcript of the *)
(* end that sealed it (Vouches), and the transcripts of two versions       *)
(* differ; and behind a Finished there is nothing (LastWord).  So whoever  *)
(* accepted a Finished knows the version and the transcript of the other   *)
(* end, and that its queue is empty (HasHeard).                            *)
(***************************************************************************)
EXTENDS TlsHandshake, SequenceTheorems, TLAPS

-----------------------------------------------------------------------------
(* Types.                                                                  *)

MessageTypes == AnyMessage \cup {"ChangeCipherSpec", "alert", "message_hash"}
Bodies ==
    {"", "fatal", "tls12", "tls12 downgraded", "tls13", "tls13 again", "retry"}
    \cup Ends \cup Certificates

\* What a transcript consists of.
Entry == MessageTypes \X Bodies
Record == [type : MessageTypes, body : Bodies, key : Keys, covers : Seq(Entry)]

Client12States ==
    { "HELLO_REQUEST", "CLIENT_HELLO", "SERVER_HELLO", "HANDSHAKE_OVER", "NEW_SESSION_TICKET",
      "SERVER_CERTIFICATE", "SERVER_KEY_EXCHANGE", "CERTIFICATE_REQUEST", "SERVER_HELLO_DONE",
      "CLIENT_CERTIFICATE", "CLIENT_KEY_EXCHANGE", "CERTIFICATE_VERIFY",
      "CLIENT_CHANGE_CIPHER_SPEC", "CLIENT_FINISHED", "SERVER_CHANGE_CIPHER_SPEC",
      "SERVER_FINISHED", "FLUSH_BUFFERS", "HANDSHAKE_WRAPUP" }
Server12States == Client12States \ {"NEW_SESSION_TICKET"}
Client13States ==
    { "HELLO_REQUEST", "CLIENT_HELLO", "SERVER_HELLO", "HANDSHAKE_OVER",
      "CLIENT_CCS_BEFORE_2ND_CLIENT_HELLO", "ENCRYPTED_EXTENSIONS", "CERTIFICATE_REQUEST",
      "SERVER_CERTIFICATE", "CERTIFICATE_VERIFY", "SERVER_FINISHED",
      "CLIENT_CCS_AFTER_SERVER_FINISHED", "CLIENT_CERTIFICATE", "CLIENT_CERTIFICATE_VERIFY",
      "CLIENT_FINISHED", "FLUSH_BUFFERS", "HANDSHAKE_WRAPUP" }
Server13States ==
    { "HELLO_REQUEST", "CLIENT_HELLO", "SERVER_HELLO", "HANDSHAKE_OVER",
      "HELLO_RETRY_REQUEST", "SERVER_CCS_AFTER_HELLO_RETRY_REQUEST",
      "SERVER_CCS_AFTER_SERVER_HELLO", "ENCRYPTED_EXTENSIONS", "CERTIFICATE_REQUEST",
      "SERVER_CERTIFICATE", "CERTIFICATE_VERIFY", "SERVER_FINISHED", "CLIENT_CERTIFICATE",
      "CLIENT_CERTIFICATE_VERIFY", "CLIENT_FINISHED", "HANDSHAKE_WRAPUP",
      "TLS1_3_NEW_SESSION_TICKET" }
StateNames == Client12States \cup Client13States \cup Server13States

Context ==
    [ state : StateNames, version : Versions, out : Seq(Record), keep : BOOLEAN,
      msg : Record \cup {NoMessage}, checksum : Seq(Entry), inKey : Keys, outKey : Keys,
      clientAuth : BOOLEAN, retried : BOOLEAN, ccsSent : BOOLEAN,
      peerCert : Certificates, newTicket : BOOLEAN, result : Results ]

Types ==
    /\ setup \in Setups
    /\ ssl \in [Ends -> Context]
    /\ wire \in [Ends -> Seq(Record)]
    /\ flights \in [Ends -> Nat]

-----------------------------------------------------------------------------
(* What an end knows from its own state.                                   *)

\* The messages in a transcript, without their order.
In(checksum) == {checksum[i] : i \in 1 .. Len(checksum)}
Heard(s) == In(s.checksum)
HeardAny(s, type) == \E body \in Bodies : <<type, body>> \in Heard(s)

Required(e) == setup.authmode[e] = "required"

Client13Knows(s) ==
    /\ s.state \in Client13States
    /\ setup.clientMax = "tls13"
    /\ s.keep => s.state = "SERVER_CERTIFICATE"
    /\ s.state = "SERVER_HELLO" => s.checksum # <<>>
    /\ s.state \in {"HELLO_REQUEST", "CLIENT_HELLO", "SERVER_HELLO",
                    "CLIENT_CCS_BEFORE_2ND_CLIENT_HELLO", "ENCRYPTED_EXTENSIONS",
                    "CERTIFICATE_REQUEST"}
        => ~ s.clientAuth
    /\ s.state \notin {"HELLO_REQUEST", "CLIENT_HELLO", "SERVER_HELLO",
                       "CLIENT_CCS_BEFORE_2ND_CLIENT_HELLO"}
        => <<"ServerHello", "tls13">> \in Heard(s)
    /\ s.state \in {"CERTIFICATE_VERIFY", "SERVER_FINISHED", "CLIENT_CCS_AFTER_SERVER_FINISHED",
                    "CLIENT_CERTIFICATE", "CLIENT_CERTIFICATE_VERIFY", "CLIENT_FINISHED",
                    "FLUSH_BUFFERS", "HANDSHAKE_WRAPUP", "HANDSHAKE_OVER"}
        => (Required("client") => s.peerCert = "good")
    /\ s.state \in {"SERVER_FINISHED", "CLIENT_CCS_AFTER_SERVER_FINISHED",
                    "CLIENT_CERTIFICATE", "CLIENT_CERTIFICATE_VERIFY", "CLIENT_FINISHED",
                    "FLUSH_BUFFERS", "HANDSHAKE_WRAPUP", "HANDSHAKE_OVER"}
        => <<"CertificateVerify", "server">> \in Heard(s)
    /\ s.state = "HANDSHAKE_OVER" => s.inKey = "app" /\ s.outKey = "app"

Client12Knows(s) ==
    /\ s.state \in Client12States
    /\ setup.clientMax = "tls12" \/ setup.serverMax = "tls12"
    /\ s.keep => s.state \in {"SERVER_HELLO", "SERVER_HELLO_DONE"}
    /\ s.state \in {"HELLO_REQUEST", "CLIENT_HELLO", "SERVER_HELLO", "SERVER_CERTIFICATE",
                    "SERVER_KEY_EXCHANGE", "CERTIFICATE_REQUEST"}
        => ~ s.clientAuth
    /\ s.state \notin {"HELLO_REQUEST", "CLIENT_HELLO", "SERVER_HELLO", "SERVER_CERTIFICATE"}
        => (Required("client") => s.peerCert = "good")
    /\ s.state \in {"CERTIFICATE_VERIFY", "CLIENT_CHANGE_CIPHER_SPEC", "CLIENT_FINISHED",
                    "SERVER_CHANGE_CIPHER_SPEC", "NEW_SESSION_TICKET", "SERVER_FINISHED",
                    "FLUSH_BUFFERS", "HANDSHAKE_WRAPUP", "HANDSHAKE_OVER"}
        => HeardAny(s, "ClientKeyExchange")
    /\ s.state \in {"SERVER_CHANGE_CIPHER_SPEC", "NEW_SESSION_TICKET", "SERVER_FINISHED",
                    "FLUSH_BUFFERS", "HANDSHAKE_WRAPUP", "HANDSHAKE_OVER"}
        => s.outKey = "session"
    /\ s.state \in {"SERVER_FINISHED", "FLUSH_BUFFERS", "HANDSHAKE_WRAPUP", "HANDSHAKE_OVER"}
        => s.inKey = "session"

EndKnows(s) ==
    /\ Len(s.out) <= 1
    /\ s.state = "HANDSHAKE_OVER" => s.out = <<>> /\ s.result = "running"

ClientKnows(s) ==
    /\ EndKnows(s)
    /\ s.clientAuth <=> HeardAny(s, "CertificateRequest")
    /\ s.version = "tls13" => Client13Knows(s)
    /\ s.version = "tls12" => Client12Knows(s)

Asked == setup.authmode["server"] # "none"

Server13Knows(s) ==
    /\ s.state \in Server13States
    /\ setup.serverMax = "tls13"
    /\ ~ s.keep
    /\ ~ HeardAny(s, "ClientKeyExchange")
    /\ s.state = "HELLO_RETRY_REQUEST" => s.checksum # <<>>
    /\ s.state \in {"HELLO_REQUEST", "CLIENT_HELLO", "HELLO_RETRY_REQUEST",
                    "SERVER_CCS_AFTER_HELLO_RETRY_REQUEST", "SERVER_HELLO"}
        => <<"ServerHello", "tls13">> \notin Heard(s)
    /\ s.state \in {"HELLO_REQUEST", "CLIENT_HELLO", "HELLO_RETRY_REQUEST",
                    "SERVER_CCS_AFTER_HELLO_RETRY_REQUEST", "SERVER_HELLO",
                    "SERVER_CCS_AFTER_SERVER_HELLO", "ENCRYPTED_EXTENSIONS",
                    "CERTIFICATE_REQUEST"}
        => ~ HeardAny(s, "CertificateRequest") /\ ~ s.clientAuth
    /\ s.state \in {"SERVER_CERTIFICATE", "CERTIFICATE_VERIFY", "SERVER_FINISHED",
                    "CLIENT_CERTIFICATE", "CLIENT_CERTIFICATE_VERIFY", "CLIENT_FINISHED",
                    "HANDSHAKE_WRAPUP", "TLS1_3_NEW_SESSION_TICKET", "HANDSHAKE_OVER"}
        => (HeardAny(s, "CertificateRequest") <=> Asked) /\ (s.clientAuth <=> Asked)
    /\ s.state \in {"CLIENT_CERTIFICATE", "CLIENT_CERTIFICATE_VERIFY"} => Asked
    /\ s.state \in {"CLIENT_CERTIFICATE_VERIFY", "CLIENT_FINISHED", "HANDSHAKE_WRAPUP",
                    "TLS1_3_NEW_SESSION_TICKET", "HANDSHAKE_OVER"}
        => (Required("server") => s.peerCert = "good")
    /\ s.state \in {"CLIENT_FINISHED", "HANDSHAKE_WRAPUP", "TLS1_3_NEW_SESSION_TICKET",
                    "HANDSHAKE_OVER"}
        => (Required("server") => <<"CertificateVerify", "client">> \in Heard(s))
    /\ s.state \in {"TLS1_3_NEW_SESSION_TICKET", "HANDSHAKE_OVER"}
        => s.inKey = "app" /\ s.outKey = "app"

Server12Knows(s) ==
    /\ s.state \in Server12States
    /\ setup.clientMax = "tls12" \/ setup.serverMax = "tls12"
    /\ s.keep => s.state = "CLIENT_HELLO"
    /\ <<"ServerHello", "tls13">> \notin Heard(s)
    /\ s.state \in {"HELLO_REQUEST", "CLIENT_HELLO", "SERVER_HELLO", "SERVER_CERTIFICATE",
                    "SERVER_KEY_EXCHANGE", "CERTIFICATE_REQUEST"}
        => ~ HeardAny(s, "CertificateRequest")
    /\ s.state \notin {"HELLO_REQUEST", "CLIENT_HELLO", "SERVER_HELLO", "SERVER_CERTIFICATE",
                       "SERVER_KEY_EXCHANGE", "CERTIFICATE_REQUEST"}
        => (HeardAny(s, "CertificateRequest") <=> Asked)
    /\ s.state \in {"CLIENT_KEY_EXCHANGE", "CERTIFICATE_VERIFY", "CLIENT_CHANGE_CIPHER_SPEC",
                    "CLIENT_FINISHED", "SERVER_CHANGE_CIPHER_SPEC", "SERVER_FINISHED",
                    "FLUSH_BUFFERS", "HANDSHAKE_WRAPUP", "HANDSHAKE_OVER"}
        => (Required("server") => s.peerCert = "good")
    /\ s.state \in {"CLIENT_CHANGE_CIPHER_SPEC", "CLIENT_FINISHED",
                    "SERVER_CHANGE_CIPHER_SPEC", "SERVER_FINISHED", "FLUSH_BUFFERS",
                    "HANDSHAKE_WRAPUP", "HANDSHAKE_OVER"}
        => (Required("server") => <<"CertificateVerify", "client">> \in Heard(s))
    /\ s.state \in {"CLIENT_FINISHED", "SERVER_CHANGE_CIPHER_SPEC", "SERVER_FINISHED",
                    "FLUSH_BUFFERS", "HANDSHAKE_WRAPUP", "HANDSHAKE_OVER"}
        => s.inKey = "session"
    /\ s.state \in {"FLUSH_BUFFERS", "HANDSHAKE_WRAPUP", "HANDSHAKE_OVER"}
        => s.outKey = "session"

ServerKnows(s) ==
    /\ EndKnows(s)
    /\ s.version = "tls13" => Server13Knows(s)
    /\ s.version = "tls12" => Server12Knows(s)

-----------------------------------------------------------------------------
(* What is on its way.                                                     *)

\* Records e has sealed and its peer has not read.
Sent(e) == wire[e] \o ssl[e].out

\* A record e may seal.
Real(e, r) ==
    /\ r \in Record
    /\ r.type \in Bound => r.body = e
    /\ r.type = "Certificate" => r.body = setup.cert[e]
    /\ r.type = "ClientHello" => e = "client" /\ (r.body = "tls12" => setup.clientMax = "tls12")
    /\ r.type = "ServerHello" =>
         /\ e = "server"
         /\ r.body \in {"tls13", "retry", "tls12", "tls12 downgraded"}
         /\ r.body = "tls12" => setup.serverMax = "tls12"

Genuine(e) ==
    /\ \A i \in 1 .. Len(Sent(e)) : Real(e, Sent(e)[i])
    /\ ssl[e].keep => Real(Other(e), ssl[e].msg)

\* States behind the own Finished, and behind that of the peer.
ClientSaid(s) ==
    IF s.version = "tls13" THEN s.state \in {"FLUSH_BUFFERS", "HANDSHAKE_WRAPUP", "HANDSHAKE_OVER"}
    ELSE s.state \in {"SERVER_CHANGE_CIPHER_SPEC", "NEW_SESSION_TICKET", "SERVER_FINISHED",
                      "FLUSH_BUFFERS", "HANDSHAKE_WRAPUP", "HANDSHAKE_OVER"}
ServerSaid(s) ==
    IF s.version = "tls13"
    THEN s.state \in {"CLIENT_CERTIFICATE", "CLIENT_CERTIFICATE_VERIFY", "CLIENT_FINISHED",
                      "HANDSHAKE_WRAPUP", "TLS1_3_NEW_SESSION_TICKET", "HANDSHAKE_OVER"}
    ELSE s.state \in {"FLUSH_BUFFERS", "HANDSHAKE_WRAPUP", "HANDSHAKE_OVER"}
Said(e, s) == IF e = "client" THEN ClientSaid(s) ELSE ServerSaid(s)

ClientDone(s) ==
    IF s.version = "tls13"
    THEN s.state \in {"CLIENT_CCS_AFTER_SERVER_FINISHED", "CLIENT_CERTIFICATE",
                      "CLIENT_CERTIFICATE_VERIFY", "CLIENT_FINISHED", "FLUSH_BUFFERS",
                      "HANDSHAKE_WRAPUP", "HANDSHAKE_OVER"}
    ELSE s.state \in {"FLUSH_BUFFERS", "HANDSHAKE_WRAPUP", "HANDSHAKE_OVER"}
ServerDone(s) ==
    IF s.version = "tls13"
    THEN s.state \in {"HANDSHAKE_WRAPUP", "TLS1_3_NEW_SESSION_TICKET", "HANDSHAKE_OVER"}
    ELSE s.state \in {"SERVER_CHANGE_CIPHER_SPEC", "SERVER_FINISHED", "FLUSH_BUFFERS",
                      "HANDSHAKE_WRAPUP", "HANDSHAKE_OVER"}
Done(e, s) == IF e = "client" THEN ClientDone(s) ELSE ServerDone(s)

\* The end that says the last word of its version.
Last(e, s) == IF e = "client" THEN s.version = "tls13" ELSE s.version = "tls12"

\* What a Finished says of the end, with context s, that sealed it.
Vouches(e, s, r) ==
    /\ Said(e, s)
    /\ Last(e, s) => s.checksum = Append(r.covers, <<"Finished", e>>)
    /\ ~ Last(e, s) =>
         IF e = "client" THEN \E body \in Bodies : <<"ClientKeyExchange", body>> \in In(r.covers)
         ELSE \A body \in Bodies : <<"ClientKeyExchange", body>> \notin In(r.covers)

LastWord(e) ==
    \A i \in 1 .. Len(Sent(e)) : Sent(e)[i].type = "Finished" =>
        /\ Vouches(e, ssl[e], Sent(e)[i])
        /\ ssl[e].result = "running" => i = Len(Sent(e))

\* What an end that has accepted the Finished of p knows of p.
HasHeard(e, p) ==
    Done(e, ssl[e]) =>
        /\ ssl[p].version = ssl[e].version
        /\ Said(p, ssl[p])
        /\ Last(p, ssl[p]) => ssl[p].checksum = ssl[e].checksum
        /\ ssl[p].result = "running" => Sent(p) = <<>>

IInv ==
    /\ Types
    /\ ClientKnows(ssl["client"])
    /\ ServerKnows(ssl["server"])
    /\ \A e \in Ends : Genuine(e) /\ LastWord(e) /\ HasHeard(e, Other(e))


Knows(e, s) == IF e = "client" THEN ClientKnows(s) ELSE ServerKnows(s)

\* What a move of e from a to b keeps of the records e has sealed, and of what
\* e has heard.
Steady(e, a, b) ==
    Said(e, a) => /\ Said(e, b) /\ b.version = a.version
                  /\ Last(e, a) => b.checksum = a.checksum
Settled(e, a, b) ==
    Done(e, b) => /\ Done(e, a) /\ b.version = a.version
                  /\ ~ Last(e, a) => b.checksum = a.checksum

\* A context e may go on with.
Fits(e, b) ==
    /\ b \in Context
    /\ b.out = <<>> /\ b.result = "running"
    /\ Knows(e, b)
    /\ Steady(e, ssl[e], b)

-----------------------------------------------------------------------------
(* Constants of the model.                                                 *)

\* Each end has one other end.
LEMMA EndsAre == \A e \in Ends : Other(e) \in Ends /\ Other(e) # e /\ Other(Other(e)) = e
  BY DEF Ends, Other

\* The states of a full TLS 1.2 handshake, by their places in the order.
LEMMA States12Are ==
    /\ DOMAIN States12 = 1 .. 14 /\ Len(States12) = 14
    /\ States12[1] = "SERVER_HELLO" /\ States12[2] = "SERVER_CERTIFICATE"
    /\ States12[3] = "SERVER_KEY_EXCHANGE" /\ States12[4] = "CERTIFICATE_REQUEST"
    /\ States12[5] = "SERVER_HELLO_DONE" /\ States12[6] = "CLIENT_CERTIFICATE"
    /\ States12[7] = "CLIENT_KEY_EXCHANGE" /\ States12[8] = "CERTIFICATE_VERIFY"
    /\ States12[9] = "CLIENT_CHANGE_CIPHER_SPEC" /\ States12[10] = "CLIENT_FINISHED"
    /\ States12[11] = "SERVER_CHANGE_CIPHER_SPEC" /\ States12[12] = "SERVER_FINISHED"
    /\ States12[13] = "FLUSH_BUFFERS" /\ States12[14] = "HANDSHAKE_WRAPUP"
  BY DEF States12

\* state++ leads from one place of the order to the next.
LEMMA FollowingIs ==
    ASSUME NEW i \in 1 .. 13
    PROVE  Following(States12[i]) = States12[i + 1]
<1>1. \A j \in 1 .. 13 : States12[j] = States12[i] => j = i
  BY States12Are
<1> QED
  BY <1>1, States12Are DEF Following

\* The states the TLS 1.2 handlers step to.
LEMMA Steps12 ==
    /\ Following("SERVER_CERTIFICATE") = "SERVER_KEY_EXCHANGE"
    /\ Following("SERVER_KEY_EXCHANGE") = "CERTIFICATE_REQUEST"
    /\ Following("CERTIFICATE_REQUEST") = "SERVER_HELLO_DONE"
    /\ Following("SERVER_HELLO_DONE") = "CLIENT_CERTIFICATE"
    /\ Following("CLIENT_CERTIFICATE") = "CLIENT_KEY_EXCHANGE"
    /\ Following("CLIENT_KEY_EXCHANGE") = "CERTIFICATE_VERIFY"
    /\ Following("CERTIFICATE_VERIFY") = "CLIENT_CHANGE_CIPHER_SPEC"
    /\ Following("CLIENT_CHANGE_CIPHER_SPEC") = "CLIENT_FINISHED"
    /\ Following("CLIENT_FINISHED") = "SERVER_CHANGE_CIPHER_SPEC"
    /\ Following("SERVER_CHANGE_CIPHER_SPEC") = "SERVER_FINISHED"
    /\ Following("SERVER_FINISHED") = "FLUSH_BUFFERS"
<1>1. \A i \in 1 .. 13 : Following(States12[i]) = States12[i + 1]
  BY FollowingIs
<1> QED
  BY <1>1, States12Are

\* The states a side passes through in a version.
LEMMA StatesAre ==
    /\ States["client"]["tls12"] = Client12States
    /\ States["server"]["tls12"] = Server12States
    /\ States["client"]["tls13"] = Client13States
    /\ States["server"]["tls13"] = Server13States
<1>1. {States12[i] : i \in DOMAIN States12} = Server12States \ {"HELLO_REQUEST", "CLIENT_HELLO", "HANDSHAKE_OVER"}
  BY States12Are DEF Server12States, Client12States
<1>2. /\ States["client"]["tls12"] =
            HelloStates \cup {"NEW_SESSION_TICKET"} \cup {States12[i] : i \in DOMAIN States12}
      /\ States["server"]["tls12"] = HelloStates \cup {States12[i] : i \in DOMAIN States12}
  BY DEF States
<1>3. States["client"]["tls13"] = Client13States
  BY DEF States, HelloStates, Client13States
<1>4. States["server"]["tls13"] = Server13States
  BY DEF States, HelloStates, Server13States
<1> QED
  BY <1>1, <1>2, <1>3, <1>4 DEF HelloStates, Client12States, Server12States

-----------------------------------------------------------------------------
(* Transcripts.                                                            *)

\* Hashing a message adds it, and nothing else, to what was heard.
LEMMA InAppend ==
    ASSUME NEW c \in Seq(Entry), NEW x \in Entry
    PROVE  Append(c, x) \in Seq(Entry) /\ In(Append(c, x)) = In(c) \cup {x}
<1>1. /\ Append(c, x) \in Seq(Entry) /\ Len(Append(c, x)) = Len(c) + 1 /\ Len(c) \in Nat
      /\ Append(c, x)[Len(c) + 1] = x
      /\ \A i \in 1 .. Len(c) : Append(c, x)[i] = c[i]
  BY AppendProperties
<1>2. In(Append(c, x)) \subseteq In(c) \cup {x}
  <2> SUFFICES ASSUME NEW i \in 1 .. Len(c) + 1 PROVE Append(c, x)[i] \in In(c) \cup {x}
    BY <1>1 DEF In
  <2>1. i = Len(c) + 1 \/ i \in 1 .. Len(c)
    BY <1>1
  <2> QED
    BY <1>1, <2>1 DEF In
<1>3. In(c) \cup {x} \subseteq In(Append(c, x))
  BY <1>1 DEF In
<1> QED
  BY <1>1, <1>2, <1>3

\* A transcript of one message has heard that message.
LEMMA InOne == \A x : In(<<x>>) = {x}
  BY DEF In

\* What was heard is a message.
LEMMA InType ==
    ASSUME NEW c \in Seq(Entry), NEW x \in In(c)
    PROVE  x \in Entry
  BY DEF In

\* mbedtls_ssl_update_handshake_status: only the checksum changes.
LEMMA HashedIs ==
    ASSUME NEW s \in Context, NEW type \in MessageTypes, NEW body \in Bodies
    PROVE  /\ Hashed(s, type, body) \in Context
           /\ Hashed(s, type, body) = [s EXCEPT !.checksum = Append(s.checksum, <<type, body>>)]
           /\ Heard(Hashed(s, type, body)) = Heard(s) \cup {<<type, body>>}
<1>1. s.checksum \in Seq(Entry) /\ <<type, body>> \in Entry
  BY DEF Context, Entry
<1>2. /\ Append(s.checksum, <<type, body>>) \in Seq(Entry)
      /\ In(Append(s.checksum, <<type, body>>)) = In(s.checksum) \cup {<<type, body>>}
  BY <1>1, InAppend
<1> QED
  BY <1>2 DEF Hashed, Heard, Context

-----------------------------------------------------------------------------
(* What any move has to keep.                                              *)

\* What the invariant says of one end.
LEMMA EndAt ==
    ASSUME IInv, NEW e \in Ends
    PROVE  /\ ssl[e] \in Context /\ wire[e] \in Seq(Record) /\ flights[e] \in Nat
           /\ ssl[e].out \in Seq(Record) /\ Sent(e) \in Seq(Record) /\ Len(Sent(e)) \in Nat
           /\ Knows(e, ssl[e]) /\ Genuine(e) /\ LastWord(e) /\ HasHeard(e, Other(e))
           /\ setup \in Setup /\ ssl[e].result \in Results /\ ssl[e].version \in Versions
           /\ Other(e) \in Ends /\ Other(e) # e /\ Other(Other(e)) = e
<1>1. /\ ssl[e] \in Context /\ wire[e] \in Seq(Record) /\ flights[e] \in Nat /\ setup \in Setup
      /\ Genuine(e) /\ LastWord(e) /\ HasHeard(e, Other(e))
  BY SetupAssumption DEF IInv, Types
<1>2. Knows(e, ssl[e])
  BY DEF IInv, Knows, Ends
<1>3. ssl[e].out \in Seq(Record) /\ ssl[e].result \in Results /\ ssl[e].version \in Versions
  BY <1>1 DEF Context
<1>4. Sent(e) \in Seq(Record) /\ Len(Sent(e)) \in Nat
  <2>1. Sent(e) \in Seq(Record)
    BY <1>1, <1>3 DEF Sent
  <2> QED
    BY <2>1, LenProperties
<1> QED
  BY <1>1, <1>2, <1>3, <1>4, EndsAre

\* The queue of the peer, read or not.
Shorter(old, new) == new = old \/ (old # <<>> /\ new = Tail(old))

\* What is left of a queue keeps its contents and its distance from the end.
LEMMA ShorterIs ==
    ASSUME NEW q \in Seq(Record), NEW r, Shorter(q, r)
    PROVE  /\ r \in Seq(Record) /\ Len(r) \in Nat /\ Len(q) \in Nat
           /\ \A i \in 1 .. Len(r) :
                 \E j \in 1 .. Len(q) : r[i] = q[j] /\ Len(q) - j = Len(r) - i
<1>1. CASE r = q
  BY <1>1
<1>2. CASE q # <<>> /\ r = Tail(q)
  <2>1. /\ r \in Seq(Record) /\ Len(r) = Len(q) - 1 /\ Len(q) \in Nat /\ Len(r) \in Nat
        /\ \A i \in 1 .. Len(r) : r[i] = q[i + 1]
    BY <1>2, HeadTailProperties
  <2> SUFFICES ASSUME NEW i \in 1 .. Len(r)
               PROVE  \E j \in 1 .. Len(q) : r[i] = q[j] /\ Len(q) - j = Len(r) - i
    BY <2>1
  <2>2. i + 1 \in 1 .. Len(q) /\ Len(q) - (i + 1) = Len(r) - i /\ r[i] = q[i + 1]
    BY <2>1
  <2> QED
    BY <2>2
<1> QED
  BY <1>1, <1>2 DEF Shorter

\* A queue with at most one record more: the old places, and the new last one.
LEMMA LongerIs ==
    ASSUME NEW q \in Seq(Record), NEW new \in Seq(Record), Len(new) <= 1
    PROVE  LET r == q \o new IN
           /\ r \in Seq(Record) /\ Len(r) = Len(q) + Len(new) /\ Len(q) \in Nat /\ Len(new) \in Nat
           /\ \A i \in 1 .. Len(r) :
                 \/ i \in 1 .. Len(q) /\ r[i] = q[i]
                 \/ Len(new) = 1 /\ i = Len(q) + 1 /\ r[i] = new[1]
<1> DEFINE r == q \o new
<1>1. /\ r \in Seq(Record) /\ Len(r) = Len(q) + Len(new) /\ Len(q) \in Nat /\ Len(new) \in Nat
      /\ \A i \in 1 .. Len(q) + Len(new) : r[i] = IF i <= Len(q) THEN q[i] ELSE new[i - Len(q)]
  <2>1. Len(q) \in Nat /\ Len(new) \in Nat
    BY LenProperties
  <2>2. \A i \in 1 .. Len(q) + Len(new) : r[i] = IF i <= Len(q) THEN q[i] ELSE new[i - Len(q)]
    BY ConcatProperties
  <2>3. r \in Seq(Record)
    BY ConcatProperties, Zenon
  <2>4. Len(r) = Len(q) + Len(new)
    BY ConcatProperties, Zenon
  <2> QED
    BY <2>1, <2>2, <2>3, <2>4
<1> HIDE DEF r
<1>2. ASSUME NEW i \in 1 .. Len(r), i \notin 1 .. Len(q)
      PROVE  Len(new) = 1 /\ i = Len(q) + 1 /\ r[i] = new[1]
  <2>1. i \in 1 .. Len(q) + Len(new) /\ i > Len(q)
    BY <1>1, <1>2
  <2>2. \A a, n \in Nat : \A k \in 1 .. a + n : n <= 1 /\ k > a => n = 1 /\ k = a + 1 /\ k - a = 1
    OBVIOUS
  <2>3. Len(new) = 1 /\ i = Len(q) + 1 /\ i - Len(q) = 1
    BY <1>1, <2>1, <2>2, Zenon
  <2>4. r[i] = new[i - Len(q)]
    BY <1>1, <2>1
  <2> QED
    BY <2>3, <2>4
<1>3. \A i \in 1 .. Len(q) : r[i] = q[i]
  BY <1>1
<1> QED
  BY <1>1, <1>2, <1>3 DEF r

\* The end e moves to b and seals new; its peer is not concerned, but one of
\* its records may have been read.
Move(e, b, new) ==
    /\ b \in Context /\ new \in Seq(Record) /\ Len(new) <= 1
    /\ setup' = setup /\ ssl' = [ssl EXCEPT ![e] = b]
    /\ wire' \in [Ends -> Seq(Record)] /\ flights' \in [Ends -> Nat]
    /\ Knows(e, b) /\ Steady(e, ssl[e], b)
    /\ b.result = "running" => ssl[e].result = "running"
    /\ b.keep => Real(Other(e), b.msg)
    /\ Sent(e)' = Sent(e) \o new
    /\ \A i \in 1 .. Len(new) :
          /\ Real(e, new[i])
          /\ new[i].type = "Finished" => Vouches(e, b, new[i])
    /\ new # <<>> => ~ Said(e, ssl[e]) \/ b.result # "running"
    /\ Shorter(Sent(Other(e)), Sent(Other(e))')
    /\ Settled(e, ssl[e], b) \/ HasHeard(e, Other(e))'

\* An end that stays within its knowledge, and sends what is genuine,
\* keeps the invariant of both.
LEMMA Moves ==
    ASSUME IInv, NEW e \in Ends, NEW b, NEW new, Move(e, b, new)
    PROVE  IInv'
<1> USE DEF Move
<1> DEFINE p == Other(e)
<1>0. /\ p \in Ends /\ p # e /\ Other(p) = e
      /\ ssl'[e] = b /\ ssl'[p] = ssl[p] /\ ssl[e] \in Context /\ ssl[p] \in Context
  BY EndAt, EndsAre DEF IInv, Types
<1>1. Types'
  BY DEF IInv, Types
<1>2. Knows(e, ssl[e])' /\ Knows(p, ssl[p])'
  <2>1. Knows(e, b)'
    BY DEF Knows, ClientKnows, ServerKnows, Client13Knows, Client12Knows, Server13Knows,
           Server12Knows, Required, Asked, EndKnows
  <2>2. Knows(p, ssl[p])
    BY <1>0, EndAt
  <2>3. Knows(p, ssl[p])'
    BY <1>0, <2>2 DEF Knows, ClientKnows, ServerKnows, Client13Knows, Client12Knows,
           Server13Knows, Server12Knows, Required, Asked, EndKnows
  <2> QED
    BY <1>0, <2>1, <2>3
<1>3. \A x, r : Real(x, r) => Real(x, r)'
  BY DEF Real
<1>4. /\ Sent(e) \in Seq(Record) /\ Sent(e)' \in Seq(Record) /\ Len(Sent(e)) \in Nat
      /\ Len(Sent(e)') = Len(Sent(e)) + Len(new) /\ Len(new) \in Nat
      /\ \A i \in 1 .. Len(Sent(e)') :
            \/ i \in 1 .. Len(Sent(e)) /\ Sent(e)'[i] = Sent(e)[i]
            \/ Len(new) = 1 /\ i = Len(Sent(e)) + 1 /\ Sent(e)'[i] = new[1]
  <2> DEFINE q == Sent(e)
             r == Sent(e)'
  <2>1. q \in Seq(Record) /\ r = q \o new
    BY EndAt
  <2> HIDE DEF q, r
  <2>2. /\ r \in Seq(Record) /\ Len(r) = Len(q) + Len(new) /\ Len(q) \in Nat /\ Len(new) \in Nat
        /\ \A i \in 1 .. Len(r) :
              \/ i \in 1 .. Len(q) /\ r[i] = q[i]
              \/ Len(new) = 1 /\ i = Len(q) + 1 /\ r[i] = new[1]
    BY <2>1, LongerIs
  <2> QED
    BY <2>1, <2>2 DEF q, r
<1>5. /\ Sent(p) \in Seq(Record) /\ Sent(p)' \in Seq(Record)
      /\ Len(Sent(p)) \in Nat /\ Len(Sent(p)') \in Nat
      /\ \A i \in 1 .. Len(Sent(p)') :
            \E j \in 1 .. Len(Sent(p)) :
               Sent(p)'[i] = Sent(p)[j] /\ Len(Sent(p)) - j = Len(Sent(p)') - i
  BY <1>0, EndAt, ShorterIs
<1>6. /\ Genuine(e) /\ LastWord(e) /\ HasHeard(e, p)
      /\ Genuine(p) /\ LastWord(p) /\ HasHeard(p, e)
  BY <1>0, EndAt
<1>7. Genuine(e)' /\ Genuine(p)'
  <2>1. Genuine(e)'
    <3>1. \A i \in 1 .. Len(Sent(e)') : Real(e, Sent(e)'[i])
      BY <1>4, <1>6 DEF Genuine
    <3> QED
      BY <1>0, <1>3, <3>1 DEF Genuine
  <2>2. Genuine(p)'
    <3>1. \A i \in 1 .. Len(Sent(p)') : Real(p, Sent(p)'[i])
      BY <1>5, <1>6 DEF Genuine
    <3>2. ssl[p].keep => Real(e, ssl[p].msg)
      BY <1>0, <1>6 DEF Genuine
    <3> QED
      BY <1>0, <1>3, <3>1, <3>2 DEF Genuine
  <2> QED
    BY <2>1, <2>2
<1>8. LastWord(e)'
  <2> SUFFICES ASSUME NEW i \in 1 .. Len(Sent(e)'), Sent(e)'[i].type = "Finished"
               PROVE  /\ Vouches(e, b, Sent(e)'[i])
                      /\ b.result = "running" => i = Len(Sent(e)')
    BY <1>0 DEF LastWord
  <2>1. CASE i \in 1 .. Len(Sent(e)) /\ Sent(e)'[i] = Sent(e)[i]
    <3>1. /\ Vouches(e, ssl[e], Sent(e)[i]) /\ Said(e, ssl[e])
          /\ ssl[e].result = "running" => i = Len(Sent(e))
      BY <1>6, <2>1 DEF LastWord, Vouches
    <3>2. Vouches(e, b, Sent(e)[i])
      BY <3>1 DEF Vouches, Steady, Last
    <3>3. b.result = "running" => new = <<>>
      BY <3>1
    <3>4. b.result = "running" => Len(Sent(e)') = Len(Sent(e))
      BY <1>4, <3>3
    <3> QED
      BY <2>1, <3>1, <3>2, <3>4
  <2>2. CASE Len(new) = 1 /\ i = Len(Sent(e)) + 1 /\ Sent(e)'[i] = new[1]
    BY <1>4, <2>2
  <2> QED
    BY <1>4, <2>1, <2>2
<1>9. LastWord(p)'
  <2> SUFFICES ASSUME NEW i \in 1 .. Len(Sent(p)'), Sent(p)'[i].type = "Finished"
               PROVE  /\ Vouches(p, ssl[p], Sent(p)'[i])
                      /\ ssl[p].result = "running" => i = Len(Sent(p)')
    BY <1>0 DEF LastWord
  <2>1. PICK j \in 1 .. Len(Sent(p)) :
           Sent(p)'[i] = Sent(p)[j] /\ Len(Sent(p)) - j = Len(Sent(p)') - i
    BY <1>5
  <2>2. Vouches(p, ssl[p], Sent(p)[j]) /\ (ssl[p].result = "running" => j = Len(Sent(p)))
    BY <1>6, <2>1 DEF LastWord
  <2>3. j = Len(Sent(p)) => i = Len(Sent(p)')
    BY <1>5, <2>1
  <2> QED
    BY <2>1, <2>2, <2>3
<1>10. HasHeard(e, p)'
  <2>1. CASE Settled(e, ssl[e], b)
    <3>1. ssl[p].result = "running" /\ Sent(p) = <<>> => Sent(p)' = <<>>
      BY DEF Shorter
    <3> QED
      BY <1>0, <1>6, <2>1, <3>1 DEF HasHeard, Settled, Last, Ends
  <2> QED
    BY <2>1
<1>11. HasHeard(p, e)'
  <2> SUFFICES ASSUME Done(p, ssl[p])
               PROVE  /\ b.version = ssl[p].version
                      /\ Said(e, b)
                      /\ Last(e, b) => b.checksum = ssl[p].checksum
                      /\ b.result = "running" => Sent(e)' = <<>>
    BY <1>0 DEF HasHeard
  <2>1. /\ ssl[e].version = ssl[p].version /\ Said(e, ssl[e])
        /\ Last(e, ssl[e]) => ssl[e].checksum = ssl[p].checksum
        /\ ssl[e].result = "running" => Sent(e) = <<>>
    BY <1>0, <1>6 DEF HasHeard
  <2>2. b.result = "running" => new = <<>> /\ Sent(e) = <<>>
    BY <2>1
  <2>3. <<>> \o <<>> = <<>>
    OBVIOUS
  <2> QED
    BY <2>1, <2>2, <2>3 DEF Steady, Last
<1> QED
  BY <1>0, <1>1, <1>2, <1>7, <1>8, <1>9, <1>10, <1>11 DEF IInv, Knows, Ends, Other

-----------------------------------------------------------------------------
(* The shapes of a handler.                                                *)

\* A record in the queue of the peer is taken from its head.
LEMMA ConsumedIs ==
    ASSUME IInv, NEW e \in Ends, Has(e)
    PROVE  /\ Consumed(e) \in [Ends -> Seq(Record)]
           /\ Consumed(e)[e] = wire[e]
           /\ Shorter(Sent(Other(e)), Consumed(e)[Other(e)] \o ssl[Other(e)].out)
           /\ Real(Other(e), Got(e))
<1> DEFINE p == Other(e)
           q == wire[p]
           t == ssl[p].out
<1>1. p \in Ends /\ p # e /\ wire \in [Ends -> Seq(Record)] /\ q \in Seq(Record) /\ t \in Seq(Record)
  BY EndAt, EndsAre DEF IInv, Types
<1>2. Genuine(e) /\ Genuine(p) /\ Other(p) = e
  BY <1>1, EndAt
<1>3. CASE ssl[e].keep
  BY <1>1, <1>2, <1>3 DEF Consumed, Got, Shorter, Sent, Genuine
<1>4. CASE ~ ssl[e].keep
  <2>1. q # <<>> /\ Consumed(e) = [wire EXCEPT ![p] = Tail(q)] /\ Got(e) = Head(q)
    BY <1>4 DEF Has, Consumed, Got
  <2>2. Tail(q) \in Seq(Record) /\ Head(q) = q[1] /\ Len(q) \in Nat /\ Len(q) >= 1
    BY <1>1, <2>1, HeadTailProperties, EmptySeq, LenProperties
  <2> HIDE DEF q, t
  <2>3. q \o t # <<>> /\ Tail(q \o t) = Tail(q) \o t /\ (q \o t)[1] = q[1] /\ Len(q \o t) \in Nat
        /\ Len(q \o t) >= 1
    BY <1>1, <2>1, <2>2
  <2>4. Sent(p) = q \o t
    BY DEF Sent, q, t
  <2>5. Real(p, Got(e))
    BY <1>2, <2>1, <2>2, <2>3, <2>4 DEF Genuine
  <2> USE DEF q, t
  <2>6. Consumed(e)[p] = Tail(q) /\ Consumed(e)[e] = wire[e]
        /\ Consumed(e) \in [Ends -> Seq(Record)]
    BY <1>1, <2>1, <2>2
  <2> QED
    BY <2>3, <2>4, <2>5, <2>6 DEF Shorter
<1> QED
  BY <1>3, <1>4

\* A Finished that is read is the last record its sender, still running, has
\* sealed, and tells of it.
LEMMA FinishedTells ==
    ASSUME IInv, NEW e \in Ends, Has(e), ~ ssl[e].keep, Got(e).type = "Finished"
    PROVE  LET p == Other(e) IN
           /\ Vouches(p, ssl[p], Got(e))
           /\ ssl[p].result = "running" => Consumed(e)[p] \o ssl[p].out = <<>>
<1> DEFINE p == Other(e)
           q == wire[p]
           t == ssl[p].out
<1>1. p \in Ends /\ p # e /\ wire \in [Ends -> Seq(Record)] /\ q \in Seq(Record) /\ t \in Seq(Record)
  BY EndAt, EndsAre DEF IInv, Types
<1>2. LastWord(p)
  BY <1>1, EndAt
<1>3. q # <<>> /\ Consumed(e) = [wire EXCEPT ![p] = Tail(q)] /\ Got(e) = Head(q)
  BY DEF Has, Consumed, Got
<1>4. Sent(p) = q \o t /\ Consumed(e)[p] = Tail(q)
  BY <1>1, <1>3 DEF Sent
<1>5. Got(e) = q[1]
  BY <1>1, <1>3
<1> HIDE DEF q, t
<1>6. /\ Len(q) \in Nat /\ Len(t) \in Nat /\ Len(q) >= 1
      /\ (q \o t)[1] = q[1] /\ Len(q \o t) = Len(q) + Len(t)
  BY <1>1, <1>3
<1>7. 1 \in 1 .. Len(Sent(p)) /\ Sent(p)[1] = Got(e)
  BY <1>4, <1>5, <1>6
<1>8. /\ Vouches(p, ssl[p], Sent(p)[1])
      /\ ssl[p].result = "running" => 1 = Len(Sent(p))
  BY <1>2, <1>7 DEF LastWord
<1>9. Len(q) + Len(t) = 1 => Tail(q) \o t = <<>>
  BY <1>1, <1>3, <1>6
<1> QED
  BY <1>4, <1>6, <1>7, <1>8, <1>9 DEF t

\* A move that seals nothing.
LEMMA Silent ==
    ASSUME IInv, NEW e \in Ends, NEW b \in Context,
           setup' = setup, ssl' = [ssl EXCEPT ![e] = b],
           wire' \in [Ends -> Seq(Record)], flights' \in [Ends -> Nat],
           Knows(e, b), Steady(e, ssl[e], b),
           b.result = "running" => ssl[e].result = "running",
           b.keep => Real(Other(e), b.msg),
           Sent(e)' = Sent(e),
           Shorter(Sent(Other(e)), Sent(Other(e))'),
           Settled(e, ssl[e], b) \/ HasHeard(e, Other(e))'
    PROVE  IInv'
<1> DEFINE new == <<>>
<1>1. new \in Seq(Record) /\ Len(new) = 0 /\ Len(new) <= 1
  OBVIOUS
<1>2. new = <<>> \/ ~ Said(e, ssl[e]) \/ b.result # "running"
  OBVIOUS
<1>3. \A i \in 1 .. Len(new) :
         /\ Real(e, new[i])
         /\ new[i].type = "Finished" => Vouches(e, b, new[i])
  BY <1>1
<1>4. \A q \in Seq(Record) : q \o new = q
  OBVIOUS
<1>5. Sent(e)' = Sent(e) \o new
  BY <1>4, EndAt
<1> HIDE DEF new
<1>6. new # <<>> => ~ Said(e, ssl[e]) \/ b.result # "running"
  BY <1>2
<1>7. Move(e, b, new)
  BY <1>1, <1>3, <1>5, <1>6 DEF Move
<1> QED
  BY <1>7, Moves

\* A step of one end that neither reads nor sends.
LEMMA BecomeIs ==
    ASSUME IInv, NEW e \in Ends, NEW b, Become(e, b),
           ssl[e].out = <<>>, ssl[e].result = "running",
           b.keep => ssl[e].keep /\ b.msg = ssl[e].msg,
           Fits(e, b), Settled(e, ssl[e], b)
    PROVE  IInv'
<1>1. /\ b \in Context /\ b.out = <<>> /\ Knows(e, b) /\ Steady(e, ssl[e], b)
      /\ b.result = "running"
  BY DEF Fits
<1>2. setup' = setup /\ ssl' = [ssl EXCEPT ![e] = b] /\ wire' = wire /\ flights' = flights
  BY DEF Become
<1>3. wire \in [Ends -> Seq(Record)] /\ flights \in [Ends -> Nat] /\ ssl \in [Ends -> Context]
  BY DEF IInv, Types
<1>4. Sent(e)' = Sent(e) /\ Sent(Other(e))' = Sent(Other(e))
  BY <1>1, <1>2, <1>3, EndAt DEF Sent
<1>5. b.keep => Real(Other(e), b.msg)
  BY EndAt DEF Genuine
<1>6. Shorter(Sent(Other(e)), Sent(Other(e))')
  BY <1>4 DEF Shorter
<1> QED
  BY <1>1, <1>2, <1>3, <1>4, <1>5, <1>6, Silent

\* A step of one end that takes the record in front of it.
LEMMA AcceptIs ==
    ASSUME IInv, NEW e \in Ends, NEW b, Has(e),
           ssl[e].out = <<>>, ssl[e].result = "running",
           setup' = setup, ssl' = [ssl EXCEPT ![e] = b], wire' = Consumed(e),
           flights' \in [Ends -> Nat],
           b.keep => b.msg = Got(e),
           Fits(e, b), Settled(e, ssl[e], b) \/ HasHeard(e, Other(e))'
    PROVE  IInv'
<1>1. /\ b \in Context /\ b.out = <<>> /\ Knows(e, b) /\ Steady(e, ssl[e], b)
      /\ b.result = "running"
  BY DEF Fits
<1>2. ssl \in [Ends -> Context]
  BY DEF IInv, Types
<1>3. /\ Consumed(e) \in [Ends -> Seq(Record)] /\ Consumed(e)[e] = wire[e]
      /\ Shorter(Sent(Other(e)), Consumed(e)[Other(e)] \o ssl[Other(e)].out)
      /\ Real(Other(e), Got(e))
  BY ConsumedIs
<1>4. Sent(e)' = Sent(e)
  BY <1>1, <1>2, <1>3, EndAt DEF Sent
<1>5. Sent(Other(e))' = Consumed(e)[Other(e)] \o ssl[Other(e)].out
  BY <1>2, EndAt DEF Sent
<1> QED
  BY <1>1, <1>3, <1>4, <1>5, Silent

\* A sealed record carries the type, the body and the transcript.
LEMMA SealIs ==
    ASSUME NEW s \in Context, NEW type \in MessageTypes, NEW body \in Bodies
    PROVE  LET r == Seal(s, type, body) IN
           /\ r \in Record /\ r.type = type /\ r.body = body
           /\ type \in Bound => r.covers = s.checksum
<1> DEFINE r == Seal(s, type, body)
           c == IF type \in Bound THEN s.checksum ELSE <<>>
<1>1. r = [type |-> type, body |-> body, key |-> s.outKey, covers |-> c]
  BY DEF Seal
<1>2. s.outKey \in Keys /\ c \in Seq(Entry)
  <2>1. s.outKey \in Keys /\ s.checksum \in Seq(Entry)
    BY DEF Context
  <2> QED
    BY <2>1
<1> HIDE DEF r, c
<1>3. r \in Record /\ r.type = type /\ r.body = body /\ r.covers = c
  BY <1>1, <1>2 DEF Record
<1> QED
  BY <1>3 DEF r, c

\* out and result, of which an end says little.
LEMMA KnowsAlike ==
    ASSUME NEW e \in Ends, NEW a, NEW b, Knows(e, a),
           b.state = a.state, b.version = a.version, b.checksum = a.checksum, b.keep = a.keep,
           b.clientAuth = a.clientAuth, b.peerCert = a.peerCert, b.inKey = a.inKey,
           b.outKey = a.outKey, Len(b.out) <= 1, b.state # "HANDSHAKE_OVER"
    PROVE  Knows(e, b)
<1>1. Heard(b) = Heard(a)
  BY DEF Heard
<1>2. \A type : HeardAny(b, type) <=> HeardAny(a, type)
  BY <1>1 DEF HeardAny
<1>3. EndKnows(b)
  BY DEF EndKnows
<1>4. CASE e = "client"
  <2>1. ClientKnows(a)
    BY <1>4 DEF Knows
  <2>2. Client13Knows(a) => Client13Knows(b)
    BY <1>1 DEF Client13Knows
  <2>3. Client12Knows(a) => Client12Knows(b)
    BY <1>1, <1>2 DEF Client12Knows
  <2>4. ClientKnows(b)
    BY <1>2, <1>3, <2>1, <2>2, <2>3 DEF ClientKnows
  <2> QED
    BY <1>4, <2>4 DEF Knows
<1>5. CASE e = "server"
  <2>1. ServerKnows(a)
    BY <1>5 DEF Knows
  <2>2. Server13Knows(a) => Server13Knows(b)
    BY <1>1, <1>2 DEF Server13Knows
  <2>3. Server12Knows(a) => Server12Knows(b)
    BY <1>1, <1>2 DEF Server12Knows
  <2>4. ServerKnows(b)
    BY <1>3, <2>1, <2>2, <2>3 DEF ServerKnows
  <2> QED
    BY <1>5, <2>4 DEF Knows
<1> QED
  BY <1>4, <1>5 DEF Ends

\* The context a handler leaves that writes a message, but for out.
Written(s, type, body, state) ==
    [(IF type = "ChangeCipherSpec" THEN s ELSE Hashed(s, type, body)) EXCEPT !.state = state]

\* What w has of s.
WrittenOf(s, type, body, state, w) ==
    /\ w \in Context /\ w.state = state /\ w.version = s.version /\ w.keep = s.keep
    /\ w.out = s.out /\ w.result = s.result
    /\ type = "ChangeCipherSpec" => w.checksum = s.checksum
    /\ type # "ChangeCipherSpec" => w.checksum = Append(s.checksum, <<type, body>>)
    /\ w.inKey = s.inKey /\ w.outKey = s.outKey /\ w.clientAuth = s.clientAuth
    /\ w.peerCert = s.peerCert

\* What writing a message does to the end that writes it.
LEMMA WrittenIs ==
    ASSUME NEW s \in Context, NEW type \in MessageTypes, NEW body \in Bodies, NEW state \in StateNames
    PROVE  WrittenOf(s, type, body, state, Written(s, type, body, state))
<1> USE DEF WrittenOf
<1>1. CASE type = "ChangeCipherSpec"
  <2>1. Written(s, type, body, state) = [s EXCEPT !.state = state]
    BY <1>1 DEF Written
  <2> QED
    BY <1>1, <2>1 DEF Context
<1>2. CASE type # "ChangeCipherSpec"
  <2> DEFINE c == Append(s.checksum, <<type, body>>)
  <2>1. c \in Seq(Entry)
    BY InAppend DEF Context, Entry
  <2>2. Written(s, type, body, state) = [s EXCEPT !.checksum = c, !.state = state]
    BY <1>2 DEF Written, Hashed, Context
  <2> HIDE DEF c
  <2>3. LET w == [s EXCEPT !.checksum = c, !.state = state]
        IN  /\ w \in Context /\ w.state = state /\ w.version = s.version /\ w.keep = s.keep
            /\ w.out = s.out /\ w.result = s.result /\ w.checksum = c
            /\ w.inKey = s.inKey /\ w.outKey = s.outKey /\ w.clientAuth = s.clientAuth
            /\ w.peerCert = s.peerCert
    BY <2>1 DEF Context
  <2> QED
    BY <1>2, <2>2, <2>3 DEF c
<1> QED
  BY <1>1, <1>2

\* A step of one end that sends one message.
LEMMA WriteIs ==
    ASSUME IInv, NEW e \in Ends, NEW s \in Context, NEW type \in MessageTypes,
           NEW body \in Bodies, NEW state,
           Write(e, s, type, body, state),
           ssl[e].out = <<>>, ssl[e].result = "running",
           s.keep => ssl[e].keep /\ s.msg = ssl[e].msg,
           state # "HANDSHAKE_OVER",
           Real(e, Seal(s, type, body)),
           Fits(e, Written(s, type, body, state)),
           ~ Said(e, ssl[e]),
           Settled(e, ssl[e], Written(s, type, body, state)),
           type = "Finished" => Vouches(e, Written(s, type, body, state), Seal(s, type, body))
    PROVE  IInv'
<1> DEFINE w == Written(s, type, body, state)
           record == Seal(s, type, body)
           later == s.version = "tls13" \/ type = "ClientHello"
           b == [w EXCEPT !.out = IF later THEN <<record>> ELSE <<>>]
<1>1. /\ w \in Context /\ w.out = <<>> /\ Knows(e, w) /\ w.result = "running"
      /\ w.state = state /\ (w.keep => ssl[e].keep /\ w.msg = ssl[e].msg)
  <2>1. s.checksum \in Seq(Entry)
    BY DEF Context
  <2> QED
    BY <2>1 DEF Fits, Written, Hashed, Context
<1>2. record \in Record
  BY SealIs
<1>3. ssl' = [ssl EXCEPT ![e] = b]
  <2>1. w.out = <<>> /\ Append(<<>>, record) = <<record>>
    BY <1>1
  <2>2. [(IF type = "ChangeCipherSpec" THEN s ELSE Hashed(s, type, body))
            EXCEPT !.state = state,
                   !.out = IF later THEN Append(@, record) ELSE @] = b
    <3>1. (IF type = "ChangeCipherSpec" THEN s ELSE Hashed(s, type, body)).out = <<>>
      BY <1>1 DEF Written, Context, Hashed
    <3> QED
      BY <2>1, <3>1 DEF Written
  <2> QED
    BY <2>2 DEF Write
<1>4. /\ setup' = setup /\ ssl \in [Ends -> Context]
      /\ wire' = IF later THEN wire ELSE [wire EXCEPT ![e] = Append(@, record)]
      /\ wire \in [Ends -> Seq(Record)] /\ wire' \in [Ends -> Seq(Record)]
  BY <1>2 DEF Write, IInv, Types
<1>5. flights' \in [Ends -> Nat]
  BY DEF Write, Count, IInv, Types
<1> DEFINE new == <<record>>
<1>6. /\ b \in Context /\ b.result = "running" /\ b.state = w.state /\ b.version = w.version
      /\ b.checksum = w.checksum /\ Len(b.out) <= 1 /\ (b.keep => w.keep /\ b.msg = w.msg)
      /\ b = [w EXCEPT !.out = b.out] /\ b.out = IF later THEN new ELSE <<>>
  <2>1. <<record>> \in Seq(Record) /\ <<>> \in Seq(Record) /\ Len(<<record>>) = 1 /\ Len(<<>>) = 0
    BY <1>2
  <2> DEFINE x == IF later THEN <<record>> ELSE <<>>
  <2>2. x \in Seq(Record) /\ Len(x) <= 1 /\ b = [w EXCEPT !.out = x]
    BY <2>1
  <2> HIDE DEF b, w, x
  <2>3. /\ b \in Context /\ b.result = w.result /\ b.state = w.state /\ b.version = w.version
        /\ b.checksum = w.checksum /\ b.out = x /\ b.keep = w.keep /\ b.msg = w.msg
    BY <1>1, <2>2 DEF Context
  <2>4. x = IF later THEN new ELSE <<>>
    BY DEF x
  <2> QED
    BY <1>1, <2>2, <2>3, <2>4
<1>7. Knows(e, b)
  <2> HIDE DEF b, w
  <2>1. /\ b.keep = w.keep /\ b.clientAuth = w.clientAuth /\ b.peerCert = w.peerCert
        /\ b.inKey = w.inKey /\ b.outKey = w.outKey
    BY <1>1, <1>6 DEF Context
  <2> QED
    BY <1>1, <1>6, <2>1, KnowsAlike
<1>8. ssl'[e] = b /\ Other(e) # e /\ Other(e) \in Ends
  BY <1>3, <1>4, EndAt
<1>9. Sent(e)' = Sent(e) \o new /\ Sent(Other(e))' = Sent(Other(e))
  <2>1. Sent(e)' = wire'[e] \o b.out /\ Sent(e) = wire[e] \o <<>>
    BY <1>8 DEF Sent
  <2>2. wire[e] \in Seq(Record)
    BY <1>4
  <2>3. \A q \in Seq(Record) : q \o <<>> = q /\ Append(q, record) \o <<>> = q \o new
    BY <1>2
  <2>4. Sent(Other(e))' = Sent(Other(e))
    BY <1>3, <1>4, <1>8 DEF Sent
  <2>5. CASE later
    <3>1. wire'[e] = wire[e] /\ b.out = new
      BY <1>4, <1>6, <2>5
    <3>2. Sent(e)' = wire[e] \o new /\ Sent(e) = wire[e]
      BY <2>1, <2>2, <2>3, <3>1
    <3> QED
      BY <2>4, <3>2
  <2>6. CASE ~ later
    <3>1. wire'[e] = Append(wire[e], record) /\ b.out = <<>>
      BY <1>4, <1>6, <2>6
    <3>2. Sent(e)' = wire[e] \o new /\ Sent(e) = wire[e]
      BY <2>1, <2>2, <2>3, <3>1
    <3> QED
      BY <2>4, <3>2
  <2> QED
    BY <2>4, <2>5, <2>6
<1>10. new \in Seq(Record) /\ Len(new) = 1 /\ new[1] = record
  BY <1>2
<1>11. Steady(e, ssl[e], b)
  BY DEF Steady
<1>12. Settled(e, ssl[e], b)
  BY <1>6 DEF Settled, Done, ClientDone, ServerDone
<1>13. type = "Finished" => Vouches(e, b, record)
  BY <1>6 DEF Vouches, Said, ClientSaid, ServerSaid, Last
<1>14. b.keep => Real(Other(e), b.msg)
  BY <1>1, <1>6, EndAt DEF Genuine
<1>15. record.type = type
  BY DEF Seal
<1> HIDE DEF b, w, record, later
<1>16. \A i \in 1 .. Len(new) : Real(e, new[i]) /\ (new[i].type = "Finished" => Vouches(e, b, new[i]))
  BY <1>10, <1>13, <1>15 DEF record
<1> HIDE DEF new
<1>17. Move(e, b, new)
  BY <1>3, <1>4, <1>5, <1>6, <1>7, <1>9, <1>10, <1>11, <1>12, <1>14, <1>16 DEF Move, Shorter
<1> QED
  BY <1>17, Moves

\* The end e gives up.
LEMMA FailIs ==
    ASSUME IInv, NEW e \in Ends, NEW reason \in Results \ {"running"}, NEW W, NEW alerts,
           W = wire \/ (Has(e) /\ W = Consumed(e)),
           alerts = <<>> \/ alerts = FatalAlert(e),
           Running(e), ssl[e].out = <<>>,
           setup' = setup, ssl' = [ssl EXCEPT ![e].result = reason],
           wire' = [W EXCEPT ![e] = @ \o alerts], flights' = flights
    PROVE  IInv'
<1> DEFINE b == [ssl[e] EXCEPT !.result = reason]
<1>1. /\ ssl[e] \in Context /\ ssl \in [Ends -> Context] /\ Knows(e, ssl[e])
      /\ wire \in [Ends -> Seq(Record)] /\ Genuine(e) /\ flights' \in [Ends -> Nat]
      /\ Other(e) # e /\ Other(e) \in Ends
  BY EndAt DEF IInv, Types
<1>2. /\ b \in Context /\ b.result # "running" /\ b.state = ssl[e].state
      /\ b.version = ssl[e].version /\ b.checksum = ssl[e].checksum /\ b.out = <<>>
      /\ b.keep = ssl[e].keep /\ b.msg = ssl[e].msg /\ ssl' = [ssl EXCEPT ![e] = b]
      /\ b.inKey = ssl[e].inKey /\ b.outKey = ssl[e].outKey /\ b.clientAuth = ssl[e].clientAuth
      /\ b.peerCert = ssl[e].peerCert
  BY <1>1 DEF Context
<1>3. ssl[e].state # "HANDSHAKE_OVER"
  BY DEF Running
<1> HIDE DEF b
<1>4. Knows(e, b)
  <2>1. Len(b.out) <= 1
    BY <1>2
  <2> QED
    BY <1>1, <1>2, <1>3, <2>1, KnowsAlike
<1>5. /\ Steady(e, ssl[e], b) /\ Settled(e, ssl[e], b)
      /\ b.keep => Real(Other(e), b.msg)
  BY <1>1, <1>2 DEF Steady, Settled, Genuine, Said, ClientSaid, ServerSaid, Done, ClientDone,
     ServerDone
<1>6. /\ W \in [Ends -> Seq(Record)] /\ W[e] = wire[e]
      /\ Shorter(Sent(Other(e)), W[Other(e)] \o ssl[Other(e)].out)
  <2>1. Shorter(Sent(Other(e)), wire[Other(e)] \o ssl[Other(e)].out)
    BY DEF Shorter, Sent
  <2> QED
    BY <1>1, <2>1, ConsumedIs
<1>7. alerts \in Seq(Record) /\ Len(alerts) <= 1
      /\ \A i \in 1 .. Len(alerts) : Real(e, alerts[i]) /\ alerts[i].type # "Finished"
  <2>1. CASE alerts = <<>>
    BY <2>1
  <2>2. CASE alerts = FatalAlert(e)
    <3> DEFINE a == Seal(ssl[e], "alert", "fatal")
    <3>1. a \in Record /\ a.type = "alert" /\ Real(e, a)
      <4>1. "alert" \in MessageTypes /\ "fatal" \in Bodies
        BY DEF MessageTypes, Bodies
      <4>2. a \in Record /\ a.type = "alert"
        BY <1>1, <4>1, SealIs
      <4> HIDE DEF a
      <4> QED
        BY <4>2 DEF Real, Bound
    <3> HIDE DEF a
    <3>2. alerts = <<a>>
      BY <2>2 DEF FatalAlert, a
    <3> QED
      BY <3>1, <3>2
  <2> QED
    BY <2>1, <2>2
<1>8. wire' \in [Ends -> Seq(Record)] /\ wire'[e] = wire[e] \o alerts
      /\ wire'[Other(e)] = W[Other(e)]
  BY <1>1, <1>6, <1>7
<1>9. Sent(e)' = Sent(e) \o alerts
  <2>1. Sent(e)' = (wire[e] \o alerts) \o <<>> /\ Sent(e) = wire[e] \o <<>>
    BY <1>1, <1>2, <1>8 DEF Sent
  <2>2. \A q \in Seq(Record) : (q \o alerts) \o <<>> = (q \o <<>>) \o alerts
    BY <1>7
  <2> QED
    BY <1>1, <2>1, <2>2
<1>10. Shorter(Sent(Other(e)), Sent(Other(e))')
  BY <1>1, <1>2, <1>6, <1>8 DEF Sent
<1>11. Move(e, b, alerts)
  BY <1>1, <1>2, <1>4, <1>5, <1>7, <1>8, <1>9, <1>10 DEF Move
<1> QED
  BY <1>11, Moves

-----------------------------------------------------------------------------
(* What a handler finds, and the contexts it starts from.                  *)

\* An end in a state of its version, with nothing left to flush.
LEMMA AtIs ==
    ASSUME IInv, NEW e \in Ends, NEW version \in Versions, NEW state, At(e, version, state)
    PROVE  /\ ssl[e] \in Context /\ Knows(e, ssl[e]) /\ setup \in Setup
           /\ ssl[e].out = <<>> /\ ssl[e].result = "running"
           /\ ssl[e].version = version /\ ssl[e].state = state /\ Running(e)
           /\ state # "HANDSHAKE_OVER"
  BY EndAt DEF At, Running

\* An end in such a state with a message it may take in front of it.
LEMMA ReadIs ==
    ASSUME IInv, NEW e \in Ends, NEW version \in Versions, NEW state, Reads(e, version, state)
    PROVE  /\ ssl[e] \in Context /\ Knows(e, ssl[e]) /\ setup \in Setup
           /\ ssl[e].out = <<>> /\ ssl[e].result = "running"
           /\ ssl[e].version = version /\ ssl[e].state = state /\ Running(e)
           /\ state # "HANDSHAKE_OVER" /\ Has(e)
           /\ Got(e) \in Record /\ Real(Other(e), Got(e)) /\ Got(e).type \in Takes(e)
           /\ Got(e).type \in MessageTypes /\ Got(e).body \in Bodies
           /\ Consumed(e) \in [Ends -> Seq(Record)]
<1>1. At(e, version, state) /\ Has(e) /\ Got(e).type \in Takes(e)
  BY DEF Reads
<1>2. Real(Other(e), Got(e)) /\ Consumed(e) \in [Ends -> Seq(Record)]
  BY <1>1, ConsumedIs
<1>3. Got(e) \in Record
  BY <1>2 DEF Real
<1>4. Got(e).type \in MessageTypes /\ Got(e).body \in Bodies
  BY <1>3 DEF Record
<1> QED
  BY <1>1, <1>2, <1>3, <1>4, AtIs

\* A transcript one message longer.
Longer(s, b, type, body) ==
    /\ Heard(b) = Heard(s) \cup {<<type, body>>}
    /\ \A t : HeardAny(b, t) <=> HeardAny(s, t) \/ t = type

\* What an end has heard after one message more.
LEMMA HeardMore ==
    ASSUME NEW s \in Context, NEW type \in MessageTypes, NEW body \in Bodies, NEW b,
           b.checksum = Append(s.checksum, <<type, body>>)
    PROVE  b.checksum \in Seq(Entry) /\ Longer(s, b, type, body)
<1>1. s.checksum \in Seq(Entry) /\ <<type, body>> \in Entry
  BY DEF Context, Entry
<1>2. b.checksum \in Seq(Entry) /\ Heard(b) = Heard(s) \cup {<<type, body>>}
  BY <1>1, InAppend DEF Heard
<1>3. \A t, y : <<t, y>> = <<type, body>> <=> t = type /\ y = body
  OBVIOUS
<1> QED
  BY <1>2, <1>3 DEF HeardAny, Longer

\* What an end has heard when its transcript does not change.
LEMMA HeardSame ==
    ASSUME NEW s, NEW b, b.checksum = s.checksum
    PROVE  Heard(b) = Heard(s) /\ \A t : HeardAny(b, t) <=> HeardAny(s, t)
  BY DEF Heard, HeardAny

\* Taking a message of TLS 1.3 into the transcript.
LEMMA Hash13Is ==
    ASSUME NEW e, ssl[e] \in Context, Got(e).type \in MessageTypes, Got(e).body \in Bodies
    PROVE  LET h == Hash13(e)
               s == ssl[e]
           IN  /\ h \in Context
               /\ h.checksum = Append(s.checksum, <<Got(e).type, Got(e).body>>) /\ ~ h.keep
               /\ h.state = s.state /\ h.version = s.version /\ h.out = s.out
               /\ h.inKey = s.inKey /\ h.outKey = s.outKey /\ h.clientAuth = s.clientAuth
               /\ h.peerCert = s.peerCert /\ h.result = s.result
<1> DEFINE c == Append(ssl[e].checksum, <<Got(e).type, Got(e).body>>)
<1>1. c \in Seq(Entry)
  BY HeardMore, InAppend DEF Context, Entry
<1>2. Hash13(e) = [ssl[e] EXCEPT !.keep = FALSE, !.msg = NoMessage, !.checksum = c]
  BY DEF Hash13, Hashed, Context
<1> HIDE DEF c
<1>3. NoMessage \in Record \cup {NoMessage}
  OBVIOUS
<1> QED
  BY <1>1, <1>2, <1>3 DEF Context, c

\* Taking a message that the transcript leaves out.
LEMMA UnhashedIs ==
    ASSUME NEW e, ssl[e] \in Context
    PROVE  LET h == Unhashed(e)
               s == ssl[e]
           IN  /\ h \in Context /\ h.checksum = s.checksum /\ ~ h.keep
               /\ h.state = s.state /\ h.version = s.version /\ h.out = s.out
               /\ h.inKey = s.inKey /\ h.outKey = s.outKey /\ h.clientAuth = s.clientAuth
               /\ h.peerCert = s.peerCert /\ h.result = s.result
<1>1. NoMessage \in Record \cup {NoMessage}
  OBVIOUS
<1> QED
  BY <1>1 DEF Unhashed, Context

\* A message that was kept has been hashed.
LEMMA Hash12Is ==
    ASSUME NEW e, ssl[e] \in Context, Got(e).type \in MessageTypes, Got(e).body \in Bodies
    PROVE  LET h == Hash12(e)
               s == ssl[e]
           IN  /\ h \in Context
               /\ s.keep => h.checksum = s.checksum
               /\ ~ s.keep => h.checksum = Append(s.checksum, <<Got(e).type, Got(e).body>>)
               /\ ~ h.keep
               /\ h.state = s.state /\ h.version = s.version /\ h.out = s.out
               /\ h.inKey = s.inKey /\ h.outKey = s.outKey /\ h.clientAuth = s.clientAuth
               /\ h.peerCert = s.peerCert /\ h.result = s.result
<1>1. CASE ssl[e].keep
  <2>1. Hash12(e) = Unhashed(e)
    BY <1>1 DEF Hash12, Unhashed
  <2> QED
    BY <1>1, <2>1, UnhashedIs
<1>2. CASE ~ ssl[e].keep
  <2>1. Hash12(e) = Hash13(e)
    BY <1>2 DEF Hash12
  <2> QED
    BY <1>2, <2>1, Hash13Is
<1> QED
  BY <1>1, <1>2

\* What the states take that matters here.
LEMMA Takes13Are ==
    /\ ssl["client"].version = "tls13" =>
         LET s == ssl["client"].state
             t == Takes("client")
         IN  /\ s = "SERVER_HELLO" => t = {"ServerHello"}
             /\ s = "ENCRYPTED_EXTENSIONS" => t = {"EncryptedExtensions"}
             /\ s = "SERVER_CERTIFICATE" => t = {"Certificate"}
             /\ s = "CERTIFICATE_VERIFY" => t = {"CertificateVerify"}
             /\ s = "SERVER_FINISHED" => t = {"Finished"}
    /\ ssl["server"].version = "tls13" =>
         LET s == ssl["server"].state
             t == Takes("server")
         IN  /\ s = "CLIENT_HELLO" => t = {"ClientHello"}
             /\ s = "CLIENT_CERTIFICATE" => t = {"Certificate"}
             /\ s = "CLIENT_CERTIFICATE_VERIFY" => t = {"CertificateVerify"}
             /\ s = "CLIENT_FINISHED" => t = {"Finished"}
  BY DEF Takes, Takes13

\* The one type of message each state of TLS 1.2 takes.
LEMMA Takes12Are ==
    /\ ssl["client"].version = "tls12" =>
         LET s == ssl["client"].state
             t == Takes("client")
         IN  /\ s = "SERVER_HELLO" => t = {"ServerHello"}
             /\ s = "SERVER_CERTIFICATE" => t = {"Certificate"}
             /\ s = "SERVER_KEY_EXCHANGE" => t \subseteq {"ServerKeyExchange"}
             /\ s = "SERVER_HELLO_DONE" => t = {"ServerHelloDone"}
             /\ s = "NEW_SESSION_TICKET" => t = {"NewSessionTicket"}
             /\ s = "SERVER_CHANGE_CIPHER_SPEC" => t \subseteq {"ChangeCipherSpec"}
             /\ s = "SERVER_FINISHED" => t = {"Finished"}
    /\ ssl["server"].version = "tls12" =>
         LET s == ssl["server"].state
             t == Takes("server")
         IN  /\ s = "CLIENT_HELLO" => t = {"ClientHello"}
             /\ s = "CLIENT_CERTIFICATE" => t \subseteq {"Certificate"}
             /\ s = "CLIENT_KEY_EXCHANGE" => t = {"ClientKeyExchange"}
             /\ s = "CERTIFICATE_VERIFY" => t \subseteq {"CertificateVerify"}
             /\ s = "CLIENT_CHANGE_CIPHER_SPEC" => t = {"ChangeCipherSpec"}
             /\ s = "CLIENT_FINISHED" => t = {"Finished"}
<1>1. ASSUME ssl["client"].version = "tls12"
      PROVE  LET s == ssl["client"].state
                 t == Takes("client")
             IN  /\ s = "SERVER_HELLO" => t = {"ServerHello"}
                 /\ s = "SERVER_CERTIFICATE" => t = {"Certificate"}
                 /\ s = "SERVER_KEY_EXCHANGE" => t \subseteq {"ServerKeyExchange"}
                 /\ s = "SERVER_HELLO_DONE" => t = {"ServerHelloDone"}
                 /\ s = "NEW_SESSION_TICKET" => t = {"NewSessionTicket"}
                 /\ s = "SERVER_CHANGE_CIPHER_SPEC" => t \subseteq {"ChangeCipherSpec"}
                 /\ s = "SERVER_FINISHED" => t = {"Finished"}
  BY <1>1 DEF Takes, Takes12
<1>2. ASSUME ssl["server"].version = "tls12"
      PROVE  LET s == ssl["server"].state
                 t == Takes("server")
             IN  /\ s = "CLIENT_HELLO" => t = {"ClientHello"}
                 /\ s = "CLIENT_CERTIFICATE" => t \subseteq {"Certificate"}
                 /\ s = "CLIENT_KEY_EXCHANGE" => t = {"ClientKeyExchange"}
                 /\ s = "CERTIFICATE_VERIFY" => t \subseteq {"CertificateVerify"}
                 /\ s = "CLIENT_CHANGE_CIPHER_SPEC" => t = {"ChangeCipherSpec"}
                 /\ s = "CLIENT_FINISHED" => t = {"Finished"}
  BY <1>2 DEF Takes, Takes12
<1> QED
  BY <1>1, <1>2

-----------------------------------------------------------------------------
(* The handlers of both ends and both versions.                            *)

\* mbedtls_ssl_flush_output.
LEMMA FlushKeeps ==
    ASSUME IInv, NEW e \in Ends, Flush(e)
    PROVE  IInv'
<1> DEFINE b == [ssl[e] EXCEPT !.out = <<>>]
<1>1. /\ ssl[e] \in Context /\ Knows(e, ssl[e]) /\ Genuine(e) /\ ssl \in [Ends -> Context]
      /\ ssl[e].out \in Seq(Record) /\ wire \in [Ends -> Seq(Record)]
      /\ flights \in [Ends -> Nat] /\ Other(e) \in Ends /\ Other(e) # e
  BY EndAt DEF IInv, Types
<1>2. /\ ssl' = [ssl EXCEPT ![e] = b] /\ setup' = setup /\ flights' = flights
      /\ wire' = [wire EXCEPT ![e] = @ \o ssl[e].out] /\ ssl[e].state # "HANDSHAKE_OVER"
  BY DEF Flush, Running
<1>3. /\ b \in Context /\ b.state = ssl[e].state /\ b.version = ssl[e].version
      /\ b.checksum = ssl[e].checksum /\ b.keep = ssl[e].keep /\ b.msg = ssl[e].msg
      /\ b.clientAuth = ssl[e].clientAuth /\ b.peerCert = ssl[e].peerCert
      /\ b.inKey = ssl[e].inKey /\ b.outKey = ssl[e].outKey /\ b.result = ssl[e].result
      /\ b.out = <<>> /\ Len(b.out) <= 1
  <2>1. <<>> \in Seq(Record) /\ Len(<<>>) <= 1
    OBVIOUS
  <2> QED
    BY <1>1, <2>1 DEF Context
<1> HIDE DEF b
<1>4. Knows(e, b)
  BY <1>1, <1>2, <1>3, KnowsAlike
<1>5. Steady(e, ssl[e], b) /\ Settled(e, ssl[e], b) /\ (b.keep => Real(Other(e), b.msg))
  BY <1>1, <1>3 DEF Steady, Settled, Genuine, Said, ClientSaid, ServerSaid, Done, ClientDone,
     ServerDone
<1>6. wire' \in [Ends -> Seq(Record)] /\ wire'[e] = wire[e] \o ssl[e].out
      /\ wire'[Other(e)] = wire[Other(e)]
  BY <1>1, <1>2
<1>7. Sent(e)' = Sent(e) /\ Sent(Other(e))' = Sent(Other(e))
  <2>1. Sent(e)' = (wire[e] \o ssl[e].out) \o <<>>
    BY <1>1, <1>2, <1>3, <1>6 DEF Sent
  <2>2. \A q \in Seq(Record) : q \o <<>> = q
    OBVIOUS
  <2>3. Sent(Other(e))' = Sent(Other(e))
    BY <1>1, <1>2, <1>6 DEF Sent
  <2> QED
    BY <1>1, <2>1, <2>2, <2>3 DEF Sent
<1> QED
  BY <1>1, <1>2, <1>3, <1>4, <1>5, <1>6, <1>7, Silent DEF Shorter

\* Which states go on without a word: what such a step has to show.
LEMMA GoIs ==
    ASSUME IInv, NEW e \in Ends, NEW version \in Versions, NEW state, NEW next \in StateNames,
           At(e, version, state), Go(e, next),
           Knows(e, [ssl[e] EXCEPT !.state = next]),
           Steady(e, ssl[e], [ssl[e] EXCEPT !.state = next]),
           Settled(e, ssl[e], [ssl[e] EXCEPT !.state = next])
    PROVE  IInv'
<1> DEFINE b == [ssl[e] EXCEPT !.state = next]
<1>1. ssl[e] \in Context /\ ssl[e].out = <<>> /\ ssl[e].result = "running"
  BY AtIs
<1>2. b \in Context /\ b.out = <<>> /\ b.result = "running" /\ b.keep = ssl[e].keep
      /\ b.msg = ssl[e].msg
  BY <1>1 DEF Context
<1>3. Fits(e, b) /\ Become(e, b)
  BY <1>2 DEF Fits, Go
<1> QED
  BY <1>1, <1>2, <1>3, BecomeIs

\* The first step of either side.
LEMMA HelloRequestKeeps ==
    ASSUME IInv, NEW e \in Ends, NEW version \in Versions, hello_request(e, version)
    PROVE  IInv'
<1> DEFINE b == [ssl[e] EXCEPT !.state = "CLIENT_HELLO"]
<1>1. At(e, version, "HELLO_REQUEST") /\ Go(e, "CLIENT_HELLO")
  BY DEF hello_request
<1>2. /\ ssl[e] \in Context /\ Knows(e, ssl[e]) /\ ssl[e].state = "HELLO_REQUEST"
      /\ ssl[e].version = version /\ ssl[e].out = <<>>
  BY <1>1, AtIs
<1>3. /\ b.state = "CLIENT_HELLO" /\ b.version = ssl[e].version
      /\ b.checksum = ssl[e].checksum /\ b.keep = ssl[e].keep
      /\ b.clientAuth = ssl[e].clientAuth /\ b.peerCert = ssl[e].peerCert
      /\ b.inKey = ssl[e].inKey /\ b.outKey = ssl[e].outKey /\ b.out = <<>>
  BY <1>2 DEF Context
<1>4. Heard(b) = Heard(ssl[e]) /\ \A t : HeardAny(b, t) <=> HeardAny(ssl[e], t)
  BY <1>3, HeardSame
<1>5. Len(<<>>) <= 1
  OBVIOUS
<1> HIDE DEF b
<1>6. Knows(e, b)
  <2>1. ASSUME e = "client" PROVE ClientKnows(b)
    BY <1>2, <1>3, <1>4, <1>5, <2>1 DEF Knows, ClientKnows, EndKnows, Client13Knows,
       Client12Knows, Client13States, Client12States
  <2>2. ASSUME e = "server" PROVE ServerKnows(b)
    BY <1>2, <1>3, <1>4, <1>5, <2>2 DEF Knows, ServerKnows, EndKnows, Server13Knows,
       Server12Knows, Server13States, Server12States, Client12States
  <2> QED
    BY <2>1, <2>2 DEF Knows, Ends
<1>7. Steady(e, ssl[e], b) /\ Settled(e, ssl[e], b)
  BY <1>2, <1>3 DEF Steady, Settled, Said, ClientSaid, ServerSaid, Done, ClientDone, ServerDone
<1>8. "CLIENT_HELLO" \in StateNames
  BY DEF StateNames, Client12States
<1> QED
  BY <1>1, <1>6, <1>7, <1>8, GoIs DEF b

\* A ChangeCipherSpec that TLS 1.3 drops.
LEMMA IgnoreKeeps ==
    ASSUME IInv, NEW e \in Ends, IgnoreChangeCipherSpec(e)
    PROVE  IInv'
<1>1. /\ Has(e) /\ setup' = setup /\ ssl' = ssl /\ wire' = Consumed(e) /\ flights' = flights
      /\ flights \in [Ends -> Nat] /\ ssl \in [Ends -> Context] /\ Knows(e, ssl[e])
      /\ Genuine(e) /\ ssl[e] \in Context /\ Other(e) \in Ends
  BY EndAt DEF IgnoreChangeCipherSpec, IInv, Types
<1>2. /\ Consumed(e) \in [Ends -> Seq(Record)] /\ Consumed(e)[e] = wire[e]
      /\ Shorter(Sent(Other(e)), Consumed(e)[Other(e)] \o ssl[Other(e)].out)
  BY <1>1, ConsumedIs
<1>3. Sent(e)' = Sent(e) /\ Sent(Other(e))' = Consumed(e)[Other(e)] \o ssl[Other(e)].out
  BY <1>1, <1>2 DEF Sent
<1>4. ssl' = [ssl EXCEPT ![e] = ssl[e]]
  BY <1>1
<1>5. Steady(e, ssl[e], ssl[e]) /\ Settled(e, ssl[e], ssl[e])
  BY DEF Steady, Settled
<1>6. ssl[e].keep => Real(Other(e), ssl[e].msg)
  BY <1>1 DEF Genuine
<1> QED
  BY <1>1, <1>2, <1>3, <1>4, <1>5, <1>6, Silent

\* A handshake that fails, with an alert or without.
LEMMA FailKeeps ==
    ASSUME IInv, NEW e \in Ends, NEW reason \in Results \ {"running"}, NEW alerts,
           alerts = <<>> \/ alerts = FatalAlert(e),
           Running(e), ssl[e].out = <<>>, Has(e), Fail(e, reason, alerts)
    PROVE  IInv'
  BY FailIs DEF Fail

\* A message that is refused.
LEMMA RefuseKeeps ==
    ASSUME IInv, NEW e \in Ends, NEW reason \in Results \ {"running"},
           Running(e), ssl[e].out = <<>>, Has(e), Refuse(e, reason) \/ Quit(e, reason)
    PROVE  IInv'
  BY FailKeeps DEF Refuse, Quit

\* A record that cannot be read: the wrong key, the wrong type, an alert.
LEMMA ReadFailsKeeps ==
    ASSUME IInv, NEW e \in Ends, ReadFails(e)
    PROVE  IInv'
<1>1. {"bad_mac", "alert", "unexpected"} \subseteq Results \ {"running"}
  BY DEF Results
<1> QED
  BY <1>1, RefuseKeeps DEF ReadFails

\* An end whose peer has stopped sends and hears no more.
LEMMA PeerClosedKeeps ==
    ASSUME IInv, NEW e \in Ends, PeerClosed(e)
    PROVE  IInv'
<1>1. wire \in [Ends -> Seq(Record)]
  BY DEF IInv, Types
<1>2. \A q \in Seq(Record) : q \o <<>> = q
  OBVIOUS
<1>3. wire' = [wire EXCEPT ![e] = @ \o <<>>]
  BY <1>1, <1>2 DEF PeerClosed
<1>4. "eof" \in Results \ {"running"}
  BY DEF Results
<1> QED
  BY <1>3, <1>4, FailIs DEF PeerClosed

\* What a handler that accepts a message has to show of the context b it
\* leaves.
LEMMA AcceptKeeps ==
    ASSUME IInv, NEW e \in Ends, NEW version \in Versions, NEW state,
           Reads(e, version, state),
           NEW s \in Context, NEW next \in StateNames, Accept(e, s, next),
           s.out = <<>>, s.result = "running", ~ s.keep,
           Knows(e, [s EXCEPT !.state = next]),
           Steady(e, ssl[e], [s EXCEPT !.state = next]),
           \/ Settled(e, ssl[e], [s EXCEPT !.state = next])
           \/ HasHeard(e, Other(e))'
    PROVE  IInv'
<1> DEFINE b == [s EXCEPT !.state = next]
<1>1. ssl[e].out = <<>> /\ ssl[e].result = "running" /\ Has(e)
  BY ReadIs
<1>2. b \in Context /\ b.out = <<>> /\ b.result = "running" /\ ~ b.keep
  BY DEF Context
<1>3. Fits(e, b)
  BY <1>2 DEF Fits
<1>4. setup' = setup /\ ssl' = [ssl EXCEPT ![e] = b] /\ wire' = Consumed(e)
  BY DEF Accept
<1>5. flights' \in [Ends -> Nat]
  BY DEF Accept, Count, IInv, Types
<1> QED
  BY <1>1, <1>2, <1>3, <1>4, <1>5, AcceptIs

\* The Finished of the peer has come, and agrees with what e has heard: the
\* peer speaks the same version, has said all it has to say, and has heard the
\* same.  Here the versions part: a transcript of TLS 1.3 holds the ServerHello
\* that chose it, one of TLS 1.2 holds a ClientKeyExchange.
LEMMA FinishedHeard ==
    ASSUME IInv, NEW e \in Ends, NEW version \in Versions, NEW state,
           Reads(e, version, state), Binds(e), ~ ssl[e].keep, Got(e).type = "Finished",
           NEW b, ssl' = [ssl EXCEPT ![e] = b], wire' = Consumed(e), b.version = version,
           b.checksum = Append(ssl[e].checksum, <<Got(e).type, Got(e).body>>),
           e = "client" =>
              IF version = "tls13" THEN <<"ServerHello", "tls13">> \in Heard(ssl[e])
                                   ELSE HeardAny(ssl[e], "ClientKeyExchange")
    PROVE  HasHeard(e, Other(e))'
<1> DEFINE p == Other(e)
           r == Got(e)
           t == ssl[p]
<1>1. /\ ssl[e].version = version /\ Has(e) /\ r \in Record /\ Real(p, r) /\ Knows(e, ssl[e])
      /\ ssl[e] \in Context /\ p \in Ends /\ p # e /\ Knows(p, t) /\ t \in Context
      /\ t.version \in Versions /\ r.covers = ssl[e].checksum /\ ssl \in [Ends -> Context]
      /\ r.covers \in Seq(Entry)
  BY ReadIs, EndAt DEF Binds, IInv, Types, Record
<1>2. r.body = p
  BY <1>1 DEF Real, Bound
<1>3. Vouches(p, t, r) /\ (t.result = "running" => Consumed(e)[p] \o t.out = <<>>)
  BY <1>1, FinishedTells
<1>4. b.checksum = Append(r.covers, <<"Finished", p>>)
  BY <1>1, <1>2
<1>5. In(r.covers) = Heard(ssl[e])
  BY <1>1 DEF Heard
<1>6. Last(p, t) => Heard(t) = Heard(ssl[e]) \cup {<<"Finished", p>>}
  <2>1. <<"Finished", p>> \in Entry
    BY <1>1 DEF Entry, MessageTypes, AnyMessage, Bodies
  <2>2. In(Append(r.covers, <<"Finished", p>>)) = In(r.covers) \cup {<<"Finished", p>>}
    BY <1>1, <2>1, InAppend
  <2> QED
    BY <1>3, <1>5, <2>2 DEF Vouches, Heard
<1>7. t.version = version
  <2>1. CASE e = "client" /\ version = "tls13"
    <3>1. ServerKnows(t) /\ p = "server"
      BY <1>1, <2>1 DEF Knows, Other
    <3> QED
      BY <1>1, <1>6, <2>1, <3>1 DEF Last, ServerKnows, Server12Knows, Versions
  <2>2. CASE e = "client" /\ version = "tls12"
    <3>1. p = "server" /\ HeardAny(ssl[e], "ClientKeyExchange")
      BY <2>2 DEF Other
    <3> QED
      BY <1>1, <1>3, <1>5, <2>2, <3>1 DEF Last, Vouches, HeardAny, Versions
  <2>3. CASE e = "server" /\ version = "tls13"
    <3>1. p = "client" /\ ~ HeardAny(ssl[e], "ClientKeyExchange")
      BY <1>1, <2>3 DEF Other, Knows, ServerKnows, Server13Knows
    <3> QED
      BY <1>1, <1>3, <1>5, <2>3, <3>1 DEF Last, Vouches, HeardAny, Versions
  <2>4. CASE e = "server" /\ version = "tls12"
    <3>1. p = "client" /\ ClientKnows(t) /\ <<"ServerHello", "tls13">> \notin Heard(ssl[e])
      BY <1>1, <2>4 DEF Other, Knows, ServerKnows, Server12Knows
    <3>2. ASSUME t.version = "tls13" PROVE FALSE
      <4>1. <<"ServerHello", "tls13">> \in Heard(t)
        BY <1>3, <3>1, <3>2 DEF Vouches, Said, ClientSaid, ClientKnows, Client13Knows
      <4> QED
        BY <1>6, <3>1, <3>2, <4>1 DEF Last
    <3> QED
      BY <1>1, <2>4, <3>2 DEF Versions
  <2> QED
    BY <2>1, <2>2, <2>3, <2>4 DEF Ends, Versions
<1>8. ssl'[e] = b /\ ssl'[p] = t /\ Sent(p)' = Consumed(e)[p] \o t.out
  BY <1>1 DEF Sent
<1> QED
  BY <1>3, <1>4, <1>7, <1>8 DEF HasHeard, Vouches

-----------------------------------------------------------------------------
(* The TLS 1.3 client.                                                     *)

LEMMA CertificateIs ==
    ASSUME setup \in Setup, NEW e \in Ends, NEW r, Real(Other(e), r), r.type = "Certificate"
    PROVE  r.body \in Certificates
<1>1. setup.cert \in [Ends -> Certificates] /\ Other(e) \in Ends
  BY EndsAre DEF Setup
<1> QED
  BY <1>1 DEF Real

\* The TLS 1.3 client takes a EncryptedExtensions in ENCRYPTED_EXTENSIONS.
LEMMA EncryptedExtensionsKeeps ==
    ASSUME IInv, tls13_process_encrypted_extensions
    PROVE  IInv'
<1> DEFINE a == ssl["client"]
           s == Hash13("client")
           b == [s EXCEPT !.state = "CERTIFICATE_REQUEST"]
<1>1. /\ "client" \in Ends /\ "tls13" \in Versions /\ "CERTIFICATE_REQUEST" \in Client13States
      /\ Client13States \subseteq StateNames
  BY DEF Ends, Versions, StateNames, Client13States
<1>2. Reads("client", "tls13", "ENCRYPTED_EXTENSIONS") /\ Accept("client", s, "CERTIFICATE_REQUEST")
  BY <1>1 DEF tls13_process_encrypted_extensions
<1>3. /\ a \in Context /\ ClientKnows(a) /\ Client13Knows(a) /\ a.out = <<>> /\ a.result = "running"
      /\ a.version = "tls13" /\ a.state = "ENCRYPTED_EXTENSIONS" /\ Running("client") /\ Has("client")
      /\ Got("client").type \in MessageTypes /\ Got("client").body \in Bodies /\ setup \in Setup
      /\ Got("client").type = "EncryptedExtensions" /\ Real(Other("client"), Got("client"))
  BY <1>1, <1>2, ReadIs, Takes13Are DEF Knows, ClientKnows
<1>5. /\ s \in Context /\ s.out = <<>> /\ s.result = "running" /\ ~ s.keep /\ s.version = "tls13"
      /\ s.checksum = Append(a.checksum, <<Got("client").type, Got("client").body>>)
      /\ s.inKey = a.inKey /\ s.outKey = a.outKey /\ s.clientAuth = a.clientAuth /\ s.peerCert = a.peerCert
  BY <1>3, Hash13Is DEF Context
<1>6. /\ b.state = "CERTIFICATE_REQUEST" /\ b.version = "tls13" /\ ~ b.keep /\ b.out = <<>>
      /\ b.result = "running" /\ b.checksum = s.checksum
      /\ b.inKey = s.inKey /\ b.outKey = s.outKey /\ b.clientAuth = s.clientAuth /\ b.peerCert = s.peerCert
  <2> HIDE DEF s
  <2> QED
    BY <1>5 DEF Context
<1> HIDE DEF s, b
<1>7. /\ Heard(b) = Heard(a) \cup {<<Got("client").type, Got("client").body>>}
      /\ \A t : HeardAny(b, t) <=> HeardAny(a, t) \/ t = Got("client").type
  <2>1. Longer(a, b, Got("client").type, Got("client").body)
    BY <1>3, <1>5, <1>6, HeardMore
  <2> QED
    BY <2>1 DEF Longer
<1>8. ClientKnows(b)
  <2>1. Client13Knows(b)
    BY <1>1, <1>3, <1>5, <1>6, <1>7 DEF Client13Knows, ClientKnows
  <2> QED
    BY <2>1, <1>3, <1>5, <1>6, <1>7 DEF ClientKnows, EndKnows
<1>9. Steady("client", a, b) /\ Settled("client", a, b)
  BY <1>3, <1>5, <1>6 DEF Steady, Settled, Said, ClientSaid, Done, ClientDone, Last
<1> QED
  BY <1>1, <1>2, <1>5, <1>8, <1>9, AcceptKeeps DEF b, Knows

\* The client of TLS 1.3 never does without a certificate.
LEMMA ServerCertificate13Keeps ==
    ASSUME IInv, tls13_process_certificate("client", "SERVER_CERTIFICATE", "CERTIFICATE_VERIFY")
    PROVE  IInv'
<1> DEFINE a == ssl["client"]
           s == [Hash13("client") EXCEPT !.peerCert = Got("client").body]
           b == [s EXCEPT !.state = "CERTIFICATE_VERIFY"]
<1>1. /\ "client" \in Ends /\ "tls13" \in Versions /\ "CERTIFICATE_VERIFY" \in Client13States
      /\ Client13States \subseteq StateNames
  BY DEF Ends, Versions, StateNames, Client13States
<1>2. /\ Reads("client", "tls13", "SERVER_CERTIFICATE")
      /\ \/ Accept("client", s, "CERTIFICATE_VERIFY") /\ Forgiven("client", Got("client").body)
         \/ Refuse("client", "no_certificate")
         \/ Refuse("client", "bad_certificate")
  BY <1>1 DEF tls13_process_certificate
<1>3. /\ a \in Context /\ ClientKnows(a) /\ Client13Knows(a) /\ a.out = <<>> /\ a.result = "running"
      /\ a.version = "tls13" /\ a.state = "SERVER_CERTIFICATE" /\ Running("client") /\ Has("client")
      /\ Got("client").type \in MessageTypes /\ Got("client").body \in Bodies /\ setup \in Setup
      /\ Got("client").type = "Certificate" /\ Real(Other("client"), Got("client"))
  BY <1>1, <1>2, ReadIs, Takes13Are DEF Knows, ClientKnows
<1>4. SUFFICES ASSUME Accept("client", s, "CERTIFICATE_VERIFY"), Forgiven("client", Got("client").body)
               PROVE  IInv'
  <2>1. "no_certificate" \in Results \ {"running"} /\ "bad_certificate" \in Results \ {"running"}
    BY DEF Results
  <2>2. ASSUME Refuse("client", "no_certificate") \/ Refuse("client", "bad_certificate") PROVE IInv'
    BY <1>1, <1>3, <2>1, <2>2, RefuseKeeps
  <2> QED
    BY <1>2, <2>2
<1>5. /\ s \in Context /\ s.out = <<>> /\ s.result = "running" /\ ~ s.keep /\ s.version = "tls13"
      /\ s.checksum = Append(a.checksum, <<Got("client").type, Got("client").body>>)
      /\ s.inKey = a.inKey /\ s.outKey = a.outKey /\ s.clientAuth = a.clientAuth /\ s.peerCert = Got("client").body
  BY <1>3, Hash13Is, <1>1, CertificateIs DEF Context
<1>6. /\ b.state = "CERTIFICATE_VERIFY" /\ b.version = "tls13" /\ ~ b.keep /\ b.out = <<>>
      /\ b.result = "running" /\ b.checksum = s.checksum
      /\ b.inKey = s.inKey /\ b.outKey = s.outKey /\ b.clientAuth = s.clientAuth /\ b.peerCert = s.peerCert
  <2> HIDE DEF s
  <2> QED
    BY <1>5 DEF Context
<1> HIDE DEF s, b
<1>7. /\ Heard(b) = Heard(a) \cup {<<Got("client").type, Got("client").body>>}
      /\ \A t : HeardAny(b, t) <=> HeardAny(a, t) \/ t = Got("client").type
  <2>1. Longer(a, b, Got("client").type, Got("client").body)
    BY <1>3, <1>5, <1>6, HeardMore
  <2> QED
    BY <2>1 DEF Longer
<1>8. ClientKnows(b)
  <2>1. Client13Knows(b)
    BY <1>1, <1>3, <1>4, <1>5, <1>6, <1>7 DEF Client13Knows, ClientKnows, Required,
       Forgiven
  <2> QED
    BY <2>1, <1>3, <1>5, <1>6, <1>7 DEF ClientKnows, EndKnows
<1>9. Steady("client", a, b) /\ Settled("client", a, b)
  BY <1>3, <1>5, <1>6 DEF Steady, Settled, Said, ClientSaid, Done, ClientDone, Last
<1> QED
  BY <1>1, <1>2, <1>4, <1>5, <1>8, <1>9, AcceptKeeps DEF b, Knows

\* The TLS 1.3 client takes a CertificateVerify in CERTIFICATE_VERIFY.
LEMMA ServerCertificateVerifyKeeps ==
    ASSUME IInv, tls13_process_certificate_verify("client", "CERTIFICATE_VERIFY", "SERVER_FINISHED")
    PROVE  IInv'
<1> DEFINE a == ssl["client"]
           s == Hash13("client")
           b == [s EXCEPT !.state = "SERVER_FINISHED"]
<1>1. /\ "client" \in Ends /\ "tls13" \in Versions /\ "SERVER_FINISHED" \in Client13States
      /\ Client13States \subseteq StateNames
  BY DEF Ends, Versions, StateNames, Client13States
<1>2. /\ Reads("client", "tls13", "CERTIFICATE_VERIFY")
      /\ \/ Accept("client", s, "SERVER_FINISHED")
         \/ Refuse("client", "bad_signature")
  BY <1>1 DEF tls13_process_certificate_verify
<1>3. /\ a \in Context /\ ClientKnows(a) /\ Client13Knows(a) /\ a.out = <<>> /\ a.result = "running"
      /\ a.version = "tls13" /\ a.state = "CERTIFICATE_VERIFY" /\ Running("client") /\ Has("client")
      /\ Got("client").type \in MessageTypes /\ Got("client").body \in Bodies /\ setup \in Setup
      /\ Got("client").type = "CertificateVerify" /\ Real(Other("client"), Got("client"))
  BY <1>1, <1>2, ReadIs, Takes13Are DEF Knows, ClientKnows
<1>4. SUFFICES ASSUME Accept("client", s, "SERVER_FINISHED")
               PROVE  IInv'
  <2>1. "bad_signature" \in Results \ {"running"}
    BY DEF Results
  <2>2. ASSUME Refuse("client", "bad_signature") PROVE IInv'
    BY <1>1, <1>3, <2>1, <2>2, RefuseKeeps
  <2> QED
    BY <1>2, <2>2
<1>5. /\ s \in Context /\ s.out = <<>> /\ s.result = "running" /\ ~ s.keep /\ s.version = "tls13"
      /\ s.checksum = Append(a.checksum, <<Got("client").type, Got("client").body>>)
      /\ s.inKey = a.inKey /\ s.outKey = a.outKey /\ s.clientAuth = a.clientAuth /\ s.peerCert = a.peerCert
  BY <1>3, Hash13Is DEF Context
<1>6. /\ b.state = "SERVER_FINISHED" /\ b.version = "tls13" /\ ~ b.keep /\ b.out = <<>>
      /\ b.result = "running" /\ b.checksum = s.checksum
      /\ b.inKey = s.inKey /\ b.outKey = s.outKey /\ b.clientAuth = s.clientAuth /\ b.peerCert = s.peerCert
  <2> HIDE DEF s
  <2> QED
    BY <1>5 DEF Context
<1> HIDE DEF s, b
<1>7. /\ Heard(b) = Heard(a) \cup {<<Got("client").type, Got("client").body>>}
      /\ \A t : HeardAny(b, t) <=> HeardAny(a, t) \/ t = Got("client").type
  <2>1. Longer(a, b, Got("client").type, Got("client").body)
    BY <1>3, <1>5, <1>6, HeardMore
  <2> QED
    BY <2>1 DEF Longer
<1>8. ClientKnows(b)
  <2>1. Client13Knows(b)
    BY <1>1, <1>3, <1>5, <1>6, <1>7 DEF Client13Knows, ClientKnows, Real, Bound, Other
  <2> QED
    BY <2>1, <1>3, <1>5, <1>6, <1>7 DEF ClientKnows, EndKnows
<1>9. Steady("client", a, b) /\ Settled("client", a, b)
  BY <1>3, <1>5, <1>6 DEF Steady, Settled, Said, ClientSaid, Done, ClientDone, Last
<1> QED
  BY <1>1, <1>2, <1>4, <1>5, <1>8, <1>9, AcceptKeeps DEF b, Knows

\* The TLS 1.3 client takes a Finished in SERVER_FINISHED.
LEMMA ServerFinished13Keeps ==
    ASSUME IInv, tls13_process_server_finished
    PROVE  IInv'
<1> DEFINE a == ssl["client"]
           s == Hash13("client")
           b == [s EXCEPT !.state = "CLIENT_CCS_AFTER_SERVER_FINISHED"]
<1>1. /\ "client" \in Ends /\ "tls13" \in Versions /\ "CLIENT_CCS_AFTER_SERVER_FINISHED" \in Client13States
      /\ Client13States \subseteq StateNames
  BY DEF Ends, Versions, StateNames, Client13States
<1>2. /\ Reads("client", "tls13", "SERVER_FINISHED")
      /\ \/ Accept("client", s, "CLIENT_CCS_AFTER_SERVER_FINISHED") /\ Binds("client")
         \/ Refuse("client", "bad_finished")
  BY <1>1 DEF tls13_process_server_finished
<1>3. /\ a \in Context /\ ClientKnows(a) /\ Client13Knows(a) /\ a.out = <<>> /\ a.result = "running"
      /\ a.version = "tls13" /\ a.state = "SERVER_FINISHED" /\ Running("client") /\ Has("client")
      /\ Got("client").type \in MessageTypes /\ Got("client").body \in Bodies /\ setup \in Setup
      /\ Got("client").type = "Finished" /\ Real(Other("client"), Got("client"))
  BY <1>1, <1>2, ReadIs, Takes13Are DEF Knows, ClientKnows
<1>4. SUFFICES ASSUME Accept("client", s, "CLIENT_CCS_AFTER_SERVER_FINISHED"), Binds("client")
               PROVE  IInv'
  <2>1. "bad_finished" \in Results \ {"running"}
    BY DEF Results
  <2>2. ASSUME Refuse("client", "bad_finished") PROVE IInv'
    BY <1>1, <1>3, <2>1, <2>2, RefuseKeeps
  <2> QED
    BY <1>2, <2>2
<1>5. /\ s \in Context /\ s.out = <<>> /\ s.result = "running" /\ ~ s.keep /\ s.version = "tls13"
      /\ s.checksum = Append(a.checksum, <<Got("client").type, Got("client").body>>)
      /\ s.inKey = a.inKey /\ s.outKey = a.outKey /\ s.clientAuth = a.clientAuth /\ s.peerCert = a.peerCert
  BY <1>3, Hash13Is DEF Context
<1>6. /\ b.state = "CLIENT_CCS_AFTER_SERVER_FINISHED" /\ b.version = "tls13" /\ ~ b.keep /\ b.out = <<>>
      /\ b.result = "running" /\ b.checksum = s.checksum
      /\ b.inKey = s.inKey /\ b.outKey = s.outKey /\ b.clientAuth = s.clientAuth /\ b.peerCert = s.peerCert
  <2> HIDE DEF s
  <2> QED
    BY <1>5 DEF Context
<1> HIDE DEF s, b
<1>7. /\ Heard(b) = Heard(a) \cup {<<Got("client").type, Got("client").body>>}
      /\ \A t : HeardAny(b, t) <=> HeardAny(a, t) \/ t = Got("client").type
  <2>1. Longer(a, b, Got("client").type, Got("client").body)
    BY <1>3, <1>5, <1>6, HeardMore
  <2> QED
    BY <2>1 DEF Longer
<1>8. ClientKnows(b)
  <2>1. Client13Knows(b)
    BY <1>1, <1>3, <1>4, <1>5, <1>6, <1>7 DEF Client13Knows, ClientKnows
  <2> QED
    BY <2>1, <1>3, <1>5, <1>6, <1>7 DEF ClientKnows, EndKnows
<1>9. Steady("client", a, b) /\ HasHeard("client", Other("client"))'
  <2>1. Steady("client", a, b)
    BY <1>3, <1>5, <1>6 DEF Steady, Said, ClientSaid, Last
  <2>2. ssl' = [ssl EXCEPT !["client"] = b] /\ wire' = Consumed("client")
    BY <1>4 DEF Accept, b
  <2>3. ~ a.keep
    BY <1>3 DEF Client13Knows
  <2>4. <<"ServerHello", "tls13">> \in Heard(a)
    BY <1>3 DEF Client13Knows
  <2> QED
    BY <2>1, <1>1, <1>2, <1>3, <1>4, <1>5, <1>6, <2>2, <2>3, <2>4, FinishedHeard
<1> QED
  BY <1>1, <1>2, <1>4, <1>5, <1>8, <1>9, AcceptKeeps DEF b, Knows

\* The TLS 1.3 client only goes on, from FLUSH_BUFFERS
\* to HANDSHAKE_WRAPUP.
LEMMA Flush13Keeps ==
    ASSUME IInv, tls13_flush_buffers
    PROVE  IInv'
<1> DEFINE a == ssl["client"]
           b == [ssl["client"] EXCEPT !.state = "HANDSHAKE_WRAPUP"]
<1>1. /\ "client" \in Ends /\ "tls13" \in Versions /\ "HANDSHAKE_WRAPUP" \in Client13States
      /\ Client13States \subseteq StateNames
  BY DEF Ends, Versions, StateNames, Client13States
<1>2. At("client", "tls13", "FLUSH_BUFFERS") /\ Become("client", b)
  BY DEF tls13_flush_buffers, Go
<1>3. /\ a \in Context /\ ClientKnows(a) /\ Client13Knows(a) /\ a.out = <<>> /\ a.result = "running"
      /\ a.version = "tls13" /\ a.state = "FLUSH_BUFFERS" /\ setup \in Setup
  BY <1>1, <1>2, AtIs DEF Knows, ClientKnows
<1>4. /\ b \in Context /\ b.state = "HANDSHAKE_WRAPUP" /\ b.version = "tls13" /\ b.keep = a.keep
      /\ b.msg = a.msg /\ b.out = <<>> /\ b.result = "running" /\ b.checksum = a.checksum
      /\ b.inKey = a.inKey /\ b.outKey = a.outKey /\ b.clientAuth = a.clientAuth /\ b.peerCert = a.peerCert
  BY <1>1, <1>3 DEF Context, Keys
<1> HIDE DEF b
<1>5. Heard(b) = Heard(a) /\ \A t : HeardAny(b, t) <=> HeardAny(a, t)
  BY <1>4, HeardSame
<1>6. ClientKnows(b)
  <2>1. Client13Knows(b)
    BY <1>1, <1>2, <1>3, <1>4, <1>5 DEF Client13Knows, ClientKnows
  <2> QED
    BY <2>1, <1>3, <1>4, <1>5 DEF ClientKnows, EndKnows
<1>7. Steady("client", a, b) /\ Settled("client", a, b)
  BY <1>3, <1>4 DEF Steady, Settled, Said, ClientSaid, Done, ClientDone, Last
<1>8. Fits("client", b)
  BY <1>4, <1>6, <1>7 DEF Fits, Knows
<1> QED
  BY <1>1, <1>2, <1>3, <1>4, <1>7, <1>8, BecomeIs

\* The TLS 1.3 client only goes on, from HANDSHAKE_WRAPUP
\* to HANDSHAKE_OVER.
LEMMA Wrapup13Keeps ==
    ASSUME IInv, tls13_handshake_wrapup("client")
    PROVE  IInv'
<1> DEFINE a == ssl["client"]
           b == [ssl["client"] EXCEPT !.inKey = "app", !.outKey = "app", !.state = "HANDSHAKE_OVER"]
<1>1. /\ "client" \in Ends /\ "tls13" \in Versions /\ "HANDSHAKE_OVER" \in Client13States
      /\ Client13States \subseteq StateNames
  BY DEF Ends, Versions, StateNames, Client13States
<1>2. At("client", "tls13", "HANDSHAKE_WRAPUP") /\ Become("client", b)
  BY DEF tls13_handshake_wrapup, Go
<1>3. /\ a \in Context /\ ClientKnows(a) /\ Client13Knows(a) /\ a.out = <<>> /\ a.result = "running"
      /\ a.version = "tls13" /\ a.state = "HANDSHAKE_WRAPUP" /\ setup \in Setup
  BY <1>1, <1>2, AtIs DEF Knows, ClientKnows
<1>4. /\ b \in Context /\ b.state = "HANDSHAKE_OVER" /\ b.version = "tls13" /\ b.keep = a.keep
      /\ b.msg = a.msg /\ b.out = <<>> /\ b.result = "running" /\ b.checksum = a.checksum
      /\ b.inKey = "app" /\ b.outKey = "app" /\ b.clientAuth = a.clientAuth /\ b.peerCert = a.peerCert
  BY <1>1, <1>3 DEF Context, Keys
<1> HIDE DEF b
<1>5. Heard(b) = Heard(a) /\ \A t : HeardAny(b, t) <=> HeardAny(a, t)
  BY <1>4, HeardSame
<1>6. ClientKnows(b)
  <2>1. Client13Knows(b)
    BY <1>1, <1>2, <1>3, <1>4, <1>5 DEF Client13Knows, ClientKnows
  <2> QED
    BY <2>1, <1>3, <1>4, <1>5 DEF ClientKnows, EndKnows
<1>7. Steady("client", a, b) /\ Settled("client", a, b)
  BY <1>3, <1>4 DEF Steady, Settled, Said, ClientSaid, Done, ClientDone, Last
<1>8. Fits("client", b)
  BY <1>4, <1>6, <1>7 DEF Fits, Knows
<1> QED
  BY <1>1, <1>2, <1>3, <1>4, <1>7, <1>8, BecomeIs

\* The TLS 1.3 client writes a Finished in CLIENT_FINISHED.
LEMMA ClientFinished13Keeps ==
    ASSUME IInv, tls13_write_client_finished
    PROVE  IInv'
<1> DEFINE a == ssl["client"]
           s == ssl["client"]
           body == "client"
           w == Written(s, "Finished", body, "FLUSH_BUFFERS")
           r == Seal(s, "Finished", body)
<1>1. /\ "client" \in Ends /\ "tls13" \in Versions /\ "FLUSH_BUFFERS" \in Client13States
      /\ Client13States \subseteq StateNames /\ "Finished" \in MessageTypes
  BY DEF Ends, Versions, StateNames, Client13States, MessageTypes, AnyMessage
<1>2. At("client", "tls13", "CLIENT_FINISHED") /\ Write("client", s, "Finished", body, "FLUSH_BUFFERS")
  BY DEF tls13_write_client_finished
<1>3. /\ a \in Context /\ ClientKnows(a) /\ Client13Knows(a) /\ a.out = <<>> /\ a.result = "running"
      /\ a.version = "tls13" /\ a.state = "CLIENT_FINISHED" /\ setup \in Setup /\ Genuine("client")
  BY <1>1, <1>2, AtIs, EndAt DEF Knows, ClientKnows
<1>4. body \in Bodies
  BY <1>1, <1>3 DEF Bodies, Ends, Setup
<1>5. /\ s \in Context /\ s.out = <<>> /\ s.result = "running" /\ s.version = "tls13"
      /\ s.keep = a.keep /\ s.msg = a.msg /\ s.checksum = a.checksum
      /\ s.inKey = a.inKey /\ s.outKey = a.outKey /\ s.clientAuth = a.clientAuth /\ s.peerCert = a.peerCert
  BY <1>3 DEF Context, Keys, Certificates
<1> HIDE DEF s
<1>6. /\ w \in Context /\ w.state = "FLUSH_BUFFERS" /\ w.version = "tls13" /\ w.keep = s.keep
      /\ w.out = <<>> /\ w.result = "running" /\ w.checksum = Append(s.checksum, <<"Finished", body>>)
      /\ w.inKey = s.inKey /\ w.outKey = s.outKey /\ w.clientAuth = s.clientAuth /\ w.peerCert = s.peerCert
  <2> HIDE DEF body, w
  <2>1. "FLUSH_BUFFERS" \in StateNames /\ w = Written(s, "Finished", body, "FLUSH_BUFFERS")
    BY <1>1 DEF w
  <2>2. WrittenOf(s, "Finished", body, "FLUSH_BUFFERS", w)
    BY <1>1, <1>4, <1>5, <2>1, WrittenIs
  <2> QED
    BY <1>5, <2>2 DEF WrittenOf
<1> HIDE DEF w
<1>7. /\ Heard(w) = Heard(a) \cup {<<"Finished", body>>}
      /\ \A t : HeardAny(w, t) <=> HeardAny(a, t) \/ t = "Finished"
  <2>1. Longer(a, w, "Finished", body)
    BY <1>1, <1>3, <1>4, <1>5, <1>6, HeardMore
  <2> QED
    BY <2>1 DEF Longer
<1>8. ClientKnows(w)
  <2>1. Client13Knows(w)
    BY <1>1, <1>2, <1>3, <1>5, <1>6, <1>7 DEF Client13Knows, ClientKnows
  <2> QED
    BY <2>1, <1>3, <1>5, <1>6, <1>7 DEF ClientKnows, EndKnows
<1>9. ~ Said("client", a) /\ Steady("client", a, w) /\ Settled("client", a, w)
  BY <1>3, <1>5, <1>6 DEF Steady, Settled, Said, ClientSaid, Done, ClientDone, Last
<1>10. r \in Record /\ r.type = "Finished" /\ r.body = body
       /\ ("Finished" \in Bound => r.covers = s.checksum)
  <2> HIDE DEF body
  <2> QED
    BY <1>1, <1>4, <1>5, SealIs
<1> HIDE DEF r
<1>11. Real("client", r)
  BY <1>1, <1>3, <1>10 DEF Real, Bound
<1>12. Vouches("client", w, r)
  <2>1. r.covers = a.checksum /\ In(r.covers) = Heard(a)
    BY <1>5, <1>10 DEF Bound, Heard
  <2> QED
    BY <2>1, <1>3, <1>5, <1>6 DEF Vouches, Said, ClientSaid, Last, Client13Knows,
       HeardAny
<1>13. Fits("client", w)
  BY <1>6, <1>8, <1>9 DEF Fits, Knows
<1>14. s.keep => ssl["client"].keep /\ s.msg = ssl["client"].msg
  BY <1>5
<1> QED
  BY <1>1, <1>2, <1>3, <1>4, <1>5, <1>9, <1>11, <1>12, <1>13, <1>14, WriteIs DEF w, r

\* The TLS 1.3 client writes a CertificateVerify in CLIENT_CERTIFICATE_VERIFY.
LEMMA ClientCertificateVerify13Keeps ==
    ASSUME IInv, tls13_write_certificate_verify("client", "CLIENT_CERTIFICATE_VERIFY", "CLIENT_FINISHED")
    PROVE  IInv'
<1> DEFINE a == ssl["client"]
           s == ssl["client"]
           body == "client"
           w == Written(s, "CertificateVerify", body, "CLIENT_FINISHED")
           r == Seal(s, "CertificateVerify", body)
<1>1. /\ "client" \in Ends /\ "tls13" \in Versions /\ "CLIENT_FINISHED" \in Client13States
      /\ Client13States \subseteq StateNames /\ "CertificateVerify" \in MessageTypes
  BY DEF Ends, Versions, StateNames, Client13States, MessageTypes, AnyMessage
<1>2. At("client", "tls13", "CLIENT_CERTIFICATE_VERIFY") /\ Write("client", s, "CertificateVerify", body, "CLIENT_FINISHED")
  BY DEF tls13_write_certificate_verify
<1>3. /\ a \in Context /\ ClientKnows(a) /\ Client13Knows(a) /\ a.out = <<>> /\ a.result = "running"
      /\ a.version = "tls13" /\ a.state = "CLIENT_CERTIFICATE_VERIFY" /\ setup \in Setup /\ Genuine("client")
  BY <1>1, <1>2, AtIs, EndAt DEF Knows, ClientKnows
<1>4. body \in Bodies
  BY <1>1, <1>3 DEF Bodies, Ends, Setup
<1>5. /\ s \in Context /\ s.out = <<>> /\ s.result = "running" /\ s.version = "tls13"
      /\ s.keep = a.keep /\ s.msg = a.msg /\ s.checksum = a.checksum
      /\ s.inKey = a.inKey /\ s.outKey = a.outKey /\ s.clientAuth = a.clientAuth /\ s.peerCert = a.peerCert
  BY <1>3 DEF Context, Keys, Certificates
<1> HIDE DEF s
<1>6. /\ w \in Context /\ w.state = "CLIENT_FINISHED" /\ w.version = "tls13" /\ w.keep = s.keep
      /\ w.out = <<>> /\ w.result = "running" /\ w.checksum = Append(s.checksum, <<"CertificateVerify", body>>)
      /\ w.inKey = s.inKey /\ w.outKey = s.outKey /\ w.clientAuth = s.clientAuth /\ w.peerCert = s.peerCert
  <2> HIDE DEF body, w
  <2>1. "CLIENT_FINISHED" \in StateNames /\ w = Written(s, "CertificateVerify", body, "CLIENT_FINISHED")
    BY <1>1 DEF w
  <2>2. WrittenOf(s, "CertificateVerify", body, "CLIENT_FINISHED", w)
    BY <1>1, <1>4, <1>5, <2>1, WrittenIs
  <2> QED
    BY <1>5, <2>2 DEF WrittenOf
<1> HIDE DEF w
<1>7. /\ Heard(w) = Heard(a) \cup {<<"CertificateVerify", body>>}
      /\ \A t : HeardAny(w, t) <=> HeardAny(a, t) \/ t = "CertificateVerify"
  <2>1. Longer(a, w, "CertificateVerify", body)
    BY <1>1, <1>3, <1>4, <1>5, <1>6, HeardMore
  <2> QED
    BY <2>1 DEF Longer
<1>8. ClientKnows(w)
  <2>1. Client13Knows(w)
    BY <1>1, <1>2, <1>3, <1>5, <1>6, <1>7 DEF Client13Knows, ClientKnows
  <2> QED
    BY <2>1, <1>3, <1>5, <1>6, <1>7 DEF ClientKnows, EndKnows
<1>9. ~ Said("client", a) /\ Steady("client", a, w) /\ Settled("client", a, w)
  BY <1>3, <1>5, <1>6 DEF Steady, Settled, Said, ClientSaid, Done, ClientDone, Last
<1>10. r \in Record /\ r.type = "CertificateVerify" /\ r.body = body
       /\ ("CertificateVerify" \in Bound => r.covers = s.checksum)
  <2> HIDE DEF body
  <2> QED
    BY <1>1, <1>4, <1>5, SealIs
<1> HIDE DEF r
<1>11. Real("client", r)
  BY <1>1, <1>3, <1>10 DEF Real, Bound
<1>13. Fits("client", w)
  BY <1>6, <1>8, <1>9 DEF Fits, Knows
<1>14. s.keep => ssl["client"].keep /\ s.msg = ssl["client"].msg
  BY <1>5
<1> QED
  BY <1>1, <1>2, <1>3, <1>4, <1>5, <1>9, <1>11, <1>13, <1>14, WriteIs DEF w, r

LEMMA AppendNotEmpty == \A q \in Seq(Entry), x \in Entry : Append(q, x) # <<>>
  BY AppendProperties

\* The TLS 1.3 client writes a ClientHello in CLIENT_HELLO.
LEMMA ClientHello13Keeps ==
    ASSUME IInv, write_client_hello("tls13")
    PROVE  IInv'
<1> DEFINE a == ssl["client"]
           s == ssl["client"]
           body == ClientHelloBody
           w == Written(s, "ClientHello", body, "SERVER_HELLO")
           r == Seal(s, "ClientHello", body)
<1>1. /\ "client" \in Ends /\ "tls13" \in Versions /\ "SERVER_HELLO" \in Client13States
      /\ Client13States \subseteq StateNames /\ "ClientHello" \in MessageTypes
  BY DEF Ends, Versions, StateNames, Client13States, MessageTypes, AnyMessage
<1>2. At("client", "tls13", "CLIENT_HELLO") /\ Write("client", s, "ClientHello", body, "SERVER_HELLO")
  BY DEF write_client_hello
<1>3. /\ a \in Context /\ ClientKnows(a) /\ Client13Knows(a) /\ a.out = <<>> /\ a.result = "running"
      /\ a.version = "tls13" /\ a.state = "CLIENT_HELLO" /\ setup \in Setup /\ Genuine("client")
  BY <1>1, <1>2, AtIs, EndAt DEF Knows, ClientKnows
<1>4. body \in Bodies
  BY <1>1, <1>3 DEF Bodies, Ends, Setup, ClientHelloBody
<1>5. /\ s \in Context /\ s.out = <<>> /\ s.result = "running" /\ s.version = "tls13"
      /\ s.keep = a.keep /\ s.msg = a.msg /\ s.checksum = a.checksum
      /\ s.inKey = a.inKey /\ s.outKey = a.outKey /\ s.clientAuth = a.clientAuth /\ s.peerCert = a.peerCert
  BY <1>3 DEF Context, Keys, Certificates
<1> HIDE DEF s
<1>6. /\ w \in Context /\ w.state = "SERVER_HELLO" /\ w.version = "tls13" /\ w.keep = s.keep
      /\ w.out = <<>> /\ w.result = "running" /\ w.checksum = Append(s.checksum, <<"ClientHello", body>>)
      /\ w.inKey = s.inKey /\ w.outKey = s.outKey /\ w.clientAuth = s.clientAuth /\ w.peerCert = s.peerCert
  <2> HIDE DEF body, w
  <2>1. "SERVER_HELLO" \in StateNames /\ w = Written(s, "ClientHello", body, "SERVER_HELLO")
    BY <1>1 DEF w
  <2>2. WrittenOf(s, "ClientHello", body, "SERVER_HELLO", w)
    BY <1>1, <1>4, <1>5, <2>1, WrittenIs
  <2> QED
    BY <1>5, <2>2 DEF WrittenOf
<1> HIDE DEF w
<1>7. /\ Heard(w) = Heard(a) \cup {<<"ClientHello", body>>}
      /\ \A t : HeardAny(w, t) <=> HeardAny(a, t) \/ t = "ClientHello"
  <2>1. Longer(a, w, "ClientHello", body)
    BY <1>1, <1>3, <1>4, <1>5, <1>6, HeardMore
  <2> QED
    BY <2>1 DEF Longer
<1>15. w.checksum # <<>>
  <2>1. a.checksum \in Seq(Entry) /\ <<"ClientHello", body>> \in Entry
    BY <1>1, <1>3, <1>4 DEF Context, Entry
  <2> QED
    BY <1>5, <1>6, <2>1, AppendNotEmpty
<1>8. ClientKnows(w)
  <2>1. Client13Knows(w)
    BY <1>1, <1>2, <1>3, <1>5, <1>6, <1>7, <1>15 DEF Client13Knows, ClientKnows
  <2> QED
    BY <2>1, <1>3, <1>5, <1>6, <1>7 DEF ClientKnows, EndKnows
<1>9. ~ Said("client", a) /\ Steady("client", a, w) /\ Settled("client", a, w)
  BY <1>3, <1>5, <1>6 DEF Steady, Settled, Said, ClientSaid, Done, ClientDone, Last
<1>10. r \in Record /\ r.type = "ClientHello" /\ r.body = body
       /\ ("ClientHello" \in Bound => r.covers = s.checksum)
  <2> HIDE DEF body
  <2> QED
    BY <1>1, <1>4, <1>5, SealIs
<1> HIDE DEF r
<1>11. Real("client", r)
  BY <1>1, <1>3, <1>10 DEF Real, Bound, ClientHelloBody
<1>13. Fits("client", w)
  BY <1>6, <1>8, <1>9 DEF Fits, Knows
<1>14. s.keep => ssl["client"].keep /\ s.msg = ssl["client"].msg
  BY <1>5
<1> QED
  BY <1>1, <1>2, <1>3, <1>4, <1>5, <1>9, <1>11, <1>13, <1>14, WriteIs DEF w, r

\* The TLS 1.3 client writes a Certificate in CLIENT_CERTIFICATE.
LEMMA ClientCertificateKeeps ==
    ASSUME IInv, tls13_write_client_certificate, ssl["client"].clientAuth, setup.cert["client"] # "empty"
    PROVE  IInv'
<1> DEFINE a == ssl["client"]
           s == [ssl["client"] EXCEPT !.outKey = "handshake"]
           body == setup.cert["client"]
           w == Written(s, "Certificate", body, "CLIENT_CERTIFICATE_VERIFY")
           r == Seal(s, "Certificate", body)
<1>1. /\ "client" \in Ends /\ "tls13" \in Versions /\ "CLIENT_CERTIFICATE_VERIFY" \in Client13States
      /\ Client13States \subseteq StateNames /\ "Certificate" \in MessageTypes
  BY DEF Ends, Versions, StateNames, Client13States, MessageTypes, AnyMessage
<1>2. At("client", "tls13", "CLIENT_CERTIFICATE") /\ Write("client", s, "Certificate", body, "CLIENT_CERTIFICATE_VERIFY")
  BY DEF tls13_write_client_certificate
<1>3. /\ a \in Context /\ ClientKnows(a) /\ Client13Knows(a) /\ a.out = <<>> /\ a.result = "running"
      /\ a.version = "tls13" /\ a.state = "CLIENT_CERTIFICATE" /\ setup \in Setup /\ Genuine("client")
  BY <1>1, <1>2, AtIs, EndAt DEF Knows, ClientKnows
<1>4. body \in Bodies
  BY <1>1, <1>3 DEF Bodies, Ends, Setup
<1>5. /\ s \in Context /\ s.out = <<>> /\ s.result = "running" /\ s.version = "tls13"
      /\ s.keep = a.keep /\ s.msg = a.msg /\ s.checksum = a.checksum
      /\ s.inKey = a.inKey /\ s.outKey = "handshake" /\ s.clientAuth = a.clientAuth /\ s.peerCert = a.peerCert
  BY <1>3 DEF Context, Keys, Certificates
<1> HIDE DEF s
<1>6. /\ w \in Context /\ w.state = "CLIENT_CERTIFICATE_VERIFY" /\ w.version = "tls13" /\ w.keep = s.keep
      /\ w.out = <<>> /\ w.result = "running" /\ w.checksum = Append(s.checksum, <<"Certificate", body>>)
      /\ w.inKey = s.inKey /\ w.outKey = s.outKey /\ w.clientAuth = s.clientAuth /\ w.peerCert = s.peerCert
  <2> HIDE DEF body, w
  <2>1. "CLIENT_CERTIFICATE_VERIFY" \in StateNames /\ w = Written(s, "Certificate", body, "CLIENT_CERTIFICATE_VERIFY")
    BY <1>1 DEF w
  <2>2. WrittenOf(s, "Certificate", body, "CLIENT_CERTIFICATE_VERIFY", w)
    BY <1>1, <1>4, <1>5, <2>1, WrittenIs
  <2> QED
    BY <1>5, <2>2 DEF WrittenOf
<1> HIDE DEF w
<1>7. /\ Heard(w) = Heard(a) \cup {<<"Certificate", body>>}
      /\ \A t : HeardAny(w, t) <=> HeardAny(a, t) \/ t = "Certificate"
  <2>1. Longer(a, w, "Certificate", body)
    BY <1>1, <1>3, <1>4, <1>5, <1>6, HeardMore
  <2> QED
    BY <2>1 DEF Longer
<1>8. ClientKnows(w)
  <2>1. Client13Knows(w)
    BY <1>1, <1>2, <1>3, <1>5, <1>6, <1>7 DEF Client13Knows, ClientKnows
  <2> QED
    BY <2>1, <1>3, <1>5, <1>6, <1>7 DEF ClientKnows, EndKnows
<1>9. ~ Said("client", a) /\ Steady("client", a, w) /\ Settled("client", a, w)
  BY <1>3, <1>5, <1>6 DEF Steady, Settled, Said, ClientSaid, Done, ClientDone, Last
<1>10. r \in Record /\ r.type = "Certificate" /\ r.body = body
       /\ ("Certificate" \in Bound => r.covers = s.checksum)
  <2> HIDE DEF body
  <2> QED
    BY <1>1, <1>4, <1>5, SealIs
<1> HIDE DEF r
<1>11. Real("client", r)
  BY <1>1, <1>3, <1>10 DEF Real, Bound
<1>13. Fits("client", w)
  BY <1>6, <1>8, <1>9 DEF Fits, Knows
<1>14. s.keep => ssl["client"].keep /\ s.msg = ssl["client"].msg
  BY <1>5
<1> QED
  BY <1>1, <1>2, <1>3, <1>4, <1>5, <1>9, <1>11, <1>13, <1>14, WriteIs DEF w, r

\* The TLS 1.3 client writes a Certificate in CLIENT_CERTIFICATE.
LEMMA NoClientCertificateKeeps ==
    ASSUME IInv, tls13_write_client_certificate, ssl["client"].clientAuth, setup.cert["client"] = "empty"
    PROVE  IInv'
<1> DEFINE a == ssl["client"]
           s == [ssl["client"] EXCEPT !.outKey = "handshake"]
           body == setup.cert["client"]
           w == Written(s, "Certificate", body, "CLIENT_FINISHED")
           r == Seal(s, "Certificate", body)
<1>1. /\ "client" \in Ends /\ "tls13" \in Versions /\ "CLIENT_FINISHED" \in Client13States
      /\ Client13States \subseteq StateNames /\ "Certificate" \in MessageTypes
  BY DEF Ends, Versions, StateNames, Client13States, MessageTypes, AnyMessage
<1>2. At("client", "tls13", "CLIENT_CERTIFICATE") /\ Write("client", s, "Certificate", body, "CLIENT_FINISHED")
  BY DEF tls13_write_client_certificate
<1>3. /\ a \in Context /\ ClientKnows(a) /\ Client13Knows(a) /\ a.out = <<>> /\ a.result = "running"
      /\ a.version = "tls13" /\ a.state = "CLIENT_CERTIFICATE" /\ setup \in Setup /\ Genuine("client")
  BY <1>1, <1>2, AtIs, EndAt DEF Knows, ClientKnows
<1>4. body \in Bodies
  BY <1>1, <1>3 DEF Bodies, Ends, Setup
<1>5. /\ s \in Context /\ s.out = <<>> /\ s.result = "running" /\ s.version = "tls13"
      /\ s.keep = a.keep /\ s.msg = a.msg /\ s.checksum = a.checksum
      /\ s.inKey = a.inKey /\ s.outKey = "handshake" /\ s.clientAuth = a.clientAuth /\ s.peerCert = a.peerCert
  BY <1>3 DEF Context, Keys, Certificates
<1> HIDE DEF s
<1>6. /\ w \in Context /\ w.state = "CLIENT_FINISHED" /\ w.version = "tls13" /\ w.keep = s.keep
      /\ w.out = <<>> /\ w.result = "running" /\ w.checksum = Append(s.checksum, <<"Certificate", body>>)
      /\ w.inKey = s.inKey /\ w.outKey = s.outKey /\ w.clientAuth = s.clientAuth /\ w.peerCert = s.peerCert
  <2> HIDE DEF body, w
  <2>1. "CLIENT_FINISHED" \in StateNames /\ w = Written(s, "Certificate", body, "CLIENT_FINISHED")
    BY <1>1 DEF w
  <2>2. WrittenOf(s, "Certificate", body, "CLIENT_FINISHED", w)
    BY <1>1, <1>4, <1>5, <2>1, WrittenIs
  <2> QED
    BY <1>5, <2>2 DEF WrittenOf
<1> HIDE DEF w
<1>7. /\ Heard(w) = Heard(a) \cup {<<"Certificate", body>>}
      /\ \A t : HeardAny(w, t) <=> HeardAny(a, t) \/ t = "Certificate"
  <2>1. Longer(a, w, "Certificate", body)
    BY <1>1, <1>3, <1>4, <1>5, <1>6, HeardMore
  <2> QED
    BY <2>1 DEF Longer
<1>8. ClientKnows(w)
  <2>1. Client13Knows(w)
    BY <1>1, <1>2, <1>3, <1>5, <1>6, <1>7 DEF Client13Knows, ClientKnows
  <2> QED
    BY <2>1, <1>3, <1>5, <1>6, <1>7 DEF ClientKnows, EndKnows
<1>9. ~ Said("client", a) /\ Steady("client", a, w) /\ Settled("client", a, w)
  BY <1>3, <1>5, <1>6 DEF Steady, Settled, Said, ClientSaid, Done, ClientDone, Last
<1>10. r \in Record /\ r.type = "Certificate" /\ r.body = body
       /\ ("Certificate" \in Bound => r.covers = s.checksum)
  <2> HIDE DEF body
  <2> QED
    BY <1>1, <1>4, <1>5, SealIs
<1> HIDE DEF r
<1>11. Real("client", r)
  BY <1>1, <1>3, <1>10 DEF Real, Bound
<1>13. Fits("client", w)
  BY <1>6, <1>8, <1>9 DEF Fits, Knows
<1>14. s.keep => ssl["client"].keep /\ s.msg = ssl["client"].msg
  BY <1>5
<1> QED
  BY <1>1, <1>2, <1>3, <1>4, <1>5, <1>9, <1>11, <1>13, <1>14, WriteIs DEF w, r

\* The TLS 1.3 client only goes on, from CLIENT_CERTIFICATE
\* to CLIENT_FINISHED.
LEMMA NotAskedKeeps ==
    ASSUME IInv, tls13_write_client_certificate, ~ ssl["client"].clientAuth
    PROVE  IInv'
<1> DEFINE a == ssl["client"]
           b == [ssl["client"] EXCEPT !.outKey = "handshake", !.state = "CLIENT_FINISHED"]
<1>1. /\ "client" \in Ends /\ "tls13" \in Versions /\ "CLIENT_FINISHED" \in Client13States
      /\ Client13States \subseteq StateNames
  BY DEF Ends, Versions, StateNames, Client13States
<1>2. At("client", "tls13", "CLIENT_CERTIFICATE") /\ Become("client", b)
  BY DEF tls13_write_client_certificate, Go
<1>3. /\ a \in Context /\ ClientKnows(a) /\ Client13Knows(a) /\ a.out = <<>> /\ a.result = "running"
      /\ a.version = "tls13" /\ a.state = "CLIENT_CERTIFICATE" /\ setup \in Setup
  BY <1>1, <1>2, AtIs DEF Knows, ClientKnows
<1>4. /\ b \in Context /\ b.state = "CLIENT_FINISHED" /\ b.version = "tls13" /\ b.keep = a.keep
      /\ b.msg = a.msg /\ b.out = <<>> /\ b.result = "running" /\ b.checksum = a.checksum
      /\ b.inKey = a.inKey /\ b.outKey = "handshake" /\ b.clientAuth = a.clientAuth /\ b.peerCert = a.peerCert
  BY <1>1, <1>3 DEF Context, Keys
<1> HIDE DEF b
<1>5. Heard(b) = Heard(a) /\ \A t : HeardAny(b, t) <=> HeardAny(a, t)
  BY <1>4, HeardSame
<1>6. ClientKnows(b)
  <2>1. Client13Knows(b)
    BY <1>1, <1>2, <1>3, <1>4, <1>5 DEF Client13Knows, ClientKnows
  <2> QED
    BY <2>1, <1>3, <1>4, <1>5 DEF ClientKnows, EndKnows
<1>7. Steady("client", a, b) /\ Settled("client", a, b)
  BY <1>3, <1>4 DEF Steady, Settled, Said, ClientSaid, Done, ClientDone, Last
<1>8. Fits("client", b)
  BY <1>4, <1>6, <1>7 DEF Fits, Knows
<1> QED
  BY <1>1, <1>2, <1>3, <1>4, <1>7, <1>8, BecomeIs

\* The TLS 1.3 client only goes on, from CLIENT_CCS_BEFORE_2ND_CLIENT_HELLO
\* to CLIENT_HELLO.
LEMMA ClientCcs1SentKeeps ==
    ASSUME IInv, tls13_write_change_cipher_spec("client", "CLIENT_CCS_BEFORE_2ND_CLIENT_HELLO", "CLIENT_HELLO"),
           ssl["client"].ccsSent
    PROVE  IInv'
<1> DEFINE a == ssl["client"]
           b == [ssl["client"] EXCEPT !.state = "CLIENT_HELLO"]
<1>1. /\ "client" \in Ends /\ "tls13" \in Versions /\ "CLIENT_HELLO" \in Client13States
      /\ Client13States \subseteq StateNames
  BY DEF Ends, Versions, StateNames, Client13States
<1>2. At("client", "tls13", "CLIENT_CCS_BEFORE_2ND_CLIENT_HELLO") /\ Become("client", b)
  BY DEF tls13_write_change_cipher_spec, Go
<1>3. /\ a \in Context /\ ClientKnows(a) /\ Client13Knows(a) /\ a.out = <<>> /\ a.result = "running"
      /\ a.version = "tls13" /\ a.state = "CLIENT_CCS_BEFORE_2ND_CLIENT_HELLO" /\ setup \in Setup
  BY <1>1, <1>2, AtIs DEF Knows, ClientKnows
<1>4. /\ b \in Context /\ b.state = "CLIENT_HELLO" /\ b.version = "tls13" /\ b.keep = a.keep
      /\ b.msg = a.msg /\ b.out = <<>> /\ b.result = "running" /\ b.checksum = a.checksum
      /\ b.inKey = a.inKey /\ b.outKey = a.outKey /\ b.clientAuth = a.clientAuth /\ b.peerCert = a.peerCert
  BY <1>1, <1>3 DEF Context, Keys
<1> HIDE DEF b
<1>5. Heard(b) = Heard(a) /\ \A t : HeardAny(b, t) <=> HeardAny(a, t)
  BY <1>4, HeardSame
<1>6. ClientKnows(b)
  <2>1. Client13Knows(b)
    BY <1>1, <1>2, <1>3, <1>4, <1>5 DEF Client13Knows, ClientKnows
  <2> QED
    BY <2>1, <1>3, <1>4, <1>5 DEF ClientKnows, EndKnows
<1>7. Steady("client", a, b) /\ Settled("client", a, b)
  BY <1>3, <1>4 DEF Steady, Settled, Said, ClientSaid, Done, ClientDone, Last
<1>8. Fits("client", b)
  BY <1>4, <1>6, <1>7 DEF Fits, Knows
<1> QED
  BY <1>1, <1>2, <1>3, <1>4, <1>7, <1>8, BecomeIs

\* The TLS 1.3 client writes a ChangeCipherSpec in CLIENT_CCS_BEFORE_2ND_CLIENT_HELLO.
LEMMA ClientCcs1Keeps ==
    ASSUME IInv, tls13_write_change_cipher_spec("client", "CLIENT_CCS_BEFORE_2ND_CLIENT_HELLO", "CLIENT_HELLO"),
           ~ ssl["client"].ccsSent
    PROVE  IInv'
<1> DEFINE a == ssl["client"]
           s == [ssl["client"] EXCEPT !.ccsSent = TRUE]
           body == ""
           w == Written(s, "ChangeCipherSpec", body, "CLIENT_HELLO")
           r == Seal(s, "ChangeCipherSpec", body)
<1>1. /\ "client" \in Ends /\ "tls13" \in Versions /\ "CLIENT_HELLO" \in Client13States
      /\ Client13States \subseteq StateNames /\ "ChangeCipherSpec" \in MessageTypes
  BY DEF Ends, Versions, StateNames, Client13States, MessageTypes, AnyMessage
<1>2. At("client", "tls13", "CLIENT_CCS_BEFORE_2ND_CLIENT_HELLO") /\ Write("client", s, "ChangeCipherSpec", body, "CLIENT_HELLO")
  BY DEF tls13_write_change_cipher_spec
<1>3. /\ a \in Context /\ ClientKnows(a) /\ Client13Knows(a) /\ a.out = <<>> /\ a.result = "running"
      /\ a.version = "tls13" /\ a.state = "CLIENT_CCS_BEFORE_2ND_CLIENT_HELLO" /\ setup \in Setup /\ Genuine("client")
  BY <1>1, <1>2, AtIs, EndAt DEF Knows, ClientKnows
<1>4. body \in Bodies
  BY <1>1, <1>3 DEF Bodies, Ends, Setup
<1>5. /\ s \in Context /\ s.out = <<>> /\ s.result = "running" /\ s.version = "tls13"
      /\ s.keep = a.keep /\ s.msg = a.msg /\ s.checksum = a.checksum
      /\ s.inKey = a.inKey /\ s.outKey = a.outKey /\ s.clientAuth = a.clientAuth /\ s.peerCert = a.peerCert
  BY <1>3 DEF Context, Keys, Certificates
<1> HIDE DEF s
<1>6. /\ w \in Context /\ w.state = "CLIENT_HELLO" /\ w.version = "tls13" /\ w.keep = s.keep
      /\ w.out = <<>> /\ w.result = "running" /\ w.checksum = s.checksum
      /\ w.inKey = s.inKey /\ w.outKey = s.outKey /\ w.clientAuth = s.clientAuth /\ w.peerCert = s.peerCert
  <2> HIDE DEF body, w
  <2>1. "CLIENT_HELLO" \in StateNames /\ w = Written(s, "ChangeCipherSpec", body, "CLIENT_HELLO")
    BY <1>1 DEF w
  <2>2. WrittenOf(s, "ChangeCipherSpec", body, "CLIENT_HELLO", w)
    BY <1>1, <1>4, <1>5, <2>1, WrittenIs
  <2> QED
    BY <1>5, <2>2 DEF WrittenOf
<1> HIDE DEF w
<1>7. Heard(w) = Heard(a) /\ \A t : HeardAny(w, t) <=> HeardAny(a, t)
  BY <1>5, <1>6, HeardSame
<1>8. ClientKnows(w)
  <2>1. Client13Knows(w)
    BY <1>1, <1>2, <1>3, <1>5, <1>6, <1>7 DEF Client13Knows, ClientKnows
  <2> QED
    BY <2>1, <1>3, <1>5, <1>6, <1>7 DEF ClientKnows, EndKnows
<1>9. ~ Said("client", a) /\ Steady("client", a, w) /\ Settled("client", a, w)
  BY <1>3, <1>5, <1>6 DEF Steady, Settled, Said, ClientSaid, Done, ClientDone, Last
<1>10. r \in Record /\ r.type = "ChangeCipherSpec" /\ r.body = body
       /\ ("ChangeCipherSpec" \in Bound => r.covers = s.checksum)
  <2> HIDE DEF body
  <2> QED
    BY <1>1, <1>4, <1>5, SealIs
<1> HIDE DEF r
<1>11. Real("client", r)
  BY <1>1, <1>3, <1>10 DEF Real, Bound
<1>13. Fits("client", w)
  BY <1>6, <1>8, <1>9 DEF Fits, Knows
<1>14. s.keep => ssl["client"].keep /\ s.msg = ssl["client"].msg
  BY <1>5
<1> QED
  BY <1>1, <1>2, <1>3, <1>4, <1>5, <1>9, <1>11, <1>13, <1>14, WriteIs DEF w, r

\* The TLS 1.3 client only goes on, from CLIENT_CCS_AFTER_SERVER_FINISHED
\* to CLIENT_CERTIFICATE.
LEMMA ClientCcs2SentKeeps ==
    ASSUME IInv, tls13_write_change_cipher_spec("client", "CLIENT_CCS_AFTER_SERVER_FINISHED", "CLIENT_CERTIFICATE"),
           ssl["client"].ccsSent
    PROVE  IInv'
<1> DEFINE a == ssl["client"]
           b == [ssl["client"] EXCEPT !.state = "CLIENT_CERTIFICATE"]
<1>1. /\ "client" \in Ends /\ "tls13" \in Versions /\ "CLIENT_CERTIFICATE" \in Client13States
      /\ Client13States \subseteq StateNames
  BY DEF Ends, Versions, StateNames, Client13States
<1>2. At("client", "tls13", "CLIENT_CCS_AFTER_SERVER_FINISHED") /\ Become("client", b)
  BY DEF tls13_write_change_cipher_spec, Go
<1>3. /\ a \in Context /\ ClientKnows(a) /\ Client13Knows(a) /\ a.out = <<>> /\ a.result = "running"
      /\ a.version = "tls13" /\ a.state = "CLIENT_CCS_AFTER_SERVER_FINISHED" /\ setup \in Setup
  BY <1>1, <1>2, AtIs DEF Knows, ClientKnows
<1>4. /\ b \in Context /\ b.state = "CLIENT_CERTIFICATE" /\ b.version = "tls13" /\ b.keep = a.keep
      /\ b.msg = a.msg /\ b.out = <<>> /\ b.result = "running" /\ b.checksum = a.checksum
      /\ b.inKey = a.inKey /\ b.outKey = a.outKey /\ b.clientAuth = a.clientAuth /\ b.peerCert = a.peerCert
  BY <1>1, <1>3 DEF Context, Keys
<1> HIDE DEF b
<1>5. Heard(b) = Heard(a) /\ \A t : HeardAny(b, t) <=> HeardAny(a, t)
  BY <1>4, HeardSame
<1>6. ClientKnows(b)
  <2>1. Client13Knows(b)
    BY <1>1, <1>2, <1>3, <1>4, <1>5 DEF Client13Knows, ClientKnows
  <2> QED
    BY <2>1, <1>3, <1>4, <1>5 DEF ClientKnows, EndKnows
<1>7. Steady("client", a, b) /\ Settled("client", a, b)
  BY <1>3, <1>4 DEF Steady, Settled, Said, ClientSaid, Done, ClientDone, Last
<1>8. Fits("client", b)
  BY <1>4, <1>6, <1>7 DEF Fits, Knows
<1> QED
  BY <1>1, <1>2, <1>3, <1>4, <1>7, <1>8, BecomeIs

\* The TLS 1.3 client writes a ChangeCipherSpec in CLIENT_CCS_AFTER_SERVER_FINISHED.
LEMMA ClientCcs2Keeps ==
    ASSUME IInv, tls13_write_change_cipher_spec("client", "CLIENT_CCS_AFTER_SERVER_FINISHED", "CLIENT_CERTIFICATE"),
           ~ ssl["client"].ccsSent
    PROVE  IInv'
<1> DEFINE a == ssl["client"]
           s == [ssl["client"] EXCEPT !.ccsSent = TRUE]
           body == ""
           w == Written(s, "ChangeCipherSpec", body, "CLIENT_CERTIFICATE")
           r == Seal(s, "ChangeCipherSpec", body)
<1>1. /\ "client" \in Ends /\ "tls13" \in Versions /\ "CLIENT_CERTIFICATE" \in Client13States
      /\ Client13States \subseteq StateNames /\ "ChangeCipherSpec" \in MessageTypes
  BY DEF Ends, Versions, StateNames, Client13States, MessageTypes, AnyMessage
<1>2. At("client", "tls13", "CLIENT_CCS_AFTER_SERVER_FINISHED") /\ Write("client", s, "ChangeCipherSpec", body, "CLIENT_CERTIFICATE")
  BY DEF tls13_write_change_cipher_spec
<1>3. /\ a \in Context /\ ClientKnows(a) /\ Client13Knows(a) /\ a.out = <<>> /\ a.result = "running"
      /\ a.version = "tls13" /\ a.state = "CLIENT_CCS_AFTER_SERVER_FINISHED" /\ setup \in Setup /\ Genuine("client")
  BY <1>1, <1>2, AtIs, EndAt DEF Knows, ClientKnows
<1>4. body \in Bodies
  BY <1>1, <1>3 DEF Bodies, Ends, Setup
<1>5. /\ s \in Context /\ s.out = <<>> /\ s.result = "running" /\ s.version = "tls13"
      /\ s.keep = a.keep /\ s.msg = a.msg /\ s.checksum = a.checksum
      /\ s.inKey = a.inKey /\ s.outKey = a.outKey /\ s.clientAuth = a.clientAuth /\ s.peerCert = a.peerCert
  BY <1>3 DEF Context, Keys, Certificates
<1> HIDE DEF s
<1>6. /\ w \in Context /\ w.state = "CLIENT_CERTIFICATE" /\ w.version = "tls13" /\ w.keep = s.keep
      /\ w.out = <<>> /\ w.result = "running" /\ w.checksum = s.checksum
      /\ w.inKey = s.inKey /\ w.outKey = s.outKey /\ w.clientAuth = s.clientAuth /\ w.peerCert = s.peerCert
  <2> HIDE DEF body, w
  <2>1. "CLIENT_CERTIFICATE" \in StateNames /\ w = Written(s, "ChangeCipherSpec", body, "CLIENT_CERTIFICATE")
    BY <1>1 DEF w
  <2>2. WrittenOf(s, "ChangeCipherSpec", body, "CLIENT_CERTIFICATE", w)
    BY <1>1, <1>4, <1>5, <2>1, WrittenIs
  <2> QED
    BY <1>5, <2>2 DEF WrittenOf
<1> HIDE DEF w
<1>7. Heard(w) = Heard(a) /\ \A t : HeardAny(w, t) <=> HeardAny(a, t)
  BY <1>5, <1>6, HeardSame
<1>8. ClientKnows(w)
  <2>1. Client13Knows(w)
    BY <1>1, <1>2, <1>3, <1>5, <1>6, <1>7 DEF Client13Knows, ClientKnows
  <2> QED
    BY <2>1, <1>3, <1>5, <1>6, <1>7 DEF ClientKnows, EndKnows
<1>9. ~ Said("client", a) /\ Steady("client", a, w) /\ Settled("client", a, w)
  BY <1>3, <1>5, <1>6 DEF Steady, Settled, Said, ClientSaid, Done, ClientDone, Last
<1>10. r \in Record /\ r.type = "ChangeCipherSpec" /\ r.body = body
       /\ ("ChangeCipherSpec" \in Bound => r.covers = s.checksum)
  <2> HIDE DEF body
  <2> QED
    BY <1>1, <1>4, <1>5, SealIs
<1> HIDE DEF r
<1>11. Real("client", r)
  BY <1>1, <1>3, <1>10 DEF Real, Bound
<1>13. Fits("client", w)
  BY <1>6, <1>8, <1>9 DEF Fits, Knows
<1>14. s.keep => ssl["client"].keep /\ s.msg = ssl["client"].msg
  BY <1>5
<1> QED
  BY <1>1, <1>2, <1>3, <1>4, <1>5, <1>9, <1>11, <1>13, <1>14, WriteIs DEF w, r

\* The TLS 1.3 client takes a CertificateRequest in CERTIFICATE_REQUEST.
LEMMA CertificateRequest13Keeps ==
    ASSUME IInv, tls13_process_certificate_request, Got("client").type = "CertificateRequest"
    PROVE  IInv'
<1> DEFINE a == ssl["client"]
           s == [Hash13("client") EXCEPT !.clientAuth = TRUE]
           b == [s EXCEPT !.state = "SERVER_CERTIFICATE"]
<1>1. /\ "client" \in Ends /\ "tls13" \in Versions /\ "SERVER_CERTIFICATE" \in Client13States
      /\ Client13States \subseteq StateNames
  BY DEF Ends, Versions, StateNames, Client13States
<1>2. Reads("client", "tls13", "CERTIFICATE_REQUEST") /\ Accept("client", s, "SERVER_CERTIFICATE")
  BY <1>1 DEF tls13_process_certificate_request
<1>3. /\ a \in Context /\ ClientKnows(a) /\ Client13Knows(a) /\ a.out = <<>> /\ a.result = "running"
      /\ a.version = "tls13" /\ a.state = "CERTIFICATE_REQUEST" /\ Running("client") /\ Has("client")
      /\ Got("client").type \in MessageTypes /\ Got("client").body \in Bodies /\ setup \in Setup
      /\ Got("client").type = "CertificateRequest" /\ Real(Other("client"), Got("client"))
  BY <1>1, <1>2, ReadIs, Takes13Are DEF Knows, ClientKnows
<1>5. /\ s \in Context /\ s.out = <<>> /\ s.result = "running" /\ ~ s.keep /\ s.version = "tls13"
      /\ s.checksum = Append(a.checksum, <<Got("client").type, Got("client").body>>)
      /\ s.inKey = a.inKey /\ s.outKey = a.outKey /\ s.clientAuth = TRUE /\ s.peerCert = a.peerCert
  BY <1>3, Hash13Is DEF Context
<1>6. /\ b.state = "SERVER_CERTIFICATE" /\ b.version = "tls13" /\ ~ b.keep /\ b.out = <<>>
      /\ b.result = "running" /\ b.checksum = s.checksum
      /\ b.inKey = s.inKey /\ b.outKey = s.outKey /\ b.clientAuth = s.clientAuth /\ b.peerCert = s.peerCert
  <2> HIDE DEF s
  <2> QED
    BY <1>5 DEF Context
<1> HIDE DEF s, b
<1>7. /\ Heard(b) = Heard(a) \cup {<<Got("client").type, Got("client").body>>}
      /\ \A t : HeardAny(b, t) <=> HeardAny(a, t) \/ t = Got("client").type
  <2>1. Longer(a, b, Got("client").type, Got("client").body)
    BY <1>3, <1>5, <1>6, HeardMore
  <2> QED
    BY <2>1 DEF Longer
<1>8. ClientKnows(b)
  <2>1. Client13Knows(b)
    BY <1>1, <1>3, <1>5, <1>6, <1>7 DEF Client13Knows, ClientKnows
  <2> QED
    BY <2>1, <1>3, <1>5, <1>6, <1>7 DEF ClientKnows, EndKnows
<1>9. Steady("client", a, b) /\ Settled("client", a, b)
  BY <1>3, <1>5, <1>6 DEF Steady, Settled, Said, ClientSaid, Done, ClientDone, Last
<1> QED
  BY <1>1, <1>2, <1>5, <1>8, <1>9, AcceptKeeps DEF b, Knows

\* The TLS 1.3 client leaves the message it has read in CERTIFICATE_REQUEST
\* to the next state.
LEMMA NoCertificateRequest13Keeps ==
    ASSUME IInv, tls13_process_certificate_request, Got("client").type # "CertificateRequest"
    PROVE  IInv'
<1> DEFINE a == ssl["client"]
           s == ssl["client"]
           b == [s EXCEPT !.state = "SERVER_CERTIFICATE", !.keep = TRUE, !.msg = Got("client")]
<1>1. /\ "client" \in Ends /\ "tls13" \in Versions /\ "tls13" \in Versions /\ "SERVER_CERTIFICATE" \in Client13States
      /\ Client13States \subseteq StateNames
  BY DEF Ends, Versions, StateNames, Client13States
<1>2. Reads("client", "tls13", "CERTIFICATE_REQUEST") /\ Keep("client", s, "SERVER_CERTIFICATE")
  BY DEF tls13_process_certificate_request
<1>3. /\ a \in Context /\ ClientKnows(a) /\ Client13Knows(a) /\ a.out = <<>> /\ a.result = "running"
      /\ a.version = "tls13" /\ a.state = "CERTIFICATE_REQUEST" /\ Running("client") /\ Has("client")
      /\ Got("client").type \in MessageTypes /\ Got("client").body \in Bodies /\ setup \in Setup
      /\ Got("client") \in Record /\ Real(Other("client"), Got("client")) /\ flights' \in [Ends -> Nat]
  BY <1>1, <1>2, ReadIs DEF Knows, ClientKnows, Keep, IInv, Types
<1>4. /\ s \in Context /\ s.out = <<>> /\ s.result = "running" /\ s.version = "tls13"
      /\ s.clientAuth = a.clientAuth /\ s.peerCert = a.peerCert
      /\ s.inKey = a.inKey /\ s.outKey = a.outKey
      /\ s.checksum = a.checksum
  BY <1>1, <1>3 DEF Context
<1>5. /\ b \in Context /\ b.state = "SERVER_CERTIFICATE" /\ b.version = "tls13" /\ b.keep /\ b.msg = Got("client")
      /\ b.out = <<>> /\ b.result = "running" /\ b.checksum = s.checksum
      /\ b.clientAuth = s.clientAuth /\ b.peerCert = s.peerCert
      /\ b.inKey = s.inKey /\ b.outKey = s.outKey
  <2> HIDE DEF s
  <2> QED
    BY <1>1, <1>3, <1>4 DEF Context
<1> HIDE DEF s, b
<1>6. Heard(b) = Heard(a) /\ \A t : HeardAny(b, t) <=> HeardAny(a, t)
  BY <1>4, <1>5, HeardSame
<1>7. ClientKnows(b)
  <2>1. Client13Knows(b)
    BY <1>1, <1>2, <1>3, <1>4, <1>5, <1>6 DEF Client13Knows, ClientKnows
  <2> QED
    BY <2>1, <1>2, <1>3, <1>4, <1>5, <1>6 DEF ClientKnows, EndKnows
<1>8. Steady("client", a, b) /\ Settled("client", a, b)
  BY <1>3, <1>4, <1>5 DEF Steady, Settled, Said, ClientSaid, Done, ClientDone, Last
<1>9. setup' = setup /\ ssl' = [ssl EXCEPT !["client"] = b] /\ wire' = Consumed("client")
  BY <1>2 DEF Keep, b
<1>10. Fits("client", b)
  BY <1>5, <1>7, <1>8 DEF Fits, Knows
<1> QED
  BY <1>1, <1>3, <1>5, <1>8, <1>9, <1>10, AcceptIs

\* The ServerHello is left to the TLS 1.2 code.
LEMMA FallBackKeeps ==
    ASSUME IInv, tls13_process_server_hello, Got("client").body = "tls12"
    PROVE  IInv'
<1> DEFINE a == ssl["client"]
           s == [Hash13("client") EXCEPT !.version = "tls12"]
           b == [s EXCEPT !.state = "SERVER_HELLO", !.keep = TRUE, !.msg = Got("client")]
<1>1. /\ "client" \in Ends /\ "tls13" \in Versions /\ "tls12" \in Versions /\ "SERVER_HELLO" \in Client12States
      /\ Client12States \subseteq StateNames
  BY DEF Ends, Versions, StateNames, Client12States
<1>2. Reads("client", "tls13", "SERVER_HELLO") /\ Keep("client", s, "SERVER_HELLO") /\ Got("client").body = "tls12"
  BY DEF tls13_process_server_hello
<1>3. /\ a \in Context /\ ClientKnows(a) /\ Client13Knows(a) /\ a.out = <<>> /\ a.result = "running"
      /\ a.version = "tls13" /\ a.state = "SERVER_HELLO" /\ Running("client") /\ Has("client")
      /\ Got("client").type \in MessageTypes /\ Got("client").body \in Bodies /\ setup \in Setup
      /\ Got("client") \in Record /\ Real(Other("client"), Got("client")) /\ flights' \in [Ends -> Nat]
      /\ Got("client").type = "ServerHello"
  BY <1>1, <1>2, ReadIs, Takes13Are DEF Knows, ClientKnows, Keep, IInv, Types
<1>4. /\ s \in Context /\ s.out = <<>> /\ s.result = "running" /\ s.version = "tls12"
      /\ s.clientAuth = a.clientAuth /\ s.peerCert = a.peerCert
      /\ s.inKey = a.inKey /\ s.outKey = a.outKey
      /\ s.checksum = Append(a.checksum, <<Got("client").type, Got("client").body>>)
  BY <1>1, <1>3, Hash13Is DEF Context
<1>5. /\ b \in Context /\ b.state = "SERVER_HELLO" /\ b.version = "tls12" /\ b.keep /\ b.msg = Got("client")
      /\ b.out = <<>> /\ b.result = "running" /\ b.checksum = s.checksum
      /\ b.clientAuth = s.clientAuth /\ b.peerCert = s.peerCert
      /\ b.inKey = s.inKey /\ b.outKey = s.outKey
  <2> HIDE DEF s
  <2> QED
    BY <1>1, <1>3, <1>4 DEF Context
<1> HIDE DEF s, b
<1>6. /\ Heard(b) = Heard(a) \cup {<<Got("client").type, Got("client").body>>}
      /\ \A t : HeardAny(b, t) <=> HeardAny(a, t) \/ t = Got("client").type
  <2>1. Longer(a, b, Got("client").type, Got("client").body)
    BY <1>3, <1>4, <1>5, HeardMore
  <2> QED
    BY <2>1 DEF Longer
<1>7. ClientKnows(b)
  <2>1. Client12Knows(b)
    BY <1>1, <1>2, <1>3, <1>4, <1>5, <1>6 DEF Client13Knows, Client12Knows,
       ClientKnows, Real
  <2> QED
    BY <2>1, <1>2, <1>3, <1>4, <1>5, <1>6 DEF ClientKnows, EndKnows
<1>8. Steady("client", a, b) /\ Settled("client", a, b)
  BY <1>3, <1>4, <1>5 DEF Steady, Settled, Said, ClientSaid, Done, ClientDone, Last
<1>9. setup' = setup /\ ssl' = [ssl EXCEPT !["client"] = b] /\ wire' = Consumed("client")
  BY <1>2 DEF Keep, b
<1>10. Fits("client", b)
  BY <1>5, <1>7, <1>8 DEF Fits, Knows
<1> QED
  BY <1>1, <1>3, <1>5, <1>8, <1>9, <1>10, AcceptIs

\* The TLS 1.3 client takes a ServerHello in SERVER_HELLO.
LEMMA ServerHello13Keeps ==
    ASSUME IInv, tls13_process_server_hello, Got("client").body \notin {"tls12", "tls12 downgraded", "retry"}
    PROVE  IInv'
<1> DEFINE a == ssl["client"]
           s == [Hash13("client") EXCEPT !.inKey = "handshake"]
           b == [s EXCEPT !.state = "ENCRYPTED_EXTENSIONS"]
<1>1. /\ "client" \in Ends /\ "tls13" \in Versions /\ "ENCRYPTED_EXTENSIONS" \in Client13States
      /\ Client13States \subseteq StateNames
  BY DEF Ends, Versions, StateNames, Client13States
<1>2. Reads("client", "tls13", "SERVER_HELLO") /\ Accept("client", s, "ENCRYPTED_EXTENSIONS") /\ Got("client").body \notin {"tls12", "tls12 downgraded", "retry"}
  BY <1>1 DEF tls13_process_server_hello
<1>3. /\ a \in Context /\ ClientKnows(a) /\ Client13Knows(a) /\ a.out = <<>> /\ a.result = "running"
      /\ a.version = "tls13" /\ a.state = "SERVER_HELLO" /\ Running("client") /\ Has("client")
      /\ Got("client").type \in MessageTypes /\ Got("client").body \in Bodies /\ setup \in Setup
      /\ Got("client").type = "ServerHello" /\ Real(Other("client"), Got("client"))
  BY <1>1, <1>2, ReadIs, Takes13Are DEF Knows, ClientKnows
<1>5. /\ s \in Context /\ s.out = <<>> /\ s.result = "running" /\ ~ s.keep /\ s.version = "tls13"
      /\ s.checksum = Append(a.checksum, <<Got("client").type, Got("client").body>>)
      /\ s.inKey = "handshake" /\ s.outKey = a.outKey /\ s.clientAuth = a.clientAuth /\ s.peerCert = a.peerCert
  BY <1>3, Hash13Is DEF Context, Keys
<1>6. /\ b.state = "ENCRYPTED_EXTENSIONS" /\ b.version = "tls13" /\ ~ b.keep /\ b.out = <<>>
      /\ b.result = "running" /\ b.checksum = s.checksum
      /\ b.inKey = s.inKey /\ b.outKey = s.outKey /\ b.clientAuth = s.clientAuth /\ b.peerCert = s.peerCert
  <2> HIDE DEF s
  <2> QED
    BY <1>5 DEF Context
<1> HIDE DEF s, b
<1>7. /\ Heard(b) = Heard(a) \cup {<<Got("client").type, Got("client").body>>}
      /\ \A t : HeardAny(b, t) <=> HeardAny(a, t) \/ t = Got("client").type
  <2>1. Longer(a, b, Got("client").type, Got("client").body)
    BY <1>3, <1>5, <1>6, HeardMore
  <2> QED
    BY <2>1 DEF Longer
<1>8. ClientKnows(b)
  <2>1. Client13Knows(b)
    BY <1>1, <1>3, <1>2, <1>5, <1>6, <1>7 DEF Client13Knows, ClientKnows, Real
  <2> QED
    BY <2>1, <1>3, <1>5, <1>6, <1>7 DEF ClientKnows, EndKnows
<1>9. Steady("client", a, b) /\ Settled("client", a, b)
  BY <1>3, <1>5, <1>6 DEF Steady, Settled, Said, ClientSaid, Done, ClientDone, Last
<1> QED
  BY <1>1, <1>2, <1>5, <1>8, <1>9, AcceptKeeps DEF b, Knows

\* A HelloRetryRequest: the transcript begins anew.
LEMMA ResetIs ==
    ASSUME NEW s \in Context, s.checksum # <<>>
    PROVE  /\ << <<"message_hash", s.checksum[1][2]>> >> \in Seq(Entry)
           /\ TranscriptReset(s) = [s EXCEPT !.checksum = << <<"message_hash", s.checksum[1][2]>> >>]
           /\ TranscriptReset(s) \in Context
           /\ In(<< <<"message_hash", s.checksum[1][2]>> >>) = {<<"message_hash", s.checksum[1][2]>>}
           /\ s.checksum[1][2] \in Bodies
<1>1. s.checksum \in Seq(Entry)
  BY DEF Context
<1>2. s.checksum[1] \in Entry
  <2>1. Len(s.checksum) \in Nat /\ Len(s.checksum) # 0
    BY <1>1, EmptySeq, LenProperties
  <2> QED
    BY <1>1, <2>1
<1>3. s.checksum[1][2] \in Bodies
  BY <1>2 DEF Entry
<1> DEFINE x == <<"message_hash", s.checksum[1][2]>>
<1>4. x \in Entry
  BY <1>3 DEF Entry, MessageTypes
<1> HIDE DEF x
<1>5. <<x>> \in Seq(Entry) /\ In(<<x>>) = {x}
  BY <1>4, InOne
<1>6. TranscriptReset(s) = [s EXCEPT !.checksum = <<x>>]
  BY DEF TranscriptReset, x
<1>7. TranscriptReset(s) \in Context
  BY <1>5, <1>6 DEF Context
<1> QED
  BY <1>3, <1>5, <1>6, <1>7 DEF x

\* What is left of a transcript that is begun anew with a retry.
Anew(c) ==
    /\ c \in Seq(Entry) /\ c # <<>>
    /\ \A type \in {"ServerHello", "CertificateRequest", "ClientKeyExchange"}, body \in Bodies :
          <<type, body>> \in In(c) => type = "ServerHello" /\ body = "retry"

\* The transcript begun anew by a HelloRetryRequest.
LEMMA AnewIs ==
    ASSUME NEW s \in Context, s.checksum # <<>>
    PROVE  LET r == TranscriptReset(s)
               h == Hashed(r, "ServerHello", "retry")
           IN  /\ h = [s EXCEPT !.checksum = Append(r.checksum, <<"ServerHello", "retry">>)]
               /\ Append(r.checksum, <<"ServerHello", "retry">>) \in Seq(Entry)
               /\ Anew(Append(r.checksum, <<"ServerHello", "retry">>))
<1> DEFINE x == <<"message_hash", s.checksum[1][2]>>
           y == <<"ServerHello", "retry">>
           r == TranscriptReset(s)
           c == Append(<<x>>, y)
<1>1. <<x>> \in Seq(Entry) /\ r = [s EXCEPT !.checksum = <<x>>] /\ In(<<x>>) = {x} /\ r \in Context
  BY ResetIs
<1>2. y \in Entry
  BY DEF Entry, MessageTypes, AnyMessage, Bodies
<1>3. c \in Seq(Entry) /\ In(c) = {x} \cup {y} /\ c # <<>>
  BY <1>1, <1>2, InAppend, AppendNotEmpty
<1>4. Hashed(r, "ServerHello", "retry") = [s EXCEPT !.checksum = c] /\ r.checksum = <<x>>
  <2>1. r.checksum = <<x>>
    BY <1>1 DEF Context
  <2>2. Hashed(r, "ServerHello", "retry") = [r EXCEPT !.checksum = c]
    BY <2>1 DEF Hashed
  <2> HIDE DEF x, y, c
  <2>3. [[s EXCEPT !.checksum = <<x>>] EXCEPT !.checksum = c] = [s EXCEPT !.checksum = c]
    BY DEF Context
  <2> QED
    BY <1>1, <2>1, <2>2, <2>3
<1>5. Anew(c)
  <2> SUFFICES ASSUME NEW type \in {"ServerHello", "CertificateRequest", "ClientKeyExchange"},
                      NEW body \in Bodies, <<type, body>> \in In(c)
               PROVE  type = "ServerHello" /\ body = "retry"
    BY <1>3 DEF Anew
  <2>1. <<type, body>> = x \/ <<type, body>> = y
    BY <1>3
  <2> QED
    BY <2>1
<1> QED
  BY <1>3, <1>4, <1>5

\* What a context owes to a new beginning (mbedtls_ssl_session_reset_msg_layer).
LEMMA RetryIs ==
    ASSUME NEW a \in Context, a.checksum # <<>>, NEW h,
           h = Hashed(TranscriptReset(a), "ServerHello", "retry")
    PROVE  LET s == LayerReset([h EXCEPT !.retried = TRUE])
           IN  /\ s \in Context /\ Anew(s.checksum) /\ ~ s.keep /\ s.out = <<>>
               /\ s.version = a.version /\ s.result = a.result
               /\ s.clientAuth = a.clientAuth /\ s.peerCert = a.peerCert
<1> DEFINE c == Append(TranscriptReset(a).checksum, <<"ServerHello", "retry">>)
<1>1. h = [a EXCEPT !.checksum = c] /\ c \in Seq(Entry) /\ Anew(c)
  BY AnewIs
<1> HIDE DEF c
<1>2. "plain" \in Keys /\ <<>> \in Seq(Record) /\ NoMessage \in Record \cup {NoMessage}
  BY DEF Keys
<1>3. LayerReset([h EXCEPT !.retried = TRUE]) =
        [a EXCEPT !.checksum = c, !.retried = TRUE, !.out = <<>>, !.keep = FALSE,
                  !.msg = NoMessage, !.inKey = "plain", !.outKey = "plain"]
  BY <1>1 DEF LayerReset, Context
<1> QED
  BY <1>1, <1>2, <1>3 DEF Context

\* A client that is asked to say hello again.
LEMMA RetryRead ==
    ASSUME IInv, tls13_process_server_hello, Got("client").body = "retry"
    PROVE  IInv'
<1> DEFINE a == ssl["client"]
           h == Hashed(TranscriptReset(a), "ServerHello", "retry")
           s == LayerReset([h EXCEPT !.retried = TRUE])
           next == "CLIENT_CCS_BEFORE_2ND_CLIENT_HELLO"
           b == [s EXCEPT !.state = next]
<1>1. /\ "client" \in Ends /\ "tls13" \in Versions /\ next \in Client13States
      /\ Client13States \subseteq StateNames
  BY DEF Ends, Versions, StateNames, Client13States
<1>2. /\ Reads("client", "tls13", "SERVER_HELLO")
      /\ Accept("client", s, next) \/ Refuse("client", "unexpected")
  BY DEF tls13_process_server_hello
<1>3. /\ a \in Context /\ ClientKnows(a) /\ Client13Knows(a) /\ a.out = <<>> /\ a.result = "running"
      /\ a.version = "tls13" /\ a.state = "SERVER_HELLO" /\ Running("client") /\ Has("client")
  BY <1>1, <1>2, ReadIs DEF Knows, ClientKnows
<1>4. SUFFICES ASSUME Accept("client", s, next) PROVE IInv'
  BY <1>1, <1>2, <1>3, RefuseKeeps DEF Results
<1>5. a.checksum # <<>> /\ ~ a.clientAuth
  BY <1>3 DEF Client13Knows
<1>6. /\ s \in Context /\ Anew(s.checksum) /\ ~ s.keep /\ s.out = <<>> /\ s.version = "tls13"
      /\ s.result = "running" /\ s.clientAuth = a.clientAuth
  BY <1>3, <1>5, RetryIs
<1> HIDE DEF s
<1>7. /\ b.state = next /\ b.version = "tls13" /\ ~ b.keep /\ b.out = <<>> /\ b.result = "running"
      /\ b.checksum = s.checksum /\ b.clientAuth = s.clientAuth
  BY <1>6 DEF Context
<1> HIDE DEF b
<1>8. ClientKnows(b)
  <2>1. ~ HeardAny(b, "CertificateRequest")
    BY <1>6, <1>7 DEF HeardAny, Heard, Anew
  <2>2. Client13Knows(b)
    BY <1>1, <1>3, <1>5, <1>6, <1>7 DEF Client13Knows
  <2> QED
    BY <1>5, <1>6, <1>7, <2>1, <2>2 DEF ClientKnows, EndKnows
<1>9. Steady("client", a, b) /\ Settled("client", a, b)
  BY <1>3, <1>7 DEF Steady, Settled, Said, ClientSaid, Done, ClientDone
<1> QED
  BY <1>1, <1>2, <1>4, <1>6, <1>8, <1>9, AcceptKeeps DEF b, Knows

\* A client that is answered in TLS 1.2 though the server knows TLS 1.3.
LEMMA DowngradeKeeps ==
    ASSUME IInv, tls13_process_server_hello, Got("client").body = "tls12 downgraded"
    PROVE  IInv'
<1>1. Reads("client", "tls13", "SERVER_HELLO") /\ Refuse("client", "downgrade")
  BY DEF tls13_process_server_hello
<1>2. "client" \in Ends /\ "tls13" \in Versions /\ "downgrade" \in Results \ {"running"}
  BY DEF Ends, Versions, Results
<1> QED
  BY <1>1, <1>2, ReadIs, RefuseKeeps

\* The TLS 1.3 client, as a whole.
LEMMA Client13Keeps ==
    ASSUME IInv, Client13
    PROVE  IInv'
<1>1. CASE tls13_process_server_hello
  BY <1>1, FallBackKeeps, ServerHello13Keeps, RetryRead, DowngradeKeeps
<1>2. CASE tls13_process_certificate_request
  BY <1>2, CertificateRequest13Keeps, NoCertificateRequest13Keeps
<1>3. CASE tls13_write_client_certificate
  BY <1>3, ClientCertificateKeeps, NoClientCertificateKeeps, NotAskedKeeps
<1>4. CASE tls13_write_change_cipher_spec("client", "CLIENT_CCS_BEFORE_2ND_CLIENT_HELLO",
                                          "CLIENT_HELLO")
  BY <1>4, ClientCcs1SentKeeps, ClientCcs1Keeps
<1>5. CASE tls13_write_change_cipher_spec("client", "CLIENT_CCS_AFTER_SERVER_FINISHED",
                                          "CLIENT_CERTIFICATE")
  BY <1>5, ClientCcs2SentKeeps, ClientCcs2Keeps
<1> QED
  BY <1>1, <1>2, <1>3, <1>4, <1>5, ClientHello13Keeps, EncryptedExtensionsKeeps,
     ServerCertificate13Keeps, ServerCertificateVerifyKeeps, ServerFinished13Keeps,
     ClientCertificateVerify13Keeps, ClientFinished13Keeps, Flush13Keeps
     DEF Client13

-----------------------------------------------------------------------------
(* The TLS 1.3 server.                                                     *)

\* The TLS 1.3 server finds no application protocol that both ends know.
LEMMA ProtocolRefused13Keeps ==
    ASSUME IInv, tls13_process_client_hello, Got("server").body # "tls12", NoCommonProtocol
    PROVE  IInv'
<1>1. Reads("server", "tls13", "CLIENT_HELLO") /\ Refuse("server", "no_application_protocol")
  BY DEF tls13_process_client_hello
<1>2. /\ "server" \in Ends /\ "tls13" \in Versions
      /\ "no_application_protocol" \in Results \ {"running"}
  BY DEF Ends, Versions, Results
<1> QED
  BY <1>1, <1>2, ReadIs, RefuseKeeps

\* The TLS 1.3 server takes a ClientHello in CLIENT_HELLO.
LEMMA ClientHelloAgain13Keeps ==
    ASSUME IInv, tls13_process_client_hello, Got("server").body # "tls12",
           ~ NoCommonProtocol, setup.shareRefused, Got("server").body = "tls13"
    PROVE  IInv'
<1> DEFINE a == ssl["server"]
           s == Hash13("server")
           b == [s EXCEPT !.state = "HELLO_RETRY_REQUEST"]
<1>1. /\ "server" \in Ends /\ "tls13" \in Versions /\ "HELLO_RETRY_REQUEST" \in Server13States
      /\ Server13States \subseteq StateNames
  BY DEF Ends, Versions, StateNames, Server13States
<1>2. Reads("server", "tls13", "CLIENT_HELLO") /\ Accept("server", s, "HELLO_RETRY_REQUEST")
  BY <1>1 DEF tls13_process_client_hello
<1>3. /\ a \in Context /\ ServerKnows(a) /\ Server13Knows(a) /\ a.out = <<>> /\ a.result = "running"
      /\ a.version = "tls13" /\ a.state = "CLIENT_HELLO" /\ Running("server") /\ Has("server")
      /\ Got("server").type \in MessageTypes /\ Got("server").body \in Bodies /\ setup \in Setup
      /\ Got("server").type = "ClientHello" /\ Real(Other("server"), Got("server"))
  BY <1>1, <1>2, ReadIs, Takes13Are DEF Knows, ServerKnows
<1>5. /\ s \in Context /\ s.out = <<>> /\ s.result = "running" /\ ~ s.keep /\ s.version = "tls13"
      /\ s.checksum = Append(a.checksum, <<Got("server").type, Got("server").body>>)
      /\ s.inKey = a.inKey /\ s.outKey = a.outKey /\ s.clientAuth = a.clientAuth /\ s.peerCert = a.peerCert
  BY <1>3, Hash13Is DEF Context
<1>6. /\ b.state = "HELLO_RETRY_REQUEST" /\ b.version = "tls13" /\ ~ b.keep /\ b.out = <<>>
      /\ b.result = "running" /\ b.checksum = s.checksum
      /\ b.inKey = s.inKey /\ b.outKey = s.outKey /\ b.clientAuth = s.clientAuth /\ b.peerCert = s.peerCert
  <2> HIDE DEF s
  <2> QED
    BY <1>5 DEF Context
<1> HIDE DEF s, b
<1>7. /\ Heard(b) = Heard(a) \cup {<<Got("server").type, Got("server").body>>}
      /\ \A t : HeardAny(b, t) <=> HeardAny(a, t) \/ t = Got("server").type
  <2>1. Longer(a, b, Got("server").type, Got("server").body)
    BY <1>3, <1>5, <1>6, HeardMore
  <2> QED
    BY <2>1 DEF Longer
<1>15. b.checksum # <<>>
  <2>1. a.checksum \in Seq(Entry) /\ <<Got("server").type, Got("server").body>> \in Entry
    BY <1>3 DEF Context, Entry
  <2> QED
    BY <1>5, <1>6, <2>1, AppendNotEmpty
<1>8. ServerKnows(b)
  <2>1. Server13Knows(b)
    BY <1>1, <1>3, <1>5, <1>6, <1>7, <1>15 DEF Server13Knows
  <2> QED
    BY <2>1, <1>3, <1>5, <1>6, <1>7 DEF ServerKnows, EndKnows
<1>9. Steady("server", a, b) /\ Settled("server", a, b)
  BY <1>3, <1>5, <1>6 DEF Steady, Settled, Said, ServerSaid, Done, ServerDone, Last
<1> QED
  BY <1>1, <1>2, <1>5, <1>8, <1>9, AcceptKeeps DEF b, Knows

\* The TLS 1.3 server takes a ClientHello in CLIENT_HELLO.
LEMMA ClientHelloRead13Keeps ==
    ASSUME IInv, tls13_process_client_hello, Got("server").body # "tls12",
           ~ NoCommonProtocol, ~ (setup.shareRefused /\ Got("server").body = "tls13")
    PROVE  IInv'
<1> DEFINE a == ssl["server"]
           s == Hash13("server")
           b == [s EXCEPT !.state = "SERVER_HELLO"]
<1>1. /\ "server" \in Ends /\ "tls13" \in Versions /\ "SERVER_HELLO" \in Server13States
      /\ Server13States \subseteq StateNames
  BY DEF Ends, Versions, StateNames, Server13States
<1>2. Reads("server", "tls13", "CLIENT_HELLO") /\ Accept("server", s, "SERVER_HELLO")
  BY <1>1 DEF tls13_process_client_hello
<1>3. /\ a \in Context /\ ServerKnows(a) /\ Server13Knows(a) /\ a.out = <<>> /\ a.result = "running"
      /\ a.version = "tls13" /\ a.state = "CLIENT_HELLO" /\ Running("server") /\ Has("server")
      /\ Got("server").type \in MessageTypes /\ Got("server").body \in Bodies /\ setup \in Setup
      /\ Got("server").type = "ClientHello" /\ Real(Other("server"), Got("server"))
  BY <1>1, <1>2, ReadIs, Takes13Are DEF Knows, ServerKnows
<1>5. /\ s \in Context /\ s.out = <<>> /\ s.result = "running" /\ ~ s.keep /\ s.version = "tls13"
      /\ s.checksum = Append(a.checksum, <<Got("server").type, Got("server").body>>)
      /\ s.inKey = a.inKey /\ s.outKey = a.outKey /\ s.clientAuth = a.clientAuth /\ s.peerCert = a.peerCert
  BY <1>3, Hash13Is DEF Context
<1>6. /\ b.state = "SERVER_HELLO" /\ b.version = "tls13" /\ ~ b.keep /\ b.out = <<>>
      /\ b.result = "running" /\ b.checksum = s.checksum
      /\ b.inKey = s.inKey /\ b.outKey = s.outKey /\ b.clientAuth = s.clientAuth /\ b.peerCert = s.peerCert
  <2> HIDE DEF s
  <2> QED
    BY <1>5 DEF Context
<1> HIDE DEF s, b
<1>7. /\ Heard(b) = Heard(a) \cup {<<Got("server").type, Got("server").body>>}
      /\ \A t : HeardAny(b, t) <=> HeardAny(a, t) \/ t = Got("server").type
  <2>1. Longer(a, b, Got("server").type, Got("server").body)
    BY <1>3, <1>5, <1>6, HeardMore
  <2> QED
    BY <2>1 DEF Longer
<1>8. ServerKnows(b)
  <2>1. Server13Knows(b)
    BY <1>1, <1>3, <1>5, <1>6, <1>7 DEF Server13Knows
  <2> QED
    BY <2>1, <1>3, <1>5, <1>6, <1>7 DEF ServerKnows, EndKnows
<1>9. Steady("server", a, b) /\ Settled("server", a, b)
  BY <1>3, <1>5, <1>6 DEF Steady, Settled, Said, ServerSaid, Done, ServerDone, Last
<1> QED
  BY <1>1, <1>2, <1>5, <1>8, <1>9, AcceptKeeps DEF b, Knows

\* The ClientHello is left to the TLS 1.2 code.
LEMMA ClientFallsBackKeeps ==
    ASSUME IInv, tls13_process_client_hello, Got("server").body = "tls12"
    PROVE  IInv'
<1> DEFINE a == ssl["server"]
           s == [ssl["server"] EXCEPT !.version = "tls12"]
           b == [s EXCEPT !.state = "CLIENT_HELLO", !.keep = TRUE, !.msg = Got("server")]
<1>1. /\ "server" \in Ends /\ "tls13" \in Versions /\ "tls12" \in Versions /\ "CLIENT_HELLO" \in Server12States
      /\ Server12States \subseteq StateNames
  BY DEF Ends, Versions, StateNames, Server12States, Client12States
<1>2. Reads("server", "tls13", "CLIENT_HELLO") /\ Keep("server", s, "CLIENT_HELLO") /\ Got("server").body = "tls12"
  BY DEF tls13_process_client_hello
<1>3. /\ a \in Context /\ ServerKnows(a) /\ Server13Knows(a) /\ a.out = <<>> /\ a.result = "running"
      /\ a.version = "tls13" /\ a.state = "CLIENT_HELLO" /\ Running("server") /\ Has("server")
      /\ Got("server").type \in MessageTypes /\ Got("server").body \in Bodies /\ setup \in Setup
      /\ Got("server") \in Record /\ Real(Other("server"), Got("server")) /\ flights' \in [Ends -> Nat]
      /\ Got("server").type = "ClientHello"
  BY <1>1, <1>2, ReadIs, Takes13Are DEF Knows, ServerKnows, Keep, IInv, Types
<1>4. /\ s \in Context /\ s.out = <<>> /\ s.result = "running" /\ s.version = "tls12"
      /\ s.clientAuth = a.clientAuth /\ s.peerCert = a.peerCert
      /\ s.inKey = a.inKey /\ s.outKey = a.outKey
      /\ s.checksum = a.checksum
  BY <1>1, <1>3 DEF Context
<1>5. /\ b \in Context /\ b.state = "CLIENT_HELLO" /\ b.version = "tls12" /\ b.keep /\ b.msg = Got("server")
      /\ b.out = <<>> /\ b.result = "running" /\ b.checksum = s.checksum
      /\ b.clientAuth = s.clientAuth /\ b.peerCert = s.peerCert
      /\ b.inKey = s.inKey /\ b.outKey = s.outKey
  <2> HIDE DEF s
  <2> QED
    BY <1>1, <1>3, <1>4 DEF Context
<1> HIDE DEF s, b
<1>6. Heard(b) = Heard(a) /\ \A t : HeardAny(b, t) <=> HeardAny(a, t)
  BY <1>4, <1>5, HeardSame
<1>7. ServerKnows(b)
  <2>1. Server12Knows(b)
    BY <1>1, <1>2, <1>3, <1>4, <1>5, <1>6 DEF Server13Knows, Server12Knows, Real
  <2> QED
    BY <2>1, <1>2, <1>3, <1>4, <1>5, <1>6 DEF ServerKnows, EndKnows
<1>8. Steady("server", a, b) /\ Settled("server", a, b)
  BY <1>3, <1>4, <1>5 DEF Steady, Settled, Said, ServerSaid, Done, ServerDone, Last
<1>9. setup' = setup /\ ssl' = [ssl EXCEPT !["server"] = b] /\ wire' = Consumed("server")
  BY <1>2 DEF Keep, b
<1>10. Fits("server", b)
  BY <1>5, <1>7, <1>8 DEF Fits, Knows
<1> QED
  BY <1>1, <1>3, <1>5, <1>8, <1>9, <1>10, AcceptIs

\* The TLS 1.3 server writes a ServerHello in SERVER_HELLO.
LEMMA ServerHello13WrittenKeeps ==
    ASSUME IInv, tls13_write_server_hello
    PROVE  IInv'
<1> DEFINE a == ssl["server"]
           s == ssl["server"]
           body == "tls13"
           w == Written(s, "ServerHello", body, "SERVER_CCS_AFTER_SERVER_HELLO")
           r == Seal(s, "ServerHello", body)
<1>1. /\ "server" \in Ends /\ "tls13" \in Versions /\ "SERVER_CCS_AFTER_SERVER_HELLO" \in Server13States
      /\ Server13States \subseteq StateNames /\ "ServerHello" \in MessageTypes
  BY DEF Ends, Versions, StateNames, Server13States, MessageTypes, AnyMessage
<1>2. At("server", "tls13", "SERVER_HELLO") /\ Write("server", s, "ServerHello", body, "SERVER_CCS_AFTER_SERVER_HELLO")
  BY DEF tls13_write_server_hello
<1>3. /\ a \in Context /\ ServerKnows(a) /\ Server13Knows(a) /\ a.out = <<>> /\ a.result = "running"
      /\ a.version = "tls13" /\ a.state = "SERVER_HELLO" /\ setup \in Setup /\ Genuine("server")
  BY <1>1, <1>2, AtIs, EndAt DEF Knows, ServerKnows
<1>4. body \in Bodies
  BY <1>1, <1>3 DEF Bodies, Ends, Setup
<1>5. /\ s \in Context /\ s.out = <<>> /\ s.result = "running" /\ s.version = "tls13"
      /\ s.keep = a.keep /\ s.msg = a.msg /\ s.checksum = a.checksum
      /\ s.inKey = a.inKey /\ s.outKey = a.outKey /\ s.clientAuth = a.clientAuth /\ s.peerCert = a.peerCert
  BY <1>3 DEF Context, Keys, Certificates
<1> HIDE DEF s
<1>6. /\ w \in Context /\ w.state = "SERVER_CCS_AFTER_SERVER_HELLO" /\ w.version = "tls13" /\ w.keep = s.keep
      /\ w.out = <<>> /\ w.result = "running" /\ w.checksum = Append(s.checksum, <<"ServerHello", body>>)
      /\ w.inKey = s.inKey /\ w.outKey = s.outKey /\ w.clientAuth = s.clientAuth /\ w.peerCert = s.peerCert
  <2> HIDE DEF body, w
  <2>1. "SERVER_CCS_AFTER_SERVER_HELLO" \in StateNames /\ w = Written(s, "ServerHello", body, "SERVER_CCS_AFTER_SERVER_HELLO")
    BY <1>1 DEF w
  <2>2. WrittenOf(s, "ServerHello", body, "SERVER_CCS_AFTER_SERVER_HELLO", w)
    BY <1>1, <1>4, <1>5, <2>1, WrittenIs
  <2> QED
    BY <1>5, <2>2 DEF WrittenOf
<1> HIDE DEF w
<1>7. /\ Heard(w) = Heard(a) \cup {<<"ServerHello", body>>}
      /\ \A t : HeardAny(w, t) <=> HeardAny(a, t) \/ t = "ServerHello"
  <2>1. Longer(a, w, "ServerHello", body)
    BY <1>1, <1>3, <1>4, <1>5, <1>6, HeardMore
  <2> QED
    BY <2>1 DEF Longer
<1>8. ServerKnows(w)
  <2>1. Server13Knows(w)
    BY <1>1, <1>2, <1>3, <1>5, <1>6, <1>7 DEF Server13Knows
  <2> QED
    BY <2>1, <1>3, <1>5, <1>6, <1>7 DEF ServerKnows, EndKnows
<1>9. ~ Said("server", a) /\ Steady("server", a, w) /\ Settled("server", a, w)
  BY <1>3, <1>5, <1>6 DEF Steady, Settled, Said, ServerSaid, Done, ServerDone, Last
<1>10. r \in Record /\ r.type = "ServerHello" /\ r.body = body
       /\ ("ServerHello" \in Bound => r.covers = s.checksum)
  <2> HIDE DEF body
  <2> QED
    BY <1>1, <1>4, <1>5, SealIs
<1> HIDE DEF r
<1>11. Real("server", r)
  BY <1>1, <1>3, <1>10 DEF Real, Bound
<1>13. Fits("server", w)
  BY <1>6, <1>8, <1>9 DEF Fits, Knows
<1>14. s.keep => ssl["server"].keep /\ s.msg = ssl["server"].msg
  BY <1>5
<1> QED
  BY <1>1, <1>2, <1>3, <1>4, <1>5, <1>9, <1>11, <1>13, <1>14, WriteIs DEF w, r

\* The TLS 1.3 server writes a EncryptedExtensions in ENCRYPTED_EXTENSIONS.
LEMMA EncryptedExtensionsWrittenKeeps ==
    ASSUME IInv, tls13_write_encrypted_extensions
    PROVE  IInv'
<1> DEFINE a == ssl["server"]
           s == [ssl["server"] EXCEPT !.outKey = "handshake"]
           body == ""
           w == Written(s, "EncryptedExtensions", body, "CERTIFICATE_REQUEST")
           r == Seal(s, "EncryptedExtensions", body)
<1>1. /\ "server" \in Ends /\ "tls13" \in Versions /\ "CERTIFICATE_REQUEST" \in Server13States
      /\ Server13States \subseteq StateNames /\ "EncryptedExtensions" \in MessageTypes
  BY DEF Ends, Versions, StateNames, Server13States, MessageTypes, AnyMessage
<1>2. At("server", "tls13", "ENCRYPTED_EXTENSIONS") /\ Write("server", s, "EncryptedExtensions", body, "CERTIFICATE_REQUEST")
  BY DEF tls13_write_encrypted_extensions
<1>3. /\ a \in Context /\ ServerKnows(a) /\ Server13Knows(a) /\ a.out = <<>> /\ a.result = "running"
      /\ a.version = "tls13" /\ a.state = "ENCRYPTED_EXTENSIONS" /\ setup \in Setup /\ Genuine("server")
  BY <1>1, <1>2, AtIs, EndAt DEF Knows, ServerKnows
<1>4. body \in Bodies
  BY <1>1, <1>3 DEF Bodies, Ends, Setup
<1>5. /\ s \in Context /\ s.out = <<>> /\ s.result = "running" /\ s.version = "tls13"
      /\ s.keep = a.keep /\ s.msg = a.msg /\ s.checksum = a.checksum
      /\ s.inKey = a.inKey /\ s.outKey = "handshake" /\ s.clientAuth = a.clientAuth /\ s.peerCert = a.peerCert
  BY <1>3 DEF Context, Keys, Certificates
<1> HIDE DEF s
<1>6. /\ w \in Context /\ w.state = "CERTIFICATE_REQUEST" /\ w.version = "tls13" /\ w.keep = s.keep
      /\ w.out = <<>> /\ w.result = "running" /\ w.checksum = Append(s.checksum, <<"EncryptedExtensions", body>>)
      /\ w.inKey = s.inKey /\ w.outKey = s.outKey /\ w.clientAuth = s.clientAuth /\ w.peerCert = s.peerCert
  <2> HIDE DEF body, w
  <2>1. "CERTIFICATE_REQUEST" \in StateNames /\ w = Written(s, "EncryptedExtensions", body, "CERTIFICATE_REQUEST")
    BY <1>1 DEF w
  <2>2. WrittenOf(s, "EncryptedExtensions", body, "CERTIFICATE_REQUEST", w)
    BY <1>1, <1>4, <1>5, <2>1, WrittenIs
  <2> QED
    BY <1>5, <2>2 DEF WrittenOf
<1> HIDE DEF w
<1>7. /\ Heard(w) = Heard(a) \cup {<<"EncryptedExtensions", body>>}
      /\ \A t : HeardAny(w, t) <=> HeardAny(a, t) \/ t = "EncryptedExtensions"
  <2>1. Longer(a, w, "EncryptedExtensions", body)
    BY <1>1, <1>3, <1>4, <1>5, <1>6, HeardMore
  <2> QED
    BY <2>1 DEF Longer
<1>8. ServerKnows(w)
  <2>1. Server13Knows(w)
    BY <1>1, <1>2, <1>3, <1>5, <1>6, <1>7 DEF Server13Knows
  <2> QED
    BY <2>1, <1>3, <1>5, <1>6, <1>7 DEF ServerKnows, EndKnows
<1>9. ~ Said("server", a) /\ Steady("server", a, w) /\ Settled("server", a, w)
  BY <1>3, <1>5, <1>6 DEF Steady, Settled, Said, ServerSaid, Done, ServerDone, Last
<1>10. r \in Record /\ r.type = "EncryptedExtensions" /\ r.body = body
       /\ ("EncryptedExtensions" \in Bound => r.covers = s.checksum)
  <2> HIDE DEF body
  <2> QED
    BY <1>1, <1>4, <1>5, SealIs
<1> HIDE DEF r
<1>11. Real("server", r)
  BY <1>1, <1>3, <1>10 DEF Real, Bound
<1>13. Fits("server", w)
  BY <1>6, <1>8, <1>9 DEF Fits, Knows
<1>14. s.keep => ssl["server"].keep /\ s.msg = ssl["server"].msg
  BY <1>5
<1> QED
  BY <1>1, <1>2, <1>3, <1>4, <1>5, <1>9, <1>11, <1>13, <1>14, WriteIs DEF w, r

\* The TLS 1.3 server writes a CertificateRequest in CERTIFICATE_REQUEST.
LEMMA CertificateRequest13WrittenKeeps ==
    ASSUME IInv, tls13_write_certificate_request, setup.authmode["server"] # "none"
    PROVE  IInv'
<1> DEFINE a == ssl["server"]
           s == [ssl["server"] EXCEPT !.clientAuth = TRUE]
           body == ""
           w == Written(s, "CertificateRequest", body, "SERVER_CERTIFICATE")
           r == Seal(s, "CertificateRequest", body)
<1>1. /\ "server" \in Ends /\ "tls13" \in Versions /\ "SERVER_CERTIFICATE" \in Server13States
      /\ Server13States \subseteq StateNames /\ "CertificateRequest" \in MessageTypes
  BY DEF Ends, Versions, StateNames, Server13States, MessageTypes, AnyMessage
<1>2. At("server", "tls13", "CERTIFICATE_REQUEST") /\ Write("server", s, "CertificateRequest", body, "SERVER_CERTIFICATE")
  BY DEF tls13_write_certificate_request
<1>3. /\ a \in Context /\ ServerKnows(a) /\ Server13Knows(a) /\ a.out = <<>> /\ a.result = "running"
      /\ a.version = "tls13" /\ a.state = "CERTIFICATE_REQUEST" /\ setup \in Setup /\ Genuine("server")
  BY <1>1, <1>2, AtIs, EndAt DEF Knows, ServerKnows
<1>4. body \in Bodies
  BY <1>1, <1>3 DEF Bodies, Ends, Setup
<1>5. /\ s \in Context /\ s.out = <<>> /\ s.result = "running" /\ s.version = "tls13"
      /\ s.keep = a.keep /\ s.msg = a.msg /\ s.checksum = a.checksum
      /\ s.inKey = a.inKey /\ s.outKey = a.outKey /\ s.clientAuth = TRUE /\ s.peerCert = a.peerCert
  BY <1>3 DEF Context, Keys, Certificates
<1> HIDE DEF s
<1>6. /\ w \in Context /\ w.state = "SERVER_CERTIFICATE" /\ w.version = "tls13" /\ w.keep = s.keep
      /\ w.out = <<>> /\ w.result = "running" /\ w.checksum = Append(s.checksum, <<"CertificateRequest", body>>)
      /\ w.inKey = s.inKey /\ w.outKey = s.outKey /\ w.clientAuth = s.clientAuth /\ w.peerCert = s.peerCert
  <2> HIDE DEF body, w
  <2>1. "SERVER_CERTIFICATE" \in StateNames /\ w = Written(s, "CertificateRequest", body, "SERVER_CERTIFICATE")
    BY <1>1 DEF w
  <2>2. WrittenOf(s, "CertificateRequest", body, "SERVER_CERTIFICATE", w)
    BY <1>1, <1>4, <1>5, <2>1, WrittenIs
  <2> QED
    BY <1>5, <2>2 DEF WrittenOf
<1> HIDE DEF w
<1>7. /\ Heard(w) = Heard(a) \cup {<<"CertificateRequest", body>>}
      /\ \A t : HeardAny(w, t) <=> HeardAny(a, t) \/ t = "CertificateRequest"
  <2>1. Longer(a, w, "CertificateRequest", body)
    BY <1>1, <1>3, <1>4, <1>5, <1>6, HeardMore
  <2> QED
    BY <2>1 DEF Longer
<1>8. ServerKnows(w)
  <2>1. Server13Knows(w)
    BY <1>1, <1>2, <1>3, <1>5, <1>6, <1>7 DEF Server13Knows, Asked
  <2> QED
    BY <2>1, <1>3, <1>5, <1>6, <1>7 DEF ServerKnows, EndKnows
<1>9. ~ Said("server", a) /\ Steady("server", a, w) /\ Settled("server", a, w)
  BY <1>3, <1>5, <1>6 DEF Steady, Settled, Said, ServerSaid, Done, ServerDone, Last
<1>10. r \in Record /\ r.type = "CertificateRequest" /\ r.body = body
       /\ ("CertificateRequest" \in Bound => r.covers = s.checksum)
  <2> HIDE DEF body
  <2> QED
    BY <1>1, <1>4, <1>5, SealIs
<1> HIDE DEF r
<1>11. Real("server", r)
  BY <1>1, <1>3, <1>10 DEF Real, Bound
<1>13. Fits("server", w)
  BY <1>6, <1>8, <1>9 DEF Fits, Knows
<1>14. s.keep => ssl["server"].keep /\ s.msg = ssl["server"].msg
  BY <1>5
<1> QED
  BY <1>1, <1>2, <1>3, <1>4, <1>5, <1>9, <1>11, <1>13, <1>14, WriteIs DEF w, r

\* The TLS 1.3 server only goes on, from CERTIFICATE_REQUEST
\* to SERVER_CERTIFICATE.
LEMMA NoCertificateRequest13WrittenKeeps ==
    ASSUME IInv, tls13_write_certificate_request, setup.authmode["server"] = "none"
    PROVE  IInv'
<1> DEFINE a == ssl["server"]
           b == [ssl["server"] EXCEPT !.state = "SERVER_CERTIFICATE"]
<1>1. /\ "server" \in Ends /\ "tls13" \in Versions /\ "SERVER_CERTIFICATE" \in Server13States
      /\ Server13States \subseteq StateNames
  BY DEF Ends, Versions, StateNames, Server13States
<1>2. At("server", "tls13", "CERTIFICATE_REQUEST") /\ Become("server", b)
  BY DEF tls13_write_certificate_request, Go
<1>3. /\ a \in Context /\ ServerKnows(a) /\ Server13Knows(a) /\ a.out = <<>> /\ a.result = "running"
      /\ a.version = "tls13" /\ a.state = "CERTIFICATE_REQUEST" /\ setup \in Setup
  BY <1>1, <1>2, AtIs DEF Knows, ServerKnows
<1>4. /\ b \in Context /\ b.state = "SERVER_CERTIFICATE" /\ b.version = "tls13" /\ b.keep = a.keep
      /\ b.msg = a.msg /\ b.out = <<>> /\ b.result = "running" /\ b.checksum = a.checksum
      /\ b.inKey = a.inKey /\ b.outKey = a.outKey /\ b.clientAuth = a.clientAuth /\ b.peerCert = a.peerCert
  BY <1>1, <1>3 DEF Context, Keys
<1> HIDE DEF b
<1>5. Heard(b) = Heard(a) /\ \A t : HeardAny(b, t) <=> HeardAny(a, t)
  BY <1>4, HeardSame
<1>6. ServerKnows(b)
  <2>1. Server13Knows(b)
    BY <1>1, <1>2, <1>3, <1>4, <1>5 DEF Server13Knows, Asked
  <2> QED
    BY <2>1, <1>3, <1>4, <1>5 DEF ServerKnows, EndKnows
<1>7. Steady("server", a, b) /\ Settled("server", a, b)
  BY <1>3, <1>4 DEF Steady, Settled, Said, ServerSaid, Done, ServerDone, Last
<1>8. Fits("server", b)
  BY <1>4, <1>6, <1>7 DEF Fits, Knows
<1> QED
  BY <1>1, <1>2, <1>3, <1>4, <1>7, <1>8, BecomeIs

\* The TLS 1.3 server writes a Certificate in SERVER_CERTIFICATE.
LEMMA ServerCertificate13WrittenKeeps ==
    ASSUME IInv, tls13_write_server_certificate
    PROVE  IInv'
<1> DEFINE a == ssl["server"]
           s == ssl["server"]
           body == setup.cert["server"]
           w == Written(s, "Certificate", body, "CERTIFICATE_VERIFY")
           r == Seal(s, "Certificate", body)
<1>1. /\ "server" \in Ends /\ "tls13" \in Versions /\ "CERTIFICATE_VERIFY" \in Server13States
      /\ Server13States \subseteq StateNames /\ "Certificate" \in MessageTypes
  BY DEF Ends, Versions, StateNames, Server13States, MessageTypes, AnyMessage
<1>2. At("server", "tls13", "SERVER_CERTIFICATE") /\ Write("server", s, "Certificate", body, "CERTIFICATE_VERIFY")
  BY DEF tls13_write_server_certificate
<1>3. /\ a \in Context /\ ServerKnows(a) /\ Server13Knows(a) /\ a.out = <<>> /\ a.result = "running"
      /\ a.version = "tls13" /\ a.state = "SERVER_CERTIFICATE" /\ setup \in Setup /\ Genuine("server")
  BY <1>1, <1>2, AtIs, EndAt DEF Knows, ServerKnows
<1>4. body \in Bodies
  BY <1>1, <1>3 DEF Bodies, Ends, Setup
<1>5. /\ s \in Context /\ s.out = <<>> /\ s.result = "running" /\ s.version = "tls13"
      /\ s.keep = a.keep /\ s.msg = a.msg /\ s.checksum = a.checksum
      /\ s.inKey = a.inKey /\ s.outKey = a.outKey /\ s.clientAuth = a.clientAuth /\ s.peerCert = a.peerCert
  BY <1>3 DEF Context, Keys, Certificates
<1> HIDE DEF s
<1>6. /\ w \in Context /\ w.state = "CERTIFICATE_VERIFY" /\ w.version = "tls13" /\ w.keep = s.keep
      /\ w.out = <<>> /\ w.result = "running" /\ w.checksum = Append(s.checksum, <<"Certificate", body>>)
      /\ w.inKey = s.inKey /\ w.outKey = s.outKey /\ w.clientAuth = s.clientAuth /\ w.peerCert = s.peerCert
  <2> HIDE DEF body, w
  <2>1. "CERTIFICATE_VERIFY" \in StateNames /\ w = Written(s, "Certificate", body, "CERTIFICATE_VERIFY")
    BY <1>1 DEF w
  <2>2. WrittenOf(s, "Certificate", body, "CERTIFICATE_VERIFY", w)
    BY <1>1, <1>4, <1>5, <2>1, WrittenIs
  <2> QED
    BY <1>5, <2>2 DEF WrittenOf
<1> HIDE DEF w
<1>7. /\ Heard(w) = Heard(a) \cup {<<"Certificate", body>>}
      /\ \A t : HeardAny(w, t) <=> HeardAny(a, t) \/ t = "Certificate"
  <2>1. Longer(a, w, "Certificate", body)
    BY <1>1, <1>3, <1>4, <1>5, <1>6, HeardMore
  <2> QED
    BY <2>1 DEF Longer
<1>8. ServerKnows(w)
  <2>1. Server13Knows(w)
    BY <1>1, <1>2, <1>3, <1>5, <1>6, <1>7 DEF Server13Knows
  <2> QED
    BY <2>1, <1>3, <1>5, <1>6, <1>7 DEF ServerKnows, EndKnows
<1>9. ~ Said("server", a) /\ Steady("server", a, w) /\ Settled("server", a, w)
  BY <1>3, <1>5, <1>6 DEF Steady, Settled, Said, ServerSaid, Done, ServerDone, Last
<1>10. r \in Record /\ r.type = "Certificate" /\ r.body = body
       /\ ("Certificate" \in Bound => r.covers = s.checksum)
  <2> HIDE DEF body
  <2> QED
    BY <1>1, <1>4, <1>5, SealIs
<1> HIDE DEF r
<1>11. Real("server", r)
  BY <1>1, <1>3, <1>10 DEF Real, Bound
<1>13. Fits("server", w)
  BY <1>6, <1>8, <1>9 DEF Fits, Knows
<1>14. s.keep => ssl["server"].keep /\ s.msg = ssl["server"].msg
  BY <1>5
<1> QED
  BY <1>1, <1>2, <1>3, <1>4, <1>5, <1>9, <1>11, <1>13, <1>14, WriteIs DEF w, r

\* The TLS 1.3 server writes a CertificateVerify in CERTIFICATE_VERIFY.
LEMMA ServerCertificateVerifyWrittenKeeps ==
    ASSUME IInv, tls13_write_certificate_verify("server", "CERTIFICATE_VERIFY", "SERVER_FINISHED")
    PROVE  IInv'
<1> DEFINE a == ssl["server"]
           s == ssl["server"]
           body == "server"
           w == Written(s, "CertificateVerify", body, "SERVER_FINISHED")
           r == Seal(s, "CertificateVerify", body)
<1>1. /\ "server" \in Ends /\ "tls13" \in Versions /\ "SERVER_FINISHED" \in Server13States
      /\ Server13States \subseteq StateNames /\ "CertificateVerify" \in MessageTypes
  BY DEF Ends, Versions, StateNames, Server13States, MessageTypes, AnyMessage
<1>2. At("server", "tls13", "CERTIFICATE_VERIFY") /\ Write("server", s, "CertificateVerify", body, "SERVER_FINISHED")
  BY DEF tls13_write_certificate_verify
<1>3. /\ a \in Context /\ ServerKnows(a) /\ Server13Knows(a) /\ a.out = <<>> /\ a.result = "running"
      /\ a.version = "tls13" /\ a.state = "CERTIFICATE_VERIFY" /\ setup \in Setup /\ Genuine("server")
  BY <1>1, <1>2, AtIs, EndAt DEF Knows, ServerKnows
<1>4. body \in Bodies
  BY <1>1, <1>3 DEF Bodies, Ends, Setup
<1>5. /\ s \in Context /\ s.out = <<>> /\ s.result = "running" /\ s.version = "tls13"
      /\ s.keep = a.keep /\ s.msg = a.msg /\ s.checksum = a.checksum
      /\ s.inKey = a.inKey /\ s.outKey = a.outKey /\ s.clientAuth = a.clientAuth /\ s.peerCert = a.peerCert
  BY <1>3 DEF Context, Keys, Certificates
<1> HIDE DEF s
<1>6. /\ w \in Context /\ w.state = "SERVER_FINISHED" /\ w.version = "tls13" /\ w.keep = s.keep
      /\ w.out = <<>> /\ w.result = "running" /\ w.checksum = Append(s.checksum, <<"CertificateVerify", body>>)
      /\ w.inKey = s.inKey /\ w.outKey = s.outKey /\ w.clientAuth = s.clientAuth /\ w.peerCert = s.peerCert
  <2> HIDE DEF body, w
  <2>1. "SERVER_FINISHED" \in StateNames /\ w = Written(s, "CertificateVerify", body, "SERVER_FINISHED")
    BY <1>1 DEF w
  <2>2. WrittenOf(s, "CertificateVerify", body, "SERVER_FINISHED", w)
    BY <1>1, <1>4, <1>5, <2>1, WrittenIs
  <2> QED
    BY <1>5, <2>2 DEF WrittenOf
<1> HIDE DEF w
<1>7. /\ Heard(w) = Heard(a) \cup {<<"CertificateVerify", body>>}
      /\ \A t : HeardAny(w, t) <=> HeardAny(a, t) \/ t = "CertificateVerify"
  <2>1. Longer(a, w, "CertificateVerify", body)
    BY <1>1, <1>3, <1>4, <1>5, <1>6, HeardMore
  <2> QED
    BY <2>1 DEF Longer
<1>8. ServerKnows(w)
  <2>1. Server13Knows(w)
    BY <1>1, <1>2, <1>3, <1>5, <1>6, <1>7 DEF Server13Knows
  <2> QED
    BY <2>1, <1>3, <1>5, <1>6, <1>7 DEF ServerKnows, EndKnows
<1>9. ~ Said("server", a) /\ Steady("server", a, w) /\ Settled("server", a, w)
  BY <1>3, <1>5, <1>6 DEF Steady, Settled, Said, ServerSaid, Done, ServerDone, Last
<1>10. r \in Record /\ r.type = "CertificateVerify" /\ r.body = body
       /\ ("CertificateVerify" \in Bound => r.covers = s.checksum)
  <2> HIDE DEF body
  <2> QED
    BY <1>1, <1>4, <1>5, SealIs
<1> HIDE DEF r
<1>11. Real("server", r)
  BY <1>1, <1>3, <1>10 DEF Real, Bound
<1>13. Fits("server", w)
  BY <1>6, <1>8, <1>9 DEF Fits, Knows
<1>14. s.keep => ssl["server"].keep /\ s.msg = ssl["server"].msg
  BY <1>5
<1> QED
  BY <1>1, <1>2, <1>3, <1>4, <1>5, <1>9, <1>11, <1>13, <1>14, WriteIs DEF w, r

\* The TLS 1.3 server writes a Finished in SERVER_FINISHED.
LEMMA ServerFinishedAskedKeeps ==
    ASSUME IInv, tls13_write_server_finished, ssl["server"].clientAuth
    PROVE  IInv'
<1> DEFINE a == ssl["server"]
           s == [ssl["server"] EXCEPT !.inKey = "handshake"]
           body == "server"
           w == Written(s, "Finished", body, "CLIENT_CERTIFICATE")
           r == Seal(s, "Finished", body)
<1>1. /\ "server" \in Ends /\ "tls13" \in Versions /\ "CLIENT_CERTIFICATE" \in Server13States
      /\ Server13States \subseteq StateNames /\ "Finished" \in MessageTypes
  BY DEF Ends, Versions, StateNames, Server13States, MessageTypes, AnyMessage
<1>2. At("server", "tls13", "SERVER_FINISHED") /\ Write("server", s, "Finished", body, "CLIENT_CERTIFICATE")
  BY DEF tls13_write_server_finished
<1>3. /\ a \in Context /\ ServerKnows(a) /\ Server13Knows(a) /\ a.out = <<>> /\ a.result = "running"
      /\ a.version = "tls13" /\ a.state = "SERVER_FINISHED" /\ setup \in Setup /\ Genuine("server")
  BY <1>1, <1>2, AtIs, EndAt DEF Knows, ServerKnows
<1>4. body \in Bodies
  BY <1>1, <1>3 DEF Bodies, Ends, Setup
<1>5. /\ s \in Context /\ s.out = <<>> /\ s.result = "running" /\ s.version = "tls13"
      /\ s.keep = a.keep /\ s.msg = a.msg /\ s.checksum = a.checksum
      /\ s.inKey = "handshake" /\ s.outKey = a.outKey /\ s.clientAuth = a.clientAuth /\ s.peerCert = a.peerCert
  BY <1>3 DEF Context, Keys, Certificates
<1> HIDE DEF s
<1>6. /\ w \in Context /\ w.state = "CLIENT_CERTIFICATE" /\ w.version = "tls13" /\ w.keep = s.keep
      /\ w.out = <<>> /\ w.result = "running" /\ w.checksum = Append(s.checksum, <<"Finished", body>>)
      /\ w.inKey = s.inKey /\ w.outKey = s.outKey /\ w.clientAuth = s.clientAuth /\ w.peerCert = s.peerCert
  <2> HIDE DEF body, w
  <2>1. "CLIENT_CERTIFICATE" \in StateNames /\ w = Written(s, "Finished", body, "CLIENT_CERTIFICATE")
    BY <1>1 DEF w
  <2>2. WrittenOf(s, "Finished", body, "CLIENT_CERTIFICATE", w)
    BY <1>1, <1>4, <1>5, <2>1, WrittenIs
  <2> QED
    BY <1>5, <2>2 DEF WrittenOf
<1> HIDE DEF w
<1>7. /\ Heard(w) = Heard(a) \cup {<<"Finished", body>>}
      /\ \A t : HeardAny(w, t) <=> HeardAny(a, t) \/ t = "Finished"
  <2>1. Longer(a, w, "Finished", body)
    BY <1>1, <1>3, <1>4, <1>5, <1>6, HeardMore
  <2> QED
    BY <2>1 DEF Longer
<1>8. ServerKnows(w)
  <2>1. Server13Knows(w)
    BY <1>1, <1>2, <1>3, <1>5, <1>6, <1>7 DEF Server13Knows, Asked
  <2> QED
    BY <2>1, <1>3, <1>5, <1>6, <1>7 DEF ServerKnows, EndKnows
<1>9. ~ Said("server", a) /\ Steady("server", a, w) /\ Settled("server", a, w)
  BY <1>3, <1>5, <1>6 DEF Steady, Settled, Said, ServerSaid, Done, ServerDone, Last
<1>10. r \in Record /\ r.type = "Finished" /\ r.body = body
       /\ ("Finished" \in Bound => r.covers = s.checksum)
  <2> HIDE DEF body
  <2> QED
    BY <1>1, <1>4, <1>5, SealIs
<1> HIDE DEF r
<1>11. Real("server", r)
  BY <1>1, <1>3, <1>10 DEF Real, Bound
<1>12. Vouches("server", w, r)
  <2>1. r.covers = a.checksum /\ In(r.covers) = Heard(a)
    BY <1>5, <1>10 DEF Bound, Heard
  <2> QED
    BY <2>1, <1>3, <1>5, <1>6 DEF Vouches, Said, ServerSaid, Last, Server13Knows,
       HeardAny
<1>13. Fits("server", w)
  BY <1>6, <1>8, <1>9 DEF Fits, Knows
<1>14. s.keep => ssl["server"].keep /\ s.msg = ssl["server"].msg
  BY <1>5
<1> QED
  BY <1>1, <1>2, <1>3, <1>4, <1>5, <1>9, <1>11, <1>12, <1>13, <1>14, WriteIs DEF w, r

\* The TLS 1.3 server writes a Finished in SERVER_FINISHED.
LEMMA ServerFinishedWrittenKeeps ==
    ASSUME IInv, tls13_write_server_finished, ~ ssl["server"].clientAuth
    PROVE  IInv'
<1> DEFINE a == ssl["server"]
           s == [ssl["server"] EXCEPT !.inKey = "handshake"]
           body == "server"
           w == Written(s, "Finished", body, "CLIENT_FINISHED")
           r == Seal(s, "Finished", body)
<1>1. /\ "server" \in Ends /\ "tls13" \in Versions /\ "CLIENT_FINISHED" \in Server13States
      /\ Server13States \subseteq StateNames /\ "Finished" \in MessageTypes
  BY DEF Ends, Versions, StateNames, Server13States, MessageTypes, AnyMessage
<1>2. At("server", "tls13", "SERVER_FINISHED") /\ Write("server", s, "Finished", body, "CLIENT_FINISHED")
  BY DEF tls13_write_server_finished
<1>3. /\ a \in Context /\ ServerKnows(a) /\ Server13Knows(a) /\ a.out = <<>> /\ a.result = "running"
      /\ a.version = "tls13" /\ a.state = "SERVER_FINISHED" /\ setup \in Setup /\ Genuine("server")
  BY <1>1, <1>2, AtIs, EndAt DEF Knows, ServerKnows
<1>4. body \in Bodies
  BY <1>1, <1>3 DEF Bodies, Ends, Setup
<1>5. /\ s \in Context /\ s.out = <<>> /\ s.result = "running" /\ s.version = "tls13"
      /\ s.keep = a.keep /\ s.msg = a.msg /\ s.checksum = a.checksum
      /\ s.inKey = "handshake" /\ s.outKey = a.outKey /\ s.clientAuth = a.clientAuth /\ s.peerCert = a.peerCert
  BY <1>3 DEF Context, Keys, Certificates
<1> HIDE DEF s
<1>6. /\ w \in Context /\ w.state = "CLIENT_FINISHED" /\ w.version = "tls13" /\ w.keep = s.keep
      /\ w.out = <<>> /\ w.result = "running" /\ w.checksum = Append(s.checksum, <<"Finished", body>>)
      /\ w.inKey = s.inKey /\ w.outKey = s.outKey /\ w.clientAuth = s.clientAuth /\ w.peerCert = s.peerCert
  <2> HIDE DEF body, w
  <2>1. "CLIENT_FINISHED" \in StateNames /\ w = Written(s, "Finished", body, "CLIENT_FINISHED")
    BY <1>1 DEF w
  <2>2. WrittenOf(s, "Finished", body, "CLIENT_FINISHED", w)
    BY <1>1, <1>4, <1>5, <2>1, WrittenIs
  <2> QED
    BY <1>5, <2>2 DEF WrittenOf
<1> HIDE DEF w
<1>7. /\ Heard(w) = Heard(a) \cup {<<"Finished", body>>}
      /\ \A t : HeardAny(w, t) <=> HeardAny(a, t) \/ t = "Finished"
  <2>1. Longer(a, w, "Finished", body)
    BY <1>1, <1>3, <1>4, <1>5, <1>6, HeardMore
  <2> QED
    BY <2>1 DEF Longer
<1>8. ServerKnows(w)
  <2>1. Server13Knows(w)
    BY <1>1, <1>2, <1>3, <1>5, <1>6, <1>7 DEF Server13Knows, Asked, Required
  <2> QED
    BY <2>1, <1>3, <1>5, <1>6, <1>7 DEF ServerKnows, EndKnows
<1>9. ~ Said("server", a) /\ Steady("server", a, w) /\ Settled("server", a, w)
  BY <1>3, <1>5, <1>6 DEF Steady, Settled, Said, ServerSaid, Done, ServerDone, Last
<1>10. r \in Record /\ r.type = "Finished" /\ r.body = body
       /\ ("Finished" \in Bound => r.covers = s.checksum)
  <2> HIDE DEF body
  <2> QED
    BY <1>1, <1>4, <1>5, SealIs
<1> HIDE DEF r
<1>11. Real("server", r)
  BY <1>1, <1>3, <1>10 DEF Real, Bound
<1>12. Vouches("server", w, r)
  <2>1. r.covers = a.checksum /\ In(r.covers) = Heard(a)
    BY <1>5, <1>10 DEF Bound, Heard
  <2> QED
    BY <2>1, <1>3, <1>5, <1>6 DEF Vouches, Said, ServerSaid, Last, Server13Knows,
       HeardAny
<1>13. Fits("server", w)
  BY <1>6, <1>8, <1>9 DEF Fits, Knows
<1>14. s.keep => ssl["server"].keep /\ s.msg = ssl["server"].msg
  BY <1>5
<1> QED
  BY <1>1, <1>2, <1>3, <1>4, <1>5, <1>9, <1>11, <1>12, <1>13, <1>14, WriteIs DEF w, r

\* The TLS 1.3 server takes a Certificate in CLIENT_CERTIFICATE.
LEMMA ClientCertificate13Keeps ==
    ASSUME IInv, tls13_process_certificate("server", "CLIENT_CERTIFICATE", "CLIENT_CERTIFICATE_VERIFY"),
           Got("server").body # "empty"
    PROVE  IInv'
<1> DEFINE a == ssl["server"]
           s == [Hash13("server") EXCEPT !.peerCert = Got("server").body]
           b == [s EXCEPT !.state = "CLIENT_CERTIFICATE_VERIFY"]
<1>1. /\ "server" \in Ends /\ "tls13" \in Versions /\ "CLIENT_CERTIFICATE_VERIFY" \in Server13States
      /\ Server13States \subseteq StateNames
  BY DEF Ends, Versions, StateNames, Server13States
<1>2. /\ Reads("server", "tls13", "CLIENT_CERTIFICATE")
      /\ \/ Accept("server", s, "CLIENT_CERTIFICATE_VERIFY") /\ Forgiven("server", Got("server").body)
         \/ Refuse("server", "no_certificate")
         \/ Refuse("server", "bad_certificate")
  BY <1>1 DEF tls13_process_certificate
<1>3. /\ a \in Context /\ ServerKnows(a) /\ Server13Knows(a) /\ a.out = <<>> /\ a.result = "running"
      /\ a.version = "tls13" /\ a.state = "CLIENT_CERTIFICATE" /\ Running("server") /\ Has("server")
      /\ Got("server").type \in MessageTypes /\ Got("server").body \in Bodies /\ setup \in Setup
      /\ Got("server").type = "Certificate" /\ Real(Other("server"), Got("server"))
  BY <1>1, <1>2, ReadIs, Takes13Are DEF Knows, ServerKnows
<1>4. SUFFICES ASSUME Accept("server", s, "CLIENT_CERTIFICATE_VERIFY"), Forgiven("server", Got("server").body)
               PROVE  IInv'
  <2>1. "no_certificate" \in Results \ {"running"} /\ "bad_certificate" \in Results \ {"running"}
    BY DEF Results
  <2>2. ASSUME Refuse("server", "no_certificate") \/ Refuse("server", "bad_certificate") PROVE IInv'
    BY <1>1, <1>3, <2>1, <2>2, RefuseKeeps
  <2> QED
    BY <1>2, <2>2
<1>5. /\ s \in Context /\ s.out = <<>> /\ s.result = "running" /\ ~ s.keep /\ s.version = "tls13"
      /\ s.checksum = Append(a.checksum, <<Got("server").type, Got("server").body>>)
      /\ s.inKey = a.inKey /\ s.outKey = a.outKey /\ s.clientAuth = a.clientAuth /\ s.peerCert = Got("server").body
  BY <1>3, Hash13Is, <1>1, CertificateIs DEF Context
<1>6. /\ b.state = "CLIENT_CERTIFICATE_VERIFY" /\ b.version = "tls13" /\ ~ b.keep /\ b.out = <<>>
      /\ b.result = "running" /\ b.checksum = s.checksum
      /\ b.inKey = s.inKey /\ b.outKey = s.outKey /\ b.clientAuth = s.clientAuth /\ b.peerCert = s.peerCert
  <2> HIDE DEF s
  <2> QED
    BY <1>5 DEF Context
<1> HIDE DEF s, b
<1>7. /\ Heard(b) = Heard(a) \cup {<<Got("server").type, Got("server").body>>}
      /\ \A t : HeardAny(b, t) <=> HeardAny(a, t) \/ t = Got("server").type
  <2>1. Longer(a, b, Got("server").type, Got("server").body)
    BY <1>3, <1>5, <1>6, HeardMore
  <2> QED
    BY <2>1 DEF Longer
<1>8. ServerKnows(b)
  <2>1. Server13Knows(b)
    BY <1>1, <1>3, <1>4, <1>5, <1>6, <1>7 DEF Server13Knows, Required, Forgiven
  <2> QED
    BY <2>1, <1>3, <1>5, <1>6, <1>7 DEF ServerKnows, EndKnows
<1>9. Steady("server", a, b) /\ Settled("server", a, b)
  BY <1>3, <1>5, <1>6 DEF Steady, Settled, Said, ServerSaid, Done, ServerDone, Last
<1> QED
  BY <1>1, <1>2, <1>4, <1>5, <1>8, <1>9, AcceptKeeps DEF b, Knows

\* The TLS 1.3 server takes a Certificate in CLIENT_CERTIFICATE.
LEMMA NoClientCertificate13Keeps ==
    ASSUME IInv, tls13_process_certificate("server", "CLIENT_CERTIFICATE", "CLIENT_CERTIFICATE_VERIFY"),
           Got("server").body = "empty"
    PROVE  IInv'
<1> DEFINE a == ssl["server"]
           s == [Hash13("server") EXCEPT !.peerCert = Got("server").body]
           b == [s EXCEPT !.state = "CLIENT_FINISHED"]
<1>1. /\ "server" \in Ends /\ "tls13" \in Versions /\ "CLIENT_FINISHED" \in Server13States
      /\ Server13States \subseteq StateNames
  BY DEF Ends, Versions, StateNames, Server13States
<1>2. /\ Reads("server", "tls13", "CLIENT_CERTIFICATE")
      /\ \/ Accept("server", s, "CLIENT_FINISHED") /\ setup.authmode["server"] = "optional"
         \/ Refuse("server", "no_certificate")
         \/ Refuse("server", "bad_certificate")
  BY <1>1 DEF tls13_process_certificate
<1>3. /\ a \in Context /\ ServerKnows(a) /\ Server13Knows(a) /\ a.out = <<>> /\ a.result = "running"
      /\ a.version = "tls13" /\ a.state = "CLIENT_CERTIFICATE" /\ Running("server") /\ Has("server")
      /\ Got("server").type \in MessageTypes /\ Got("server").body \in Bodies /\ setup \in Setup
      /\ Got("server").type = "Certificate" /\ Real(Other("server"), Got("server"))
  BY <1>1, <1>2, ReadIs, Takes13Are DEF Knows, ServerKnows
<1>4. SUFFICES ASSUME Accept("server", s, "CLIENT_FINISHED"), setup.authmode["server"] = "optional"
               PROVE  IInv'
  <2>1. "no_certificate" \in Results \ {"running"} /\ "bad_certificate" \in Results \ {"running"}
    BY DEF Results
  <2>2. ASSUME Refuse("server", "no_certificate") \/ Refuse("server", "bad_certificate") PROVE IInv'
    BY <1>1, <1>3, <2>1, <2>2, RefuseKeeps
  <2> QED
    BY <1>2, <2>2
<1>5. /\ s \in Context /\ s.out = <<>> /\ s.result = "running" /\ ~ s.keep /\ s.version = "tls13"
      /\ s.checksum = Append(a.checksum, <<Got("server").type, Got("server").body>>)
      /\ s.inKey = a.inKey /\ s.outKey = a.outKey /\ s.clientAuth = a.clientAuth /\ s.peerCert = Got("server").body
  BY <1>3, Hash13Is, <1>1, CertificateIs DEF Context
<1>6. /\ b.state = "CLIENT_FINISHED" /\ b.version = "tls13" /\ ~ b.keep /\ b.out = <<>>
      /\ b.result = "running" /\ b.checksum = s.checksum
      /\ b.inKey = s.inKey /\ b.outKey = s.outKey /\ b.clientAuth = s.clientAuth /\ b.peerCert = s.peerCert
  <2> HIDE DEF s
  <2> QED
    BY <1>5 DEF Context
<1> HIDE DEF s, b
<1>7. /\ Heard(b) = Heard(a) \cup {<<Got("server").type, Got("server").body>>}
      /\ \A t : HeardAny(b, t) <=> HeardAny(a, t) \/ t = Got("server").type
  <2>1. Longer(a, b, Got("server").type, Got("server").body)
    BY <1>3, <1>5, <1>6, HeardMore
  <2> QED
    BY <2>1 DEF Longer
<1>8. ServerKnows(b)
  <2>1. Server13Knows(b)
    BY <1>1, <1>3, <1>4, <1>5, <1>6, <1>7 DEF Server13Knows, Required
  <2> QED
    BY <2>1, <1>3, <1>5, <1>6, <1>7 DEF ServerKnows, EndKnows
<1>9. Steady("server", a, b) /\ Settled("server", a, b)
  BY <1>3, <1>5, <1>6 DEF Steady, Settled, Said, ServerSaid, Done, ServerDone, Last
<1> QED
  BY <1>1, <1>2, <1>4, <1>5, <1>8, <1>9, AcceptKeeps DEF b, Knows

\* The TLS 1.3 server takes a CertificateVerify in CLIENT_CERTIFICATE_VERIFY.
LEMMA ClientCertificateVerifyRead13Keeps ==
    ASSUME IInv, tls13_process_certificate_verify("server", "CLIENT_CERTIFICATE_VERIFY", "CLIENT_FINISHED")
    PROVE  IInv'
<1> DEFINE a == ssl["server"]
           s == Hash13("server")
           b == [s EXCEPT !.state = "CLIENT_FINISHED"]
<1>1. /\ "server" \in Ends /\ "tls13" \in Versions /\ "CLIENT_FINISHED" \in Server13States
      /\ Server13States \subseteq StateNames
  BY DEF Ends, Versions, StateNames, Server13States
<1>2. /\ Reads("server", "tls13", "CLIENT_CERTIFICATE_VERIFY")
      /\ \/ Accept("server", s, "CLIENT_FINISHED")
         \/ Refuse("server", "bad_signature")
  BY <1>1 DEF tls13_process_certificate_verify
<1>3. /\ a \in Context /\ ServerKnows(a) /\ Server13Knows(a) /\ a.out = <<>> /\ a.result = "running"
      /\ a.version = "tls13" /\ a.state = "CLIENT_CERTIFICATE_VERIFY" /\ Running("server") /\ Has("server")
      /\ Got("server").type \in MessageTypes /\ Got("server").body \in Bodies /\ setup \in Setup
      /\ Got("server").type = "CertificateVerify" /\ Real(Other("server"), Got("server"))
  BY <1>1, <1>2, ReadIs, Takes13Are DEF Knows, ServerKnows
<1>4. SUFFICES ASSUME Accept("server", s, "CLIENT_FINISHED")
               PROVE  IInv'
  <2>1. "bad_signature" \in Results \ {"running"}
    BY DEF Results
  <2>2. ASSUME Refuse("server", "bad_signature") PROVE IInv'
    BY <1>1, <1>3, <2>1, <2>2, RefuseKeeps
  <2> QED
    BY <1>2, <2>2
<1>5. /\ s \in Context /\ s.out = <<>> /\ s.result = "running" /\ ~ s.keep /\ s.version = "tls13"
      /\ s.checksum = Append(a.checksum, <<Got("server").type, Got("server").body>>)
      /\ s.inKey = a.inKey /\ s.outKey = a.outKey /\ s.clientAuth = a.clientAuth /\ s.peerCert = a.peerCert
  BY <1>3, Hash13Is DEF Context
<1>6. /\ b.state = "CLIENT_FINISHED" /\ b.version = "tls13" /\ ~ b.keep /\ b.out = <<>>
      /\ b.result = "running" /\ b.checksum = s.checksum
      /\ b.inKey = s.inKey /\ b.outKey = s.outKey /\ b.clientAuth = s.clientAuth /\ b.peerCert = s.peerCert
  <2> HIDE DEF s
  <2> QED
    BY <1>5 DEF Context
<1> HIDE DEF s, b
<1>7. /\ Heard(b) = Heard(a) \cup {<<Got("server").type, Got("server").body>>}
      /\ \A t : HeardAny(b, t) <=> HeardAny(a, t) \/ t = Got("server").type
  <2>1. Longer(a, b, Got("server").type, Got("server").body)
    BY <1>3, <1>5, <1>6, HeardMore
  <2> QED
    BY <2>1 DEF Longer
<1>8. ServerKnows(b)
  <2>1. Server13Knows(b)
    BY <1>1, <1>3, <1>5, <1>6, <1>7 DEF Server13Knows, Real, Bound, Other
  <2> QED
    BY <2>1, <1>3, <1>5, <1>6, <1>7 DEF ServerKnows, EndKnows
<1>9. Steady("server", a, b) /\ Settled("server", a, b)
  BY <1>3, <1>5, <1>6 DEF Steady, Settled, Said, ServerSaid, Done, ServerDone, Last
<1> QED
  BY <1>1, <1>2, <1>4, <1>5, <1>8, <1>9, AcceptKeeps DEF b, Knows

\* The TLS 1.3 server takes a Finished in CLIENT_FINISHED.
LEMMA ClientFinishedRead13Keeps ==
    ASSUME IInv, tls13_process_client_finished
    PROVE  IInv'
<1> DEFINE a == ssl["server"]
           s == Hash13("server")
           b == [s EXCEPT !.state = "HANDSHAKE_WRAPUP"]
<1>1. /\ "server" \in Ends /\ "tls13" \in Versions /\ "HANDSHAKE_WRAPUP" \in Server13States
      /\ Server13States \subseteq StateNames
  BY DEF Ends, Versions, StateNames, Server13States
<1>2. /\ Reads("server", "tls13", "CLIENT_FINISHED")
      /\ \/ Accept("server", s, "HANDSHAKE_WRAPUP") /\ Binds("server")
         \/ Refuse("server", "bad_finished")
  BY <1>1 DEF tls13_process_client_finished
<1>3. /\ a \in Context /\ ServerKnows(a) /\ Server13Knows(a) /\ a.out = <<>> /\ a.result = "running"
      /\ a.version = "tls13" /\ a.state = "CLIENT_FINISHED" /\ Running("server") /\ Has("server")
      /\ Got("server").type \in MessageTypes /\ Got("server").body \in Bodies /\ setup \in Setup
      /\ Got("server").type = "Finished" /\ Real(Other("server"), Got("server"))
  BY <1>1, <1>2, ReadIs, Takes13Are DEF Knows, ServerKnows
<1>4. SUFFICES ASSUME Accept("server", s, "HANDSHAKE_WRAPUP"), Binds("server")
               PROVE  IInv'
  <2>1. "bad_finished" \in Results \ {"running"}
    BY DEF Results
  <2>2. ASSUME Refuse("server", "bad_finished") PROVE IInv'
    BY <1>1, <1>3, <2>1, <2>2, RefuseKeeps
  <2> QED
    BY <1>2, <2>2
<1>5. /\ s \in Context /\ s.out = <<>> /\ s.result = "running" /\ ~ s.keep /\ s.version = "tls13"
      /\ s.checksum = Append(a.checksum, <<Got("server").type, Got("server").body>>)
      /\ s.inKey = a.inKey /\ s.outKey = a.outKey /\ s.clientAuth = a.clientAuth /\ s.peerCert = a.peerCert
  BY <1>3, Hash13Is DEF Context
<1>6. /\ b.state = "HANDSHAKE_WRAPUP" /\ b.version = "tls13" /\ ~ b.keep /\ b.out = <<>>
      /\ b.result = "running" /\ b.checksum = s.checksum
      /\ b.inKey = s.inKey /\ b.outKey = s.outKey /\ b.clientAuth = s.clientAuth /\ b.peerCert = s.peerCert
  <2> HIDE DEF s
  <2> QED
    BY <1>5 DEF Context
<1> HIDE DEF s, b
<1>7. /\ Heard(b) = Heard(a) \cup {<<Got("server").type, Got("server").body>>}
      /\ \A t : HeardAny(b, t) <=> HeardAny(a, t) \/ t = Got("server").type
  <2>1. Longer(a, b, Got("server").type, Got("server").body)
    BY <1>3, <1>5, <1>6, HeardMore
  <2> QED
    BY <2>1 DEF Longer
<1>8. ServerKnows(b)
  <2>1. Server13Knows(b)
    BY <1>1, <1>3, <1>4, <1>5, <1>6, <1>7 DEF Server13Knows
  <2> QED
    BY <2>1, <1>3, <1>5, <1>6, <1>7 DEF ServerKnows, EndKnows
<1>9. Steady("server", a, b) /\ HasHeard("server", Other("server"))'
  <2>1. Steady("server", a, b)
    BY <1>3, <1>5, <1>6 DEF Steady, Said, ServerSaid, Last
  <2>2. ssl' = [ssl EXCEPT !["server"] = b] /\ wire' = Consumed("server")
    BY <1>4 DEF Accept, b
  <2>3. ~ a.keep
    BY <1>3 DEF Server13Knows
  <2> QED
    BY <2>1, <1>1, <1>2, <1>3, <1>4, <1>5, <1>6, <2>2, <2>3, FinishedHeard
<1> QED
  BY <1>1, <1>2, <1>4, <1>5, <1>8, <1>9, AcceptKeeps DEF b, Knows

\* The TLS 1.3 server only goes on, from HANDSHAKE_WRAPUP
\* to TLS1_3_NEW_SESSION_TICKET.
LEMMA ServerWrapup13Keeps ==
    ASSUME IInv, tls13_handshake_wrapup("server")
    PROVE  IInv'
<1> DEFINE a == ssl["server"]
           b == [ssl["server"] EXCEPT !.inKey = "app", !.outKey = "app", !.state = "TLS1_3_NEW_SESSION_TICKET"]
<1>1. /\ "server" \in Ends /\ "tls13" \in Versions /\ "TLS1_3_NEW_SESSION_TICKET" \in Server13States
      /\ Server13States \subseteq StateNames
  BY DEF Ends, Versions, StateNames, Server13States
<1>2. At("server", "tls13", "HANDSHAKE_WRAPUP") /\ Become("server", b)
  BY DEF tls13_handshake_wrapup, Go
<1>3. /\ a \in Context /\ ServerKnows(a) /\ Server13Knows(a) /\ a.out = <<>> /\ a.result = "running"
      /\ a.version = "tls13" /\ a.state = "HANDSHAKE_WRAPUP" /\ setup \in Setup
  BY <1>1, <1>2, AtIs DEF Knows, ServerKnows
<1>4. /\ b \in Context /\ b.state = "TLS1_3_NEW_SESSION_TICKET" /\ b.version = "tls13" /\ b.keep = a.keep
      /\ b.msg = a.msg /\ b.out = <<>> /\ b.result = "running" /\ b.checksum = a.checksum
      /\ b.inKey = "app" /\ b.outKey = "app" /\ b.clientAuth = a.clientAuth /\ b.peerCert = a.peerCert
  BY <1>1, <1>3 DEF Context, Keys
<1> HIDE DEF b
<1>5. Heard(b) = Heard(a) /\ \A t : HeardAny(b, t) <=> HeardAny(a, t)
  BY <1>4, HeardSame
<1>6. ServerKnows(b)
  <2>1. Server13Knows(b)
    BY <1>1, <1>2, <1>3, <1>4, <1>5 DEF Server13Knows
  <2> QED
    BY <2>1, <1>3, <1>4, <1>5 DEF ServerKnows, EndKnows
<1>7. Steady("server", a, b) /\ Settled("server", a, b)
  BY <1>3, <1>4 DEF Steady, Settled, Said, ServerSaid, Done, ServerDone, Last
<1>8. Fits("server", b)
  BY <1>4, <1>6, <1>7 DEF Fits, Knows
<1> QED
  BY <1>1, <1>2, <1>3, <1>4, <1>7, <1>8, BecomeIs

\* The TLS 1.3 server only goes on, from TLS1_3_NEW_SESSION_TICKET
\* to HANDSHAKE_OVER.
LEMMA Ticket13Keeps ==
    ASSUME IInv, tls13_write_new_session_ticket
    PROVE  IInv'
<1> DEFINE a == ssl["server"]
           b == [ssl["server"] EXCEPT !.state = "HANDSHAKE_OVER"]
<1>1. /\ "server" \in Ends /\ "tls13" \in Versions /\ "HANDSHAKE_OVER" \in Server13States
      /\ Server13States \subseteq StateNames
  BY DEF Ends, Versions, StateNames, Server13States
<1>2. At("server", "tls13", "TLS1_3_NEW_SESSION_TICKET") /\ Become("server", b)
  BY DEF tls13_write_new_session_ticket, Go
<1>3. /\ a \in Context /\ ServerKnows(a) /\ Server13Knows(a) /\ a.out = <<>> /\ a.result = "running"
      /\ a.version = "tls13" /\ a.state = "TLS1_3_NEW_SESSION_TICKET" /\ setup \in Setup
  BY <1>1, <1>2, AtIs DEF Knows, ServerKnows
<1>4. /\ b \in Context /\ b.state = "HANDSHAKE_OVER" /\ b.version = "tls13" /\ b.keep = a.keep
      /\ b.msg = a.msg /\ b.out = <<>> /\ b.result = "running" /\ b.checksum = a.checksum
      /\ b.inKey = a.inKey /\ b.outKey = a.outKey /\ b.clientAuth = a.clientAuth /\ b.peerCert = a.peerCert
  BY <1>1, <1>3 DEF Context, Keys
<1> HIDE DEF b
<1>5. Heard(b) = Heard(a) /\ \A t : HeardAny(b, t) <=> HeardAny(a, t)
  BY <1>4, HeardSame
<1>6. ServerKnows(b)
  <2>1. Server13Knows(b)
    BY <1>1, <1>2, <1>3, <1>4, <1>5 DEF Server13Knows
  <2> QED
    BY <2>1, <1>3, <1>4, <1>5 DEF ServerKnows, EndKnows
<1>7. Steady("server", a, b) /\ Settled("server", a, b)
  BY <1>3, <1>4 DEF Steady, Settled, Said, ServerSaid, Done, ServerDone, Last
<1>8. Fits("server", b)
  BY <1>4, <1>6, <1>7 DEF Fits, Knows
<1> QED
  BY <1>1, <1>2, <1>3, <1>4, <1>7, <1>8, BecomeIs

\* The TLS 1.3 server only goes on, from SERVER_CCS_AFTER_HELLO_RETRY_REQUEST
\* to CLIENT_HELLO.
LEMMA ServerCcs1SentKeeps ==
    ASSUME IInv, tls13_write_change_cipher_spec("server", "SERVER_CCS_AFTER_HELLO_RETRY_REQUEST", "CLIENT_HELLO"),
           ssl["server"].ccsSent
    PROVE  IInv'
<1> DEFINE a == ssl["server"]
           b == [ssl["server"] EXCEPT !.state = "CLIENT_HELLO"]
<1>1. /\ "server" \in Ends /\ "tls13" \in Versions /\ "CLIENT_HELLO" \in Server13States
      /\ Server13States \subseteq StateNames
  BY DEF Ends, Versions, StateNames, Server13States
<1>2. At("server", "tls13", "SERVER_CCS_AFTER_HELLO_RETRY_REQUEST") /\ Become("server", b)
  BY DEF tls13_write_change_cipher_spec, Go
<1>3. /\ a \in Context /\ ServerKnows(a) /\ Server13Knows(a) /\ a.out = <<>> /\ a.result = "running"
      /\ a.version = "tls13" /\ a.state = "SERVER_CCS_AFTER_HELLO_RETRY_REQUEST" /\ setup \in Setup
  BY <1>1, <1>2, AtIs DEF Knows, ServerKnows
<1>4. /\ b \in Context /\ b.state = "CLIENT_HELLO" /\ b.version = "tls13" /\ b.keep = a.keep
      /\ b.msg = a.msg /\ b.out = <<>> /\ b.result = "running" /\ b.checksum = a.checksum
      /\ b.inKey = a.inKey /\ b.outKey = a.outKey /\ b.clientAuth = a.clientAuth /\ b.peerCert = a.peerCert
  BY <1>1, <1>3 DEF Context, Keys
<1> HIDE DEF b
<1>5. Heard(b) = Heard(a) /\ \A t : HeardAny(b, t) <=> HeardAny(a, t)
  BY <1>4, HeardSame
<1>6. ServerKnows(b)
  <2>1. Server13Knows(b)
    BY <1>1, <1>2, <1>3, <1>4, <1>5 DEF Server13Knows
  <2> QED
    BY <2>1, <1>3, <1>4, <1>5 DEF ServerKnows, EndKnows
<1>7. Steady("server", a, b) /\ Settled("server", a, b)
  BY <1>3, <1>4 DEF Steady, Settled, Said, ServerSaid, Done, ServerDone, Last
<1>8. Fits("server", b)
  BY <1>4, <1>6, <1>7 DEF Fits, Knows
<1> QED
  BY <1>1, <1>2, <1>3, <1>4, <1>7, <1>8, BecomeIs

\* The TLS 1.3 server writes a ChangeCipherSpec in SERVER_CCS_AFTER_HELLO_RETRY_REQUEST.
LEMMA ServerCcs1Keeps ==
    ASSUME IInv, tls13_write_change_cipher_spec("server", "SERVER_CCS_AFTER_HELLO_RETRY_REQUEST", "CLIENT_HELLO"),
           ~ ssl["server"].ccsSent
    PROVE  IInv'
<1> DEFINE a == ssl["server"]
           s == [ssl["server"] EXCEPT !.ccsSent = TRUE]
           body == ""
           w == Written(s, "ChangeCipherSpec", body, "CLIENT_HELLO")
           r == Seal(s, "ChangeCipherSpec", body)
<1>1. /\ "server" \in Ends /\ "tls13" \in Versions /\ "CLIENT_HELLO" \in Server13States
      /\ Server13States \subseteq StateNames /\ "ChangeCipherSpec" \in MessageTypes
  BY DEF Ends, Versions, StateNames, Server13States, MessageTypes, AnyMessage
<1>2. At("server", "tls13", "SERVER_CCS_AFTER_HELLO_RETRY_REQUEST") /\ Write("server", s, "ChangeCipherSpec", body, "CLIENT_HELLO")
  BY DEF tls13_write_change_cipher_spec
<1>3. /\ a \in Context /\ ServerKnows(a) /\ Server13Knows(a) /\ a.out = <<>> /\ a.result = "running"
      /\ a.version = "tls13" /\ a.state = "SERVER_CCS_AFTER_HELLO_RETRY_REQUEST" /\ setup \in Setup /\ Genuine("server")
  BY <1>1, <1>2, AtIs, EndAt DEF Knows, ServerKnows
<1>4. body \in Bodies
  BY <1>1, <1>3 DEF Bodies, Ends, Setup
<1>5. /\ s \in Context /\ s.out = <<>> /\ s.result = "running" /\ s.version = "tls13"
      /\ s.keep = a.keep /\ s.msg = a.msg /\ s.checksum = a.checksum
      /\ s.inKey = a.inKey /\ s.outKey = a.outKey /\ s.clientAuth = a.clientAuth /\ s.peerCert = a.peerCert
  BY <1>3 DEF Context, Keys, Certificates
<1> HIDE DEF s
<1>6. /\ w \in Context /\ w.state = "CLIENT_HELLO" /\ w.version = "tls13" /\ w.keep = s.keep
      /\ w.out = <<>> /\ w.result = "running" /\ w.checksum = s.checksum
      /\ w.inKey = s.inKey /\ w.outKey = s.outKey /\ w.clientAuth = s.clientAuth /\ w.peerCert = s.peerCert
  <2> HIDE DEF body, w
  <2>1. "CLIENT_HELLO" \in StateNames /\ w = Written(s, "ChangeCipherSpec", body, "CLIENT_HELLO")
    BY <1>1 DEF w
  <2>2. WrittenOf(s, "ChangeCipherSpec", body, "CLIENT_HELLO", w)
    BY <1>1, <1>4, <1>5, <2>1, WrittenIs
  <2> QED
    BY <1>5, <2>2 DEF WrittenOf
<1> HIDE DEF w
<1>7. Heard(w) = Heard(a) /\ \A t : HeardAny(w, t) <=> HeardAny(a, t)
  BY <1>5, <1>6, HeardSame
<1>8. ServerKnows(w)
  <2>1. Server13Knows(w)
    BY <1>1, <1>2, <1>3, <1>5, <1>6, <1>7 DEF Server13Knows
  <2> QED
    BY <2>1, <1>3, <1>5, <1>6, <1>7 DEF ServerKnows, EndKnows
<1>9. ~ Said("server", a) /\ Steady("server", a, w) /\ Settled("server", a, w)
  BY <1>3, <1>5, <1>6 DEF Steady, Settled, Said, ServerSaid, Done, ServerDone, Last
<1>10. r \in Record /\ r.type = "ChangeCipherSpec" /\ r.body = body
       /\ ("ChangeCipherSpec" \in Bound => r.covers = s.checksum)
  <2> HIDE DEF body
  <2> QED
    BY <1>1, <1>4, <1>5, SealIs
<1> HIDE DEF r
<1>11. Real("server", r)
  BY <1>1, <1>3, <1>10 DEF Real, Bound
<1>13. Fits("server", w)
  BY <1>6, <1>8, <1>9 DEF Fits, Knows
<1>14. s.keep => ssl["server"].keep /\ s.msg = ssl["server"].msg
  BY <1>5
<1> QED
  BY <1>1, <1>2, <1>3, <1>4, <1>5, <1>9, <1>11, <1>13, <1>14, WriteIs DEF w, r

\* The TLS 1.3 server only goes on, from SERVER_CCS_AFTER_SERVER_HELLO
\* to ENCRYPTED_EXTENSIONS.
LEMMA ServerCcs2SentKeeps ==
    ASSUME IInv, tls13_write_change_cipher_spec("server", "SERVER_CCS_AFTER_SERVER_HELLO", "ENCRYPTED_EXTENSIONS"),
           ssl["server"].ccsSent
    PROVE  IInv'
<1> DEFINE a == ssl["server"]
           b == [ssl["server"] EXCEPT !.state = "ENCRYPTED_EXTENSIONS"]
<1>1. /\ "server" \in Ends /\ "tls13" \in Versions /\ "ENCRYPTED_EXTENSIONS" \in Server13States
      /\ Server13States \subseteq StateNames
  BY DEF Ends, Versions, StateNames, Server13States
<1>2. At("server", "tls13", "SERVER_CCS_AFTER_SERVER_HELLO") /\ Become("server", b)
  BY DEF tls13_write_change_cipher_spec, Go
<1>3. /\ a \in Context /\ ServerKnows(a) /\ Server13Knows(a) /\ a.out = <<>> /\ a.result = "running"
      /\ a.version = "tls13" /\ a.state = "SERVER_CCS_AFTER_SERVER_HELLO" /\ setup \in Setup
  BY <1>1, <1>2, AtIs DEF Knows, ServerKnows
<1>4. /\ b \in Context /\ b.state = "ENCRYPTED_EXTENSIONS" /\ b.version = "tls13" /\ b.keep = a.keep
      /\ b.msg = a.msg /\ b.out = <<>> /\ b.result = "running" /\ b.checksum = a.checksum
      /\ b.inKey = a.inKey /\ b.outKey = a.outKey /\ b.clientAuth = a.clientAuth /\ b.peerCert = a.peerCert
  BY <1>1, <1>3 DEF Context, Keys
<1> HIDE DEF b
<1>5. Heard(b) = Heard(a) /\ \A t : HeardAny(b, t) <=> HeardAny(a, t)
  BY <1>4, HeardSame
<1>6. ServerKnows(b)
  <2>1. Server13Knows(b)
    BY <1>1, <1>2, <1>3, <1>4, <1>5 DEF Server13Knows
  <2> QED
    BY <2>1, <1>3, <1>4, <1>5 DEF ServerKnows, EndKnows
<1>7. Steady("server", a, b) /\ Settled("server", a, b)
  BY <1>3, <1>4 DEF Steady, Settled, Said, ServerSaid, Done, ServerDone, Last
<1>8. Fits("server", b)
  BY <1>4, <1>6, <1>7 DEF Fits, Knows
<1> QED
  BY <1>1, <1>2, <1>3, <1>4, <1>7, <1>8, BecomeIs

\* The TLS 1.3 server writes a ChangeCipherSpec in SERVER_CCS_AFTER_SERVER_HELLO.
LEMMA ServerCcs2Keeps ==
    ASSUME IInv, tls13_write_change_cipher_spec("server", "SERVER_CCS_AFTER_SERVER_HELLO", "ENCRYPTED_EXTENSIONS"),
           ~ ssl["server"].ccsSent
    PROVE  IInv'
<1> DEFINE a == ssl["server"]
           s == [ssl["server"] EXCEPT !.ccsSent = TRUE]
           body == ""
           w == Written(s, "ChangeCipherSpec", body, "ENCRYPTED_EXTENSIONS")
           r == Seal(s, "ChangeCipherSpec", body)
<1>1. /\ "server" \in Ends /\ "tls13" \in Versions /\ "ENCRYPTED_EXTENSIONS" \in Server13States
      /\ Server13States \subseteq StateNames /\ "ChangeCipherSpec" \in MessageTypes
  BY DEF Ends, Versions, StateNames, Server13States, MessageTypes, AnyMessage
<1>2. At("server", "tls13", "SERVER_CCS_AFTER_SERVER_HELLO") /\ Write("server", s, "ChangeCipherSpec", body, "ENCRYPTED_EXTENSIONS")
  BY DEF tls13_write_change_cipher_spec
<1>3. /\ a \in Context /\ ServerKnows(a) /\ Server13Knows(a) /\ a.out = <<>> /\ a.result = "running"
      /\ a.version = "tls13" /\ a.state = "SERVER_CCS_AFTER_SERVER_HELLO" /\ setup \in Setup /\ Genuine("server")
  BY <1>1, <1>2, AtIs, EndAt DEF Knows, ServerKnows
<1>4. body \in Bodies
  BY <1>1, <1>3 DEF Bodies, Ends, Setup
<1>5. /\ s \in Context /\ s.out = <<>> /\ s.result = "running" /\ s.version = "tls13"
      /\ s.keep = a.keep /\ s.msg = a.msg /\ s.checksum = a.checksum
      /\ s.inKey = a.inKey /\ s.outKey = a.outKey /\ s.clientAuth = a.clientAuth /\ s.peerCert = a.peerCert
  BY <1>3 DEF Context, Keys, Certificates
<1> HIDE DEF s
<1>6. /\ w \in Context /\ w.state = "ENCRYPTED_EXTENSIONS" /\ w.version = "tls13" /\ w.keep = s.keep
      /\ w.out = <<>> /\ w.result = "running" /\ w.checksum = s.checksum
      /\ w.inKey = s.inKey /\ w.outKey = s.outKey /\ w.clientAuth = s.clientAuth /\ w.peerCert = s.peerCert
  <2> HIDE DEF body, w
  <2>1. "ENCRYPTED_EXTENSIONS" \in StateNames /\ w = Written(s, "ChangeCipherSpec", body, "ENCRYPTED_EXTENSIONS")
    BY <1>1 DEF w
  <2>2. WrittenOf(s, "ChangeCipherSpec", body, "ENCRYPTED_EXTENSIONS", w)
    BY <1>1, <1>4, <1>5, <2>1, WrittenIs
  <2> QED
    BY <1>5, <2>2 DEF WrittenOf
<1> HIDE DEF w
<1>7. Heard(w) = Heard(a) /\ \A t : HeardAny(w, t) <=> HeardAny(a, t)
  BY <1>5, <1>6, HeardSame
<1>8. ServerKnows(w)
  <2>1. Server13Knows(w)
    BY <1>1, <1>2, <1>3, <1>5, <1>6, <1>7 DEF Server13Knows
  <2> QED
    BY <2>1, <1>3, <1>5, <1>6, <1>7 DEF ServerKnows, EndKnows
<1>9. ~ Said("server", a) /\ Steady("server", a, w) /\ Settled("server", a, w)
  BY <1>3, <1>5, <1>6 DEF Steady, Settled, Said, ServerSaid, Done, ServerDone, Last
<1>10. r \in Record /\ r.type = "ChangeCipherSpec" /\ r.body = body
       /\ ("ChangeCipherSpec" \in Bound => r.covers = s.checksum)
  <2> HIDE DEF body
  <2> QED
    BY <1>1, <1>4, <1>5, SealIs
<1> HIDE DEF r
<1>11. Real("server", r)
  BY <1>1, <1>3, <1>10 DEF Real, Bound
<1>13. Fits("server", w)
  BY <1>6, <1>8, <1>9 DEF Fits, Knows
<1>14. s.keep => ssl["server"].keep /\ s.msg = ssl["server"].msg
  BY <1>5
<1> QED
  BY <1>1, <1>2, <1>3, <1>4, <1>5, <1>9, <1>11, <1>13, <1>14, WriteIs DEF w, r

LEMMA RetryWritten ==
    ASSUME IInv, tls13_write_hello_retry_request
    PROVE  IInv'
<1> DEFINE a == ssl["server"]
           s == [LayerReset(TranscriptReset(a)) EXCEPT !.retried = TRUE]
           next == "SERVER_CCS_AFTER_HELLO_RETRY_REQUEST"
           w == Written(s, "ServerHello", "retry", next)
           r == Seal(s, "ServerHello", "retry")
<1>1. /\ "server" \in Ends /\ "tls13" \in Versions /\ next \in Server13States
      /\ Server13States \subseteq StateNames /\ "ServerHello" \in MessageTypes
      /\ "retry" \in Bodies /\ "unexpected" \in Results \ {"running"}
  BY DEF Ends, Versions, StateNames, Server13States, MessageTypes, AnyMessage, Bodies, Results
<1>2. At("server", "tls13", "HELLO_RETRY_REQUEST")
  BY DEF tls13_write_hello_retry_request
<1>3. /\ a \in Context /\ ServerKnows(a) /\ Server13Knows(a) /\ a.out = <<>> /\ a.result = "running"
      /\ a.version = "tls13" /\ a.state = "HELLO_RETRY_REQUEST" /\ Running("server")
  BY <1>1, <1>2, AtIs DEF Knows, ServerKnows
<1>4. CASE a.retried
  <2>1. /\ ssl' = [ssl EXCEPT !["server"].result = "unexpected"]
        /\ wire' = [wire EXCEPT !["server"] = @ \o FatalAlert("server")]
        /\ setup' = setup /\ flights' = flights
    BY <1>4 DEF tls13_write_hello_retry_request
  <2> QED
    BY <1>1, <1>3, <2>1, FailIs
<1>5. CASE ~ a.retried
  <2>1. Write("server", s, "ServerHello", "retry", next)
    BY <1>5 DEF tls13_write_hello_retry_request
  <2>2. a.checksum # <<>> /\ ~ a.clientAuth /\ ~ a.keep
    BY <1>3 DEF Server13Knows
  <2>3. /\ s \in Context /\ s.out = <<>> /\ ~ s.keep /\ s.version = "tls13" /\ s.result = "running"
        /\ s.clientAuth = a.clientAuth /\ s.peerCert = a.peerCert
        /\ s.checksum = TranscriptReset(a).checksum
    <3> DEFINE c == << <<"message_hash", a.checksum[1][2]>> >>
    <3>1. c \in Seq(Entry) /\ TranscriptReset(a) = [a EXCEPT !.checksum = c]
      BY <1>3, <2>2, ResetIs
    <3> HIDE DEF c
    <3>2. "plain" \in Keys /\ <<>> \in Seq(Record) /\ NoMessage \in Record \cup {NoMessage}
      BY DEF Keys
    <3>3. s = [a EXCEPT !.checksum = c, !.out = <<>>, !.keep = FALSE, !.msg = NoMessage,
                        !.inKey = "plain", !.outKey = "plain", !.retried = TRUE]
      BY <1>3, <3>1 DEF LayerReset, Context
    <3> QED
      BY <1>3, <3>1, <3>2, <3>3 DEF Context
  <2>4. Anew(Append(s.checksum, <<"ServerHello", "retry">>))
    BY <1>3, <2>2, <2>3, AnewIs
  <2> HIDE DEF s, w
  <2>5. WrittenOf(s, "ServerHello", "retry", next, w)
    BY <1>1, <2>3, WrittenIs DEF w
  <2>6. /\ w \in Context /\ w.state = next /\ w.version = "tls13" /\ ~ w.keep /\ w.out = <<>>
        /\ w.result = "running" /\ w.clientAuth = a.clientAuth /\ Anew(w.checksum)
    BY <2>3, <2>4, <2>5 DEF WrittenOf
  <2>7. ServerKnows(w)
    <3>1. /\ ~ HeardAny(w, "CertificateRequest") /\ ~ HeardAny(w, "ClientKeyExchange")
          /\ <<"ServerHello", "tls13">> \notin Heard(w)
      <4>1. "tls13" \in Bodies /\ "tls13" # "retry"
        BY DEF Bodies
      <4> QED
        BY <2>6, <4>1 DEF HeardAny, Heard, Anew
    <3>2. Server13Knows(w)
      BY <1>1, <1>3, <2>2, <2>6, <3>1 DEF Server13Knows
    <3> QED
      BY <2>6, <3>2 DEF ServerKnows, EndKnows
  <2>8. ~ Said("server", a) /\ Steady("server", a, w) /\ Settled("server", a, w)
    BY <1>3, <2>6 DEF Steady, Settled, Said, ServerSaid, Done, ServerDone
  <2>9. r \in Record /\ r.type = "ServerHello" /\ r.body = "retry"
    BY <1>1, <2>3, SealIs
  <2> HIDE DEF r
  <2>10. Real("server", r)
    BY <2>9 DEF Real, Bound
  <2>11. Fits("server", w)
    BY <2>6, <2>7, <2>8 DEF Fits, Knows
  <2> QED
    BY <1>1, <1>3, <2>1, <2>3, <2>8, <2>10, <2>11, WriteIs DEF w, r
<1> QED
  BY <1>4, <1>5

\* The TLS 1.3 server, as a whole.
LEMMA Server13Keeps ==
    ASSUME IInv, Server13
    PROVE  IInv'
<1>1. CASE tls13_process_client_hello
  BY <1>1, ClientFallsBackKeeps, ProtocolRefused13Keeps, ClientHelloAgain13Keeps,
     ClientHelloRead13Keeps
<1>2. CASE tls13_write_certificate_request
  BY <1>2, CertificateRequest13WrittenKeeps, NoCertificateRequest13WrittenKeeps
<1>3. CASE tls13_write_server_finished
  BY <1>3, ServerFinishedAskedKeeps, ServerFinishedWrittenKeeps
<1>4. CASE tls13_process_certificate("server", "CLIENT_CERTIFICATE", "CLIENT_CERTIFICATE_VERIFY")
  BY <1>4, ClientCertificate13Keeps, NoClientCertificate13Keeps
<1>5. CASE tls13_write_change_cipher_spec("server", "SERVER_CCS_AFTER_HELLO_RETRY_REQUEST",
                                          "CLIENT_HELLO")
  BY <1>5, ServerCcs1SentKeeps, ServerCcs1Keeps
<1>6. CASE tls13_write_change_cipher_spec("server", "SERVER_CCS_AFTER_SERVER_HELLO",
                                          "ENCRYPTED_EXTENSIONS")
  BY <1>6, ServerCcs2SentKeeps, ServerCcs2Keeps
<1> QED
  BY <1>1, <1>2, <1>3, <1>4, <1>5, <1>6, RetryWritten, ServerHello13WrittenKeeps,
     EncryptedExtensionsWrittenKeeps, ServerCertificate13WrittenKeeps,
     ServerCertificateVerifyWrittenKeeps, ClientCertificateVerifyRead13Keeps,
     ClientFinishedRead13Keeps, Ticket13Keeps DEF Server13

-----------------------------------------------------------------------------
(* The TLS 1.2 client.                                                     *)

\* The TLS 1.2 client writes a ClientHello in CLIENT_HELLO.
LEMMA ClientHello12Keeps ==
    ASSUME IInv, write_client_hello("tls12")
    PROVE  IInv'
<1> DEFINE a == ssl["client"]
           s == ssl["client"]
           body == ClientHelloBody
           w == Written(s, "ClientHello", body, "SERVER_HELLO")
           r == Seal(s, "ClientHello", body)
<1>1. /\ "client" \in Ends /\ "tls12" \in Versions /\ "SERVER_HELLO" \in Client12States
      /\ Client12States \subseteq StateNames /\ "ClientHello" \in MessageTypes
  BY DEF Ends, Versions, StateNames, Client12States, MessageTypes, AnyMessage
<1>2. At("client", "tls12", "CLIENT_HELLO") /\ Write("client", s, "ClientHello", body, "SERVER_HELLO")
  BY DEF write_client_hello
<1>3. /\ a \in Context /\ ClientKnows(a) /\ Client12Knows(a) /\ a.out = <<>> /\ a.result = "running"
      /\ a.version = "tls12" /\ a.state = "CLIENT_HELLO" /\ setup \in Setup /\ Genuine("client")
  BY <1>1, <1>2, AtIs, EndAt DEF Knows, ClientKnows
<1>4. body \in Bodies
  BY <1>1, <1>3 DEF Bodies, Ends, Setup, ClientHelloBody
<1>5. /\ s \in Context /\ s.out = <<>> /\ s.result = "running" /\ s.version = "tls12"
      /\ s.keep = a.keep /\ s.msg = a.msg /\ s.checksum = a.checksum
      /\ s.inKey = a.inKey /\ s.outKey = a.outKey /\ s.clientAuth = a.clientAuth /\ s.peerCert = a.peerCert
  BY <1>3 DEF Context, Keys, Certificates
<1> HIDE DEF s
<1>6. /\ w \in Context /\ w.state = "SERVER_HELLO" /\ w.version = "tls12" /\ w.keep = s.keep
      /\ w.out = <<>> /\ w.result = "running" /\ w.checksum = Append(s.checksum, <<"ClientHello", body>>)
      /\ w.inKey = s.inKey /\ w.outKey = s.outKey /\ w.clientAuth = s.clientAuth /\ w.peerCert = s.peerCert
  <2> HIDE DEF body, w
  <2>1. "SERVER_HELLO" \in StateNames /\ w = Written(s, "ClientHello", body, "SERVER_HELLO")
    BY <1>1 DEF w
  <2>2. WrittenOf(s, "ClientHello", body, "SERVER_HELLO", w)
    BY <1>1, <1>4, <1>5, <2>1, WrittenIs
  <2> QED
    BY <1>5, <2>2 DEF WrittenOf
<1> HIDE DEF w
<1>7. /\ Heard(w) = Heard(a) \cup {<<"ClientHello", body>>}
      /\ \A t : HeardAny(w, t) <=> HeardAny(a, t) \/ t = "ClientHello"
  <2>1. Longer(a, w, "ClientHello", body)
    BY <1>1, <1>3, <1>4, <1>5, <1>6, HeardMore
  <2> QED
    BY <2>1 DEF Longer
<1>8. ClientKnows(w)
  <2>1. Client12Knows(w)
    BY <1>1, <1>2, <1>3, <1>5, <1>6, <1>7 DEF Client12Knows, ClientKnows
  <2> QED
    BY <2>1, <1>3, <1>5, <1>6, <1>7 DEF ClientKnows, EndKnows
<1>9. ~ Said("client", a) /\ Steady("client", a, w) /\ Settled("client", a, w)
  BY <1>3, <1>5, <1>6 DEF Steady, Settled, Said, ClientSaid, Done, ClientDone, Last
<1>10. r \in Record /\ r.type = "ClientHello" /\ r.body = body
       /\ ("ClientHello" \in Bound => r.covers = s.checksum)
  <2> HIDE DEF body
  <2> QED
    BY <1>1, <1>4, <1>5, SealIs
<1> HIDE DEF r
<1>11. Real("client", r)
  BY <1>1, <1>3, <1>10 DEF Real, Bound, ClientHelloBody
<1>13. Fits("client", w)
  BY <1>6, <1>8, <1>9 DEF Fits, Knows
<1>14. s.keep => ssl["client"].keep /\ s.msg = ssl["client"].msg
  BY <1>5
<1> QED
  BY <1>1, <1>2, <1>3, <1>4, <1>5, <1>9, <1>11, <1>13, <1>14, WriteIs DEF w, r

\* The TLS 1.2 client takes a ServerHello in SERVER_HELLO.
LEMMA ServerHello12KeptKeeps ==
    ASSUME IInv, tls12_parse_server_hello, ssl["client"].keep
    PROVE  IInv'
<1> DEFINE a == ssl["client"]
           s == [Hash12("client") EXCEPT !.newTicket = setup.ticket]
           b == [s EXCEPT !.state = "SERVER_CERTIFICATE"]
<1>1. /\ "client" \in Ends /\ "tls12" \in Versions /\ "SERVER_CERTIFICATE" \in Client12States
      /\ Client12States \subseteq StateNames
  BY DEF Ends, Versions, StateNames, Client12States
<1>2. Reads("client", "tls12", "SERVER_HELLO") /\ Accept("client", s, "SERVER_CERTIFICATE")
  BY <1>1 DEF tls12_parse_server_hello
<1>3. /\ a \in Context /\ ClientKnows(a) /\ Client12Knows(a) /\ a.out = <<>> /\ a.result = "running"
      /\ a.version = "tls12" /\ a.state = "SERVER_HELLO" /\ Running("client") /\ Has("client")
      /\ Got("client").type \in MessageTypes /\ Got("client").body \in Bodies /\ setup \in Setup
      /\ Got("client").type = "ServerHello" /\ Real(Other("client"), Got("client"))
  BY <1>1, <1>2, ReadIs, Takes12Are DEF Knows, ClientKnows
<1>5. /\ s \in Context /\ s.out = <<>> /\ s.result = "running" /\ ~ s.keep /\ s.version = "tls12"
      /\ s.checksum = a.checksum
      /\ s.inKey = a.inKey /\ s.outKey = a.outKey /\ s.clientAuth = a.clientAuth /\ s.peerCert = a.peerCert
  BY <1>3, Hash12Is DEF Context, Setup
<1>6. /\ b.state = "SERVER_CERTIFICATE" /\ b.version = "tls12" /\ ~ b.keep /\ b.out = <<>>
      /\ b.result = "running" /\ b.checksum = s.checksum
      /\ b.inKey = s.inKey /\ b.outKey = s.outKey /\ b.clientAuth = s.clientAuth /\ b.peerCert = s.peerCert
  <2> HIDE DEF s
  <2> QED
    BY <1>5 DEF Context
<1> HIDE DEF s, b
<1>7. Heard(b) = Heard(a) /\ \A t : HeardAny(b, t) <=> HeardAny(a, t)
  BY <1>5, <1>6, HeardSame
<1>8. ClientKnows(b)
  <2>1. Client12Knows(b)
    BY <1>1, <1>3, <1>5, <1>6, <1>7 DEF Client12Knows, ClientKnows
  <2> QED
    BY <2>1, <1>3, <1>5, <1>6, <1>7 DEF ClientKnows, EndKnows
<1>9. Steady("client", a, b) /\ Settled("client", a, b)
  BY <1>3, <1>5, <1>6 DEF Steady, Settled, Said, ClientSaid, Done, ClientDone, Last
<1> QED
  BY <1>1, <1>2, <1>5, <1>8, <1>9, AcceptKeeps DEF b, Knows

\* The TLS 1.2 client takes a ServerHello in SERVER_HELLO.
LEMMA ServerHello12Keeps ==
    ASSUME IInv, tls12_parse_server_hello, ~ ssl["client"].keep
    PROVE  IInv'
<1> DEFINE a == ssl["client"]
           s == [Hash12("client") EXCEPT !.newTicket = setup.ticket]
           b == [s EXCEPT !.state = "SERVER_CERTIFICATE"]
<1>1. /\ "client" \in Ends /\ "tls12" \in Versions /\ "SERVER_CERTIFICATE" \in Client12States
      /\ Client12States \subseteq StateNames
  BY DEF Ends, Versions, StateNames, Client12States
<1>2. Reads("client", "tls12", "SERVER_HELLO") /\ Accept("client", s, "SERVER_CERTIFICATE")
  BY <1>1 DEF tls12_parse_server_hello
<1>3. /\ a \in Context /\ ClientKnows(a) /\ Client12Knows(a) /\ a.out = <<>> /\ a.result = "running"
      /\ a.version = "tls12" /\ a.state = "SERVER_HELLO" /\ Running("client") /\ Has("client")
      /\ Got("client").type \in MessageTypes /\ Got("client").body \in Bodies /\ setup \in Setup
      /\ Got("client").type = "ServerHello" /\ Real(Other("client"), Got("client"))
  BY <1>1, <1>2, ReadIs, Takes12Are DEF Knows, ClientKnows
<1>5. /\ s \in Context /\ s.out = <<>> /\ s.result = "running" /\ ~ s.keep /\ s.version = "tls12"
      /\ s.checksum = Append(a.checksum, <<Got("client").type, Got("client").body>>)
      /\ s.inKey = a.inKey /\ s.outKey = a.outKey /\ s.clientAuth = a.clientAuth /\ s.peerCert = a.peerCert
  BY <1>3, Hash12Is DEF Context, Setup
<1>6. /\ b.state = "SERVER_CERTIFICATE" /\ b.version = "tls12" /\ ~ b.keep /\ b.out = <<>>
      /\ b.result = "running" /\ b.checksum = s.checksum
      /\ b.inKey = s.inKey /\ b.outKey = s.outKey /\ b.clientAuth = s.clientAuth /\ b.peerCert = s.peerCert
  <2> HIDE DEF s
  <2> QED
    BY <1>5 DEF Context
<1> HIDE DEF s, b
<1>7. /\ Heard(b) = Heard(a) \cup {<<Got("client").type, Got("client").body>>}
      /\ \A t : HeardAny(b, t) <=> HeardAny(a, t) \/ t = Got("client").type
  <2>1. Longer(a, b, Got("client").type, Got("client").body)
    BY <1>3, <1>5, <1>6, HeardMore
  <2> QED
    BY <2>1 DEF Longer
<1>8. ClientKnows(b)
  <2>1. Client12Knows(b)
    BY <1>1, <1>3, <1>5, <1>6, <1>7 DEF Client12Knows, ClientKnows
  <2> QED
    BY <2>1, <1>3, <1>5, <1>6, <1>7 DEF ClientKnows, EndKnows
<1>9. Steady("client", a, b) /\ Settled("client", a, b)
  BY <1>3, <1>5, <1>6 DEF Steady, Settled, Said, ClientSaid, Done, ClientDone, Last
<1> QED
  BY <1>1, <1>2, <1>5, <1>8, <1>9, AcceptKeeps DEF b, Knows

\* The TLS 1.2 client takes a ServerHelloDone in SERVER_HELLO_DONE.
LEMMA ServerHelloDone12KeptKeeps ==
    ASSUME IInv, tls12_parse_server_hello_done, ssl["client"].keep
    PROVE  IInv'
<1> DEFINE a == ssl["client"]
           s == Hash12("client")
           b == [s EXCEPT !.state = "CLIENT_CERTIFICATE"]
<1>1. /\ "client" \in Ends /\ "tls12" \in Versions /\ "CLIENT_CERTIFICATE" \in Client12States
      /\ Client12States \subseteq StateNames
  BY DEF Ends, Versions, StateNames, Client12States
<1>2. Reads("client", "tls12", "SERVER_HELLO_DONE") /\ Accept("client", s, "CLIENT_CERTIFICATE")
  BY <1>1 DEF tls12_parse_server_hello_done
<1>3. /\ a \in Context /\ ClientKnows(a) /\ Client12Knows(a) /\ a.out = <<>> /\ a.result = "running"
      /\ a.version = "tls12" /\ a.state = "SERVER_HELLO_DONE" /\ Running("client") /\ Has("client")
      /\ Got("client").type \in MessageTypes /\ Got("client").body \in Bodies /\ setup \in Setup
      /\ Got("client").type = "ServerHelloDone" /\ Real(Other("client"), Got("client"))
  BY <1>1, <1>2, ReadIs, Takes12Are DEF Knows, ClientKnows
<1>5. /\ s \in Context /\ s.out = <<>> /\ s.result = "running" /\ ~ s.keep /\ s.version = "tls12"
      /\ s.checksum = a.checksum
      /\ s.inKey = a.inKey /\ s.outKey = a.outKey /\ s.clientAuth = a.clientAuth /\ s.peerCert = a.peerCert
  BY <1>3, Hash12Is DEF Context
<1>6. /\ b.state = "CLIENT_CERTIFICATE" /\ b.version = "tls12" /\ ~ b.keep /\ b.out = <<>>
      /\ b.result = "running" /\ b.checksum = s.checksum
      /\ b.inKey = s.inKey /\ b.outKey = s.outKey /\ b.clientAuth = s.clientAuth /\ b.peerCert = s.peerCert
  <2> HIDE DEF s
  <2> QED
    BY <1>5 DEF Context
<1> HIDE DEF s, b
<1>7. Heard(b) = Heard(a) /\ \A t : HeardAny(b, t) <=> HeardAny(a, t)
  BY <1>5, <1>6, HeardSame
<1>8. ClientKnows(b)
  <2>1. Client12Knows(b)
    BY <1>1, <1>3, <1>5, <1>6, <1>7 DEF Client12Knows, ClientKnows
  <2> QED
    BY <2>1, <1>3, <1>5, <1>6, <1>7 DEF ClientKnows, EndKnows
<1>9. Steady("client", a, b) /\ Settled("client", a, b)
  BY <1>3, <1>5, <1>6 DEF Steady, Settled, Said, ClientSaid, Done, ClientDone, Last
<1> QED
  BY <1>1, <1>2, <1>5, <1>8, <1>9, AcceptKeeps DEF b, Knows

\* The TLS 1.2 client takes a ServerHelloDone in SERVER_HELLO_DONE.
LEMMA ServerHelloDone12Keeps ==
    ASSUME IInv, tls12_parse_server_hello_done, ~ ssl["client"].keep
    PROVE  IInv'
<1> DEFINE a == ssl["client"]
           s == Hash12("client")
           b == [s EXCEPT !.state = "CLIENT_CERTIFICATE"]
<1>1. /\ "client" \in Ends /\ "tls12" \in Versions /\ "CLIENT_CERTIFICATE" \in Client12States
      /\ Client12States \subseteq StateNames
  BY DEF Ends, Versions, StateNames, Client12States
<1>2. Reads("client", "tls12", "SERVER_HELLO_DONE") /\ Accept("client", s, "CLIENT_CERTIFICATE")
  BY <1>1 DEF tls12_parse_server_hello_done
<1>3. /\ a \in Context /\ ClientKnows(a) /\ Client12Knows(a) /\ a.out = <<>> /\ a.result = "running"
      /\ a.version = "tls12" /\ a.state = "SERVER_HELLO_DONE" /\ Running("client") /\ Has("client")
      /\ Got("client").type \in MessageTypes /\ Got("client").body \in Bodies /\ setup \in Setup
      /\ Got("client").type = "ServerHelloDone" /\ Real(Other("client"), Got("client"))
  BY <1>1, <1>2, ReadIs, Takes12Are DEF Knows, ClientKnows
<1>5. /\ s \in Context /\ s.out = <<>> /\ s.result = "running" /\ ~ s.keep /\ s.version = "tls12"
      /\ s.checksum = Append(a.checksum, <<Got("client").type, Got("client").body>>)
      /\ s.inKey = a.inKey /\ s.outKey = a.outKey /\ s.clientAuth = a.clientAuth /\ s.peerCert = a.peerCert
  BY <1>3, Hash12Is DEF Context
<1>6. /\ b.state = "CLIENT_CERTIFICATE" /\ b.version = "tls12" /\ ~ b.keep /\ b.out = <<>>
      /\ b.result = "running" /\ b.checksum = s.checksum
      /\ b.inKey = s.inKey /\ b.outKey = s.outKey /\ b.clientAuth = s.clientAuth /\ b.peerCert = s.peerCert
  <2> HIDE DEF s
  <2> QED
    BY <1>5 DEF Context
<1> HIDE DEF s, b
<1>7. /\ Heard(b) = Heard(a) \cup {<<Got("client").type, Got("client").body>>}
      /\ \A t : HeardAny(b, t) <=> HeardAny(a, t) \/ t = Got("client").type
  <2>1. Longer(a, b, Got("client").type, Got("client").body)
    BY <1>3, <1>5, <1>6, HeardMore
  <2> QED
    BY <2>1 DEF Longer
<1>8. ClientKnows(b)
  <2>1. Client12Knows(b)
    BY <1>1, <1>3, <1>5, <1>6, <1>7 DEF Client12Knows, ClientKnows
  <2> QED
    BY <2>1, <1>3, <1>5, <1>6, <1>7 DEF ClientKnows, EndKnows
<1>9. Steady("client", a, b) /\ Settled("client", a, b)
  BY <1>3, <1>5, <1>6 DEF Steady, Settled, Said, ClientSaid, Done, ClientDone, Last
<1> QED
  BY <1>1, <1>2, <1>5, <1>8, <1>9, AcceptKeeps DEF b, Knows

\* The TLS 1.2 client takes a Certificate in SERVER_CERTIFICATE.
LEMMA ServerCertificate12Keeps ==
    ASSUME IInv, tls12_parse_certificate("client", "SERVER_CERTIFICATE")
    PROVE  IInv'
<1> DEFINE a == ssl["client"]
           s == [Hash12("client") EXCEPT !.peerCert = Got("client").body]
           b == [s EXCEPT !.state = "SERVER_KEY_EXCHANGE"]
<1>1. /\ "client" \in Ends /\ "tls12" \in Versions /\ "SERVER_KEY_EXCHANGE" \in Client12States
      /\ Client12States \subseteq StateNames
  BY DEF Ends, Versions, StateNames, Client12States
<1>2. /\ Reads("client", "tls12", "SERVER_CERTIFICATE")
      /\ \/ Accept("client", s, "SERVER_KEY_EXCHANGE") /\ Forgiven("client", Got("client").body)
         \/ Refuse("client", "no_certificate")
         \/ Quit("client", "no_certificate")
         \/ Refuse("client", "bad_certificate")
  BY <1>1, Steps12 DEF tls12_parse_certificate
<1>3. /\ a \in Context /\ ClientKnows(a) /\ Client12Knows(a) /\ a.out = <<>> /\ a.result = "running"
      /\ a.version = "tls12" /\ a.state = "SERVER_CERTIFICATE" /\ Running("client") /\ Has("client")
      /\ Got("client").type \in MessageTypes /\ Got("client").body \in Bodies /\ setup \in Setup
      /\ Got("client").type = "Certificate" /\ Real(Other("client"), Got("client"))
  BY <1>1, <1>2, ReadIs, Takes12Are DEF Knows, ClientKnows
<1>4. SUFFICES ASSUME Accept("client", s, "SERVER_KEY_EXCHANGE"), Forgiven("client", Got("client").body)
               PROVE  IInv'
  <2>1. "no_certificate" \in Results \ {"running"} /\ "bad_certificate" \in Results \ {"running"}
    BY DEF Results
  <2>2. ASSUME Refuse("client", "no_certificate") \/ Quit("client", "no_certificate") \/ Refuse("client", "bad_certificate") PROVE IInv'
    BY <1>1, <1>3, <2>1, <2>2, RefuseKeeps
  <2> QED
    BY <1>2, <2>2
<1>10. ~ a.keep
  BY <1>3 DEF Client12Knows
<1>5. /\ s \in Context /\ s.out = <<>> /\ s.result = "running" /\ ~ s.keep /\ s.version = "tls12"
      /\ s.checksum = Append(a.checksum, <<Got("client").type, Got("client").body>>)
      /\ s.inKey = a.inKey /\ s.outKey = a.outKey /\ s.clientAuth = a.clientAuth /\ s.peerCert = Got("client").body
  BY <1>3, Hash12Is, <1>1, CertificateIs, <1>10 DEF Context
<1>6. /\ b.state = "SERVER_KEY_EXCHANGE" /\ b.version = "tls12" /\ ~ b.keep /\ b.out = <<>>
      /\ b.result = "running" /\ b.checksum = s.checksum
      /\ b.inKey = s.inKey /\ b.outKey = s.outKey /\ b.clientAuth = s.clientAuth /\ b.peerCert = s.peerCert
  <2> HIDE DEF s
  <2> QED
    BY <1>5 DEF Context
<1> HIDE DEF s, b
<1>7. /\ Heard(b) = Heard(a) \cup {<<Got("client").type, Got("client").body>>}
      /\ \A t : HeardAny(b, t) <=> HeardAny(a, t) \/ t = Got("client").type
  <2>1. Longer(a, b, Got("client").type, Got("client").body)
    BY <1>3, <1>5, <1>6, HeardMore
  <2> QED
    BY <2>1 DEF Longer
<1>8. ClientKnows(b)
  <2>1. Client12Knows(b)
    BY <1>1, <1>3, <1>4, <1>5, <1>6, <1>7 DEF Client12Knows, ClientKnows, Required,
       Forgiven
  <2> QED
    BY <2>1, <1>3, <1>5, <1>6, <1>7 DEF ClientKnows, EndKnows
<1>9. Steady("client", a, b) /\ Settled("client", a, b)
  BY <1>3, <1>5, <1>6 DEF Steady, Settled, Said, ClientSaid, Done, ClientDone, Last
<1> QED
  BY <1>1, <1>2, <1>4, <1>5, <1>8, <1>9, AcceptKeeps DEF b, Knows

\* The TLS 1.2 client only goes on, from SERVER_KEY_EXCHANGE
\* to CERTIFICATE_REQUEST.
LEMMA NoKeyExchangeKeeps ==
    ASSUME IInv, Skip12("client", "SERVER_KEY_EXCHANGE", setup.rsa)
    PROVE  IInv'
<1> DEFINE a == ssl["client"]
           b == [ssl["client"] EXCEPT !.state = "CERTIFICATE_REQUEST"]
<1>1. /\ "client" \in Ends /\ "tls12" \in Versions /\ "CERTIFICATE_REQUEST" \in Client12States
      /\ Client12States \subseteq StateNames
  BY DEF Ends, Versions, StateNames, Client12States
<1>2. At("client", "tls12", "SERVER_KEY_EXCHANGE") /\ Become("client", b)
  BY Steps12 DEF Skip12, Go
<1>3. /\ a \in Context /\ ClientKnows(a) /\ Client12Knows(a) /\ a.out = <<>> /\ a.result = "running"
      /\ a.version = "tls12" /\ a.state = "SERVER_KEY_EXCHANGE" /\ setup \in Setup
  BY <1>1, <1>2, AtIs DEF Knows, ClientKnows
<1>4. /\ b \in Context /\ b.state = "CERTIFICATE_REQUEST" /\ b.version = "tls12" /\ b.keep = a.keep
      /\ b.msg = a.msg /\ b.out = <<>> /\ b.result = "running" /\ b.checksum = a.checksum
      /\ b.inKey = a.inKey /\ b.outKey = a.outKey /\ b.clientAuth = a.clientAuth /\ b.peerCert = a.peerCert
  BY <1>1, <1>3 DEF Context, Keys
<1> HIDE DEF b
<1>5. Heard(b) = Heard(a) /\ \A t : HeardAny(b, t) <=> HeardAny(a, t)
  BY <1>4, HeardSame
<1>6. ClientKnows(b)
  <2>1. Client12Knows(b)
    BY <1>1, <1>2, <1>3, <1>4, <1>5 DEF Client12Knows, ClientKnows
  <2> QED
    BY <2>1, <1>3, <1>4, <1>5 DEF ClientKnows, EndKnows
<1>7. Steady("client", a, b) /\ Settled("client", a, b)
  BY <1>3, <1>4 DEF Steady, Settled, Said, ClientSaid, Done, ClientDone, Last
<1>8. Fits("client", b)
  BY <1>4, <1>6, <1>7 DEF Fits, Knows
<1> QED
  BY <1>1, <1>2, <1>3, <1>4, <1>7, <1>8, BecomeIs

\* The TLS 1.2 client takes a ServerKeyExchange in SERVER_KEY_EXCHANGE.
LEMMA ServerKeyExchangeKeeps ==
    ASSUME IInv, Reads("client", "tls12", "SERVER_KEY_EXCHANGE"),
           Accept("client", Hash12("client"), "CERTIFICATE_REQUEST")
    PROVE  IInv'
<1> DEFINE a == ssl["client"]
           s == Hash12("client")
           b == [s EXCEPT !.state = "CERTIFICATE_REQUEST"]
<1>1. /\ "client" \in Ends /\ "tls12" \in Versions /\ "CERTIFICATE_REQUEST" \in Client12States
      /\ Client12States \subseteq StateNames
  BY DEF Ends, Versions, StateNames, Client12States
<1>2. Reads("client", "tls12", "SERVER_KEY_EXCHANGE") /\ Accept("client", s, "CERTIFICATE_REQUEST")
  BY <1>1 DEF Reads
<1>3. /\ a \in Context /\ ClientKnows(a) /\ Client12Knows(a) /\ a.out = <<>> /\ a.result = "running"
      /\ a.version = "tls12" /\ a.state = "SERVER_KEY_EXCHANGE" /\ Running("client") /\ Has("client")
      /\ Got("client").type \in MessageTypes /\ Got("client").body \in Bodies /\ setup \in Setup
      /\ Got("client").type = "ServerKeyExchange" /\ Real(Other("client"), Got("client"))
  BY <1>1, <1>2, ReadIs, Takes12Are DEF Knows, ClientKnows
<1>10. ~ a.keep
  BY <1>3 DEF Client12Knows
<1>5. /\ s \in Context /\ s.out = <<>> /\ s.result = "running" /\ ~ s.keep /\ s.version = "tls12"
      /\ s.checksum = Append(a.checksum, <<Got("client").type, Got("client").body>>)
      /\ s.inKey = a.inKey /\ s.outKey = a.outKey /\ s.clientAuth = a.clientAuth /\ s.peerCert = a.peerCert
  BY <1>3, Hash12Is, <1>10 DEF Context
<1>6. /\ b.state = "CERTIFICATE_REQUEST" /\ b.version = "tls12" /\ ~ b.keep /\ b.out = <<>>
      /\ b.result = "running" /\ b.checksum = s.checksum
      /\ b.inKey = s.inKey /\ b.outKey = s.outKey /\ b.clientAuth = s.clientAuth /\ b.peerCert = s.peerCert
  <2> HIDE DEF s
  <2> QED
    BY <1>5 DEF Context
<1> HIDE DEF s, b
<1>7. /\ Heard(b) = Heard(a) \cup {<<Got("client").type, Got("client").body>>}
      /\ \A t : HeardAny(b, t) <=> HeardAny(a, t) \/ t = Got("client").type
  <2>1. Longer(a, b, Got("client").type, Got("client").body)
    BY <1>3, <1>5, <1>6, HeardMore
  <2> QED
    BY <2>1 DEF Longer
<1>8. ClientKnows(b)
  <2>1. Client12Knows(b)
    BY <1>1, <1>3, <1>5, <1>6, <1>7 DEF Client12Knows, ClientKnows
  <2> QED
    BY <2>1, <1>3, <1>5, <1>6, <1>7 DEF ClientKnows, EndKnows
<1>9. Steady("client", a, b) /\ Settled("client", a, b)
  BY <1>3, <1>5, <1>6 DEF Steady, Settled, Said, ClientSaid, Done, ClientDone, Last
<1> QED
  BY <1>1, <1>2, <1>5, <1>8, <1>9, AcceptKeeps DEF b, Knows

\* The TLS 1.2 client takes a CertificateRequest in CERTIFICATE_REQUEST.
LEMMA CertificateRequest12Keeps ==
    ASSUME IInv, tls12_parse_certificate_request, Got("client").type = "CertificateRequest"
    PROVE  IInv'
<1> DEFINE a == ssl["client"]
           s == [Hash12("client") EXCEPT !.clientAuth = TRUE]
           b == [s EXCEPT !.state = "SERVER_HELLO_DONE"]
<1>1. /\ "client" \in Ends /\ "tls12" \in Versions /\ "SERVER_HELLO_DONE" \in Client12States
      /\ Client12States \subseteq StateNames
  BY DEF Ends, Versions, StateNames, Client12States
<1>2. Reads("client", "tls12", "CERTIFICATE_REQUEST") /\ Accept("client", s, "SERVER_HELLO_DONE")
  BY <1>1 DEF tls12_parse_certificate_request
<1>3. /\ a \in Context /\ ClientKnows(a) /\ Client12Knows(a) /\ a.out = <<>> /\ a.result = "running"
      /\ a.version = "tls12" /\ a.state = "CERTIFICATE_REQUEST" /\ Running("client") /\ Has("client")
      /\ Got("client").type \in MessageTypes /\ Got("client").body \in Bodies /\ setup \in Setup
      /\ Got("client").type = "CertificateRequest" /\ Real(Other("client"), Got("client"))
  BY <1>1, <1>2, ReadIs, Takes12Are DEF Knows, ClientKnows
<1>10. ~ a.keep
  BY <1>3 DEF Client12Knows
<1>5. /\ s \in Context /\ s.out = <<>> /\ s.result = "running" /\ ~ s.keep /\ s.version = "tls12"
      /\ s.checksum = Append(a.checksum, <<Got("client").type, Got("client").body>>)
      /\ s.inKey = a.inKey /\ s.outKey = a.outKey /\ s.clientAuth = TRUE /\ s.peerCert = a.peerCert
  BY <1>3, Hash12Is, <1>10 DEF Context
<1>6. /\ b.state = "SERVER_HELLO_DONE" /\ b.version = "tls12" /\ ~ b.keep /\ b.out = <<>>
      /\ b.result = "running" /\ b.checksum = s.checksum
      /\ b.inKey = s.inKey /\ b.outKey = s.outKey /\ b.clientAuth = s.clientAuth /\ b.peerCert = s.peerCert
  <2> HIDE DEF s
  <2> QED
    BY <1>5 DEF Context
<1> HIDE DEF s, b
<1>7. /\ Heard(b) = Heard(a) \cup {<<Got("client").type, Got("client").body>>}
      /\ \A t : HeardAny(b, t) <=> HeardAny(a, t) \/ t = Got("client").type
  <2>1. Longer(a, b, Got("client").type, Got("client").body)
    BY <1>3, <1>5, <1>6, HeardMore
  <2> QED
    BY <2>1 DEF Longer
<1>8. ClientKnows(b)
  <2>1. Client12Knows(b)
    BY <1>1, <1>3, <1>5, <1>6, <1>7 DEF Client12Knows, ClientKnows
  <2> QED
    BY <2>1, <1>3, <1>5, <1>6, <1>7 DEF ClientKnows, EndKnows
<1>9. Steady("client", a, b) /\ Settled("client", a, b)
  BY <1>3, <1>5, <1>6 DEF Steady, Settled, Said, ClientSaid, Done, ClientDone, Last
<1> QED
  BY <1>1, <1>2, <1>5, <1>8, <1>9, AcceptKeeps DEF b, Knows

\* The TLS 1.2 client leaves the message it has read in CERTIFICATE_REQUEST
\* to the next state.
LEMMA NoCertificateRequest12Keeps ==
    ASSUME IInv, tls12_parse_certificate_request, Got("client").type # "CertificateRequest"
    PROVE  IInv'
<1> DEFINE a == ssl["client"]
           s == Hash12("client")
           b == [s EXCEPT !.state = "SERVER_HELLO_DONE", !.keep = TRUE, !.msg = Got("client")]
<1>1. /\ "client" \in Ends /\ "tls12" \in Versions /\ "tls12" \in Versions /\ "SERVER_HELLO_DONE" \in Client12States
      /\ Client12States \subseteq StateNames
  BY DEF Ends, Versions, StateNames, Client12States
<1>2. Reads("client", "tls12", "CERTIFICATE_REQUEST") /\ Keep("client", s, "SERVER_HELLO_DONE")
  BY DEF tls12_parse_certificate_request
<1>3. /\ a \in Context /\ ClientKnows(a) /\ Client12Knows(a) /\ a.out = <<>> /\ a.result = "running"
      /\ a.version = "tls12" /\ a.state = "CERTIFICATE_REQUEST" /\ Running("client") /\ Has("client")
      /\ Got("client").type \in MessageTypes /\ Got("client").body \in Bodies /\ setup \in Setup
      /\ Got("client") \in Record /\ Real(Other("client"), Got("client")) /\ flights' \in [Ends -> Nat]
  BY <1>1, <1>2, ReadIs DEF Knows, ClientKnows, Keep, IInv, Types
<1>4. /\ s \in Context /\ s.out = <<>> /\ s.result = "running" /\ s.version = "tls12"
      /\ s.clientAuth = a.clientAuth /\ s.peerCert = a.peerCert
      /\ s.inKey = a.inKey /\ s.outKey = a.outKey
      /\ s.checksum = Append(a.checksum, <<Got("client").type, Got("client").body>>)
  BY <1>1, <1>3, Hash12Is DEF Context, Client12Knows
<1>5. /\ b \in Context /\ b.state = "SERVER_HELLO_DONE" /\ b.version = "tls12" /\ b.keep /\ b.msg = Got("client")
      /\ b.out = <<>> /\ b.result = "running" /\ b.checksum = s.checksum
      /\ b.clientAuth = s.clientAuth /\ b.peerCert = s.peerCert
      /\ b.inKey = s.inKey /\ b.outKey = s.outKey
  <2> HIDE DEF s
  <2> QED
    BY <1>1, <1>3, <1>4 DEF Context
<1> HIDE DEF s, b
<1>6. /\ Heard(b) = Heard(a) \cup {<<Got("client").type, Got("client").body>>}
      /\ \A t : HeardAny(b, t) <=> HeardAny(a, t) \/ t = Got("client").type
  <2>1. Longer(a, b, Got("client").type, Got("client").body)
    BY <1>3, <1>4, <1>5, HeardMore
  <2> QED
    BY <2>1 DEF Longer
<1>7. ClientKnows(b)
  <2>1. Client12Knows(b)
    BY <1>1, <1>2, <1>3, <1>4, <1>5, <1>6 DEF Client12Knows, ClientKnows
  <2> QED
    BY <2>1, <1>2, <1>3, <1>4, <1>5, <1>6 DEF ClientKnows, EndKnows
<1>8. Steady("client", a, b) /\ Settled("client", a, b)
  BY <1>3, <1>4, <1>5 DEF Steady, Settled, Said, ClientSaid, Done, ClientDone, Last
<1>9. setup' = setup /\ ssl' = [ssl EXCEPT !["client"] = b] /\ wire' = Consumed("client")
  BY <1>2 DEF Keep, b
<1>10. Fits("client", b)
  BY <1>5, <1>7, <1>8 DEF Fits, Knows
<1> QED
  BY <1>1, <1>3, <1>5, <1>8, <1>9, <1>10, AcceptIs

\* The TLS 1.2 client only goes on, from CLIENT_CERTIFICATE
\* to CLIENT_KEY_EXCHANGE.
LEMMA NotAsked12Keeps ==
    ASSUME IInv, Skip12("client", "CLIENT_CERTIFICATE", ~ ssl["client"].clientAuth)
    PROVE  IInv'
<1> DEFINE a == ssl["client"]
           b == [ssl["client"] EXCEPT !.state = "CLIENT_KEY_EXCHANGE"]
<1>1. /\ "client" \in Ends /\ "tls12" \in Versions /\ "CLIENT_KEY_EXCHANGE" \in Client12States
      /\ Client12States \subseteq StateNames
  BY DEF Ends, Versions, StateNames, Client12States
<1>2. At("client", "tls12", "CLIENT_CERTIFICATE") /\ Become("client", b)
  BY Steps12 DEF Skip12, Go
<1>3. /\ a \in Context /\ ClientKnows(a) /\ Client12Knows(a) /\ a.out = <<>> /\ a.result = "running"
      /\ a.version = "tls12" /\ a.state = "CLIENT_CERTIFICATE" /\ setup \in Setup
  BY <1>1, <1>2, AtIs DEF Knows, ClientKnows
<1>4. /\ b \in Context /\ b.state = "CLIENT_KEY_EXCHANGE" /\ b.version = "tls12" /\ b.keep = a.keep
      /\ b.msg = a.msg /\ b.out = <<>> /\ b.result = "running" /\ b.checksum = a.checksum
      /\ b.inKey = a.inKey /\ b.outKey = a.outKey /\ b.clientAuth = a.clientAuth /\ b.peerCert = a.peerCert
  BY <1>1, <1>3 DEF Context, Keys
<1> HIDE DEF b
<1>5. Heard(b) = Heard(a) /\ \A t : HeardAny(b, t) <=> HeardAny(a, t)
  BY <1>4, HeardSame
<1>6. ClientKnows(b)
  <2>1. Client12Knows(b)
    BY <1>1, <1>2, <1>3, <1>4, <1>5 DEF Client12Knows, ClientKnows
  <2> QED
    BY <2>1, <1>3, <1>4, <1>5 DEF ClientKnows, EndKnows
<1>7. Steady("client", a, b) /\ Settled("client", a, b)
  BY <1>3, <1>4 DEF Steady, Settled, Said, ClientSaid, Done, ClientDone, Last
<1>8. Fits("client", b)
  BY <1>4, <1>6, <1>7 DEF Fits, Knows
<1> QED
  BY <1>1, <1>2, <1>3, <1>4, <1>7, <1>8, BecomeIs

\* The TLS 1.2 client writes a Certificate in CLIENT_CERTIFICATE.
LEMMA ClientCertificate12Keeps ==
    ASSUME IInv, Write12("client", "CLIENT_CERTIFICATE", "Certificate", setup.cert["client"])
    PROVE  IInv'
<1> DEFINE a == ssl["client"]
           s == ssl["client"]
           body == setup.cert["client"]
           w == Written(s, "Certificate", body, "CLIENT_KEY_EXCHANGE")
           r == Seal(s, "Certificate", body)
<1>1. /\ "client" \in Ends /\ "tls12" \in Versions /\ "CLIENT_KEY_EXCHANGE" \in Client12States
      /\ Client12States \subseteq StateNames /\ "Certificate" \in MessageTypes
  BY DEF Ends, Versions, StateNames, Client12States, MessageTypes, AnyMessage
<1>2. At("client", "tls12", "CLIENT_CERTIFICATE") /\ Write("client", s, "Certificate", body, "CLIENT_KEY_EXCHANGE")
  BY Steps12 DEF Write12
<1>3. /\ a \in Context /\ ClientKnows(a) /\ Client12Knows(a) /\ a.out = <<>> /\ a.result = "running"
      /\ a.version = "tls12" /\ a.state = "CLIENT_CERTIFICATE" /\ setup \in Setup /\ Genuine("client")
  BY <1>1, <1>2, AtIs, EndAt DEF Knows, ClientKnows
<1>4. body \in Bodies
  BY <1>1, <1>3 DEF Bodies, Ends, Setup
<1>5. /\ s \in Context /\ s.out = <<>> /\ s.result = "running" /\ s.version = "tls12"
      /\ s.keep = a.keep /\ s.msg = a.msg /\ s.checksum = a.checksum
      /\ s.inKey = a.inKey /\ s.outKey = a.outKey /\ s.clientAuth = a.clientAuth /\ s.peerCert = a.peerCert
  BY <1>3 DEF Context, Keys, Certificates
<1> HIDE DEF s
<1>6. /\ w \in Context /\ w.state = "CLIENT_KEY_EXCHANGE" /\ w.version = "tls12" /\ w.keep = s.keep
      /\ w.out = <<>> /\ w.result = "running" /\ w.checksum = Append(s.checksum, <<"Certificate", body>>)
      /\ w.inKey = s.inKey /\ w.outKey = s.outKey /\ w.clientAuth = s.clientAuth /\ w.peerCert = s.peerCert
  <2> HIDE DEF body, w
  <2>1. "CLIENT_KEY_EXCHANGE" \in StateNames /\ w = Written(s, "Certificate", body, "CLIENT_KEY_EXCHANGE")
    BY <1>1 DEF w
  <2>2. WrittenOf(s, "Certificate", body, "CLIENT_KEY_EXCHANGE", w)
    BY <1>1, <1>4, <1>5, <2>1, WrittenIs
  <2> QED
    BY <1>5, <2>2 DEF WrittenOf
<1> HIDE DEF w
<1>7. /\ Heard(w) = Heard(a) \cup {<<"Certificate", body>>}
      /\ \A t : HeardAny(w, t) <=> HeardAny(a, t) \/ t = "Certificate"
  <2>1. Longer(a, w, "Certificate", body)
    BY <1>1, <1>3, <1>4, <1>5, <1>6, HeardMore
  <2> QED
    BY <2>1 DEF Longer
<1>8. ClientKnows(w)
  <2>1. Client12Knows(w)
    BY <1>1, <1>2, <1>3, <1>5, <1>6, <1>7 DEF Client12Knows, ClientKnows
  <2> QED
    BY <2>1, <1>3, <1>5, <1>6, <1>7 DEF ClientKnows, EndKnows
<1>9. ~ Said("client", a) /\ Steady("client", a, w) /\ Settled("client", a, w)
  BY <1>3, <1>5, <1>6 DEF Steady, Settled, Said, ClientSaid, Done, ClientDone, Last
<1>10. r \in Record /\ r.type = "Certificate" /\ r.body = body
       /\ ("Certificate" \in Bound => r.covers = s.checksum)
  <2> HIDE DEF body
  <2> QED
    BY <1>1, <1>4, <1>5, SealIs
<1> HIDE DEF r
<1>11. Real("client", r)
  BY <1>1, <1>3, <1>10 DEF Real, Bound
<1>13. Fits("client", w)
  BY <1>6, <1>8, <1>9 DEF Fits, Knows
<1>14. s.keep => ssl["client"].keep /\ s.msg = ssl["client"].msg
  BY <1>5
<1> QED
  BY <1>1, <1>2, <1>3, <1>4, <1>5, <1>9, <1>11, <1>13, <1>14, WriteIs DEF w, r

\* The TLS 1.2 client writes a ClientKeyExchange in CLIENT_KEY_EXCHANGE.
LEMMA ClientKeyExchangeKeeps ==
    ASSUME IInv, tls12_write_client_key_exchange
    PROVE  IInv'
<1> DEFINE a == ssl["client"]
           s == ssl["client"]
           body == ""
           w == Written(s, "ClientKeyExchange", body, "CERTIFICATE_VERIFY")
           r == Seal(s, "ClientKeyExchange", body)
<1>1. /\ "client" \in Ends /\ "tls12" \in Versions /\ "CERTIFICATE_VERIFY" \in Client12States
      /\ Client12States \subseteq StateNames /\ "ClientKeyExchange" \in MessageTypes
  BY DEF Ends, Versions, StateNames, Client12States, MessageTypes, AnyMessage
<1>2. At("client", "tls12", "CLIENT_KEY_EXCHANGE") /\ Write("client", s, "ClientKeyExchange", body, "CERTIFICATE_VERIFY")
  BY Steps12 DEF tls12_write_client_key_exchange, Write12
<1>3. /\ a \in Context /\ ClientKnows(a) /\ Client12Knows(a) /\ a.out = <<>> /\ a.result = "running"
      /\ a.version = "tls12" /\ a.state = "CLIENT_KEY_EXCHANGE" /\ setup \in Setup /\ Genuine("client")
  BY <1>1, <1>2, AtIs, EndAt DEF Knows, ClientKnows
<1>4. body \in Bodies
  BY <1>1, <1>3 DEF Bodies, Ends, Setup
<1>5. /\ s \in Context /\ s.out = <<>> /\ s.result = "running" /\ s.version = "tls12"
      /\ s.keep = a.keep /\ s.msg = a.msg /\ s.checksum = a.checksum
      /\ s.inKey = a.inKey /\ s.outKey = a.outKey /\ s.clientAuth = a.clientAuth /\ s.peerCert = a.peerCert
  BY <1>3 DEF Context, Keys, Certificates
<1> HIDE DEF s
<1>6. /\ w \in Context /\ w.state = "CERTIFICATE_VERIFY" /\ w.version = "tls12" /\ w.keep = s.keep
      /\ w.out = <<>> /\ w.result = "running" /\ w.checksum = Append(s.checksum, <<"ClientKeyExchange", body>>)
      /\ w.inKey = s.inKey /\ w.outKey = s.outKey /\ w.clientAuth = s.clientAuth /\ w.peerCert = s.peerCert
  <2> HIDE DEF body, w
  <2>1. "CERTIFICATE_VERIFY" \in StateNames /\ w = Written(s, "ClientKeyExchange", body, "CERTIFICATE_VERIFY")
    BY <1>1 DEF w
  <2>2. WrittenOf(s, "ClientKeyExchange", body, "CERTIFICATE_VERIFY", w)
    BY <1>1, <1>4, <1>5, <2>1, WrittenIs
  <2> QED
    BY <1>5, <2>2 DEF WrittenOf
<1> HIDE DEF w
<1>7. /\ Heard(w) = Heard(a) \cup {<<"ClientKeyExchange", body>>}
      /\ \A t : HeardAny(w, t) <=> HeardAny(a, t) \/ t = "ClientKeyExchange"
  <2>1. Longer(a, w, "ClientKeyExchange", body)
    BY <1>1, <1>3, <1>4, <1>5, <1>6, HeardMore
  <2> QED
    BY <2>1 DEF Longer
<1>8. ClientKnows(w)
  <2>1. Client12Knows(w)
    BY <1>1, <1>2, <1>3, <1>5, <1>6, <1>7 DEF Client12Knows, ClientKnows
  <2> QED
    BY <2>1, <1>3, <1>5, <1>6, <1>7 DEF ClientKnows, EndKnows
<1>9. ~ Said("client", a) /\ Steady("client", a, w) /\ Settled("client", a, w)
  BY <1>3, <1>5, <1>6 DEF Steady, Settled, Said, ClientSaid, Done, ClientDone, Last
<1>10. r \in Record /\ r.type = "ClientKeyExchange" /\ r.body = body
       /\ ("ClientKeyExchange" \in Bound => r.covers = s.checksum)
  <2> HIDE DEF body
  <2> QED
    BY <1>1, <1>4, <1>5, SealIs
<1> HIDE DEF r
<1>11. Real("client", r)
  BY <1>1, <1>3, <1>10 DEF Real, Bound
<1>13. Fits("client", w)
  BY <1>6, <1>8, <1>9 DEF Fits, Knows
<1>14. s.keep => ssl["client"].keep /\ s.msg = ssl["client"].msg
  BY <1>5
<1> QED
  BY <1>1, <1>2, <1>3, <1>4, <1>5, <1>9, <1>11, <1>13, <1>14, WriteIs DEF w, r

\* The TLS 1.2 client only goes on, from CERTIFICATE_VERIFY
\* to CLIENT_CHANGE_CIPHER_SPEC.
LEMMA NotSigned12Keeps ==
    ASSUME IInv, tls12_write_certificate_verify,
           ~ (ssl["client"].clientAuth /\ setup.cert["client"] # "empty")
    PROVE  IInv'
<1> DEFINE a == ssl["client"]
           b == [ssl["client"] EXCEPT !.state = "CLIENT_CHANGE_CIPHER_SPEC"]
<1>1. /\ "client" \in Ends /\ "tls12" \in Versions /\ "CLIENT_CHANGE_CIPHER_SPEC" \in Client12States
      /\ Client12States \subseteq StateNames
  BY DEF Ends, Versions, StateNames, Client12States
<1>2. At("client", "tls12", "CERTIFICATE_VERIFY") /\ Become("client", b)
  BY Steps12 DEF tls12_write_certificate_verify, Skip12, Go
<1>3. /\ a \in Context /\ ClientKnows(a) /\ Client12Knows(a) /\ a.out = <<>> /\ a.result = "running"
      /\ a.version = "tls12" /\ a.state = "CERTIFICATE_VERIFY" /\ setup \in Setup
  BY <1>1, <1>2, AtIs DEF Knows, ClientKnows
<1>4. /\ b \in Context /\ b.state = "CLIENT_CHANGE_CIPHER_SPEC" /\ b.version = "tls12" /\ b.keep = a.keep
      /\ b.msg = a.msg /\ b.out = <<>> /\ b.result = "running" /\ b.checksum = a.checksum
      /\ b.inKey = a.inKey /\ b.outKey = a.outKey /\ b.clientAuth = a.clientAuth /\ b.peerCert = a.peerCert
  BY <1>1, <1>3 DEF Context, Keys
<1> HIDE DEF b
<1>5. Heard(b) = Heard(a) /\ \A t : HeardAny(b, t) <=> HeardAny(a, t)
  BY <1>4, HeardSame
<1>6. ClientKnows(b)
  <2>1. Client12Knows(b)
    BY <1>1, <1>2, <1>3, <1>4, <1>5 DEF Client12Knows, ClientKnows
  <2> QED
    BY <2>1, <1>3, <1>4, <1>5 DEF ClientKnows, EndKnows
<1>7. Steady("client", a, b) /\ Settled("client", a, b)
  BY <1>3, <1>4 DEF Steady, Settled, Said, ClientSaid, Done, ClientDone, Last
<1>8. Fits("client", b)
  BY <1>4, <1>6, <1>7 DEF Fits, Knows
<1> QED
  BY <1>1, <1>2, <1>3, <1>4, <1>7, <1>8, BecomeIs

\* The TLS 1.2 client writes a CertificateVerify in CERTIFICATE_VERIFY.
LEMMA ClientCertificateVerify12Keeps ==
    ASSUME IInv, tls12_write_certificate_verify,
           ssl["client"].clientAuth /\ setup.cert["client"] # "empty"
    PROVE  IInv'
<1> DEFINE a == ssl["client"]
           s == ssl["client"]
           body == "client"
           w == Written(s, "CertificateVerify", body, "CLIENT_CHANGE_CIPHER_SPEC")
           r == Seal(s, "CertificateVerify", body)
<1>1. /\ "client" \in Ends /\ "tls12" \in Versions /\ "CLIENT_CHANGE_CIPHER_SPEC" \in Client12States
      /\ Client12States \subseteq StateNames /\ "CertificateVerify" \in MessageTypes
  BY DEF Ends, Versions, StateNames, Client12States, MessageTypes, AnyMessage
<1>2. At("client", "tls12", "CERTIFICATE_VERIFY") /\ Write("client", s, "CertificateVerify", body, "CLIENT_CHANGE_CIPHER_SPEC")
  BY Steps12 DEF tls12_write_certificate_verify, Write12, Skip12
<1>3. /\ a \in Context /\ ClientKnows(a) /\ Client12Knows(a) /\ a.out = <<>> /\ a.result = "running"
      /\ a.version = "tls12" /\ a.state = "CERTIFICATE_VERIFY" /\ setup \in Setup /\ Genuine("client")
  BY <1>1, <1>2, AtIs, EndAt DEF Knows, ClientKnows
<1>4. body \in Bodies
  BY <1>1, <1>3 DEF Bodies, Ends, Setup
<1>5. /\ s \in Context /\ s.out = <<>> /\ s.result = "running" /\ s.version = "tls12"
      /\ s.keep = a.keep /\ s.msg = a.msg /\ s.checksum = a.checksum
      /\ s.inKey = a.inKey /\ s.outKey = a.outKey /\ s.clientAuth = a.clientAuth /\ s.peerCert = a.peerCert
  BY <1>3 DEF Context, Keys, Certificates
<1> HIDE DEF s
<1>6. /\ w \in Context /\ w.state = "CLIENT_CHANGE_CIPHER_SPEC" /\ w.version = "tls12" /\ w.keep = s.keep
      /\ w.out = <<>> /\ w.result = "running" /\ w.checksum = Append(s.checksum, <<"CertificateVerify", body>>)
      /\ w.inKey = s.inKey /\ w.outKey = s.outKey /\ w.clientAuth = s.clientAuth /\ w.peerCert = s.peerCert
  <2> HIDE DEF body, w
  <2>1. "CLIENT_CHANGE_CIPHER_SPEC" \in StateNames /\ w = Written(s, "CertificateVerify", body, "CLIENT_CHANGE_CIPHER_SPEC")
    BY <1>1 DEF w
  <2>2. WrittenOf(s, "CertificateVerify", body, "CLIENT_CHANGE_CIPHER_SPEC", w)
    BY <1>1, <1>4, <1>5, <2>1, WrittenIs
  <2> QED
    BY <1>5, <2>2 DEF WrittenOf
<1> HIDE DEF w
<1>7. /\ Heard(w) = Heard(a) \cup {<<"CertificateVerify", body>>}
      /\ \A t : HeardAny(w, t) <=> HeardAny(a, t) \/ t = "CertificateVerify"
  <2>1. Longer(a, w, "CertificateVerify", body)
    BY <1>1, <1>3, <1>4, <1>5, <1>6, HeardMore
  <2> QED
    BY <2>1 DEF Longer
<1>8. ClientKnows(w)
  <2>1. Client12Knows(w)
    BY <1>1, <1>2, <1>3, <1>5, <1>6, <1>7 DEF Client12Knows, ClientKnows
  <2> QED
    BY <2>1, <1>3, <1>5, <1>6, <1>7 DEF ClientKnows, EndKnows
<1>9. ~ Said("client", a) /\ Steady("client", a, w) /\ Settled("client", a, w)
  BY <1>3, <1>5, <1>6 DEF Steady, Settled, Said, ClientSaid, Done, ClientDone, Last
<1>10. r \in Record /\ r.type = "CertificateVerify" /\ r.body = body
       /\ ("CertificateVerify" \in Bound => r.covers = s.checksum)
  <2> HIDE DEF body
  <2> QED
    BY <1>1, <1>4, <1>5, SealIs
<1> HIDE DEF r
<1>11. Real("client", r)
  BY <1>1, <1>3, <1>10 DEF Real, Bound
<1>13. Fits("client", w)
  BY <1>6, <1>8, <1>9 DEF Fits, Knows
<1>14. s.keep => ssl["client"].keep /\ s.msg = ssl["client"].msg
  BY <1>5
<1> QED
  BY <1>1, <1>2, <1>3, <1>4, <1>5, <1>9, <1>11, <1>13, <1>14, WriteIs DEF w, r

\* The TLS 1.2 client writes a ChangeCipherSpec in CLIENT_CHANGE_CIPHER_SPEC.
LEMMA ClientCcs12Keeps ==
    ASSUME IInv, tls12_write_change_cipher_spec("client", "CLIENT_CHANGE_CIPHER_SPEC")
    PROVE  IInv'
<1> DEFINE a == ssl["client"]
           s == ssl["client"]
           body == ""
           w == Written(s, "ChangeCipherSpec", body, "CLIENT_FINISHED")
           r == Seal(s, "ChangeCipherSpec", body)
<1>1. /\ "client" \in Ends /\ "tls12" \in Versions /\ "CLIENT_FINISHED" \in Client12States
      /\ Client12States \subseteq StateNames /\ "ChangeCipherSpec" \in MessageTypes
  BY DEF Ends, Versions, StateNames, Client12States, MessageTypes, AnyMessage
<1>2. At("client", "tls12", "CLIENT_CHANGE_CIPHER_SPEC") /\ Write("client", s, "ChangeCipherSpec", body, "CLIENT_FINISHED")
  BY Steps12 DEF tls12_write_change_cipher_spec, Write12
<1>3. /\ a \in Context /\ ClientKnows(a) /\ Client12Knows(a) /\ a.out = <<>> /\ a.result = "running"
      /\ a.version = "tls12" /\ a.state = "CLIENT_CHANGE_CIPHER_SPEC" /\ setup \in Setup /\ Genuine("client")
  BY <1>1, <1>2, AtIs, EndAt DEF Knows, ClientKnows
<1>4. body \in Bodies
  BY <1>1, <1>3 DEF Bodies, Ends, Setup
<1>5. /\ s \in Context /\ s.out = <<>> /\ s.result = "running" /\ s.version = "tls12"
      /\ s.keep = a.keep /\ s.msg = a.msg /\ s.checksum = a.checksum
      /\ s.inKey = a.inKey /\ s.outKey = a.outKey /\ s.clientAuth = a.clientAuth /\ s.peerCert = a.peerCert
  BY <1>3 DEF Context, Keys, Certificates
<1> HIDE DEF s
<1>6. /\ w \in Context /\ w.state = "CLIENT_FINISHED" /\ w.version = "tls12" /\ w.keep = s.keep
      /\ w.out = <<>> /\ w.result = "running" /\ w.checksum = s.checksum
      /\ w.inKey = s.inKey /\ w.outKey = s.outKey /\ w.clientAuth = s.clientAuth /\ w.peerCert = s.peerCert
  <2> HIDE DEF body, w
  <2>1. "CLIENT_FINISHED" \in StateNames /\ w = Written(s, "ChangeCipherSpec", body, "CLIENT_FINISHED")
    BY <1>1 DEF w
  <2>2. WrittenOf(s, "ChangeCipherSpec", body, "CLIENT_FINISHED", w)
    BY <1>1, <1>4, <1>5, <2>1, WrittenIs
  <2> QED
    BY <1>5, <2>2 DEF WrittenOf
<1> HIDE DEF w
<1>7. Heard(w) = Heard(a) /\ \A t : HeardAny(w, t) <=> HeardAny(a, t)
  BY <1>5, <1>6, HeardSame
<1>8. ClientKnows(w)
  <2>1. Client12Knows(w)
    BY <1>1, <1>2, <1>3, <1>5, <1>6, <1>7 DEF Client12Knows, ClientKnows
  <2> QED
    BY <2>1, <1>3, <1>5, <1>6, <1>7 DEF ClientKnows, EndKnows
<1>9. ~ Said("client", a) /\ Steady("client", a, w) /\ Settled("client", a, w)
  BY <1>3, <1>5, <1>6 DEF Steady, Settled, Said, ClientSaid, Done, ClientDone, Last
<1>10. r \in Record /\ r.type = "ChangeCipherSpec" /\ r.body = body
       /\ ("ChangeCipherSpec" \in Bound => r.covers = s.checksum)
  <2> HIDE DEF body
  <2> QED
    BY <1>1, <1>4, <1>5, SealIs
<1> HIDE DEF r
<1>11. Real("client", r)
  BY <1>1, <1>3, <1>10 DEF Real, Bound
<1>13. Fits("client", w)
  BY <1>6, <1>8, <1>9 DEF Fits, Knows
<1>14. s.keep => ssl["client"].keep /\ s.msg = ssl["client"].msg
  BY <1>5
<1> QED
  BY <1>1, <1>2, <1>3, <1>4, <1>5, <1>9, <1>11, <1>13, <1>14, WriteIs DEF w, r

\* The TLS 1.2 client writes a Finished in CLIENT_FINISHED.
LEMMA ClientFinished12Keeps ==
    ASSUME IInv, tls12_write_finished("client", "CLIENT_FINISHED")
    PROVE  IInv'
<1> DEFINE a == ssl["client"]
           s == [ssl["client"] EXCEPT !.outKey = "session"]
           body == "client"
           w == Written(s, "Finished", body, "SERVER_CHANGE_CIPHER_SPEC")
           r == Seal(s, "Finished", body)
<1>1. /\ "client" \in Ends /\ "tls12" \in Versions /\ "SERVER_CHANGE_CIPHER_SPEC" \in Client12States
      /\ Client12States \subseteq StateNames /\ "Finished" \in MessageTypes
  BY DEF Ends, Versions, StateNames, Client12States, MessageTypes, AnyMessage
<1>2. At("client", "tls12", "CLIENT_FINISHED") /\ Write("client", s, "Finished", body, "SERVER_CHANGE_CIPHER_SPEC")
  BY Steps12 DEF tls12_write_finished
<1>3. /\ a \in Context /\ ClientKnows(a) /\ Client12Knows(a) /\ a.out = <<>> /\ a.result = "running"
      /\ a.version = "tls12" /\ a.state = "CLIENT_FINISHED" /\ setup \in Setup /\ Genuine("client")
  BY <1>1, <1>2, AtIs, EndAt DEF Knows, ClientKnows
<1>4. body \in Bodies
  BY <1>1, <1>3 DEF Bodies, Ends, Setup
<1>5. /\ s \in Context /\ s.out = <<>> /\ s.result = "running" /\ s.version = "tls12"
      /\ s.keep = a.keep /\ s.msg = a.msg /\ s.checksum = a.checksum
      /\ s.inKey = a.inKey /\ s.outKey = "session" /\ s.clientAuth = a.clientAuth /\ s.peerCert = a.peerCert
  BY <1>3 DEF Context, Keys, Certificates
<1> HIDE DEF s
<1>6. /\ w \in Context /\ w.state = "SERVER_CHANGE_CIPHER_SPEC" /\ w.version = "tls12" /\ w.keep = s.keep
      /\ w.out = <<>> /\ w.result = "running" /\ w.checksum = Append(s.checksum, <<"Finished", body>>)
      /\ w.inKey = s.inKey /\ w.outKey = s.outKey /\ w.clientAuth = s.clientAuth /\ w.peerCert = s.peerCert
  <2> HIDE DEF body, w
  <2>1. "SERVER_CHANGE_CIPHER_SPEC" \in StateNames /\ w = Written(s, "Finished", body, "SERVER_CHANGE_CIPHER_SPEC")
    BY <1>1 DEF w
  <2>2. WrittenOf(s, "Finished", body, "SERVER_CHANGE_CIPHER_SPEC", w)
    BY <1>1, <1>4, <1>5, <2>1, WrittenIs
  <2> QED
    BY <1>5, <2>2 DEF WrittenOf
<1> HIDE DEF w
<1>7. /\ Heard(w) = Heard(a) \cup {<<"Finished", body>>}
      /\ \A t : HeardAny(w, t) <=> HeardAny(a, t) \/ t = "Finished"
  <2>1. Longer(a, w, "Finished", body)
    BY <1>1, <1>3, <1>4, <1>5, <1>6, HeardMore
  <2> QED
    BY <2>1 DEF Longer
<1>8. ClientKnows(w)
  <2>1. Client12Knows(w)
    BY <1>1, <1>2, <1>3, <1>5, <1>6, <1>7 DEF Client12Knows, ClientKnows
  <2> QED
    BY <2>1, <1>3, <1>5, <1>6, <1>7 DEF ClientKnows, EndKnows
<1>9. ~ Said("client", a) /\ Steady("client", a, w) /\ Settled("client", a, w)
  BY <1>3, <1>5, <1>6 DEF Steady, Settled, Said, ClientSaid, Done, ClientDone, Last
<1>10. r \in Record /\ r.type = "Finished" /\ r.body = body
       /\ ("Finished" \in Bound => r.covers = s.checksum)
  <2> HIDE DEF body
  <2> QED
    BY <1>1, <1>4, <1>5, SealIs
<1> HIDE DEF r
<1>11. Real("client", r)
  BY <1>1, <1>3, <1>10 DEF Real, Bound
<1>12. Vouches("client", w, r)
  <2>1. r.covers = a.checksum /\ In(r.covers) = Heard(a)
    BY <1>5, <1>10 DEF Bound, Heard
  <2> QED
    BY <2>1, <1>3, <1>5, <1>6 DEF Vouches, Said, ClientSaid, Last, Client12Knows,
       HeardAny
<1>13. Fits("client", w)
  BY <1>6, <1>8, <1>9 DEF Fits, Knows
<1>14. s.keep => ssl["client"].keep /\ s.msg = ssl["client"].msg
  BY <1>5
<1> QED
  BY <1>1, <1>2, <1>3, <1>4, <1>5, <1>9, <1>11, <1>12, <1>13, <1>14, WriteIs DEF w, r

\* The TLS 1.2 client only goes on, from SERVER_CHANGE_CIPHER_SPEC
\* to NEW_SESSION_TICKET.
LEMMA AwaitTicketKeeps ==
    ASSUME IInv, tls12_await_ticket
    PROVE  IInv'
<1> DEFINE a == ssl["client"]
           b == [ssl["client"] EXCEPT !.state = "NEW_SESSION_TICKET"]
<1>1. /\ "client" \in Ends /\ "tls12" \in Versions /\ "NEW_SESSION_TICKET" \in Client12States
      /\ Client12States \subseteq StateNames
  BY DEF Ends, Versions, StateNames, Client12States
<1>2. At("client", "tls12", "SERVER_CHANGE_CIPHER_SPEC") /\ Become("client", b)
  BY DEF tls12_await_ticket, Go
<1>3. /\ a \in Context /\ ClientKnows(a) /\ Client12Knows(a) /\ a.out = <<>> /\ a.result = "running"
      /\ a.version = "tls12" /\ a.state = "SERVER_CHANGE_CIPHER_SPEC" /\ setup \in Setup
  BY <1>1, <1>2, AtIs DEF Knows, ClientKnows
<1>4. /\ b \in Context /\ b.state = "NEW_SESSION_TICKET" /\ b.version = "tls12" /\ b.keep = a.keep
      /\ b.msg = a.msg /\ b.out = <<>> /\ b.result = "running" /\ b.checksum = a.checksum
      /\ b.inKey = a.inKey /\ b.outKey = a.outKey /\ b.clientAuth = a.clientAuth /\ b.peerCert = a.peerCert
  BY <1>1, <1>3 DEF Context, Keys
<1> HIDE DEF b
<1>5. Heard(b) = Heard(a) /\ \A t : HeardAny(b, t) <=> HeardAny(a, t)
  BY <1>4, HeardSame
<1>6. ClientKnows(b)
  <2>1. Client12Knows(b)
    BY <1>1, <1>2, <1>3, <1>4, <1>5 DEF Client12Knows, ClientKnows
  <2> QED
    BY <2>1, <1>3, <1>4, <1>5 DEF ClientKnows, EndKnows
<1>7. Steady("client", a, b) /\ Settled("client", a, b)
  BY <1>3, <1>4 DEF Steady, Settled, Said, ClientSaid, Done, ClientDone, Last
<1>8. Fits("client", b)
  BY <1>4, <1>6, <1>7 DEF Fits, Knows
<1> QED
  BY <1>1, <1>2, <1>3, <1>4, <1>7, <1>8, BecomeIs

\* The TLS 1.2 client takes a NewSessionTicket in NEW_SESSION_TICKET.
LEMMA TicketRead12Keeps ==
    ASSUME IInv, tls12_parse_new_session_ticket
    PROVE  IInv'
<1> DEFINE a == ssl["client"]
           s == [Hash12("client") EXCEPT !.newTicket = FALSE]
           b == [s EXCEPT !.state = "SERVER_CHANGE_CIPHER_SPEC"]
<1>1. /\ "client" \in Ends /\ "tls12" \in Versions /\ "SERVER_CHANGE_CIPHER_SPEC" \in Client12States
      /\ Client12States \subseteq StateNames
  BY DEF Ends, Versions, StateNames, Client12States
<1>2. Reads("client", "tls12", "NEW_SESSION_TICKET") /\ Accept("client", s, "SERVER_CHANGE_CIPHER_SPEC")
  BY <1>1 DEF tls12_parse_new_session_ticket
<1>3. /\ a \in Context /\ ClientKnows(a) /\ Client12Knows(a) /\ a.out = <<>> /\ a.result = "running"
      /\ a.version = "tls12" /\ a.state = "NEW_SESSION_TICKET" /\ Running("client") /\ Has("client")
      /\ Got("client").type \in MessageTypes /\ Got("client").body \in Bodies /\ setup \in Setup
      /\ Got("client").type = "NewSessionTicket" /\ Real(Other("client"), Got("client"))
  BY <1>1, <1>2, ReadIs, Takes12Are DEF Knows, ClientKnows
<1>10. ~ a.keep
  BY <1>3 DEF Client12Knows
<1>5. /\ s \in Context /\ s.out = <<>> /\ s.result = "running" /\ ~ s.keep /\ s.version = "tls12"
      /\ s.checksum = Append(a.checksum, <<Got("client").type, Got("client").body>>)
      /\ s.inKey = a.inKey /\ s.outKey = a.outKey /\ s.clientAuth = a.clientAuth /\ s.peerCert = a.peerCert
  BY <1>3, Hash12Is, <1>10 DEF Context
<1>6. /\ b.state = "SERVER_CHANGE_CIPHER_SPEC" /\ b.version = "tls12" /\ ~ b.keep /\ b.out = <<>>
      /\ b.result = "running" /\ b.checksum = s.checksum
      /\ b.inKey = s.inKey /\ b.outKey = s.outKey /\ b.clientAuth = s.clientAuth /\ b.peerCert = s.peerCert
  <2> HIDE DEF s
  <2> QED
    BY <1>5 DEF Context
<1> HIDE DEF s, b
<1>7. /\ Heard(b) = Heard(a) \cup {<<Got("client").type, Got("client").body>>}
      /\ \A t : HeardAny(b, t) <=> HeardAny(a, t) \/ t = Got("client").type
  <2>1. Longer(a, b, Got("client").type, Got("client").body)
    BY <1>3, <1>5, <1>6, HeardMore
  <2> QED
    BY <2>1 DEF Longer
<1>8. ClientKnows(b)
  <2>1. Client12Knows(b)
    BY <1>1, <1>3, <1>5, <1>6, <1>7 DEF Client12Knows, ClientKnows
  <2> QED
    BY <2>1, <1>3, <1>5, <1>6, <1>7 DEF ClientKnows, EndKnows
<1>9. Steady("client", a, b) /\ Settled("client", a, b)
  BY <1>3, <1>5, <1>6 DEF Steady, Settled, Said, ClientSaid, Done, ClientDone, Last
<1> QED
  BY <1>1, <1>2, <1>5, <1>8, <1>9, AcceptKeeps DEF b, Knows

\* The TLS 1.2 client takes a ChangeCipherSpec in SERVER_CHANGE_CIPHER_SPEC.
LEMMA ServerCcs12Keeps ==
    ASSUME IInv, tls12_parse_change_cipher_spec("client", "SERVER_CHANGE_CIPHER_SPEC")
    PROVE  IInv'
<1> DEFINE a == ssl["client"]
           s == [Unhashed("client") EXCEPT !.inKey = "session"]
           b == [s EXCEPT !.state = "SERVER_FINISHED"]
<1>1. /\ "client" \in Ends /\ "tls12" \in Versions /\ "SERVER_FINISHED" \in Client12States
      /\ Client12States \subseteq StateNames
  BY DEF Ends, Versions, StateNames, Client12States
<1>2. Reads("client", "tls12", "SERVER_CHANGE_CIPHER_SPEC") /\ Accept("client", s, "SERVER_FINISHED")
  BY <1>1, Steps12 DEF tls12_parse_change_cipher_spec
<1>3. /\ a \in Context /\ ClientKnows(a) /\ Client12Knows(a) /\ a.out = <<>> /\ a.result = "running"
      /\ a.version = "tls12" /\ a.state = "SERVER_CHANGE_CIPHER_SPEC" /\ Running("client") /\ Has("client")
      /\ Got("client").type \in MessageTypes /\ Got("client").body \in Bodies /\ setup \in Setup
      /\ Got("client").type = "ChangeCipherSpec" /\ Real(Other("client"), Got("client"))
  BY <1>1, <1>2, ReadIs, Takes12Are DEF Knows, ClientKnows
<1>5. /\ s \in Context /\ s.out = <<>> /\ s.result = "running" /\ ~ s.keep /\ s.version = "tls12"
      /\ s.checksum = a.checksum
      /\ s.inKey = "session" /\ s.outKey = a.outKey /\ s.clientAuth = a.clientAuth /\ s.peerCert = a.peerCert
  BY <1>3, UnhashedIs DEF Context, Keys
<1>6. /\ b.state = "SERVER_FINISHED" /\ b.version = "tls12" /\ ~ b.keep /\ b.out = <<>>
      /\ b.result = "running" /\ b.checksum = s.checksum
      /\ b.inKey = s.inKey /\ b.outKey = s.outKey /\ b.clientAuth = s.clientAuth /\ b.peerCert = s.peerCert
  <2> HIDE DEF s
  <2> QED
    BY <1>5 DEF Context
<1> HIDE DEF s, b
<1>7. Heard(b) = Heard(a) /\ \A t : HeardAny(b, t) <=> HeardAny(a, t)
  BY <1>5, <1>6, HeardSame
<1>8. ClientKnows(b)
  <2>1. Client12Knows(b)
    BY <1>1, <1>3, <1>5, <1>6, <1>7 DEF Client12Knows, ClientKnows
  <2> QED
    BY <2>1, <1>3, <1>5, <1>6, <1>7 DEF ClientKnows, EndKnows
<1>9. Steady("client", a, b) /\ Settled("client", a, b)
  BY <1>3, <1>5, <1>6 DEF Steady, Settled, Said, ClientSaid, Done, ClientDone, Last
<1> QED
  BY <1>1, <1>2, <1>5, <1>8, <1>9, AcceptKeeps DEF b, Knows

\* The TLS 1.2 client takes a Finished in SERVER_FINISHED.
LEMMA ServerFinished12Keeps ==
    ASSUME IInv, tls12_parse_finished("client", "SERVER_FINISHED")
    PROVE  IInv'
<1> DEFINE a == ssl["client"]
           s == Hash12("client")
           b == [s EXCEPT !.state = "FLUSH_BUFFERS"]
<1>1. /\ "client" \in Ends /\ "tls12" \in Versions /\ "FLUSH_BUFFERS" \in Client12States
      /\ Client12States \subseteq StateNames
  BY DEF Ends, Versions, StateNames, Client12States
<1>2. /\ Reads("client", "tls12", "SERVER_FINISHED")
      /\ \/ Accept("client", s, "FLUSH_BUFFERS") /\ Binds("client")
         \/ Refuse("client", "bad_finished")
  BY <1>1, Steps12 DEF tls12_parse_finished
<1>3. /\ a \in Context /\ ClientKnows(a) /\ Client12Knows(a) /\ a.out = <<>> /\ a.result = "running"
      /\ a.version = "tls12" /\ a.state = "SERVER_FINISHED" /\ Running("client") /\ Has("client")
      /\ Got("client").type \in MessageTypes /\ Got("client").body \in Bodies /\ setup \in Setup
      /\ Got("client").type = "Finished" /\ Real(Other("client"), Got("client"))
  BY <1>1, <1>2, ReadIs, Takes12Are DEF Knows, ClientKnows
<1>4. SUFFICES ASSUME Accept("client", s, "FLUSH_BUFFERS"), Binds("client")
               PROVE  IInv'
  <2>1. "bad_finished" \in Results \ {"running"}
    BY DEF Results
  <2>2. ASSUME Refuse("client", "bad_finished") PROVE IInv'
    BY <1>1, <1>3, <2>1, <2>2, RefuseKeeps
  <2> QED
    BY <1>2, <2>2
<1>10. ~ a.keep
  BY <1>3 DEF Client12Knows
<1>5. /\ s \in Context /\ s.out = <<>> /\ s.result = "running" /\ ~ s.keep /\ s.version = "tls12"
      /\ s.checksum = Append(a.checksum, <<Got("client").type, Got("client").body>>)
      /\ s.inKey = a.inKey /\ s.outKey = a.outKey /\ s.clientAuth = a.clientAuth /\ s.peerCert = a.peerCert
  BY <1>3, Hash12Is, <1>10 DEF Context
<1>6. /\ b.state = "FLUSH_BUFFERS" /\ b.version = "tls12" /\ ~ b.keep /\ b.out = <<>>
      /\ b.result = "running" /\ b.checksum = s.checksum
      /\ b.inKey = s.inKey /\ b.outKey = s.outKey /\ b.clientAuth = s.clientAuth /\ b.peerCert = s.peerCert
  <2> HIDE DEF s
  <2> QED
    BY <1>5 DEF Context
<1> HIDE DEF s, b
<1>7. /\ Heard(b) = Heard(a) \cup {<<Got("client").type, Got("client").body>>}
      /\ \A t : HeardAny(b, t) <=> HeardAny(a, t) \/ t = Got("client").type
  <2>1. Longer(a, b, Got("client").type, Got("client").body)
    BY <1>3, <1>5, <1>6, HeardMore
  <2> QED
    BY <2>1 DEF Longer
<1>8. ClientKnows(b)
  <2>1. Client12Knows(b)
    BY <1>1, <1>3, <1>4, <1>5, <1>6, <1>7 DEF Client12Knows, ClientKnows
  <2> QED
    BY <2>1, <1>3, <1>5, <1>6, <1>7 DEF ClientKnows, EndKnows
<1>9. Steady("client", a, b) /\ HasHeard("client", Other("client"))'
  <2>1. Steady("client", a, b)
    BY <1>3, <1>5, <1>6 DEF Steady, Said, ClientSaid, Last
  <2>2. ssl' = [ssl EXCEPT !["client"] = b] /\ wire' = Consumed("client")
    BY <1>4 DEF Accept, b
  <2>3. ~ a.keep
    BY <1>3 DEF Client12Knows
  <2>4. HeardAny(a, "ClientKeyExchange")
    BY <1>3 DEF Client12Knows
  <2> QED
    BY <2>1, <1>1, <1>2, <1>3, <1>4, <1>5, <1>6, <2>2, <2>3, <2>4, FinishedHeard
<1> QED
  BY <1>1, <1>2, <1>4, <1>5, <1>8, <1>9, AcceptKeeps DEF b, Knows

\* The TLS 1.2 client only goes on, from FLUSH_BUFFERS
\* to HANDSHAKE_WRAPUP.
LEMMA ClientFlush12Keeps ==
    ASSUME IInv, At("client", "tls12", "FLUSH_BUFFERS"), Go("client", "HANDSHAKE_WRAPUP")
    PROVE  IInv'
<1> DEFINE a == ssl["client"]
           b == [ssl["client"] EXCEPT !.state = "HANDSHAKE_WRAPUP"]
<1>1. /\ "client" \in Ends /\ "tls12" \in Versions /\ "HANDSHAKE_WRAPUP" \in Client12States
      /\ Client12States \subseteq StateNames
  BY DEF Ends, Versions, StateNames, Client12States
<1>2. At("client", "tls12", "FLUSH_BUFFERS") /\ Become("client", b)
  BY DEF At, Go
<1>3. /\ a \in Context /\ ClientKnows(a) /\ Client12Knows(a) /\ a.out = <<>> /\ a.result = "running"
      /\ a.version = "tls12" /\ a.state = "FLUSH_BUFFERS" /\ setup \in Setup
  BY <1>1, <1>2, AtIs DEF Knows, ClientKnows
<1>4. /\ b \in Context /\ b.state = "HANDSHAKE_WRAPUP" /\ b.version = "tls12" /\ b.keep = a.keep
      /\ b.msg = a.msg /\ b.out = <<>> /\ b.result = "running" /\ b.checksum = a.checksum
      /\ b.inKey = a.inKey /\ b.outKey = a.outKey /\ b.clientAuth = a.clientAuth /\ b.peerCert = a.peerCert
  BY <1>1, <1>3 DEF Context, Keys
<1> HIDE DEF b
<1>5. Heard(b) = Heard(a) /\ \A t : HeardAny(b, t) <=> HeardAny(a, t)
  BY <1>4, HeardSame
<1>6. ClientKnows(b)
  <2>1. Client12Knows(b)
    BY <1>1, <1>2, <1>3, <1>4, <1>5 DEF Client12Knows, ClientKnows
  <2> QED
    BY <2>1, <1>3, <1>4, <1>5 DEF ClientKnows, EndKnows
<1>7. Steady("client", a, b) /\ Settled("client", a, b)
  BY <1>3, <1>4 DEF Steady, Settled, Said, ClientSaid, Done, ClientDone, Last
<1>8. Fits("client", b)
  BY <1>4, <1>6, <1>7 DEF Fits, Knows
<1> QED
  BY <1>1, <1>2, <1>3, <1>4, <1>7, <1>8, BecomeIs

\* The TLS 1.2 client only goes on, from HANDSHAKE_WRAPUP
\* to HANDSHAKE_OVER.
LEMMA ClientWrapup12Keeps ==
    ASSUME IInv, At("client", "tls12", "HANDSHAKE_WRAPUP"), Go("client", "HANDSHAKE_OVER")
    PROVE  IInv'
<1> DEFINE a == ssl["client"]
           b == [ssl["client"] EXCEPT !.state = "HANDSHAKE_OVER"]
<1>1. /\ "client" \in Ends /\ "tls12" \in Versions /\ "HANDSHAKE_OVER" \in Client12States
      /\ Client12States \subseteq StateNames
  BY DEF Ends, Versions, StateNames, Client12States
<1>2. At("client", "tls12", "HANDSHAKE_WRAPUP") /\ Become("client", b)
  BY DEF At, Go
<1>3. /\ a \in Context /\ ClientKnows(a) /\ Client12Knows(a) /\ a.out = <<>> /\ a.result = "running"
      /\ a.version = "tls12" /\ a.state = "HANDSHAKE_WRAPUP" /\ setup \in Setup
  BY <1>1, <1>2, AtIs DEF Knows, ClientKnows
<1>4. /\ b \in Context /\ b.state = "HANDSHAKE_OVER" /\ b.version = "tls12" /\ b.keep = a.keep
      /\ b.msg = a.msg /\ b.out = <<>> /\ b.result = "running" /\ b.checksum = a.checksum
      /\ b.inKey = a.inKey /\ b.outKey = a.outKey /\ b.clientAuth = a.clientAuth /\ b.peerCert = a.peerCert
  BY <1>1, <1>3 DEF Context, Keys
<1> HIDE DEF b
<1>5. Heard(b) = Heard(a) /\ \A t : HeardAny(b, t) <=> HeardAny(a, t)
  BY <1>4, HeardSame
<1>6. ClientKnows(b)
  <2>1. Client12Knows(b)
    BY <1>1, <1>2, <1>3, <1>4, <1>5 DEF Client12Knows, ClientKnows
  <2> QED
    BY <2>1, <1>3, <1>4, <1>5 DEF ClientKnows, EndKnows
<1>7. Steady("client", a, b) /\ Settled("client", a, b)
  BY <1>3, <1>4 DEF Steady, Settled, Said, ClientSaid, Done, ClientDone, Last
<1>8. Fits("client", b)
  BY <1>4, <1>6, <1>7 DEF Fits, Knows
<1> QED
  BY <1>1, <1>2, <1>3, <1>4, <1>7, <1>8, BecomeIs

\* The TLS 1.2 server only goes on, from FLUSH_BUFFERS
\* to HANDSHAKE_WRAPUP.
LEMMA ServerFlush12Keeps ==
    ASSUME IInv, At("server", "tls12", "FLUSH_BUFFERS"), Go("server", "HANDSHAKE_WRAPUP")
    PROVE  IInv'
<1> DEFINE a == ssl["server"]
           b == [ssl["server"] EXCEPT !.state = "HANDSHAKE_WRAPUP"]
<1>1. /\ "server" \in Ends /\ "tls12" \in Versions /\ "HANDSHAKE_WRAPUP" \in Server12States
      /\ Server12States \subseteq StateNames
  BY DEF Ends, Versions, StateNames, Server12States, Client12States
<1>2. At("server", "tls12", "FLUSH_BUFFERS") /\ Become("server", b)
  BY DEF At, Go
<1>3. /\ a \in Context /\ ServerKnows(a) /\ Server12Knows(a) /\ a.out = <<>> /\ a.result = "running"
      /\ a.version = "tls12" /\ a.state = "FLUSH_BUFFERS" /\ setup \in Setup
  BY <1>1, <1>2, AtIs DEF Knows, ServerKnows
<1>4. /\ b \in Context /\ b.state = "HANDSHAKE_WRAPUP" /\ b.version = "tls12" /\ b.keep = a.keep
      /\ b.msg = a.msg /\ b.out = <<>> /\ b.result = "running" /\ b.checksum = a.checksum
      /\ b.inKey = a.inKey /\ b.outKey = a.outKey /\ b.clientAuth = a.clientAuth /\ b.peerCert = a.peerCert
  BY <1>1, <1>3 DEF Context, Keys
<1> HIDE DEF b
<1>5. Heard(b) = Heard(a) /\ \A t : HeardAny(b, t) <=> HeardAny(a, t)
  BY <1>4, HeardSame
<1>6. ServerKnows(b)
  <2>1. Server12Knows(b)
    BY <1>1, <1>2, <1>3, <1>4, <1>5 DEF Server12Knows
  <2> QED
    BY <2>1, <1>3, <1>4, <1>5 DEF ServerKnows, EndKnows
<1>7. Steady("server", a, b) /\ Settled("server", a, b)
  BY <1>3, <1>4 DEF Steady, Settled, Said, ServerSaid, Done, ServerDone, Last
<1>8. Fits("server", b)
  BY <1>4, <1>6, <1>7 DEF Fits, Knows
<1> QED
  BY <1>1, <1>2, <1>3, <1>4, <1>7, <1>8, BecomeIs

\* The TLS 1.2 server only goes on, from HANDSHAKE_WRAPUP
\* to HANDSHAKE_OVER.
LEMMA ServerWrapup12Keeps ==
    ASSUME IInv, At("server", "tls12", "HANDSHAKE_WRAPUP"), Go("server", "HANDSHAKE_OVER")
    PROVE  IInv'
<1> DEFINE a == ssl["server"]
           b == [ssl["server"] EXCEPT !.state = "HANDSHAKE_OVER"]
<1>1. /\ "server" \in Ends /\ "tls12" \in Versions /\ "HANDSHAKE_OVER" \in Server12States
      /\ Server12States \subseteq StateNames
  BY DEF Ends, Versions, StateNames, Server12States, Client12States
<1>2. At("server", "tls12", "HANDSHAKE_WRAPUP") /\ Become("server", b)
  BY DEF At, Go
<1>3. /\ a \in Context /\ ServerKnows(a) /\ Server12Knows(a) /\ a.out = <<>> /\ a.result = "running"
      /\ a.version = "tls12" /\ a.state = "HANDSHAKE_WRAPUP" /\ setup \in Setup
  BY <1>1, <1>2, AtIs DEF Knows, ServerKnows
<1>4. /\ b \in Context /\ b.state = "HANDSHAKE_OVER" /\ b.version = "tls12" /\ b.keep = a.keep
      /\ b.msg = a.msg /\ b.out = <<>> /\ b.result = "running" /\ b.checksum = a.checksum
      /\ b.inKey = a.inKey /\ b.outKey = a.outKey /\ b.clientAuth = a.clientAuth /\ b.peerCert = a.peerCert
  BY <1>1, <1>3 DEF Context, Keys
<1> HIDE DEF b
<1>5. Heard(b) = Heard(a) /\ \A t : HeardAny(b, t) <=> HeardAny(a, t)
  BY <1>4, HeardSame
<1>6. ServerKnows(b)
  <2>1. Server12Knows(b)
    BY <1>1, <1>2, <1>3, <1>4, <1>5 DEF Server12Knows
  <2> QED
    BY <2>1, <1>3, <1>4, <1>5 DEF ServerKnows, EndKnows
<1>7. Steady("server", a, b) /\ Settled("server", a, b)
  BY <1>3, <1>4 DEF Steady, Settled, Said, ServerSaid, Done, ServerDone, Last
<1>8. Fits("server", b)
  BY <1>4, <1>6, <1>7 DEF Fits, Knows
<1> QED
  BY <1>1, <1>2, <1>3, <1>4, <1>7, <1>8, BecomeIs

LEMMA Client12Keeps ==
    ASSUME IInv, Client12
    PROVE  IInv'
<1>1. CASE tls12_parse_server_hello
  BY <1>1, ServerHello12KeptKeeps, ServerHello12Keeps
<1>2. CASE tls12_parse_server_hello_done
  BY <1>2, ServerHelloDone12KeptKeeps, ServerHelloDone12Keeps
<1>3. CASE tls12_parse_server_key_exchange
  BY <1>3, NoKeyExchangeKeeps, ServerKeyExchangeKeeps DEF tls12_parse_server_key_exchange
<1>4. CASE tls12_parse_certificate_request
  BY <1>4, CertificateRequest12Keeps, NoCertificateRequest12Keeps
<1>5. CASE tls12_write_client_certificate
  BY <1>5, NotAsked12Keeps, ClientCertificate12Keeps DEF tls12_write_client_certificate
<1>6. CASE tls12_write_certificate_verify
  BY <1>6, NotSigned12Keeps, ClientCertificateVerify12Keeps
<1> QED
  BY <1>1, <1>2, <1>3, <1>4, <1>5, <1>6, ClientHello12Keeps, ServerCertificate12Keeps,
     ClientKeyExchangeKeeps, ClientCcs12Keeps, ClientFinished12Keeps, AwaitTicketKeeps,
     TicketRead12Keeps, ServerCcs12Keeps, ServerFinished12Keeps DEF Client12

-----------------------------------------------------------------------------
(* The TLS 1.2 server.                                                     *)

\* The TLS 1.2 server finds no application protocol that both ends know.
LEMMA ProtocolRefused12Keeps ==
    ASSUME IInv, tls12_parse_client_hello, NoCommonProtocol
    PROVE  IInv'
<1>1. Reads("server", "tls12", "CLIENT_HELLO") /\ Refuse("server", "no_application_protocol")
  BY DEF tls12_parse_client_hello
<1>2. /\ "server" \in Ends /\ "tls12" \in Versions
      /\ "no_application_protocol" \in Results \ {"running"}
  BY DEF Ends, Versions, Results
<1> QED
  BY <1>1, <1>2, ReadIs, RefuseKeeps

\* The TLS 1.2 server takes a ClientHello in CLIENT_HELLO.
LEMMA ClientHelloRead12Keeps ==
    ASSUME IInv, tls12_parse_client_hello, ~ NoCommonProtocol
    PROVE  IInv'
<1> DEFINE a == ssl["server"]
           s == Hash13("server")
           b == [s EXCEPT !.state = "SERVER_HELLO"]
<1>1. /\ "server" \in Ends /\ "tls12" \in Versions /\ "SERVER_HELLO" \in Server12States
      /\ Server12States \subseteq StateNames
  BY DEF Ends, Versions, StateNames, Server12States, Client12States
<1>2. Reads("server", "tls12", "CLIENT_HELLO") /\ Accept("server", s, "SERVER_HELLO")
  BY <1>1 DEF tls12_parse_client_hello
<1>3. /\ a \in Context /\ ServerKnows(a) /\ Server12Knows(a) /\ a.out = <<>> /\ a.result = "running"
      /\ a.version = "tls12" /\ a.state = "CLIENT_HELLO" /\ Running("server") /\ Has("server")
      /\ Got("server").type \in MessageTypes /\ Got("server").body \in Bodies /\ setup \in Setup
      /\ Got("server").type = "ClientHello" /\ Real(Other("server"), Got("server"))
  BY <1>1, <1>2, ReadIs, Takes12Are DEF Knows, ServerKnows
<1>5. /\ s \in Context /\ s.out = <<>> /\ s.result = "running" /\ ~ s.keep /\ s.version = "tls12"
      /\ s.checksum = Append(a.checksum, <<Got("server").type, Got("server").body>>)
      /\ s.inKey = a.inKey /\ s.outKey = a.outKey /\ s.clientAuth = a.clientAuth /\ s.peerCert = a.peerCert
  BY <1>3, Hash13Is DEF Context
<1>6. /\ b.state = "SERVER_HELLO" /\ b.version = "tls12" /\ ~ b.keep /\ b.out = <<>>
      /\ b.result = "running" /\ b.checksum = s.checksum
      /\ b.inKey = s.inKey /\ b.outKey = s.outKey /\ b.clientAuth = s.clientAuth /\ b.peerCert = s.peerCert
  <2> HIDE DEF s
  <2> QED
    BY <1>5 DEF Context
<1> HIDE DEF s, b
<1>7. /\ Heard(b) = Heard(a) \cup {<<Got("server").type, Got("server").body>>}
      /\ \A t : HeardAny(b, t) <=> HeardAny(a, t) \/ t = Got("server").type
  <2>1. Longer(a, b, Got("server").type, Got("server").body)
    BY <1>3, <1>5, <1>6, HeardMore
  <2> QED
    BY <2>1 DEF Longer
<1>8. ServerKnows(b)
  <2>1. Server12Knows(b)
    BY <1>1, <1>3, <1>5, <1>6, <1>7 DEF Server12Knows
  <2> QED
    BY <2>1, <1>3, <1>5, <1>6, <1>7 DEF ServerKnows, EndKnows
<1>9. Steady("server", a, b) /\ Settled("server", a, b)
  BY <1>3, <1>5, <1>6 DEF Steady, Settled, Said, ServerSaid, Done, ServerDone, Last
<1> QED
  BY <1>1, <1>2, <1>5, <1>8, <1>9, AcceptKeeps DEF b, Knows

\* The TLS 1.2 server writes a ServerHello in SERVER_HELLO.
LEMMA ServerHelloWritten12Keeps ==
    ASSUME IInv, tls12_write_server_hello
    PROVE  IInv'
<1> DEFINE a == ssl["server"]
           s == [ssl["server"] EXCEPT !.newTicket = setup.ticket]
           body == IF setup.serverMax = "tls13" THEN "tls12 downgraded" ELSE "tls12"
           w == Written(s, "ServerHello", body, "SERVER_CERTIFICATE")
           r == Seal(s, "ServerHello", body)
<1>1. /\ "server" \in Ends /\ "tls12" \in Versions /\ "SERVER_CERTIFICATE" \in Server12States
      /\ Server12States \subseteq StateNames /\ "ServerHello" \in MessageTypes
  BY DEF Ends, Versions, StateNames, Server12States, Client12States, MessageTypes,
     AnyMessage
<1>2. At("server", "tls12", "SERVER_HELLO") /\ Write("server", s, "ServerHello", body, "SERVER_CERTIFICATE")
  BY DEF tls12_write_server_hello
<1>3. /\ a \in Context /\ ServerKnows(a) /\ Server12Knows(a) /\ a.out = <<>> /\ a.result = "running"
      /\ a.version = "tls12" /\ a.state = "SERVER_HELLO" /\ setup \in Setup /\ Genuine("server")
  BY <1>1, <1>2, AtIs, EndAt DEF Knows, ServerKnows
<1>4. body \in Bodies
  BY <1>1, <1>3 DEF Bodies, Ends, Setup
<1>5. /\ s \in Context /\ s.out = <<>> /\ s.result = "running" /\ s.version = "tls12"
      /\ s.keep = a.keep /\ s.msg = a.msg /\ s.checksum = a.checksum
      /\ s.inKey = a.inKey /\ s.outKey = a.outKey /\ s.clientAuth = a.clientAuth /\ s.peerCert = a.peerCert
  BY <1>3 DEF Context, Keys, Certificates, Setup
<1> HIDE DEF s
<1>6. /\ w \in Context /\ w.state = "SERVER_CERTIFICATE" /\ w.version = "tls12" /\ w.keep = s.keep
      /\ w.out = <<>> /\ w.result = "running" /\ w.checksum = Append(s.checksum, <<"ServerHello", body>>)
      /\ w.inKey = s.inKey /\ w.outKey = s.outKey /\ w.clientAuth = s.clientAuth /\ w.peerCert = s.peerCert
  <2> HIDE DEF body, w
  <2>1. "SERVER_CERTIFICATE" \in StateNames /\ w = Written(s, "ServerHello", body, "SERVER_CERTIFICATE")
    BY <1>1 DEF w
  <2>2. WrittenOf(s, "ServerHello", body, "SERVER_CERTIFICATE", w)
    BY <1>1, <1>4, <1>5, <2>1, WrittenIs
  <2> QED
    BY <1>5, <2>2 DEF WrittenOf
<1> HIDE DEF w
<1>7. /\ Heard(w) = Heard(a) \cup {<<"ServerHello", body>>}
      /\ \A t : HeardAny(w, t) <=> HeardAny(a, t) \/ t = "ServerHello"
  <2>1. Longer(a, w, "ServerHello", body)
    BY <1>1, <1>3, <1>4, <1>5, <1>6, HeardMore
  <2> QED
    BY <2>1 DEF Longer
<1>8. ServerKnows(w)
  <2>1. Server12Knows(w)
    BY <1>1, <1>2, <1>3, <1>5, <1>6, <1>7 DEF Server12Knows
  <2> QED
    BY <2>1, <1>3, <1>5, <1>6, <1>7 DEF ServerKnows, EndKnows
<1>9. ~ Said("server", a) /\ Steady("server", a, w) /\ Settled("server", a, w)
  BY <1>3, <1>5, <1>6 DEF Steady, Settled, Said, ServerSaid, Done, ServerDone, Last
<1>10. r \in Record /\ r.type = "ServerHello" /\ r.body = body
       /\ ("ServerHello" \in Bound => r.covers = s.checksum)
  <2> HIDE DEF body
  <2> QED
    BY <1>1, <1>4, <1>5, SealIs
<1> HIDE DEF r
<1>11. Real("server", r)
  BY <1>1, <1>3, <1>10 DEF Real, Bound, Setup, Versions
<1>13. Fits("server", w)
  BY <1>6, <1>8, <1>9 DEF Fits, Knows
<1>14. s.keep => ssl["server"].keep /\ s.msg = ssl["server"].msg
  BY <1>5
<1> QED
  BY <1>1, <1>2, <1>3, <1>4, <1>5, <1>9, <1>11, <1>13, <1>14, WriteIs DEF w, r

\* The TLS 1.2 server writes a Certificate in SERVER_CERTIFICATE.
LEMMA ServerCertificateWritten12Keeps ==
    ASSUME IInv, tls12_write_server_certificate
    PROVE  IInv'
<1> DEFINE a == ssl["server"]
           s == ssl["server"]
           body == setup.cert["server"]
           w == Written(s, "Certificate", body, "SERVER_KEY_EXCHANGE")
           r == Seal(s, "Certificate", body)
<1>1. /\ "server" \in Ends /\ "tls12" \in Versions /\ "SERVER_KEY_EXCHANGE" \in Server12States
      /\ Server12States \subseteq StateNames /\ "Certificate" \in MessageTypes
  BY DEF Ends, Versions, StateNames, Server12States, Client12States, MessageTypes,
     AnyMessage
<1>2. At("server", "tls12", "SERVER_CERTIFICATE") /\ Write("server", s, "Certificate", body, "SERVER_KEY_EXCHANGE")
  BY Steps12 DEF tls12_write_server_certificate, Write12
<1>3. /\ a \in Context /\ ServerKnows(a) /\ Server12Knows(a) /\ a.out = <<>> /\ a.result = "running"
      /\ a.version = "tls12" /\ a.state = "SERVER_CERTIFICATE" /\ setup \in Setup /\ Genuine("server")
  BY <1>1, <1>2, AtIs, EndAt DEF Knows, ServerKnows
<1>4. body \in Bodies
  BY <1>1, <1>3 DEF Bodies, Ends, Setup
<1>5. /\ s \in Context /\ s.out = <<>> /\ s.result = "running" /\ s.version = "tls12"
      /\ s.keep = a.keep /\ s.msg = a.msg /\ s.checksum = a.checksum
      /\ s.inKey = a.inKey /\ s.outKey = a.outKey /\ s.clientAuth = a.clientAuth /\ s.peerCert = a.peerCert
  BY <1>3 DEF Context, Keys, Certificates
<1> HIDE DEF s
<1>6. /\ w \in Context /\ w.state = "SERVER_KEY_EXCHANGE" /\ w.version = "tls12" /\ w.keep = s.keep
      /\ w.out = <<>> /\ w.result = "running" /\ w.checksum = Append(s.checksum, <<"Certificate", body>>)
      /\ w.inKey = s.inKey /\ w.outKey = s.outKey /\ w.clientAuth = s.clientAuth /\ w.peerCert = s.peerCert
  <2> HIDE DEF body, w
  <2>1. "SERVER_KEY_EXCHANGE" \in StateNames /\ w = Written(s, "Certificate", body, "SERVER_KEY_EXCHANGE")
    BY <1>1 DEF w
  <2>2. WrittenOf(s, "Certificate", body, "SERVER_KEY_EXCHANGE", w)
    BY <1>1, <1>4, <1>5, <2>1, WrittenIs
  <2> QED
    BY <1>5, <2>2 DEF WrittenOf
<1> HIDE DEF w
<1>7. /\ Heard(w) = Heard(a) \cup {<<"Certificate", body>>}
      /\ \A t : HeardAny(w, t) <=> HeardAny(a, t) \/ t = "Certificate"
  <2>1. Longer(a, w, "Certificate", body)
    BY <1>1, <1>3, <1>4, <1>5, <1>6, HeardMore
  <2> QED
    BY <2>1 DEF Longer
<1>8. ServerKnows(w)
  <2>1. Server12Knows(w)
    BY <1>1, <1>2, <1>3, <1>5, <1>6, <1>7 DEF Server12Knows
  <2> QED
    BY <2>1, <1>3, <1>5, <1>6, <1>7 DEF ServerKnows, EndKnows
<1>9. ~ Said("server", a) /\ Steady("server", a, w) /\ Settled("server", a, w)
  BY <1>3, <1>5, <1>6 DEF Steady, Settled, Said, ServerSaid, Done, ServerDone, Last
<1>10. r \in Record /\ r.type = "Certificate" /\ r.body = body
       /\ ("Certificate" \in Bound => r.covers = s.checksum)
  <2> HIDE DEF body
  <2> QED
    BY <1>1, <1>4, <1>5, SealIs
<1> HIDE DEF r
<1>11. Real("server", r)
  BY <1>1, <1>3, <1>10 DEF Real, Bound
<1>13. Fits("server", w)
  BY <1>6, <1>8, <1>9 DEF Fits, Knows
<1>14. s.keep => ssl["server"].keep /\ s.msg = ssl["server"].msg
  BY <1>5
<1> QED
  BY <1>1, <1>2, <1>3, <1>4, <1>5, <1>9, <1>11, <1>13, <1>14, WriteIs DEF w, r

\* The TLS 1.2 server only goes on, from SERVER_KEY_EXCHANGE
\* to CERTIFICATE_REQUEST.
LEMMA NoKeyExchangeWrittenKeeps ==
    ASSUME IInv, Skip12("server", "SERVER_KEY_EXCHANGE", setup.rsa)
    PROVE  IInv'
<1> DEFINE a == ssl["server"]
           b == [ssl["server"] EXCEPT !.state = "CERTIFICATE_REQUEST"]
<1>1. /\ "server" \in Ends /\ "tls12" \in Versions /\ "CERTIFICATE_REQUEST" \in Server12States
      /\ Server12States \subseteq StateNames
  BY DEF Ends, Versions, StateNames, Server12States, Client12States
<1>2. At("server", "tls12", "SERVER_KEY_EXCHANGE") /\ Become("server", b)
  BY Steps12 DEF Skip12, Go
<1>3. /\ a \in Context /\ ServerKnows(a) /\ Server12Knows(a) /\ a.out = <<>> /\ a.result = "running"
      /\ a.version = "tls12" /\ a.state = "SERVER_KEY_EXCHANGE" /\ setup \in Setup
  BY <1>1, <1>2, AtIs DEF Knows, ServerKnows
<1>4. /\ b \in Context /\ b.state = "CERTIFICATE_REQUEST" /\ b.version = "tls12" /\ b.keep = a.keep
      /\ b.msg = a.msg /\ b.out = <<>> /\ b.result = "running" /\ b.checksum = a.checksum
      /\ b.inKey = a.inKey /\ b.outKey = a.outKey /\ b.clientAuth = a.clientAuth /\ b.peerCert = a.peerCert
  BY <1>1, <1>3 DEF Context, Keys
<1> HIDE DEF b
<1>5. Heard(b) = Heard(a) /\ \A t : HeardAny(b, t) <=> HeardAny(a, t)
  BY <1>4, HeardSame
<1>6. ServerKnows(b)
  <2>1. Server12Knows(b)
    BY <1>1, <1>2, <1>3, <1>4, <1>5 DEF Server12Knows
  <2> QED
    BY <2>1, <1>3, <1>4, <1>5 DEF ServerKnows, EndKnows
<1>7. Steady("server", a, b) /\ Settled("server", a, b)
  BY <1>3, <1>4 DEF Steady, Settled, Said, ServerSaid, Done, ServerDone, Last
<1>8. Fits("server", b)
  BY <1>4, <1>6, <1>7 DEF Fits, Knows
<1> QED
  BY <1>1, <1>2, <1>3, <1>4, <1>7, <1>8, BecomeIs

\* The TLS 1.2 server writes a ServerKeyExchange in SERVER_KEY_EXCHANGE.
LEMMA KeyExchangeWrittenKeeps ==
    ASSUME IInv, Write12("server", "SERVER_KEY_EXCHANGE", "ServerKeyExchange", "")
    PROVE  IInv'
<1> DEFINE a == ssl["server"]
           s == ssl["server"]
           body == ""
           w == Written(s, "ServerKeyExchange", body, "CERTIFICATE_REQUEST")
           r == Seal(s, "ServerKeyExchange", body)
<1>1. /\ "server" \in Ends /\ "tls12" \in Versions /\ "CERTIFICATE_REQUEST" \in Server12States
      /\ Server12States \subseteq StateNames /\ "ServerKeyExchange" \in MessageTypes
  BY DEF Ends, Versions, StateNames, Server12States, Client12States, MessageTypes,
     AnyMessage
<1>2. At("server", "tls12", "SERVER_KEY_EXCHANGE") /\ Write("server", s, "ServerKeyExchange", body, "CERTIFICATE_REQUEST")
  BY Steps12 DEF Write12
<1>3. /\ a \in Context /\ ServerKnows(a) /\ Server12Knows(a) /\ a.out = <<>> /\ a.result = "running"
      /\ a.version = "tls12" /\ a.state = "SERVER_KEY_EXCHANGE" /\ setup \in Setup /\ Genuine("server")
  BY <1>1, <1>2, AtIs, EndAt DEF Knows, ServerKnows
<1>4. body \in Bodies
  BY <1>1, <1>3 DEF Bodies, Ends, Setup
<1>5. /\ s \in Context /\ s.out = <<>> /\ s.result = "running" /\ s.version = "tls12"
      /\ s.keep = a.keep /\ s.msg = a.msg /\ s.checksum = a.checksum
      /\ s.inKey = a.inKey /\ s.outKey = a.outKey /\ s.clientAuth = a.clientAuth /\ s.peerCert = a.peerCert
  BY <1>3 DEF Context, Keys, Certificates
<1> HIDE DEF s
<1>6. /\ w \in Context /\ w.state = "CERTIFICATE_REQUEST" /\ w.version = "tls12" /\ w.keep = s.keep
      /\ w.out = <<>> /\ w.result = "running" /\ w.checksum = Append(s.checksum, <<"ServerKeyExchange", body>>)
      /\ w.inKey = s.inKey /\ w.outKey = s.outKey /\ w.clientAuth = s.clientAuth /\ w.peerCert = s.peerCert
  <2> HIDE DEF body, w
  <2>1. "CERTIFICATE_REQUEST" \in StateNames /\ w = Written(s, "ServerKeyExchange", body, "CERTIFICATE_REQUEST")
    BY <1>1 DEF w
  <2>2. WrittenOf(s, "ServerKeyExchange", body, "CERTIFICATE_REQUEST", w)
    BY <1>1, <1>4, <1>5, <2>1, WrittenIs
  <2> QED
    BY <1>5, <2>2 DEF WrittenOf
<1> HIDE DEF w
<1>7. /\ Heard(w) = Heard(a) \cup {<<"ServerKeyExchange", body>>}
      /\ \A t : HeardAny(w, t) <=> HeardAny(a, t) \/ t = "ServerKeyExchange"
  <2>1. Longer(a, w, "ServerKeyExchange", body)
    BY <1>1, <1>3, <1>4, <1>5, <1>6, HeardMore
  <2> QED
    BY <2>1 DEF Longer
<1>8. ServerKnows(w)
  <2>1. Server12Knows(w)
    BY <1>1, <1>2, <1>3, <1>5, <1>6, <1>7 DEF Server12Knows
  <2> QED
    BY <2>1, <1>3, <1>5, <1>6, <1>7 DEF ServerKnows, EndKnows
<1>9. ~ Said("server", a) /\ Steady("server", a, w) /\ Settled("server", a, w)
  BY <1>3, <1>5, <1>6 DEF Steady, Settled, Said, ServerSaid, Done, ServerDone, Last
<1>10. r \in Record /\ r.type = "ServerKeyExchange" /\ r.body = body
       /\ ("ServerKeyExchange" \in Bound => r.covers = s.checksum)
  <2> HIDE DEF body
  <2> QED
    BY <1>1, <1>4, <1>5, SealIs
<1> HIDE DEF r
<1>11. Real("server", r)
  BY <1>1, <1>3, <1>10 DEF Real, Bound
<1>13. Fits("server", w)
  BY <1>6, <1>8, <1>9 DEF Fits, Knows
<1>14. s.keep => ssl["server"].keep /\ s.msg = ssl["server"].msg
  BY <1>5
<1> QED
  BY <1>1, <1>2, <1>3, <1>4, <1>5, <1>9, <1>11, <1>13, <1>14, WriteIs DEF w, r

\* The TLS 1.2 server only goes on, from CERTIFICATE_REQUEST
\* to SERVER_HELLO_DONE.
LEMMA NoCertificateRequestWritten12Keeps ==
    ASSUME IInv, tls12_write_certificate_request, setup.authmode["server"] = "none"
    PROVE  IInv'
<1> DEFINE a == ssl["server"]
           b == [ssl["server"] EXCEPT !.state = "SERVER_HELLO_DONE"]
<1>1. /\ "server" \in Ends /\ "tls12" \in Versions /\ "SERVER_HELLO_DONE" \in Server12States
      /\ Server12States \subseteq StateNames
  BY DEF Ends, Versions, StateNames, Server12States, Client12States
<1>2. At("server", "tls12", "CERTIFICATE_REQUEST") /\ Become("server", b)
  BY Steps12 DEF tls12_write_certificate_request, Skip12, Go
<1>3. /\ a \in Context /\ ServerKnows(a) /\ Server12Knows(a) /\ a.out = <<>> /\ a.result = "running"
      /\ a.version = "tls12" /\ a.state = "CERTIFICATE_REQUEST" /\ setup \in Setup
  BY <1>1, <1>2, AtIs DEF Knows, ServerKnows
<1>4. /\ b \in Context /\ b.state = "SERVER_HELLO_DONE" /\ b.version = "tls12" /\ b.keep = a.keep
      /\ b.msg = a.msg /\ b.out = <<>> /\ b.result = "running" /\ b.checksum = a.checksum
      /\ b.inKey = a.inKey /\ b.outKey = a.outKey /\ b.clientAuth = a.clientAuth /\ b.peerCert = a.peerCert
  BY <1>1, <1>3 DEF Context, Keys
<1> HIDE DEF b
<1>5. Heard(b) = Heard(a) /\ \A t : HeardAny(b, t) <=> HeardAny(a, t)
  BY <1>4, HeardSame
<1>6. ServerKnows(b)
  <2>1. Server12Knows(b)
    BY <1>1, <1>2, <1>3, <1>4, <1>5 DEF Server12Knows, Asked
  <2> QED
    BY <2>1, <1>3, <1>4, <1>5 DEF ServerKnows, EndKnows
<1>7. Steady("server", a, b) /\ Settled("server", a, b)
  BY <1>3, <1>4 DEF Steady, Settled, Said, ServerSaid, Done, ServerDone, Last
<1>8. Fits("server", b)
  BY <1>4, <1>6, <1>7 DEF Fits, Knows
<1> QED
  BY <1>1, <1>2, <1>3, <1>4, <1>7, <1>8, BecomeIs

\* The TLS 1.2 server writes a CertificateRequest in CERTIFICATE_REQUEST.
LEMMA CertificateRequestWritten12Keeps ==
    ASSUME IInv, tls12_write_certificate_request, setup.authmode["server"] # "none"
    PROVE  IInv'
<1> DEFINE a == ssl["server"]
           s == ssl["server"]
           body == ""
           w == Written(s, "CertificateRequest", body, "SERVER_HELLO_DONE")
           r == Seal(s, "CertificateRequest", body)
<1>1. /\ "server" \in Ends /\ "tls12" \in Versions /\ "SERVER_HELLO_DONE" \in Server12States
      /\ Server12States \subseteq StateNames /\ "CertificateRequest" \in MessageTypes
  BY DEF Ends, Versions, StateNames, Server12States, Client12States, MessageTypes,
     AnyMessage
<1>2. At("server", "tls12", "CERTIFICATE_REQUEST") /\ Write("server", s, "CertificateRequest", body, "SERVER_HELLO_DONE")
  BY Steps12 DEF tls12_write_certificate_request, Skip12, Write12
<1>3. /\ a \in Context /\ ServerKnows(a) /\ Server12Knows(a) /\ a.out = <<>> /\ a.result = "running"
      /\ a.version = "tls12" /\ a.state = "CERTIFICATE_REQUEST" /\ setup \in Setup /\ Genuine("server")
  BY <1>1, <1>2, AtIs, EndAt DEF Knows, ServerKnows
<1>4. body \in Bodies
  BY <1>1, <1>3 DEF Bodies, Ends, Setup
<1>5. /\ s \in Context /\ s.out = <<>> /\ s.result = "running" /\ s.version = "tls12"
      /\ s.keep = a.keep /\ s.msg = a.msg /\ s.checksum = a.checksum
      /\ s.inKey = a.inKey /\ s.outKey = a.outKey /\ s.clientAuth = a.clientAuth /\ s.peerCert = a.peerCert
  BY <1>3 DEF Context, Keys, Certificates
<1> HIDE DEF s
<1>6. /\ w \in Context /\ w.state = "SERVER_HELLO_DONE" /\ w.version = "tls12" /\ w.keep = s.keep
      /\ w.out = <<>> /\ w.result = "running" /\ w.checksum = Append(s.checksum, <<"CertificateRequest", body>>)
      /\ w.inKey = s.inKey /\ w.outKey = s.outKey /\ w.clientAuth = s.clientAuth /\ w.peerCert = s.peerCert
  <2> HIDE DEF body, w
  <2>1. "SERVER_HELLO_DONE" \in StateNames /\ w = Written(s, "CertificateRequest", body, "SERVER_HELLO_DONE")
    BY <1>1 DEF w
  <2>2. WrittenOf(s, "CertificateRequest", body, "SERVER_HELLO_DONE", w)
    BY <1>1, <1>4, <1>5, <2>1, WrittenIs
  <2> QED
    BY <1>5, <2>2 DEF WrittenOf
<1> HIDE DEF w
<1>7. /\ Heard(w) = Heard(a) \cup {<<"CertificateRequest", body>>}
      /\ \A t : HeardAny(w, t) <=> HeardAny(a, t) \/ t = "CertificateRequest"
  <2>1. Longer(a, w, "CertificateRequest", body)
    BY <1>1, <1>3, <1>4, <1>5, <1>6, HeardMore
  <2> QED
    BY <2>1 DEF Longer
<1>8. ServerKnows(w)
  <2>1. Server12Knows(w)
    BY <1>1, <1>2, <1>3, <1>5, <1>6, <1>7 DEF Server12Knows, Asked
  <2> QED
    BY <2>1, <1>3, <1>5, <1>6, <1>7 DEF ServerKnows, EndKnows
<1>9. ~ Said("server", a) /\ Steady("server", a, w) /\ Settled("server", a, w)
  BY <1>3, <1>5, <1>6 DEF Steady, Settled, Said, ServerSaid, Done, ServerDone, Last
<1>10. r \in Record /\ r.type = "CertificateRequest" /\ r.body = body
       /\ ("CertificateRequest" \in Bound => r.covers = s.checksum)
  <2> HIDE DEF body
  <2> QED
    BY <1>1, <1>4, <1>5, SealIs
<1> HIDE DEF r
<1>11. Real("server", r)
  BY <1>1, <1>3, <1>10 DEF Real, Bound
<1>13. Fits("server", w)
  BY <1>6, <1>8, <1>9 DEF Fits, Knows
<1>14. s.keep => ssl["server"].keep /\ s.msg = ssl["server"].msg
  BY <1>5
<1> QED
  BY <1>1, <1>2, <1>3, <1>4, <1>5, <1>9, <1>11, <1>13, <1>14, WriteIs DEF w, r

\* The TLS 1.2 server writes a ServerHelloDone in SERVER_HELLO_DONE.
LEMMA ServerHelloDoneWrittenKeeps ==
    ASSUME IInv, tls12_write_server_hello_done
    PROVE  IInv'
<1> DEFINE a == ssl["server"]
           s == ssl["server"]
           body == ""
           w == Written(s, "ServerHelloDone", body, "CLIENT_CERTIFICATE")
           r == Seal(s, "ServerHelloDone", body)
<1>1. /\ "server" \in Ends /\ "tls12" \in Versions /\ "CLIENT_CERTIFICATE" \in Server12States
      /\ Server12States \subseteq StateNames /\ "ServerHelloDone" \in MessageTypes
  BY DEF Ends, Versions, StateNames, Server12States, Client12States, MessageTypes,
     AnyMessage
<1>2. At("server", "tls12", "SERVER_HELLO_DONE") /\ Write("server", s, "ServerHelloDone", body, "CLIENT_CERTIFICATE")
  BY Steps12 DEF tls12_write_server_hello_done, Write12
<1>3. /\ a \in Context /\ ServerKnows(a) /\ Server12Knows(a) /\ a.out = <<>> /\ a.result = "running"
      /\ a.version = "tls12" /\ a.state = "SERVER_HELLO_DONE" /\ setup \in Setup /\ Genuine("server")
  BY <1>1, <1>2, AtIs, EndAt DEF Knows, ServerKnows
<1>4. body \in Bodies
  BY <1>1, <1>3 DEF Bodies, Ends, Setup
<1>5. /\ s \in Context /\ s.out = <<>> /\ s.result = "running" /\ s.version = "tls12"
      /\ s.keep = a.keep /\ s.msg = a.msg /\ s.checksum = a.checksum
      /\ s.inKey = a.inKey /\ s.outKey = a.outKey /\ s.clientAuth = a.clientAuth /\ s.peerCert = a.peerCert
  BY <1>3 DEF Context, Keys, Certificates
<1> HIDE DEF s
<1>6. /\ w \in Context /\ w.state = "CLIENT_CERTIFICATE" /\ w.version = "tls12" /\ w.keep = s.keep
      /\ w.out = <<>> /\ w.result = "running" /\ w.checksum = Append(s.checksum, <<"ServerHelloDone", body>>)
      /\ w.inKey = s.inKey /\ w.outKey = s.outKey /\ w.clientAuth = s.clientAuth /\ w.peerCert = s.peerCert
  <2> HIDE DEF body, w
  <2>1. "CLIENT_CERTIFICATE" \in StateNames /\ w = Written(s, "ServerHelloDone", body, "CLIENT_CERTIFICATE")
    BY <1>1 DEF w
  <2>2. WrittenOf(s, "ServerHelloDone", body, "CLIENT_CERTIFICATE", w)
    BY <1>1, <1>4, <1>5, <2>1, WrittenIs
  <2> QED
    BY <1>5, <2>2 DEF WrittenOf
<1> HIDE DEF w
<1>7. /\ Heard(w) = Heard(a) \cup {<<"ServerHelloDone", body>>}
      /\ \A t : HeardAny(w, t) <=> HeardAny(a, t) \/ t = "ServerHelloDone"
  <2>1. Longer(a, w, "ServerHelloDone", body)
    BY <1>1, <1>3, <1>4, <1>5, <1>6, HeardMore
  <2> QED
    BY <2>1 DEF Longer
<1>8. ServerKnows(w)
  <2>1. Server12Knows(w)
    BY <1>1, <1>2, <1>3, <1>5, <1>6, <1>7 DEF Server12Knows
  <2> QED
    BY <2>1, <1>3, <1>5, <1>6, <1>7 DEF ServerKnows, EndKnows
<1>9. ~ Said("server", a) /\ Steady("server", a, w) /\ Settled("server", a, w)
  BY <1>3, <1>5, <1>6 DEF Steady, Settled, Said, ServerSaid, Done, ServerDone, Last
<1>10. r \in Record /\ r.type = "ServerHelloDone" /\ r.body = body
       /\ ("ServerHelloDone" \in Bound => r.covers = s.checksum)
  <2> HIDE DEF body
  <2> QED
    BY <1>1, <1>4, <1>5, SealIs
<1> HIDE DEF r
<1>11. Real("server", r)
  BY <1>1, <1>3, <1>10 DEF Real, Bound
<1>13. Fits("server", w)
  BY <1>6, <1>8, <1>9 DEF Fits, Knows
<1>14. s.keep => ssl["server"].keep /\ s.msg = ssl["server"].msg
  BY <1>5
<1> QED
  BY <1>1, <1>2, <1>3, <1>4, <1>5, <1>9, <1>11, <1>13, <1>14, WriteIs DEF w, r

\* The TLS 1.2 server only goes on, from CLIENT_CERTIFICATE
\* to CLIENT_KEY_EXCHANGE.
LEMMA CertificateSkippedKeeps ==
    ASSUME IInv, tls12_skip_certificate
    PROVE  IInv'
<1> DEFINE a == ssl["server"]
           b == [ssl["server"] EXCEPT !.state = "CLIENT_KEY_EXCHANGE"]
<1>1. /\ "server" \in Ends /\ "tls12" \in Versions /\ "CLIENT_KEY_EXCHANGE" \in Server12States
      /\ Server12States \subseteq StateNames
  BY DEF Ends, Versions, StateNames, Server12States, Client12States
<1>2. At("server", "tls12", "CLIENT_CERTIFICATE") /\ Become("server", b) /\ setup.authmode["server"] = "none"
  BY Steps12 DEF tls12_skip_certificate, Skip12, Go
<1>3. /\ a \in Context /\ ServerKnows(a) /\ Server12Knows(a) /\ a.out = <<>> /\ a.result = "running"
      /\ a.version = "tls12" /\ a.state = "CLIENT_CERTIFICATE" /\ setup \in Setup
  BY <1>1, <1>2, AtIs DEF Knows, ServerKnows
<1>4. /\ b \in Context /\ b.state = "CLIENT_KEY_EXCHANGE" /\ b.version = "tls12" /\ b.keep = a.keep
      /\ b.msg = a.msg /\ b.out = <<>> /\ b.result = "running" /\ b.checksum = a.checksum
      /\ b.inKey = a.inKey /\ b.outKey = a.outKey /\ b.clientAuth = a.clientAuth /\ b.peerCert = a.peerCert
  BY <1>1, <1>3 DEF Context, Keys
<1> HIDE DEF b
<1>5. Heard(b) = Heard(a) /\ \A t : HeardAny(b, t) <=> HeardAny(a, t)
  BY <1>4, HeardSame
<1>6. ServerKnows(b)
  <2>1. Server12Knows(b)
    BY <1>1, <1>2, <1>3, <1>4, <1>5 DEF Server12Knows, Required
  <2> QED
    BY <2>1, <1>3, <1>4, <1>5 DEF ServerKnows, EndKnows
<1>7. Steady("server", a, b) /\ Settled("server", a, b)
  BY <1>3, <1>4 DEF Steady, Settled, Said, ServerSaid, Done, ServerDone, Last
<1>8. Fits("server", b)
  BY <1>4, <1>6, <1>7 DEF Fits, Knows
<1> QED
  BY <1>1, <1>2, <1>3, <1>4, <1>7, <1>8, BecomeIs

\* The TLS 1.2 server takes a Certificate in CLIENT_CERTIFICATE.
LEMMA ClientCertificateRead12Keeps ==
    ASSUME IInv, tls12_parse_certificate("server", "CLIENT_CERTIFICATE")
    PROVE  IInv'
<1> DEFINE a == ssl["server"]
           s == [Hash12("server") EXCEPT !.peerCert = Got("server").body]
           b == [s EXCEPT !.state = "CLIENT_KEY_EXCHANGE"]
<1>1. /\ "server" \in Ends /\ "tls12" \in Versions /\ "CLIENT_KEY_EXCHANGE" \in Server12States
      /\ Server12States \subseteq StateNames
  BY DEF Ends, Versions, StateNames, Server12States, Client12States
<1>2. /\ Reads("server", "tls12", "CLIENT_CERTIFICATE")
      /\ \/ Accept("server", s, "CLIENT_KEY_EXCHANGE") /\ (Forgiven("server", Got("server").body) \/ setup.authmode["server"] = "optional")
         \/ Refuse("server", "no_certificate")
         \/ Quit("server", "no_certificate")
         \/ Refuse("server", "bad_certificate")
  BY <1>1, Steps12 DEF tls12_parse_certificate
<1>3. /\ a \in Context /\ ServerKnows(a) /\ Server12Knows(a) /\ a.out = <<>> /\ a.result = "running"
      /\ a.version = "tls12" /\ a.state = "CLIENT_CERTIFICATE" /\ Running("server") /\ Has("server")
      /\ Got("server").type \in MessageTypes /\ Got("server").body \in Bodies /\ setup \in Setup
      /\ Got("server").type = "Certificate" /\ Real(Other("server"), Got("server"))
  BY <1>1, <1>2, ReadIs, Takes12Are DEF Knows, ServerKnows
<1>4. SUFFICES ASSUME Accept("server", s, "CLIENT_KEY_EXCHANGE"), (Forgiven("server", Got("server").body) \/ setup.authmode["server"] = "optional")
               PROVE  IInv'
  <2>1. "no_certificate" \in Results \ {"running"} /\ "bad_certificate" \in Results \ {"running"}
    BY DEF Results
  <2>2. ASSUME Refuse("server", "no_certificate") \/ Quit("server", "no_certificate") \/ Refuse("server", "bad_certificate") PROVE IInv'
    BY <1>1, <1>3, <2>1, <2>2, RefuseKeeps
  <2> QED
    BY <1>2, <2>2
<1>10. ~ a.keep
  BY <1>3 DEF Server12Knows
<1>5. /\ s \in Context /\ s.out = <<>> /\ s.result = "running" /\ ~ s.keep /\ s.version = "tls12"
      /\ s.checksum = Append(a.checksum, <<Got("server").type, Got("server").body>>)
      /\ s.inKey = a.inKey /\ s.outKey = a.outKey /\ s.clientAuth = a.clientAuth /\ s.peerCert = Got("server").body
  BY <1>3, Hash12Is, <1>1, CertificateIs, <1>10 DEF Context
<1>6. /\ b.state = "CLIENT_KEY_EXCHANGE" /\ b.version = "tls12" /\ ~ b.keep /\ b.out = <<>>
      /\ b.result = "running" /\ b.checksum = s.checksum
      /\ b.inKey = s.inKey /\ b.outKey = s.outKey /\ b.clientAuth = s.clientAuth /\ b.peerCert = s.peerCert
  <2> HIDE DEF s
  <2> QED
    BY <1>5 DEF Context
<1> HIDE DEF s, b
<1>7. /\ Heard(b) = Heard(a) \cup {<<Got("server").type, Got("server").body>>}
      /\ \A t : HeardAny(b, t) <=> HeardAny(a, t) \/ t = Got("server").type
  <2>1. Longer(a, b, Got("server").type, Got("server").body)
    BY <1>3, <1>5, <1>6, HeardMore
  <2> QED
    BY <2>1 DEF Longer
<1>8. ServerKnows(b)
  <2>1. Server12Knows(b)
    BY <1>1, <1>3, <1>4, <1>5, <1>6, <1>7 DEF Server12Knows, Required, Forgiven
  <2> QED
    BY <2>1, <1>3, <1>5, <1>6, <1>7 DEF ServerKnows, EndKnows
<1>9. Steady("server", a, b) /\ Settled("server", a, b)
  BY <1>3, <1>5, <1>6 DEF Steady, Settled, Said, ServerSaid, Done, ServerDone, Last
<1> QED
  BY <1>1, <1>2, <1>4, <1>5, <1>8, <1>9, AcceptKeeps DEF b, Knows

\* The TLS 1.2 server takes a ClientKeyExchange in CLIENT_KEY_EXCHANGE.
LEMMA ClientKeyExchangeReadKeeps ==
    ASSUME IInv, tls12_parse_client_key_exchange
    PROVE  IInv'
<1> DEFINE a == ssl["server"]
           s == Hash12("server")
           b == [s EXCEPT !.state = "CERTIFICATE_VERIFY"]
<1>1. /\ "server" \in Ends /\ "tls12" \in Versions /\ "CERTIFICATE_VERIFY" \in Server12States
      /\ Server12States \subseteq StateNames
  BY DEF Ends, Versions, StateNames, Server12States, Client12States
<1>2. Reads("server", "tls12", "CLIENT_KEY_EXCHANGE") /\ Accept("server", s, "CERTIFICATE_VERIFY")
  BY <1>1 DEF tls12_parse_client_key_exchange
<1>3. /\ a \in Context /\ ServerKnows(a) /\ Server12Knows(a) /\ a.out = <<>> /\ a.result = "running"
      /\ a.version = "tls12" /\ a.state = "CLIENT_KEY_EXCHANGE" /\ Running("server") /\ Has("server")
      /\ Got("server").type \in MessageTypes /\ Got("server").body \in Bodies /\ setup \in Setup
      /\ Got("server").type = "ClientKeyExchange" /\ Real(Other("server"), Got("server"))
  BY <1>1, <1>2, ReadIs, Takes12Are DEF Knows, ServerKnows
<1>10. ~ a.keep
  BY <1>3 DEF Server12Knows
<1>5. /\ s \in Context /\ s.out = <<>> /\ s.result = "running" /\ ~ s.keep /\ s.version = "tls12"
      /\ s.checksum = Append(a.checksum, <<Got("server").type, Got("server").body>>)
      /\ s.inKey = a.inKey /\ s.outKey = a.outKey /\ s.clientAuth = a.clientAuth /\ s.peerCert = a.peerCert
  BY <1>3, Hash12Is, <1>10 DEF Context
<1>6. /\ b.state = "CERTIFICATE_VERIFY" /\ b.version = "tls12" /\ ~ b.keep /\ b.out = <<>>
      /\ b.result = "running" /\ b.checksum = s.checksum
      /\ b.inKey = s.inKey /\ b.outKey = s.outKey /\ b.clientAuth = s.clientAuth /\ b.peerCert = s.peerCert
  <2> HIDE DEF s
  <2> QED
    BY <1>5 DEF Context
<1> HIDE DEF s, b
<1>7. /\ Heard(b) = Heard(a) \cup {<<Got("server").type, Got("server").body>>}
      /\ \A t : HeardAny(b, t) <=> HeardAny(a, t) \/ t = Got("server").type
  <2>1. Longer(a, b, Got("server").type, Got("server").body)
    BY <1>3, <1>5, <1>6, HeardMore
  <2> QED
    BY <2>1 DEF Longer
<1>8. ServerKnows(b)
  <2>1. Server12Knows(b)
    BY <1>1, <1>3, <1>5, <1>6, <1>7 DEF Server12Knows
  <2> QED
    BY <2>1, <1>3, <1>5, <1>6, <1>7 DEF ServerKnows, EndKnows
<1>9. Steady("server", a, b) /\ Settled("server", a, b)
  BY <1>3, <1>5, <1>6 DEF Steady, Settled, Said, ServerSaid, Done, ServerDone, Last
<1> QED
  BY <1>1, <1>2, <1>5, <1>8, <1>9, AcceptKeeps DEF b, Knows

\* The TLS 1.2 server only goes on, from CERTIFICATE_VERIFY
\* to CLIENT_CHANGE_CIPHER_SPEC.
LEMMA NothingSignedKeeps ==
    ASSUME IInv, Skip12("server", "CERTIFICATE_VERIFY", ssl["server"].peerCert = "empty")
    PROVE  IInv'
<1> DEFINE a == ssl["server"]
           b == [ssl["server"] EXCEPT !.state = "CLIENT_CHANGE_CIPHER_SPEC"]
<1>1. /\ "server" \in Ends /\ "tls12" \in Versions /\ "CLIENT_CHANGE_CIPHER_SPEC" \in Server12States
      /\ Server12States \subseteq StateNames
  BY DEF Ends, Versions, StateNames, Server12States, Client12States
<1>2. At("server", "tls12", "CERTIFICATE_VERIFY") /\ Become("server", b) /\ ssl["server"].peerCert = "empty"
  BY Steps12 DEF Skip12, Go
<1>3. /\ a \in Context /\ ServerKnows(a) /\ Server12Knows(a) /\ a.out = <<>> /\ a.result = "running"
      /\ a.version = "tls12" /\ a.state = "CERTIFICATE_VERIFY" /\ setup \in Setup
  BY <1>1, <1>2, AtIs DEF Knows, ServerKnows
<1>4. /\ b \in Context /\ b.state = "CLIENT_CHANGE_CIPHER_SPEC" /\ b.version = "tls12" /\ b.keep = a.keep
      /\ b.msg = a.msg /\ b.out = <<>> /\ b.result = "running" /\ b.checksum = a.checksum
      /\ b.inKey = a.inKey /\ b.outKey = a.outKey /\ b.clientAuth = a.clientAuth /\ b.peerCert = a.peerCert
  BY <1>1, <1>3 DEF Context, Keys
<1> HIDE DEF b
<1>5. Heard(b) = Heard(a) /\ \A t : HeardAny(b, t) <=> HeardAny(a, t)
  BY <1>4, HeardSame
<1>6. ServerKnows(b)
  <2>1. Server12Knows(b)
    BY <1>1, <1>2, <1>3, <1>4, <1>5 DEF Server12Knows, Required
  <2> QED
    BY <2>1, <1>3, <1>4, <1>5 DEF ServerKnows, EndKnows
<1>7. Steady("server", a, b) /\ Settled("server", a, b)
  BY <1>3, <1>4 DEF Steady, Settled, Said, ServerSaid, Done, ServerDone, Last
<1>8. Fits("server", b)
  BY <1>4, <1>6, <1>7 DEF Fits, Knows
<1> QED
  BY <1>1, <1>2, <1>3, <1>4, <1>7, <1>8, BecomeIs

\* The TLS 1.2 server takes a CertificateVerify in CERTIFICATE_VERIFY.
LEMMA ClientCertificateVerifyRead12Keeps ==
    ASSUME IInv, Reads("server", "tls12", "CERTIFICATE_VERIFY"),
           IF Binds("server") THEN Accept("server", Hash13("server"), "CLIENT_CHANGE_CIPHER_SPEC")
           ELSE Quit("server", "bad_signature")
    PROVE  IInv'
<1> DEFINE a == ssl["server"]
           s == Hash13("server")
           b == [s EXCEPT !.state = "CLIENT_CHANGE_CIPHER_SPEC"]
<1>1. /\ "server" \in Ends /\ "tls12" \in Versions /\ "CLIENT_CHANGE_CIPHER_SPEC" \in Server12States
      /\ Server12States \subseteq StateNames
  BY DEF Ends, Versions, StateNames, Server12States, Client12States
<1>2. /\ Reads("server", "tls12", "CERTIFICATE_VERIFY")
      /\ \/ Accept("server", s, "CLIENT_CHANGE_CIPHER_SPEC")
         \/ Quit("server", "bad_signature")
  BY <1>1 DEF Reads
<1>3. /\ a \in Context /\ ServerKnows(a) /\ Server12Knows(a) /\ a.out = <<>> /\ a.result = "running"
      /\ a.version = "tls12" /\ a.state = "CERTIFICATE_VERIFY" /\ Running("server") /\ Has("server")
      /\ Got("server").type \in MessageTypes /\ Got("server").body \in Bodies /\ setup \in Setup
      /\ Got("server").type = "CertificateVerify" /\ Real(Other("server"), Got("server"))
  BY <1>1, <1>2, ReadIs, Takes12Are DEF Knows, ServerKnows
<1>4. SUFFICES ASSUME Accept("server", s, "CLIENT_CHANGE_CIPHER_SPEC")
               PROVE  IInv'
  <2>1. "bad_signature" \in Results \ {"running"}
    BY DEF Results
  <2>2. ASSUME Quit("server", "bad_signature") PROVE IInv'
    BY <1>1, <1>3, <2>1, <2>2, RefuseKeeps
  <2> QED
    BY <1>2, <2>2
<1>5. /\ s \in Context /\ s.out = <<>> /\ s.result = "running" /\ ~ s.keep /\ s.version = "tls12"
      /\ s.checksum = Append(a.checksum, <<Got("server").type, Got("server").body>>)
      /\ s.inKey = a.inKey /\ s.outKey = a.outKey /\ s.clientAuth = a.clientAuth /\ s.peerCert = a.peerCert
  BY <1>3, Hash13Is DEF Context
<1>6. /\ b.state = "CLIENT_CHANGE_CIPHER_SPEC" /\ b.version = "tls12" /\ ~ b.keep /\ b.out = <<>>
      /\ b.result = "running" /\ b.checksum = s.checksum
      /\ b.inKey = s.inKey /\ b.outKey = s.outKey /\ b.clientAuth = s.clientAuth /\ b.peerCert = s.peerCert
  <2> HIDE DEF s
  <2> QED
    BY <1>5 DEF Context
<1> HIDE DEF s, b
<1>7. /\ Heard(b) = Heard(a) \cup {<<Got("server").type, Got("server").body>>}
      /\ \A t : HeardAny(b, t) <=> HeardAny(a, t) \/ t = Got("server").type
  <2>1. Longer(a, b, Got("server").type, Got("server").body)
    BY <1>3, <1>5, <1>6, HeardMore
  <2> QED
    BY <2>1 DEF Longer
<1>8. ServerKnows(b)
  <2>1. Server12Knows(b)
    BY <1>1, <1>3, <1>5, <1>6, <1>7 DEF Server12Knows, Real, Bound, Other
  <2> QED
    BY <2>1, <1>3, <1>5, <1>6, <1>7 DEF ServerKnows, EndKnows
<1>9. Steady("server", a, b) /\ Settled("server", a, b)
  BY <1>3, <1>5, <1>6 DEF Steady, Settled, Said, ServerSaid, Done, ServerDone, Last
<1> QED
  BY <1>1, <1>2, <1>4, <1>5, <1>8, <1>9, AcceptKeeps DEF b, Knows

\* The TLS 1.2 server takes a ChangeCipherSpec in CLIENT_CHANGE_CIPHER_SPEC.
LEMMA ClientCcsRead12Keeps ==
    ASSUME IInv, tls12_parse_change_cipher_spec("server", "CLIENT_CHANGE_CIPHER_SPEC")
    PROVE  IInv'
<1> DEFINE a == ssl["server"]
           s == [Unhashed("server") EXCEPT !.inKey = "session"]
           b == [s EXCEPT !.state = "CLIENT_FINISHED"]
<1>1. /\ "server" \in Ends /\ "tls12" \in Versions /\ "CLIENT_FINISHED" \in Server12States
      /\ Server12States \subseteq StateNames
  BY DEF Ends, Versions, StateNames, Server12States, Client12States
<1>2. Reads("server", "tls12", "CLIENT_CHANGE_CIPHER_SPEC") /\ Accept("server", s, "CLIENT_FINISHED")
  BY <1>1, Steps12 DEF tls12_parse_change_cipher_spec
<1>3. /\ a \in Context /\ ServerKnows(a) /\ Server12Knows(a) /\ a.out = <<>> /\ a.result = "running"
      /\ a.version = "tls12" /\ a.state = "CLIENT_CHANGE_CIPHER_SPEC" /\ Running("server") /\ Has("server")
      /\ Got("server").type \in MessageTypes /\ Got("server").body \in Bodies /\ setup \in Setup
      /\ Got("server").type = "ChangeCipherSpec" /\ Real(Other("server"), Got("server"))
  BY <1>1, <1>2, ReadIs, Takes12Are DEF Knows, ServerKnows
<1>5. /\ s \in Context /\ s.out = <<>> /\ s.result = "running" /\ ~ s.keep /\ s.version = "tls12"
      /\ s.checksum = a.checksum
      /\ s.inKey = "session" /\ s.outKey = a.outKey /\ s.clientAuth = a.clientAuth /\ s.peerCert = a.peerCert
  BY <1>3, UnhashedIs DEF Context, Keys
<1>6. /\ b.state = "CLIENT_FINISHED" /\ b.version = "tls12" /\ ~ b.keep /\ b.out = <<>>
      /\ b.result = "running" /\ b.checksum = s.checksum
      /\ b.inKey = s.inKey /\ b.outKey = s.outKey /\ b.clientAuth = s.clientAuth /\ b.peerCert = s.peerCert
  <2> HIDE DEF s
  <2> QED
    BY <1>5 DEF Context
<1> HIDE DEF s, b
<1>7. Heard(b) = Heard(a) /\ \A t : HeardAny(b, t) <=> HeardAny(a, t)
  BY <1>5, <1>6, HeardSame
<1>8. ServerKnows(b)
  <2>1. Server12Knows(b)
    BY <1>1, <1>3, <1>5, <1>6, <1>7 DEF Server12Knows
  <2> QED
    BY <2>1, <1>3, <1>5, <1>6, <1>7 DEF ServerKnows, EndKnows
<1>9. Steady("server", a, b) /\ Settled("server", a, b)
  BY <1>3, <1>5, <1>6 DEF Steady, Settled, Said, ServerSaid, Done, ServerDone, Last
<1> QED
  BY <1>1, <1>2, <1>5, <1>8, <1>9, AcceptKeeps DEF b, Knows

\* The TLS 1.2 server takes a Finished in CLIENT_FINISHED.
LEMMA ClientFinishedRead12Keeps ==
    ASSUME IInv, tls12_parse_finished("server", "CLIENT_FINISHED")
    PROVE  IInv'
<1> DEFINE a == ssl["server"]
           s == Hash12("server")
           b == [s EXCEPT !.state = "SERVER_CHANGE_CIPHER_SPEC"]
<1>1. /\ "server" \in Ends /\ "tls12" \in Versions /\ "SERVER_CHANGE_CIPHER_SPEC" \in Server12States
      /\ Server12States \subseteq StateNames
  BY DEF Ends, Versions, StateNames, Server12States, Client12States
<1>2. /\ Reads("server", "tls12", "CLIENT_FINISHED")
      /\ \/ Accept("server", s, "SERVER_CHANGE_CIPHER_SPEC") /\ Binds("server")
         \/ Refuse("server", "bad_finished")
  BY <1>1, Steps12 DEF tls12_parse_finished
<1>3. /\ a \in Context /\ ServerKnows(a) /\ Server12Knows(a) /\ a.out = <<>> /\ a.result = "running"
      /\ a.version = "tls12" /\ a.state = "CLIENT_FINISHED" /\ Running("server") /\ Has("server")
      /\ Got("server").type \in MessageTypes /\ Got("server").body \in Bodies /\ setup \in Setup
      /\ Got("server").type = "Finished" /\ Real(Other("server"), Got("server"))
  BY <1>1, <1>2, ReadIs, Takes12Are DEF Knows, ServerKnows
<1>4. SUFFICES ASSUME Accept("server", s, "SERVER_CHANGE_CIPHER_SPEC"), Binds("server")
               PROVE  IInv'
  <2>1. "bad_finished" \in Results \ {"running"}
    BY DEF Results
  <2>2. ASSUME Refuse("server", "bad_finished") PROVE IInv'
    BY <1>1, <1>3, <2>1, <2>2, RefuseKeeps
  <2> QED
    BY <1>2, <2>2
<1>10. ~ a.keep
  BY <1>3 DEF Server12Knows
<1>5. /\ s \in Context /\ s.out = <<>> /\ s.result = "running" /\ ~ s.keep /\ s.version = "tls12"
      /\ s.checksum = Append(a.checksum, <<Got("server").type, Got("server").body>>)
      /\ s.inKey = a.inKey /\ s.outKey = a.outKey /\ s.clientAuth = a.clientAuth /\ s.peerCert = a.peerCert
  BY <1>3, Hash12Is, <1>10 DEF Context
<1>6. /\ b.state = "SERVER_CHANGE_CIPHER_SPEC" /\ b.version = "tls12" /\ ~ b.keep /\ b.out = <<>>
      /\ b.result = "running" /\ b.checksum = s.checksum
      /\ b.inKey = s.inKey /\ b.outKey = s.outKey /\ b.clientAuth = s.clientAuth /\ b.peerCert = s.peerCert
  <2> HIDE DEF s
  <2> QED
    BY <1>5 DEF Context
<1> HIDE DEF s, b
<1>7. /\ Heard(b) = Heard(a) \cup {<<Got("server").type, Got("server").body>>}
      /\ \A t : HeardAny(b, t) <=> HeardAny(a, t) \/ t = Got("server").type
  <2>1. Longer(a, b, Got("server").type, Got("server").body)
    BY <1>3, <1>5, <1>6, HeardMore
  <2> QED
    BY <2>1 DEF Longer
<1>8. ServerKnows(b)
  <2>1. Server12Knows(b)
    BY <1>1, <1>3, <1>4, <1>5, <1>6, <1>7 DEF Server12Knows
  <2> QED
    BY <2>1, <1>3, <1>5, <1>6, <1>7 DEF ServerKnows, EndKnows
<1>9. Steady("server", a, b) /\ HasHeard("server", Other("server"))'
  <2>1. Steady("server", a, b)
    BY <1>3, <1>5, <1>6 DEF Steady, Said, ServerSaid, Last
  <2>2. ssl' = [ssl EXCEPT !["server"] = b] /\ wire' = Consumed("server")
    BY <1>4 DEF Accept, b
  <2>3. ~ a.keep
    BY <1>3 DEF Server12Knows
  <2> QED
    BY <2>1, <1>1, <1>2, <1>3, <1>4, <1>5, <1>6, <2>2, <2>3, FinishedHeard
<1> QED
  BY <1>1, <1>2, <1>4, <1>5, <1>8, <1>9, AcceptKeeps DEF b, Knows

\* The TLS 1.2 server writes a NewSessionTicket in SERVER_CHANGE_CIPHER_SPEC.
LEMMA TicketWritten12Keeps ==
    ASSUME IInv, tls12_write_new_session_ticket
    PROVE  IInv'
<1> DEFINE a == ssl["server"]
           s == [ssl["server"] EXCEPT !.newTicket = FALSE]
           body == ""
           w == Written(s, "NewSessionTicket", body, "SERVER_CHANGE_CIPHER_SPEC")
           r == Seal(s, "NewSessionTicket", body)
<1>1. /\ "server" \in Ends /\ "tls12" \in Versions /\ "SERVER_CHANGE_CIPHER_SPEC" \in Server12States
      /\ Server12States \subseteq StateNames /\ "NewSessionTicket" \in MessageTypes
  BY DEF Ends, Versions, StateNames, Server12States, Client12States, MessageTypes,
     AnyMessage
<1>2. At("server", "tls12", "SERVER_CHANGE_CIPHER_SPEC") /\ Write("server", s, "NewSessionTicket", body, "SERVER_CHANGE_CIPHER_SPEC")
  BY DEF tls12_write_new_session_ticket
<1>3. /\ a \in Context /\ ServerKnows(a) /\ Server12Knows(a) /\ a.out = <<>> /\ a.result = "running"
      /\ a.version = "tls12" /\ a.state = "SERVER_CHANGE_CIPHER_SPEC" /\ setup \in Setup /\ Genuine("server")
  BY <1>1, <1>2, AtIs, EndAt DEF Knows, ServerKnows
<1>4. body \in Bodies
  BY <1>1, <1>3 DEF Bodies, Ends, Setup
<1>5. /\ s \in Context /\ s.out = <<>> /\ s.result = "running" /\ s.version = "tls12"
      /\ s.keep = a.keep /\ s.msg = a.msg /\ s.checksum = a.checksum
      /\ s.inKey = a.inKey /\ s.outKey = a.outKey /\ s.clientAuth = a.clientAuth /\ s.peerCert = a.peerCert
  BY <1>3 DEF Context, Keys, Certificates
<1> HIDE DEF s
<1>6. /\ w \in Context /\ w.state = "SERVER_CHANGE_CIPHER_SPEC" /\ w.version = "tls12" /\ w.keep = s.keep
      /\ w.out = <<>> /\ w.result = "running" /\ w.checksum = Append(s.checksum, <<"NewSessionTicket", body>>)
      /\ w.inKey = s.inKey /\ w.outKey = s.outKey /\ w.clientAuth = s.clientAuth /\ w.peerCert = s.peerCert
  <2> HIDE DEF body, w
  <2>1. "SERVER_CHANGE_CIPHER_SPEC" \in StateNames /\ w = Written(s, "NewSessionTicket", body, "SERVER_CHANGE_CIPHER_SPEC")
    BY <1>1 DEF w
  <2>2. WrittenOf(s, "NewSessionTicket", body, "SERVER_CHANGE_CIPHER_SPEC", w)
    BY <1>1, <1>4, <1>5, <2>1, WrittenIs
  <2> QED
    BY <1>5, <2>2 DEF WrittenOf
<1> HIDE DEF w
<1>7. /\ Heard(w) = Heard(a) \cup {<<"NewSessionTicket", body>>}
      /\ \A t : HeardAny(w, t) <=> HeardAny(a, t) \/ t = "NewSessionTicket"
  <2>1. Longer(a, w, "NewSessionTicket", body)
    BY <1>1, <1>3, <1>4, <1>5, <1>6, HeardMore
  <2> QED
    BY <2>1 DEF Longer
<1>8. ServerKnows(w)
  <2>1. Server12Knows(w)
    BY <1>1, <1>2, <1>3, <1>5, <1>6, <1>7 DEF Server12Knows
  <2> QED
    BY <2>1, <1>3, <1>5, <1>6, <1>7 DEF ServerKnows, EndKnows
<1>9. ~ Said("server", a) /\ Steady("server", a, w) /\ Settled("server", a, w)
  BY <1>3, <1>5, <1>6 DEF Steady, Settled, Said, ServerSaid, Done, ServerDone, Last
<1>10. r \in Record /\ r.type = "NewSessionTicket" /\ r.body = body
       /\ ("NewSessionTicket" \in Bound => r.covers = s.checksum)
  <2> HIDE DEF body
  <2> QED
    BY <1>1, <1>4, <1>5, SealIs
<1> HIDE DEF r
<1>11. Real("server", r)
  BY <1>1, <1>3, <1>10 DEF Real, Bound
<1>13. Fits("server", w)
  BY <1>6, <1>8, <1>9 DEF Fits, Knows
<1>14. s.keep => ssl["server"].keep /\ s.msg = ssl["server"].msg
  BY <1>5
<1> QED
  BY <1>1, <1>2, <1>3, <1>4, <1>5, <1>9, <1>11, <1>13, <1>14, WriteIs DEF w, r

\* The TLS 1.2 server writes a ChangeCipherSpec in SERVER_CHANGE_CIPHER_SPEC.
LEMMA ServerCcsWritten12Keeps ==
    ASSUME IInv, tls12_write_change_cipher_spec("server", "SERVER_CHANGE_CIPHER_SPEC")
    PROVE  IInv'
<1> DEFINE a == ssl["server"]
           s == ssl["server"]
           body == ""
           w == Written(s, "ChangeCipherSpec", body, "SERVER_FINISHED")
           r == Seal(s, "ChangeCipherSpec", body)
<1>1. /\ "server" \in Ends /\ "tls12" \in Versions /\ "SERVER_FINISHED" \in Server12States
      /\ Server12States \subseteq StateNames /\ "ChangeCipherSpec" \in MessageTypes
  BY DEF Ends, Versions, StateNames, Server12States, Client12States, MessageTypes,
     AnyMessage
<1>2. At("server", "tls12", "SERVER_CHANGE_CIPHER_SPEC") /\ Write("server", s, "ChangeCipherSpec", body, "SERVER_FINISHED")
  BY Steps12 DEF tls12_write_change_cipher_spec, Write12
<1>3. /\ a \in Context /\ ServerKnows(a) /\ Server12Knows(a) /\ a.out = <<>> /\ a.result = "running"
      /\ a.version = "tls12" /\ a.state = "SERVER_CHANGE_CIPHER_SPEC" /\ setup \in Setup /\ Genuine("server")
  BY <1>1, <1>2, AtIs, EndAt DEF Knows, ServerKnows
<1>4. body \in Bodies
  BY <1>1, <1>3 DEF Bodies, Ends, Setup
<1>5. /\ s \in Context /\ s.out = <<>> /\ s.result = "running" /\ s.version = "tls12"
      /\ s.keep = a.keep /\ s.msg = a.msg /\ s.checksum = a.checksum
      /\ s.inKey = a.inKey /\ s.outKey = a.outKey /\ s.clientAuth = a.clientAuth /\ s.peerCert = a.peerCert
  BY <1>3 DEF Context, Keys, Certificates
<1> HIDE DEF s
<1>6. /\ w \in Context /\ w.state = "SERVER_FINISHED" /\ w.version = "tls12" /\ w.keep = s.keep
      /\ w.out = <<>> /\ w.result = "running" /\ w.checksum = s.checksum
      /\ w.inKey = s.inKey /\ w.outKey = s.outKey /\ w.clientAuth = s.clientAuth /\ w.peerCert = s.peerCert
  <2> HIDE DEF body, w
  <2>1. "SERVER_FINISHED" \in StateNames /\ w = Written(s, "ChangeCipherSpec", body, "SERVER_FINISHED")
    BY <1>1 DEF w
  <2>2. WrittenOf(s, "ChangeCipherSpec", body, "SERVER_FINISHED", w)
    BY <1>1, <1>4, <1>5, <2>1, WrittenIs
  <2> QED
    BY <1>5, <2>2 DEF WrittenOf
<1> HIDE DEF w
<1>7. Heard(w) = Heard(a) /\ \A t : HeardAny(w, t) <=> HeardAny(a, t)
  BY <1>5, <1>6, HeardSame
<1>8. ServerKnows(w)
  <2>1. Server12Knows(w)
    BY <1>1, <1>2, <1>3, <1>5, <1>6, <1>7 DEF Server12Knows
  <2> QED
    BY <2>1, <1>3, <1>5, <1>6, <1>7 DEF ServerKnows, EndKnows
<1>9. ~ Said("server", a) /\ Steady("server", a, w) /\ Settled("server", a, w)
  BY <1>3, <1>5, <1>6 DEF Steady, Settled, Said, ServerSaid, Done, ServerDone, Last
<1>10. r \in Record /\ r.type = "ChangeCipherSpec" /\ r.body = body
       /\ ("ChangeCipherSpec" \in Bound => r.covers = s.checksum)
  <2> HIDE DEF body
  <2> QED
    BY <1>1, <1>4, <1>5, SealIs
<1> HIDE DEF r
<1>11. Real("server", r)
  BY <1>1, <1>3, <1>10 DEF Real, Bound
<1>13. Fits("server", w)
  BY <1>6, <1>8, <1>9 DEF Fits, Knows
<1>14. s.keep => ssl["server"].keep /\ s.msg = ssl["server"].msg
  BY <1>5
<1> QED
  BY <1>1, <1>2, <1>3, <1>4, <1>5, <1>9, <1>11, <1>13, <1>14, WriteIs DEF w, r

\* The TLS 1.2 server writes a Finished in SERVER_FINISHED.
LEMMA ServerFinishedWritten12Keeps ==
    ASSUME IInv, tls12_write_finished("server", "SERVER_FINISHED")
    PROVE  IInv'
<1> DEFINE a == ssl["server"]
           s == [ssl["server"] EXCEPT !.outKey = "session"]
           body == "server"
           w == Written(s, "Finished", body, "FLUSH_BUFFERS")
           r == Seal(s, "Finished", body)
<1>1. /\ "server" \in Ends /\ "tls12" \in Versions /\ "FLUSH_BUFFERS" \in Server12States
      /\ Server12States \subseteq StateNames /\ "Finished" \in MessageTypes
  BY DEF Ends, Versions, StateNames, Server12States, Client12States, MessageTypes,
     AnyMessage
<1>2. At("server", "tls12", "SERVER_FINISHED") /\ Write("server", s, "Finished", body, "FLUSH_BUFFERS")
  BY Steps12 DEF tls12_write_finished
<1>3. /\ a \in Context /\ ServerKnows(a) /\ Server12Knows(a) /\ a.out = <<>> /\ a.result = "running"
      /\ a.version = "tls12" /\ a.state = "SERVER_FINISHED" /\ setup \in Setup /\ Genuine("server")
  BY <1>1, <1>2, AtIs, EndAt DEF Knows, ServerKnows
<1>4. body \in Bodies
  BY <1>1, <1>3 DEF Bodies, Ends, Setup
<1>5. /\ s \in Context /\ s.out = <<>> /\ s.result = "running" /\ s.version = "tls12"
      /\ s.keep = a.keep /\ s.msg = a.msg /\ s.checksum = a.checksum
      /\ s.inKey = a.inKey /\ s.outKey = "session" /\ s.clientAuth = a.clientAuth /\ s.peerCert = a.peerCert
  BY <1>3 DEF Context, Keys, Certificates
<1> HIDE DEF s
<1>6. /\ w \in Context /\ w.state = "FLUSH_BUFFERS" /\ w.version = "tls12" /\ w.keep = s.keep
      /\ w.out = <<>> /\ w.result = "running" /\ w.checksum = Append(s.checksum, <<"Finished", body>>)
      /\ w.inKey = s.inKey /\ w.outKey = s.outKey /\ w.clientAuth = s.clientAuth /\ w.peerCert = s.peerCert
  <2> HIDE DEF body, w
  <2>1. "FLUSH_BUFFERS" \in StateNames /\ w = Written(s, "Finished", body, "FLUSH_BUFFERS")
    BY <1>1 DEF w
  <2>2. WrittenOf(s, "Finished", body, "FLUSH_BUFFERS", w)
    BY <1>1, <1>4, <1>5, <2>1, WrittenIs
  <2> QED
    BY <1>5, <2>2 DEF WrittenOf
<1> HIDE DEF w
<1>7. /\ Heard(w) = Heard(a) \cup {<<"Finished", body>>}
      /\ \A t : HeardAny(w, t) <=> HeardAny(a, t) \/ t = "Finished"
  <2>1. Longer(a, w, "Finished", body)
    BY <1>1, <1>3, <1>4, <1>5, <1>6, HeardMore
  <2> QED
    BY <2>1 DEF Longer
<1>8. ServerKnows(w)
  <2>1. Server12Knows(w)
    BY <1>1, <1>2, <1>3, <1>5, <1>6, <1>7 DEF Server12Knows
  <2> QED
    BY <2>1, <1>3, <1>5, <1>6, <1>7 DEF ServerKnows, EndKnows
<1>9. ~ Said("server", a) /\ Steady("server", a, w) /\ Settled("server", a, w)
  BY <1>3, <1>5, <1>6 DEF Steady, Settled, Said, ServerSaid, Done, ServerDone, Last
<1>10. r \in Record /\ r.type = "Finished" /\ r.body = body
       /\ ("Finished" \in Bound => r.covers = s.checksum)
  <2> HIDE DEF body
  <2> QED
    BY <1>1, <1>4, <1>5, SealIs
<1> HIDE DEF r
<1>11. Real("server", r)
  BY <1>1, <1>3, <1>10 DEF Real, Bound
<1>12. Vouches("server", w, r)
  <2>1. r.covers = a.checksum /\ In(r.covers) = Heard(a)
    BY <1>5, <1>10 DEF Bound, Heard
  <2> QED
    BY <2>1, <1>3, <1>5, <1>6 DEF Vouches, Said, ServerSaid, Last, Server12Knows,
       HeardAny
<1>13. Fits("server", w)
  BY <1>6, <1>8, <1>9 DEF Fits, Knows
<1>14. s.keep => ssl["server"].keep /\ s.msg = ssl["server"].msg
  BY <1>5
<1> QED
  BY <1>1, <1>2, <1>3, <1>4, <1>5, <1>9, <1>11, <1>12, <1>13, <1>14, WriteIs DEF w, r

LEMMA Server12Keeps ==
    ASSUME IInv, Server12
    PROVE  IInv'
<1>1. CASE tls12_write_server_key_exchange
  BY <1>1, NoKeyExchangeWrittenKeeps, KeyExchangeWrittenKeeps DEF tls12_write_server_key_exchange
<1>2. CASE tls12_write_certificate_request
  BY <1>2, NoCertificateRequestWritten12Keeps, CertificateRequestWritten12Keeps
<1>3. CASE tls12_parse_certificate_verify
  BY <1>3, NothingSignedKeeps, ClientCertificateVerifyRead12Keeps
     DEF tls12_parse_certificate_verify
<1> QED
  BY <1>1, <1>2, <1>3, ProtocolRefused12Keeps, ClientHelloRead12Keeps,
     ServerHelloWritten12Keeps, ServerCertificateWritten12Keeps, ServerHelloDoneWrittenKeeps, CertificateSkippedKeeps,
     ClientCertificateRead12Keeps, ClientKeyExchangeReadKeeps, ClientCcsRead12Keeps,
     ClientFinishedRead12Keeps, TicketWritten12Keeps, ServerCcsWritten12Keeps,
     ServerFinishedWritten12Keeps DEF Server12

-----------------------------------------------------------------------------
(* The invariant, and what it says.                                        *)

\* Every step of either end.
LEMMA StepKeeps ==
    ASSUME IInv, NEW e \in Ends, Step(e)
    PROVE  IInv'
<1>1. CASE tls13_handshake_wrapup(e)
  BY <1>1, Wrapup13Keeps, ServerWrapup13Keeps DEF Ends
<1>2. CASE tls12_wrapup(e)
  BY <1>2, ClientFlush12Keeps, ClientWrapup12Keeps, ServerFlush12Keeps, ServerWrapup12Keeps
     DEF Ends, tls12_wrapup
<1> QED
  BY <1>1, <1>2, FlushKeeps, HelloRequestKeeps, IgnoreKeeps, ReadFailsKeeps, PeerClosedKeeps
     DEF Step

\* A step of which nothing comes.
LEMMA StutterKeeps ==
    ASSUME IInv, UNCHANGED vars
    PROVE  IInv'
<1>1. setup' = setup /\ ssl' = ssl /\ wire' = wire /\ flights' = flights
  BY DEF vars
<1> DEFINE e == "client"
<1>2. e \in Ends /\ ssl \in [Ends -> Context] /\ wire \in [Ends -> Seq(Record)]
      /\ flights \in [Ends -> Nat]
  BY DEF IInv, Types, Ends
<1>3. /\ ssl[e] \in Context /\ Knows(e, ssl[e]) /\ Other(e) \in Ends
      /\ ssl[e].keep => Real(Other(e), ssl[e].msg)
  BY <1>2, EndAt DEF Genuine
<1>4. Sent(e)' = Sent(e) /\ Sent(Other(e))' = Sent(Other(e)) /\ ssl' = [ssl EXCEPT ![e] = ssl[e]]
  BY <1>1, <1>2 DEF Sent
<1>5. Steady(e, ssl[e], ssl[e]) /\ Settled(e, ssl[e], ssl[e])
  BY DEF Steady, Settled
<1> QED
  BY <1>1, <1>2, <1>3, <1>4, <1>5, Silent DEF Shorter

\* Where both ends begin.
LEMMA InitKnows ==
    ASSUME Init
    PROVE  IInv
<1>1. setup \in Setups /\ setup \in Setup /\ setup.clientMax \in Versions /\ setup.serverMax \in Versions
  BY SetupAssumption DEF Init, Setup
<1> DEFINE c == NewContext(setup.clientMax)
           d == NewContext(setup.serverMax)
<1>2. ssl = [client |-> c, server |-> d] /\ wire = [e \in Ends |-> <<>>]
      /\ flights = [e \in Ends |-> 0]
  BY DEF Init
<1>3. ASSUME NEW v \in Versions
      PROVE  LET s == NewContext(v)
             IN  /\ s \in Context /\ s.state = "HELLO_REQUEST" /\ s.version = v /\ s.out = <<>>
                 /\ ~ s.keep /\ s.checksum = <<>> /\ ~ s.clientAuth /\ s.result = "running"
  <2>1. /\ "HELLO_REQUEST" \in StateNames /\ "plain" \in Keys /\ "empty" \in Certificates
        /\ "running" \in Results /\ <<>> \in Seq(Record) /\ <<>> \in Seq(Entry)
        /\ NoMessage \in Record \cup {NoMessage}
    BY DEF StateNames, Client12States, Keys, Certificates, Results
  <2> QED
    BY <2>1 DEF NewContext, Context
<1> HIDE DEF c, d
<1>4. /\ c \in Context /\ c.state = "HELLO_REQUEST" /\ c.version = setup.clientMax /\ c.out = <<>>
      /\ ~ c.keep /\ c.checksum = <<>> /\ ~ c.clientAuth /\ c.result = "running"
  BY <1>1, <1>3 DEF c
<1>5. /\ d \in Context /\ d.state = "HELLO_REQUEST" /\ d.version = setup.serverMax /\ d.out = <<>>
      /\ ~ d.keep /\ d.checksum = <<>> /\ ~ d.clientAuth /\ d.result = "running"
  BY <1>1, <1>3 DEF d
<1>6. ssl["client"] = c /\ ssl["server"] = d /\ ssl \in [Ends -> Context]
  BY <1>2, <1>4, <1>5 DEF Ends
<1>7. Types
  <2>1. <<>> \in Seq(Record) /\ 0 \in Nat
    OBVIOUS
  <2> QED
    BY <1>1, <1>2, <1>6, <2>1 DEF Types
<1>8. Len(<<>>) <= 1 /\ In(<<>>) = {}
  BY DEF In
<1>9. /\ Heard(c) = {} /\ \A t : ~ HeardAny(c, t)
      /\ Heard(d) = {} /\ \A t : ~ HeardAny(d, t)
  BY <1>4, <1>5, <1>8 DEF Heard, HeardAny
<1>10. ClientKnows(ssl["client"])
  BY <1>1, <1>4, <1>6, <1>8, <1>9 DEF ClientKnows, EndKnows, Client13Knows, Client12Knows,
     Client13States, Client12States
<1>11. ServerKnows(ssl["server"])
  BY <1>1, <1>5, <1>6, <1>8, <1>9 DEF ServerKnows, EndKnows, Server13Knows, Server12Knows,
     Server13States, Server12States, Client12States
<1>12. ASSUME NEW e \in Ends
       PROVE  Genuine(e) /\ LastWord(e) /\ HasHeard(e, Other(e))
  <2>1. /\ ssl[e].out = <<>> /\ wire[e] = <<>> /\ ~ ssl[e].keep
        /\ ssl[e].state = "HELLO_REQUEST"
    BY <1>2, <1>4, <1>5, <1>6 DEF Ends
  <2>2. Sent(e) = <<>>
    BY <2>1 DEF Sent
  <2>3. ~ Done(e, ssl[e])
    BY <2>1 DEF Done, ClientDone, ServerDone
  <2>4. \A i \in 1 .. Len(Sent(e)) : FALSE
    BY <2>2
  <2> QED
    BY <2>1, <2>3, <2>4 DEF Genuine, LastWord, HasHeard
<1> QED
  BY <1>7, <1>10, <1>11, <1>12 DEF IInv

\* The invariant is inductive.
LEMMA NextKnows ==
    ASSUME IInv, [Next]_vars
    PROVE  IInv'
<1>1. "client" \in Ends /\ "server" \in Ends
  BY DEF Ends
<1>2. CASE ClientStep
  BY <1>1, <1>2, StepKeeps, Client13Keeps, Client12Keeps DEF ClientStep
<1>3. CASE ServerStep
  BY <1>1, <1>3, StepKeeps, Server13Keeps, Server12Keeps DEF ServerStep
<1>4. CASE Terminated \/ UNCHANGED vars
  BY <1>4, StutterKeeps DEF Terminated
<1> QED
  BY <1>2, <1>3, <1>4 DEF Next

\* In every reachable state both ends know what their state says, and what
\* the other one has told them.
THEOREM HandshakeInvariant == Spec => []IInv
<1>1. Init => IInv
  BY InitKnows
<1>2. IInv /\ [Next]_vars => IInv'
  BY NextKnows
<1> QED
  BY <1>1, <1>2, PTL DEF Spec

\* Every context is one the code can be in, whatever configurations meet: the
\* state is always one the dispatch function of that side and version has a
\* case for.
THEOREM HandshakeTypes == Spec => []TypeOK
<1>1. IInv => TypeOK
  <2> SUFFICES ASSUME IInv PROVE TypeOK
    OBVIOUS
  <2>1. setup \in Setups
    BY DEF IInv, Types
  <2>2. ASSUME NEW e \in Ends
        PROVE  /\ ssl[e].version \in Versions
               /\ ssl[e].state \in States[e][ssl[e].version]
               /\ {ssl[e].inKey, ssl[e].outKey} \subseteq Keys
               /\ ssl[e].peerCert \in Certificates
               /\ ssl[e].result \in Results
               /\ Len(ssl[e].out) <= 1
               /\ flights[e] \in Nat
    <3>1. ssl[e] \in Context /\ Knows(e, ssl[e]) /\ flights[e] \in Nat
      BY EndAt
    <3>2. /\ ssl[e].version \in Versions /\ ssl[e].inKey \in Keys /\ ssl[e].outKey \in Keys
          /\ ssl[e].peerCert \in Certificates /\ ssl[e].result \in Results
      BY <3>1 DEF Context
    <3>3. Len(ssl[e].out) <= 1
      BY <3>1 DEF Knows, ClientKnows, ServerKnows, EndKnows
    <3>4. ssl[e].state \in States[e][ssl[e].version]
      <4>1. CASE e = "client"
        <5>1. ClientKnows(ssl["client"])
          BY <3>1, <4>1 DEF Knows
        <5>2. CASE ssl[e].version = "tls13"
          BY <4>1, <5>1, <5>2, StatesAre DEF ClientKnows, Client13Knows
        <5>3. CASE ssl[e].version = "tls12"
          BY <4>1, <5>1, <5>3, StatesAre DEF ClientKnows, Client12Knows
        <5> QED
          BY <3>2, <5>2, <5>3 DEF Versions
      <4>2. CASE e = "server"
        <5>1. ServerKnows(ssl["server"])
          BY <3>1, <4>2 DEF Knows, Ends
        <5>2. CASE ssl[e].version = "tls13"
          BY <4>2, <5>1, <5>2, StatesAre DEF ServerKnows, Server13Knows
        <5>3. CASE ssl[e].version = "tls12"
          BY <4>2, <5>1, <5>3, StatesAre DEF ServerKnows, Server12Knows
        <5> QED
          BY <3>2, <5>2, <5>3 DEF Versions
      <4> QED
        BY <4>1, <4>2 DEF Ends
    <3> QED
      BY <3>1, <3>2, <3>3, <3>4
  <2> QED
    BY <2>1, <2>2 DEF TypeOK
<1> QED
  BY <1>1, HandshakeInvariant, PTL

\* What both ends know of each other once both are over.
LEMMA BothOver ==
    ASSUME IInv, \A e \in Ends : Over(e)
    PROVE  LET c == ssl["client"]
               s == ssl["server"]
           IN  /\ c.state = "HANDSHAKE_OVER" /\ s.state = "HANDSHAKE_OVER"
               /\ ClientKnows(c) /\ ServerKnows(s) /\ c.version = s.version
               /\ c.version \in Versions /\ c.checksum = s.checksum
               /\ Sent("client") = <<>> /\ Sent("server") = <<>>
<1> DEFINE c == ssl["client"]
           s == ssl["server"]
<1>1. "client" \in Ends /\ "server" \in Ends /\ Other("client") = "server" /\ Other("server") = "client"
  BY DEF Ends, Other
<1>2. c.state = "HANDSHAKE_OVER" /\ s.state = "HANDSHAKE_OVER"
  BY <1>1 DEF Over
<1>3. /\ ClientKnows(c) /\ ServerKnows(s) /\ c.version \in Versions
      /\ HasHeard("client", "server") /\ HasHeard("server", "client")
  BY <1>1, EndAt DEF Knows
<1>4. c.result = "running" /\ s.result = "running"
  BY <1>2, <1>3 DEF ClientKnows, ServerKnows, EndKnows
<1>5. Done("client", c) /\ Done("server", s)
  BY <1>2 DEF Done, ClientDone, ServerDone
<1>6. /\ c.version = s.version
      /\ Last("server", s) => s.checksum = c.checksum
      /\ Last("client", c) => c.checksum = s.checksum
      /\ Sent("client") = <<>> /\ Sent("server") = <<>>
  BY <1>3, <1>4, <1>5 DEF HasHeard
<1>7. c.checksum = s.checksum
  BY <1>3, <1>6 DEF Last, Versions
<1> QED
  BY <1>2, <1>3, <1>6, <1>7

\* An end that is over has nothing left to flush or to process, and when both
\* are nothing of the handshake is left for the first mbedtls_ssl_read.
THEOREM NothingLeft == Spec => []NothingLeftWhenOver
<1>1. IInv => NothingLeftWhenOver
  <2> SUFFICES ASSUME IInv PROVE NothingLeftWhenOver
    OBVIOUS
  <2>1. ASSUME NEW e \in Ends, Over(e)
        PROVE  ssl[e].out = <<>> /\ ~ ssl[e].keep
    <3>1. Knows(e, ssl[e]) /\ ssl[e].version \in Versions /\ ssl[e].state = "HANDSHAKE_OVER"
      BY <2>1, EndAt DEF Over
    <3> QED
      BY <3>1 DEF Knows, ClientKnows, ServerKnows, EndKnows, Client13Knows, Client12Knows,
         Server13Knows, Server12Knows, Versions
  <2>2. ASSUME \A e \in Ends : Over(e), NEW e \in Ends
        PROVE  wire[e] = <<>>
    <3>1. Sent(e) = <<>>
      BY <2>2, BothOver DEF Ends
    <3>2. wire[e] \in Seq(Record) /\ ssl[e].out = <<>>
      BY <2>1, <2>2, EndAt
    <3> QED
      BY <3>1, <3>2 DEF Sent
  <2> QED
    BY <2>1, <2>2 DEF NothingLeftWhenOver
<1> QED
  BY <1>1, HandshakeInvariant, PTL

\* Two ends that are over agree on the version, the highest both have, on the
\* keys of either direction, on whether the client was asked to authenticate,
\* and on every message of the handshake.
THEOREM BothAgree == Spec => []AgreeWhenOver
<1>1. IInv => AgreeWhenOver
  <2> SUFFICES ASSUME IInv, \A e \in Ends : Over(e)
               PROVE  LET c == ssl["client"]
                          s == ssl["server"]
                      IN  /\ c.version = s.version
                          /\ c.version = "tls13"
                               <=> (setup.clientMax = "tls13" /\ setup.serverMax = "tls13")
                          /\ c.outKey = s.inKey /\ s.outKey = c.inKey /\ c.outKey # "plain"
                          /\ c.clientAuth <=> setup.authmode["server"] # "none"
                          /\ c.checksum = s.checksum
    BY DEF AgreeWhenOver
  <2> DEFINE c == ssl["client"]
             s == ssl["server"]
  <2>1. /\ c.state = "HANDSHAKE_OVER" /\ s.state = "HANDSHAKE_OVER"
        /\ ClientKnows(c) /\ ServerKnows(s) /\ c.version = s.version
        /\ c.version \in Versions /\ c.checksum = s.checksum
    BY BothOver
  <2>2. HeardAny(c, "CertificateRequest") <=> HeardAny(s, "CertificateRequest")
    BY <2>1, HeardSame
  <2>3. CASE c.version = "tls13"
    <3>1. Client13Knows(c) /\ Server13Knows(s)
      BY <2>1, <2>3 DEF ClientKnows, ServerKnows
    <3>2. /\ setup.clientMax = "tls13" /\ setup.serverMax = "tls13"
          /\ c.outKey = "app" /\ c.inKey = "app" /\ s.outKey = "app" /\ s.inKey = "app"
          /\ HeardAny(s, "CertificateRequest") <=> Asked
      BY <2>1, <3>1 DEF Client13Knows, Server13Knows
    <3> QED
      BY <2>1, <2>2, <2>3, <3>2 DEF ClientKnows, Asked
  <2>4. CASE c.version = "tls12"
    <3>1. Client12Knows(c) /\ Server12Knows(s)
      BY <2>1, <2>4 DEF ClientKnows, ServerKnows
    <3>2. /\ setup.clientMax = "tls12" \/ setup.serverMax = "tls12"
          /\ c.outKey = "session" /\ c.inKey = "session"
          /\ s.outKey = "session" /\ s.inKey = "session"
          /\ HeardAny(s, "CertificateRequest") <=> Asked
      BY <2>1, <3>1 DEF Client12Knows, Server12Knows
    <3> QED
      BY <2>1, <2>2, <2>4, <3>2 DEF ClientKnows, Asked
  <2> QED
    BY <2>1, <2>3, <2>4 DEF Versions
<1> QED
  BY <1>1, HandshakeInvariant, PTL

\* An end that requires authentication is over only when its peer has shown a
\* certificate that verifies and proved to hold its key.
THEOREM Authenticated == Spec => []AuthenticatedWhenOver
<1>1. IInv => AuthenticatedWhenOver
  <2> SUFFICES ASSUME IInv, NEW e \in Ends, Over(e), setup.authmode[e] = "required"
               PROVE  ssl[e].peerCert = "good" /\ Proved(e)
    BY DEF AuthenticatedWhenOver
  <2>1. /\ Knows(e, ssl[e]) /\ ssl[e].version \in Versions /\ ssl[e].state = "HANDSHAKE_OVER"
        /\ ssl[e].checksum \in Seq(Entry)
    BY EndAt DEF Over, Context
  <2>2. /\ ssl[e].peerCert = "good"
        /\ \/ ssl[e].version = "tls12" /\ e = "client"
           \/ <<"CertificateVerify", Other(e)>> \in Heard(ssl[e])
    BY <2>1 DEF Knows, ClientKnows, ServerKnows, Client13Knows, Client12Knows, Server13Knows,
       Server12Knows, Versions, Required, Other, Ends
  <2>3. DOMAIN ssl[e].checksum = 1 .. Len(ssl[e].checksum)
    BY <2>1
  <2>4. <<"CertificateVerify", Other(e)>> \in Heard(ssl[e]) =>
          \E i \in DOMAIN ssl[e].checksum : ssl[e].checksum[i] = <<"CertificateVerify", Other(e)>>
    BY <2>3 DEF Heard, In
  <2> QED
    BY <2>2, <2>4 DEF Proved
<1> QED
  BY <1>1, HandshakeInvariant, PTL

=============================================================================
