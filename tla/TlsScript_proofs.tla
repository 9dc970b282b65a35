-------------------------- MODULE TlsScript_proofs --------------------------
(***************************************************************************)
(* The script of a handshake: every line that may be said in it, by the    *)
(* place it has, and what a step of one end is in the script.              *)
(*                                                                         *)
(* TlsHandshake_proofs shows what an end that has heard a Finished knows   *)
(* of the other.  That nothing fails but by the refusal of a certificate   *)
(* or of a list of protocols needs more: what each message is when it      *)
(* arrives, whoever is ahead.  So the two machines are followed in step    *)
(* here (InStep): the state of an end says how far in the script it is     *)
(* (Place) and, with the place, what its context is (FitsPlace); what      *)
(* lies between the two ends is exactly the lines between their places,    *)
(* in the order of the script (Lined); and the flights of                  *)
(* HandshakeFlights are counted by the place (FlightsAt).                  *)
(*                                                                         *)
(* The handlers come in a few shapes: an end writes, accepts, keeps for    *)
(* later, passes over or refuses a message, or goes on without one.  The   *)
(* last part of this module shows of each shape that it keeps the ends in  *)
(* step, given how the handler moves the place; TlsConversation_proofs     *)
(* goes through the handlers.                                              *)
(***************************************************************************)
EXTENDS TlsHandshake_proofs

-----------------------------------------------------------------------------
(* The script: every line that may be said in a handshake of either        *)
(* version, in one order, by the place it has there.  Lines 2 to 16 are of *)
(* TLS 1.3, lines 17 to 29 of TLS 1.2.                                     *)

\* The versions meet in TLS 1.2.
V12(u) == u.clientMax = "tls12" \/ u.serverMax = "tls12"
Retries(u) == ~ V12(u) /\ u.shareRefused
Wanted(u) == u.authmode["server"] # "none"
Signs(u) == Wanted(u) /\ u.cert["client"] # "empty"

Places == 0 .. 29

\* The lines that are said in this handshake.
Lines13(u) ==
    {1, 6, 8, 10, 11, 12, 16}
    \cup (IF u.shareRefused THEN {2, 3, 4, 5} ELSE {7, 13})
    \cup (IF Wanted(u) THEN {9, 14} ELSE {})
    \cup (IF Signs(u) THEN {15} ELSE {})
Lines12(u) ==
    {1, 17, 18, 21, 23, 25, 26, 28, 29}
    \cup (IF u.rsa THEN {} ELSE {19})
    \cup (IF Wanted(u) THEN {20, 22} ELSE {})
    \cup (IF Signs(u) THEN {24} ELSE {})
    \cup (IF u.ticket THEN {27} ELSE {})
Lines(u) == IF V12(u) THEN Lines12(u) ELSE Lines13(u)

Speaker(k) ==
    IF k \in {1, 4, 5, 13, 14, 15, 16, 22, 23, 24, 25, 26} THEN "client" ELSE "server"

\* A ChangeCipherSpec of TLS 1.3, which nobody waits for.
PassedOver == {3, 4, 7, 13}

Type(k) ==
    CASE k \in {1, 5} -> "ClientHello"
      [] k \in {2, 6, 17} -> "ServerHello"
      [] k \in {3, 4, 7, 13, 25, 28} -> "ChangeCipherSpec"
      [] k = 8 -> "EncryptedExtensions"
      [] k \in {9, 20} -> "CertificateRequest"
      [] k \in {10, 14, 18, 22} -> "Certificate"
      [] k \in {11, 15, 24} -> "CertificateVerify"
      [] k \in {12, 16, 26, 29} -> "Finished"
      [] k = 19 -> "ServerKeyExchange"
      [] k = 21 -> "ServerHelloDone"
      [] k = 23 -> "ClientKeyExchange"
      [] OTHER -> "NewSessionTicket"

FirstHello(u) == IF u.clientMax = "tls12" THEN "tls12" ELSE "tls13"
ServerHello12(u) == IF u.serverMax = "tls13" THEN "tls12 downgraded" ELSE "tls12"

Body(u, k) ==
    CASE k = 1 -> FirstHello(u)
      [] k = 2 -> "retry"
      [] k = 5 -> "tls13 again"
      [] k = 6 -> "tls13"
      [] k = 17 -> ServerHello12(u)
      [] k \in {10, 18} -> u.cert["server"]
      [] k \in {14, 22} -> u.cert["client"]
      [] k \in {11, 12, 29} -> "server"
      [] k \in {15, 16, 24, 26} -> "client"
      [] OTHER -> ""

Key(k) ==
    CASE k \in {8, 9, 10, 11, 12, 14, 15, 16} -> "handshake"
      [] k \in {26, 29} -> "session"
      [] OTHER -> "plain"

\* The transcript after each line.
Say(u, k, t) ==
    IF k \in Lines(u) /\ Type(k) # "ChangeCipherSpec" THEN Append(t, <<Type(k), Body(u, k)>>) ELSE t

T1(u) == Say(u, 1, <<>>)
T2(u) == IF 2 \in Lines(u) THEN << <<"message_hash", FirstHello(u)>>, <<"ServerHello", "retry">> >> ELSE T1(u)
T5(u) == Say(u, 5, T2(u))
T6(u) == Say(u, 6, T5(u))
T8(u) == Say(u, 8, T6(u))
T9(u) == Say(u, 9, T8(u))
T10(u) == Say(u, 10, T9(u))
T11(u) == Say(u, 11, T10(u))
T12(u) == Say(u, 12, T11(u))
T14(u) == Say(u, 14, T12(u))
T15(u) == Say(u, 15, T14(u))
T16(u) == Say(u, 16, T15(u))
T17(u) == Say(u, 17, T16(u))
T18(u) == Say(u, 18, T17(u))
T19(u) == Say(u, 19, T18(u))
T20(u) == Say(u, 20, T19(u))
T21(u) == Say(u, 21, T20(u))
T22(u) == Say(u, 22, T21(u))
T23(u) == Say(u, 23, T22(u))
T24(u) == Say(u, 24, T23(u))
T26(u) == Say(u, 26, T24(u))
T27(u) == Say(u, 27, T26(u))
T29(u) == Say(u, 29, T27(u))

Transcript(u, k) ==
    CASE k = 0 -> <<>>  [] k = 1 -> T1(u)  [] k \in {2, 3, 4} -> T2(u)  [] k = 5 -> T5(u)
      [] k \in {6, 7} -> T6(u)  [] k = 8 -> T8(u)  [] k = 9 -> T9(u)  [] k = 10 -> T10(u)
      [] k = 11 -> T11(u)  [] k \in {12, 13} -> T12(u)  [] k = 14 -> T14(u)  [] k = 15 -> T15(u)
      [] k = 16 -> T16(u)  [] k = 17 -> T17(u)  [] k = 18 -> T18(u)  [] k = 19 -> T19(u)
      [] k = 20 -> T20(u)  [] k = 21 -> T21(u)  [] k = 22 -> T22(u)  [] k = 23 -> T23(u)
      [] k \in {24, 25} -> T24(u)  [] k = 26 -> T26(u)  [] k \in {27, 28} -> T27(u)
      [] OTHER -> T29(u)

\* The record r is line k.
Says(u, k, r) ==
    /\ r.type = Type(k) /\ r.body = Body(u, k)
    /\ k \notin PassedOver => r.key = Key(k)
    /\ r.type \in Bound => r.covers = Transcript(u, k - 1)

\* Which line a message of e is; an alert comes behind all of them.
Alert == 30
LineOf(u, e, r) ==
    CASE r.type = "alert" -> Alert
      [] r.type = "ClientHello" -> IF r.body = "tls13 again" THEN 5 ELSE 1
      [] r.type = "ServerHello" -> IF r.body = "retry" THEN 2 ELSE IF r.body = "tls13" THEN 6 ELSE 17
      [] r.type = "ChangeCipherSpec" ->
            IF e = "client" THEN IF V12(u) THEN 25 ELSE IF u.shareRefused THEN 4 ELSE 13
            ELSE IF V12(u) THEN 28 ELSE IF u.shareRefused THEN 3 ELSE 7
      [] r.type = "EncryptedExtensions" -> 8
      [] r.type = "CertificateRequest" -> IF V12(u) THEN 20 ELSE 9
      [] r.type = "Certificate" ->
            IF e = "client" THEN IF V12(u) THEN 22 ELSE 14 ELSE IF V12(u) THEN 18 ELSE 10
      [] r.type = "CertificateVerify" ->
            IF e = "client" THEN IF V12(u) THEN 24 ELSE 15 ELSE 11
      [] r.type = "Finished" ->
            IF e = "client" THEN IF V12(u) THEN 26 ELSE 16 ELSE IF V12(u) THEN 29 ELSE 12
      [] r.type = "ServerKeyExchange" -> 19
      [] r.type = "ServerHelloDone" -> 21
      [] r.type = "ClientKeyExchange" -> 23
      [] OTHER -> 27

\* From place p on, the next line that somebody waits for.
Next13(u, p) ==
    CASE p = 0 -> 1
      [] p = 1 -> IF u.shareRefused THEN 2 ELSE 6
      [] p \in {2, 3, 4} -> 5
      [] p = 5 -> 6
      [] p \in {6, 7} -> 8
      [] p = 8 -> IF Wanted(u) THEN 9 ELSE 10
      [] p \in {12, 13} -> IF Wanted(u) THEN 14 ELSE 16
      [] p = 14 -> IF Signs(u) THEN 15 ELSE 16
      [] OTHER -> p + 1
Next12(u, p) ==
    CASE p = 0 -> 1
      [] p = 1 -> 17
      [] p = 18 -> IF ~ u.rsa THEN 19 ELSE IF Wanted(u) THEN 20 ELSE 21
      [] p = 19 -> IF Wanted(u) THEN 20 ELSE 21
      [] p = 21 -> IF Wanted(u) THEN 22 ELSE 23
      [] p = 23 -> IF Signs(u) THEN 24 ELSE 25
      [] p = 26 -> IF u.ticket THEN 27 ELSE 28
      [] OTHER -> p + 1
NextLine(u, p) == IF V12(u) THEN Next12(u, p) ELSE Next13(u, p)

\* Between p and q nothing is said that matters, but line k.
Passes(u, p, q, k) == \A j \in Lines(u) \ PassedOver : p < j /\ j <= q => j = k

\* Lines that end a flight, and the flights that have ended up to place p.
FlightEnds == {1, 2, 5, 12, 16, 21, 26, 29}
Ended(u, k, p) == IF k \in Lines(u) /\ k <= p THEN 1 ELSE 0
FlightsAt(u, p) ==
    Ended(u, 1, p) + Ended(u, 2, p) + Ended(u, 5, p) + Ended(u, 12, p) + Ended(u, 16, p) + Ended(u, 21, p)
    + Ended(u, 26, p) + Ended(u, 29, p)

-----------------------------------------------------------------------------
(* How far each end is: the last line it has said or heard.                *)

Place12(s) ==
    CASE s.state \in {"HELLO_REQUEST", "CLIENT_HELLO"} -> 0
      [] s.state = "SERVER_HELLO" -> 1
      [] s.state = "SERVER_CERTIFICATE" -> 17
      [] s.state = "SERVER_KEY_EXCHANGE" -> 18
      [] s.state = "CERTIFICATE_REQUEST" -> 19
      [] s.state = "SERVER_HELLO_DONE" -> 20
      [] s.state = "CLIENT_CERTIFICATE" -> 21
      [] s.state = "CLIENT_KEY_EXCHANGE" -> 22
      [] s.state = "CERTIFICATE_VERIFY" -> 23
      [] s.state = "CLIENT_CHANGE_CIPHER_SPEC" -> 24
      [] s.state = "CLIENT_FINISHED" -> 25
      [] s.state = "NEW_SESSION_TICKET" -> 26
      [] s.state = "SERVER_CHANGE_CIPHER_SPEC" -> IF s.newTicket THEN 26 ELSE 27
      [] s.state = "SERVER_FINISHED" -> 28
      [] OTHER -> 29

ClientPlace13(s) ==
    CASE s.state \in {"HELLO_REQUEST", "CLIENT_HELLO"} -> IF s.retried THEN 4 ELSE 0
      [] s.state = "SERVER_HELLO" -> IF s.retried THEN 5 ELSE 1
      [] s.state = "CLIENT_CCS_BEFORE_2ND_CLIENT_HELLO" -> 3
      [] s.state = "ENCRYPTED_EXTENSIONS" -> 7
      [] s.state = "CERTIFICATE_REQUEST" -> 8
      [] s.state = "SERVER_CERTIFICATE" -> 9
      [] s.state = "CERTIFICATE_VERIFY" -> 10
      [] s.state = "SERVER_FINISHED" -> 11
      [] s.state = "CLIENT_CCS_AFTER_SERVER_FINISHED" -> 12
      [] s.state = "CLIENT_CERTIFICATE" -> 13
      [] s.state = "CLIENT_CERTIFICATE_VERIFY" -> 14
      [] s.state = "CLIENT_FINISHED" -> 15
      [] OTHER -> 16

ServerPlace13(s) ==
    CASE s.state \in {"HELLO_REQUEST", "CLIENT_HELLO"} -> IF s.retried THEN 3 ELSE 0
      [] s.state = "HELLO_RETRY_REQUEST" -> 1
      [] s.state = "SERVER_CCS_AFTER_HELLO_RETRY_REQUEST" -> 2
      [] s.state = "SERVER_HELLO" -> 5
      [] s.state = "SERVER_CCS_AFTER_SERVER_HELLO" -> 6
      [] s.state = "ENCRYPTED_EXTENSIONS" -> 7
      [] s.state = "CERTIFICATE_REQUEST" -> 8
      [] s.state = "SERVER_CERTIFICATE" -> 9
      [] s.state = "CERTIFICATE_VERIFY" -> 10
      [] s.state = "SERVER_FINISHED" -> 11
      [] s.state = "CLIENT_CERTIFICATE" -> 13
      [] s.state = "CLIENT_CERTIFICATE_VERIFY" -> 14
      [] s.state = "CLIENT_FINISHED" -> 15
      [] OTHER -> 16

Place(e, s) ==
    IF s.version = "tls12" THEN Place12(s)
    ELSE IF e = "client" THEN ClientPlace13(s) ELSE ServerPlace13(s)

\* What the context of an end is at its place.  A client that has fallen back
\* to TLS 1.2, or looked for a CertificateRequest, has hashed the message it keeps.
Client13Fits(u, s) ==
    LET p == ClientPlace13(s) IN
    /\ V12(u) => s.state \in {"HELLO_REQUEST", "CLIENT_HELLO", "SERVER_HELLO"}
    /\ s.retried <=> p >= 2 /\ Retries(u)
    /\ p < 13 => (s.ccsSent <=> p >= 4 /\ Retries(u))
    /\ s.state = "CLIENT_CCS_BEFORE_2ND_CLIENT_HELLO" => Retries(u)
    /\ s.state = "CLIENT_CERTIFICATE_VERIFY" => Signs(u)
    /\ s.keep => s.state = "SERVER_CERTIFICATE" /\ ~ Wanted(u)
    /\ s.checksum = Transcript(u, p)
    /\ s.clientAuth <=> p >= 9 /\ Wanted(u)
    /\ p < 16 => s.inKey = IF p >= 7 THEN "handshake" ELSE "plain"
    /\ p < 16 => s.outKey = IF p >= 14 THEN "handshake" ELSE "plain"
    /\ ~ s.newTicket

Server13Fits(u, s) ==
    LET p == ServerPlace13(s) IN
    /\ V12(u) => s.state \in {"HELLO_REQUEST", "CLIENT_HELLO"}
    /\ s.retried <=> p >= 2 /\ Retries(u)
    /\ p < 7 => (s.ccsSent <=> p >= 3 /\ Retries(u))
    /\ s.state \in {"HELLO_RETRY_REQUEST", "SERVER_CCS_AFTER_HELLO_RETRY_REQUEST"} => Retries(u)
    /\ s.state = "CLIENT_CERTIFICATE" => Wanted(u)
    /\ s.state = "CLIENT_CERTIFICATE_VERIFY" => Signs(u)
    /\ ~ s.keep
    /\ s.checksum = Transcript(u, p)
    /\ s.clientAuth <=> p >= 9 /\ Wanted(u)
    /\ p < 16 => s.inKey = IF p >= 13 THEN "handshake" ELSE "plain"
    /\ p < 16 => s.outKey = IF p >= 8 THEN "handshake" ELSE "plain"
    /\ p < 14 => s.peerCert = "empty"
    /\ ~ s.newTicket

Client12Fits(u, s) ==
    LET p == Place12(s) IN
    /\ V12(u)
    /\ p = 0 => u.clientMax = "tls12"
    /\ s.keep => p = 1 \/ (p = 20 /\ ~ Wanted(u))
    /\ s.checksum = Transcript(u, IF s.keep THEN NextLine(u, p) ELSE p)
    /\ s.clientAuth <=> p >= 20 /\ Wanted(u)
    /\ s.inKey = IF p >= 28 THEN "session" ELSE "plain"
    /\ s.outKey = IF p >= 26 THEN "session" ELSE "plain"
    /\ s.newTicket <=> p \in 17 .. 26 /\ u.ticket
    /\ s.state = "NEW_SESSION_TICKET" => s.newTicket

Server12Fits(u, s) ==
    LET p == Place12(s) IN
    /\ V12(u)
    /\ s.keep => s.state = "CLIENT_HELLO"
    /\ s.checksum = Transcript(u, p)
    /\ s.peerCert = IF p >= 22 /\ Wanted(u) THEN u.cert["client"] ELSE "empty"
    /\ s.inKey = IF p >= 25 THEN "session" ELSE "plain"
    /\ s.outKey = IF p >= 29 THEN "session" ELSE "plain"
    /\ s.newTicket <=> p \in 17 .. 26 /\ u.ticket

FitsPlace(u, e, s) ==
    IF s.version = "tls13"
    THEN IF e = "client" THEN Client13Fits(u, s) ELSE Server13Fits(u, s)
    ELSE IF e = "client" THEN Client12Fits(u, s) ELSE Server12Fits(u, s)

-----------------------------------------------------------------------------
(* What is between the two ends.                                           *)

Reached(e) == Place(e, ssl[e])

\* What e has said and its peer has not dealt with.
Unheard(e) == (IF ssl[Other(e)].keep THEN <<ssl[Other(e)].msg>> ELSE <<>>) \o Sent(e)

\* q is what e has said between from and to, in order.  A line that is passed
\* over may be left of an earlier place, and an alert may come last.
Lined(u, e, q, from, to) ==
    /\ \A i, j \in 1 .. Len(q) : i < j => LineOf(u, e, q[i]) < LineOf(u, e, q[j])
    /\ \A i \in 1 .. Len(q) :
         LET k == LineOf(u, e, q[i]) IN
         k # Alert => /\ k \in Lines(u) /\ Speaker(k) = e /\ Says(u, k, q[i])
                      /\ k <= to
                      /\ k > from \/ k \in PassedOver
    /\ \A k \in Lines(u) \ PassedOver : Speaker(k) = e /\ from < k /\ k <= to =>
         \E i \in 1 .. Len(q) : LineOf(u, e, q[i]) = k
    /\ \A k \in Lines(u) \ PassedOver : Speaker(k) = e /\ k <= from => k <= to

NoAlert(u, e, q) == \A i \in 1 .. Len(q) : LineOf(u, e, q[i]) # Alert

\* As long as the peer of e listens, e is heard in order.
InOrder(e) ==
    LET q == Unheard(e) IN
    /\ Lined(setup, e, q, Reached(Other(e)), Reached(e))
    /\ ssl[e].result = "running" => NoAlert(setup, e, q)
    /\ ssl[Other(e)].keep => LineOf(setup, e, q[1]) \notin PassedOver \cup {Alert}

InStep ==
    /\ FailsOnlyByRefusal
    /\ \A e \in Ends :
        /\ FitsPlace(setup, e, ssl[e])
        /\ ssl[Other(e)].result = "running" => InOrder(e)
        /\ flights[e] = FlightsAt(setup, Reached(e))

\* Going from place p to place q of the script, an end says or hears line k, or
\* nothing (0).
Turn(u, p, q, k) ==
    /\ p \in Places /\ q \in Places /\ p <= q
    /\ k = 0 \/ (k \in Lines(u) /\ p < k /\ k <= q)
    /\ Passes(u, p, q, k)
    /\ k # 0 => Transcript(u, k - 1) = Transcript(u, p)
    /\ k # 2 => Transcript(u, q) = Say(u, k, Transcript(u, p))

-----------------------------------------------------------------------------
(* About the script.                                                       *)

\* The messages of the lines.
LEMMA TypeIs ==
    /\ Type(1) = "ClientHello" /\ Type(2) = "ServerHello"
    /\ Type(3) = "ChangeCipherSpec" /\ Type(4) = "ChangeCipherSpec"
    /\ Type(5) = "ClientHello" /\ Type(6) = "ServerHello"
    /\ Type(7) = "ChangeCipherSpec" /\ Type(8) = "EncryptedExtensions"
    /\ Type(9) = "CertificateRequest" /\ Type(10) = "Certificate"
    /\ Type(11) = "CertificateVerify" /\ Type(12) = "Finished"
    /\ Type(13) = "ChangeCipherSpec" /\ Type(14) = "Certificate"
    /\ Type(15) = "CertificateVerify" /\ Type(16) = "Finished"
    /\ Type(17) = "ServerHello" /\ Type(18) = "Certificate"
    /\ Type(19) = "ServerKeyExchange" /\ Type(20) = "CertificateRequest"
    /\ Type(21) = "ServerHelloDone" /\ Type(22) = "Certificate"
    /\ Type(23) = "ClientKeyExchange" /\ Type(24) = "CertificateVerify"
    /\ Type(25) = "ChangeCipherSpec" /\ Type(26) = "Finished"
    /\ Type(27) = "NewSessionTicket" /\ Type(28) = "ChangeCipherSpec"
    /\ Type(29) = "Finished"
  BY DEF Type

\* Their contents, as far as they matter.
LEMMA BodyIs ==
    ASSUME NEW u
    PROVE
    /\ Body(u, 1) = FirstHello(u) /\ Body(u, 2) = "retry" /\ Body(u, 5) = "tls13 again"
    /\ Body(u, 6) = "tls13"
    /\ Body(u, 17) = ServerHello12(u)
    /\ Body(u, 10) = u.cert["server"] /\ Body(u, 18) = u.cert["server"]
    /\ Body(u, 14) = u.cert["client"] /\ Body(u, 22) = u.cert["client"]
    /\ Body(u, 11) = "server" /\ Body(u, 12) = "server" /\ Body(u, 29) = "server"
    /\ Body(u, 15) = "client" /\ Body(u, 16) = "client" /\ Body(u, 24) = "client"
    /\ Body(u, 26) = "client"
    /\ \A k \in {3, 4, 7, 8, 9, 13, 19, 20, 21, 23, 25, 27, 28} : Body(u, k) = ""
  BY DEF Body

\* The transcript at each place.
LEMMA TranscriptAt ==
    ASSUME NEW u
    PROVE
    /\ Transcript(u, 0) = <<>> /\ Transcript(u, 1) = T1(u) /\ Transcript(u, 2) = T2(u)
    /\ Transcript(u, 3) = T2(u) /\ Transcript(u, 4) = T2(u) /\ Transcript(u, 5) = T5(u)
    /\ Transcript(u, 6) = T6(u) /\ Transcript(u, 7) = T6(u) /\ Transcript(u, 8) = T8(u)
    /\ Transcript(u, 9) = T9(u) /\ Transcript(u, 10) = T10(u) /\ Transcript(u, 11) = T11(u)
    /\ Transcript(u, 12) = T12(u) /\ Transcript(u, 13) = T12(u) /\ Transcript(u, 14) = T14(u)
    /\ Transcript(u, 15) = T15(u) /\ Transcript(u, 16) = T16(u) /\ Transcript(u, 17) = T17(u)
    /\ Transcript(u, 18) = T18(u) /\ Transcript(u, 19) = T19(u) /\ Transcript(u, 20) = T20(u)
    /\ Transcript(u, 21) = T21(u) /\ Transcript(u, 22) = T22(u) /\ Transcript(u, 23) = T23(u)
    /\ Transcript(u, 24) = T24(u) /\ Transcript(u, 25) = T24(u) /\ Transcript(u, 26) = T26(u)
    /\ Transcript(u, 27) = T27(u) /\ Transcript(u, 28) = T27(u) /\ Transcript(u, 29) = T29(u)
  BY DEF Transcript

\* A line has a place, a speaker and a message of its own.
LEMMA LineIs ==
    ASSUME NEW u \in Setup, NEW k \in Lines(u)
    PROVE  /\ k \in 1 .. 29
           /\ Speaker(k) \in Ends /\ Type(k) \in MessageTypes \ {"alert"} /\ Body(u, k) \in Bodies
           /\ EndsFlight(Type(k), Body(u, k)) <=> k \in FlightEnds
<1>1. k \in 1 .. 29
  BY DEF Lines, Lines12, Lines13
<1>2. u.cert["server"] \in Certificates /\ u.cert["client"] \in Certificates
  BY DEF Setup, Ends
<1>3. Speaker(k) \in Ends
  BY DEF Speaker, Ends
<1>4. Type(k) \in MessageTypes \ {"alert"}
  BY <1>1 DEF Type, MessageTypes, AnyMessage
<1>5. Body(u, k) \in Bodies
  BY <1>1, <1>2 DEF Body, Bodies, FirstHello, ServerHello12, Ends, Certificates
<1>6. EndsFlight(Type(k), Body(u, k)) <=> k \in FlightEnds
  <2>1. Type(k) \in {"ClientHello", "ServerHelloDone", "Finished"} <=> k \in {1, 5, 12, 16, 21, 26, 29}
    BY <1>1 DEF Type
  <2>2. Type(k) = "ServerHello" <=> k \in {2, 6, 17}
    BY <1>1 DEF Type
  <2>3. Body(u, 2) = "retry" /\ Body(u, 6) # "retry" /\ Body(u, 17) # "retry"
    BY DEF Body, ServerHello12
  <2> QED
    BY <2>1, <2>2, <2>3 DEF EndsFlight, FlightEnds
<1> QED
  BY <1>1, <1>3, <1>4, <1>5, <1>6

\* A line can be told from its message.
LEMMA LineOfIs ==
    ASSUME NEW u, NEW k \in Lines(u), NEW r, Says(u, k, r)
    PROVE  LineOf(u, Speaker(k), r) = k
<1> DEFINE e == Speaker(k)
<1>1. r.type = Type(k) /\ r.body = Body(u, k)
  BY DEF Says
<1>2. V12(u) => k \in {1, 17, 18, 19, 20, 21, 22, 23, 24, 25, 26, 27, 28, 29}
  BY DEF Lines, Lines12
<1>3. ~ V12(u) => k \in 1 .. 16
  BY DEF Lines, Lines13
<1>4. k \in {3, 4, 7, 13} => (u.shareRefused <=> k \in {3, 4})
  BY DEF Lines, Lines13, Lines12
<1>5. k \in 1 .. 29
  BY <1>2, <1>3
<1>0. /\ r.type = "EncryptedExtensions" => LineOf(u, e, r) = 8
      /\ r.type = "ServerKeyExchange" => LineOf(u, e, r) = 19
      /\ r.type = "ServerHelloDone" => LineOf(u, e, r) = 21
      /\ r.type = "ClientKeyExchange" => LineOf(u, e, r) = 23
      /\ r.type = "NewSessionTicket" => LineOf(u, e, r) = 27
  BY DEF LineOf
<1> USE <1>1, TypeIs
<1>6. CASE Type(k) = "ClientHello"
  <2>1. k \in {1, 5}
    BY <1>5, <1>6 DEF Type
  <2>2. LineOf(u, e, r) = IF r.body = "tls13 again" THEN 5 ELSE 1
    BY <1>6 DEF LineOf
  <2>3. Body(u, 1) # "tls13 again" /\ Body(u, 5) = "tls13 again"
    BY DEF Body, FirstHello
  <2>4. CASE k = 1
    BY <2>2, <2>3, <2>4
  <2>5. CASE k = 5
    BY <2>2, <2>3, <2>5
  <2> QED
    BY <2>1, <2>4, <2>5
<1>7. CASE Type(k) = "ServerHello"
  <2>1. k \in {2, 6, 17}
    BY <1>5, <1>7 DEF Type
  <2>2. LineOf(u, e, r) = IF r.body = "retry" THEN 2 ELSE IF r.body = "tls13" THEN 6 ELSE 17
    BY <1>7 DEF LineOf
  <2>3. Body(u, 2) = "retry" /\ Body(u, 6) = "tls13" /\ Body(u, 17) \notin {"tls13", "retry"}
    BY DEF Body, ServerHello12
  <2>4. CASE k = 2
    BY <2>2, <2>3, <2>4
  <2>5. CASE k = 6
    BY <2>2, <2>3, <2>5
  <2>6. CASE k = 17
    BY <2>2, <2>3, <2>6
  <2> QED
    BY <2>1, <2>4, <2>5, <2>6
<1>8. CASE Type(k) = "ChangeCipherSpec"
  <2>1. k \in {3, 4, 7, 13, 25, 28}
    BY <1>5, <1>8 DEF Type
  <2>2. k \in {4, 13, 25} <=> e = "client"
    BY <2>1 DEF Speaker
  <2>3. LineOf(u, e, r) = IF e = "client" THEN IF V12(u) THEN 25 ELSE IF u.shareRefused THEN 4 ELSE 13
                       ELSE IF V12(u) THEN 28 ELSE IF u.shareRefused THEN 3 ELSE 7
    BY <1>8 DEF LineOf
  <2> QED
    BY <1>2, <1>3, <1>4, <2>1, <2>2, <2>3
<1>9. CASE Type(k) = "CertificateRequest"
  <2>1. k \in {9, 20}
    BY <1>5, <1>9 DEF Type
  <2>2. LineOf(u, e, r) = IF V12(u) THEN 20 ELSE 9
    BY <1>9 DEF LineOf
  <2> QED
    BY <1>2, <1>3, <2>1, <2>2
<1>10. CASE Type(k) = "Certificate"
  <2>1. k \in {10, 14, 18, 22}
    BY <1>5, <1>10 DEF Type
  <2>2. k \in {14, 22} <=> e = "client"
    BY <2>1 DEF Speaker
  <2>3. LineOf(u, e, r) = IF e = "client" THEN IF V12(u) THEN 22 ELSE 14 ELSE IF V12(u) THEN 18 ELSE 10
    BY <1>10 DEF LineOf
  <2> QED
    BY <1>2, <1>3, <2>1, <2>2, <2>3
<1>11. CASE Type(k) = "CertificateVerify"
  <2>1. k \in {11, 15, 24}
    BY <1>5, <1>11 DEF Type
  <2>2. k \in {15, 24} <=> e = "client"
    BY <2>1 DEF Speaker
  <2>3. LineOf(u, e, r) = IF e = "client" THEN IF V12(u) THEN 24 ELSE 15 ELSE 11
    BY <1>11 DEF LineOf
  <2> QED
    BY <1>2, <1>3, <2>1, <2>2, <2>3
<1>12. CASE Type(k) = "Finished"
  <2>1. k \in {12, 16, 26, 29}
    BY <1>5, <1>12 DEF Type
  <2>2. k \in {16, 26} <=> e = "client"
    BY <2>1 DEF Speaker
  <2>3. LineOf(u, e, r) = IF e = "client" THEN IF V12(u) THEN 26 ELSE 16 ELSE IF V12(u) THEN 29 ELSE 12
    BY <1>12 DEF LineOf
  <2> QED
    BY <1>2, <1>3, <2>1, <2>2, <2>3
<1>13. CASE Type(k) \in {"EncryptedExtensions", "ServerKeyExchange", "ServerHelloDone",
                         "ClientKeyExchange", "NewSessionTicket"}
  <2>1. k \in {8, 19, 21, 23, 27}
    BY <1>5, <1>13 DEF Type
  <2>2. \/ k = 8 /\ r.type = "EncryptedExtensions"
        \/ k = 19 /\ r.type = "ServerKeyExchange"
        \/ k = 21 /\ r.type = "ServerHelloDone"
        \/ k = 23 /\ r.type = "ClientKeyExchange"
        \/ k = 27 /\ r.type = "NewSessionTicket"
    BY <2>1
  <2> QED
    BY <1>0, <2>2
<1>14. Type(k) \in {"ClientHello", "ServerHello", "ChangeCipherSpec", "CertificateRequest",
                    "Certificate", "CertificateVerify", "Finished", "EncryptedExtensions",
                    "ServerKeyExchange", "ServerHelloDone", "ClientKeyExchange", "NewSessionTicket"}
  BY <1>5 DEF Type
<1> QED
  BY <1>6, <1>7, <1>8, <1>9, <1>10, <1>11, <1>12, <1>13, <1>14

\* A ChangeCipherSpec is in no transcript.
LEMMA CcsUnsaid ==
    ASSUME NEW u
    PROVE  \A t : /\ Say(u, 3, t) = t /\ Say(u, 4, t) = t /\ Say(u, 7, t) = t /\ Say(u, 13, t) = t
                  /\ Say(u, 25, t) = t /\ Say(u, 28, t) = t
<1>1. \A k \in {3, 4, 7, 13, 25, 28} : Type(k) = "ChangeCipherSpec"
  BY TypeIs
<1>2. \A t : \A k \in {3, 4, 7, 13, 25, 28} : Say(u, k, t) = t
  BY <1>1 DEF Say
<1> QED
  BY <1>2

\* What a transcript is after each line, from what it was before.
LEMMA TranscriptIs ==
    ASSUME NEW u
    PROVE
    /\ Transcript(u, 0) = <<>>
    /\ Transcript(u, 1) = Say(u, 1, Transcript(u, 0))
    /\ Transcript(u, 3) = Say(u, 3, Transcript(u, 2))
    /\ Transcript(u, 4) = Say(u, 4, Transcript(u, 3))
    /\ Transcript(u, 5) = Say(u, 5, Transcript(u, 4))
    /\ Transcript(u, 6) = Say(u, 6, Transcript(u, 5))
    /\ Transcript(u, 7) = Say(u, 7, Transcript(u, 6))
    /\ Transcript(u, 8) = Say(u, 8, Transcript(u, 7))
    /\ Transcript(u, 9) = Say(u, 9, Transcript(u, 8))
    /\ Transcript(u, 10) = Say(u, 10, Transcript(u, 9))
    /\ Transcript(u, 11) = Say(u, 11, Transcript(u, 10))
    /\ Transcript(u, 12) = Say(u, 12, Transcript(u, 11))
    /\ Transcript(u, 13) = Say(u, 13, Transcript(u, 12))
    /\ Transcript(u, 14) = Say(u, 14, Transcript(u, 13))
    /\ Transcript(u, 15) = Say(u, 15, Transcript(u, 14))
    /\ Transcript(u, 16) = Say(u, 16, Transcript(u, 15))
    /\ Transcript(u, 17) = Say(u, 17, Transcript(u, 16))
    /\ Transcript(u, 18) = Say(u, 18, Transcript(u, 17))
    /\ Transcript(u, 19) = Say(u, 19, Transcript(u, 18))
    /\ Transcript(u, 20) = Say(u, 20, Transcript(u, 19))
    /\ Transcript(u, 21) = Say(u, 21, Transcript(u, 20))
    /\ Transcript(u, 22) = Say(u, 22, Transcript(u, 21))
    /\ Transcript(u, 23) = Say(u, 23, Transcript(u, 22))
    /\ Transcript(u, 24) = Say(u, 24, Transcript(u, 23))
    /\ Transcript(u, 25) = Say(u, 25, Transcript(u, 24))
    /\ Transcript(u, 26) = Say(u, 26, Transcript(u, 25))
    /\ Transcript(u, 27) = Say(u, 27, Transcript(u, 26))
    /\ Transcript(u, 28) = Say(u, 28, Transcript(u, 27))
    /\ Transcript(u, 29) = Say(u, 29, Transcript(u, 28))
    /\ 2 \in Lines(u) =>
         Transcript(u, 2) = << <<"message_hash", FirstHello(u)>>, <<"ServerHello", "retry">> >>
    /\ 2 \notin Lines(u) => Transcript(u, 2) = Transcript(u, 1)
<1>1. \A t : /\ Say(u, 3, t) = t /\ Say(u, 4, t) = t /\ Say(u, 7, t) = t /\ Say(u, 13, t) = t
             /\ Say(u, 25, t) = t /\ Say(u, 28, t) = t
  BY CcsUnsaid
<1>2. /\ T1(u) = Say(u, 1, <<>>) /\ T5(u) = Say(u, 5, T2(u)) /\ T6(u) = Say(u, 6, T5(u))
      /\ T8(u) = Say(u, 8, T6(u))
      /\ T9(u) = Say(u, 9, T8(u)) /\ T10(u) = Say(u, 10, T9(u)) /\ T11(u) = Say(u, 11, T10(u))
      /\ T12(u) = Say(u, 12, T11(u))
      /\ T14(u) = Say(u, 14, T12(u)) /\ T15(u) = Say(u, 15, T14(u)) /\ T16(u) = Say(u, 16, T15(u))
      /\ T17(u) = Say(u, 17, T16(u))
      /\ T18(u) = Say(u, 18, T17(u)) /\ T19(u) = Say(u, 19, T18(u)) /\ T20(u) = Say(u, 20, T19(u))
      /\ T21(u) = Say(u, 21, T20(u))
      /\ T22(u) = Say(u, 22, T21(u)) /\ T23(u) = Say(u, 23, T22(u)) /\ T24(u) = Say(u, 24, T23(u))
      /\ T26(u) = Say(u, 26, T24(u))
      /\ T27(u) = Say(u, 27, T26(u)) /\ T29(u) = Say(u, 29, T27(u))
  BY DEF T1, T5, T6, T8, T9, T10, T11, T12, T14, T15, T16, T17, T18, T19, T20, T21, T22, T23, T24,
         T26, T27, T29
<1>3. /\ 2 \in Lines(u) => T2(u) = << <<"message_hash", FirstHello(u)>>, <<"ServerHello", "retry">> >>
      /\ 2 \notin Lines(u) => T2(u) = T1(u)
  BY DEF T2
<1>4. /\ Transcript(u, 0) = <<>>
      /\ Transcript(u, 1) = Say(u, 1, Transcript(u, 0))
      /\ Transcript(u, 3) = Say(u, 3, Transcript(u, 2))
      /\ Transcript(u, 4) = Say(u, 4, Transcript(u, 3))
      /\ Transcript(u, 5) = Say(u, 5, Transcript(u, 4))
      /\ Transcript(u, 6) = Say(u, 6, Transcript(u, 5))
      /\ Transcript(u, 7) = Say(u, 7, Transcript(u, 6))
  <2>1. T1(u) = Say(u, 1, <<>>) /\ T5(u) = Say(u, 5, T2(u)) /\ T6(u) = Say(u, 6, T5(u))
    BY <1>2
  <2>2. T2(u) = Say(u, 3, T2(u)) /\ T2(u) = Say(u, 4, T2(u)) /\ T6(u) = Say(u, 7, T6(u))
    BY <1>1
  <2> QED
    BY <2>1, <2>2, TranscriptAt
<1>5. /\ Transcript(u, 8) = Say(u, 8, Transcript(u, 7))
      /\ Transcript(u, 9) = Say(u, 9, Transcript(u, 8))
      /\ Transcript(u, 10) = Say(u, 10, Transcript(u, 9))
      /\ Transcript(u, 11) = Say(u, 11, Transcript(u, 10))
      /\ Transcript(u, 12) = Say(u, 12, Transcript(u, 11))
      /\ Transcript(u, 13) = Say(u, 13, Transcript(u, 12))
      /\ Transcript(u, 14) = Say(u, 14, Transcript(u, 13))
      /\ Transcript(u, 15) = Say(u, 15, Transcript(u, 14))
  <2>1. /\ T8(u) = Say(u, 8, T6(u)) /\ T9(u) = Say(u, 9, T8(u)) /\ T10(u) = Say(u, 10, T9(u))
        /\ T11(u) = Say(u, 11, T10(u)) /\ T12(u) = Say(u, 12, T11(u)) /\ T14(u) = Say(u, 14, T12(u))
        /\ T15(u) = Say(u, 15, T14(u))
    BY <1>2
  <2>2. T12(u) = Say(u, 13, T12(u))
    BY <1>1
  <2> QED
    BY <2>1, <2>2, TranscriptAt
<1>6. /\ Transcript(u, 16) = Say(u, 16, Transcript(u, 15))
      /\ Transcript(u, 17) = Say(u, 17, Transcript(u, 16))
      /\ Transcript(u, 18) = Say(u, 18, Transcript(u, 17))
      /\ Transcript(u, 19) = Say(u, 19, Transcript(u, 18))
      /\ Transcript(u, 20) = Say(u, 20, Transcript(u, 19))
      /\ Transcript(u, 21) = Say(u, 21, Transcript(u, 20))
      /\ Transcript(u, 22) = Say(u, 22, Transcript(u, 21))
  <2>1. /\ T16(u) = Say(u, 16, T15(u)) /\ T17(u) = Say(u, 17, T16(u)) /\ T18(u) = Say(u, 18, T17(u))
        /\ T19(u) = Say(u, 19, T18(u)) /\ T20(u) = Say(u, 20, T19(u)) /\ T21(u) = Say(u, 21, T20(u))
        /\ T22(u) = Say(u, 22, T21(u))
    BY <1>2
  <2> QED
    BY <2>1, TranscriptAt
<1>7. /\ Transcript(u, 23) = Say(u, 23, Transcript(u, 22))
      /\ Transcript(u, 24) = Say(u, 24, Transcript(u, 23))
      /\ Transcript(u, 25) = Say(u, 25, Transcript(u, 24))
      /\ Transcript(u, 26) = Say(u, 26, Transcript(u, 25))
      /\ Transcript(u, 27) = Say(u, 27, Transcript(u, 26))
      /\ Transcript(u, 28) = Say(u, 28, Transcript(u, 27))
      /\ Transcript(u, 29) = Say(u, 29, Transcript(u, 28))
  <2>1. /\ T23(u) = Say(u, 23, T22(u)) /\ T24(u) = Say(u, 24, T23(u)) /\ T26(u) = Say(u, 26, T24(u))
        /\ T27(u) = Say(u, 27, T26(u)) /\ T29(u) = Say(u, 29, T27(u))
    BY <1>2
  <2>2. T24(u) = Say(u, 25, T24(u)) /\ T27(u) = Say(u, 28, T27(u))
    BY <1>1
  <2> QED
    BY <2>1, <2>2, TranscriptAt
<1>8. /\ 2 \in Lines(u) =>
           Transcript(u, 2) = << <<"message_hash", FirstHello(u)>>, <<"ServerHello", "retry">> >>
      /\ 2 \notin Lines(u) => Transcript(u, 2) = Transcript(u, 1)
  BY <1>3, TranscriptAt
<1> QED
  BY <1>4, <1>5, <1>6, <1>7, <1>8

\* Up to place q as many flights have ended as up to p, and one more if line k
\* ends one.
LEMMA FlightsMove ==
    ASSUME NEW u, NEW p \in Nat, NEW q \in Nat, p <= q, NEW k, Passes(u, p, q, k),
           k \in FlightEnds => k \in Lines(u) /\ p < k /\ k <= q
    PROVE  FlightsAt(u, q) = FlightsAt(u, p) + IF k \in FlightEnds THEN 1 ELSE 0
<1>1. \A j \in FlightEnds : j \notin PassedOver /\ j \in Nat
  BY DEF FlightEnds, PassedOver
<1>2. \A j \in FlightEnds : Ended(u, j, q) = Ended(u, j, p) + IF j = k THEN 1 ELSE 0
  BY <1>1 DEF Ended, Passes
<1>3. \A j \in FlightEnds : Ended(u, j, p) \in Nat /\ Ended(u, j, q) \in Nat
  BY DEF Ended
<1> DEFINE one(j) == IF j = k THEN 1 ELSE 0
<1>4. /\ Ended(u, 1, q) = Ended(u, 1, p) + one(1) /\ Ended(u, 2, q) = Ended(u, 2, p) + one(2)
      /\ Ended(u, 5, q) = Ended(u, 5, p) + one(5) /\ Ended(u, 12, q) = Ended(u, 12, p) + one(12)
      /\ Ended(u, 16, q) = Ended(u, 16, p) + one(16) /\ Ended(u, 21, q) = Ended(u, 21, p) + one(21)
      /\ Ended(u, 26, q) = Ended(u, 26, p) + one(26) /\ Ended(u, 29, q) = Ended(u, 29, p) + one(29)
  BY <1>2 DEF FlightEnds
<1>5. /\ Ended(u, 1, p) \in Nat /\ Ended(u, 2, p) \in Nat /\ Ended(u, 5, p) \in Nat
      /\ Ended(u, 12, p) \in Nat
      /\ Ended(u, 16, p) \in Nat /\ Ended(u, 21, p) \in Nat /\ Ended(u, 26, p) \in Nat
      /\ Ended(u, 29, p) \in Nat
  BY <1>3 DEF FlightEnds
<1>6. one(1) + one(2) + one(5) + one(12) + one(16) + one(21) + one(26) + one(29)
      = IF k \in FlightEnds THEN 1 ELSE 0
  BY DEF FlightEnds
<1>7. /\ one(1) \in Nat /\ one(2) \in Nat /\ one(5) \in Nat /\ one(12) \in Nat
      /\ one(16) \in Nat /\ one(21) \in Nat /\ one(26) \in Nat /\ one(29) \in Nat
  OBVIOUS
<1> HIDE DEF one
<1> QED
  BY <1>4, <1>5, <1>6, <1>7 DEF FlightsAt

\* More flights have ended at a later place.
LEMMA FlightsGrow ==
    ASSUME NEW u, NEW p \in Nat, NEW q \in Nat, p <= q
    PROVE  FlightsAt(u, p) \in Nat /\ FlightsAt(u, q) \in Nat /\ FlightsAt(u, p) <= FlightsAt(u, q)
<1>1. \A j \in FlightEnds :
        Ended(u, j, p) \in Nat /\ Ended(u, j, q) \in Nat /\ Ended(u, j, p) <= Ended(u, j, q)
  BY DEF Ended, FlightEnds
<1> QED
  BY <1>1 DEF FlightsAt, FlightEnds

\* The flights alternate, and there are as many as Total says.
LEMMA FlightsAre ==
    ASSUME NEW u, u = setup
    PROVE
    /\ \A k \in FlightEnds \cap Lines(u) :
         FlightsAt(u, k) <= Total /\ Flights!Sender(FlightsAt(u, k)) = Speaker(k)
    /\ FlightsAt(u, 29) = Total
    /\ ~ V12(u) => FlightsAt(u, 16) = Total
    /\ Total \in Nat
<1>1. CASE V12(u)
  <2>1. 1 \in Lines(u) /\ 21 \in Lines(u) /\ 26 \in Lines(u) /\ 29 \in Lines(u)
        /\ 2 \notin Lines(u) /\ 5 \notin Lines(u) /\ 12 \notin Lines(u) /\ 16 \notin Lines(u)
    BY <1>1 DEF Lines, Lines12
  <2>2. FlightsAt(u, 1) = 1 /\ FlightsAt(u, 21) = 2 /\ FlightsAt(u, 26) = 3 /\ FlightsAt(u, 29) = 4
    BY <2>1 DEF FlightsAt, Ended
  <2>3. Total = 4
    BY <1>1 DEF Total, V12
  <2> QED
    BY <1>1, <2>1, <2>2, <2>3 DEF FlightEnds, Flights!Sender, Speaker
<1>2. CASE ~ V12(u) /\ ~ u.shareRefused
  <2>1. 1 \in Lines(u) /\ 12 \in Lines(u) /\ 16 \in Lines(u) /\ 21 \notin Lines(u) /\ 26 \notin Lines(u)
        /\ 29 \notin Lines(u) /\ 2 \notin Lines(u) /\ 5 \notin Lines(u)
    BY <1>2 DEF Lines, Lines13
  <2>2. FlightsAt(u, 1) = 1 /\ FlightsAt(u, 12) = 2 /\ FlightsAt(u, 16) = 3 /\ FlightsAt(u, 29) = 3
    BY <2>1 DEF FlightsAt, Ended
  <2>3. Total = 3
    BY <1>2 DEF Total, V12
  <2> QED
    BY <1>2, <2>1, <2>2, <2>3 DEF FlightEnds, Flights!Sender, Speaker
<1>3. CASE ~ V12(u) /\ u.shareRefused
  <2>1. 1 \in Lines(u) /\ 2 \in Lines(u) /\ 5 \in Lines(u) /\ 12 \in Lines(u) /\ 16 \in Lines(u)
        /\ 21 \notin Lines(u) /\ 26 \notin Lines(u) /\ 29 \notin Lines(u)
    BY <1>3 DEF Lines, Lines13
  <2>2. FlightsAt(u, 1) = 1 /\ FlightsAt(u, 2) = 2 /\ FlightsAt(u, 5) = 3 /\ FlightsAt(u, 12) = 4
        /\ FlightsAt(u, 16) = 5 /\ FlightsAt(u, 29) = 5
    BY <2>1 DEF FlightsAt, Ended
  <2>3. Total = 5
    BY <1>3 DEF Total, V12
  <2> QED
    BY <1>3, <2>1, <2>2, <2>3 DEF FlightEnds, Flights!Sender, Speaker
<1> QED
  BY <1>1, <1>2, <1>3

-----------------------------------------------------------------------------
(* About what is said and not yet heard.                                   *)

\* A queue without its first record.
LEMMA TailIs ==
    ASSUME NEW q \in Seq(Record), q # <<>>
    PROVE  /\ Tail(q) \in Seq(Record) /\ Len(Tail(q)) = Len(q) - 1 /\ Len(q) \in Nat \ {0}
           /\ \A i \in 1 .. Len(Tail(q)) : Tail(q)[i] = q[i + 1]
  OBVIOUS

\* A queue with one record more.
LEMMA AppendIs ==
    ASSUME NEW q \in Seq(Record), NEW r \in Record
    PROVE  /\ Append(q, r) \in Seq(Record) /\ Len(Append(q, r)) = Len(q) + 1 /\ Len(q) \in Nat
           /\ Append(q, r)[Len(q) + 1] = r
           /\ \A i \in 1 .. Len(q) : Append(q, r)[i] = q[i]
  OBVIOUS

\* Lines are numbers, and none is the place of an alert.
LEMMA LinesAre ==
    ASSUME NEW u
    PROVE  \A k \in Lines(u) : k \in Nat /\ 1 <= k /\ k <= 29 /\ k # Alert
<1> SUFFICES ASSUME NEW k \in Lines(u)
             PROVE  k \in Nat /\ 1 <= k /\ k <= 29 /\ k # Alert
  OBVIOUS
<1>1. k \in 1 .. 29
  BY DEF Lines, Lines12, Lines13
<1> QED
  BY <1>1 DEF Alert

\* Nothing is said between two places by e.
Silence(u, e, p, q) == \A j \in Lines(u) \ PassedOver : p < j /\ j <= q => Speaker(j) # e

\* Either end gets on without a word of e.
LEMMA LinedStay ==
    ASSUME NEW u \in Setup, NEW e \in Ends, NEW q \in Seq(Record), NEW from \in Places,
           NEW to \in Places,
           NEW from2 \in Places, NEW to2 \in Places, from <= from2, to <= to2,
           Lined(u, e, q, from, to), Silence(u, e, from, from2), Silence(u, e, to, to2)
    PROVE  Lined(u, e, q, from2, to2)
<1>1. \A k \in Lines(u) : k \in Nat
  BY LinesAre
<1> USE DEF Lined, Silence, Places
<1>2. \A i \in 1 .. Len(q) :
        LET k == LineOf(u, e, q[i]) IN
        k # Alert => /\ k \in Lines(u) /\ Speaker(k) = e /\ Says(u, k, q[i])
                     /\ k <= to2
                     /\ k > from2 \/ k \in PassedOver
  BY <1>1
<1>3. \A k \in Lines(u) \ PassedOver : Speaker(k) = e /\ from2 < k /\ k <= to2 =>
        \E i \in 1 .. Len(q) : LineOf(u, e, q[i]) = k
  BY <1>1
<1>4. \A k \in Lines(u) \ PassedOver : Speaker(k) = e /\ k <= from2 => k <= to2
  BY <1>1
<1> QED
  BY <1>2, <1>3, <1>4

\* The end e says line k.
LEMMA LinedSay ==
    ASSUME NEW u \in Setup, NEW e \in Ends, NEW q \in Seq(Record), NEW from \in Places,
           NEW to \in Places,
           NEW to2 \in Places, NEW k \in Lines(u), NEW r \in Record,
           Lined(u, e, q, from, to), NoAlert(u, e, q), Says(u, k, r), Speaker(k) = e,
           to < k, k <= to2, Passes(u, to, to2, k)
    PROVE  Lined(u, e, Append(q, r), from, to2) /\ NoAlert(u, e, Append(q, r))
<1> DEFINE s == Append(q, r)
           n == Len(q)
<1>1. /\ \A j \in Lines(u) : j \in Nat /\ 1 <= j /\ j <= 29 /\ j # Alert
      /\ LineOf(u, e, r) = k /\ k # Alert
  BY LinesAre, LineOfIs
<1>2. /\ n \in Nat /\ Len(s) = n + 1 /\ s[n + 1] = r /\ \A i \in 1 .. n : s[i] = q[i]
  BY AppendIs
<1> HIDE DEF s, n
<1>3. \A i \in 1 .. n :
        LET j == LineOf(u, e, q[i]) IN
        /\ j \in Lines(u) /\ Speaker(j) = e /\ Says(u, j, q[i]) /\ j <= to
        /\ j > from \/ j \in PassedOver
  BY DEF Lined, NoAlert, n
<1>4. \A i, j \in 1 .. n : i < j => LineOf(u, e, q[i]) < LineOf(u, e, q[j])
  BY DEF Lined, n
<1>5. \A i, j \in 1 .. Len(s) : i < j => LineOf(u, e, s[i]) < LineOf(u, e, s[j])
  <2> SUFFICES ASSUME NEW i \in 1 .. Len(s), NEW j \in 1 .. Len(s), i < j
               PROVE  LineOf(u, e, s[i]) < LineOf(u, e, s[j])
    OBVIOUS
  <2>1. CASE j = n + 1
    <3>1. s[i] = q[i] /\ i \in 1 .. n /\ s[j] = r
      BY <1>2, <2>1
    <3>2. LineOf(u, e, q[i]) \in Lines(u) /\ LineOf(u, e, q[i]) <= to
      BY <1>3, <3>1
    <3> QED
      BY <1>1, <3>1, <3>2 DEF Places
  <2>2. CASE j # n + 1
    <3>1. i \in 1 .. n /\ j \in 1 .. n /\ s[i] = q[i] /\ s[j] = q[j]
      BY <1>2, <2>2
    <3> QED
      BY <1>4, <3>1
  <2> QED
    BY <2>1, <2>2
<1>6. k > from \/ k \in PassedOver
  BY <1>1 DEF Lined, Places
<1>7. \A i \in 1 .. Len(s) :
        LET j == LineOf(u, e, s[i]) IN
        j # Alert /\ j \in Lines(u) /\ Speaker(j) = e /\ Says(u, j, s[i]) /\ j <= to2
        /\ (j > from \/ j \in PassedOver)
  <2> SUFFICES ASSUME NEW i \in 1 .. Len(s)
               PROVE  LET j == LineOf(u, e, s[i]) IN
                      j # Alert /\ j \in Lines(u) /\ Speaker(j) = e /\ Says(u, j, s[i]) /\ j <= to2
                      /\ (j > from \/ j \in PassedOver)
    OBVIOUS
  <2>1. CASE i = n + 1
    <3>1. s[i] = r
      BY <1>2, <2>1
    <3> QED
      BY <1>1, <1>6, <3>1
  <2>2. CASE i # n + 1
    <3>1. i \in 1 .. n /\ s[i] = q[i]
      BY <1>2, <2>2
    <3> DEFINE j == LineOf(u, e, q[i])
    <3>2. j \in Lines(u) /\ Speaker(j) = e /\ Says(u, j, q[i]) /\ j <= to
          /\ (j > from \/ j \in PassedOver)
      BY <1>3, <3>1
    <3> HIDE DEF j
    <3>3. j <= to2 /\ j # Alert
      BY <1>1, <3>2 DEF Places
    <3> QED
      BY <3>1, <3>2, <3>3 DEF j
  <2> QED
    BY <2>1, <2>2
<1>8. \A j \in Lines(u) \ PassedOver : Speaker(j) = e /\ from < j /\ j <= to2 =>
        \E i \in 1 .. Len(s) : LineOf(u, e, s[i]) = j
  <2> SUFFICES ASSUME NEW j \in Lines(u) \ PassedOver, Speaker(j) = e, from < j, j <= to2
               PROVE  \E i \in 1 .. Len(s) : LineOf(u, e, s[i]) = j
    OBVIOUS
  <2>1. CASE j <= to
    <3>1. PICK i \in 1 .. n : LineOf(u, e, q[i]) = j
      BY <2>1 DEF Lined, n
    <3>2. i \in 1 .. Len(s) /\ s[i] = q[i]
      BY <1>2
    <3> QED
      BY <3>1, <3>2
  <2>2. CASE ~ (j <= to)
    <3>1. j = k
      BY <1>1, <2>2 DEF Passes, Places
    <3>2. n + 1 \in 1 .. Len(s)
      BY <1>2
    <3> QED
      BY <1>1, <1>2, <3>1, <3>2
  <2> QED
    BY <2>1, <2>2
<1>9. \A j \in Lines(u) \ PassedOver : Speaker(j) = e /\ j <= from => j <= to2
  BY <1>1 DEF Lined, Places
<1>10. Lined(u, e, s, from, to2)
  BY <1>5, <1>7, <1>8, <1>9 DEF Lined
<1>11. NoAlert(u, e, s)
  BY <1>7 DEF NoAlert
<1> QED
  BY <1>10, <1>11 DEF s

\* The end e gives up, and an alert is the last that is heard of it.
LEMMA LinedAlert ==
    ASSUME NEW u \in Setup, NEW e \in Ends, NEW q \in Seq(Record), NEW from \in Places,
           NEW to \in Places,
           NEW r \in Record, r.type = "alert",
           Lined(u, e, q, from, to), NoAlert(u, e, q)
    PROVE  Lined(u, e, Append(q, r), from, to)
<1> DEFINE s == Append(q, r)
           n == Len(q)
<1>1. LineOf(u, e, r) = Alert
  BY DEF LineOf
<1>2. /\ n \in Nat /\ Len(s) = n + 1 /\ s[n + 1] = r /\ \A i \in 1 .. n : s[i] = q[i]
  BY AppendIs
<1> HIDE DEF s, n
<1>3. \A i \in 1 .. n :
        LET j == LineOf(u, e, q[i]) IN
        /\ j \in Lines(u) /\ Speaker(j) = e /\ Says(u, j, q[i]) /\ j <= to
        /\ j > from \/ j \in PassedOver
  BY DEF Lined, NoAlert, n
<1>4. \A i, j \in 1 .. n : i < j => LineOf(u, e, q[i]) < LineOf(u, e, q[j])
  BY DEF Lined, n
<1>5. \A i, j \in 1 .. Len(s) : i < j => LineOf(u, e, s[i]) < LineOf(u, e, s[j])
  <2> SUFFICES ASSUME NEW i \in 1 .. Len(s), NEW j \in 1 .. Len(s), i < j
               PROVE  LineOf(u, e, s[i]) < LineOf(u, e, s[j])
    OBVIOUS
  <2>1. CASE j = n + 1
    <3>1. s[i] = q[i] /\ i \in 1 .. n /\ s[j] = r
      BY <1>2, <2>1
    <3>2. LineOf(u, e, q[i]) \in Lines(u)
      BY <1>3, <3>1
    <3>3. LineOf(u, e, q[i]) \in Nat /\ LineOf(u, e, q[i]) <= 29
      BY <3>2, LinesAre
    <3> QED
      BY <1>1, <3>1, <3>3 DEF Alert
  <2>2. CASE j # n + 1
    <3>1. i \in 1 .. n /\ j \in 1 .. n /\ s[i] = q[i] /\ s[j] = q[j]
      BY <1>2, <2>2
    <3> QED
      BY <1>4, <3>1
  <2> QED
    BY <2>1, <2>2
<1>6. \A i \in 1 .. Len(s) :
        LET j == LineOf(u, e, s[i]) IN
        j # Alert => j \in Lines(u) /\ Speaker(j) = e /\ Says(u, j, s[i]) /\ j <= to
                     /\ (j > from \/ j \in PassedOver)
  <2> SUFFICES ASSUME NEW i \in 1 .. Len(s), LineOf(u, e, s[i]) # Alert
               PROVE  LET j == LineOf(u, e, s[i]) IN
                      j \in Lines(u) /\ Speaker(j) = e /\ Says(u, j, s[i]) /\ j <= to
                      /\ (j > from \/ j \in PassedOver)
    OBVIOUS
  <2>1. i \in 1 .. n /\ s[i] = q[i]
    BY <1>1, <1>2
  <2> QED
    BY <1>3, <2>1
<1>7. \A j \in Lines(u) \ PassedOver : Speaker(j) = e /\ from < j /\ j <= to =>
        \E i \in 1 .. Len(s) : LineOf(u, e, s[i]) = j
  <2> SUFFICES ASSUME NEW j \in Lines(u) \ PassedOver, Speaker(j) = e, from < j, j <= to
               PROVE  \E i \in 1 .. Len(s) : LineOf(u, e, s[i]) = j
    OBVIOUS
  <2>1. PICK i \in 1 .. n : LineOf(u, e, q[i]) = j
    BY DEF Lined, n
  <2>2. i \in 1 .. Len(s) /\ s[i] = q[i]
    BY <1>2
  <2> QED
    BY <2>1, <2>2
<1> QED
  BY <1>5, <1>6, <1>7 DEF Lined, s

\* The peer of e has heard line k, or passed it over.
LEMMA LinedHear ==
    ASSUME NEW u \in Setup, NEW e \in Ends, NEW q \in Seq(Record), NEW from \in Places,
           NEW to \in Places,
           NEW from2 \in Places, from <= from2, q # <<>>,
           Lined(u, e, q, from, to),
           LET k == LineOf(u, e, q[1]) IN
           \/ k \in PassedOver /\ from2 = from
           \/ k \in Lines(u) \ PassedOver /\ k <= from2 /\ Passes(u, from, from2, k)
    PROVE  Lined(u, e, Tail(q), from2, to)
<1> DEFINE s == Tail(q)
           n == Len(q)
           k == LineOf(u, e, q[1])
<1>1. \A j \in Lines(u) : j \in Nat /\ 1 <= j /\ j <= 29 /\ j # Alert
  BY LinesAre
<1>2. n \in Nat \ {0} /\ Len(s) = n - 1 /\ \A i \in 1 .. Len(s) : s[i] = q[i + 1]
  BY TailIs
<1> HIDE DEF s, n
<1>3. \A i, j \in 1 .. n : i < j => LineOf(u, e, q[i]) < LineOf(u, e, q[j])
  BY DEF Lined, n
<1>4. \A i \in 1 .. n :
        LET j == LineOf(u, e, q[i]) IN
        j # Alert => /\ j \in Lines(u) /\ Speaker(j) = e /\ Says(u, j, q[i]) /\ j <= to
                     /\ j > from \/ j \in PassedOver
  BY DEF Lined, n
<1>5. 1 \in 1 .. n /\ k \in PassedOver \cup Lines(u)
  BY <1>2
<1>6. \A i, j \in 1 .. Len(s) : i < j => LineOf(u, e, s[i]) < LineOf(u, e, s[j])
  <2> SUFFICES ASSUME NEW i \in 1 .. Len(s), NEW j \in 1 .. Len(s), i < j
               PROVE  LineOf(u, e, s[i]) < LineOf(u, e, s[j])
    OBVIOUS
  <2>1. i + 1 \in 1 .. n /\ j + 1 \in 1 .. n /\ i + 1 < j + 1
    BY <1>2
  <2> QED
    BY <1>2, <1>3, <2>1
<1>7. \A i \in 1 .. Len(s) :
        LET j == LineOf(u, e, s[i]) IN
        j # Alert => j \in Lines(u) /\ Speaker(j) = e /\ Says(u, j, s[i]) /\ j <= to
                     /\ (j > from2 \/ j \in PassedOver)
  <2> SUFFICES ASSUME NEW i \in 1 .. Len(s), LineOf(u, e, s[i]) # Alert
               PROVE  LET j == LineOf(u, e, s[i]) IN
                      j \in Lines(u) /\ Speaker(j) = e /\ Says(u, j, s[i]) /\ j <= to
                      /\ (j > from2 \/ j \in PassedOver)
    OBVIOUS
  <2> DEFINE j == LineOf(u, e, s[i])
  <2>1. i + 1 \in 1 .. n /\ 1 < i + 1 /\ s[i] = q[i + 1]
    BY <1>2
  <2>2. /\ j \in Lines(u) /\ Speaker(j) = e /\ Says(u, j, s[i]) /\ j <= to
        /\ j > from \/ j \in PassedOver
    BY <1>4, <2>1
  <2>3. k < j
    BY <1>3, <1>5, <2>1
  <2> HIDE DEF j, k
  <2>4. j > from2 \/ j \in PassedOver
    BY <1>1, <2>2, <2>3 DEF Passes, Places, k
  <2> QED
    BY <2>2, <2>4 DEF j
<1>8. \A j \in Lines(u) \ PassedOver : Speaker(j) = e /\ from2 < j /\ j <= to =>
        \E i \in 1 .. Len(s) : LineOf(u, e, s[i]) = j
  <2> SUFFICES ASSUME NEW j \in Lines(u) \ PassedOver, Speaker(j) = e, from2 < j, j <= to
               PROVE  \E i \in 1 .. Len(s) : LineOf(u, e, s[i]) = j
    OBVIOUS
  <2>1. from < j
    BY <1>1 DEF Places
  <2>2. PICK i \in 1 .. n : LineOf(u, e, q[i]) = j
    BY <2>1 DEF Lined, n
  <2>3. i # 1
    <3>1. k # j
      BY <1>1 DEF Places
    <3> QED
      BY <2>2, <3>1
  <2>4. i - 1 \in 1 .. Len(s) /\ (i - 1) + 1 = i
    BY <1>2, <2>3
  <2> QED
    BY <1>2, <2>2, <2>4
<1>9. \A j \in Lines(u) \ PassedOver : Speaker(j) = e /\ j <= from2 => j <= to
  <2> SUFFICES ASSUME NEW j \in Lines(u) \ PassedOver, Speaker(j) = e, j <= from2
               PROVE  j <= to
    OBVIOUS
  <2>1. CASE j <= from
    BY <2>1 DEF Lined
  <2>2. CASE ~ (j <= from)
    <3>1. j = k /\ k \in Lines(u) \ PassedOver
      BY <1>1, <2>2 DEF Passes, Places
    <3>2. k # Alert
      BY <1>1, <3>1 DEF Alert
    <3> QED
      BY <1>4, <1>5, <3>1, <3>2
  <2> QED
    BY <2>1, <2>2
<1> QED
  BY <1>6, <1>7, <1>8, <1>9 DEF Lined, s

\* Without an alert there is none behind the first record either.
LEMMA NoAlertTail ==
    ASSUME NEW u, NEW e, NEW q \in Seq(Record), q # <<>>, NoAlert(u, e, q)
    PROVE  NoAlert(u, e, Tail(q))
<1>1. \A i \in 1 .. Len(Tail(q)) : i + 1 \in 1 .. Len(q) /\ Tail(q)[i] = q[i + 1]
  BY TailIs
<1> QED
  BY <1>1 DEF NoAlert

\* What the peer of e finds first is the line n it waits for, unless it passes
\* it over or e has given up.
LEMMA LinedHead ==
    ASSUME NEW u \in Setup, NEW e \in Ends, NEW q \in Seq(Record), NEW from \in Places,
           NEW to \in Places,
           NEW n \in Lines(u) \ PassedOver, q # <<>>, Lined(u, e, q, from, to),
           Speaker(n) = e, from < n, Passes(u, from, n, n)
    PROVE  LET k == LineOf(u, e, q[1]) IN
           \/ k = Alert
           \/ k \in PassedOver \cap Lines(u) /\ Says(u, k, q[1])
           \/ k = n /\ Says(u, k, q[1]) /\ n <= to
<1> DEFINE k == LineOf(u, e, q[1])
<1>1. \A j \in Lines(u) : j \in Nat /\ 1 <= j /\ j <= 29 /\ j # Alert
  BY LinesAre
<1>2. 1 \in 1 .. Len(q)
  BY TailIs
<1>3. \A i \in 2 .. Len(q) : k < LineOf(u, e, q[i])
  <2> SUFFICES ASSUME NEW i \in 2 .. Len(q)
               PROVE  k < LineOf(u, e, q[i])
    OBVIOUS
  <2>1. i \in 1 .. Len(q) /\ 1 < i
    OBVIOUS
  <2> QED
    BY <1>2, <2>1 DEF Lined
<1>4. k # Alert => /\ k \in Lines(u) /\ Speaker(k) = e /\ Says(u, k, q[1]) /\ k <= to
                   /\ k > from \/ k \in PassedOver
  BY <1>2 DEF Lined
<1>5. ASSUME k # Alert, k \notin PassedOver
      PROVE  k = n
  <2>1. k > from /\ k \in Lines(u) /\ k <= to
    BY <1>4, <1>5
  <2>2. CASE k <= n
    BY <1>5, <2>1, <2>2 DEF Passes
  <2>3. CASE ~ (k <= n)
    <3>1. n <= to
      BY <1>1, <2>1, <2>3 DEF Places
    <3>2. PICK i \in 1 .. Len(q) : LineOf(u, e, q[i]) = n
      BY <3>1 DEF Lined
    <3>3. CASE i = 1
      BY <3>2, <3>3
    <3>4. CASE i # 1
      <4>1. i \in 2 .. Len(q)
        BY <3>4
      <4>2. k < n
        BY <1>3, <3>2, <4>1
      <4> QED
        BY <1>1, <2>1, <2>3, <4>2
    <3> QED
      BY <3>3, <3>4
  <2> QED
    BY <2>2, <2>3
<1> HIDE DEF k
<1>6. \/ k = Alert
      \/ k \in PassedOver \cap Lines(u) /\ Says(u, k, q[1])
      \/ k = n /\ Says(u, k, q[1]) /\ n <= to
  BY <1>4, <1>5
<1> QED
  BY <1>6 DEF k

\* A line that is not said, and a ChangeCipherSpec, leave the transcript as it is.
LEMMA TranscriptStays ==
    ASSUME NEW u
    PROVE
    /\ Transcript(u, 3) = Transcript(u, 2) /\ Transcript(u, 4) = Transcript(u, 3)
    /\ Transcript(u, 7) = Transcript(u, 6)
    /\ Transcript(u, 13) = Transcript(u, 12) /\ Transcript(u, 25) = Transcript(u, 24)
    /\ Transcript(u, 28) = Transcript(u, 27)
    /\ 2 \notin Lines(u) => Transcript(u, 2) = Transcript(u, 1)
    /\ 5 \notin Lines(u) => Transcript(u, 5) = Transcript(u, 4)
    /\ 6 \notin Lines(u) => Transcript(u, 6) = Transcript(u, 5)
    /\ 8 \notin Lines(u) => Transcript(u, 8) = Transcript(u, 7)
    /\ 9 \notin Lines(u) => Transcript(u, 9) = Transcript(u, 8)
    /\ 10 \notin Lines(u) => Transcript(u, 10) = Transcript(u, 9)
    /\ 11 \notin Lines(u) => Transcript(u, 11) = Transcript(u, 10)
    /\ 12 \notin Lines(u) => Transcript(u, 12) = Transcript(u, 11)
    /\ 14 \notin Lines(u) => Transcript(u, 14) = Transcript(u, 13)
    /\ 15 \notin Lines(u) => Transcript(u, 15) = Transcript(u, 14)
    /\ 16 \notin Lines(u) => Transcript(u, 16) = Transcript(u, 15)
    /\ 17 \notin Lines(u) => Transcript(u, 17) = Transcript(u, 16)
    /\ 18 \notin Lines(u) => Transcript(u, 18) = Transcript(u, 17)
    /\ 19 \notin Lines(u) => Transcript(u, 19) = Transcript(u, 18)
    /\ 20 \notin Lines(u) => Transcript(u, 20) = Transcript(u, 19)
    /\ 21 \notin Lines(u) => Transcript(u, 21) = Transcript(u, 20)
    /\ 22 \notin Lines(u) => Transcript(u, 22) = Transcript(u, 21)
    /\ 23 \notin Lines(u) => Transcript(u, 23) = Transcript(u, 22)
    /\ 24 \notin Lines(u) => Transcript(u, 24) = Transcript(u, 23)
    /\ 26 \notin Lines(u) => Transcript(u, 26) = Transcript(u, 25)
    /\ 27 \notin Lines(u) => Transcript(u, 27) = Transcript(u, 26)
    /\ 29 \notin Lines(u) => Transcript(u, 29) = Transcript(u, 28)
<1>1. \A k, t : k \notin Lines(u) => Say(u, k, t) = t
  BY DEF Say
<1>2. /\ Transcript(u, 3) = Transcript(u, 2) /\ Transcript(u, 4) = Transcript(u, 3)
      /\ Transcript(u, 7) = Transcript(u, 6)
      /\ Transcript(u, 13) = Transcript(u, 12) /\ Transcript(u, 25) = Transcript(u, 24)
      /\ Transcript(u, 28) = Transcript(u, 27)
  <2>1. /\ Transcript(u, 3) = Say(u, 3, Transcript(u, 2))
        /\ Transcript(u, 4) = Say(u, 4, Transcript(u, 3))
        /\ Transcript(u, 7) = Say(u, 7, Transcript(u, 6))
        /\ Transcript(u, 13) = Say(u, 13, Transcript(u, 12))
        /\ Transcript(u, 25) = Say(u, 25, Transcript(u, 24))
        /\ Transcript(u, 28) = Say(u, 28, Transcript(u, 27))
    BY TranscriptIs
  <2> QED
    BY <2>1, CcsUnsaid
<1>3. /\ 2 \notin Lines(u) => Transcript(u, 2) = Transcript(u, 1)
      /\ 5 \notin Lines(u) => Transcript(u, 5) = Transcript(u, 4)
      /\ 6 \notin Lines(u) => Transcript(u, 6) = Transcript(u, 5)
      /\ 8 \notin Lines(u) => Transcript(u, 8) = Transcript(u, 7)
      /\ 9 \notin Lines(u) => Transcript(u, 9) = Transcript(u, 8)
      /\ 10 \notin Lines(u) => Transcript(u, 10) = Transcript(u, 9)
  <2>1. /\ Transcript(u, 5) = Say(u, 5, Transcript(u, 4))
        /\ Transcript(u, 6) = Say(u, 6, Transcript(u, 5))
        /\ Transcript(u, 8) = Say(u, 8, Transcript(u, 7))
        /\ Transcript(u, 9) = Say(u, 9, Transcript(u, 8))
        /\ Transcript(u, 10) = Say(u, 10, Transcript(u, 9))
        /\ 2 \notin Lines(u) => Transcript(u, 2) = Transcript(u, 1)
    BY TranscriptIs
  <2> QED
    BY <1>1, <2>1
<1>4. /\ 11 \notin Lines(u) => Transcript(u, 11) = Transcript(u, 10)
      /\ 12 \notin Lines(u) => Transcript(u, 12) = Transcript(u, 11)
      /\ 14 \notin Lines(u) => Transcript(u, 14) = Transcript(u, 13)
      /\ 15 \notin Lines(u) => Transcript(u, 15) = Transcript(u, 14)
      /\ 16 \notin Lines(u) => Transcript(u, 16) = Transcript(u, 15)
      /\ 17 \notin Lines(u) => Transcript(u, 17) = Transcript(u, 16)
  <2>1. /\ Transcript(u, 11) = Say(u, 11, Transcript(u, 10))
        /\ Transcript(u, 12) = Say(u, 12, Transcript(u, 11))
        /\ Transcript(u, 14) = Say(u, 14, Transcript(u, 13))
        /\ Transcript(u, 15) = Say(u, 15, Transcript(u, 14))
        /\ Transcript(u, 16) = Say(u, 16, Transcript(u, 15))
        /\ Transcript(u, 17) = Say(u, 17, Transcript(u, 16))
    BY TranscriptIs
  <2> QED
    BY <1>1, <2>1
<1>5. /\ 18 \notin Lines(u) => Transcript(u, 18) = Transcript(u, 17)
      /\ 19 \notin Lines(u) => Transcript(u, 19) = Transcript(u, 18)
      /\ 20 \notin Lines(u) => Transcript(u, 20) = Transcript(u, 19)
      /\ 21 \notin Lines(u) => Transcript(u, 21) = Transcript(u, 20)
      /\ 22 \notin Lines(u) => Transcript(u, 22) = Transcript(u, 21)
  <2>1. /\ Transcript(u, 18) = Say(u, 18, Transcript(u, 17))
        /\ Transcript(u, 19) = Say(u, 19, Transcript(u, 18))
        /\ Transcript(u, 20) = Say(u, 20, Transcript(u, 19))
        /\ Transcript(u, 21) = Say(u, 21, Transcript(u, 20))
        /\ Transcript(u, 22) = Say(u, 22, Transcript(u, 21))
    BY TranscriptIs
  <2> QED
    BY <1>1, <2>1
<1>6. /\ 23 \notin Lines(u) => Transcript(u, 23) = Transcript(u, 22)
      /\ 24 \notin Lines(u) => Transcript(u, 24) = Transcript(u, 23)
      /\ 26 \notin Lines(u) => Transcript(u, 26) = Transcript(u, 25)
      /\ 27 \notin Lines(u) => Transcript(u, 27) = Transcript(u, 26)
      /\ 29 \notin Lines(u) => Transcript(u, 29) = Transcript(u, 28)
  <2>1. /\ Transcript(u, 23) = Say(u, 23, Transcript(u, 22))
        /\ Transcript(u, 24) = Say(u, 24, Transcript(u, 23))
        /\ Transcript(u, 26) = Say(u, 26, Transcript(u, 25))
        /\ Transcript(u, 27) = Say(u, 27, Transcript(u, 26))
        /\ Transcript(u, 29) = Say(u, 29, Transcript(u, 28))
    BY TranscriptIs
  <2> QED
    BY <1>1, <2>1
<1> QED
  BY <1>2, <1>3, <1>4, <1>5, <1>6

-----------------------------------------------------------------------------
(* Turns of the script.                                                    *)

\* The turns of TLS 1.3.
LEMMA Turns13 ==
    ASSUME NEW u, ~ V12(u)
    PROVE
    /\ Turn(u, 0, 1, 1)
    /\ u.shareRefused => Turn(u, 4, 5, 5)
    /\ u.shareRefused => Turn(u, 1, 3, 2)
    /\ ~ u.shareRefused => Turn(u, 1, 7, 6)
    /\ Turn(u, 5, 6, 6)
    /\ Turn(u, 5, 7, 6)
    /\ u.shareRefused => Turn(u, 3, 4, 4)
    /\ Turn(u, 7, 8, 8)
    /\ Wanted(u) => Turn(u, 8, 9, 9)
    /\ ~ Wanted(u) => Turn(u, 8, 9, 0)
    /\ Turn(u, 9, 10, 10)
    /\ Turn(u, 10, 11, 11)
    /\ Turn(u, 11, 12, 12)
    /\ ~ u.shareRefused => Turn(u, 12, 13, 13)
    /\ u.shareRefused => Turn(u, 12, 13, 0)
    /\ Signs(u) => Turn(u, 13, 14, 14)
    /\ Wanted(u) /\ ~ Signs(u) => Turn(u, 13, 15, 14)
    /\ ~ Wanted(u) => Turn(u, 13, 15, 0)
    /\ Signs(u) => Turn(u, 14, 15, 15)
    /\ Turn(u, 15, 16, 16)
    /\ ~ u.shareRefused => Turn(u, 0, 5, 1)
    /\ u.shareRefused => Turn(u, 3, 5, 5)
    /\ u.shareRefused => Turn(u, 1, 2, 2)
    /\ u.shareRefused => Turn(u, 2, 3, 3)
    /\ ~ u.shareRefused => Turn(u, 6, 7, 7)
    /\ u.shareRefused => Turn(u, 6, 7, 0)
    /\ Turn(u, 11, 13, 12)
    /\ ~ Wanted(u) => Turn(u, 11, 15, 12)
    /\ ~ Wanted(u) => Turn(u, 8, 10, 10)
<1>0. Lines(u) = Lines13(u)
  BY DEF Lines
<1>1. Turn(u, 0, 1, 1)
  <2>1. Passes(u, 0, 1, 1) /\ 1 \in Lines(u)
    BY <1>0 DEF Lines13, Wanted, Signs, Passes, PassedOver
  <2>2. Transcript(u, 1) = Say(u, 1, Transcript(u, 0))
    BY <2>1, TranscriptStays, TranscriptIs
  <2>3. 1 - 1 = 0 /\ Transcript(u, 0) = Transcript(u, 0)
    BY <2>2
  <2>4. Transcript(u, 1) = Say(u, 1, Transcript(u, 0))
    BY <2>2, <2>3
  <2> QED
    BY <2>1, <2>3, <2>4 DEF Turn, Places
<1>2. ASSUME u.shareRefused
      PROVE  Turn(u, 4, 5, 5)
  <2>1. Passes(u, 4, 5, 5) /\ 5 \in Lines(u)
    BY <1>0, <1>2 DEF Lines13, Wanted, Signs, Passes, PassedOver
  <2>2. Transcript(u, 5) = Say(u, 5, Transcript(u, 4))
    BY <2>1, TranscriptStays, TranscriptIs
  <2>3. 5 - 1 = 4 /\ Transcript(u, 4) = Transcript(u, 4)
    BY <2>2
  <2>4. Transcript(u, 5) = Say(u, 5, Transcript(u, 4))
    BY <2>2, <2>3
  <2> QED
    BY <2>1, <2>3, <2>4 DEF Turn, Places
<1>3. ASSUME u.shareRefused
      PROVE  Turn(u, 1, 3, 2)
  <2>1. Passes(u, 1, 3, 2) /\ 2 \in Lines(u)
    BY <1>0, <1>3 DEF Lines13, Wanted, Signs, Passes, PassedOver
  <2> QED
    BY <2>1 DEF Turn, Places
<1>4. ASSUME ~ u.shareRefused
      PROVE  Turn(u, 1, 7, 6)
  <2>1. /\ Passes(u, 1, 7, 6) /\ 6 \in Lines(u)
        /\ 2 \notin Lines(u) /\ 5 \notin Lines(u)
    BY <1>0, <1>4 DEF Lines13, Wanted, Signs, Passes, PassedOver
  <2>2. /\ Transcript(u, 2) = Transcript(u, 1) /\ Transcript(u, 3) = Transcript(u, 2)
        /\ Transcript(u, 4) = Transcript(u, 3) /\ Transcript(u, 5) = Transcript(u, 4)
        /\ Transcript(u, 6) = Say(u, 6, Transcript(u, 5)) /\ Transcript(u, 7) = Transcript(u, 6)
    BY <2>1, TranscriptStays, TranscriptIs
  <2>3. 6 - 1 = 5 /\ Transcript(u, 5) = Transcript(u, 1)
    BY <2>2
  <2>4. Transcript(u, 7) = Say(u, 6, Transcript(u, 1))
    BY <2>2, <2>3
  <2> QED
    BY <2>1, <2>3, <2>4 DEF Turn, Places
<1>5. Turn(u, 5, 6, 6)
  <2>1. Passes(u, 5, 6, 6) /\ 6 \in Lines(u)
    BY <1>0 DEF Lines13, Wanted, Signs, Passes, PassedOver
  <2>2. Transcript(u, 6) = Say(u, 6, Transcript(u, 5))
    BY <2>1, TranscriptStays, TranscriptIs
  <2>3. 6 - 1 = 5 /\ Transcript(u, 5) = Transcript(u, 5)
    BY <2>2
  <2>4. Transcript(u, 6) = Say(u, 6, Transcript(u, 5))
    BY <2>2, <2>3
  <2> QED
    BY <2>1, <2>3, <2>4 DEF Turn, Places
<1>6. Turn(u, 5, 7, 6)
  <2>1. Passes(u, 5, 7, 6) /\ 6 \in Lines(u)
    BY <1>0 DEF Lines13, Wanted, Signs, Passes, PassedOver
  <2>2. /\ Transcript(u, 6) = Say(u, 6, Transcript(u, 5)) /\ Transcript(u, 7) = Transcript(u, 6)
    BY <2>1, TranscriptStays, TranscriptIs
  <2>3. 6 - 1 = 5 /\ Transcript(u, 5) = Transcript(u, 5)
    BY <2>2
  <2>4. Transcript(u, 7) = Say(u, 6, Transcript(u, 5))
    BY <2>2, <2>3
  <2> QED
    BY <2>1, <2>3, <2>4 DEF Turn, Places
<1>7. ASSUME u.shareRefused
      PROVE  Turn(u, 3, 4, 4)
  <2>1. Passes(u, 3, 4, 4) /\ 4 \in Lines(u)
    BY <1>0, <1>7 DEF Lines13, Wanted, Signs, Passes, PassedOver
  <2>2. Transcript(u, 4) = Say(u, 4, Transcript(u, 3))
    BY <2>1, TranscriptStays, TranscriptIs
  <2>3. 4 - 1 = 3 /\ Transcript(u, 3) = Transcript(u, 3)
    BY <2>2
  <2>4. Transcript(u, 4) = Say(u, 4, Transcript(u, 3))
    BY <2>2, <2>3
  <2> QED
    BY <2>1, <2>3, <2>4 DEF Turn, Places
<1>8. Turn(u, 7, 8, 8)
  <2>1. Passes(u, 7, 8, 8) /\ 8 \in Lines(u)
    BY <1>0 DEF Lines13, Wanted, Signs, Passes, PassedOver
  <2>2. Transcript(u, 8) = Say(u, 8, Transcript(u, 7))
    BY <2>1, TranscriptStays, TranscriptIs
  <2>3. 8 - 1 = 7 /\ Transcript(u, 7) = Transcript(u, 7)
    BY <2>2
  <2>4. Transcript(u, 8) = Say(u, 8, Transcript(u, 7))
    BY <2>2, <2>3
  <2> QED
    BY <2>1, <2>3, <2>4 DEF Turn, Places
<1>9. ASSUME Wanted(u)
      PROVE  Turn(u, 8, 9, 9)
  <2>1. Passes(u, 8, 9, 9) /\ 9 \in Lines(u)
    BY <1>0, <1>9 DEF Lines13, Wanted, Signs, Passes, PassedOver
  <2>2. Transcript(u, 9) = Say(u, 9, Transcript(u, 8))
    BY <2>1, TranscriptStays, TranscriptIs
  <2>3. 9 - 1 = 8 /\ Transcript(u, 8) = Transcript(u, 8)
    BY <2>2
  <2>4. Transcript(u, 9) = Say(u, 9, Transcript(u, 8))
    BY <2>2, <2>3
  <2> QED
    BY <2>1, <2>3, <2>4 DEF Turn, Places
<1>10. ASSUME ~ Wanted(u)
      PROVE  Turn(u, 8, 9, 0)
  <2>1. /\ Passes(u, 8, 9, 0) /\ 0 \notin Lines(u)
        /\ 9 \notin Lines(u)
    BY <1>0, <1>10 DEF Lines13, Wanted, Signs, Passes, PassedOver
  <2>2. Transcript(u, 9) = Transcript(u, 8)
    BY <2>1, TranscriptStays
  <2>3. Transcript(u, 9) = Say(u, 0, Transcript(u, 8))
    BY <2>1, <2>2 DEF Say
  <2> QED
    BY <2>1, <2>3 DEF Turn, Places
<1>11. Turn(u, 9, 10, 10)
  <2>1. Passes(u, 9, 10, 10) /\ 10 \in Lines(u)
    BY <1>0 DEF Lines13, Wanted, Signs, Passes, PassedOver
  <2>2. Transcript(u, 10) = Say(u, 10, Transcript(u, 9))
    BY <2>1, TranscriptStays, TranscriptIs
  <2>3. 10 - 1 = 9 /\ Transcript(u, 9) = Transcript(u, 9)
    BY <2>2
  <2>4. Transcript(u, 10) = Say(u, 10, Transcript(u, 9))
    BY <2>2, <2>3
  <2> QED
    BY <2>1, <2>3, <2>4 DEF Turn, Places
<1>12. Turn(u, 10, 11, 11)
  <2>1. Passes(u, 10, 11, 11) /\ 11 \in Lines(u)
    BY <1>0 DEF Lines13, Wanted, Signs, Passes, PassedOver
  <2>2. Transcript(u, 11) = Say(u, 11, Transcript(u, 10))
    BY <2>1, TranscriptStays, TranscriptIs
  <2>3. 11 - 1 = 10 /\ Transcript(u, 10) = Transcript(u, 10)
    BY <2>2
  <2>4. Transcript(u, 11) = Say(u, 11, Transcript(u, 10))
    BY <2>2, <2>3
  <2> QED
    BY <2>1, <2>3, <2>4 DEF Turn, Places
<1>13. Turn(u, 11, 12, 12)
  <2>1. Passes(u, 11, 12, 12) /\ 12 \in Lines(u)
    BY <1>0 DEF Lines13, Wanted, Signs, Passes, PassedOver
  <2>2. Transcript(u, 12) = Say(u, 12, Transcript(u, 11))
    BY <2>1, TranscriptStays, TranscriptIs
  <2>3. 12 - 1 = 11 /\ Transcript(u, 11) = Transcript(u, 11)
    BY <2>2
  <2>4. Transcript(u, 12) = Say(u, 12, Transcript(u, 11))
    BY <2>2, <2>3
  <2> QED
    BY <2>1, <2>3, <2>4 DEF Turn, Places
<1>14. ASSUME ~ u.shareRefused
      PROVE  Turn(u, 12, 13, 13)
  <2>1. Passes(u, 12, 13, 13) /\ 13 \in Lines(u)
    BY <1>0, <1>14 DEF Lines13, Wanted, Signs, Passes, PassedOver
  <2>2. Transcript(u, 13) = Say(u, 13, Transcript(u, 12))
    BY <2>1, TranscriptStays, TranscriptIs
  <2>3. 13 - 1 = 12 /\ Transcript(u, 12) = Transcript(u, 12)
    BY <2>2
  <2>4. Transcript(u, 13) = Say(u, 13, Transcript(u, 12))
    BY <2>2, <2>3
  <2> QED
    BY <2>1, <2>3, <2>4 DEF Turn, Places
<1>15. ASSUME u.shareRefused
      PROVE  Turn(u, 12, 13, 0)
  <2>1. Passes(u, 12, 13, 0) /\ 0 \notin Lines(u)
    BY <1>0, <1>15 DEF Lines13, Wanted, Signs, Passes, PassedOver
  <2>2. Transcript(u, 13) = Transcript(u, 12)
    BY <2>1, TranscriptStays
  <2>3. Transcript(u, 13) = Say(u, 0, Transcript(u, 12))
    BY <2>1, <2>2 DEF Say
  <2> QED
    BY <2>1, <2>3 DEF Turn, Places
<1>16. ASSUME Signs(u)
      PROVE  Turn(u, 13, 14, 14)
  <2>1. Passes(u, 13, 14, 14) /\ 14 \in Lines(u)
    BY <1>0, <1>16 DEF Lines13, Wanted, Signs, Passes, PassedOver
  <2>2. Transcript(u, 14) = Say(u, 14, Transcript(u, 13))
    BY <2>1, TranscriptStays, TranscriptIs
  <2>3. 14 - 1 = 13 /\ Transcript(u, 13) = Transcript(u, 13)
    BY <2>2
  <2>4. Transcript(u, 14) = Say(u, 14, Transcript(u, 13))
    BY <2>2, <2>3
  <2> QED
    BY <2>1, <2>3, <2>4 DEF Turn, Places
<1>17. ASSUME Wanted(u) /\ ~ Signs(u)
      PROVE  Turn(u, 13, 15, 14)
  <2>1. /\ Passes(u, 13, 15, 14) /\ 14 \in Lines(u)
        /\ 15 \notin Lines(u)
    BY <1>0, <1>17 DEF Lines13, Wanted, Signs, Passes, PassedOver
  <2>2. /\ Transcript(u, 14) = Say(u, 14, Transcript(u, 13))
        /\ Transcript(u, 15) = Transcript(u, 14)
    BY <2>1, TranscriptStays, TranscriptIs
  <2>3. 14 - 1 = 13 /\ Transcript(u, 13) = Transcript(u, 13)
    BY <2>2
  <2>4. Transcript(u, 15) = Say(u, 14, Transcript(u, 13))
    BY <2>2, <2>3
  <2> QED
    BY <2>1, <2>3, <2>4 DEF Turn, Places
<1>18. ASSUME ~ Wanted(u)
      PROVE  Turn(u, 13, 15, 0)
  <2>1. /\ Passes(u, 13, 15, 0) /\ 0 \notin Lines(u)
        /\ 14 \notin Lines(u) /\ 15 \notin Lines(u)
    BY <1>0, <1>18 DEF Lines13, Wanted, Signs, Passes, PassedOver
  <2>2. /\ Transcript(u, 14) = Transcript(u, 13) /\ Transcript(u, 15) = Transcript(u, 14)
    BY <2>1, TranscriptStays
  <2>3. Transcript(u, 15) = Say(u, 0, Transcript(u, 13))
    BY <2>1, <2>2 DEF Say
  <2> QED
    BY <2>1, <2>3 DEF Turn, Places
<1>19. ASSUME Signs(u)
      PROVE  Turn(u, 14, 15, 15)
  <2>1. Passes(u, 14, 15, 15) /\ 15 \in Lines(u)
    BY <1>0, <1>19 DEF Lines13, Wanted, Signs, Passes, PassedOver
  <2>2. Transcript(u, 15) = Say(u, 15, Transcript(u, 14))
    BY <2>1, TranscriptStays, TranscriptIs
  <2>3. 15 - 1 = 14 /\ Transcript(u, 14) = Transcript(u, 14)
    BY <2>2
  <2>4. Transcript(u, 15) = Say(u, 15, Transcript(u, 14))
    BY <2>2, <2>3
  <2> QED
    BY <2>1, <2>3, <2>4 DEF Turn, Places
<1>20. Turn(u, 15, 16, 16)
  <2>1. Passes(u, 15, 16, 16) /\ 16 \in Lines(u)
    BY <1>0 DEF Lines13, Wanted, Signs, Passes, PassedOver
  <2>2. Transcript(u, 16) = Say(u, 16, Transcript(u, 15))
    BY <2>1, TranscriptStays, TranscriptIs
  <2>3. 16 - 1 = 15 /\ Transcript(u, 15) = Transcript(u, 15)
    BY <2>2
  <2>4. Transcript(u, 16) = Say(u, 16, Transcript(u, 15))
    BY <2>2, <2>3
  <2> QED
    BY <2>1, <2>3, <2>4 DEF Turn, Places
<1>21. ASSUME ~ u.shareRefused
      PROVE  Turn(u, 0, 5, 1)
  <2>1. /\ Passes(u, 0, 5, 1) /\ 1 \in Lines(u)
        /\ 2 \notin Lines(u) /\ 5 \notin Lines(u)
    BY <1>0, <1>21 DEF Lines13, Wanted, Signs, Passes, PassedOver
  <2>2. /\ Transcript(u, 1) = Say(u, 1, Transcript(u, 0)) /\ Transcript(u, 2) = Transcript(u, 1)
        /\ Transcript(u, 3) = Transcript(u, 2) /\ Transcript(u, 4) = Transcript(u, 3)
        /\ Transcript(u, 5) = Transcript(u, 4)
    BY <2>1, TranscriptStays, TranscriptIs
  <2>3. 1 - 1 = 0 /\ Transcript(u, 0) = Transcript(u, 0)
    BY <2>2
  <2>4. Transcript(u, 5) = Say(u, 1, Transcript(u, 0))
    BY <2>2, <2>3
  <2> QED
    BY <2>1, <2>3, <2>4 DEF Turn, Places
<1>22. ASSUME u.shareRefused
      PROVE  Turn(u, 3, 5, 5)
  <2>1. Passes(u, 3, 5, 5) /\ 5 \in Lines(u)
    BY <1>0, <1>22 DEF Lines13, Wanted, Signs, Passes, PassedOver
  <2>2. /\ Transcript(u, 4) = Transcript(u, 3) /\ Transcript(u, 5) = Say(u, 5, Transcript(u, 4))
    BY <2>1, TranscriptStays, TranscriptIs
  <2>3. 5 - 1 = 4 /\ Transcript(u, 4) = Transcript(u, 3)
    BY <2>2
  <2>4. Transcript(u, 5) = Say(u, 5, Transcript(u, 3))
    BY <2>2, <2>3
  <2> QED
    BY <2>1, <2>3, <2>4 DEF Turn, Places
<1>23. ASSUME u.shareRefused
      PROVE  Turn(u, 1, 2, 2)
  <2>1. Passes(u, 1, 2, 2) /\ 2 \in Lines(u)
    BY <1>0, <1>23 DEF Lines13, Wanted, Signs, Passes, PassedOver
  <2> QED
    BY <2>1 DEF Turn, Places
<1>24. ASSUME u.shareRefused
      PROVE  Turn(u, 2, 3, 3)
  <2>1. Passes(u, 2, 3, 3) /\ 3 \in Lines(u)
    BY <1>0, <1>24 DEF Lines13, Wanted, Signs, Passes, PassedOver
  <2>2. Transcript(u, 3) = Say(u, 3, Transcript(u, 2))
    BY <2>1, TranscriptStays, TranscriptIs
  <2>3. 3 - 1 = 2 /\ Transcript(u, 2) = Transcript(u, 2)
    BY <2>2
  <2>4. Transcript(u, 3) = Say(u, 3, Transcript(u, 2))
    BY <2>2, <2>3
  <2> QED
    BY <2>1, <2>3, <2>4 DEF Turn, Places
<1>25. ASSUME ~ u.shareRefused
      PROVE  Turn(u, 6, 7, 7)
  <2>1. Passes(u, 6, 7, 7) /\ 7 \in Lines(u)
    BY <1>0, <1>25 DEF Lines13, Wanted, Signs, Passes, PassedOver
  <2>2. Transcript(u, 7) = Say(u, 7, Transcript(u, 6))
    BY <2>1, TranscriptStays, TranscriptIs
  <2>3. 7 - 1 = 6 /\ Transcript(u, 6) = Transcript(u, 6)
    BY <2>2
  <2>4. Transcript(u, 7) = Say(u, 7, Transcript(u, 6))
    BY <2>2, <2>3
  <2> QED
    BY <2>1, <2>3, <2>4 DEF Turn, Places
<1>26. ASSUME u.shareRefused
      PROVE  Turn(u, 6, 7, 0)
  <2>1. Passes(u, 6, 7, 0) /\ 0 \notin Lines(u)
    BY <1>0, <1>26 DEF Lines13, Wanted, Signs, Passes, PassedOver
  <2>2. Transcript(u, 7) = Transcript(u, 6)
    BY <2>1, TranscriptStays
  <2>3. Transcript(u, 7) = Say(u, 0, Transcript(u, 6))
    BY <2>1, <2>2 DEF Say
  <2> QED
    BY <2>1, <2>3 DEF Turn, Places
<1>27. Turn(u, 11, 13, 12)
  <2>1. Passes(u, 11, 13, 12) /\ 12 \in Lines(u)
    BY <1>0 DEF Lines13, Wanted, Signs, Passes, PassedOver
  <2>2. /\ Transcript(u, 12) = Say(u, 12, Transcript(u, 11))
        /\ Transcript(u, 13) = Transcript(u, 12)
    BY <2>1, TranscriptStays, TranscriptIs
  <2>3. 12 - 1 = 11 /\ Transcript(u, 11) = Transcript(u, 11)
    BY <2>2
  <2>4. Transcript(u, 13) = Say(u, 12, Transcript(u, 11))
    BY <2>2, <2>3
  <2> QED
    BY <2>1, <2>3, <2>4 DEF Turn, Places
<1>28. ASSUME ~ Wanted(u)
      PROVE  Turn(u, 11, 15, 12)
  <2>1. /\ Passes(u, 11, 15, 12) /\ 12 \in Lines(u)
        /\ 14 \notin Lines(u) /\ 15 \notin Lines(u)
    BY <1>0, <1>28 DEF Lines13, Wanted, Signs, Passes, PassedOver
  <2>2. /\ Transcript(u, 12) = Say(u, 12, Transcript(u, 11))
        /\ Transcript(u, 13) = Transcript(u, 12)
        /\ Transcript(u, 14) = Transcript(u, 13) /\ Transcript(u, 15) = Transcript(u, 14)
    BY <2>1, TranscriptStays, TranscriptIs
  <2>3. 12 - 1 = 11 /\ Transcript(u, 11) = Transcript(u, 11)
    BY <2>2
  <2>4. Transcript(u, 15) = Say(u, 12, Transcript(u, 11))
    BY <2>2, <2>3
  <2> QED
    BY <2>1, <2>3, <2>4 DEF Turn, Places
<1>29. ASSUME ~ Wanted(u)
      PROVE  Turn(u, 8, 10, 10)
  <2>1. /\ Passes(u, 8, 10, 10) /\ 10 \in Lines(u)
        /\ 9 \notin Lines(u)
    BY <1>0, <1>29 DEF Lines13, Wanted, Signs, Passes, PassedOver
  <2>2. /\ Transcript(u, 9) = Transcript(u, 8) /\ Transcript(u, 10) = Say(u, 10, Transcript(u, 9))
    BY <2>1, TranscriptStays, TranscriptIs
  <2>3. 10 - 1 = 9 /\ Transcript(u, 9) = Transcript(u, 8)
    BY <2>2
  <2>4. Transcript(u, 10) = Say(u, 10, Transcript(u, 8))
    BY <2>2, <2>3
  <2> QED
    BY <2>1, <2>3, <2>4 DEF Turn, Places
<1> QED
  BY <1>1, <1>2, <1>3, <1>4, <1>5, <1>6, <1>7, <1>8, <1>9, <1>10, <1>11, <1>12, <1>13, <1>14, <1>15,
     <1>16, <1>17, <1>18, <1>19, <1>20, <1>21, <1>22, <1>23, <1>24, <1>25, <1>26, <1>27, <1>28,
     <1>29

\* The turns of TLS 1.2.
LEMMA Turns12 ==
    ASSUME NEW u, V12(u)
    PROVE
    /\ Turn(u, 0, 1, 1)
    /\ Turn(u, 1, 17, 17)
    /\ Turn(u, 17, 18, 18)
    /\ ~ u.rsa => Turn(u, 18, 19, 19)
    /\ u.rsa => Turn(u, 18, 19, 0)
    /\ Wanted(u) => Turn(u, 19, 20, 20)
    /\ ~ Wanted(u) => Turn(u, 19, 20, 0)
    /\ Turn(u, 20, 21, 21)
    /\ Wanted(u) => Turn(u, 21, 22, 22)
    /\ ~ Wanted(u) => Turn(u, 21, 22, 0)
    /\ Turn(u, 22, 23, 23)
    /\ Signs(u) => Turn(u, 23, 24, 24)
    /\ ~ Signs(u) => Turn(u, 23, 24, 0)
    /\ Turn(u, 24, 25, 25)
    /\ Turn(u, 25, 26, 26)
    /\ ~ u.ticket => Turn(u, 25, 27, 26)
    /\ u.ticket => Turn(u, 26, 27, 27)
    /\ Turn(u, 27, 28, 28)
    /\ Turn(u, 28, 29, 29)
    /\ ~ Wanted(u) => Turn(u, 19, 21, 21)
<1>0. Lines(u) = Lines12(u)
  BY DEF Lines
<1>1. Turn(u, 0, 1, 1)
  <2>1. Passes(u, 0, 1, 1) /\ 1 \in Lines(u)
    BY <1>0 DEF Lines12, Wanted, Signs, Passes, PassedOver
  <2>2. Transcript(u, 1) = Say(u, 1, Transcript(u, 0))
    BY <2>1, TranscriptStays, TranscriptIs
  <2>3. 1 - 1 = 0 /\ Transcript(u, 0) = Transcript(u, 0)
    BY <2>2
  <2>4. Transcript(u, 1) = Say(u, 1, Transcript(u, 0))
    BY <2>2, <2>3
  <2> QED
    BY <2>1, <2>3, <2>4 DEF Turn, Places
<1>2. Turn(u, 1, 17, 17)
  <2>1. /\ Passes(u, 1, 17, 17) /\ 17 \in Lines(u)
        /\ 2 \notin Lines(u) /\ 5 \notin Lines(u) /\ 6 \notin Lines(u) /\ 8 \notin Lines(u)
        /\ 9 \notin Lines(u) /\ 10 \notin Lines(u) /\ 11 \notin Lines(u) /\ 12 \notin Lines(u)
        /\ 14 \notin Lines(u) /\ 15 \notin Lines(u) /\ 16 \notin Lines(u)
    BY <1>0 DEF Lines12, Wanted, Signs, Passes, PassedOver
  <2>2. /\ Transcript(u, 2) = Transcript(u, 1) /\ Transcript(u, 3) = Transcript(u, 2)
        /\ Transcript(u, 4) = Transcript(u, 3) /\ Transcript(u, 5) = Transcript(u, 4)
        /\ Transcript(u, 6) = Transcript(u, 5) /\ Transcript(u, 7) = Transcript(u, 6)
        /\ Transcript(u, 8) = Transcript(u, 7) /\ Transcript(u, 9) = Transcript(u, 8)
        /\ Transcript(u, 10) = Transcript(u, 9) /\ Transcript(u, 11) = Transcript(u, 10)
        /\ Transcript(u, 12) = Transcript(u, 11) /\ Transcript(u, 13) = Transcript(u, 12)
        /\ Transcript(u, 14) = Transcript(u, 13) /\ Transcript(u, 15) = Transcript(u, 14)
        /\ Transcript(u, 16) = Transcript(u, 15)
        /\ Transcript(u, 17) = Say(u, 17, Transcript(u, 16))
    <3>1. /\ Transcript(u, 2) = Transcript(u, 1) /\ Transcript(u, 3) = Transcript(u, 2)
          /\ Transcript(u, 4) = Transcript(u, 3) /\ Transcript(u, 5) = Transcript(u, 4)
          /\ Transcript(u, 6) = Transcript(u, 5)
      BY <2>1, TranscriptStays
    <3>2. /\ Transcript(u, 7) = Transcript(u, 6) /\ Transcript(u, 8) = Transcript(u, 7)
          /\ Transcript(u, 9) = Transcript(u, 8) /\ Transcript(u, 10) = Transcript(u, 9)
          /\ Transcript(u, 11) = Transcript(u, 10)
      BY <2>1, TranscriptStays
    <3>3. /\ Transcript(u, 12) = Transcript(u, 11) /\ Transcript(u, 13) = Transcript(u, 12)
          /\ Transcript(u, 14) = Transcript(u, 13) /\ Transcript(u, 15) = Transcript(u, 14)
          /\ Transcript(u, 16) = Transcript(u, 15)
      BY <2>1, TranscriptStays
    <3>4. /\ Transcript(u, 17) = Say(u, 17, Transcript(u, 16))
      BY <2>1, TranscriptStays, TranscriptIs
    <3> QED
      BY <3>1, <3>2, <3>3, <3>4
  <2>3. 17 - 1 = 16 /\ Transcript(u, 16) = Transcript(u, 1)
    BY <2>2
  <2>4. Transcript(u, 17) = Say(u, 17, Transcript(u, 1))
    BY <2>2, <2>3
  <2> QED
    BY <2>1, <2>3, <2>4 DEF Turn, Places
<1>3. Turn(u, 17, 18, 18)
  <2>1. Passes(u, 17, 18, 18) /\ 18 \in Lines(u)
    BY <1>0 DEF Lines12, Wanted, Signs, Passes, PassedOver
  <2>2. Transcript(u, 18) = Say(u, 18, Transcript(u, 17))
    BY <2>1, TranscriptStays, TranscriptIs
  <2>3. 18 - 1 = 17 /\ Transcript(u, 17) = Transcript(u, 17)
    BY <2>2
  <2>4. Transcript(u, 18) = Say(u, 18, Transcript(u, 17))
    BY <2>2, <2>3
  <2> QED
    BY <2>1, <2>3, <2>4 DEF Turn, Places
<1>4. ASSUME ~ u.rsa
      PROVE  Turn(u, 18, 19, 19)
  <2>1. Passes(u, 18, 19, 19) /\ 19 \in Lines(u)
    BY <1>0, <1>4 DEF Lines12, Wanted, Signs, Passes, PassedOver
  <2>2. Transcript(u, 19) = Say(u, 19, Transcript(u, 18))
    BY <2>1, TranscriptStays, TranscriptIs
  <2>3. 19 - 1 = 18 /\ Transcript(u, 18) = Transcript(u, 18)
    BY <2>2
  <2>4. Transcript(u, 19) = Say(u, 19, Transcript(u, 18))
    BY <2>2, <2>3
  <2> QED
    BY <2>1, <2>3, <2>4 DEF Turn, Places
<1>5. ASSUME u.rsa
      PROVE  Turn(u, 18, 19, 0)
  <2>1. /\ Passes(u, 18, 19, 0) /\ 0 \notin Lines(u)
        /\ 19 \notin Lines(u)
    BY <1>0, <1>5 DEF Lines12, Wanted, Signs, Passes, PassedOver
  <2>2. Transcript(u, 19) = Transcript(u, 18)
    BY <2>1, TranscriptStays
  <2>3. Transcript(u, 19) = Say(u, 0, Transcript(u, 18))
    BY <2>1, <2>2 DEF Say
  <2> QED
    BY <2>1, <2>3 DEF Turn, Places
<1>6. ASSUME Wanted(u)
      PROVE  Turn(u, 19, 20, 20)
  <2>1. Passes(u, 19, 20, 20) /\ 20 \in Lines(u)
    BY <1>0, <1>6 DEF Lines12, Wanted, Signs, Passes, PassedOver
  <2>2. Transcript(u, 20) = Say(u, 20, Transcript(u, 19))
    BY <2>1, TranscriptStays, TranscriptIs
  <2>3. 20 - 1 = 19 /\ Transcript(u, 19) = Transcript(u, 19)
    BY <2>2
  <2>4. Transcript(u, 20) = Say(u, 20, Transcript(u, 19))
    BY <2>2, <2>3
  <2> QED
    BY <2>1, <2>3, <2>4 DEF Turn, Places
<1>7. ASSUME ~ Wanted(u)
      PROVE  Turn(u, 19, 20, 0)
  <2>1. /\ Passes(u, 19, 20, 0) /\ 0 \notin Lines(u)
        /\ 20 \notin Lines(u)
    BY <1>0, <1>7 DEF Lines12, Wanted, Signs, Passes, PassedOver
  <2>2. Transcript(u, 20) = Transcript(u, 19)
    BY <2>1, TranscriptStays
  <2>3. Transcript(u, 20) = Say(u, 0, Transcript(u, 19))
    BY <2>1, <2>2 DEF Say
  <2> QED
    BY <2>1, <2>3 DEF Turn, Places
<1>8. Turn(u, 20, 21, 21)
  <2>1. Passes(u, 20, 21, 21) /\ 21 \in Lines(u)
    BY <1>0 DEF Lines12, Wanted, Signs, Passes, PassedOver
  <2>2. Transcript(u, 21) = Say(u, 21, Transcript(u, 20))
    BY <2>1, TranscriptStays, TranscriptIs
  <2>3. 21 - 1 = 20 /\ Transcript(u, 20) = Transcript(u, 20)
    BY <2>2
  <2>4. Transcript(u, 21) = Say(u, 21, Transcript(u, 20))
    BY <2>2, <2>3
  <2> QED
    BY <2>1, <2>3, <2>4 DEF Turn, Places
<1>9. ASSUME Wanted(u)
      PROVE  Turn(u, 21, 22, 22)
  <2>1. Passes(u, 21, 22, 22) /\ 22 \in Lines(u)
    BY <1>0, <1>9 DEF Lines12, Wanted, Signs, Passes, PassedOver
  <2>2. Transcript(u, 22) = Say(u, 22, Transcript(u, 21))
    BY <2>1, TranscriptStays, TranscriptIs
  <2>3. 22 - 1 = 21 /\ Transcript(u, 21) = Transcript(u, 21)
    BY <2>2
  <2>4. Transcript(u, 22) = Say(u, 22, Transcript(u, 21))
    BY <2>2, <2>3
  <2> QED
    BY <2>1, <2>3, <2>4 DEF Turn, Places
<1>10. ASSUME ~ Wanted(u)
      PROVE  Turn(u, 21, 22, 0)
  <2>1. /\ Passes(u, 21, 22, 0) /\ 0 \notin Lines(u)
        /\ 22 \notin Lines(u)
    BY <1>0, <1>10 DEF Lines12, Wanted, Signs, Passes, PassedOver
  <2>2. Transcript(u, 22) = Transcript(u, 21)
    BY <2>1, TranscriptStays
  <2>3. Transcript(u, 22) = Say(u, 0, Transcript(u, 21))
    BY <2>1, <2>2 DEF Say
  <2> QED
    BY <2>1, <2>3 DEF Turn, Places
<1>11. Turn(u, 22, 23, 23)
  <2>1. Passes(u, 22, 23, 23) /\ 23 \in Lines(u)
    BY <1>0 DEF Lines12, Wanted, Signs, Passes, PassedOver
  <2>2. Transcript(u, 23) = Say(u, 23, Transcript(u, 22))
    BY <2>1, TranscriptStays, TranscriptIs
  <2>3. 23 - 1 = 22 /\ Transcript(u, 22) = Transcript(u, 22)
    BY <2>2
  <2>4. Transcript(u, 23) = Say(u, 23, Transcript(u, 22))
    BY <2>2, <2>3
  <2> QED
    BY <2>1, <2>3, <2>4 DEF Turn, Places
<1>12. ASSUME Signs(u)
      PROVE  Turn(u, 23, 24, 24)
  <2>1. Passes(u, 23, 24, 24) /\ 24 \in Lines(u)
    BY <1>0, <1>12 DEF Lines12, Wanted, Signs, Passes, PassedOver
  <2>2. Transcript(u, 24) = Say(u, 24, Transcript(u, 23))
    BY <2>1, TranscriptStays, TranscriptIs
  <2>3. 24 - 1 = 23 /\ Transcript(u, 23) = Transcript(u, 23)
    BY <2>2
  <2>4. Transcript(u, 24) = Say(u, 24, Transcript(u, 23))
    BY <2>2, <2>3
  <2> QED
    BY <2>1, <2>3, <2>4 DEF Turn, Places
<1>13. ASSUME ~ Signs(u)
      PROVE  Turn(u, 23, 24, 0)
  <2>1. /\ Passes(u, 23, 24, 0) /\ 0 \notin Lines(u)
        /\ 24 \notin Lines(u)
    BY <1>0, <1>13 DEF Lines12, Wanted, Signs, Passes, PassedOver
  <2>2. Transcript(u, 24) = Transcript(u, 23)
    BY <2>1, TranscriptStays
  <2>3. Transcript(u, 24) = Say(u, 0, Transcript(u, 23))
    BY <2>1, <2>2 DEF Say
  <2> QED
    BY <2>1, <2>3 DEF Turn, Places
<1>14. Turn(u, 24, 25, 25)
  <2>1. Passes(u, 24, 25, 25) /\ 25 \in Lines(u)
    BY <1>0 DEF Lines12, Wanted, Signs, Passes, PassedOver
  <2>2. Transcript(u, 25) = Say(u, 25, Transcript(u, 24))
    BY <2>1, TranscriptStays, TranscriptIs
  <2>3. 25 - 1 = 24 /\ Transcript(u, 24) = Transcript(u, 24)
    BY <2>2
  <2>4. Transcript(u, 25) = Say(u, 25, Transcript(u, 24))
    BY <2>2, <2>3
  <2> QED
    BY <2>1, <2>3, <2>4 DEF Turn, Places
<1>15. Turn(u, 25, 26, 26)
  <2>1. Passes(u, 25, 26, 26) /\ 26 \in Lines(u)
    BY <1>0 DEF Lines12, Wanted, Signs, Passes, PassedOver
  <2>2. Transcript(u, 26) = Say(u, 26, Transcript(u, 25))
    BY <2>1, TranscriptStays, TranscriptIs
  <2>3. 26 - 1 = 25 /\ Transcript(u, 25) = Transcript(u, 25)
    BY <2>2
  <2>4. Transcript(u, 26) = Say(u, 26, Transcript(u, 25))
    BY <2>2, <2>3
  <2> QED
    BY <2>1, <2>3, <2>4 DEF Turn, Places
<1>16. ASSUME ~ u.ticket
      PROVE  Turn(u, 25, 27, 26)
  <2>1. /\ Passes(u, 25, 27, 26) /\ 26 \in Lines(u)
        /\ 27 \notin Lines(u)
    BY <1>0, <1>16 DEF Lines12, Wanted, Signs, Passes, PassedOver
  <2>2. /\ Transcript(u, 26) = Say(u, 26, Transcript(u, 25))
        /\ Transcript(u, 27) = Transcript(u, 26)
    BY <2>1, TranscriptStays, TranscriptIs
  <2>3. 26 - 1 = 25 /\ Transcript(u, 25) = Transcript(u, 25)
    BY <2>2
  <2>4. Transcript(u, 27) = Say(u, 26, Transcript(u, 25))
    BY <2>2, <2>3
  <2> QED
    BY <2>1, <2>3, <2>4 DEF Turn, Places
<1>17. ASSUME u.ticket
      PROVE  Turn(u, 26, 27, 27)
  <2>1. Passes(u, 26, 27, 27) /\ 27 \in Lines(u)
    BY <1>0, <1>17 DEF Lines12, Wanted, Signs, Passes, PassedOver
  <2>2. Transcript(u, 27) = Say(u, 27, Transcript(u, 26))
    BY <2>1, TranscriptStays, TranscriptIs
  <2>3. 27 - 1 = 26 /\ Transcript(u, 26) = Transcript(u, 26)
    BY <2>2
  <2>4. Transcript(u, 27) = Say(u, 27, Transcript(u, 26))
    BY <2>2, <2>3
  <2> QED
    BY <2>1, <2>3, <2>4 DEF Turn, Places
<1>18. Turn(u, 27, 28, 28)
  <2>1. Passes(u, 27, 28, 28) /\ 28 \in Lines(u)
    BY <1>0 DEF Lines12, Wanted, Signs, Passes, PassedOver
  <2>2. Transcript(u, 28) = Say(u, 28, Transcript(u, 27))
    BY <2>1, TranscriptStays, TranscriptIs
  <2>3. 28 - 1 = 27 /\ Transcript(u, 27) = Transcript(u, 27)
    BY <2>2
  <2>4. Transcript(u, 28) = Say(u, 28, Transcript(u, 27))
    BY <2>2, <2>3
  <2> QED
    BY <2>1, <2>3, <2>4 DEF Turn, Places
<1>19. Turn(u, 28, 29, 29)
  <2>1. Passes(u, 28, 29, 29) /\ 29 \in Lines(u)
    BY <1>0 DEF Lines12, Wanted, Signs, Passes, PassedOver
  <2>2. Transcript(u, 29) = Say(u, 29, Transcript(u, 28))
    BY <2>1, TranscriptStays, TranscriptIs
  <2>3. 29 - 1 = 28 /\ Transcript(u, 28) = Transcript(u, 28)
    BY <2>2
  <2>4. Transcript(u, 29) = Say(u, 29, Transcript(u, 28))
    BY <2>2, <2>3
  <2> QED
    BY <2>1, <2>3, <2>4 DEF Turn, Places
<1>20. ASSUME ~ Wanted(u)
      PROVE  Turn(u, 19, 21, 21)
  <2>1. /\ Passes(u, 19, 21, 21) /\ 21 \in Lines(u)
        /\ 20 \notin Lines(u)
    BY <1>0, <1>20 DEF Lines12, Wanted, Signs, Passes, PassedOver
  <2>2. /\ Transcript(u, 20) = Transcript(u, 19)
        /\ Transcript(u, 21) = Say(u, 21, Transcript(u, 20))
    BY <2>1, TranscriptStays, TranscriptIs
  <2>3. 21 - 1 = 20 /\ Transcript(u, 20) = Transcript(u, 19)
    BY <2>2
  <2>4. Transcript(u, 21) = Say(u, 21, Transcript(u, 19))
    BY <2>2, <2>3
  <2> QED
    BY <2>1, <2>3, <2>4 DEF Turn, Places
<1> QED
  BY <1>1, <1>2, <1>3, <1>4, <1>5, <1>6, <1>7, <1>8, <1>9, <1>10, <1>11, <1>12, <1>13, <1>14, <1>15,
     <1>16, <1>17, <1>18, <1>19, <1>20

-----------------------------------------------------------------------------
(* What an end waits for.                                                  *)

\* The end e waits for line k.
Expects(e, k) ==
    /\ k \in Lines(setup) \ PassedOver /\ Speaker(k) = Other(e)
    /\ Reached(e) < k /\ Passes(setup, Reached(e), k, k)
    /\ Type(k) \in Takes(e) /\ Key(k) = ssl[e].inKey
    /\ ~ ssl[e].keep => ssl[e].checksum = Transcript(setup, k - 1)

\* The line of a turn is the first that matters.
LEMMA TurnTo ==
    ASSUME NEW u, NEW p, NEW q, NEW k, Turn(u, p, q, k), k # 0
    PROVE  /\ k \in Lines(u) /\ p < k /\ Passes(u, p, k, k)
           /\ Transcript(u, k - 1) = Transcript(u, p)
<1>1. /\ k \in Lines(u) /\ p < k /\ k <= q /\ Passes(u, p, q, k)
      /\ Transcript(u, k - 1) = Transcript(u, p)
      /\ q \in Nat /\ k \in Nat
  BY LinesAre DEF Turn, Places
<1>2. \A j \in Lines(u) : j \in Nat
  BY LinesAre
<1>3. Passes(u, p, k, k)
  BY <1>1, <1>2 DEF Passes
<1> QED
  BY <1>1, <1>3

\* A place is one of the script.
LEMMA PlaceIs ==
    ASSUME NEW e, NEW s
    PROVE  Place(e, s) \in Places /\ Place(e, s) \in Nat
<1>1. Place12(s) \in Places
  BY DEF Place12, Places
<1>2. ClientPlace13(s) \in Places
  BY DEF ClientPlace13, Places
<1>3. ServerPlace13(s) \in Places
  BY DEF ServerPlace13, Places
<1> QED
  BY <1>1, <1>2, <1>3 DEF Place, Places

\* The client, before it is clear which version it will be.
LEMMA ClientExpects13 ==
    ASSUME IInv, InStep, ssl["client"].version = "tls13", Takes("client") # {}
    PROVE  Expects("client", NextLine(setup, Reached("client")))
<1> DEFINE u == setup
           s == ssl["client"]
           t == Takes("client")
<1>1. /\ Client13Fits(u, s) /\ Reached("client") = ClientPlace13(s)
      /\ u \in Setup /\ s.keep \in BOOLEAN
  <2>1. "client" \in Ends
    BY DEF Ends
  <2>2. FitsPlace(u, "client", s) /\ u \in Setup /\ s \in Context
    BY <2>1, EndAt DEF InStep
  <2> QED
    BY <2>2 DEF FitsPlace, Reached, Place, Context
<1>2. /\ t = Takes13("client", s.state)
      /\ s.state \in {"SERVER_HELLO", "ENCRYPTED_EXTENSIONS", "CERTIFICATE_REQUEST",
                      "SERVER_CERTIFICATE", "CERTIFICATE_VERIFY", "SERVER_FINISHED"}
    BY DEF Takes, Takes13
<1>3. Other("client") = "server"
  BY DEF Other
<1> HIDE DEF u, s, t
<1>4. ASSUME s.state = "SERVER_HELLO", s.retried
      PROVE  Expects("client", NextLine(u, Reached("client")))
  <2>1. Reached("client") = 5 /\ s.inKey = Key(6) /\ ~ V12(u)
    BY <1>1, <1>4 DEF Client13Fits, ClientPlace13, Key, Retries
  <2>2. NextLine(u, 5) = 6
    BY <1>1, <2>1, <1>4 DEF Client13Fits, ClientPlace13, NextLine, Next13, Retries, Signs
  <2>3. Type(6) \in t
    BY <1>1, <1>2, <1>4, TypeIs DEF Client13Fits, ClientPlace13, Takes13, AnyMessage, u, s, Wanted,
       Signs
  <2>4. Turn(u, 5, 6, 6)
    BY <1>1, <2>1, <1>4, Turns13 DEF Client13Fits, ClientPlace13, Retries, Signs
  <2>5. Speaker(6) = Other("client") /\ 6 \notin PassedOver
    BY <1>3 DEF Speaker, PassedOver
  <2>6. ~ s.keep => s.checksum = Transcript(u, 5)
    BY <1>1, <2>1, <1>4 DEF Client13Fits, ClientPlace13
  <2> QED
    BY <1>1, <2>1, <2>2, <2>3, <2>4, <2>5, <2>6, TurnTo DEF Expects, u, s, t
<1>5. ASSUME s.state = "SERVER_HELLO", ~ s.retried, ~ V12(u), u.shareRefused
      PROVE  Expects("client", NextLine(u, Reached("client")))
  <2>1. Reached("client") = 1 /\ s.inKey = Key(2) /\ ~ V12(u)
    BY <1>1, <1>5 DEF Client13Fits, ClientPlace13, Key, Retries
  <2>2. NextLine(u, 1) = 2
    BY <1>1, <2>1, <1>5 DEF Client13Fits, ClientPlace13, NextLine, Next13, Retries, Signs
  <2>3. Type(2) \in t
    BY <1>1, <1>2, <1>5, TypeIs DEF Client13Fits, ClientPlace13, Takes13, AnyMessage, u, s, Wanted,
       Signs
  <2>4. Turn(u, 1, 3, 2)
    BY <1>1, <2>1, <1>5, Turns13 DEF Client13Fits, ClientPlace13, Retries, Signs
  <2>5. Speaker(2) = Other("client") /\ 2 \notin PassedOver
    BY <1>3 DEF Speaker, PassedOver
  <2>6. ~ s.keep => s.checksum = Transcript(u, 1)
    BY <1>1, <2>1, <1>5 DEF Client13Fits, ClientPlace13
  <2> QED
    BY <1>1, <2>1, <2>2, <2>3, <2>4, <2>5, <2>6, TurnTo DEF Expects, u, s, t
<1>6. ASSUME s.state = "SERVER_HELLO", ~ s.retried, ~ V12(u), ~ u.shareRefused
      PROVE  Expects("client", NextLine(u, Reached("client")))
  <2>1. Reached("client") = 1 /\ s.inKey = Key(6) /\ ~ V12(u)
    BY <1>1, <1>6 DEF Client13Fits, ClientPlace13, Key, Retries
  <2>2. NextLine(u, 1) = 6
    BY <1>1, <2>1, <1>6 DEF Client13Fits, ClientPlace13, NextLine, Next13, Retries, Signs
  <2>3. Type(6) \in t
    BY <1>1, <1>2, <1>6, TypeIs DEF Client13Fits, ClientPlace13, Takes13, AnyMessage, u, s, Wanted,
       Signs
  <2>4. Turn(u, 1, 7, 6)
    BY <1>1, <2>1, <1>6, Turns13 DEF Client13Fits, ClientPlace13, Retries, Signs
  <2>5. Speaker(6) = Other("client") /\ 6 \notin PassedOver
    BY <1>3 DEF Speaker, PassedOver
  <2>6. ~ s.keep => s.checksum = Transcript(u, 1)
    BY <1>1, <2>1, <1>6 DEF Client13Fits, ClientPlace13
  <2> QED
    BY <1>1, <2>1, <2>2, <2>3, <2>4, <2>5, <2>6, TurnTo DEF Expects, u, s, t
<1>7. ASSUME s.state = "SERVER_HELLO", ~ s.retried, V12(u)
      PROVE  Expects("client", NextLine(u, Reached("client")))
  <2>1. Reached("client") = 1 /\ s.inKey = Key(17) /\ V12(u)
    BY <1>1, <1>7 DEF Client13Fits, ClientPlace13, Key, Retries
  <2>2. NextLine(u, 1) = 17
    BY <1>1, <2>1, <1>7 DEF Client13Fits, ClientPlace13, NextLine, Next12, Retries, Signs
  <2>3. Type(17) \in t
    BY <1>1, <1>2, <1>7, TypeIs DEF Client13Fits, ClientPlace13, Takes13, AnyMessage, u, s, Wanted,
       Signs
  <2>4. Turn(u, 1, 17, 17)
    BY <1>1, <2>1, <1>7, Turns12 DEF Client13Fits, ClientPlace13, Retries, Signs
  <2>5. Speaker(17) = Other("client") /\ 17 \notin PassedOver
    BY <1>3 DEF Speaker, PassedOver
  <2>6. ~ s.keep => s.checksum = Transcript(u, 1)
    BY <1>1, <2>1, <1>7 DEF Client13Fits, ClientPlace13
  <2> QED
    BY <1>1, <2>1, <2>2, <2>3, <2>4, <2>5, <2>6, TurnTo DEF Expects, u, s, t
<1>8. ASSUME s.state = "ENCRYPTED_EXTENSIONS"
      PROVE  Expects("client", NextLine(u, Reached("client")))
  <2>1. Reached("client") = 7 /\ s.inKey = Key(8) /\ ~ V12(u)
    BY <1>1, <1>8 DEF Client13Fits, ClientPlace13, Key, Retries
  <2>2. NextLine(u, 7) = 8
    BY <1>1, <2>1, <1>8 DEF Client13Fits, ClientPlace13, NextLine, Next13, Retries, Signs
  <2>3. Type(8) \in t
    BY <1>1, <1>2, <1>8, TypeIs DEF Client13Fits, ClientPlace13, Takes13, AnyMessage, u, s, Wanted,
       Signs
  <2>4. Turn(u, 7, 8, 8)
    BY <1>1, <2>1, <1>8, Turns13 DEF Client13Fits, ClientPlace13, Retries, Signs
  <2>5. Speaker(8) = Other("client") /\ 8 \notin PassedOver
    BY <1>3 DEF Speaker, PassedOver
  <2>6. ~ s.keep => s.checksum = Transcript(u, 7)
    BY <1>1, <2>1, <1>8 DEF Client13Fits, ClientPlace13
  <2> QED
    BY <1>1, <2>1, <2>2, <2>3, <2>4, <2>5, <2>6, TurnTo DEF Expects, u, s, t
<1>9. ASSUME s.state = "CERTIFICATE_REQUEST", Wanted(u)
      PROVE  Expects("client", NextLine(u, Reached("client")))
  <2>1. Reached("client") = 8 /\ s.inKey = Key(9) /\ ~ V12(u)
    BY <1>1, <1>9 DEF Client13Fits, ClientPlace13, Key, Retries
  <2>2. NextLine(u, 8) = 9
    BY <1>1, <2>1, <1>9 DEF Client13Fits, ClientPlace13, NextLine, Next13, Retries, Signs
  <2>3. Type(9) \in t
    BY <1>1, <1>2, <1>9, TypeIs DEF Client13Fits, ClientPlace13, Takes13, AnyMessage, u, s, Wanted,
       Signs
  <2>4. Turn(u, 8, 9, 9)
    BY <1>1, <2>1, <1>9, Turns13 DEF Client13Fits, ClientPlace13, Retries, Signs
  <2>5. Speaker(9) = Other("client") /\ 9 \notin PassedOver
    BY <1>3 DEF Speaker, PassedOver
  <2>6. ~ s.keep => s.checksum = Transcript(u, 8)
    BY <1>1, <2>1, <1>9 DEF Client13Fits, ClientPlace13
  <2> QED
    BY <1>1, <2>1, <2>2, <2>3, <2>4, <2>5, <2>6, TurnTo DEF Expects, u, s, t
<1>10. ASSUME s.state = "CERTIFICATE_REQUEST", ~ Wanted(u)
      PROVE  Expects("client", NextLine(u, Reached("client")))
  <2>1. Reached("client") = 8 /\ s.inKey = Key(10) /\ ~ V12(u)
    BY <1>1, <1>10 DEF Client13Fits, ClientPlace13, Key, Retries
  <2>2. NextLine(u, 8) = 10
    BY <1>1, <2>1, <1>10 DEF Client13Fits, ClientPlace13, NextLine, Next13, Retries, Signs
  <2>3. Type(10) \in t
    BY <1>1, <1>2, <1>10, TypeIs DEF Client13Fits, ClientPlace13, Takes13, AnyMessage, u, s,
       Wanted, Signs
  <2>4. Turn(u, 8, 10, 10)
    BY <1>1, <2>1, <1>10, Turns13 DEF Client13Fits, ClientPlace13, Retries, Signs
  <2>5. Speaker(10) = Other("client") /\ 10 \notin PassedOver
    BY <1>3 DEF Speaker, PassedOver
  <2>6. ~ s.keep => s.checksum = Transcript(u, 8)
    BY <1>1, <2>1, <1>10 DEF Client13Fits, ClientPlace13
  <2> QED
    BY <1>1, <2>1, <2>2, <2>3, <2>4, <2>5, <2>6, TurnTo DEF Expects, u, s, t
<1>11. ASSUME s.state = "SERVER_CERTIFICATE"
      PROVE  Expects("client", NextLine(u, Reached("client")))
  <2>1. Reached("client") = 9 /\ s.inKey = Key(10) /\ ~ V12(u)
    BY <1>1, <1>11 DEF Client13Fits, ClientPlace13, Key, Retries
  <2>2. NextLine(u, 9) = 10
    BY <1>1, <2>1, <1>11 DEF Client13Fits, ClientPlace13, NextLine, Next13, Retries, Signs
  <2>3. Type(10) \in t
    BY <1>1, <1>2, <1>11, TypeIs DEF Client13Fits, ClientPlace13, Takes13, AnyMessage, u, s,
       Wanted, Signs
  <2>4. Turn(u, 9, 10, 10)
    BY <1>1, <2>1, <1>11, Turns13 DEF Client13Fits, ClientPlace13, Retries, Signs
  <2>5. Speaker(10) = Other("client") /\ 10 \notin PassedOver
    BY <1>3 DEF Speaker, PassedOver
  <2>6. ~ s.keep => s.checksum = Transcript(u, 9)
    BY <1>1, <2>1, <1>11 DEF Client13Fits, ClientPlace13
  <2> QED
    BY <1>1, <2>1, <2>2, <2>3, <2>4, <2>5, <2>6, TurnTo DEF Expects, u, s, t
<1>12. ASSUME s.state = "CERTIFICATE_VERIFY"
      PROVE  Expects("client", NextLine(u, Reached("client")))
  <2>1. Reached("client") = 10 /\ s.inKey = Key(11) /\ ~ V12(u)
    BY <1>1, <1>12 DEF Client13Fits, ClientPlace13, Key, Retries
  <2>2. NextLine(u, 10) = 11
    BY <1>1, <2>1, <1>12 DEF Client13Fits, ClientPlace13, NextLine, Next13, Retries, Signs
  <2>3. Type(11) \in t
    BY <1>1, <1>2, <1>12, TypeIs DEF Client13Fits, ClientPlace13, Takes13, AnyMessage, u, s,
       Wanted, Signs
  <2>4. Turn(u, 10, 11, 11)
    BY <1>1, <2>1, <1>12, Turns13 DEF Client13Fits, ClientPlace13, Retries, Signs
  <2>5. Speaker(11) = Other("client") /\ 11 \notin PassedOver
    BY <1>3 DEF Speaker, PassedOver
  <2>6. ~ s.keep => s.checksum = Transcript(u, 10)
    BY <1>1, <2>1, <1>12 DEF Client13Fits, ClientPlace13
  <2> QED
    BY <1>1, <2>1, <2>2, <2>3, <2>4, <2>5, <2>6, TurnTo DEF Expects, u, s, t
<1>13. ASSUME s.state = "SERVER_FINISHED"
      PROVE  Expects("client", NextLine(u, Reached("client")))
  <2>1. Reached("client") = 11 /\ s.inKey = Key(12) /\ ~ V12(u)
    BY <1>1, <1>13 DEF Client13Fits, ClientPlace13, Key, Retries
  <2>2. NextLine(u, 11) = 12
    BY <1>1, <2>1, <1>13 DEF Client13Fits, ClientPlace13, NextLine, Next13, Retries, Signs
  <2>3. Type(12) \in t
    BY <1>1, <1>2, <1>13, TypeIs DEF Client13Fits, ClientPlace13, Takes13, AnyMessage, u, s,
       Wanted, Signs
  <2>4. Turn(u, 11, 12, 12)
    BY <1>1, <2>1, <1>13, Turns13 DEF Client13Fits, ClientPlace13, Retries, Signs
  <2>5. Speaker(12) = Other("client") /\ 12 \notin PassedOver
    BY <1>3 DEF Speaker, PassedOver
  <2>6. ~ s.keep => s.checksum = Transcript(u, 11)
    BY <1>1, <2>1, <1>13 DEF Client13Fits, ClientPlace13
  <2> QED
    BY <1>1, <2>1, <2>2, <2>3, <2>4, <2>5, <2>6, TurnTo DEF Expects, u, s, t
<1> QED
  BY <1>1, <1>2, <1>4, <1>5, <1>6, <1>7, <1>8, <1>9, <1>10, <1>11, <1>12, <1>13 DEF u,
     Client13Fits, Retries, s, t, Takes12, Takes13, Wanted, Signs

\* The server of TLS 1.3.
LEMMA ServerExpects13 ==
    ASSUME IInv, InStep, ssl["server"].version = "tls13", Takes("server") # {}
    PROVE  Expects("server", NextLine(setup, Reached("server")))
<1> DEFINE u == setup
           s == ssl["server"]
           t == Takes("server")
<1>1. /\ Server13Fits(u, s) /\ Reached("server") = ServerPlace13(s)
      /\ u \in Setup /\ s.keep \in BOOLEAN
  <2>1. "server" \in Ends
    BY DEF Ends
  <2>2. FitsPlace(u, "server", s) /\ u \in Setup /\ s \in Context
    BY <2>1, EndAt DEF InStep
  <2> QED
    BY <2>2 DEF FitsPlace, Reached, Place, Context
<1>2. /\ t = Takes13("server", s.state)
      /\ s.state \in {"CLIENT_HELLO", "CLIENT_CERTIFICATE", "CLIENT_CERTIFICATE_VERIFY",
                      "CLIENT_FINISHED"}
    BY DEF Takes, Takes13
<1>3. Other("server") = "client"
  BY DEF Other
<1> HIDE DEF u, s, t
<1>4. ASSUME s.state = "CLIENT_HELLO", s.retried
      PROVE  Expects("server", NextLine(u, Reached("server")))
  <2>1. Reached("server") = 3 /\ s.inKey = Key(5) /\ ~ V12(u)
    BY <1>1, <1>4 DEF Server13Fits, ServerPlace13, Key, Retries
  <2>2. NextLine(u, 3) = 5
    BY <1>1, <2>1, <1>4 DEF Server13Fits, ServerPlace13, NextLine, Next13, Retries, Signs
  <2>3. Type(5) \in t
    BY <1>1, <1>2, <1>4, TypeIs DEF Server13Fits, ServerPlace13, Takes13, AnyMessage, u, s, Wanted,
       Signs
  <2>4. Turn(u, 3, 5, 5)
    BY <1>1, <2>1, <1>4, Turns13 DEF Server13Fits, ServerPlace13, Retries, Signs
  <2>5. Speaker(5) = Other("server") /\ 5 \notin PassedOver
    BY <1>3 DEF Speaker, PassedOver
  <2>6. ~ s.keep => s.checksum = Transcript(u, 3)
    BY <1>1, <2>1, <1>4 DEF Server13Fits, ServerPlace13
  <2> QED
    BY <1>1, <2>1, <2>2, <2>3, <2>4, <2>5, <2>6, TurnTo DEF Expects, u, s, t
<1>5. ASSUME s.state = "CLIENT_HELLO", ~ s.retried, ~ V12(u)
      PROVE  Expects("server", NextLine(u, Reached("server")))
  <2>1. Reached("server") = 0 /\ s.inKey = Key(1) /\ ~ V12(u)
    BY <1>1, <1>5 DEF Server13Fits, ServerPlace13, Key, Retries
  <2>2. NextLine(u, 0) = 1
    BY <1>1, <2>1, <1>5 DEF Server13Fits, ServerPlace13, NextLine, Next13, Retries, Signs
  <2>3. Type(1) \in t
    BY <1>1, <1>2, <1>5, TypeIs DEF Server13Fits, ServerPlace13, Takes13, AnyMessage, u, s, Wanted,
       Signs
  <2>4. Turn(u, 0, 1, 1)
    BY <1>1, <2>1, <1>5, Turns13 DEF Server13Fits, ServerPlace13, Retries, Signs
  <2>5. Speaker(1) = Other("server") /\ 1 \notin PassedOver
    BY <1>3 DEF Speaker, PassedOver
  <2>6. ~ s.keep => s.checksum = Transcript(u, 0)
    BY <1>1, <2>1, <1>5 DEF Server13Fits, ServerPlace13
  <2> QED
    BY <1>1, <2>1, <2>2, <2>3, <2>4, <2>5, <2>6, TurnTo DEF Expects, u, s, t
<1>6. ASSUME s.state = "CLIENT_HELLO", ~ s.retried, V12(u)
      PROVE  Expects("server", NextLine(u, Reached("server")))
  <2>1. Reached("server") = 0 /\ s.inKey = Key(1) /\ V12(u)
    BY <1>1, <1>6 DEF Server13Fits, ServerPlace13, Key, Retries
  <2>2. NextLine(u, 0) = 1
    BY <1>1, <2>1, <1>6 DEF Server13Fits, ServerPlace13, NextLine, Next12, Retries, Signs
  <2>3. Type(1) \in t
    BY <1>1, <1>2, <1>6, TypeIs DEF Server13Fits, ServerPlace13, Takes13, AnyMessage, u, s, Wanted,
       Signs
  <2>4. Turn(u, 0, 1, 1)
    BY <1>1, <2>1, <1>6, Turns12 DEF Server13Fits, ServerPlace13, Retries, Signs
  <2>5. Speaker(1) = Other("server") /\ 1 \notin PassedOver
    BY <1>3 DEF Speaker, PassedOver
  <2>6. ~ s.keep => s.checksum = Transcript(u, 0)
    BY <1>1, <2>1, <1>6 DEF Server13Fits, ServerPlace13
  <2> QED
    BY <1>1, <2>1, <2>2, <2>3, <2>4, <2>5, <2>6, TurnTo DEF Expects, u, s, t
<1>7. ASSUME s.state = "CLIENT_CERTIFICATE"
      PROVE  Expects("server", NextLine(u, Reached("server")))
  <2>1. Reached("server") = 13 /\ s.inKey = Key(14) /\ ~ V12(u)
    BY <1>1, <1>7 DEF Server13Fits, ServerPlace13, Key, Retries
  <2>2. NextLine(u, 13) = 14
    BY <1>1, <2>1, <1>7 DEF Server13Fits, ServerPlace13, NextLine, Next13, Retries, Signs
  <2>3. Type(14) \in t
    BY <1>1, <1>2, <1>7, TypeIs DEF Server13Fits, ServerPlace13, Takes13, AnyMessage, u, s, Wanted,
       Signs
  <2>4. Turn(u, 13, 14, 14) \/ Turn(u, 13, 15, 14)
    BY <1>1, <2>1, <1>7, Turns13 DEF Server13Fits, ServerPlace13, Retries, Signs
  <2>5. Speaker(14) = Other("server") /\ 14 \notin PassedOver
    BY <1>3 DEF Speaker, PassedOver
  <2>6. ~ s.keep => s.checksum = Transcript(u, 13)
    BY <1>1, <2>1, <1>7 DEF Server13Fits, ServerPlace13
  <2> QED
    BY <1>1, <2>1, <2>2, <2>3, <2>4, <2>5, <2>6, TurnTo DEF Expects, u, s, t
<1>8. ASSUME s.state = "CLIENT_CERTIFICATE_VERIFY"
      PROVE  Expects("server", NextLine(u, Reached("server")))
  <2>1. Reached("server") = 14 /\ s.inKey = Key(15) /\ ~ V12(u)
    BY <1>1, <1>8 DEF Server13Fits, ServerPlace13, Key, Retries
  <2>2. NextLine(u, 14) = 15
    BY <1>1, <2>1, <1>8 DEF Server13Fits, ServerPlace13, NextLine, Next13, Retries, Signs
  <2>3. Type(15) \in t
    BY <1>1, <1>2, <1>8, TypeIs DEF Server13Fits, ServerPlace13, Takes13, AnyMessage, u, s, Wanted,
       Signs
  <2>4. Turn(u, 14, 15, 15)
    BY <1>1, <2>1, <1>8, Turns13 DEF Server13Fits, ServerPlace13, Retries, Signs
  <2>5. Speaker(15) = Other("server") /\ 15 \notin PassedOver
    BY <1>3 DEF Speaker, PassedOver
  <2>6. ~ s.keep => s.checksum = Transcript(u, 14)
    BY <1>1, <2>1, <1>8 DEF Server13Fits, ServerPlace13
  <2> QED
    BY <1>1, <2>1, <2>2, <2>3, <2>4, <2>5, <2>6, TurnTo DEF Expects, u, s, t
<1>9. ASSUME s.state = "CLIENT_FINISHED"
      PROVE  Expects("server", NextLine(u, Reached("server")))
  <2>1. Reached("server") = 15 /\ s.inKey = Key(16) /\ ~ V12(u)
    BY <1>1, <1>9 DEF Server13Fits, ServerPlace13, Key, Retries
  <2>2. NextLine(u, 15) = 16
    BY <1>1, <2>1, <1>9 DEF Server13Fits, ServerPlace13, NextLine, Next13, Retries, Signs
  <2>3. Type(16) \in t
    BY <1>1, <1>2, <1>9, TypeIs DEF Server13Fits, ServerPlace13, Takes13, AnyMessage, u, s, Wanted,
       Signs
  <2>4. Turn(u, 15, 16, 16)
    BY <1>1, <2>1, <1>9, Turns13 DEF Server13Fits, ServerPlace13, Retries, Signs
  <2>5. Speaker(16) = Other("server") /\ 16 \notin PassedOver
    BY <1>3 DEF Speaker, PassedOver
  <2>6. ~ s.keep => s.checksum = Transcript(u, 15)
    BY <1>1, <2>1, <1>9 DEF Server13Fits, ServerPlace13
  <2> QED
    BY <1>1, <2>1, <2>2, <2>3, <2>4, <2>5, <2>6, TurnTo DEF Expects, u, s, t
<1> QED
  BY <1>1, <1>2, <1>4, <1>5, <1>6, <1>7, <1>8, <1>9 DEF u, Server13Fits, Retries, s, t, Takes12,
     Takes13, Wanted, Signs

\* The client of TLS 1.2.
LEMMA ClientExpects12 ==
    ASSUME IInv, InStep, ssl["client"].version = "tls12", Takes("client") # {}
    PROVE  Expects("client", NextLine(setup, Reached("client")))
<1> DEFINE u == setup
           s == ssl["client"]
           t == Takes("client")
<1>1. /\ Client12Fits(u, s) /\ Reached("client") = Place12(s)
      /\ u \in Setup /\ s.keep \in BOOLEAN
  <2>1. "client" \in Ends
    BY DEF Ends
  <2>2. FitsPlace(u, "client", s) /\ u \in Setup /\ s \in Context
    BY <2>1, EndAt DEF InStep
  <2> QED
    BY <2>2 DEF FitsPlace, Reached, Place, Context
<1>2. /\ t = Takes12("client", s.state)
      /\ s.state \in {"SERVER_HELLO", "SERVER_CERTIFICATE", "SERVER_KEY_EXCHANGE",
                      "CERTIFICATE_REQUEST", "SERVER_HELLO_DONE", "NEW_SESSION_TICKET",
                      "SERVER_CHANGE_CIPHER_SPEC", "SERVER_FINISHED"}
    BY DEF Takes, Takes12
<1>3. Other("client") = "server"
  BY DEF Other
<1> HIDE DEF u, s, t
<1>4. ASSUME s.state = "SERVER_HELLO"
      PROVE  Expects("client", NextLine(u, Reached("client")))
  <2>1. Reached("client") = 1 /\ s.inKey = Key(17) /\ V12(u)
    BY <1>1, <1>4 DEF Client12Fits, Place12, Key, Retries
  <2>2. NextLine(u, 1) = 17
    BY <1>1, <2>1, <1>4 DEF Client12Fits, Place12, NextLine, Next12, Retries, Signs
  <2>3. Type(17) \in t
    BY <1>1, <1>2, <1>4, TypeIs DEF Client12Fits, Place12, Takes12, AnyMessage, u, s, Wanted, Signs
  <2>4. Turn(u, 1, 17, 17)
    BY <1>1, <2>1, <1>4, Turns12 DEF Client12Fits, Place12, Retries, Signs
  <2>5. Speaker(17) = Other("client") /\ 17 \notin PassedOver
    BY <1>3 DEF Speaker, PassedOver
  <2>6. ~ s.keep => s.checksum = Transcript(u, 1)
    BY <1>1, <2>1, <1>4 DEF Client12Fits, Place12
  <2> QED
    BY <1>1, <2>1, <2>2, <2>3, <2>4, <2>5, <2>6, TurnTo DEF Expects, u, s, t
<1>5. ASSUME s.state = "SERVER_CERTIFICATE"
      PROVE  Expects("client", NextLine(u, Reached("client")))
  <2>1. Reached("client") = 17 /\ s.inKey = Key(18) /\ V12(u)
    BY <1>1, <1>5 DEF Client12Fits, Place12, Key, Retries
  <2>2. NextLine(u, 17) = 18
    BY <1>1, <2>1, <1>5 DEF Client12Fits, Place12, NextLine, Next12, Retries, Signs
  <2>3. Type(18) \in t
    BY <1>1, <1>2, <1>5, TypeIs DEF Client12Fits, Place12, Takes12, AnyMessage, u, s, Wanted, Signs
  <2>4. Turn(u, 17, 18, 18)
    BY <1>1, <2>1, <1>5, Turns12 DEF Client12Fits, Place12, Retries, Signs
  <2>5. Speaker(18) = Other("client") /\ 18 \notin PassedOver
    BY <1>3 DEF Speaker, PassedOver
  <2>6. ~ s.keep => s.checksum = Transcript(u, 17)
    BY <1>1, <2>1, <1>5 DEF Client12Fits, Place12
  <2> QED
    BY <1>1, <2>1, <2>2, <2>3, <2>4, <2>5, <2>6, TurnTo DEF Expects, u, s, t
<1>6. ASSUME s.state = "SERVER_KEY_EXCHANGE", ~ u.rsa
      PROVE  Expects("client", NextLine(u, Reached("client")))
  <2>1. Reached("client") = 18 /\ s.inKey = Key(19) /\ V12(u)
    BY <1>1, <1>6 DEF Client12Fits, Place12, Key, Retries
  <2>2. NextLine(u, 18) = 19
    BY <1>1, <2>1, <1>6 DEF Client12Fits, Place12, NextLine, Next12, Retries, Signs
  <2>3. Type(19) \in t
    BY <1>1, <1>2, <1>6, TypeIs DEF Client12Fits, Place12, Takes12, AnyMessage, u, s, Wanted, Signs
  <2>4. Turn(u, 18, 19, 19)
    BY <1>1, <2>1, <1>6, Turns12 DEF Client12Fits, Place12, Retries, Signs
  <2>5. Speaker(19) = Other("client") /\ 19 \notin PassedOver
    BY <1>3 DEF Speaker, PassedOver
  <2>6. ~ s.keep => s.checksum = Transcript(u, 18)
    BY <1>1, <2>1, <1>6 DEF Client12Fits, Place12
  <2> QED
    BY <1>1, <2>1, <2>2, <2>3, <2>4, <2>5, <2>6, TurnTo DEF Expects, u, s, t
<1>7. ASSUME s.state = "CERTIFICATE_REQUEST", Wanted(u)
      PROVE  Expects("client", NextLine(u, Reached("client")))
  <2>1. Reached("client") = 19 /\ s.inKey = Key(20) /\ V12(u)
    BY <1>1, <1>7 DEF Client12Fits, Place12, Key, Retries
  <2>2. NextLine(u, 19) = 20
    BY <1>1, <2>1, <1>7 DEF Client12Fits, Place12, NextLine, Next12, Retries, Signs
  <2>3. Type(20) \in t
    BY <1>1, <1>2, <1>7, TypeIs DEF Client12Fits, Place12, Takes12, AnyMessage, u, s, Wanted, Signs
  <2>4. Turn(u, 19, 20, 20)
    BY <1>1, <2>1, <1>7, Turns12 DEF Client12Fits, Place12, Retries, Signs
  <2>5. Speaker(20) = Other("client") /\ 20 \notin PassedOver
    BY <1>3 DEF Speaker, PassedOver
  <2>6. ~ s.keep => s.checksum = Transcript(u, 19)
    BY <1>1, <2>1, <1>7 DEF Client12Fits, Place12
  <2> QED
    BY <1>1, <2>1, <2>2, <2>3, <2>4, <2>5, <2>6, TurnTo DEF Expects, u, s, t
<1>8. ASSUME s.state = "CERTIFICATE_REQUEST", ~ Wanted(u)
      PROVE  Expects("client", NextLine(u, Reached("client")))
  <2>1. Reached("client") = 19 /\ s.inKey = Key(21) /\ V12(u)
    BY <1>1, <1>8 DEF Client12Fits, Place12, Key, Retries
  <2>2. NextLine(u, 19) = 21
    BY <1>1, <2>1, <1>8 DEF Client12Fits, Place12, NextLine, Next12, Retries, Signs
  <2>3. Type(21) \in t
    BY <1>1, <1>2, <1>8, TypeIs DEF Client12Fits, Place12, Takes12, AnyMessage, u, s, Wanted, Signs
  <2>4. Turn(u, 19, 21, 21)
    BY <1>1, <2>1, <1>8, Turns12 DEF Client12Fits, Place12, Retries, Signs
  <2>5. Speaker(21) = Other("client") /\ 21 \notin PassedOver
    BY <1>3 DEF Speaker, PassedOver
  <2>6. ~ s.keep => s.checksum = Transcript(u, 19)
    BY <1>1, <2>1, <1>8 DEF Client12Fits, Place12
  <2> QED
    BY <1>1, <2>1, <2>2, <2>3, <2>4, <2>5, <2>6, TurnTo DEF Expects, u, s, t
<1>9. ASSUME s.state = "SERVER_HELLO_DONE"
      PROVE  Expects("client", NextLine(u, Reached("client")))
  <2>1. Reached("client") = 20 /\ s.inKey = Key(21) /\ V12(u)
    BY <1>1, <1>9 DEF Client12Fits, Place12, Key, Retries
  <2>2. NextLine(u, 20) = 21
    BY <1>1, <2>1, <1>9 DEF Client12Fits, Place12, NextLine, Next12, Retries, Signs
  <2>3. Type(21) \in t
    BY <1>1, <1>2, <1>9, TypeIs DEF Client12Fits, Place12, Takes12, AnyMessage, u, s, Wanted, Signs
  <2>4. Turn(u, 20, 21, 21)
    BY <1>1, <2>1, <1>9, Turns12 DEF Client12Fits, Place12, Retries, Signs
  <2>5. Speaker(21) = Other("client") /\ 21 \notin PassedOver
    BY <1>3 DEF Speaker, PassedOver
  <2>6. ~ s.keep => s.checksum = Transcript(u, 20)
    BY <1>1, <2>1, <1>9 DEF Client12Fits, Place12
  <2> QED
    BY <1>1, <2>1, <2>2, <2>3, <2>4, <2>5, <2>6, TurnTo DEF Expects, u, s, t
<1>10. ASSUME s.state = "NEW_SESSION_TICKET"
      PROVE  Expects("client", NextLine(u, Reached("client")))
  <2>1. Reached("client") = 26 /\ s.inKey = Key(27) /\ V12(u)
    BY <1>1, <1>10 DEF Client12Fits, Place12, Key, Retries
  <2>2. NextLine(u, 26) = 27
    BY <1>1, <2>1, <1>10 DEF Client12Fits, Place12, NextLine, Next12, Retries, Signs
  <2>3. Type(27) \in t
    BY <1>1, <1>2, <1>10, TypeIs DEF Client12Fits, Place12, Takes12, AnyMessage, u, s, Wanted, Signs
  <2>4. Turn(u, 26, 27, 27)
    BY <1>1, <2>1, <1>10, Turns12 DEF Client12Fits, Place12, Retries, Signs
  <2>5. Speaker(27) = Other("client") /\ 27 \notin PassedOver
    BY <1>3 DEF Speaker, PassedOver
  <2>6. ~ s.keep => s.checksum = Transcript(u, 26)
    BY <1>1, <2>1, <1>10 DEF Client12Fits, Place12
  <2> QED
    BY <1>1, <2>1, <2>2, <2>3, <2>4, <2>5, <2>6, TurnTo DEF Expects, u, s, t
<1>11. ASSUME s.state = "SERVER_CHANGE_CIPHER_SPEC", ~ s.newTicket
      PROVE  Expects("client", NextLine(u, Reached("client")))
  <2>1. Reached("client") = 27 /\ s.inKey = Key(28) /\ V12(u)
    BY <1>1, <1>11 DEF Client12Fits, Place12, Key, Retries
  <2>2. NextLine(u, 27) = 28
    BY <1>1, <2>1, <1>11 DEF Client12Fits, Place12, NextLine, Next12, Retries, Signs
  <2>3. Type(28) \in t
    BY <1>1, <1>2, <1>11, TypeIs DEF Client12Fits, Place12, Takes12, AnyMessage, u, s, Wanted, Signs
  <2>4. Turn(u, 27, 28, 28)
    BY <1>1, <2>1, <1>11, Turns12 DEF Client12Fits, Place12, Retries, Signs
  <2>5. Speaker(28) = Other("client") /\ 28 \notin PassedOver
    BY <1>3 DEF Speaker, PassedOver
  <2>6. ~ s.keep => s.checksum = Transcript(u, 27)
    BY <1>1, <2>1, <1>11 DEF Client12Fits, Place12
  <2> QED
    BY <1>1, <2>1, <2>2, <2>3, <2>4, <2>5, <2>6, TurnTo DEF Expects, u, s, t
<1>12. ASSUME s.state = "SERVER_FINISHED"
      PROVE  Expects("client", NextLine(u, Reached("client")))
  <2>1. Reached("client") = 28 /\ s.inKey = Key(29) /\ V12(u)
    BY <1>1, <1>12 DEF Client12Fits, Place12, Key, Retries
  <2>2. NextLine(u, 28) = 29
    BY <1>1, <2>1, <1>12 DEF Client12Fits, Place12, NextLine, Next12, Retries, Signs
  <2>3. Type(29) \in t
    BY <1>1, <1>2, <1>12, TypeIs DEF Client12Fits, Place12, Takes12, AnyMessage, u, s, Wanted, Signs
  <2>4. Turn(u, 28, 29, 29)
    BY <1>1, <2>1, <1>12, Turns12 DEF Client12Fits, Place12, Retries, Signs
  <2>5. Speaker(29) = Other("client") /\ 29 \notin PassedOver
    BY <1>3 DEF Speaker, PassedOver
  <2>6. ~ s.keep => s.checksum = Transcript(u, 28)
    BY <1>1, <2>1, <1>12 DEF Client12Fits, Place12
  <2> QED
    BY <1>1, <2>1, <2>2, <2>3, <2>4, <2>5, <2>6, TurnTo DEF Expects, u, s, t
<1> QED
  BY <1>1, <1>2, <1>4, <1>5, <1>6, <1>7, <1>8, <1>9, <1>10, <1>11, <1>12 DEF u, Client12Fits,
     Retries, s, t, Takes12, Takes13, Wanted, Signs

\* The server of TLS 1.2.
LEMMA ServerExpects12 ==
    ASSUME IInv, InStep, ssl["server"].version = "tls12", Takes("server") # {}
    PROVE  Expects("server", NextLine(setup, Reached("server")))
<1> DEFINE u == setup
           s == ssl["server"]
           t == Takes("server")
<1>1. /\ Server12Fits(u, s) /\ Reached("server") = Place12(s)
      /\ u \in Setup /\ s.keep \in BOOLEAN
  <2>1. "server" \in Ends
    BY DEF Ends
  <2>2. FitsPlace(u, "server", s) /\ u \in Setup /\ s \in Context
    BY <2>1, EndAt DEF InStep
  <2> QED
    BY <2>2 DEF FitsPlace, Reached, Place, Context
<1>2. /\ t = Takes12("server", s.state)
      /\ s.state \in {"CLIENT_HELLO", "CLIENT_CERTIFICATE", "CLIENT_KEY_EXCHANGE",
                      "CERTIFICATE_VERIFY", "CLIENT_CHANGE_CIPHER_SPEC", "CLIENT_FINISHED"}
    BY DEF Takes, Takes12
<1>3. Other("server") = "client"
  BY DEF Other
<1> HIDE DEF u, s, t
<1>4. ASSUME s.state = "CLIENT_HELLO"
      PROVE  Expects("server", NextLine(u, Reached("server")))
  <2>1. Reached("server") = 0 /\ s.inKey = Key(1) /\ V12(u)
    BY <1>1, <1>4 DEF Server12Fits, Place12, Key, Retries
  <2>2. NextLine(u, 0) = 1
    BY <1>1, <2>1, <1>4 DEF Server12Fits, Place12, NextLine, Next12, Retries, Signs
  <2>3. Type(1) \in t
    BY <1>1, <1>2, <1>4, TypeIs DEF Server12Fits, Place12, Takes12, AnyMessage, u, s, Wanted, Signs
  <2>4. Turn(u, 0, 1, 1)
    BY <1>1, <2>1, <1>4, Turns12 DEF Server12Fits, Place12, Retries, Signs
  <2>5. Speaker(1) = Other("server") /\ 1 \notin PassedOver
    BY <1>3 DEF Speaker, PassedOver
  <2>6. ~ s.keep => s.checksum = Transcript(u, 0)
    BY <1>1, <2>1, <1>4 DEF Server12Fits, Place12
  <2> QED
    BY <1>1, <2>1, <2>2, <2>3, <2>4, <2>5, <2>6, TurnTo DEF Expects, u, s, t
<1>5. ASSUME s.state = "CLIENT_CERTIFICATE", Wanted(u)
      PROVE  Expects("server", NextLine(u, Reached("server")))
  <2>1. Reached("server") = 21 /\ s.inKey = Key(22) /\ V12(u)
    BY <1>1, <1>5 DEF Server12Fits, Place12, Key, Retries
  <2>2. NextLine(u, 21) = 22
    BY <1>1, <2>1, <1>5 DEF Server12Fits, Place12, NextLine, Next12, Retries, Signs
  <2>3. Type(22) \in t
    BY <1>1, <1>2, <1>5, TypeIs DEF Server12Fits, Place12, Takes12, AnyMessage, u, s, Wanted, Signs
  <2>4. Turn(u, 21, 22, 22)
    BY <1>1, <2>1, <1>5, Turns12 DEF Server12Fits, Place12, Retries, Signs
  <2>5. Speaker(22) = Other("server") /\ 22 \notin PassedOver
    BY <1>3 DEF Speaker, PassedOver
  <2>6. ~ s.keep => s.checksum = Transcript(u, 21)
    BY <1>1, <2>1, <1>5 DEF Server12Fits, Place12
  <2> QED
    BY <1>1, <2>1, <2>2, <2>3, <2>4, <2>5, <2>6, TurnTo DEF Expects, u, s, t
<1>6. ASSUME s.state = "CLIENT_KEY_EXCHANGE"
      PROVE  Expects("server", NextLine(u, Reached("server")))
  <2>1. Reached("server") = 22 /\ s.inKey = Key(23) /\ V12(u)
    BY <1>1, <1>6 DEF Server12Fits, Place12, Key, Retries
  <2>2. NextLine(u, 22) = 23
    BY <1>1, <2>1, <1>6 DEF Server12Fits, Place12, NextLine, Next12, Retries, Signs
  <2>3. Type(23) \in t
    BY <1>1, <1>2, <1>6, TypeIs DEF Server12Fits, Place12, Takes12, AnyMessage, u, s, Wanted, Signs
  <2>4. Turn(u, 22, 23, 23)
    BY <1>1, <2>1, <1>6, Turns12 DEF Server12Fits, Place12, Retries, Signs
  <2>5. Speaker(23) = Other("server") /\ 23 \notin PassedOver
    BY <1>3 DEF Speaker, PassedOver
  <2>6. ~ s.keep => s.checksum = Transcript(u, 22)
    BY <1>1, <2>1, <1>6 DEF Server12Fits, Place12
  <2> QED
    BY <1>1, <2>1, <2>2, <2>3, <2>4, <2>5, <2>6, TurnTo DEF Expects, u, s, t
<1>7. ASSUME s.state = "CERTIFICATE_VERIFY", Signs(u)
      PROVE  Expects("server", NextLine(u, Reached("server")))
  <2>1. Reached("server") = 23 /\ s.inKey = Key(24) /\ V12(u)
    BY <1>1, <1>7 DEF Server12Fits, Place12, Key, Retries
  <2>2. NextLine(u, 23) = 24
    BY <1>1, <2>1, <1>7 DEF Server12Fits, Place12, NextLine, Next12, Retries, Signs
  <2>3. Type(24) \in t
    BY <1>1, <1>2, <1>7, TypeIs DEF Server12Fits, Place12, Takes12, AnyMessage, u, s, Wanted, Signs
  <2>4. Turn(u, 23, 24, 24)
    BY <1>1, <2>1, <1>7, Turns12 DEF Server12Fits, Place12, Retries, Signs
  <2>5. Speaker(24) = Other("server") /\ 24 \notin PassedOver
    BY <1>3 DEF Speaker, PassedOver
  <2>6. ~ s.keep => s.checksum = Transcript(u, 23)
    BY <1>1, <2>1, <1>7 DEF Server12Fits, Place12
  <2> QED
    BY <1>1, <2>1, <2>2, <2>3, <2>4, <2>5, <2>6, TurnTo DEF Expects, u, s, t
<1>8. ASSUME s.state = "CLIENT_CHANGE_CIPHER_SPEC"
      PROVE  Expects("server", NextLine(u, Reached("server")))
  <2>1. Reached("server") = 24 /\ s.inKey = Key(25) /\ V12(u)
    BY <1>1, <1>8 DEF Server12Fits, Place12, Key, Retries
  <2>2. NextLine(u, 24) = 25
    BY <1>1, <2>1, <1>8 DEF Server12Fits, Place12, NextLine, Next12, Retries, Signs
  <2>3. Type(25) \in t
    BY <1>1, <1>2, <1>8, TypeIs DEF Server12Fits, Place12, Takes12, AnyMessage, u, s, Wanted, Signs
  <2>4. Turn(u, 24, 25, 25)
    BY <1>1, <2>1, <1>8, Turns12 DEF Server12Fits, Place12, Retries, Signs
  <2>5. Speaker(25) = Other("server") /\ 25 \notin PassedOver
    BY <1>3 DEF Speaker, PassedOver
  <2>6. ~ s.keep => s.checksum = Transcript(u, 24)
    BY <1>1, <2>1, <1>8 DEF Server12Fits, Place12
  <2> QED
    BY <1>1, <2>1, <2>2, <2>3, <2>4, <2>5, <2>6, TurnTo DEF Expects, u, s, t
<1>9. ASSUME s.state = "CLIENT_FINISHED"
      PROVE  Expects("server", NextLine(u, Reached("server")))
  <2>1. Reached("server") = 25 /\ s.inKey = Key(26) /\ V12(u)
    BY <1>1, <1>9 DEF Server12Fits, Place12, Key, Retries
  <2>2. NextLine(u, 25) = 26
    BY <1>1, <2>1, <1>9 DEF Server12Fits, Place12, NextLine, Next12, Retries, Signs
  <2>3. Type(26) \in t
    BY <1>1, <1>2, <1>9, TypeIs DEF Server12Fits, Place12, Takes12, AnyMessage, u, s, Wanted, Signs
  <2>4. Turn(u, 25, 26, 26)
    BY <1>1, <2>1, <1>9, Turns12 DEF Server12Fits, Place12, Retries, Signs
  <2>5. Speaker(26) = Other("server") /\ 26 \notin PassedOver
    BY <1>3 DEF Speaker, PassedOver
  <2>6. ~ s.keep => s.checksum = Transcript(u, 25)
    BY <1>1, <2>1, <1>9 DEF Server12Fits, Place12
  <2> QED
    BY <1>1, <2>1, <2>2, <2>3, <2>4, <2>5, <2>6, TurnTo DEF Expects, u, s, t
<1> QED
  BY <1>1, <1>2, <1>4, <1>5, <1>6, <1>7, <1>8, <1>9 DEF u, Server12Fits, Retries, s, t, Takes12,
     Takes13, Wanted, Signs

\* Whatever an end takes, it waits for the next line of the script.
LEMMA Awaits ==
    ASSUME IInv, InStep, NEW e \in Ends, Takes(e) # {}
    PROVE  Expects(e, NextLine(setup, Reached(e)))
<1>1. ssl[e].version = "tls12" \/ ssl[e].version = "tls13"
  BY EndAt DEF Versions
<1> QED
  BY <1>1, ClientExpects13, ServerExpects13, ClientExpects12, ServerExpects12 DEF Ends

\* The next line belongs to the flight that has not ended, of its speaker.
LEMMA NextFlight ==
    ASSUME NEW u, u = setup, NEW p \in Nat, NEW k \in Lines(u) \ PassedOver, p < k,
           Passes(u, p, k, k)
    PROVE  FlightsAt(u, p) < Total /\ Flights!Sender(FlightsAt(u, p) + 1) = Speaker(k)
<1>1. \A j \in Lines(u) \ PassedOver : j \in Nat /\ (j <= p <=> j < k)
  BY LinesAre DEF Passes
<1>2. \A j \in FlightEnds : j \notin PassedOver
  BY DEF FlightEnds, PassedOver
<1> DEFINE before(j) == IF j \in Lines(u) /\ j < k THEN 1 ELSE 0
<1>3. \A j \in FlightEnds : Ended(u, j, p) = before(j)
  BY <1>1, <1>2 DEF Ended
<1>4. FlightsAt(u, p) = before(1) + before(2) + before(5) + before(12) + before(16) + before(21)
                        + before(26) + before(29)
  BY <1>3 DEF FlightsAt, FlightEnds
<1>5. CASE V12(u)
  <2>1. 1 \in Lines(u) /\ 21 \in Lines(u) /\ 26 \in Lines(u) /\ 29 \in Lines(u)
        /\ 2 \notin Lines(u) /\ 5 \notin Lines(u) /\ 12 \notin Lines(u) /\ 16 \notin Lines(u)
    BY <1>5 DEF Lines, Lines12
  <2>2. k \in {1} \cup (17 .. 21) \cup (22 .. 26) \cup (27 .. 29)
    BY <1>5 DEF Lines, Lines12
  <2>3. Total = 4
    BY <1>5 DEF Total, V12
  <2>4. FlightsAt(u, p) = IF k = 1 THEN 0 ELSE IF k < 22 THEN 1 ELSE IF k < 27 THEN 2 ELSE 3
    BY <1>4, <2>1, <2>2
  <2>5. Speaker(k) = IF k \in {1} \cup (22 .. 26) THEN "client" ELSE "server"
    BY <2>2 DEF Speaker
  <2> QED
    BY <2>2, <2>3, <2>4, <2>5 DEF Flights!Sender
<1>6. CASE ~ V12(u) /\ ~ u.shareRefused
  <2>1. 1 \in Lines(u) /\ 12 \in Lines(u) /\ 16 \in Lines(u) /\ 21 \notin Lines(u) /\ 26 \notin Lines(u)
        /\ 29 \notin Lines(u) /\ 2 \notin Lines(u) /\ 5 \notin Lines(u)
    BY <1>6 DEF Lines, Lines13
  <2>2. k \in {1} \cup (6 .. 12) \cup (14 .. 16)
    BY <1>6 DEF Lines, Lines13, PassedOver
  <2>3. Total = 3
    BY <1>6 DEF Total, V12
  <2>4. FlightsAt(u, p) = IF k = 1 THEN 0 ELSE IF k < 14 THEN 1 ELSE 2
    BY <1>4, <2>1, <2>2
  <2>5. k # 7
    BY DEF PassedOver
  <2>6. Speaker(k) = IF k \in {1} \cup (14 .. 16) THEN "client" ELSE "server"
    BY <2>2, <2>5 DEF Speaker
  <2> QED
    BY <2>2, <2>3, <2>4, <2>6 DEF Flights!Sender
<1>7. CASE ~ V12(u) /\ u.shareRefused
  <2>1. 1 \in Lines(u) /\ 2 \in Lines(u) /\ 5 \in Lines(u) /\ 12 \in Lines(u) /\ 16 \in Lines(u)
        /\ 21 \notin Lines(u) /\ 26 \notin Lines(u) /\ 29 \notin Lines(u)
    BY <1>7 DEF Lines, Lines13
  <2>2. k \in {1, 2, 5} \cup (6 .. 12) \cup (14 .. 16)
    BY <1>7 DEF Lines, Lines13, PassedOver
  <2>3. Total = 5
    BY <1>7 DEF Total, V12
  <2>4. FlightsAt(u, p) = IF k = 1 THEN 0 ELSE IF k = 2 THEN 1 ELSE IF k = 5 THEN 2
                          ELSE IF k < 14 THEN 3 ELSE 4
    BY <1>4, <2>1, <2>2
  <2>5. Speaker(k) = IF k \in {1, 5} \cup (14 .. 16) THEN "client" ELSE "server"
    BY <2>2 DEF Speaker
  <2> QED
    BY <2>2, <2>3, <2>4, <2>5 DEF Flights!Sender
<1> QED
  BY <1>5, <1>6, <1>7

-----------------------------------------------------------------------------
(* What an end finds in front of it.                                       *)

\* What e has said is a sequence of records.
LEMMA UnheardIs ==
    ASSUME IInv, NEW e \in Ends
    PROVE  /\ Unheard(e) \in Seq(Record)
           /\ ssl[Other(e)].keep =>
                /\ ssl[Other(e)].msg \in Record
                /\ Unheard(e) = <<ssl[Other(e)].msg>> \o Sent(e)
                /\ Unheard(e) # <<>> /\ Unheard(e)[1] = ssl[Other(e)].msg
                /\ Tail(Unheard(e)) = Sent(e)
           /\ ~ ssl[Other(e)].keep => Unheard(e) = Sent(e)
<1> DEFINE o == Other(e)
           q == Sent(e)
<1>1. o \in Ends /\ q \in Seq(Record) /\ Genuine(o) /\ ssl[o].keep \in BOOLEAN
  BY EndAt DEF Context
<1>2. ssl[o].keep => ssl[o].msg \in Record
  BY <1>1 DEF Genuine, Real
<1>3. Unheard(e) = (IF ssl[o].keep THEN <<ssl[o].msg>> ELSE <<>>) \o q
  BY DEF Unheard
<1> HIDE DEF q, o
<1>4. CASE ssl[o].keep
  <2> DEFINE m == ssl[o].msg
  <2>1. m \in Record /\ Unheard(e) = <<m>> \o q
    BY <1>2, <1>3, <1>4
  <2> HIDE DEF m
  <2>2. /\ <<m>> \o q \in Seq(Record) /\ <<m>> \o q # <<>> /\ (<<m>> \o q)[1] = m
        /\ Tail(<<m>> \o q) = q
    BY <1>1, <2>1
  <2> QED
    BY <1>4, <2>1, <2>2 DEF m, o, q
<1>5. CASE ~ ssl[o].keep
  <2>1. Unheard(e) = <<>> \o q
    BY <1>3, <1>5
  <2>2. <<>> \o q = q
    BY <1>1
  <2> QED
    BY <1>1, <1>5, <2>1, <2>2 DEF o, q
<1> QED
  BY <1>1, <1>4, <1>5 DEF o

\* What an end gets is the first that it has not heard, and consuming it leaves
\* the rest.
LEMMA FrontIs ==
    ASSUME IInv, NEW e \in Ends, Has(e)
    PROVE  LET q == Unheard(Other(e)) IN
           /\ q \in Seq(Record) /\ q # <<>> /\ q[1] = Got(e)
           /\ Consumed(e)[Other(e)] \o ssl[Other(e)].out = Tail(q)
           /\ Consumed(e) \in [Ends -> Seq(Record)] /\ Consumed(e)[e] = wire[e]
<1> DEFINE o == Other(e)
           w == wire[o]
           t == ssl[o].out
<1>1. /\ o \in Ends /\ o # e /\ Other(o) = e /\ wire \in [Ends -> Seq(Record)]
      /\ w \in Seq(Record) /\ t \in Seq(Record) /\ ssl[e].keep \in BOOLEAN
  BY EndAt, EndsAre DEF IInv, Types, Context
<1>2. Consumed(e) \in [Ends -> Seq(Record)] /\ Consumed(e)[e] = wire[e]
  BY ConsumedIs
<1>3. Unheard(o) \in Seq(Record)
  BY <1>1, UnheardIs
<1>4. CASE ssl[e].keep
  <2>1. Unheard(o) # <<>> /\ Unheard(o)[1] = ssl[e].msg /\ Tail(Unheard(o)) = Sent(o)
    BY <1>1, <1>4, UnheardIs
  <2>2. Consumed(e)[o] = w /\ Got(e) = ssl[e].msg
    BY <1>4 DEF Consumed, Got
  <2> QED
    BY <1>2, <1>3, <2>1, <2>2 DEF Sent
<1>5. CASE ~ ssl[e].keep
  <2>1. Unheard(o) = Sent(o)
    BY <1>1, <1>5, UnheardIs
  <2>2. w # <<>> /\ Consumed(e) = [wire EXCEPT ![o] = Tail(w)] /\ Got(e) = Head(w)
    BY <1>5 DEF Has, Consumed, Got
  <2>3. Consumed(e)[o] = Tail(w)
    BY <1>1, <2>2
  <2>4. Sent(o) = w \o t
    BY DEF Sent
  <2> HIDE DEF w, t
  <2>5. w \o t # <<>> /\ Tail(w \o t) = Tail(w) \o t /\ (w \o t)[1] = Head(w)
    BY <1>1, <2>2
  <2> QED
    BY <1>2, <1>3, <2>1, <2>2, <2>3, <2>4, <2>5 DEF t
<1> QED
  BY <1>1, <1>4, <1>5

\* An end that reads finds the line it waits for, a ChangeCipherSpec that it
\* passes over, or the alert of a peer that has refused it.
LEMMA Finds ==
    ASSUME IInv, InStep, NEW e \in Ends, Running(e), Takes(e) # {}, Has(e)
    PROVE  LET k == LineOf(setup, Other(e), Got(e))
               n == NextLine(setup, Reached(e))
           IN  \/ k = Alert /\ Got(e).type = "alert" /\ ~ ssl[e].keep /\ ssl[Other(e)].result # "running"
               \/ k \in PassedOver \cap Lines(setup) /\ Says(setup, k, Got(e)) /\ ~ ssl[e].keep
               \/ k = n /\ Says(setup, k, Got(e)) /\ n <= Reached(Other(e))
<1> DEFINE u == setup
           o == Other(e)
           q == Unheard(o)
           k == LineOf(u, o, Got(e))
           n == NextLine(u, Reached(e))
<1>1. /\ o \in Ends /\ Other(o) = e /\ u \in Setup /\ ssl[e].keep \in BOOLEAN
      /\ Reached(e) \in Places /\ Reached(o) \in Places
  BY EndAt, EndsAre, PlaceIs DEF Context, Reached
<1>2. q \in Seq(Record) /\ q # <<>> /\ q[1] = Got(e)
  BY FrontIs
<1>3. /\ n \in Lines(u) \ PassedOver /\ Speaker(n) = o /\ Reached(e) < n
      /\ Passes(u, Reached(e), n, n)
  BY Awaits DEF Expects
<1>4. InOrder(o)
  BY <1>1 DEF InStep, Running
<1>5. /\ Lined(u, o, q, Reached(e), Reached(o))
      /\ ssl[o].result = "running" => NoAlert(u, o, q)
      /\ ssl[e].keep => k \notin PassedOver \cup {Alert}
  BY <1>1, <1>2, <1>4 DEF InOrder
<1>6. \/ k = Alert
      \/ k \in PassedOver \cap Lines(u) /\ Says(u, k, Got(e))
      \/ k = n /\ Says(u, k, Got(e)) /\ n <= Reached(o)
  BY <1>1, <1>2, <1>3, <1>5, LinedHead
<1>7. k = Alert => Got(e).type = "alert" /\ ssl[o].result # "running"
  <2>1. k = Alert => Got(e).type = "alert"
    BY DEF LineOf, Alert
  <2>2. 1 \in 1 .. Len(q)
    BY <1>2, TailIs
  <2>3. k = Alert => ~ NoAlert(u, o, q)
    BY <1>2, <2>2 DEF NoAlert
  <2> QED
    BY <1>5, <2>1, <2>3
<1> QED
  BY <1>1, <1>5, <1>6, <1>7

\* A message that a handler takes is the line it waits for.
LEMMA Hears ==
    ASSUME IInv, InStep, NEW e \in Ends, NEW version \in Versions, NEW state,
           Reads(e, version, state),
           NEW k, k = NextLine(setup, Reached(e))
    PROVE  /\ Expects(e, k) /\ Says(setup, k, Got(e)) /\ LineOf(setup, Other(e), Got(e)) = k
           /\ Got(e).type = Type(k) /\ Got(e).body = Body(setup, k)
           /\ k <= Reached(Other(e))
           /\ Got(e).type \in Bound /\ ~ ssl[e].keep => Binds(e)
           /\ Has(e) /\ Running(e) /\ ssl[e].out = <<>> /\ ssl[e].version = version
           /\ ssl[e].state = state
<1> DEFINE j == LineOf(setup, Other(e), Got(e))
<1>1. /\ Running(e) /\ ssl[e].out = <<>> /\ ssl[e].version = version /\ ssl[e].state = state
      /\ Has(e) /\ Got(e).type \in Takes(e) /\ ~ Ignored(e, Got(e))
  BY DEF Reads, At
<1>2. Takes(e) # {}
  BY <1>1
<1>3. \/ j = Alert /\ Got(e).type = "alert"
      \/ j \in PassedOver \cap Lines(setup) /\ Says(setup, j, Got(e))
      \/ j = k /\ Says(setup, j, Got(e)) /\ k <= Reached(Other(e))
  BY <1>1, <1>2, Finds
<1>4. Expects(e, k)
  BY <1>2, Awaits
<1>5. Got(e).type # "alert"
  BY <1>1 DEF Takes, Takes12, Takes13, AnyMessage
<1>6. j \notin PassedOver \cap Lines(setup)
  <2> SUFFICES ASSUME j \in PassedOver, j \in Lines(setup), Says(setup, j, Got(e))
               PROVE  FALSE
    BY <1>3, <1>5
  <2>1. Got(e).type = "ChangeCipherSpec"
    BY TypeIs DEF PassedOver, Says
  <2>2. ~ V12(setup)
    BY DEF Lines, Lines12, PassedOver
  <2>3. ssl[e].version = "tls12"
    BY <1>1, <2>1, EndAt DEF Ignored, Versions
  <2>4. V12(setup)
    BY <2>3 DEF InStep, FitsPlace, Client12Fits, Server12Fits
  <2> QED
    BY <2>2, <2>4
<1>7. j = k /\ Says(setup, k, Got(e)) /\ k <= Reached(Other(e))
  BY <1>3, <1>5, <1>6
<1>8. Got(e).type \in Bound /\ ~ ssl[e].keep => Binds(e)
  BY <1>4, <1>7 DEF Expects, Says, Binds
<1> QED
  BY <1>1, <1>4, <1>7, <1>8 DEF Says

-----------------------------------------------------------------------------
(* The shapes of a step, in the script.                                    *)

\* A step keeps the two ends in step, and is one of the flights or none.
Goes == InStep' /\ [Flights!Next]_(Flights!vars)

\* What the flights say of one end.
Status(e) ==
    IF ssl[e].result # "running" THEN "failed" ELSE IF Over(e) THEN "over" ELSE "running"

\* The variables of the flights, one by one.
LEMMA FlightsVars ==
    /\ Flights!vars = <<Total, flights, [e \in Ends |-> Status(e)]>>
    /\ Flights!vars' = <<Total', flights', [e \in Ends |-> Status(e)']>>
  BY DEF Flights!vars, Status

\* Total is said by the configurations.
LEMMA TotalStays ==
    ASSUME setup' = setup
    PROVE  Total' = Total
  BY DEF Total

\* The end e goes on, from its place to that of b, past line k: what is left to
\* show is that each end is still heard in order.
LEMMA Advance ==
    ASSUME IInv, InStep, NEW e \in Ends, NEW b, NEW k, Running(e),
           setup' = setup, ssl' = [ssl EXCEPT ![e] = b], b.result = "running",
           FitsPlace(setup, e, b), Turn(setup, Reached(e), Place(e, b), k),
           flights' = IF k \in FlightEnds THEN [flights EXCEPT ![e] = @ + 1] ELSE flights,
           b.state = "HANDSHAKE_OVER" => k = 0 /\ FlightsAt(setup, Reached(e)) = Total,
           k \in FlightEnds => \/ Speaker(k) = e
                               \/ Speaker(k) = Other(e) /\ k <= Reached(Other(e)),
           ssl[Other(e)].result = "running" => InOrder(e)',
           InOrder(Other(e))'
    PROVE  Goes
<1> DEFINE u == setup
           o == Other(e)
           p == Reached(e)
           q == Place(e, b)
<1>1. /\ o \in Ends /\ o # e /\ Other(o) = e /\ Ends = {e, o} /\ u \in Setup
      /\ ssl \in [Ends -> Context] /\ flights \in [Ends -> Nat]
      /\ p \in Nat /\ q \in Nat /\ Reached(o) \in Nat
  BY EndAt, EndsAre, PlaceIs DEF IInv, Types, Ends, Other, Reached
<1>2. ssl'[e] = b /\ ssl'[o] = ssl[o]
  BY <1>1
<1>3. Reached(e)' = q /\ Reached(o)' = Reached(o)
  BY <1>2 DEF Reached
<1>4. /\ FailsOnlyByRefusal /\ FitsPlace(u, o, ssl[o])
      /\ flights[e] = FlightsAt(u, p) /\ flights[o] = FlightsAt(u, Reached(o))
      /\ ssl[e].result = "running" /\ ssl[e].state # "HANDSHAKE_OVER"
  BY <1>1 DEF InStep, Running
<1>5. k \in FlightEnds => k \in Lines(u) /\ k # 0 /\ k \notin PassedOver
  BY DEF Turn, FlightEnds, PassedOver
<1>6. /\ p <= q /\ Passes(u, p, q, k)
      /\ k \in FlightEnds => k \in Lines(u) /\ p < k /\ k <= q
  BY <1>5 DEF Turn
<1>7. FlightsAt(u, q) = FlightsAt(u, p) + IF k \in FlightEnds THEN 1 ELSE 0
  BY <1>1, <1>6, FlightsMove
<1>8. flights'[e] = FlightsAt(u, q) /\ flights'[o] = flights[o]
  BY <1>1, <1>4, <1>7
<1>9. FailsOnlyByRefusal'
  <2>1. /\ \A d \in Ends : (Unacceptable(d)' <=> Unacceptable(d))
        /\ NoCommonProtocol' <=> NoCommonProtocol
    BY DEF Unacceptable, Asks, NoCommonProtocol
  <2>2. ssl[o].result \notin {"alert", "bad_mac", "eof"}
    BY <1>1, <1>4 DEF FailsOnlyByRefusal, Refused, Refusals
  <2>3. \A d \in Ends :
          /\ Refused(d)' => Explained(d, ssl[d].result)'
          /\ ssl'[d].result \in {"alert", "bad_mac", "eof"} => Refused(Other(d))'
          /\ ssl'[d].result \notin {"unexpected", "downgrade", "bad_signature", "bad_finished"}
    <3>1. /\ Refused(e)' => Explained(e, ssl[e].result)'
          /\ ssl'[e].result \in {"alert", "bad_mac", "eof"} => Refused(Other(e))'
          /\ ssl'[e].result \notin {"unexpected", "downgrade", "bad_signature", "bad_finished"}
      BY <1>2 DEF Refused, Refusals
    <3>2. /\ Refused(o)' => Explained(o, ssl[o].result)'
          /\ ssl'[o].result \in {"alert", "bad_mac", "eof"} => Refused(Other(o))'
          /\ ssl'[o].result \notin {"unexpected", "downgrade", "bad_signature", "bad_finished"}
      BY <1>1, <1>2, <1>4, <2>1, <2>2 DEF Refused, Explained, FailsOnlyByRefusal
    <3> QED
      BY <1>1, <3>1, <3>2
  <2> QED
    BY <2>3 DEF FailsOnlyByRefusal
<1>10. /\ FitsPlace(setup', e, ssl'[e]) /\ flights'[e] = FlightsAt(setup', Reached(e)')
       /\ ssl'[o].result = "running" => InOrder(e)'
  BY <1>2, <1>3, <1>8
<1>11. /\ FitsPlace(setup', o, ssl'[o]) /\ flights'[o] = FlightsAt(setup', Reached(o)')
       /\ InOrder(o)'
  BY <1>2, <1>3, <1>4, <1>8
<1>12. InStep'
  <2>1. \A d \in Ends :
          /\ FitsPlace(setup', d, ssl'[d])
          /\ ssl'[Other(d)].result = "running" => InOrder(d)'
          /\ flights'[d] = FlightsAt(setup', Reached(d)')
    BY <1>1, <1>10, <1>11
  <2> QED
    BY <1>9, <2>1 DEF InStep
<1>13. [Flights!Next]_(Flights!vars)
  <2> DEFINE st == [d \in Ends |-> Status(d)]
             st2 == [d \in Ends |-> Status(d)']
  <2>1. Total' = Total
    BY TotalStays
  <2>2. /\ st[e] = "running" /\ \A d \in Ends : d # e => st2[d] = st[d]
        /\ st2[e] = IF b.state = "HANDSHAKE_OVER" THEN "over" ELSE "running"
    <3>1. Status(e) = "running"
      BY <1>4 DEF Status, Over
    <3>2. Status(o)' = Status(o)
      BY <1>2 DEF Status, Over
    <3>3. Status(e)' = IF b.state = "HANDSHAKE_OVER" THEN "over" ELSE "running"
      BY <1>2 DEF Status, Over
    <3> QED
      BY <1>1, <3>1, <3>2, <3>3
  <2>3. /\ Flights!vars = <<Total, flights, st>> /\ Flights!vars' = <<Total', flights', st2>>
    BY FlightsVars
  <2>4. CASE b.state = "HANDSHAKE_OVER"
    <3>1. k \notin FlightEnds /\ flights[e] = Total
      BY <1>4, <2>4 DEF FlightEnds
    <3>2. flights' = flights /\ st2 = [st EXCEPT ![e] = "over"]
      BY <1>1, <2>2, <2>4, <3>1
    <3>3. Flights!Finish(e)
      BY <1>4, <2>1, <2>2, <3>1, <3>2 DEF Flights!Finish, Status, Over
    <3> QED
      BY <3>3 DEF Flights!Next, Flights!Ends, Ends
  <2>5. CASE b.state # "HANDSHAKE_OVER" /\ k \notin FlightEnds
    <3>1. flights' = flights /\ st2 = st
      BY <1>1, <2>2, <2>5
    <3> QED
      BY <2>1, <2>3, <3>1
  <2>6. CASE b.state # "HANDSHAKE_OVER" /\ k \in FlightEnds
    <3>1. st2 = st /\ flights' = [flights EXCEPT ![e] = @ + 1]
      BY <1>1, <2>2, <2>6
    <3>2. k \in Lines(u) \ PassedOver /\ p < k /\ Passes(u, p, k, k)
      BY <1>5, <2>6, TurnTo
    <3>3. FlightsAt(u, p) < Total /\ Flights!Sender(FlightsAt(u, p) + 1) = Speaker(k)
      BY <1>1, <3>2, NextFlight
    <3>4. CASE Speaker(k) = e
      <4>1. Flights!Send(e)
        BY <1>4, <2>1, <2>2, <3>1, <3>3, <3>4 DEF Flights!Send, Status, Over
      <4> QED
        BY <4>1 DEF Flights!Next, Flights!Ends, Ends
    <3>5. CASE Speaker(k) = o /\ k <= Reached(o)
      <4>1. k \in Nat /\ k <= q
        BY <1>5, <1>6, <2>6, LinesAre
      <4>2. FlightsAt(u, k) = FlightsAt(u, p) + 1
        BY <1>1, <2>6, <3>2, <4>1, FlightsMove
      <4>3. /\ FlightsAt(u, k) <= FlightsAt(u, Reached(o)) /\ FlightsAt(u, p) \in Nat
            /\ FlightsAt(u, k) \in Nat /\ FlightsAt(u, Reached(o)) \in Nat
        BY <1>1, <3>5, <4>1, FlightsGrow
      <4>4. flights[e] < flights[o]
        BY <1>4, <4>2, <4>3
      <4>5. Flights!Other(e) = o
        BY DEF Flights!Other, Other
      <4>6. Flights!Accept(e)
        BY <1>4, <2>1, <2>2, <3>1, <3>3, <3>5, <4>4, <4>5 DEF Flights!Accept, Status, Over
      <4> QED
        BY <4>6 DEF Flights!Next, Flights!Ends, Ends
    <3> QED
      BY <2>6, <3>4, <3>5
  <2> QED
    BY <2>4, <2>5, <2>6
<1> QED
  BY <1>12, <1>13 DEF Goes

\* To stay is a turn.
LEMMA TurnStay ==
    ASSUME NEW u, NEW p \in Places
    PROVE  Turn(u, p, p, 0)
<1>1. \A j \in Lines(u) : j \in Nat /\ j # 0
  BY LinesAre
<1>2. p \in Nat
  BY DEF Places
<1>3. Passes(u, p, p, 0)
  BY <1>1, <1>2 DEF Passes
<1>4. Transcript(u, p) = Say(u, 0, Transcript(u, p))
  BY <1>1 DEF Say
<1> QED
  BY <1>2, <1>3, <1>4 DEF Turn

\* In a turn of somebody else e says nothing.
LEMMA TurnSilence ==
    ASSUME NEW u, NEW e, NEW p, NEW q, NEW k, Turn(u, p, q, k), k = 0 \/ Speaker(k) # e
    PROVE  Silence(u, e, p, q)
<1>1. \A j \in Lines(u) : j # 0
  BY LinesAre
<1> QED
  BY <1>1 DEF Turn, Passes, Silence

\* A step of e that neither says nor hears a line.
LEMMA Mute ==
    ASSUME IInv, InStep, NEW e \in Ends, NEW b, Running(e),
           setup' = setup, ssl' = [ssl EXCEPT ![e] = b], b.result = "running", flights' = flights,
           FitsPlace(setup, e, b), Turn(setup, Reached(e), Place(e, b), 0),
           b.state = "HANDSHAKE_OVER" => FlightsAt(setup, Reached(e)) = Total,
           b.keep => LineOf(setup, Other(e), Unheard(Other(e))[1]) \notin PassedOver \cup {Alert},
           Unheard(e)' = Unheard(e), Unheard(Other(e))' = Unheard(Other(e))
    PROVE  Goes
<1> DEFINE u == setup
           o == Other(e)
           p == Reached(e)
           q == Place(e, b)
<1>1. /\ o \in Ends /\ o # e /\ Other(o) = e /\ u \in Setup /\ ssl \in [Ends -> Context]
      /\ p \in Places /\ q \in Places /\ Reached(o) \in Places /\ p <= q
      /\ p \in Nat /\ q \in Nat /\ Reached(o) \in Nat
      /\ Unheard(e) \in Seq(Record) /\ Unheard(o) \in Seq(Record)
  BY EndAt, EndsAre, PlaceIs, UnheardIs DEF IInv, Types, Reached, Turn
<1>2. ssl'[e] = b /\ ssl'[o] = ssl[o] /\ Reached(e)' = q /\ Reached(o)' = Reached(o)
  BY <1>1 DEF Reached
<1>3. Silence(u, e, p, q) /\ Silence(u, o, p, q) /\ Silence(u, e, Reached(o), Reached(o))
      /\ Silence(u, o, Reached(o), Reached(o))
  BY <1>1, TurnSilence, TurnStay
<1>4. ssl[o].result = "running" => InOrder(e)'
  <2> SUFFICES ASSUME ssl[o].result = "running"
               PROVE  InOrder(e)'
    OBVIOUS
  <2>1. InOrder(e)
    BY DEF InStep
  <2>2. Lined(u, e, Unheard(e), Reached(o), q)
    BY <1>1, <1>3, <2>1, LinedStay DEF InOrder
  <2> QED
    BY <1>2, <2>1, <2>2 DEF InOrder, Running
<1>5. InOrder(o)'
  <2>1. InOrder(o)
    BY <1>1 DEF InStep, Running
  <2>2. Lined(u, o, Unheard(o), q, Reached(o))
    BY <1>1, <1>3, <2>1, LinedStay DEF InOrder
  <2> QED
    BY <1>1, <1>2, <2>1, <2>2 DEF InOrder
<1>6. 0 \notin FlightEnds
  BY DEF FlightEnds
<1> QED
  BY <1>4, <1>5, <1>6, Advance

\* A step of e that says line k.
LEMMA Talk ==
    ASSUME IInv, InStep, NEW e \in Ends, NEW b, NEW k, NEW r \in Record, Running(e),
           setup' = setup, ssl' = [ssl EXCEPT ![e] = b], b.result = "running",
           flights' = IF k \in FlightEnds THEN [flights EXCEPT ![e] = @ + 1] ELSE flights,
           FitsPlace(setup, e, b), Turn(setup, Reached(e), Place(e, b), k),
           b.state # "HANDSHAKE_OVER",
           b.keep => ssl[e].keep,
           k # 0, Speaker(k) = e, Says(setup, k, r),
           Unheard(e)' = Append(Unheard(e), r), Unheard(Other(e))' = Unheard(Other(e))
    PROVE  Goes
<1> DEFINE u == setup
           o == Other(e)
           p == Reached(e)
           q == Place(e, b)
<1>1. /\ o \in Ends /\ o # e /\ Other(o) = e /\ u \in Setup /\ ssl \in [Ends -> Context]
      /\ p \in Places /\ q \in Places /\ Reached(o) \in Places /\ p <= q
      /\ p \in Nat /\ q \in Nat /\ Reached(o) \in Nat
      /\ Unheard(e) \in Seq(Record) /\ Unheard(o) \in Seq(Record)
      /\ k \in Lines(u) /\ p < k /\ k <= q /\ Passes(u, p, q, k)
  BY EndAt, EndsAre, PlaceIs, UnheardIs DEF IInv, Types, Reached, Turn
<1>2. ssl'[e] = b /\ ssl'[o] = ssl[o] /\ Reached(e)' = q /\ Reached(o)' = Reached(o)
  BY <1>1 DEF Reached
<1>3. Silence(u, o, p, q) /\ Silence(u, o, Reached(o), Reached(o))
  BY <1>1, TurnSilence, TurnStay
<1>4. ssl[o].result = "running" => InOrder(e)'
  <2> SUFFICES ASSUME ssl[o].result = "running"
               PROVE  InOrder(e)'
    OBVIOUS
  <2>1. InOrder(e)
    BY DEF InStep
  <2>2. Lined(u, e, Unheard(e), Reached(o), p) /\ NoAlert(u, e, Unheard(e))
    BY <2>1 DEF InOrder, Running
  <2>3. Lined(u, e, Append(Unheard(e), r), Reached(o), q) /\ NoAlert(u, e, Append(Unheard(e), r))
    BY <1>1, <2>2, LinedSay
  <2>4. ssl[o].keep => LineOf(u, e, Append(Unheard(e), r)[1]) \notin PassedOver \cup {Alert}
    <3> SUFFICES ASSUME ssl[o].keep
                 PROVE  LineOf(u, e, Append(Unheard(e), r)[1]) \notin PassedOver \cup {Alert}
      OBVIOUS
    <3>1. Unheard(e) # <<>>
      BY UnheardIs
    <3>2. Append(Unheard(e), r)[1] = Unheard(e)[1]
      BY <1>1, <3>1
    <3> QED
      BY <2>1, <3>2 DEF InOrder
  <2> QED
    BY <1>2, <2>3, <2>4 DEF InOrder
<1>5. InOrder(o)'
  <2>1. InOrder(o)
    BY <1>1 DEF InStep, Running
  <2>2. Lined(u, o, Unheard(o), q, Reached(o))
    BY <1>1, <1>3, <2>1, LinedStay DEF InOrder
  <2> QED
    BY <1>1, <1>2, <2>1, <2>2 DEF InOrder
<1> QED
  BY <1>4, <1>5, Advance

\* A step of e that hears line k.
LEMMA Listen ==
    ASSUME IInv, InStep, NEW e \in Ends, NEW b, NEW k, Running(e),
           setup' = setup, ssl' = [ssl EXCEPT ![e] = b], b.result = "running",
           flights' = IF k \in FlightEnds THEN [flights EXCEPT ![e] = @ + 1] ELSE flights,
           FitsPlace(setup, e, b), Turn(setup, Reached(e), Place(e, b), k),
           b.state # "HANDSHAKE_OVER", ~ b.keep,
           k # 0, k \notin PassedOver, Speaker(k) = Other(e), k <= Reached(Other(e)),
           Unheard(Other(e)) # <<>>, LineOf(setup, Other(e), Unheard(Other(e))[1]) = k,
           Unheard(e)' = Unheard(e), Unheard(Other(e))' = Tail(Unheard(Other(e)))
    PROVE  Goes
<1> DEFINE u == setup
           o == Other(e)
           p == Reached(e)
           q == Place(e, b)
<1>1. /\ o \in Ends /\ o # e /\ Other(o) = e /\ u \in Setup /\ ssl \in [Ends -> Context]
      /\ p \in Places /\ q \in Places /\ Reached(o) \in Places /\ p <= q
      /\ p \in Nat /\ q \in Nat /\ Reached(o) \in Nat
      /\ Unheard(e) \in Seq(Record) /\ Unheard(o) \in Seq(Record)
      /\ k \in Lines(u) /\ p < k /\ k <= q /\ Passes(u, p, q, k)
  BY EndAt, EndsAre, PlaceIs, UnheardIs DEF IInv, Types, Reached, Turn
<1>2. ssl'[e] = b /\ ssl'[o] = ssl[o] /\ Reached(e)' = q /\ Reached(o)' = Reached(o)
  BY <1>1 DEF Reached
<1>3. Silence(u, e, p, q) /\ Silence(u, e, Reached(o), Reached(o))
  BY <1>1, TurnSilence, TurnStay
<1>4. ssl[o].result = "running" => InOrder(e)'
  <2> SUFFICES ASSUME ssl[o].result = "running"
               PROVE  InOrder(e)'
    OBVIOUS
  <2>1. InOrder(e)
    BY DEF InStep
  <2>2. Lined(u, e, Unheard(e), Reached(o), q)
    BY <1>1, <1>3, <2>1, LinedStay DEF InOrder
  <2> QED
    BY <1>2, <2>1, <2>2 DEF InOrder, Running
<1>5. InOrder(o)'
  <2>1. InOrder(o)
    BY <1>1 DEF InStep, Running
  <2>2. Lined(u, o, Tail(Unheard(o)), q, Reached(o))
    BY <1>1, <2>1, LinedHear DEF InOrder
  <2>3. ssl[o].result = "running" => NoAlert(u, o, Tail(Unheard(o)))
    BY <1>1, <2>1, NoAlertTail DEF InOrder
  <2> QED
    BY <1>1, <1>2, <2>2, <2>3 DEF InOrder
<1> QED
  BY <1>4, <1>5, Advance

-----------------------------------------------------------------------------
(* The shapes of a handler, in the script.                                 *)

\* What the script says of a context does not depend on out, msg and result.
Alike(a, b) ==
    /\ b.state = a.state /\ b.version = a.version /\ b.keep = a.keep /\ b.checksum = a.checksum
    /\ b.inKey = a.inKey /\ b.outKey = a.outKey /\ b.clientAuth = a.clientAuth
    /\ b.retried = a.retried /\ b.ccsSent = a.ccsSent /\ b.peerCert = a.peerCert
    /\ b.newTicket = a.newTicket

\* Contexts that are alike are at the same place, and fit it alike.
LEMMA FitsAlike ==
    ASSUME NEW u, NEW e, NEW a, NEW b, Alike(a, b), FitsPlace(u, e, a)
    PROVE  Place(e, b) = Place(e, a) /\ FitsPlace(u, e, b)
<1> USE DEF Alike
<1>1. /\ Place12(b) = Place12(a) /\ ClientPlace13(b) = ClientPlace13(a)
      /\ ServerPlace13(b) = ServerPlace13(a)
  BY DEF Place12, ClientPlace13, ServerPlace13
<1>2. Place(e, b) = Place(e, a)
  BY <1>1 DEF Place
<1>3. /\ Client13Fits(u, a) => Client13Fits(u, b)
      /\ Server13Fits(u, a) => Server13Fits(u, b)
  BY <1>1 DEF Client13Fits, Server13Fits
<1>4. /\ Client12Fits(u, a) => Client12Fits(u, b)
      /\ Server12Fits(u, a) => Server12Fits(u, b)
  BY <1>1 DEF Client12Fits, Server12Fits
<1> QED
  BY <1>2, <1>3, <1>4 DEF FitsPlace

\* The message an end keeps, as a sequence.
Kept(s) == IF s.keep THEN <<s.msg>> ELSE <<>>

\* What of either end is unheard, before and after a step that leaves e with b.
Queues(e, b) ==
    LET o == Other(e) IN
    /\ Unheard(e)' = Kept(ssl[o]) \o (wire'[e] \o b.out)
    /\ Unheard(o)' = Kept(b) \o (wire'[o] \o ssl[o].out)
    /\ Unheard(e) = Kept(ssl[o]) \o (wire[e] \o ssl[e].out)
    /\ Unheard(o) = Kept(ssl[e]) \o (wire[o] \o ssl[o].out)

\* A step of e leaves its peer alone.
LEMMA UnheardThen ==
    ASSUME IInv, NEW e \in Ends, NEW b, ssl' = [ssl EXCEPT ![e] = b]
    PROVE  Queues(e, b)
<1> DEFINE o == Other(e)
<1>1. o \in Ends /\ o # e /\ Other(o) = e /\ ssl \in [Ends -> Context]
  BY EndAt, EndsAre DEF IInv, Types
<1>2. ssl'[e] = b /\ ssl'[o] = ssl[o]
  BY <1>1
<1> QED
  BY <1>1, <1>2 DEF Unheard, Sent, Kept, Queues

\* Queues, put together.
LEMMA QueuesAre ==
    ASSUME NEW m \in Seq(Record), NEW w \in Seq(Record), NEW r \in Record
    PROVE  /\ w \o <<>> = w
           /\ m \o (Append(w, r) \o <<>>) = Append(m \o (w \o <<>>), r)
           /\ m \o (w \o <<r>>) = Append(m \o (w \o <<>>), r)
           /\ m \o w \in Seq(Record)
  OBVIOUS

\* A handler that only changes the context.
LEMMA BecomeGoes ==
    ASSUME IInv, InStep, NEW e \in Ends, NEW b, Become(e, b), Running(e), ssl[e].out = <<>>,
           b.out = <<>>, b.result = "running", b.keep = ssl[e].keep, b.msg = ssl[e].msg,
           FitsPlace(setup, e, b), Turn(setup, Reached(e), Place(e, b), 0),
           b.state = "HANDSHAKE_OVER" => FlightsAt(setup, Reached(e)) = Total
    PROVE  Goes
<1> DEFINE o == Other(e)
<1>1. setup' = setup /\ ssl' = [ssl EXCEPT ![e] = b] /\ wire' = wire /\ flights' = flights
  BY DEF Become
<1>2. o \in Ends /\ Other(o) = e
  BY EndAt
<1>3. Unheard(e)' = Unheard(e) /\ Unheard(o)' = Unheard(o)
  <2>1. Kept(b) = Kept(ssl[e])
    BY DEF Kept
  <2>2. Queues(e, b)
    BY <1>1, UnheardThen
  <2> QED
    BY <1>1, <2>1, <2>2 DEF Queues
<1>4. b.keep => LineOf(setup, o, Unheard(o)[1]) \notin PassedOver \cup {Alert}
  BY <1>2 DEF InStep, InOrder, Running
<1> QED
  BY <1>1, <1>3, <1>4, Mute

\* A handler that accepts the line it waits for.
LEMMA AcceptGoes ==
    ASSUME IInv, InStep, NEW e \in Ends, NEW version \in Versions, NEW state,
           Reads(e, version, state),
           NEW s \in Context, NEW next \in StateNames \ {"HANDSHAKE_OVER"}, Accept(e, s, next),
           NEW k, k = NextLine(setup, Reached(e)), NEW b, b = [s EXCEPT !.state = next],
           s.out = <<>>, s.result = "running", ~ s.keep,
           FitsPlace(setup, e, b), Turn(setup, Reached(e), Place(e, b), k)
    PROVE  Goes
<1> DEFINE o == Other(e)
<1>1. /\ Expects(e, k) /\ Says(setup, k, Got(e)) /\ LineOf(setup, o, Got(e)) = k
      /\ Got(e).type = Type(k) /\ Got(e).body = Body(setup, k) /\ k <= Reached(o)
      /\ Has(e) /\ Running(e) /\ ssl[e].out = <<>>
  BY Hears
<1>2. /\ b.state = next /\ b.out = <<>> /\ b.result = "running" /\ ~ b.keep
  BY DEF Context
<1>3. /\ setup' = setup /\ ssl' = [ssl EXCEPT ![e] = b] /\ wire' = Consumed(e)
      /\ flights' = IF EndsFlight(Got(e).type, Got(e).body) THEN [flights EXCEPT ![e] = @ + 1] ELSE flights
  BY DEF Accept, Count
<1>4. /\ k \in Lines(setup) /\ k \notin PassedOver /\ Speaker(k) = o /\ k # 0 /\ setup \in Setup
      /\ o \in Ends /\ Other(o) = e
  <2>1. k \in Lines(setup) /\ k \notin PassedOver /\ Speaker(k) = o
    BY <1>1 DEF Expects
  <2>2. setup \in Setup /\ o \in Ends /\ Other(o) = e
    BY EndAt
  <2> QED
    BY <2>1, <2>2, LinesAre
<1>5. flights' = IF k \in FlightEnds THEN [flights EXCEPT ![e] = @ + 1] ELSE flights
  BY <1>1, <1>3, <1>4, LineIs
<1>6. /\ Unheard(o) \in Seq(Record) /\ Unheard(o) # <<>> /\ Unheard(o)[1] = Got(e)
      /\ Consumed(e)[o] \o ssl[o].out = Tail(Unheard(o)) /\ Consumed(e)[e] = wire[e]
  BY <1>1, FrontIs
<1>10. Queues(e, b)
  BY <1>3, UnheardThen
<1>7. Unheard(e)' = Unheard(e)
  BY <1>1, <1>2, <1>3, <1>6, <1>10 DEF Queues
<1>8. Unheard(o)' = Tail(Unheard(o))
  <2>1. Unheard(o)' = <<>> \o Tail(Unheard(o))
    BY <1>2, <1>3, <1>6, <1>10 DEF Kept, Queues
  <2>2. Tail(Unheard(o)) \in Seq(Record)
    BY <1>6, TailIs
  <2>3. \A t \in Seq(Record) : <<>> \o t = t
    OBVIOUS
  <2> QED
    BY <2>1, <2>2, <2>3
<1> HIDE DEF o
<1>9. b.state # "HANDSHAKE_OVER"
  BY <1>2
<1> QED
  BY <1>1, <1>2, <1>3, <1>4, <1>5, <1>6, <1>7, <1>8, <1>9, Listen DEF o

\* A handler that leaves the line it waits for to the next one.
LEMMA KeepGoes ==
    ASSUME IInv, InStep, NEW e \in Ends, NEW version \in Versions, NEW state,
           Reads(e, version, state),
           NEW s \in Context, NEW next \in StateNames \ {"HANDSHAKE_OVER"}, Keep(e, s, next),
           NEW b, b = [s EXCEPT !.state = next, !.keep = TRUE, !.msg = Got(e)],
           s.out = <<>>, s.result = "running",
           FitsPlace(setup, e, b), Turn(setup, Reached(e), Place(e, b), 0)
    PROVE  Goes
<1> DEFINE o == Other(e)
           k == NextLine(setup, Reached(e))
<1>1. /\ Expects(e, k) /\ LineOf(setup, o, Got(e)) = k
      /\ Has(e) /\ Running(e) /\ ssl[e].out = <<>>
  BY Hears
<1>2. b.state = next /\ b.out = <<>> /\ b.result = "running" /\ b.keep /\ b.msg = Got(e)
  BY DEF Context
<1>3. setup' = setup /\ ssl' = [ssl EXCEPT ![e] = b] /\ wire' = Consumed(e) /\ flights' = flights
  BY DEF Keep
<1>4. k \notin PassedOver \cup {Alert}
  BY <1>1, LinesAre DEF Expects
<1>6. /\ Unheard(o) \in Seq(Record) /\ Unheard(o) # <<>> /\ Unheard(o)[1] = Got(e)
      /\ Consumed(e)[o] \o ssl[o].out = Tail(Unheard(o)) /\ Consumed(e)[e] = wire[e]
  BY <1>1, FrontIs
<1>11. Queues(e, b)
  BY <1>3, UnheardThen
<1>7. Unheard(e)' = Unheard(e)
  BY <1>1, <1>2, <1>3, <1>6, <1>11 DEF Queues
<1>8. Unheard(o)' = Unheard(o)
  <2>1. Unheard(o)' = <<Got(e)>> \o Tail(Unheard(o))
    BY <1>2, <1>3, <1>6, <1>11 DEF Kept, Queues
  <2>2. \A t \in Seq(Record) : t # <<>> => <<t[1]>> \o Tail(t) = t
    OBVIOUS
  <2> QED
    BY <1>6, <2>1, <2>2
<1>9. b.keep => LineOf(setup, o, Unheard(o)[1]) \notin PassedOver \cup {Alert}
  BY <1>1, <1>4, <1>6
<1>10. b.state # "HANDSHAKE_OVER"
  BY <1>2
<1> HIDE DEF o, k
<1> QED
  BY <1>1, <1>2, <1>3, <1>7, <1>8, <1>9, <1>10, Mute DEF o

\* What Written leaves alone beyond WrittenOf.
LEMMA WrittenMore ==
    ASSUME NEW s \in Context, NEW type \in MessageTypes, NEW body \in Bodies,
           NEW state \in StateNames,
           NEW w, w = Written(s, type, body, state)
    PROVE  /\ w.retried = s.retried /\ w.ccsSent = s.ccsSent /\ w.newTicket = s.newTicket
           /\ w.msg = s.msg
           /\ WrittenOf(s, type, body, state, w)
<1>1. WrittenOf(s, type, body, state, w)
  BY WrittenIs
<1>2. CASE type = "ChangeCipherSpec"
  <2>1. w = [s EXCEPT !.state = state]
    BY <1>2 DEF Written
  <2> QED
    BY <1>1, <2>1 DEF Context
<1>3. CASE type # "ChangeCipherSpec"
  <2> DEFINE c == Append(s.checksum, <<type, body>>)
  <2>1. w = [s EXCEPT !.checksum = c, !.state = state]
    BY <1>3 DEF Written, Hashed, Context
  <2> HIDE DEF c
  <2> QED
    BY <1>1, <2>1 DEF Context
<1> QED
  BY <1>2, <1>3

\* A handler that writes line k.
LEMMA WriteGoes ==
    ASSUME IInv, InStep, NEW e \in Ends, NEW s \in Context, NEW type, NEW body,
           NEW state \in StateNames,
           Write(e, s, type, body, state), Running(e), ssl[e].out = <<>>,
           s.out = <<>>, s.result = "running", s.keep = ssl[e].keep, s.keep => s.msg = ssl[e].msg,
           state # "HANDSHAKE_OVER",
           NEW k, k \in Lines(setup), type = Type(k), body = Body(setup, k), Speaker(k) = e,
           k \notin PassedOver => s.outKey = Key(k),
           type \in Bound => s.checksum = Transcript(setup, k - 1),
           NEW w, w = Written(s, type, body, state),
           FitsPlace(setup, e, w), Turn(setup, Reached(e), Place(e, w), k)
    PROVE  Goes
<1> DEFINE o == Other(e)
           record == Seal(s, type, body)
           later == s.version = "tls13" \/ type = "ClientHello"
           x == IF later THEN <<record>> ELSE <<>>
           b == [w EXCEPT !.out = x]
<1>1. /\ type \in MessageTypes /\ body \in Bodies /\ setup \in Setup /\ k # 0
      /\ EndsFlight(type, body) <=> k \in FlightEnds
  BY LineIs, LinesAre, EndAt
<1>2. /\ w \in Context /\ w.out = <<>> /\ w.result = "running" /\ w.state = state
      /\ w.keep = ssl[e].keep
      /\ w.keep => w.msg = ssl[e].msg
  BY <1>1, WrittenMore DEF WrittenOf
<1>3. record \in Record /\ record.type = type /\ record.body = body /\ record.key = s.outKey
      /\ (type \in Bound => record.covers = s.checksum)
  <2>1. record.key = s.outKey
    BY DEF Seal
  <2> HIDE DEF record
  <2> QED
    BY <1>1, <2>1, SealIs DEF record
<1>4. x \in Seq(Record) /\ x = IF later THEN <<record>> ELSE <<>>
  BY <1>3
<1>5. ssl' = [ssl EXCEPT ![e] = b]
  <2>1. Append(<<>>, record) = <<record>>
    OBVIOUS
  <2>2. (IF type = "ChangeCipherSpec" THEN s ELSE Hashed(s, type, body)).out = <<>>
    BY <1>2 DEF Written, Context, Hashed
  <2>3. [(IF type = "ChangeCipherSpec" THEN s ELSE Hashed(s, type, body))
            EXCEPT !.state = state,
                   !.out = IF later THEN Append(@, record) ELSE @] = b
    BY <2>1, <2>2 DEF Written
  <2> QED
    BY <2>3 DEF Write
<1>6. /\ setup' = setup
      /\ wire' = IF later THEN wire ELSE [wire EXCEPT ![e] = Append(@, record)]
      /\ flights' = IF EndsFlight(type, body) THEN [flights EXCEPT ![e] = @ + 1] ELSE flights
  BY DEF Write, Count
<1>7. /\ o \in Ends /\ o # e /\ Other(o) = e /\ wire \in [Ends -> Seq(Record)]
      /\ wire[e] \in Seq(Record)
      /\ ssl[o].keep => ssl[o].msg \in Record
  BY EndAt, EndsAre, UnheardIs DEF IInv, Types, Context
<1> HIDE DEF record, later, x
<1>8. /\ b.out = x /\ b.result = "running" /\ b.state = state /\ b.keep = ssl[e].keep
      /\ b.keep => b.msg = ssl[e].msg
      /\ Alike(w, b)
  BY <1>2, <1>4 DEF Context, Alike
<1> HIDE DEF b
<1>9. Place(e, b) = Place(e, w) /\ FitsPlace(setup, e, b)
  BY <1>8, FitsAlike
<1>15. Queues(e, b)
  BY <1>5, UnheardThen
<1>10. Unheard(o)' = Unheard(o)
  <2>1. Kept(b) = Kept(ssl[e]) /\ wire'[o] = wire[o]
    BY <1>6, <1>7, <1>8 DEF Kept
  <2> QED
    BY <1>5, <1>15, <2>1 DEF Queues
<1>11. Unheard(e)' = Append(Unheard(e), record)
  <2> DEFINE m == Kept(ssl[o])
             v == wire[e]
  <2>1. m \in Seq(Record) /\ v \in Seq(Record)
    BY <1>7 DEF Kept
  <2>2. Unheard(e)' = m \o (wire'[e] \o x) /\ Unheard(e) = m \o (v \o <<>>)
    BY <1>8, <1>15 DEF Queues
  <2>3. CASE later
    <3>1. wire'[e] = v /\ x = <<record>>
      BY <1>4, <1>6, <2>3
    <3> HIDE DEF m, v
    <3> QED
      BY <1>3, <2>1, <2>2, <3>1, QueuesAre
  <2>4. CASE ~ later
    <3>1. wire'[e] = Append(v, record) /\ x = <<>>
      BY <1>4, <1>6, <1>7, <2>4
    <3> HIDE DEF m, v
    <3> QED
      BY <1>3, <2>1, <2>2, <3>1, QueuesAre
  <2> QED
    BY <2>3, <2>4
<1>12. Says(setup, k, record)
  BY <1>3 DEF Says
<1>13. flights' = IF k \in FlightEnds THEN [flights EXCEPT ![e] = @ + 1] ELSE flights
  BY <1>1, <1>6
<1>14. b.keep => ssl[e].keep
  BY <1>8
<1> HIDE DEF o
<1> QED
  BY <1>1, <1>3, <1>5, <1>6, <1>8, <1>9, <1>10, <1>11, <1>12, <1>13, <1>14, Talk DEF o

-----------------------------------------------------------------------------
(* The steps of both ends that no message is accepted in.                  *)

\* A peer that is not running any more, while this end is, has refused.
LEMMA PeerRefused ==
    ASSUME IInv, InStep, NEW e \in Ends, Running(e), ssl[Other(e)].result # "running"
    PROVE  Refused(Other(e))
<1> DEFINE o == Other(e)
<1>1. o \in Ends /\ Other(o) = e /\ ssl[o].result \in Results
  BY EndAt
<1>2. /\ ssl[o].result \in {"alert", "bad_mac", "eof"} => Refused(e)
      /\ ssl[o].result \notin {"unexpected", "downgrade", "bad_signature", "bad_finished"}
  BY <1>1 DEF InStep, FailsOnlyByRefusal
<1>3. ~ Refused(e)
  BY DEF Refused, Refusals, Running
<1> QED
  BY <1>1, <1>2, <1>3 DEF Results, Refused, Refusals

\* An end that gives up: it refuses its peer, or its peer has refused it.
LEMMA GivesUp ==
    ASSUME IInv, InStep, NEW e \in Ends, NEW reason, NEW alerts,
           Running(e), ssl[e].out = <<>>, Takes(e) # {},
           alerts = <<>> \/ alerts = FatalAlert(e),
           setup' = setup, ssl' = [ssl EXCEPT ![e].result = reason],
           wire'[e] = wire[e] \o alerts, flights' = flights,
           \/ reason \in Refusals /\ Explained(e, reason)
           \/ reason \in {"alert", "bad_mac", "eof"} /\ ssl[Other(e)].result # "running"
    PROVE  Goes
<1> DEFINE u == setup
           o == Other(e)
           p == Reached(e)
           b == [ssl[e] EXCEPT !.result = reason]
<1>1. /\ o \in Ends /\ o # e /\ Other(o) = e /\ Ends = {e, o} /\ u \in Setup
      /\ ssl \in [Ends -> Context] /\ flights \in [Ends -> Nat] /\ wire[e] \in Seq(Record)
      /\ ssl[e] \in Context /\ ssl[o].keep \in BOOLEAN
      /\ p \in Nat /\ p \in Places /\ Reached(o) \in Nat /\ Reached(o) \in Places
      /\ Unheard(e) \in Seq(Record)
  BY EndAt, EndsAre, PlaceIs, UnheardIs DEF IInv, Types, Ends, Other, Reached, Context
<1>2. ssl' = [ssl EXCEPT ![e] = b] /\ b.result = reason /\ b.out = <<>> /\ Alike(ssl[e], b)
  BY <1>1 DEF Context, Alike
<1>3. b.result # "running"
  BY <1>2 DEF Refusals
<1> HIDE DEF b
<1>4. ssl'[e] = b /\ ssl'[o] = ssl[o]
  BY <1>1, <1>2
<1>5. /\ FailsOnlyByRefusal /\ FitsPlace(u, o, ssl[o]) /\ FitsPlace(u, e, ssl[e])
      /\ flights[e] = FlightsAt(u, p) /\ flights[o] = FlightsAt(u, Reached(o))
      /\ ssl[e].result = "running" /\ ssl[e].state # "HANDSHAKE_OVER"
  BY <1>1 DEF InStep, Running
<1>6. Reached(e)' = Reached(e) /\ Reached(o)' = Reached(o) /\ FitsPlace(u, e, b)
  BY <1>2, <1>4, <1>5, FitsAlike DEF Reached
<1>7. FailsOnlyByRefusal'
  <2>1. /\ \A d \in Ends : (Unacceptable(d)' <=> Unacceptable(d))
        /\ NoCommonProtocol' <=> NoCommonProtocol
    BY DEF Unacceptable, Asks, NoCommonProtocol
  <2>2. ssl[o].result \notin {"alert", "bad_mac", "eof"}
    BY <1>1, <1>5 DEF FailsOnlyByRefusal, Refused, Refusals
  <2>3. ssl[o].result # "running" => Refused(o)
    BY PeerRefused
  <2>4. Refused(o)' <=> Refused(o)
    BY <1>4 DEF Refused
  <2>5. /\ Refused(e)' => Explained(e, ssl[e].result)'
        /\ ssl'[e].result \in {"alert", "bad_mac", "eof"} => Refused(Other(e))'
        /\ ssl'[e].result \notin {"unexpected", "downgrade", "bad_signature", "bad_finished"}
    BY <1>2, <1>4, <2>1, <2>3, <2>4 DEF Refused, Refusals, Explained
  <2>6. /\ Refused(o)' => Explained(o, ssl[o].result)'
        /\ ssl'[o].result \in {"alert", "bad_mac", "eof"} => Refused(Other(o))'
        /\ ssl'[o].result \notin {"unexpected", "downgrade", "bad_signature", "bad_finished"}
    BY <1>1, <1>4, <1>5, <2>1, <2>2, <2>4 DEF Explained, FailsOnlyByRefusal
  <2> QED
    BY <1>1, <2>5, <2>6 DEF FailsOnlyByRefusal
<1>8. ASSUME ssl[o].result = "running"
      PROVE  InOrder(e)'
  <2>1. InOrder(e)
    BY <1>8 DEF InStep
  <2>2. Lined(u, e, Unheard(e), Reached(o), p) /\ NoAlert(u, e, Unheard(e))
    BY <2>1 DEF InOrder, Running
  <2>3. Queues(e, b)
    BY <1>2, UnheardThen
  <2>4. CASE alerts = <<>>
    <3>1. wire'[e] = wire[e]
      BY <1>1, <2>4
    <3>2. Unheard(e)' = Unheard(e)
      BY <1>2, <2>3, <3>1 DEF Queues
    <3> QED
      BY <1>4, <1>6, <2>1, <2>2, <3>2 DEF InOrder
  <2>5. CASE alerts = FatalAlert(e)
    <3> DEFINE a == Seal(ssl[e], "alert", "fatal")
               m == Kept(ssl[o])
               w == wire[e]
    <3>1. a \in Record /\ a.type = "alert"
      <4>1. "alert" \in MessageTypes /\ "fatal" \in Bodies
        BY DEF MessageTypes, Bodies
      <4> QED
        BY <1>1, <4>1, SealIs
    <3>2. m \in Seq(Record) /\ w \in Seq(Record)
      BY <1>1, UnheardIs DEF Kept
    <3>3. wire'[e] = w \o <<a>>
      BY <2>5 DEF FatalAlert
    <3>4. Unheard(e)' = m \o (wire'[e] \o <<>>) /\ Unheard(e) = m \o (w \o <<>>)
      BY <1>2, <2>3 DEF Queues
    <3> HIDE DEF a, m, w
    <3>5. Unheard(e)' = Append(Unheard(e), a)
      <4>1. m \o ((w \o <<a>>) \o <<>>) = Append(m \o (w \o <<>>), a)
        BY <3>1, <3>2
      <4> QED
        BY <3>3, <3>4, <4>1
    <3>6. Lined(u, e, Append(Unheard(e), a), Reached(o), p)
      BY <1>1, <2>2, <3>1, LinedAlert
    <3>7. ssl[o].keep => LineOf(u, e, Append(Unheard(e), a)[1]) \notin PassedOver \cup {Alert}
      <4> SUFFICES ASSUME ssl[o].keep
                   PROVE  LineOf(u, e, Append(Unheard(e), a)[1]) \notin PassedOver \cup {Alert}
        OBVIOUS
      <4>1. Unheard(e) # <<>>
        BY UnheardIs
      <4>2. Append(Unheard(e), a)[1] = Unheard(e)[1]
        BY <1>1, <4>1
      <4> QED
        BY <2>1, <4>2 DEF InOrder
    <3>8. ssl'[e].result # "running"
      BY <1>4, <1>3
    <3> QED
      BY <1>4, <1>6, <3>5, <3>6, <3>7, <3>8 DEF InOrder
  <2> QED
    BY <2>4, <2>5
<1>9. InStep'
  <2>1. /\ FitsPlace(setup', e, ssl'[e]) /\ flights'[e] = FlightsAt(setup', Reached(e)')
        /\ ssl'[Other(e)].result = "running" => InOrder(e)'
    BY <1>4, <1>5, <1>6, <1>8
  <2>2. /\ FitsPlace(setup', o, ssl'[o]) /\ flights'[o] = FlightsAt(setup', Reached(o)')
        /\ ssl'[Other(o)].result # "running"
    BY <1>1, <1>4, <1>5, <1>6, <1>3
  <2>3. \A d \in Ends :
          /\ FitsPlace(setup', d, ssl'[d])
          /\ ssl'[Other(d)].result = "running" => InOrder(d)'
          /\ flights'[d] = FlightsAt(setup', Reached(d)')
    BY <1>1, <2>1, <2>2
  <2> QED
    BY <1>7, <2>3 DEF InStep
<1>10. [Flights!Next]_(Flights!vars)
  <2> DEFINE st == [d \in Ends |-> Status(d)]
             st2 == [d \in Ends |-> Status(d)']
             k == NextLine(u, p)
  <2>1. Total' = Total
    BY TotalStays
  <2>2. /\ st[e] = "running" /\ st2 = [st EXCEPT ![e] = "failed"]
    <3>1. Status(e) = "running" /\ Status(o)' = Status(o) /\ Status(e)' = "failed"
      BY <1>2, <1>4, <1>5, <1>3 DEF Status, Over
    <3> QED
      BY <1>1, <3>1
  <2>3. /\ k \in Lines(u) \ PassedOver /\ Speaker(k) = o /\ p < k /\ Passes(u, p, k, k)
    BY Awaits DEF Expects
  <2>4. FlightsAt(u, p) < Total /\ Flights!Sender(FlightsAt(u, p) + 1) = o
    BY <1>1, <2>3, NextFlight
  <2>5. Flights!Other(e) = o
    BY DEF Flights!Other, Other
  <2>6. Flights!GiveUp(e)
    BY <1>5, <2>1, <2>2, <2>4, <2>5 DEF Flights!GiveUp, Status, Over
  <2> QED
    BY <2>6 DEF Flights!Next, Flights!Ends, Ends
<1> QED
  BY <1>9, <1>10 DEF Goes

\* An end that ends its handshake in an error.
LEMMA FailGoes ==
    ASSUME IInv, InStep, NEW e \in Ends, NEW reason, NEW alerts,
           Running(e), ssl[e].out = <<>>, Takes(e) # {}, Has(e),
           alerts = <<>> \/ alerts = FatalAlert(e), Fail(e, reason, alerts),
           \/ reason \in Refusals /\ Explained(e, reason)
           \/ reason \in {"alert", "bad_mac", "eof"} /\ ssl[Other(e)].result # "running"
    PROVE  Goes
<1>1. wire'[e] = wire[e] \o alerts
  BY FrontIs DEF Fail
<1>2. setup' = setup /\ ssl' = [ssl EXCEPT ![e].result = reason] /\ flights' = flights
  BY DEF Fail
<1> QED
  BY <1>1, <1>2, GivesUp

\* A record that cannot be taken is the alert of a peer that has refused.
LEMMA ReadFailsGoes ==
    ASSUME IInv, InStep, NEW e \in Ends, ReadFails(e)
    PROVE  Goes
<1> DEFINE k == LineOf(setup, Other(e), Got(e))
           n == NextLine(setup, Reached(e))
<1>1. /\ Running(e) /\ ssl[e].out = <<>> /\ Takes(e) # {} /\ Has(e) /\ ~ Ignored(e, Got(e))
      /\ \/ ~ ssl[e].keep /\ Got(e).key # ssl[e].inKey
         \/ Got(e).type \notin Takes(e)
  BY DEF ReadFails
<1>2. Expects(e, n)
  BY <1>1, Awaits
<1>3. \/ k = Alert /\ Got(e).type = "alert" /\ ~ ssl[e].keep /\ ssl[Other(e)].result # "running"
      \/ k \in PassedOver \cap Lines(setup) /\ Says(setup, k, Got(e)) /\ ~ ssl[e].keep
      \/ k = n /\ Says(setup, k, Got(e)) /\ n <= Reached(Other(e))
  BY <1>1, Finds
<1>4. ~ (k = n /\ Says(setup, k, Got(e)))
  BY <1>1, <1>2 DEF Says, Expects
<1>5. ~ (k \in PassedOver /\ k \in Lines(setup) /\ Says(setup, k, Got(e)))
  <2> SUFFICES ASSUME k \in PassedOver, k \in Lines(setup), Says(setup, k, Got(e))
               PROVE  FALSE
    OBVIOUS
  <2>1. Got(e).type = "ChangeCipherSpec"
    BY TypeIs DEF PassedOver, Says
  <2>2. ~ V12(setup)
    BY DEF Lines, Lines12, PassedOver
  <2>3. ssl[e].version = "tls12"
    BY <1>1, <2>1, EndAt DEF Ignored, Versions
  <2> QED
    BY <2>2, <2>3 DEF InStep, FitsPlace, Client12Fits, Server12Fits
<1>6. Got(e).type = "alert" /\ ~ ssl[e].keep /\ ssl[Other(e)].result # "running"
  BY <1>3, <1>4, <1>5
<1>7. Fail(e, "bad_mac", FatalAlert(e)) \/ Fail(e, "alert", <<>>)
  BY <1>6 DEF ReadFails, Refuse, Quit
<1> QED
  BY <1>1, <1>6, <1>7, FailGoes

\* The end of the stream is that of a peer that has refused.
LEMMA PeerClosedGoes ==
    ASSUME IInv, InStep, NEW e \in Ends, PeerClosed(e)
    PROVE  Goes
<1>1. /\ Running(e) /\ ssl[e].out = <<>> /\ Takes(e) # {} /\ ssl[Other(e)].result # "running"
      /\ ssl' = [ssl EXCEPT ![e].result = "eof"] /\ wire' = wire /\ setup' = setup
      /\ flights' = flights
  BY DEF PeerClosed
<1>2. wire'[e] = wire[e] \o <<>>
  <2>1. wire[e] \in Seq(Record)
    BY EndAt
  <2> QED
    BY <1>1, <2>1
<1> QED
  BY <1>1, <1>2, GivesUp

\* mbedtls_ssl_flush_output.
LEMMA FlushGoes ==
    ASSUME IInv, InStep, NEW e \in Ends, Flush(e)
    PROVE  Goes
<1> DEFINE b == [ssl[e] EXCEPT !.out = <<>>]
           o == Other(e)
<1>1. /\ Running(e) /\ wire' = [wire EXCEPT ![e] = @ \o ssl[e].out] /\ ssl' = [ssl EXCEPT ![e] = b]
      /\ setup' = setup /\ flights' = flights
  BY DEF Flush
<1>2. /\ ssl[e] \in Context /\ wire \in [Ends -> Seq(Record)] /\ wire[e] \in Seq(Record)
      /\ ssl[e].out \in Seq(Record) /\ o \in Ends /\ o # e /\ Other(o) = e /\ Reached(e) \in Places
  BY EndAt, PlaceIs DEF IInv, Types, Reached
<1>3. Alike(ssl[e], b) /\ b.result = "running" /\ b.out = <<>> /\ b.msg = ssl[e].msg /\ b.keep = ssl[e].keep
      /\ b.state # "HANDSHAKE_OVER"
  BY <1>1, <1>2 DEF Alike, Context, Running
<1> HIDE DEF b
<1>4. FitsPlace(setup, e, b) /\ Place(e, b) = Reached(e)
  BY <1>3, FitsAlike DEF InStep, Reached
<1>5. Turn(setup, Reached(e), Place(e, b), 0)
  BY <1>2, <1>4, TurnStay
<1>6. Unheard(e)' = Unheard(e) /\ Unheard(o)' = Unheard(o)
  <2>1. Queues(e, b)
    BY <1>1, UnheardThen
  <2>2. Kept(b) = Kept(ssl[e]) /\ wire'[o] = wire[o] /\ wire'[e] = wire[e] \o ssl[e].out
    BY <1>1, <1>2, <1>3 DEF Kept
  <2>3. (wire[e] \o ssl[e].out) \o <<>> = wire[e] \o ssl[e].out
    BY <1>2
  <2> QED
    BY <1>3, <2>1, <2>2, <2>3 DEF Queues
<1>7. b.keep => LineOf(setup, o, Unheard(o)[1]) \notin PassedOver \cup {Alert}
  BY <1>1, <1>2, <1>3 DEF InStep, InOrder, Running
<1> QED
  BY <1>1, <1>3, <1>4, <1>5, <1>6, <1>7, Mute

\* A ChangeCipherSpec of TLS 1.3 is passed over.
LEMMA IgnoreGoes ==
    ASSUME IInv, InStep, NEW e \in Ends, IgnoreChangeCipherSpec(e)
    PROVE  Goes
<1> DEFINE u == setup
           o == Other(e)
           k == LineOf(u, o, Got(e))
           n == NextLine(u, Reached(e))
           b == ssl[e]
<1>1. /\ Running(e) /\ ssl[e].out = <<>> /\ Takes(e) # {} /\ ~ ssl[e].keep /\ Has(e)
      /\ Got(e).type = "ChangeCipherSpec" /\ ssl[e].version = "tls13"
      /\ wire' = Consumed(e) /\ setup' = setup /\ ssl' = ssl /\ flights' = flights
  BY DEF IgnoreChangeCipherSpec, Ignored
<1>2. /\ o \in Ends /\ o # e /\ Other(o) = e /\ u \in Setup /\ ssl \in [Ends -> Context]
      /\ Reached(e) \in Places /\ Reached(o) \in Places
      /\ Reached(e) \in Nat /\ Reached(o) \in Nat /\ wire \in [Ends -> Seq(Record)]
  BY EndAt, EndsAre, PlaceIs DEF IInv, Types, Reached
<1>3. k \in PassedOver
  <2>1. "ChangeCipherSpec" \notin Takes(e)
    BY <1>1 DEF Takes, Takes13, AnyMessage
  <2>2. Expects(e, n)
    BY <1>1, Awaits
  <2> QED
    BY <1>1, <2>1, <2>2, Finds DEF Expects, Says
<1>4. /\ Unheard(o) \in Seq(Record) /\ Unheard(o) # <<>> /\ Unheard(o)[1] = Got(e)
      /\ Consumed(e)[o] \o ssl[o].out = Tail(Unheard(o)) /\ Consumed(e)[e] = wire[e]
  BY <1>1, FrontIs
<1>5. ssl' = [ssl EXCEPT ![e] = b]
  BY <1>1, <1>2
<1>6. Queues(e, b)
  BY <1>5, UnheardThen
<1>7. Unheard(e)' = Unheard(e) /\ Unheard(o)' = Tail(Unheard(o))
  <2>1. Unheard(o)' = <<>> \o Tail(Unheard(o))
    BY <1>1, <1>4, <1>6 DEF Kept, Queues
  <2>2. Tail(Unheard(o)) \in Seq(Record)
    BY <1>4, TailIs
  <2>3. \A t \in Seq(Record) : <<>> \o t = t
    OBVIOUS
  <2>4. Unheard(e)' = Unheard(e)
    BY <1>1, <1>4, <1>6 DEF Queues
  <2> QED
    BY <2>1, <2>2, <2>3, <2>4
<1>8. Reached(e)' = Reached(e) /\ Reached(o)' = Reached(o)
  BY <1>1 DEF Reached
<1>9. ssl[o].result = "running" => InOrder(e)'
  BY <1>1, <1>7, <1>8 DEF InStep, InOrder
<1>10. InOrder(o)'
  <2>1. InOrder(o)
    BY <1>1, <1>2 DEF InStep, Running
  <2>2. Lined(u, o, Tail(Unheard(o)), Reached(e), Reached(o))
    BY <1>2, <1>3, <1>4, <2>1, LinedHear DEF InOrder
  <2>3. ssl[o].result = "running" => NoAlert(u, o, Tail(Unheard(o)))
    BY <1>4, <2>1, NoAlertTail DEF InOrder
  <2> QED
    BY <1>1, <1>2, <1>7, <1>8, <2>2, <2>3 DEF InOrder
<1>11. /\ b.result = "running" /\ b.state # "HANDSHAKE_OVER" /\ FitsPlace(u, e, b)
       /\ Turn(u, Reached(e), Place(e, b), 0)
  BY <1>1, <1>2, TurnStay DEF InStep, Running, Reached
<1>12. 0 \notin FlightEnds
  BY DEF FlightEnds
<1> QED
  BY <1>1, <1>5, <1>9, <1>10, <1>11, <1>12, Advance

-----------------------------------------------------------------------------
(* What the handlers leave, in full.                                       *)

\* What changes no step of a handshake but those that say so.
Stays(a, b) ==
    /\ b.version = a.version /\ b.out = a.out /\ b.inKey = a.inKey /\ b.outKey = a.outKey
    /\ b.clientAuth = a.clientAuth /\ b.retried = a.retried /\ b.ccsSent = a.ccsSent
    /\ b.peerCert = a.peerCert /\ b.newTicket = a.newTicket /\ b.result = a.result

\* A message taken changes what is kept and, where it is hashed, the transcript.
LEMMA TakenIs ==
    ASSUME NEW e, ssl[e] \in Context, Got(e).type \in MessageTypes, Got(e).body \in Bodies
    PROVE  LET s == ssl[e]
               t == Append(s.checksum, <<Got(e).type, Got(e).body>>)
           IN  /\ \A h \in {Hash13(e), Hash12(e), Unhashed(e)} : h \in Context /\ Stays(s, h) /\ ~ h.keep
               /\ Hash13(e).checksum = t /\ Unhashed(e).checksum = s.checksum
               /\ Hash12(e).checksum = IF s.keep THEN s.checksum ELSE t
<1> DEFINE s == ssl[e]
           t == Append(s.checksum, <<Got(e).type, Got(e).body>>)
<1>1. Hash13(e) \in Context /\ Unhashed(e) \in Context /\ Hash12(e) \in Context
  BY Hash13Is, UnhashedIs, Hash12Is
<1>2. /\ Unhashed(e) = [s EXCEPT !.keep = FALSE, !.msg = NoMessage]
      /\ Hash13(e) = [s EXCEPT !.keep = FALSE, !.msg = NoMessage, !.checksum = t]
      /\ Hash12(e) = IF s.keep THEN Unhashed(e) ELSE Hash13(e)
  BY DEF Unhashed, Hash13, Hash12, Hashed, Context
<1> HIDE DEF t
<1>3. /\ Stays(s, Unhashed(e)) /\ ~ Unhashed(e).keep /\ Unhashed(e).checksum = s.checksum
      /\ Stays(s, Hash13(e)) /\ ~ Hash13(e).keep /\ Hash13(e).checksum = t
  BY <1>2 DEF Stays, Context
<1> QED
  BY <1>1, <1>2, <1>3 DEF t

\* What is said extends the transcript, but for a ChangeCipherSpec and the
\* HelloRetryRequest.
LEMMA SaidIs ==
    ASSUME NEW u, NEW p, NEW q, NEW k, Turn(u, p, q, k)
    PROVE  /\ k = 0 => Transcript(u, q) = Transcript(u, p)
           /\ k # 0 /\ k # 2 /\ Type(k) # "ChangeCipherSpec" =>
                Transcript(u, q) = Append(Transcript(u, p), <<Type(k), Body(u, k)>>)
           /\ k # 0 /\ k # 2 /\ Type(k) = "ChangeCipherSpec" => Transcript(u, q) = Transcript(u, p)
<1>1. 0 \notin Lines(u)
  BY DEF Lines, Lines12, Lines13
<1> QED
  BY <1>1 DEF Turn, Say

\* Where an end is in the script, by its version, and what it was configured to.
LEMMA FitsIs ==
    ASSUME IInv, InStep
    PROVE  /\ ssl["client"].version = "tls13" =>
                /\ Client13Fits(setup, ssl["client"])
                /\ Reached("client") = ClientPlace13(ssl["client"])
                /\ setup.clientMax = "tls13"
           /\ ssl["server"].version = "tls13" =>
                /\ Server13Fits(setup, ssl["server"])
                /\ Reached("server") = ServerPlace13(ssl["server"])
                /\ setup.serverMax = "tls13"
           /\ ssl["client"].version = "tls12" =>
                Client12Fits(setup, ssl["client"]) /\ Reached("client") = Place12(ssl["client"])
           /\ ssl["server"].version = "tls12" =>
                Server12Fits(setup, ssl["server"]) /\ Reached("server") = Place12(ssl["server"])
<1>1. FitsPlace(setup, "client", ssl["client"]) /\ FitsPlace(setup, "server", ssl["server"])
  BY DEF InStep, Ends
<1>2. /\ ssl["client"].version = "tls13" => setup.clientMax = "tls13"
      /\ ssl["server"].version = "tls13" => setup.serverMax = "tls13"
  BY DEF IInv, ClientKnows, ServerKnows, Client13Knows, Server13Knows
<1> QED
  BY <1>1, <1>2 DEF FitsPlace, Reached, Place

=============================================================================
