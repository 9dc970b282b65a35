----------------------- MODULE TlsConversation_proofs -----------------------
(***************************************************************************)
(* The two handshake state machines of mbedTLS keep in step, for every set *)
(* of configurations: a lemma of each handler, by the shapes of            *)
(* TlsScript_proofs, and the theorems that rest on them.  The two ends     *)
(* fail for no cause but a certificate that is refused or lists of         *)
(* protocols without a common name, and they implement the flights that    *)
(* TlsStream.tla takes a handshake for.                                    *)
(***************************************************************************)
EXTENDS TlsScript_proofs

\* A server of nova-tls has a certificate.
LEMMA ServerHasOne ==
    ASSUME IInv
    PROVE  setup.cert["server"] # "empty"
  BY ServerAssumption DEF IInv, Types

\* A sequence of one.
LEMMA AppendFirst == \A x : Append(<<>>, x) = <<x>>
  OBVIOUS

\* A sequence of two.
LEMMA AppendSecond ==
    ASSUME NEW x, NEW y
    PROVE  Append(<<x>>, y) = <<x, y>>
<1> DEFINE S == {x, y}
           q == <<x>>
           r == Append(q, y)
           t == <<x, y>>
<1>1. y \in S /\ q \in Seq(S) /\ Len(q) = 1 /\ q[1] = x
  OBVIOUS
<1>2. t \in Seq(S) /\ Len(t) = 2 /\ t[1] = x /\ t[2] = y
  OBVIOUS
<1> HIDE DEF S, q, t
<1>3. r \in Seq(S) /\ Len(r) = 2 /\ r[1] = x /\ r[2] = y
  <2>1. r \in Seq(S) /\ Len(r) = 2 /\ r[2] = y /\ r[1] = q[1]
    BY <1>1
  <2> QED
    BY <1>1, <2>1
<1> HIDE DEF r
<1>4. \A i \in 1 .. Len(r) : r[i] = t[i]
  BY <1>2, <1>3
<1>5. r = t
  BY <1>2, <1>3, <1>4, SeqEqual
<1> QED
  BY <1>5 DEF q, r, t

\* The transcripts around a HelloRetryRequest.
LEMMA HelloRetried ==
    ASSUME NEW u
    PROVE  /\ Transcript(u, 1) = << <<"ClientHello", FirstHello(u)>> >>
           /\ ~ V12(u) /\ u.shareRefused =>
                LET t == << <<"message_hash", FirstHello(u)>>, <<"ServerHello", "retry">> >>
                IN  Transcript(u, 2) = t /\ Transcript(u, 3) = t
<1>1. 1 \in Lines(u) /\ (~ V12(u) /\ u.shareRefused => 2 \in Lines(u) /\ 3 \in Lines(u))
  BY DEF Lines, Lines12, Lines13
<1>2. Transcript(u, 1) = << <<"ClientHello", FirstHello(u)>> >>
  <2>1. Transcript(u, 1) = Append(<<>>, <<Type(1), Body(u, 1)>>)
    BY <1>1, TranscriptIs, TypeIs DEF Say
  <2>2. Type(1) = "ClientHello" /\ Body(u, 1) = FirstHello(u)
    BY DEF Type, Body
  <2> QED
    BY <2>1, <2>2, AppendFirst
<1>3. ASSUME ~ V12(u), u.shareRefused
      PROVE  /\ Transcript(u, 2) = << <<"message_hash", FirstHello(u)>>, <<"ServerHello", "retry">> >>
             /\ Transcript(u, 3) = Transcript(u, 2)
  BY <1>1, <1>3, TranscriptIs, TypeIs DEF Say
<1> QED
  BY <1>2, <1>3

\* The contexts a HelloRetryRequest leaves, that of the server before it is
\* written.
LEMMA AfterRetry ==
    ASSUME NEW a \in Context, NEW x, a.checksum = << <<"ClientHello", x>> >>, a.out = <<>>
    PROVE  LET c == LayerReset([Hashed(TranscriptReset(a), "ServerHello", "retry") EXCEPT !.retried = TRUE])
               s == [LayerReset(TranscriptReset(a)) EXCEPT !.retried = TRUE]
               n == [a EXCEPT !.retried = TRUE, !.inKey = "plain", !.outKey = "plain"]
           IN  /\ c \in Context /\ Stays(n, c) /\ ~ c.keep
               /\ c.checksum = << <<"message_hash", x>>, <<"ServerHello", "retry">> >>
               /\ s \in Context /\ Stays(n, s) /\ ~ s.keep
               /\ s.checksum = << <<"message_hash", x>> >>
<1> DEFINE one == << <<"message_hash", a.checksum[1][2]>> >>
           two == Append(one, <<"ServerHello", "retry">>)
<1>1. a.checksum # <<>> /\ a.checksum[1][2] = x
  OBVIOUS
<1>2. /\ one \in Seq(Entry) /\ TranscriptReset(a) = [a EXCEPT !.checksum = one]
      /\ TranscriptReset(a).checksum = one
  BY <1>1, ResetIs DEF Context
<1>3. /\ Hashed(TranscriptReset(a), "ServerHello", "retry") = [a EXCEPT !.checksum = two]
      /\ two \in Seq(Entry)
  BY <1>1, <1>2, AnewIs
<1>4. /\ one = << <<"message_hash", x>> >>
      /\ two = << <<"message_hash", x>>, <<"ServerHello", "retry">> >>
  BY <1>1, AppendSecond
<1> HIDE DEF one, two
<1>5. "plain" \in Keys /\ <<>> \in Seq(Record) /\ NoMessage \in Record \cup {NoMessage}
  BY DEF Keys
<1>6. LayerReset([Hashed(TranscriptReset(a), "ServerHello", "retry") EXCEPT !.retried = TRUE]) =
        [a EXCEPT !.checksum = two, !.retried = TRUE, !.out = <<>>, !.keep = FALSE,
                  !.msg = NoMessage, !.inKey = "plain", !.outKey = "plain"]
  BY <1>3 DEF LayerReset, Context
<1>7. [LayerReset(TranscriptReset(a)) EXCEPT !.retried = TRUE] =
        [a EXCEPT !.checksum = one, !.retried = TRUE, !.out = <<>>, !.keep = FALSE,
                  !.msg = NoMessage, !.inKey = "plain", !.outKey = "plain"]
  BY <1>2 DEF LayerReset, Context
<1> DEFINE c == LayerReset([Hashed(TranscriptReset(a), "ServerHello", "retry") EXCEPT !.retried = TRUE])
           s == [LayerReset(TranscriptReset(a)) EXCEPT !.retried = TRUE]
           n == [a EXCEPT !.retried = TRUE, !.inKey = "plain", !.outKey = "plain"]
<1> HIDE DEF c, s
<1>8. c \in Context /\ Stays(n, c) /\ ~ c.keep /\ c.checksum = two
  <2>1. c \in Context
    BY <1>3, <1>5, <1>6 DEF Context, c
  <2>2. Stays(n, c)
    BY <1>6 DEF Context, Stays, c
  <2>3. ~ c.keep /\ c.checksum = two
    BY <1>6 DEF Context, c
  <2> QED
    BY <2>1, <2>2, <2>3
<1>9. s \in Context /\ Stays(n, s) /\ ~ s.keep /\ s.checksum = one
  <2>1. s \in Context
    BY <1>2, <1>5, <1>7 DEF Context, s
  <2>2. Stays(n, s)
    BY <1>7 DEF Context, Stays, s
  <2>3. ~ s.keep /\ s.checksum = one
    BY <1>7 DEF Context, s
  <2> QED
    BY <2>1, <2>2, <2>3
<1> QED
  BY <1>4, <1>8, <1>9 DEF c, s

\* What a context is that has said line k, all but a HelloRetryRequest.
LEMMA SaysLine ==
    ASSUME NEW u \in Setup, NEW p, NEW q, NEW k, Turn(u, p, q, k), k # 0, k # 2,
           NEW s \in Context, s.checksum = Transcript(u, p), NEW next \in StateNames,
           NEW w, w = Written(s, Type(k), Body(u, k), next)
    PROVE  Stays(s, w) /\ w.state = next /\ w.keep = s.keep /\ w.checksum = Transcript(u, q)
<1>1. k \in Lines(u)
  BY DEF Turn
<1>2. Type(k) \in MessageTypes /\ Body(u, k) \in Bodies
  BY <1>1, LineIs
<1>3. /\ WrittenOf(s, Type(k), Body(u, k), next, w)
      /\ w.retried = s.retried /\ w.ccsSent = s.ccsSent /\ w.newTicket = s.newTicket
  BY <1>2, WrittenMore
<1>4. w.checksum = Transcript(u, q)
  <2>1. CASE Type(k) = "ChangeCipherSpec"
    <3>1. Transcript(u, q) = Transcript(u, p)
      BY <2>1, SaidIs
    <3>2. w.checksum = s.checksum
      BY <1>3, <2>1 DEF WrittenOf
    <3> QED
      BY <3>1, <3>2
  <2>2. CASE Type(k) # "ChangeCipherSpec"
    <3>1. Transcript(u, q) = Append(Transcript(u, p), <<Type(k), Body(u, k)>>)
      BY <2>2, SaidIs
    <3>2. w.checksum = Append(s.checksum, <<Type(k), Body(u, k)>>)
      BY <1>3, <2>2 DEF WrittenOf
    <3> QED
      BY <3>1, <3>2
  <2> QED
    BY <2>1, <2>2
<1>5. Stays(s, w)
  BY <1>3 DEF WrittenOf, Stays
<1>6. w.state = next /\ w.keep = s.keep
  BY <1>3 DEF WrittenOf
<1> QED
  BY <1>4, <1>5, <1>6

\* e says line k with context s, at place p of the script, and goes on to state
\* next at place q.
Speaks(e, s, p, q, k, next) ==
    /\ Write(e, s, Type(k), Body(setup, k), next)
    /\ Running(e) /\ ssl[e].out = <<>>
    /\ Reached(e) = p /\ Turn(setup, p, q, k) /\ k # 0 /\ Speaker(k) = e
    /\ s \in Context /\ s.out = <<>> /\ s.result = "running"
    /\ next \in StateNames \ {"HANDSHAKE_OVER"}
    /\ s.keep = ssl[e].keep
    /\ s.keep => s.msg = ssl[e].msg
    /\ k \notin PassedOver => s.outKey = Key(k)
    /\ k # 2 => s.checksum = Transcript(setup, p)
    /\ LET w == Written(s, Type(k), Body(setup, k), next)
       IN  Place(e, w) = q /\ FitsPlace(setup, e, w)

\* An end that speaks stays in step.
LEMMA SpeaksGoes ==
    ASSUME IInv, InStep, NEW e \in Ends, NEW s, NEW p, NEW q, NEW k, NEW next,
           Speaks(e, s, p, q, k, next)
    PROVE  Goes
<1> DEFINE w == Written(s, Type(k), Body(setup, k), next)
<1>1. /\ Write(e, s, Type(k), Body(setup, k), next) /\ Running(e) /\ ssl[e].out = <<>>
      /\ Reached(e) = p /\ Turn(setup, p, q, k) /\ k # 0 /\ Speaker(k) = e
      /\ s \in Context /\ s.out = <<>> /\ s.result = "running"
      /\ next \in StateNames /\ next # "HANDSHAKE_OVER"
  BY DEF Speaks
<1>2. /\ s.keep = ssl[e].keep
      /\ s.keep => s.msg = ssl[e].msg
      /\ k \notin PassedOver => s.outKey = Key(k)
      /\ Place(e, w) = q /\ FitsPlace(setup, e, w)
  BY DEF Speaks
<1>3. k \in Lines(setup) /\ Transcript(setup, k - 1) = Transcript(setup, p)
  BY <1>1 DEF Turn
<1>4. Type(k) \in Bound => s.checksum = Transcript(setup, k - 1)
  BY <1>3, TypeIs DEF Speaks, Bound
<1> HIDE DEF w
<1> QED
  BY <1>1, <1>2, <1>3, <1>4, WriteGoes DEF w

-----------------------------------------------------------------------------
(* The TLS 1.3 client, in step.                                            *)

\* The client says hello, before it knows the version or again.
LEMMA ClientHello13Goes ==
    ASSUME IInv, InStep, write_client_hello("tls13")
    PROVE  Goes
<1> DEFINE u == setup
           c == ssl["client"]
<1>1. At("client", "tls13", "CLIENT_HELLO")
  BY DEF write_client_hello
<1>2. /\ "client" \in Ends /\ "tls13" \in Versions /\ u \in Setup /\ c \in Context
      /\ c.state = "CLIENT_HELLO" /\ c.version = "tls13" /\ c.out = <<>> /\ c.result = "running"
      /\ Running("client")
      /\ Client13Fits(u, c) /\ Reached("client") = ClientPlace13(c)
  BY <1>1, AtIs, FitsIs DEF Ends, Versions
<1>3. u.clientMax = "tls13"
  BY <1>2, FitsIs
<1>4. ASSUME ~ c.retried, V12(u)
      PROVE  Goes
  <2> DEFINE s == c
             w == Written(s, Type(1), Body(u, 1), "SERVER_HELLO")
  <2>1. /\ Reached("client") = 0
        /\ c.checksum = Transcript(u, 0)
    <3>1. ClientPlace13(c) = 0
      BY <1>2, <1>3, <1>4 DEF ClientPlace13
    <3> QED
      BY <1>2, <1>3, <1>4, <3>1 DEF Client13Fits, Retries, Signs
  <2>2. Turn(u, 0, 1, 1)
    BY <1>2, <1>3, <1>4, Turns12 DEF Client13Fits, Retries, Signs
  <2>3. Write("client", s, Type(1), Body(u, 1), "SERVER_HELLO")
    BY <1>2, <1>3, <1>4, TypeIs DEF Body, write_client_hello, ClientHelloBody, FirstHello, Retries,
       Signs,
       Client13Fits
  <2>4. /\ s \in Context /\ Stays(c, s) /\ s.checksum = c.checksum
        /\ s.keep = c.keep /\ s.msg = c.msg
        /\ 1 \notin PassedOver => s.outKey = Key(1)
    <3>1. 1 \notin PassedOver => s.outKey = Key(1)
      BY <1>2, <1>3, <1>4, <2>1 DEF Context, Key, PassedOver, Client13Fits
    <3>2. /\ s \in Context /\ Stays(c, s) /\ s.checksum = c.checksum /\ s.keep = c.keep
          /\ s.msg = c.msg
      BY <1>2, <1>3, <1>4 DEF Stays, Context, Keys
    <3> QED
      BY <3>1, <3>2
  <2>5. "SERVER_HELLO" \in StateNames
    BY DEF StateNames, Client13States, Server13States, Client12States
  <2> HIDE DEF s, w
  <2>6. Stays(s, w) /\ w.state = "SERVER_HELLO" /\ w.keep = s.keep /\ w.checksum = Transcript(u, 1)
    BY <1>2, <2>1, <2>2, <2>4, <2>5, SaysLine DEF w
  <2>7. Place("client", w) = 1 /\ FitsPlace(u, "client", w)
    <3>1. ClientPlace13(w) = 1
      BY <1>2, <1>3, <1>4, <2>1, <2>4, <2>6 DEF Stays, ClientPlace13, Client13Fits
    <3>2. Client13Fits(u, w)
      BY <1>2, <1>3, <1>4, <2>1, <2>4, <2>6, <3>1 DEF Stays, Client13Fits, Retries, Signs
    <3> QED
      BY <1>2, <2>1, <2>4, <2>6, <3>1, <3>2 DEF Stays, Place, FitsPlace
  <2>8. Speaks("client", s, 0, 1, 1, "SERVER_HELLO")
    BY <1>2, <2>1, <2>2, <2>3, <2>4, <2>5, <2>7 DEF Speaks, Stays, Context, w, Speaker
  <2> QED
    BY <1>2, <2>8, SpeaksGoes
<1>5. ASSUME ~ c.retried, ~ V12(u)
      PROVE  Goes
  <2> DEFINE s == c
             w == Written(s, Type(1), Body(u, 1), "SERVER_HELLO")
  <2>1. /\ Reached("client") = 0
        /\ c.checksum = Transcript(u, 0)
    <3>1. ClientPlace13(c) = 0
      BY <1>2, <1>3, <1>5 DEF ClientPlace13
    <3> QED
      BY <1>2, <1>3, <1>5, <3>1 DEF Client13Fits, Retries, Signs
  <2>2. Turn(u, 0, 1, 1)
    BY <1>2, <1>3, <1>5, Turns13 DEF Client13Fits, Retries, Signs
  <2>3. Write("client", s, Type(1), Body(u, 1), "SERVER_HELLO")
    BY <1>2, <1>3, <1>5, TypeIs DEF Body, write_client_hello, ClientHelloBody, FirstHello, Retries,
       Signs,
       Client13Fits
  <2>4. /\ s \in Context /\ Stays(c, s) /\ s.checksum = c.checksum
        /\ s.keep = c.keep /\ s.msg = c.msg
        /\ 1 \notin PassedOver => s.outKey = Key(1)
    <3>1. 1 \notin PassedOver => s.outKey = Key(1)
      BY <1>2, <1>3, <1>5, <2>1 DEF Context, Key, PassedOver, Client13Fits
    <3>2. /\ s \in Context /\ Stays(c, s) /\ s.checksum = c.checksum /\ s.keep = c.keep
          /\ s.msg = c.msg
      BY <1>2, <1>3, <1>5 DEF Stays, Context, Keys
    <3> QED
      BY <3>1, <3>2
  <2>5. "SERVER_HELLO" \in StateNames
    BY DEF StateNames, Client13States, Server13States, Client12States
  <2> HIDE DEF s, w
  <2>6. Stays(s, w) /\ w.state = "SERVER_HELLO" /\ w.keep = s.keep /\ w.checksum = Transcript(u, 1)
    BY <1>2, <2>1, <2>2, <2>4, <2>5, SaysLine DEF w
  <2>7. Place("client", w) = 1 /\ FitsPlace(u, "client", w)
    <3>1. ClientPlace13(w) = 1
      BY <1>2, <1>3, <1>5, <2>1, <2>4, <2>6 DEF Stays, ClientPlace13, Client13Fits
    <3>2. Client13Fits(u, w)
      BY <1>2, <1>3, <1>5, <2>1, <2>4, <2>6, <3>1 DEF Stays, Client13Fits, Retries, Signs
    <3> QED
      BY <1>2, <2>1, <2>4, <2>6, <3>1, <3>2 DEF Stays, Place, FitsPlace
  <2>8. Speaks("client", s, 0, 1, 1, "SERVER_HELLO")
    BY <1>2, <2>1, <2>2, <2>3, <2>4, <2>5, <2>7 DEF Speaks, Stays, Context, w, Speaker
  <2> QED
    BY <1>2, <2>8, SpeaksGoes
<1>6. ASSUME c.retried
      PROVE  Goes
  <2> DEFINE s == c
             w == Written(s, Type(5), Body(u, 5), "SERVER_HELLO")
  <2>1. /\ Reached("client") = 4
        /\ c.checksum = Transcript(u, 4)
    <3>1. ClientPlace13(c) = 4
      BY <1>2, <1>3, <1>6 DEF ClientPlace13
    <3> QED
      BY <1>2, <1>3, <1>6, <3>1 DEF Client13Fits, Retries, Signs
  <2>2. Turn(u, 4, 5, 5)
    BY <1>2, <1>3, <1>6, Turns13 DEF Client13Fits, Retries, Signs
  <2>3. Write("client", s, Type(5), Body(u, 5), "SERVER_HELLO")
    BY <1>2, <1>3, <1>6, TypeIs DEF Body, write_client_hello, ClientHelloBody, Retries, Signs,
       Client13Fits
  <2>4. /\ s \in Context /\ Stays(c, s) /\ s.checksum = c.checksum
        /\ s.keep = c.keep /\ s.msg = c.msg
        /\ 5 \notin PassedOver => s.outKey = Key(5)
    <3>1. 5 \notin PassedOver => s.outKey = Key(5)
      BY <1>2, <1>3, <1>6, <2>1 DEF Context, Key, PassedOver, Client13Fits
    <3>2. /\ s \in Context /\ Stays(c, s) /\ s.checksum = c.checksum /\ s.keep = c.keep
          /\ s.msg = c.msg
      BY <1>2, <1>3, <1>6 DEF Stays, Context, Keys
    <3> QED
      BY <3>1, <3>2
  <2>5. "SERVER_HELLO" \in StateNames
    BY DEF StateNames, Client13States, Server13States, Client12States
  <2> HIDE DEF s, w
  <2>6. Stays(s, w) /\ w.state = "SERVER_HELLO" /\ w.keep = s.keep /\ w.checksum = Transcript(u, 5)
    BY <1>2, <2>1, <2>2, <2>4, <2>5, SaysLine DEF w
  <2>7. Place("client", w) = 5 /\ FitsPlace(u, "client", w)
    <3>1. ClientPlace13(w) = 5
      BY <1>2, <1>3, <1>6, <2>1, <2>4, <2>6 DEF Stays, ClientPlace13, Client13Fits
    <3>2. Client13Fits(u, w)
      BY <1>2, <1>3, <1>6, <2>1, <2>4, <2>6, <3>1 DEF Stays, Client13Fits, Retries, Signs
    <3> QED
      BY <1>2, <2>1, <2>4, <2>6, <3>1, <3>2 DEF Stays, Place, FitsPlace
  <2>8. Speaks("client", s, 4, 5, 5, "SERVER_HELLO")
    BY <1>2, <2>1, <2>2, <2>3, <2>4, <2>5, <2>7 DEF Speaks, Stays, Context, w, Speaker
  <2> QED
    BY <1>2, <2>8, SpeaksGoes
<1> QED
  BY <1>2, <1>3, <1>4, <1>5, <1>6 DEF Retries

\* The client takes a ServerHello: of its version, of TLS 1.2, or one that asks for another hello.
LEMMA ServerHello13Goes ==
    ASSUME IInv, InStep, tls13_process_server_hello
    PROVE  Goes
<1> DEFINE u == setup
           c == ssl["client"]
           r == Got("client")
           h == Hash13("client")
<1>1. Reads("client", "tls13", "SERVER_HELLO")
  BY DEF tls13_process_server_hello
<1>2. /\ "client" \in Ends /\ "tls13" \in Versions /\ u \in Setup /\ c \in Context
      /\ c.state = "SERVER_HELLO" /\ c.version = "tls13" /\ c.out = <<>> /\ c.result = "running"
      /\ Running("client")
      /\ Client13Fits(u, c) /\ Reached("client") = ClientPlace13(c)
      /\ h \in Context /\ Stays(c, h) /\ ~ h.keep
      /\ h.checksum = Append(c.checksum, <<r.type, r.body>>)
  BY <1>1, ReadIs, FitsIs, TakenIs DEF Ends, Versions
<1> HIDE DEF h
<1>3. u.clientMax = "tls13"
  BY <1>2, FitsIs
<1>4. ASSUME V12(u)
      PROVE  Goes
  <2> DEFINE s == [h EXCEPT !.version = "tls12"]
             b == [s EXCEPT !.state = "SERVER_HELLO", !.keep = TRUE, !.msg = r]
  <2>1. /\ Reached("client") = 1 /\ NextLine(u, 1) = 17
        /\ c.checksum = Transcript(u, 1)
    <3>1. ClientPlace13(c) = 1
      BY <1>2, <1>3, <1>4 DEF ClientPlace13, Client13Fits, Retries
    <3>2. NextLine(u, 1) = 17
      BY <1>2, <1>3, <1>4 DEF NextLine, Next12, Client13Fits, Retries, Signs
    <3> QED
      BY <1>2, <1>3, <1>4, <3>1, <3>2 DEF Client13Fits, Retries, Signs
  <2>2. Turn(u, 1, 1, 0)
    BY TurnStay DEF Places
  <2>3. r.type = Type(17) /\ r.body = Body(u, 17)
    BY <1>1, <1>2, <2>1, Hears
  <2>4. h.checksum = Transcript(u, 17)
    <3>1. Turn(u, 1, 17, 17)
      BY <1>4, Turns12
    <3>2. Transcript(u, 17) = Append(Transcript(u, 1), <<Type(17), Body(u, 17)>>)
      <4>1. Type(17) # "ChangeCipherSpec"
        BY TypeIs
      <4> QED
        BY <3>1, <4>1, SaidIs
    <3>3. h.checksum = Append(c.checksum, <<r.type, r.body>>)
      BY <1>2
    <3> QED
      BY <2>1, <2>3, <3>2, <3>3
  <2>5. Keep("client", s, "SERVER_HELLO")
    BY <1>2, <1>3, <1>4, <2>3, TypeIs DEF Body, tls13_process_server_hello, ServerHello12, V12, h
  <2>6. /\ s \in Context /\ s.out = <<>> /\ s.result = "running"
        /\ Stays([c EXCEPT !.version = "tls12"], b) /\ b.state = "SERVER_HELLO" /\ b.keep
        /\ b.checksum = Transcript(u, 17)
    BY <1>2, <1>3, <1>4, <2>1, <2>4 DEF Stays, Context, Versions
  <2> HIDE DEF b, s
  <2>7. Place("client", b) = 1 /\ FitsPlace(u, "client", b)
    <3>1. Place12(b) = 1
      BY <1>2, <1>3, <1>4, <2>1, <2>6 DEF Stays, Context, Place12, ClientPlace13, Client13Fits
    <3>2. Client12Fits(u, b)
      BY <1>2, <1>3, <1>4, <2>1, <2>6, <3>1 DEF Stays, Context, Client12Fits, Client13Fits,
         Retries, Signs,
         NextLine, Next12, V12
    <3> QED
      BY <1>2, <2>1, <2>6, <3>1, <3>2 DEF Stays, Context, Place, FitsPlace
  <2>8. "SERVER_HELLO" \in StateNames \ {"HANDSHAKE_OVER"}
    BY DEF StateNames, Client13States, Server13States, Client12States
  <2> QED
    BY <1>1, <1>2, <2>1, <2>2, <2>5, <2>6, <2>7, <2>8, KeepGoes DEF b
<1>5. ASSUME ~ V12(u), u.shareRefused, ~ c.retried
      PROVE  Goes
  <2> DEFINE s == LayerReset([Hashed(TranscriptReset(c), "ServerHello", "retry") EXCEPT !.retried = TRUE])
             b == [s EXCEPT !.state = "CLIENT_CCS_BEFORE_2ND_CLIENT_HELLO"]
  <2>1. /\ Reached("client") = 1 /\ NextLine(u, 1) = 2
        /\ c.checksum = Transcript(u, 1)
    <3>1. ClientPlace13(c) = 1
      BY <1>2, <1>3, <1>5 DEF ClientPlace13
    <3>2. NextLine(u, 1) = 2
      BY <1>2, <1>3, <1>5 DEF NextLine, Next13, Client13Fits, Retries, Signs
    <3> QED
      BY <1>2, <1>3, <1>5, <3>1, <3>2 DEF Client13Fits, Retries, Signs
  <2>2. Turn(u, 1, 3, 2)
    BY <1>2, <1>3, <1>5, Turns13 DEF Client13Fits, Retries, Signs
  <2>3. r.type = Type(2) /\ r.body = Body(u, 2)
    BY <1>1, <1>2, <2>1, Hears
  <2>4. /\ s \in Context
        /\ Stays([c EXCEPT !.retried = TRUE, !.inKey = "plain", !.outKey = "plain"], s)
        /\ ~ s.keep /\ s.checksum = Transcript(u, 3)
    <3>1. c.checksum = << <<"ClientHello", FirstHello(u)>> >>
      BY <2>1, HelloRetried
    <3>2. Transcript(u, 3) = << <<"message_hash", FirstHello(u)>>, <<"ServerHello", "retry">> >>
      BY <1>5, HelloRetried
    <3> QED
      BY <1>2, <3>1, <3>2, AfterRetry
  <2>5. Accept("client", s, "CLIENT_CCS_BEFORE_2ND_CLIENT_HELLO")
    BY <1>2, <1>3, <1>5, <2>3, TypeIs DEF Body, tls13_process_server_hello, h
  <2>6. /\ s \in Context /\ s.out = <<>> /\ s.result = "running" /\ ~ s.keep
        /\ Stays([c EXCEPT !.retried = TRUE, !.inKey = "plain", !.outKey = "plain"], b)
        /\ b.state = "CLIENT_CCS_BEFORE_2ND_CLIENT_HELLO" /\ ~ b.keep
        /\ b.checksum = Transcript(u, 3)
    BY <1>2, <1>3, <1>5, <2>1, <2>4 DEF Stays, Context
  <2> HIDE DEF b, s
  <2>7. Place("client", b) = 3 /\ FitsPlace(u, "client", b)
    <3>1. ClientPlace13(b) = 3
      BY <1>2, <1>3, <1>5, <2>1, <2>6 DEF Stays, Context, ClientPlace13, Client13Fits
    <3>2. Client13Fits(u, b)
      BY <1>2, <1>3, <1>5, <2>1, <2>6, <3>1 DEF Stays, Context, Client13Fits, Retries, Signs
    <3> QED
      BY <1>2, <2>1, <2>6, <3>1, <3>2 DEF Stays, Context, Place, FitsPlace
  <2>8. "CLIENT_CCS_BEFORE_2ND_CLIENT_HELLO" \in StateNames \ {"HANDSHAKE_OVER"}
    BY DEF StateNames, Client13States, Server13States, Client12States
  <2> QED
    BY <1>1, <1>2, <2>1, <2>2, <2>5, <2>6, <2>7, <2>8, AcceptGoes DEF b
<1>6. ASSUME ~ V12(u), u.shareRefused, c.retried
      PROVE  Goes
  <2> DEFINE s == [h EXCEPT !.inKey = "handshake"]
             b == [s EXCEPT !.state = "ENCRYPTED_EXTENSIONS"]
  <2>1. /\ Reached("client") = 5 /\ NextLine(u, 5) = 6
        /\ c.checksum = Transcript(u, 5)
    <3>1. ClientPlace13(c) = 5
      BY <1>2, <1>3, <1>6 DEF ClientPlace13
    <3>2. NextLine(u, 5) = 6
      BY <1>2, <1>3, <1>6 DEF NextLine, Next13, Client13Fits, Retries, Signs
    <3> QED
      BY <1>2, <1>3, <1>6, <3>1, <3>2 DEF Client13Fits, Retries, Signs
  <2>2. Turn(u, 5, 7, 6)
    BY <1>2, <1>3, <1>6, Turns13 DEF Client13Fits, Retries, Signs
  <2>3. r.type = Type(6) /\ r.body = Body(u, 6)
    BY <1>1, <1>2, <2>1, Hears
  <2>4. h.checksum = Transcript(u, 7)
    <3>1. Type(6) # "ChangeCipherSpec"
      BY TypeIs
    <3>2. Transcript(u, 7) = Append(Transcript(u, 5), <<Type(6), Body(u, 6)>>)
      BY <2>2, <3>1, SaidIs
    <3>3. h.checksum = Append(c.checksum, <<r.type, r.body>>)
      BY <1>2
    <3> QED
      BY <2>1, <2>3, <3>2, <3>3
  <2>5. Accept("client", s, "ENCRYPTED_EXTENSIONS")
    BY <1>2, <1>3, <1>6, <2>3, TypeIs DEF Body, tls13_process_server_hello, h
  <2>6. /\ s \in Context /\ s.out = <<>> /\ s.result = "running" /\ ~ s.keep
        /\ Stays([c EXCEPT !.inKey = "handshake"], b) /\ b.state = "ENCRYPTED_EXTENSIONS"
        /\ ~ b.keep /\ b.checksum = Transcript(u, 7)
    BY <1>2, <1>3, <1>6, <2>1, <2>4 DEF Stays, Context, Keys
  <2> HIDE DEF b, s
  <2>7. Place("client", b) = 7 /\ FitsPlace(u, "client", b)
    <3>1. ClientPlace13(b) = 7
      BY <1>2, <1>3, <1>6, <2>1, <2>6 DEF Stays, Context, ClientPlace13, Client13Fits
    <3>2. Client13Fits(u, b)
      BY <1>2, <1>3, <1>6, <2>1, <2>6, <3>1 DEF Stays, Context, Client13Fits, Retries, Signs
    <3> QED
      BY <1>2, <2>1, <2>6, <3>1, <3>2 DEF Stays, Context, Place, FitsPlace
  <2>8. "ENCRYPTED_EXTENSIONS" \in StateNames \ {"HANDSHAKE_OVER"}
    BY DEF StateNames, Client13States, Server13States, Client12States
  <2> QED
    BY <1>1, <1>2, <2>1, <2>2, <2>5, <2>6, <2>7, <2>8, AcceptGoes DEF b
<1>7. ASSUME ~ V12(u), ~ u.shareRefused
      PROVE  Goes
  <2> DEFINE s == [h EXCEPT !.inKey = "handshake"]
             b == [s EXCEPT !.state = "ENCRYPTED_EXTENSIONS"]
  <2>1. /\ Reached("client") = 1 /\ NextLine(u, 1) = 6
        /\ c.checksum = Transcript(u, 1)
    <3>1. ClientPlace13(c) = 1
      BY <1>2, <1>3, <1>7 DEF ClientPlace13, Client13Fits, Retries
    <3>2. NextLine(u, 1) = 6
      BY <1>2, <1>3, <1>7 DEF NextLine, Next13, Client13Fits, Retries, Signs
    <3> QED
      BY <1>2, <1>3, <1>7, <3>1, <3>2 DEF Client13Fits, Retries, Signs
  <2>2. Turn(u, 1, 7, 6)
    BY <1>2, <1>3, <1>7, Turns13 DEF Client13Fits, Retries, Signs
  <2>3. r.type = Type(6) /\ r.body = Body(u, 6)
    BY <1>1, <1>2, <2>1, Hears
  <2>4. h.checksum = Transcript(u, 7)
    <3>1. Type(6) # "ChangeCipherSpec"
      BY TypeIs
    <3>2. Transcript(u, 7) = Append(Transcript(u, 1), <<Type(6), Body(u, 6)>>)
      BY <2>2, <3>1, SaidIs
    <3>3. h.checksum = Append(c.checksum, <<r.type, r.body>>)
      BY <1>2
    <3> QED
      BY <2>1, <2>3, <3>2, <3>3
  <2>5. Accept("client", s, "ENCRYPTED_EXTENSIONS")
    BY <1>2, <1>3, <1>7, <2>3, TypeIs DEF Body, tls13_process_server_hello, h
  <2>6. /\ s \in Context /\ s.out = <<>> /\ s.result = "running" /\ ~ s.keep
        /\ Stays([c EXCEPT !.inKey = "handshake"], b) /\ b.state = "ENCRYPTED_EXTENSIONS"
        /\ ~ b.keep /\ b.checksum = Transcript(u, 7)
    BY <1>2, <1>3, <1>7, <2>1, <2>4 DEF Stays, Context, Keys
  <2> HIDE DEF b, s
  <2>7. Place("client", b) = 7 /\ FitsPlace(u, "client", b)
    <3>1. ClientPlace13(b) = 7
      BY <1>2, <1>3, <1>7, <2>1, <2>6 DEF Stays, Context, ClientPlace13, Client13Fits
    <3>2. Client13Fits(u, b)
      BY <1>2, <1>3, <1>7, <2>1, <2>6, <3>1 DEF Stays, Context, Client13Fits, Retries, Signs
    <3> QED
      BY <1>2, <2>1, <2>6, <3>1, <3>2 DEF Stays, Context, Place, FitsPlace
  <2>8. "ENCRYPTED_EXTENSIONS" \in StateNames \ {"HANDSHAKE_OVER"}
    BY DEF StateNames, Client13States, Server13States, Client12States
  <2> QED
    BY <1>1, <1>2, <2>1, <2>2, <2>5, <2>6, <2>7, <2>8, AcceptGoes DEF b
<1> QED
  BY <1>2, <1>3, <1>4, <1>5, <1>6, <1>7 DEF Retries, Signs

\* The client says ChangeCipherSpec before it says hello again.
LEMMA ClientCcs1Goes ==
    ASSUME IInv, InStep,
           tls13_write_change_cipher_spec("client", "CLIENT_CCS_BEFORE_2ND_CLIENT_HELLO", "CLIENT_HELLO")
    PROVE  Goes
<1> DEFINE u == setup
           c == ssl["client"]
<1>1. At("client", "tls13", "CLIENT_CCS_BEFORE_2ND_CLIENT_HELLO")
  BY DEF tls13_write_change_cipher_spec
<1>2. /\ "client" \in Ends /\ "tls13" \in Versions /\ u \in Setup /\ c \in Context
      /\ c.state = "CLIENT_CCS_BEFORE_2ND_CLIENT_HELLO" /\ c.version = "tls13" /\ c.out = <<>>
      /\ c.result = "running" /\ Running("client")
      /\ Client13Fits(u, c) /\ Reached("client") = ClientPlace13(c)
  BY <1>1, AtIs, FitsIs DEF Ends, Versions
<1>3. ~ c.ccsSent
  BY <1>2 DEF Client13Fits, ClientPlace13
<1>4. Goes
  <2> DEFINE s == [c EXCEPT !.ccsSent = TRUE]
             w == Written(s, Type(4), Body(u, 4), "CLIENT_HELLO")
  <2>1. /\ Reached("client") = 3
        /\ c.checksum = Transcript(u, 3)
    <3>1. ClientPlace13(c) = 3
      <4>1. c.state = "CLIENT_CCS_BEFORE_2ND_CLIENT_HELLO"
        BY <1>2
      <4> QED
        BY <4>1 DEF ClientPlace13
    <3> QED
      BY <1>2, <1>3, <3>1 DEF Client13Fits, Retries, Signs
  <2>2. Turn(u, 3, 4, 4)
    BY <1>2, <1>3, Turns13 DEF Client13Fits, Retries, Signs
  <2>3. Write("client", s, Type(4), Body(u, 4), "CLIENT_HELLO")
    BY <1>2, <1>3, TypeIs DEF Body, tls13_write_change_cipher_spec, ClientPlace13, Retries, Signs,
       Client13Fits
  <2>4. /\ s \in Context /\ Stays([c EXCEPT !.ccsSent = TRUE], s) /\ s.checksum = c.checksum
        /\ s.keep = c.keep /\ s.msg = c.msg
        /\ 4 \notin PassedOver => s.outKey = Key(4)
    <3>1. 4 \notin PassedOver => s.outKey = Key(4)
      BY <1>2, <1>3, <2>1 DEF Context, Key, PassedOver, Client13Fits
    <3>2. /\ s \in Context /\ Stays([c EXCEPT !.ccsSent = TRUE], s) /\ s.checksum = c.checksum
          /\ s.keep = c.keep /\ s.msg = c.msg
      BY <1>2, <1>3 DEF Stays, Context, Keys
    <3> QED
      BY <3>1, <3>2
  <2>5. "CLIENT_HELLO" \in StateNames
    BY DEF StateNames, Client13States, Server13States, Client12States
  <2> HIDE DEF s, w
  <2>6. Stays(s, w) /\ w.state = "CLIENT_HELLO" /\ w.keep = s.keep /\ w.checksum = Transcript(u, 4)
    BY <1>2, <2>1, <2>2, <2>4, <2>5, SaysLine DEF w
  <2>7. Place("client", w) = 4 /\ FitsPlace(u, "client", w)
    <3>1. ClientPlace13(w) = 4
      BY <1>2, <1>3, <2>1, <2>4, <2>6 DEF Stays, Context, ClientPlace13, Client13Fits
    <3>2. Client13Fits(u, w)
      BY <1>2, <1>3, <2>1, <2>4, <2>6, <3>1 DEF Stays, Context, Client13Fits, Retries, Signs
    <3> QED
      BY <1>2, <2>1, <2>4, <2>6, <3>1, <3>2 DEF Stays, Context, Place, FitsPlace
  <2>8. Speaks("client", s, 3, 4, 4, "CLIENT_HELLO")
    BY <1>2, <2>1, <2>2, <2>3, <2>4, <2>5, <2>7 DEF Speaks, Stays, Context, w, Speaker
  <2> QED
    BY <1>2, <2>8, SpeaksGoes
<1> QED
  BY <1>4

\* The client takes the EncryptedExtensions.
LEMMA EncryptedExtensionsGoes ==
    ASSUME IInv, InStep, tls13_process_encrypted_extensions
    PROVE  Goes
<1> DEFINE u == setup
           c == ssl["client"]
           r == Got("client")
           h == Hash13("client")
<1>1. Reads("client", "tls13", "ENCRYPTED_EXTENSIONS")
  BY DEF tls13_process_encrypted_extensions
<1>2. /\ "client" \in Ends /\ "tls13" \in Versions /\ u \in Setup /\ c \in Context
      /\ c.state = "ENCRYPTED_EXTENSIONS" /\ c.version = "tls13" /\ c.out = <<>>
      /\ c.result = "running" /\ Running("client")
      /\ Client13Fits(u, c) /\ Reached("client") = ClientPlace13(c)
      /\ h \in Context /\ Stays(c, h) /\ ~ h.keep
      /\ h.checksum = Append(c.checksum, <<r.type, r.body>>)
  BY <1>1, ReadIs, FitsIs, TakenIs DEF Ends, Versions
<1> HIDE DEF h
<1>3. Goes
  <2> DEFINE s == h
             b == [s EXCEPT !.state = "CERTIFICATE_REQUEST"]
  <2>1. /\ Reached("client") = 7 /\ NextLine(u, 7) = 8
        /\ c.checksum = Transcript(u, 7)
    <3>1. ClientPlace13(c) = 7
      <4>1. c.state = "ENCRYPTED_EXTENSIONS"
        BY <1>2
      <4> QED
        BY <4>1 DEF ClientPlace13
    <3>2. NextLine(u, 7) = 8
      BY <1>2 DEF NextLine, Next13, Client13Fits, Retries, Signs
    <3> QED
      BY <1>2, <3>1, <3>2 DEF Client13Fits, Retries, Signs
  <2>2. Turn(u, 7, 8, 8)
    BY <1>2, Turns13 DEF Client13Fits, Retries, Signs
  <2>3. r.type = Type(8) /\ r.body = Body(u, 8)
    BY <1>1, <1>2, <2>1, Hears
  <2>4. h.checksum = Transcript(u, 8)
    <3>1. Type(8) # "ChangeCipherSpec"
      BY TypeIs
    <3>2. Transcript(u, 8) = Append(Transcript(u, 7), <<Type(8), Body(u, 8)>>)
      BY <2>2, <3>1, SaidIs
    <3>3. h.checksum = Append(c.checksum, <<r.type, r.body>>)
      BY <1>2
    <3> QED
      BY <2>1, <2>3, <3>2, <3>3
  <2>5. Accept("client", s, "CERTIFICATE_REQUEST")
    BY <1>2, <2>3, TypeIs DEF Body, tls13_process_encrypted_extensions, h
  <2>6. /\ s \in Context /\ s.out = <<>> /\ s.result = "running" /\ ~ s.keep
        /\ Stays(c, b) /\ b.state = "CERTIFICATE_REQUEST" /\ ~ b.keep
        /\ b.checksum = Transcript(u, 8)
    BY <1>2, <2>1, <2>4 DEF Stays, Context
  <2> HIDE DEF b, s
  <2>7. Place("client", b) = 8 /\ FitsPlace(u, "client", b)
    <3>1. ClientPlace13(b) = 8
      BY <1>2, <2>1, <2>6 DEF Stays, ClientPlace13, Client13Fits
    <3>2. Client13Fits(u, b)
      BY <1>2, <2>1, <2>6, <3>1 DEF Stays, Client13Fits, Retries, Signs
    <3> QED
      BY <1>2, <2>1, <2>6, <3>1, <3>2 DEF Stays, Place, FitsPlace
  <2>8. "CERTIFICATE_REQUEST" \in StateNames \ {"HANDSHAKE_OVER"}
    BY DEF StateNames, Client13States, Server13States, Client12States
  <2> QED
    BY <1>1, <1>2, <2>1, <2>2, <2>5, <2>6, <2>7, <2>8, AcceptGoes DEF b
<1> QED
  BY <1>3

\* The client takes a CertificateRequest, or the message in its place.
LEMMA CertificateRequest13Goes ==
    ASSUME IInv, InStep, tls13_process_certificate_request
    PROVE  Goes
<1> DEFINE u == setup
           c == ssl["client"]
           r == Got("client")
           h == Hash13("client")
<1>1. Reads("client", "tls13", "CERTIFICATE_REQUEST")
  BY DEF tls13_process_certificate_request
<1>2. /\ "client" \in Ends /\ "tls13" \in Versions /\ u \in Setup /\ c \in Context
      /\ c.state = "CERTIFICATE_REQUEST" /\ c.version = "tls13" /\ c.out = <<>>
      /\ c.result = "running" /\ Running("client")
      /\ Client13Fits(u, c) /\ Reached("client") = ClientPlace13(c)
      /\ h \in Context /\ Stays(c, h) /\ ~ h.keep
      /\ h.checksum = Append(c.checksum, <<r.type, r.body>>)
  BY <1>1, ReadIs, FitsIs, TakenIs DEF Ends, Versions
<1> HIDE DEF h
<1>3. ASSUME Wanted(u)
      PROVE  Goes
  <2> DEFINE s == [h EXCEPT !.clientAuth = TRUE]
             b == [s EXCEPT !.state = "SERVER_CERTIFICATE"]
  <2>1. /\ Reached("client") = 8 /\ NextLine(u, 8) = 9
        /\ c.checksum = Transcript(u, 8)
    <3>1. ClientPlace13(c) = 8
      <4>1. c.state = "CERTIFICATE_REQUEST"
        BY <1>2
      <4> QED
        BY <4>1 DEF ClientPlace13
    <3>2. NextLine(u, 8) = 9
      BY <1>2, <1>3 DEF NextLine, Next13, Client13Fits, Retries, Signs
    <3> QED
      BY <1>2, <1>3, <3>1, <3>2 DEF Client13Fits, Retries, Signs
  <2>2. Turn(u, 8, 9, 9)
    BY <1>2, <1>3, Turns13 DEF Client13Fits, Retries, Signs
  <2>3. r.type = Type(9) /\ r.body = Body(u, 9)
    BY <1>1, <1>2, <2>1, Hears
  <2>4. h.checksum = Transcript(u, 9)
    <3>1. Type(9) # "ChangeCipherSpec"
      BY TypeIs
    <3>2. Transcript(u, 9) = Append(Transcript(u, 8), <<Type(9), Body(u, 9)>>)
      BY <2>2, <3>1, SaidIs
    <3>3. h.checksum = Append(c.checksum, <<r.type, r.body>>)
      BY <1>2
    <3> QED
      BY <2>1, <2>3, <3>2, <3>3
  <2>5. Accept("client", s, "SERVER_CERTIFICATE")
    BY <1>2, <1>3, <2>3, TypeIs DEF Body, tls13_process_certificate_request, h
  <2>6. /\ s \in Context /\ s.out = <<>> /\ s.result = "running" /\ ~ s.keep
        /\ Stays([c EXCEPT !.clientAuth = TRUE], b) /\ b.state = "SERVER_CERTIFICATE" /\ ~ b.keep
        /\ b.checksum = Transcript(u, 9)
    BY <1>2, <1>3, <2>1, <2>4 DEF Stays, Context
  <2> HIDE DEF b, s
  <2>7. Place("client", b) = 9 /\ FitsPlace(u, "client", b)
    <3>1. ClientPlace13(b) = 9
      BY <1>2, <1>3, <2>1, <2>6 DEF Stays, Context, ClientPlace13, Client13Fits
    <3>2. Client13Fits(u, b)
      BY <1>2, <1>3, <2>1, <2>6, <3>1 DEF Stays, Context, Client13Fits, Retries, Signs
    <3> QED
      BY <1>2, <2>1, <2>6, <3>1, <3>2 DEF Stays, Context, Place, FitsPlace
  <2>8. "SERVER_CERTIFICATE" \in StateNames \ {"HANDSHAKE_OVER"}
    BY DEF StateNames, Client13States, Server13States, Client12States
  <2> QED
    BY <1>1, <1>2, <2>1, <2>2, <2>5, <2>6, <2>7, <2>8, AcceptGoes DEF b
<1>4. ASSUME ~ Wanted(u)
      PROVE  Goes
  <2> DEFINE s == c
             b == [s EXCEPT !.state = "SERVER_CERTIFICATE", !.keep = TRUE, !.msg = r]
  <2>1. /\ Reached("client") = 8 /\ NextLine(u, 8) = 10
        /\ c.checksum = Transcript(u, 8)
    <3>1. ClientPlace13(c) = 8
      <4>1. c.state = "CERTIFICATE_REQUEST"
        BY <1>2
      <4> QED
        BY <4>1 DEF ClientPlace13
    <3>2. NextLine(u, 8) = 10
      BY <1>2, <1>4 DEF NextLine, Next13, Client13Fits, Retries, Signs
    <3> QED
      BY <1>2, <1>4, <3>1, <3>2 DEF Client13Fits, Retries, Signs
  <2>2. Turn(u, 8, 9, 0)
    BY <1>2, <1>4, Turns13 DEF Client13Fits, Retries, Signs
  <2>3. r.type = Type(10) /\ r.body = Body(u, 10)
    BY <1>1, <1>2, <2>1, Hears
  <2>4. Transcript(u, 9) = Transcript(u, 8)
    BY <2>2, SaidIs
  <2>5. Keep("client", s, "SERVER_CERTIFICATE")
    <3>1. r.type = "Certificate" /\ r.body = u.cert["server"]
      <4>1. Type(10) = "Certificate" /\ Body(u, 10) = u.cert["server"]
        BY DEF Type, Body
      <4> QED
        BY <2>3, <4>1
    <3> QED
      BY <1>2, <1>4, <3>1 DEF tls13_process_certificate_request, h
  <2>6. /\ s \in Context /\ s.out = <<>> /\ s.result = "running"
        /\ Stays(c, b) /\ b.state = "SERVER_CERTIFICATE" /\ b.keep /\ b.checksum = Transcript(u, 9)
    BY <1>2, <1>4, <2>1, <2>4 DEF Stays, Context
  <2> HIDE DEF b, s
  <2>7. Place("client", b) = 9 /\ FitsPlace(u, "client", b)
    <3>1. ClientPlace13(b) = 9
      BY <1>2, <1>4, <2>1, <2>6 DEF Stays, ClientPlace13, Client13Fits
    <3>2. Client13Fits(u, b)
      BY <1>2, <1>4, <2>1, <2>6, <3>1 DEF Stays, Client13Fits, Retries, Signs
    <3> QED
      BY <1>2, <2>1, <2>6, <3>1, <3>2 DEF Stays, Place, FitsPlace
  <2>8. "SERVER_CERTIFICATE" \in StateNames \ {"HANDSHAKE_OVER"}
    BY DEF StateNames, Client13States, Server13States, Client12States
  <2> QED
    BY <1>1, <1>2, <2>1, <2>2, <2>5, <2>6, <2>7, <2>8, KeepGoes DEF b
<1> QED
  BY <1>2, <1>3, <1>4 DEF Retries, Signs

\* The client takes the server's certificate or refuses it.
LEMMA ServerCertificate13Goes ==
    ASSUME IInv, InStep,
           tls13_process_certificate("client", "SERVER_CERTIFICATE", "CERTIFICATE_VERIFY")
    PROVE  Goes
<1> DEFINE u == setup
           c == ssl["client"]
           r == Got("client")
           h == Hash13("client")
<1>1. Reads("client", "tls13", "SERVER_CERTIFICATE")
  BY DEF tls13_process_certificate
<1>2. /\ "client" \in Ends /\ "tls13" \in Versions /\ u \in Setup /\ c \in Context
      /\ c.state = "SERVER_CERTIFICATE" /\ c.version = "tls13" /\ c.out = <<>>
      /\ c.result = "running" /\ Running("client")
      /\ Client13Fits(u, c) /\ Reached("client") = ClientPlace13(c)
      /\ h \in Context /\ Stays(c, h) /\ ~ h.keep
      /\ h.checksum = Append(c.checksum, <<r.type, r.body>>)
  BY <1>1, ReadIs, FitsIs, TakenIs DEF Ends, Versions
<1> HIDE DEF h
<1>3. u.cert["server"] \in Certificates \ {"empty"}
  BY <1>2, ServerHasOne DEF Setup, Ends
<1>4. u.authmode["client"] \in {"none", "optional", "required"}
  BY <1>2 DEF Setup, Ends, Authmodes
<1>5. ASSUME u.cert["server"] = "good" \/ u.authmode["client"] # "required"
      PROVE  Goes
  <2> DEFINE s == [h EXCEPT !.peerCert = u.cert["server"]]
             b == [s EXCEPT !.state = "CERTIFICATE_VERIFY"]
  <2>1. /\ Reached("client") = 9 /\ NextLine(u, 9) = 10
        /\ c.checksum = Transcript(u, 9)
    <3>1. ClientPlace13(c) = 9
      <4>1. c.state = "SERVER_CERTIFICATE"
        BY <1>2
      <4> QED
        BY <4>1 DEF ClientPlace13
    <3>2. NextLine(u, 9) = 10
      BY <1>2, <1>3, <1>4, <1>5 DEF NextLine, Next13, Client13Fits, Retries, Signs
    <3> QED
      BY <1>2, <1>3, <1>4, <1>5, <3>1, <3>2 DEF Client13Fits, Retries, Signs
  <2>2. Turn(u, 9, 10, 10)
    BY <1>2, <1>3, <1>4, <1>5, Turns13 DEF Client13Fits, Retries, Signs
  <2>3. r.type = Type(10) /\ r.body = Body(u, 10)
    BY <1>1, <1>2, <2>1, Hears
  <2>4. h.checksum = Transcript(u, 10)
    <3>1. Type(10) # "ChangeCipherSpec"
      BY TypeIs
    <3>2. Transcript(u, 10) = Append(Transcript(u, 9), <<Type(10), Body(u, 10)>>)
      BY <2>2, <3>1, SaidIs
    <3>3. h.checksum = Append(c.checksum, <<r.type, r.body>>)
      BY <1>2
    <3> QED
      BY <2>1, <2>3, <3>2, <3>3
  <2>5. Accept("client", s, "CERTIFICATE_VERIFY")
    <3>1. r.type = "Certificate" /\ r.body = u.cert["server"]
      <4>1. Type(10) = "Certificate" /\ Body(u, 10) = u.cert["server"]
        BY DEF Type, Body
      <4> QED
        BY <2>3, <4>1
    <3> QED
      BY <1>2, <1>3, <1>4, <1>5, <3>1 DEF tls13_process_certificate, Forgiven, h
  <2>6. /\ s \in Context /\ s.out = <<>> /\ s.result = "running" /\ ~ s.keep
        /\ Stays([c EXCEPT !.peerCert = u.cert["server"]], b) /\ b.state = "CERTIFICATE_VERIFY"
        /\ ~ b.keep /\ b.checksum = Transcript(u, 10)
    BY <1>2, <1>3, <1>4, <1>5, <2>1, <2>4 DEF Stays, Context
  <2> HIDE DEF b, s
  <2>7. Place("client", b) = 10 /\ FitsPlace(u, "client", b)
    <3>1. ClientPlace13(b) = 10
      BY <1>2, <1>3, <1>4, <1>5, <2>1, <2>6 DEF Stays, Context, ClientPlace13, Client13Fits
    <3>2. Client13Fits(u, b)
      BY <1>2, <1>3, <1>4, <1>5, <2>1, <2>6, <3>1 DEF Stays, Context, Client13Fits, Retries, Signs
    <3> QED
      BY <1>2, <2>1, <2>6, <3>1, <3>2 DEF Stays, Context, Place, FitsPlace
  <2>8. "CERTIFICATE_VERIFY" \in StateNames \ {"HANDSHAKE_OVER"}
    BY DEF StateNames, Client13States, Server13States, Client12States
  <2> QED
    BY <1>1, <1>2, <2>1, <2>2, <2>5, <2>6, <2>7, <2>8, AcceptGoes DEF b
<1>6. ASSUME ~ (u.cert["server"] = "good" \/ u.authmode["client"] # "required")
      PROVE  Goes
  <2>1. /\ Reached("client") = 9 /\ NextLine(u, 9) = 10
        /\ c.checksum = Transcript(u, 9)
    <3>1. ClientPlace13(c) = 9
      <4>1. c.state = "SERVER_CERTIFICATE"
        BY <1>2
      <4> QED
        BY <4>1 DEF ClientPlace13
    <3>2. NextLine(u, 9) = 10
      BY <1>2, <1>3, <1>4, <1>6 DEF NextLine, Next13, Client13Fits, Retries, Signs
    <3> QED
      BY <1>2, <1>3, <1>4, <1>6, <3>1, <3>2 DEF Client13Fits, Retries, Signs
  <2>2. r.type = Type(10) /\ r.body = Body(u, 10)
    BY <1>1, <1>2, <2>1, Hears
  <2>3. Fail("client", "bad_certificate", FatalAlert("client"))
    BY <1>2, <1>3, <1>4, <1>6, <2>2 DEF Body, Forgiven, Refuse, Quit, tls13_process_certificate
  <2>4. "bad_certificate" \in Refusals /\ Explained("client", "bad_certificate")
    BY <1>2, <1>3, <1>4, <1>6 DEF Refusals, Explained, Unacceptable, Asks, Other
  <2>5. Takes("client") # {} /\ Has("client")
    BY <1>1 DEF Reads
  <2> QED
    BY <1>2, <2>3, <2>4, <2>5, FailGoes
<1> QED
  BY <1>2, <1>3, <1>4, <1>5, <1>6 DEF Retries, Signs

\* The client takes the server's CertificateVerify.
LEMMA ServerCertificateVerifyGoes ==
    ASSUME IInv, InStep,
           tls13_process_certificate_verify("client", "CERTIFICATE_VERIFY", "SERVER_FINISHED")
    PROVE  Goes
<1> DEFINE u == setup
           c == ssl["client"]
           r == Got("client")
           h == Hash13("client")
<1>1. Reads("client", "tls13", "CERTIFICATE_VERIFY")
  BY DEF tls13_process_certificate_verify
<1>2. /\ "client" \in Ends /\ "tls13" \in Versions /\ u \in Setup /\ c \in Context
      /\ c.state = "CERTIFICATE_VERIFY" /\ c.version = "tls13" /\ c.out = <<>>
      /\ c.result = "running" /\ Running("client")
      /\ Client13Fits(u, c) /\ Reached("client") = ClientPlace13(c)
      /\ h \in Context /\ Stays(c, h) /\ ~ h.keep
      /\ h.checksum = Append(c.checksum, <<r.type, r.body>>)
  BY <1>1, ReadIs, FitsIs, TakenIs DEF Ends, Versions
<1> HIDE DEF h
<1>3. Goes
  <2> DEFINE s == h
             b == [s EXCEPT !.state = "SERVER_FINISHED"]
  <2>1. /\ Reached("client") = 10 /\ NextLine(u, 10) = 11
        /\ c.checksum = Transcript(u, 10)
    <3>1. ClientPlace13(c) = 10
      <4>1. c.state = "CERTIFICATE_VERIFY"
        BY <1>2
      <4> QED
        BY <4>1 DEF ClientPlace13
    <3>2. NextLine(u, 10) = 11
      BY <1>2 DEF NextLine, Next13, Client13Fits, Retries, Signs
    <3> QED
      BY <1>2, <3>1, <3>2 DEF Client13Fits, Retries, Signs
  <2>2. Turn(u, 10, 11, 11)
    BY <1>2, Turns13 DEF Client13Fits, Retries, Signs
  <2>3. r.type = Type(11) /\ r.body = Body(u, 11)
    BY <1>1, <1>2, <2>1, Hears
  <2>4. Binds("client")
    <3>1. ~ c.keep
      BY <1>2, <2>1 DEF Client13Fits
    <3>2. r.type \in Bound
      BY <2>3, TypeIs DEF Bound
    <3> QED
      BY <1>1, <1>2, <2>1, <3>1, <3>2, Hears
  <2>5. h.checksum = Transcript(u, 11)
    <3>1. Type(11) # "ChangeCipherSpec"
      BY TypeIs
    <3>2. Transcript(u, 11) = Append(Transcript(u, 10), <<Type(11), Body(u, 11)>>)
      BY <2>2, <3>1, SaidIs
    <3>3. h.checksum = Append(c.checksum, <<r.type, r.body>>)
      BY <1>2
    <3> QED
      BY <2>1, <2>3, <3>2, <3>3
  <2>6. Accept("client", s, "SERVER_FINISHED")
    BY <1>2, <2>3, <2>4, TypeIs DEF Body, tls13_process_certificate_verify, h
  <2>7. /\ s \in Context /\ s.out = <<>> /\ s.result = "running" /\ ~ s.keep
        /\ Stays(c, b) /\ b.state = "SERVER_FINISHED" /\ ~ b.keep /\ b.checksum = Transcript(u, 11)
    BY <1>2, <2>1, <2>5 DEF Stays, Context
  <2> HIDE DEF b, s
  <2>8. Place("client", b) = 11 /\ FitsPlace(u, "client", b)
    <3>1. ClientPlace13(b) = 11
      BY <1>2, <2>1, <2>7 DEF Stays, ClientPlace13, Client13Fits
    <3>2. Client13Fits(u, b)
      BY <1>2, <2>1, <2>7, <3>1 DEF Stays, Client13Fits, Retries, Signs
    <3> QED
      BY <1>2, <2>1, <2>7, <3>1, <3>2 DEF Stays, Place, FitsPlace
  <2>9. "SERVER_FINISHED" \in StateNames \ {"HANDSHAKE_OVER"}
    BY DEF StateNames, Client13States, Server13States, Client12States
  <2> QED
    BY <1>1, <1>2, <2>1, <2>2, <2>6, <2>7, <2>8, <2>9, AcceptGoes DEF b
<1> QED
  BY <1>3

\* The client takes the server's Finished.
LEMMA ServerFinished13Goes ==
    ASSUME IInv, InStep, tls13_process_server_finished
    PROVE  Goes
<1> DEFINE u == setup
           c == ssl["client"]
           r == Got("client")
           h == Hash13("client")
<1>1. Reads("client", "tls13", "SERVER_FINISHED")
  BY DEF tls13_process_server_finished
<1>2. /\ "client" \in Ends /\ "tls13" \in Versions /\ u \in Setup /\ c \in Context
      /\ c.state = "SERVER_FINISHED" /\ c.version = "tls13" /\ c.out = <<>> /\ c.result = "running"
      /\ Running("client")
      /\ Client13Fits(u, c) /\ Reached("client") = ClientPlace13(c)
      /\ h \in Context /\ Stays(c, h) /\ ~ h.keep
      /\ h.checksum = Append(c.checksum, <<r.type, r.body>>)
  BY <1>1, ReadIs, FitsIs, TakenIs DEF Ends, Versions
<1> HIDE DEF h
<1>3. Goes
  <2> DEFINE s == h
             b == [s EXCEPT !.state = "CLIENT_CCS_AFTER_SERVER_FINISHED"]
  <2>1. /\ Reached("client") = 11 /\ NextLine(u, 11) = 12
        /\ c.checksum = Transcript(u, 11)
    <3>1. ClientPlace13(c) = 11
      <4>1. c.state = "SERVER_FINISHED"
        BY <1>2
      <4> QED
        BY <4>1 DEF ClientPlace13
    <3>2. NextLine(u, 11) = 12
      BY <1>2 DEF NextLine, Next13, Client13Fits, Retries, Signs
    <3> QED
      BY <1>2, <3>1, <3>2 DEF Client13Fits, Retries, Signs
  <2>2. Turn(u, 11, 12, 12)
    BY <1>2, Turns13 DEF Client13Fits, Retries, Signs
  <2>3. r.type = Type(12) /\ r.body = Body(u, 12)
    BY <1>1, <1>2, <2>1, Hears
  <2>4. Binds("client")
    <3>1. ~ c.keep
      BY <1>2, <2>1 DEF Client13Fits
    <3>2. r.type \in Bound
      BY <2>3, TypeIs DEF Bound
    <3> QED
      BY <1>1, <1>2, <2>1, <3>1, <3>2, Hears
  <2>5. h.checksum = Transcript(u, 12)
    <3>1. Type(12) # "ChangeCipherSpec"
      BY TypeIs
    <3>2. Transcript(u, 12) = Append(Transcript(u, 11), <<Type(12), Body(u, 12)>>)
      BY <2>2, <3>1, SaidIs
    <3>3. h.checksum = Append(c.checksum, <<r.type, r.body>>)
      BY <1>2
    <3> QED
      BY <2>1, <2>3, <3>2, <3>3
  <2>6. Accept("client", s, "CLIENT_CCS_AFTER_SERVER_FINISHED")
    BY <1>2, <2>3, <2>4, TypeIs DEF Body, tls13_process_server_finished, h
  <2>7. /\ s \in Context /\ s.out = <<>> /\ s.result = "running" /\ ~ s.keep
        /\ Stays(c, b) /\ b.state = "CLIENT_CCS_AFTER_SERVER_FINISHED" /\ ~ b.keep
        /\ b.checksum = Transcript(u, 12)
    BY <1>2, <2>1, <2>5 DEF Stays, Context
  <2> HIDE DEF b, s
  <2>8. Place("client", b) = 12 /\ FitsPlace(u, "client", b)
    <3>1. ClientPlace13(b) = 12
      BY <1>2, <2>1, <2>7 DEF Stays, ClientPlace13, Client13Fits
    <3>2. Client13Fits(u, b)
      BY <1>2, <2>1, <2>7, <3>1 DEF Stays, Client13Fits, Retries, Signs
    <3> QED
      BY <1>2, <2>1, <2>7, <3>1, <3>2 DEF Stays, Place, FitsPlace
  <2>9. "CLIENT_CCS_AFTER_SERVER_FINISHED" \in StateNames \ {"HANDSHAKE_OVER"}
    BY DEF StateNames, Client13States, Server13States, Client12States
  <2> QED
    BY <1>1, <1>2, <2>1, <2>2, <2>6, <2>7, <2>8, <2>9, AcceptGoes DEF b
<1> QED
  BY <1>3

\* The client says ChangeCipherSpec, unless it has done so before.
LEMMA ClientCcs2Goes ==
    ASSUME IInv, InStep,
           tls13_write_change_cipher_spec("client", "CLIENT_CCS_AFTER_SERVER_FINISHED", "CLIENT_CERTIFICATE")
    PROVE  Goes
<1> DEFINE u == setup
           c == ssl["client"]
<1>1. At("client", "tls13", "CLIENT_CCS_AFTER_SERVER_FINISHED")
  BY DEF tls13_write_change_cipher_spec
<1>2. /\ "client" \in Ends /\ "tls13" \in Versions /\ u \in Setup /\ c \in Context
      /\ c.state = "CLIENT_CCS_AFTER_SERVER_FINISHED" /\ c.version = "tls13" /\ c.out = <<>>
      /\ c.result = "running" /\ Running("client")
      /\ Client13Fits(u, c) /\ Reached("client") = ClientPlace13(c)
  BY <1>1, AtIs, FitsIs DEF Ends, Versions
<1>3. c.ccsSent <=> u.shareRefused
  BY <1>2 DEF Client13Fits, ClientPlace13, Retries
<1>4. ASSUME u.shareRefused
      PROVE  Goes
  <2> DEFINE b == [c EXCEPT !.state = "CLIENT_CERTIFICATE"]
  <2>1. /\ Reached("client") = 12
        /\ c.checksum = Transcript(u, 12)
    <3>1. ClientPlace13(c) = 12
      <4>1. c.state = "CLIENT_CCS_AFTER_SERVER_FINISHED"
        BY <1>2
      <4> QED
        BY <4>1 DEF ClientPlace13
    <3> QED
      BY <1>2, <1>3, <1>4, <3>1 DEF Client13Fits, Retries, Signs
  <2>2. Turn(u, 12, 13, 0)
    BY <1>2, <1>3, <1>4, Turns13 DEF Client13Fits, Retries, Signs
  <2>3. Transcript(u, 13) = Transcript(u, 12)
    BY <2>2, SaidIs
  <2>4. Become("client", b)
    BY <1>2, <1>3, <1>4 DEF tls13_write_change_cipher_spec, Go, Client13Fits, ClientPlace13,
       Retries, Signs
  <2>5. /\ Stays(c, b) /\ b.state = "CLIENT_CERTIFICATE" /\ b.keep = c.keep /\ b.msg = c.msg
        /\ b.checksum = c.checksum
    BY <1>2 DEF Stays, Context
  <2> HIDE DEF b
  <2>6. Place("client", b) = 13 /\ FitsPlace(u, "client", b)
    <3>1. ClientPlace13(b) = 13
      BY <1>2, <1>3, <1>4, <2>1, <2>3, <2>5 DEF Stays, ClientPlace13, Client13Fits
    <3>2. Client13Fits(u, b)
      BY <1>2, <1>3, <1>4, <2>1, <2>3, <2>5, <3>1 DEF Stays, Client13Fits, Retries, Signs
    <3> QED
      BY <1>2, <2>1, <2>3, <2>5, <3>1, <3>2 DEF Stays, Place, FitsPlace
  <2> QED
    BY <1>2, <2>1, <2>2, <2>4, <2>5, <2>6, BecomeGoes DEF Stays, Context
<1>5. ASSUME ~ u.shareRefused
      PROVE  Goes
  <2> DEFINE s == [c EXCEPT !.ccsSent = TRUE]
             w == Written(s, Type(13), Body(u, 13), "CLIENT_CERTIFICATE")
  <2>1. /\ Reached("client") = 12
        /\ c.checksum = Transcript(u, 12)
    <3>1. ClientPlace13(c) = 12
      <4>1. c.state = "CLIENT_CCS_AFTER_SERVER_FINISHED"
        BY <1>2
      <4> QED
        BY <4>1 DEF ClientPlace13
    <3> QED
      BY <1>2, <1>3, <1>5, <3>1 DEF Client13Fits, Retries, Signs
  <2>2. Turn(u, 12, 13, 13)
    BY <1>2, <1>3, <1>5, Turns13 DEF Client13Fits, Retries, Signs
  <2>3. Write("client", s, Type(13), Body(u, 13), "CLIENT_CERTIFICATE")
    BY <1>2, <1>3, <1>5, TypeIs DEF Body, tls13_write_change_cipher_spec, ClientPlace13, Retries,
       Signs,
       Client13Fits
  <2>4. /\ s \in Context /\ Stays([c EXCEPT !.ccsSent = TRUE], s) /\ s.checksum = c.checksum
        /\ s.keep = c.keep /\ s.msg = c.msg
        /\ 13 \notin PassedOver => s.outKey = Key(13)
    <3>1. 13 \notin PassedOver => s.outKey = Key(13)
      BY <1>2, <1>3, <1>5, <2>1 DEF Context, Key, PassedOver, Client13Fits
    <3>2. /\ s \in Context /\ Stays([c EXCEPT !.ccsSent = TRUE], s) /\ s.checksum = c.checksum
          /\ s.keep = c.keep /\ s.msg = c.msg
      BY <1>2, <1>3, <1>5 DEF Stays, Context, Keys
    <3> QED
      BY <3>1, <3>2
  <2>5. "CLIENT_CERTIFICATE" \in StateNames
    BY DEF StateNames, Client13States, Server13States, Client12States
  <2> HIDE DEF s, w
  <2>6. /\ Stays(s, w) /\ w.state = "CLIENT_CERTIFICATE" /\ w.keep = s.keep
        /\ w.checksum = Transcript(u, 13)
    BY <1>2, <2>1, <2>2, <2>4, <2>5, SaysLine DEF w
  <2>7. Place("client", w) = 13 /\ FitsPlace(u, "client", w)
    <3>1. ClientPlace13(w) = 13
      BY <1>2, <1>3, <1>5, <2>1, <2>4, <2>6 DEF Stays, Context, ClientPlace13, Client13Fits
    <3>2. Client13Fits(u, w)
      BY <1>2, <1>3, <1>5, <2>1, <2>4, <2>6, <3>1 DEF Stays, Context, Client13Fits, Retries, Signs
    <3> QED
      BY <1>2, <2>1, <2>4, <2>6, <3>1, <3>2 DEF Stays, Context, Place, FitsPlace
  <2>8. Speaks("client", s, 12, 13, 13, "CLIENT_CERTIFICATE")
    BY <1>2, <2>1, <2>2, <2>3, <2>4, <2>5, <2>7 DEF Speaks, Stays, Context, w, Speaker
  <2> QED
    BY <1>2, <2>8, SpeaksGoes
<1> QED
  BY <1>2, <1>3, <1>4, <1>5

\* The client says its certificate, if it was asked for one.
LEMMA ClientCertificateGoes ==
    ASSUME IInv, InStep, tls13_write_client_certificate
    PROVE  Goes
<1> DEFINE u == setup
           c == ssl["client"]
<1>1. At("client", "tls13", "CLIENT_CERTIFICATE")
  BY DEF tls13_write_client_certificate
<1>2. /\ "client" \in Ends /\ "tls13" \in Versions /\ u \in Setup /\ c \in Context
      /\ c.state = "CLIENT_CERTIFICATE" /\ c.version = "tls13" /\ c.out = <<>>
      /\ c.result = "running" /\ Running("client")
      /\ Client13Fits(u, c) /\ Reached("client") = ClientPlace13(c)
  BY <1>1, AtIs, FitsIs DEF Ends, Versions
<1>3. ASSUME Signs(u)
      PROVE  Goes
  <2> DEFINE s == [c EXCEPT !.outKey = "handshake"]
             w == Written(s, Type(14), Body(u, 14), "CLIENT_CERTIFICATE_VERIFY")
  <2>1. /\ Reached("client") = 13
        /\ c.checksum = Transcript(u, 13)
    <3>1. ClientPlace13(c) = 13
      <4>1. c.state = "CLIENT_CERTIFICATE"
        BY <1>2
      <4> QED
        BY <4>1 DEF ClientPlace13
    <3> QED
      BY <1>2, <1>3, <3>1 DEF Client13Fits, Retries, Signs
  <2>2. Turn(u, 13, 14, 14)
    BY <1>2, <1>3, Turns13 DEF Client13Fits, Retries, Signs
  <2>3. Write("client", s, Type(14), Body(u, 14), "CLIENT_CERTIFICATE_VERIFY")
    <3>1. Type(14) = "Certificate" /\ Body(u, 14) = u.cert["client"]
      BY DEF Type, Body
    <3>2. c.clientAuth /\ (u.cert["client"] # "empty" <=> Signs(u))
      BY <1>2, <1>3 DEF ClientPlace13, Client13Fits, Signs
    <3> QED
      BY <1>2, <1>3, <3>1, <3>2 DEF tls13_write_client_certificate
  <2>4. /\ s \in Context /\ Stays([c EXCEPT !.outKey = "handshake"], s) /\ s.checksum = c.checksum
        /\ s.keep = c.keep /\ s.msg = c.msg
        /\ 14 \notin PassedOver => s.outKey = Key(14)
    <3>1. 14 \notin PassedOver => s.outKey = Key(14)
      BY <1>2, <1>3, <2>1 DEF Context, Key, PassedOver, Client13Fits
    <3>2. /\ s \in Context /\ Stays([c EXCEPT !.outKey = "handshake"], s) /\ s.checksum = c.checksum
          /\ s.keep = c.keep /\ s.msg = c.msg
      BY <1>2, <1>3 DEF Stays, Context, Keys
    <3> QED
      BY <3>1, <3>2
  <2>5. "CLIENT_CERTIFICATE_VERIFY" \in StateNames
    BY DEF StateNames, Client13States, Server13States, Client12States
  <2> HIDE DEF s, w
  <2>6. /\ Stays(s, w) /\ w.state = "CLIENT_CERTIFICATE_VERIFY" /\ w.keep = s.keep
        /\ w.checksum = Transcript(u, 14)
    BY <1>2, <2>1, <2>2, <2>4, <2>5, SaysLine DEF w
  <2>7. Place("client", w) = 14 /\ FitsPlace(u, "client", w)
    <3>1. ClientPlace13(w) = 14
      BY <1>2, <1>3, <2>1, <2>4, <2>6 DEF Stays, Context, ClientPlace13, Client13Fits
    <3>2. Client13Fits(u, w)
      BY <1>2, <1>3, <2>1, <2>4, <2>6, <3>1 DEF Stays, Context, Client13Fits, Retries, Signs
    <3> QED
      BY <1>2, <2>1, <2>4, <2>6, <3>1, <3>2 DEF Stays, Context, Place, FitsPlace
  <2>8. Speaks("client", s, 13, 14, 14, "CLIENT_CERTIFICATE_VERIFY")
    BY <1>2, <2>1, <2>2, <2>3, <2>4, <2>5, <2>7 DEF Speaks, Stays, Context, w, Speaker
  <2> QED
    BY <1>2, <2>8, SpeaksGoes
<1>4. ASSUME Wanted(u), ~ Signs(u)
      PROVE  Goes
  <2> DEFINE s == [c EXCEPT !.outKey = "handshake"]
             w == Written(s, Type(14), Body(u, 14), "CLIENT_FINISHED")
  <2>1. /\ Reached("client") = 13
        /\ c.checksum = Transcript(u, 13)
    <3>1. ClientPlace13(c) = 13
      <4>1. c.state = "CLIENT_CERTIFICATE"
        BY <1>2
      <4> QED
        BY <4>1 DEF ClientPlace13
    <3> QED
      BY <1>2, <1>4, <3>1 DEF Client13Fits, Retries, Signs
  <2>2. Turn(u, 13, 15, 14)
    BY <1>2, <1>4, Turns13 DEF Client13Fits, Retries, Signs
  <2>3. Write("client", s, Type(14), Body(u, 14), "CLIENT_FINISHED")
    <3>1. Type(14) = "Certificate" /\ Body(u, 14) = u.cert["client"]
      BY DEF Type, Body
    <3>2. c.clientAuth /\ (u.cert["client"] # "empty" <=> Signs(u))
      BY <1>2, <1>4 DEF ClientPlace13, Client13Fits, Signs
    <3> QED
      BY <1>2, <1>4, <3>1, <3>2 DEF tls13_write_client_certificate
  <2>4. /\ s \in Context /\ Stays([c EXCEPT !.outKey = "handshake"], s) /\ s.checksum = c.checksum
        /\ s.keep = c.keep /\ s.msg = c.msg
        /\ 14 \notin PassedOver => s.outKey = Key(14)
    <3>1. 14 \notin PassedOver => s.outKey = Key(14)
      BY <1>2, <1>4, <2>1 DEF Context, Key, PassedOver, Client13Fits
    <3>2. /\ s \in Context /\ Stays([c EXCEPT !.outKey = "handshake"], s) /\ s.checksum = c.checksum
          /\ s.keep = c.keep /\ s.msg = c.msg
      BY <1>2, <1>4 DEF Stays, Context, Keys
    <3> QED
      BY <3>1, <3>2
  <2>5. "CLIENT_FINISHED" \in StateNames
    BY DEF StateNames, Client13States, Server13States, Client12States
  <2> HIDE DEF s, w
  <2>6. /\ Stays(s, w) /\ w.state = "CLIENT_FINISHED" /\ w.keep = s.keep
        /\ w.checksum = Transcript(u, 15)
    BY <1>2, <2>1, <2>2, <2>4, <2>5, SaysLine DEF w
  <2>7. Place("client", w) = 15 /\ FitsPlace(u, "client", w)
    <3>1. ClientPlace13(w) = 15
      BY <1>2, <1>4, <2>1, <2>4, <2>6 DEF Stays, Context, ClientPlace13, Client13Fits
    <3>2. Client13Fits(u, w)
      BY <1>2, <1>4, <2>1, <2>4, <2>6, <3>1 DEF Stays, Context, Client13Fits, Retries, Signs
    <3> QED
      BY <1>2, <2>1, <2>4, <2>6, <3>1, <3>2 DEF Stays, Context, Place, FitsPlace
  <2>8. Speaks("client", s, 13, 15, 14, "CLIENT_FINISHED")
    BY <1>2, <2>1, <2>2, <2>3, <2>4, <2>5, <2>7 DEF Speaks, Stays, Context, w, Speaker
  <2> QED
    BY <1>2, <2>8, SpeaksGoes
<1>5. ASSUME ~ Wanted(u)
      PROVE  Goes
  <2> DEFINE b == [[c EXCEPT !.outKey = "handshake"] EXCEPT !.state = "CLIENT_FINISHED"]
  <2>1. /\ Reached("client") = 13
        /\ c.checksum = Transcript(u, 13)
    <3>1. ClientPlace13(c) = 13
      <4>1. c.state = "CLIENT_CERTIFICATE"
        BY <1>2
      <4> QED
        BY <4>1 DEF ClientPlace13
    <3> QED
      BY <1>2, <1>5, <3>1 DEF Client13Fits, Retries, Signs
  <2>2. Turn(u, 13, 15, 0)
    BY <1>2, <1>5, Turns13 DEF Client13Fits, Retries, Signs
  <2>3. Transcript(u, 15) = Transcript(u, 13)
    BY <2>2, SaidIs
  <2>4. Become("client", b)
    BY <1>2, <1>5 DEF tls13_write_client_certificate, Go, Client13Fits, ClientPlace13, Retries,
       Signs
  <2>5. /\ Stays([c EXCEPT !.outKey = "handshake"], b) /\ b.state = "CLIENT_FINISHED"
        /\ b.keep = c.keep /\ b.msg = c.msg /\ b.checksum = c.checksum
    BY <1>2 DEF Stays, Context
  <2> HIDE DEF b
  <2>6. Place("client", b) = 15 /\ FitsPlace(u, "client", b)
    <3>1. ClientPlace13(b) = 15
      BY <1>2, <1>5, <2>1, <2>3, <2>5 DEF Stays, Context, ClientPlace13, Client13Fits
    <3>2. Client13Fits(u, b)
      BY <1>2, <1>5, <2>1, <2>3, <2>5, <3>1 DEF Stays, Context, Client13Fits, Retries, Signs
    <3> QED
      BY <1>2, <2>1, <2>3, <2>5, <3>1, <3>2 DEF Stays, Context, Place, FitsPlace
  <2> QED
    BY <1>2, <2>1, <2>2, <2>4, <2>5, <2>6, BecomeGoes DEF Stays, Context
<1> QED
  BY <1>2, <1>3, <1>4, <1>5 DEF Retries, Signs

\* The client says CertificateVerify.
LEMMA ClientCertificateVerify13Goes ==
    ASSUME IInv, InStep,
           tls13_write_certificate_verify("client", "CLIENT_CERTIFICATE_VERIFY", "CLIENT_FINISHED")
    PROVE  Goes
<1> DEFINE u == setup
           c == ssl["client"]
<1>1. At("client", "tls13", "CLIENT_CERTIFICATE_VERIFY")
  BY DEF tls13_write_certificate_verify
<1>2. /\ "client" \in Ends /\ "tls13" \in Versions /\ u \in Setup /\ c \in Context
      /\ c.state = "CLIENT_CERTIFICATE_VERIFY" /\ c.version = "tls13" /\ c.out = <<>>
      /\ c.result = "running" /\ Running("client")
      /\ Client13Fits(u, c) /\ Reached("client") = ClientPlace13(c)
  BY <1>1, AtIs, FitsIs DEF Ends, Versions
<1>3. Goes
  <2> DEFINE s == c
             w == Written(s, Type(15), Body(u, 15), "CLIENT_FINISHED")
  <2>1. /\ Reached("client") = 14
        /\ c.checksum = Transcript(u, 14)
    <3>1. ClientPlace13(c) = 14
      <4>1. c.state = "CLIENT_CERTIFICATE_VERIFY"
        BY <1>2
      <4> QED
        BY <4>1 DEF ClientPlace13
    <3> QED
      BY <1>2, <3>1 DEF Client13Fits, Retries, Signs
  <2>2. Turn(u, 14, 15, 15)
    BY <1>2, Turns13 DEF Client13Fits, Retries, Signs
  <2>3. Write("client", s, Type(15), Body(u, 15), "CLIENT_FINISHED")
    BY <1>2, TypeIs DEF Body, tls13_write_certificate_verify, Retries, Signs, Client13Fits
  <2>4. /\ s \in Context /\ Stays(c, s) /\ s.checksum = c.checksum
        /\ s.keep = c.keep /\ s.msg = c.msg
        /\ 15 \notin PassedOver => s.outKey = Key(15)
    <3>1. 15 \notin PassedOver => s.outKey = Key(15)
      BY <1>2, <2>1 DEF Context, Key, PassedOver, Client13Fits
    <3>2. /\ s \in Context /\ Stays(c, s) /\ s.checksum = c.checksum /\ s.keep = c.keep
          /\ s.msg = c.msg
      BY <1>2 DEF Stays, Context, Keys
    <3> QED
      BY <3>1, <3>2
  <2>5. "CLIENT_FINISHED" \in StateNames
    BY DEF StateNames, Client13States, Server13States, Client12States
  <2> HIDE DEF s, w
  <2>6. /\ Stays(s, w) /\ w.state = "CLIENT_FINISHED" /\ w.keep = s.keep
        /\ w.checksum = Transcript(u, 15)
    BY <1>2, <2>1, <2>2, <2>4, <2>5, SaysLine DEF w
  <2>7. Place("client", w) = 15 /\ FitsPlace(u, "client", w)
    <3>1. ClientPlace13(w) = 15
      BY <1>2, <2>1, <2>4, <2>6 DEF Stays, ClientPlace13, Client13Fits
    <3>2. Client13Fits(u, w)
      BY <1>2, <2>1, <2>4, <2>6, <3>1 DEF Stays, Client13Fits, Retries, Signs
    <3> QED
      BY <1>2, <2>1, <2>4, <2>6, <3>1, <3>2 DEF Stays, Place, FitsPlace
  <2>8. Speaks("client", s, 14, 15, 15, "CLIENT_FINISHED")
    BY <1>2, <2>1, <2>2, <2>3, <2>4, <2>5, <2>7 DEF Speaks, Stays, Context, w, Speaker
  <2> QED
    BY <1>2, <2>8, SpeaksGoes
<1> QED
  BY <1>3

\* The client says Finished.
LEMMA ClientFinished13Goes ==
    ASSUME IInv, InStep, tls13_write_client_finished
    PROVE  Goes
<1> DEFINE u == setup
           c == ssl["client"]
<1>1. At("client", "tls13", "CLIENT_FINISHED")
  BY DEF tls13_write_client_finished
<1>2. /\ "client" \in Ends /\ "tls13" \in Versions /\ u \in Setup /\ c \in Context
      /\ c.state = "CLIENT_FINISHED" /\ c.version = "tls13" /\ c.out = <<>> /\ c.result = "running"
      /\ Running("client")
      /\ Client13Fits(u, c) /\ Reached("client") = ClientPlace13(c)
  BY <1>1, AtIs, FitsIs DEF Ends, Versions
<1>3. Goes
  <2> DEFINE s == c
             w == Written(s, Type(16), Body(u, 16), "FLUSH_BUFFERS")
  <2>1. /\ Reached("client") = 15
        /\ c.checksum = Transcript(u, 15)
    <3>1. ClientPlace13(c) = 15
      <4>1. c.state = "CLIENT_FINISHED"
        BY <1>2
      <4> QED
        BY <4>1 DEF ClientPlace13
    <3> QED
      BY <1>2, <3>1 DEF Client13Fits, Retries, Signs
  <2>2. Turn(u, 15, 16, 16)
    BY <1>2, Turns13 DEF Client13Fits, Retries, Signs
  <2>3. Write("client", s, Type(16), Body(u, 16), "FLUSH_BUFFERS")
    BY <1>2, TypeIs DEF Body, tls13_write_client_finished, Retries, Signs, Client13Fits
  <2>4. /\ s \in Context /\ Stays(c, s) /\ s.checksum = c.checksum
        /\ s.keep = c.keep /\ s.msg = c.msg
        /\ 16 \notin PassedOver => s.outKey = Key(16)
    <3>1. 16 \notin PassedOver => s.outKey = Key(16)
      BY <1>2, <2>1 DEF Context, Key, PassedOver, Client13Fits
    <3>2. /\ s \in Context /\ Stays(c, s) /\ s.checksum = c.checksum /\ s.keep = c.keep
          /\ s.msg = c.msg
      BY <1>2 DEF Stays, Context, Keys
    <3> QED
      BY <3>1, <3>2
  <2>5. "FLUSH_BUFFERS" \in StateNames
    BY DEF StateNames, Client13States, Server13States, Client12States
  <2> HIDE DEF s, w
  <2>6. /\ Stays(s, w) /\ w.state = "FLUSH_BUFFERS" /\ w.keep = s.keep
        /\ w.checksum = Transcript(u, 16)
    BY <1>2, <2>1, <2>2, <2>4, <2>5, SaysLine DEF w
  <2>7. Place("client", w) = 16 /\ FitsPlace(u, "client", w)
    <3>1. ClientPlace13(w) = 16
      BY <1>2, <2>1, <2>4, <2>6 DEF Stays, ClientPlace13, Client13Fits
    <3>2. Client13Fits(u, w)
      BY <1>2, <2>1, <2>4, <2>6, <3>1 DEF Stays, Client13Fits, Retries, Signs
    <3> QED
      BY <1>2, <2>1, <2>4, <2>6, <3>1, <3>2 DEF Stays, Place, FitsPlace
  <2>8. Speaks("client", s, 15, 16, 16, "FLUSH_BUFFERS")
    BY <1>2, <2>1, <2>2, <2>3, <2>4, <2>5, <2>7 DEF Speaks, Stays, Context, w, Speaker
  <2> QED
    BY <1>2, <2>8, SpeaksGoes
<1> QED
  BY <1>3

\* The client flushes.
LEMMA Flush13Goes ==
    ASSUME IInv, InStep, tls13_flush_buffers
    PROVE  Goes
<1> DEFINE u == setup
           c == ssl["client"]
<1>1. At("client", "tls13", "FLUSH_BUFFERS")
  BY DEF tls13_flush_buffers
<1>2. /\ "client" \in Ends /\ "tls13" \in Versions /\ u \in Setup /\ c \in Context
      /\ c.state = "FLUSH_BUFFERS" /\ c.version = "tls13" /\ c.out = <<>> /\ c.result = "running"
      /\ Running("client")
      /\ Client13Fits(u, c) /\ Reached("client") = ClientPlace13(c)
  BY <1>1, AtIs, FitsIs DEF Ends, Versions
<1>3. Goes
  <2> DEFINE b == [c EXCEPT !.state = "HANDSHAKE_WRAPUP"]
  <2>1. /\ Reached("client") = 16
        /\ c.checksum = Transcript(u, 16)
    <3>1. ClientPlace13(c) = 16
      <4>1. c.state = "FLUSH_BUFFERS"
        BY <1>2
      <4> QED
        BY <4>1 DEF ClientPlace13
    <3> QED
      BY <1>2, <3>1 DEF Client13Fits, Retries, Signs
  <2>2. Turn(u, 16, 16, 0)
    BY TurnStay DEF Places
  <2>3. Transcript(u, 16) = Transcript(u, 16)
    BY <2>2, SaidIs
  <2>4. Become("client", b)
    BY <1>2 DEF tls13_flush_buffers, Go, Retries, Signs
  <2>5. /\ Stays(c, b) /\ b.state = "HANDSHAKE_WRAPUP" /\ b.keep = c.keep /\ b.msg = c.msg
        /\ b.checksum = c.checksum
    BY <1>2 DEF Stays, Context
  <2> HIDE DEF b
  <2>6. Place("client", b) = 16 /\ FitsPlace(u, "client", b)
    <3>1. ClientPlace13(b) = 16
      BY <1>2, <2>1, <2>3, <2>5 DEF Stays, ClientPlace13, Client13Fits
    <3>2. Client13Fits(u, b)
      BY <1>2, <2>1, <2>3, <2>5, <3>1 DEF Stays, Client13Fits, Retries, Signs
    <3> QED
      BY <1>2, <2>1, <2>3, <2>5, <3>1, <3>2 DEF Stays, Place, FitsPlace
  <2> QED
    BY <1>2, <2>1, <2>2, <2>4, <2>5, <2>6, BecomeGoes DEF Stays, Context
<1> QED
  BY <1>3

\* The client is over.
LEMMA ClientWrapup13Goes ==
    ASSUME IInv, InStep, tls13_handshake_wrapup("client")
    PROVE  Goes
<1> DEFINE u == setup
           c == ssl["client"]
<1>1. At("client", "tls13", "HANDSHAKE_WRAPUP")
  BY DEF tls13_handshake_wrapup
<1>2. /\ "client" \in Ends /\ "tls13" \in Versions /\ u \in Setup /\ c \in Context
      /\ c.state = "HANDSHAKE_WRAPUP" /\ c.version = "tls13" /\ c.out = <<>> /\ c.result = "running"
      /\ Running("client")
      /\ Client13Fits(u, c) /\ Reached("client") = ClientPlace13(c)
  BY <1>1, AtIs, FitsIs DEF Ends, Versions
<1>3. Goes
  <2> DEFINE b == [c EXCEPT !.inKey = "app", !.outKey = "app", !.state = "HANDSHAKE_OVER"]
  <2>1. /\ Reached("client") = 16
        /\ c.checksum = Transcript(u, 16)
    <3>1. ClientPlace13(c) = 16
      <4>1. c.state = "HANDSHAKE_WRAPUP"
        BY <1>2
      <4> QED
        BY <4>1 DEF ClientPlace13
    <3> QED
      BY <1>2, <3>1 DEF Client13Fits, Retries, Signs
  <2>2. Turn(u, 16, 16, 0)
    BY TurnStay DEF Places
  <2>3. Transcript(u, 16) = Transcript(u, 16)
    BY <2>2, SaidIs
  <2>4. Become("client", b)
    BY <1>2 DEF tls13_handshake_wrapup, Go, Retries, Signs
  <2>5. /\ Stays([c EXCEPT !.inKey = "app", !.outKey = "app"], b) /\ b.state = "HANDSHAKE_OVER"
        /\ b.keep = c.keep /\ b.msg = c.msg /\ b.checksum = c.checksum
    BY <1>2 DEF Stays, Context
  <2> HIDE DEF b
  <2>6. Place("client", b) = 16 /\ FitsPlace(u, "client", b)
    <3>1. ClientPlace13(b) = 16
      BY <1>2, <2>1, <2>3, <2>5 DEF Stays, Context, ClientPlace13, Client13Fits
    <3>2. Client13Fits(u, b)
      BY <1>2, <2>1, <2>3, <2>5, <3>1 DEF Stays, Context, Client13Fits, Retries, Signs
    <3> QED
      BY <1>2, <2>1, <2>3, <2>5, <3>1, <3>2 DEF Stays, Context, Place, FitsPlace
  <2>7. FlightsAt(u, 16) = Total
    BY <1>2, FlightsAre DEF Client13Fits
  <2> QED
    BY <1>2, <2>1, <2>2, <2>4, <2>5, <2>6, <2>7, BecomeGoes DEF Stays, Context
<1> QED
  BY <1>3

\* The TLS 1.3 client, as a whole.
LEMMA Client13Goes ==
    ASSUME IInv, InStep, Client13
    PROVE  Goes
<1>1. CASE \/ write_client_hello("tls13")
           \/ tls13_process_server_hello
           \/ tls13_process_encrypted_extensions
           \/ tls13_process_certificate_request
  BY <1>1, ClientHello13Goes, ServerHello13Goes, EncryptedExtensionsGoes, CertificateRequest13Goes
<1>2. CASE \/ tls13_process_certificate("client", "SERVER_CERTIFICATE", "CERTIFICATE_VERIFY")
           \/ tls13_process_certificate_verify("client", "CERTIFICATE_VERIFY", "SERVER_FINISHED")
           \/ tls13_process_server_finished
  BY <1>2, ServerCertificate13Goes, ServerCertificateVerifyGoes, ServerFinished13Goes
<1>3. CASE \/ tls13_write_client_certificate
           \/ tls13_write_certificate_verify("client", "CLIENT_CERTIFICATE_VERIFY", "CLIENT_FINISHED")
           \/ tls13_write_client_finished
           \/ tls13_flush_buffers
  BY <1>3, ClientCertificateGoes, ClientCertificateVerify13Goes, ClientFinished13Goes, Flush13Goes
<1>4. CASE \/ tls13_write_change_cipher_spec("client", "CLIENT_CCS_BEFORE_2ND_CLIENT_HELLO",
                                              "CLIENT_HELLO")
           \/ tls13_write_change_cipher_spec("client", "CLIENT_CCS_AFTER_SERVER_FINISHED",
                                              "CLIENT_CERTIFICATE")
  BY <1>4, ClientCcs1Goes, ClientCcs2Goes
<1> QED
  BY <1>1, <1>2, <1>3, <1>4 DEF Client13

-----------------------------------------------------------------------------
(* The TLS 1.3 server, in step.                                            *)

\* The server takes a ClientHello: of its version, again, or of TLS 1.2.
LEMMA ClientHelloRead13Goes ==
    ASSUME IInv, InStep, tls13_process_client_hello
    PROVE  Goes
<1> DEFINE u == setup
           c == ssl["server"]
           r == Got("server")
           h == Hash13("server")
<1>1. Reads("server", "tls13", "CLIENT_HELLO")
  BY DEF tls13_process_client_hello
<1>2. /\ "server" \in Ends /\ "tls13" \in Versions /\ u \in Setup /\ c \in Context
      /\ c.state = "CLIENT_HELLO" /\ c.version = "tls13" /\ c.out = <<>> /\ c.result = "running"
      /\ Running("server")
      /\ Server13Fits(u, c) /\ Reached("server") = ServerPlace13(c)
      /\ h \in Context /\ Stays(c, h) /\ ~ h.keep
      /\ h.checksum = Append(c.checksum, <<r.type, r.body>>)
  BY <1>1, ReadIs, FitsIs, TakenIs DEF Ends, Versions
<1> HIDE DEF h
<1>3. u.serverMax = "tls13"
  BY <1>2, FitsIs
<1>4. ASSUME V12(u)
      PROVE  Goes
  <2> DEFINE s == [c EXCEPT !.version = "tls12"]
             b == [s EXCEPT !.state = "CLIENT_HELLO", !.keep = TRUE, !.msg = r]
  <2>1. /\ Reached("server") = 0 /\ NextLine(u, 0) = 1
        /\ c.checksum = Transcript(u, 0)
    <3>1. ServerPlace13(c) = 0
      BY <1>2, <1>3, <1>4 DEF ServerPlace13, Server13Fits, Retries
    <3>2. NextLine(u, 0) = 1
      BY <1>2, <1>3, <1>4 DEF NextLine, Next12, Server13Fits, Retries, Signs
    <3> QED
      BY <1>2, <1>3, <1>4, <3>1, <3>2 DEF Server13Fits, Retries, Signs
  <2>2. Turn(u, 0, 0, 0)
    BY TurnStay DEF Places
  <2>3. r.type = Type(1) /\ r.body = Body(u, 1)
    BY <1>1, <1>2, <2>1, Hears
  <2>4. c.checksum = Transcript(u, 0)
    BY <2>1
  <2>5. Keep("server", s, "CLIENT_HELLO")
    BY <1>2, <1>3, <1>4, <2>3, TypeIs DEF Body, tls13_process_client_hello, FirstHello, V12, h
  <2>6. /\ s \in Context /\ s.out = <<>> /\ s.result = "running"
        /\ Stays([c EXCEPT !.version = "tls12"], b) /\ b.state = "CLIENT_HELLO" /\ b.keep
        /\ b.checksum = Transcript(u, 0)
    BY <1>2, <1>3, <1>4, <2>1, <2>4 DEF Stays, Context, Versions
  <2> HIDE DEF b, s
  <2>7. Place("server", b) = 0 /\ FitsPlace(u, "server", b)
    <3>1. Place12(b) = 0
      BY <1>2, <1>3, <1>4, <2>1, <2>6 DEF Stays, Context, Place12, ServerPlace13, Server13Fits
    <3>2. Server12Fits(u, b)
      BY <1>2, <1>3, <1>4, <2>1, <2>6, <3>1 DEF Stays, Context, Server12Fits, Server13Fits,
         Retries, Signs,
         NextLine, Next12, V12
    <3> QED
      BY <1>2, <2>1, <2>6, <3>1, <3>2 DEF Stays, Context, Place, FitsPlace
  <2>8. "CLIENT_HELLO" \in StateNames \ {"HANDSHAKE_OVER"}
    BY DEF StateNames, Client13States, Server13States, Client12States
  <2> QED
    BY <1>1, <1>2, <2>1, <2>2, <2>5, <2>6, <2>7, <2>8, KeepGoes DEF b
<1>5. ASSUME ~ V12(u), u.shareRefused, ~ c.retried, ~ NoCommonProtocol
      PROVE  Goes
  <2> DEFINE s == h
             b == [s EXCEPT !.state = "HELLO_RETRY_REQUEST"]
  <2>1. /\ Reached("server") = 0 /\ NextLine(u, 0) = 1
        /\ c.checksum = Transcript(u, 0)
    <3>1. ServerPlace13(c) = 0
      BY <1>2, <1>3, <1>5 DEF ServerPlace13
    <3>2. NextLine(u, 0) = 1
      BY <1>2, <1>3, <1>5 DEF NextLine, Next13, Server13Fits, Retries, Signs
    <3> QED
      BY <1>2, <1>3, <1>5, <3>1, <3>2 DEF Server13Fits, Retries, Signs
  <2>2. Turn(u, 0, 1, 1)
    BY <1>2, <1>3, <1>5, Turns13 DEF Server13Fits, Retries, Signs
  <2>3. r.type = Type(1) /\ r.body = Body(u, 1)
    BY <1>1, <1>2, <2>1, Hears
  <2>4. h.checksum = Transcript(u, 1)
    <3>1. Type(1) # "ChangeCipherSpec"
      BY TypeIs
    <3>2. Transcript(u, 1) = Append(Transcript(u, 0), <<Type(1), Body(u, 1)>>)
      BY <2>2, <3>1, SaidIs
    <3>3. h.checksum = Append(c.checksum, <<r.type, r.body>>)
      BY <1>2
    <3> QED
      BY <2>1, <2>3, <3>2, <3>3
  <2>5. Accept("server", s, "HELLO_RETRY_REQUEST")
    BY <1>2, <1>3, <1>5, <2>3, TypeIs DEF Body, tls13_process_client_hello, FirstHello, V12, h
  <2>6. /\ s \in Context /\ s.out = <<>> /\ s.result = "running" /\ ~ s.keep
        /\ Stays(c, b) /\ b.state = "HELLO_RETRY_REQUEST" /\ ~ b.keep
        /\ b.checksum = Transcript(u, 1)
    BY <1>2, <1>3, <1>5, <2>1, <2>4 DEF Stays, Context
  <2> HIDE DEF b, s
  <2>7. Place("server", b) = 1 /\ FitsPlace(u, "server", b)
    <3>1. ServerPlace13(b) = 1
      BY <1>2, <1>3, <1>5, <2>1, <2>6 DEF Stays, ServerPlace13, Server13Fits
    <3>2. Server13Fits(u, b)
      BY <1>2, <1>3, <1>5, <2>1, <2>6, <3>1 DEF Stays, Server13Fits, Retries, Signs
    <3> QED
      BY <1>2, <2>1, <2>6, <3>1, <3>2 DEF Stays, Place, FitsPlace
  <2>8. "HELLO_RETRY_REQUEST" \in StateNames \ {"HANDSHAKE_OVER"}
    BY DEF StateNames, Client13States, Server13States, Client12States
  <2> QED
    BY <1>1, <1>2, <2>1, <2>2, <2>5, <2>6, <2>7, <2>8, AcceptGoes DEF b
<1>6. ASSUME ~ V12(u), u.shareRefused, c.retried, ~ NoCommonProtocol
      PROVE  Goes
  <2> DEFINE s == h
             b == [s EXCEPT !.state = "SERVER_HELLO"]
  <2>1. /\ Reached("server") = 3 /\ NextLine(u, 3) = 5
        /\ c.checksum = Transcript(u, 3)
    <3>1. ServerPlace13(c) = 3
      BY <1>2, <1>3, <1>6 DEF ServerPlace13
    <3>2. NextLine(u, 3) = 5
      BY <1>2, <1>3, <1>6 DEF NextLine, Next13, Server13Fits, Retries, Signs
    <3> QED
      BY <1>2, <1>3, <1>6, <3>1, <3>2 DEF Server13Fits, Retries, Signs
  <2>2. Turn(u, 3, 5, 5)
    BY <1>2, <1>3, <1>6, Turns13 DEF Server13Fits, Retries, Signs
  <2>3. r.type = Type(5) /\ r.body = Body(u, 5)
    BY <1>1, <1>2, <2>1, Hears
  <2>4. h.checksum = Transcript(u, 5)
    <3>1. Type(5) # "ChangeCipherSpec"
      BY TypeIs
    <3>2. Transcript(u, 5) = Append(Transcript(u, 3), <<Type(5), Body(u, 5)>>)
      BY <2>2, <3>1, SaidIs
    <3>3. h.checksum = Append(c.checksum, <<r.type, r.body>>)
      BY <1>2
    <3> QED
      BY <2>1, <2>3, <3>2, <3>3
  <2>5. Accept("server", s, "SERVER_HELLO")
    BY <1>2, <1>3, <1>6, <2>3, TypeIs DEF Body, tls13_process_client_hello, h
  <2>6. /\ s \in Context /\ s.out = <<>> /\ s.result = "running" /\ ~ s.keep
        /\ Stays(c, b) /\ b.state = "SERVER_HELLO" /\ ~ b.keep /\ b.checksum = Transcript(u, 5)
    BY <1>2, <1>3, <1>6, <2>1, <2>4 DEF Stays, Context
  <2> HIDE DEF b, s
  <2>7. Place("server", b) = 5 /\ FitsPlace(u, "server", b)
    <3>1. ServerPlace13(b) = 5
      BY <1>2, <1>3, <1>6, <2>1, <2>6 DEF Stays, ServerPlace13, Server13Fits
    <3>2. Server13Fits(u, b)
      BY <1>2, <1>3, <1>6, <2>1, <2>6, <3>1 DEF Stays, Server13Fits, Retries, Signs
    <3> QED
      BY <1>2, <2>1, <2>6, <3>1, <3>2 DEF Stays, Place, FitsPlace
  <2>8. "SERVER_HELLO" \in StateNames \ {"HANDSHAKE_OVER"}
    BY DEF StateNames, Client13States, Server13States, Client12States
  <2> QED
    BY <1>1, <1>2, <2>1, <2>2, <2>5, <2>6, <2>7, <2>8, AcceptGoes DEF b
<1>7. ASSUME ~ V12(u), ~ u.shareRefused, ~ NoCommonProtocol
      PROVE  Goes
  <2> DEFINE s == h
             b == [s EXCEPT !.state = "SERVER_HELLO"]
  <2>1. /\ Reached("server") = 0 /\ NextLine(u, 0) = 1
        /\ c.checksum = Transcript(u, 0)
    <3>1. ServerPlace13(c) = 0
      BY <1>2, <1>3, <1>7 DEF ServerPlace13, Server13Fits, Retries
    <3>2. NextLine(u, 0) = 1
      BY <1>2, <1>3, <1>7 DEF NextLine, Next13, Server13Fits, Retries, Signs
    <3> QED
      BY <1>2, <1>3, <1>7, <3>1, <3>2 DEF Server13Fits, Retries, Signs
  <2>2. Turn(u, 0, 5, 1)
    BY <1>2, <1>3, <1>7, Turns13 DEF Server13Fits, Retries, Signs
  <2>3. r.type = Type(1) /\ r.body = Body(u, 1)
    BY <1>1, <1>2, <2>1, Hears
  <2>4. h.checksum = Transcript(u, 5)
    <3>1. Type(1) # "ChangeCipherSpec"
      BY TypeIs
    <3>2. Transcript(u, 5) = Append(Transcript(u, 0), <<Type(1), Body(u, 1)>>)
      BY <2>2, <3>1, SaidIs
    <3>3. h.checksum = Append(c.checksum, <<r.type, r.body>>)
      BY <1>2
    <3> QED
      BY <2>1, <2>3, <3>2, <3>3
  <2>5. Accept("server", s, "SERVER_HELLO")
    BY <1>2, <1>3, <1>7, <2>3, TypeIs DEF Body, tls13_process_client_hello, FirstHello, V12, h
  <2>6. /\ s \in Context /\ s.out = <<>> /\ s.result = "running" /\ ~ s.keep
        /\ Stays(c, b) /\ b.state = "SERVER_HELLO" /\ ~ b.keep /\ b.checksum = Transcript(u, 5)
    BY <1>2, <1>3, <1>7, <2>1, <2>4 DEF Stays, Context
  <2> HIDE DEF b, s
  <2>7. Place("server", b) = 5 /\ FitsPlace(u, "server", b)
    <3>1. ServerPlace13(b) = 5
      BY <1>2, <1>3, <1>7, <2>1, <2>6 DEF Stays, ServerPlace13, Server13Fits
    <3>2. Server13Fits(u, b)
      BY <1>2, <1>3, <1>7, <2>1, <2>6, <3>1 DEF Stays, Server13Fits, Retries, Signs
    <3> QED
      BY <1>2, <2>1, <2>6, <3>1, <3>2 DEF Stays, Place, FitsPlace
  <2>8. "SERVER_HELLO" \in StateNames \ {"HANDSHAKE_OVER"}
    BY DEF StateNames, Client13States, Server13States, Client12States
  <2> QED
    BY <1>1, <1>2, <2>1, <2>2, <2>5, <2>6, <2>7, <2>8, AcceptGoes DEF b
<1>8. ASSUME ~ V12(u), NoCommonProtocol
      PROVE  Goes
  <2>1. r.body # "tls12"
    <3>1. CASE ServerPlace13(c) = 0
      <4>1. NextLine(u, 0) = 1
        BY <1>2, <1>3, <1>8 DEF NextLine, Next13, Server13Fits, Retries, Signs
      <4>2. r.body = Body(u, 1)
        BY <1>1, <1>2, <3>1, <4>1, Hears
      <4> QED
        BY <1>3, <1>8, <4>2 DEF Body, FirstHello, V12
    <3>2. CASE ServerPlace13(c) = 3 /\ u.shareRefused
      <4>1. NextLine(u, 3) = 5
        BY <1>2, <1>3, <1>8, <3>2 DEF NextLine, Next13, Server13Fits, Retries, Signs
      <4>2. r.body = Body(u, 5)
        BY <1>1, <1>2, <3>2, <4>1, Hears
      <4>3. Body(u, 5) = "tls13 again"
        BY BodyIs
      <4> QED
        BY <4>2, <4>3
    <3> QED
      BY <1>2, <1>8, <3>1, <3>2 DEF ServerPlace13, Server13Fits, Retries
  <2>2. Fail("server", "no_application_protocol", FatalAlert("server"))
    BY <1>8, <2>1 DEF Refuse, tls13_process_client_hello
  <2>3. /\ "no_application_protocol" \in Refusals
        /\ Explained("server", "no_application_protocol")
    BY <1>8 DEF Refusals, Explained
  <2>4. Takes("server") # {} /\ Has("server")
    BY <1>1 DEF Reads
  <2> QED
    BY <1>2, <2>2, <2>3, <2>4, FailGoes
<1> QED
  BY <1>2, <1>3, <1>4, <1>5, <1>6, <1>7, <1>8 DEF Retries, Signs

\* The server asks for another hello.
LEMMA HelloRetryRequestGoes ==
    ASSUME IInv, InStep, tls13_write_hello_retry_request
    PROVE  Goes
<1> DEFINE u == setup
           c == ssl["server"]
<1>1. At("server", "tls13", "HELLO_RETRY_REQUEST")
  BY DEF tls13_write_hello_retry_request
<1>2. /\ "server" \in Ends /\ "tls13" \in Versions /\ u \in Setup /\ c \in Context
      /\ c.state = "HELLO_RETRY_REQUEST" /\ c.version = "tls13" /\ c.out = <<>>
      /\ c.result = "running" /\ Running("server")
      /\ Server13Fits(u, c) /\ Reached("server") = ServerPlace13(c)
  BY <1>1, AtIs, FitsIs DEF Ends, Versions
<1>3. ~ V12(u) /\ u.shareRefused /\ ~ c.retried /\ ~ c.keep
  BY <1>2 DEF Server13Fits, ServerPlace13, Retries
<1>4. Goes
  <2> DEFINE s == [LayerReset(TranscriptReset(c)) EXCEPT !.retried = TRUE]
             w == Written(s, Type(2), Body(u, 2), "SERVER_CCS_AFTER_HELLO_RETRY_REQUEST")
  <2>1. /\ Reached("server") = 1
        /\ c.checksum = Transcript(u, 1)
    <3>1. ServerPlace13(c) = 1
      <4>1. c.state = "HELLO_RETRY_REQUEST"
        BY <1>2
      <4> QED
        BY <4>1 DEF ServerPlace13
    <3> QED
      BY <1>2, <1>3, <3>1 DEF Server13Fits, Retries, Signs
  <2>2. Turn(u, 1, 2, 2)
    BY <1>2, <1>3, Turns13 DEF Server13Fits, Retries, Signs
  <2>3. Write("server", s, Type(2), Body(u, 2), "SERVER_CCS_AFTER_HELLO_RETRY_REQUEST")
    BY <1>2, <1>3, TypeIs DEF Body, tls13_write_hello_retry_request, Retries, Signs, Server13Fits
  <2>4. /\ s \in Context
        /\ Stays([c EXCEPT !.retried = TRUE, !.inKey = "plain", !.outKey = "plain"], s)
        /\ s.checksum = << <<"message_hash", FirstHello(u)>> >>
        /\ ~ s.keep /\ ~ c.keep
        /\ 2 \notin PassedOver => s.outKey = Key(2)
    <3>1. c.checksum = << <<"ClientHello", FirstHello(u)>> >>
      BY <2>1, HelloRetried
    <3>2. /\ s \in Context
          /\ Stays([c EXCEPT !.retried = TRUE, !.inKey = "plain", !.outKey = "plain"], s)
          /\ ~ s.keep /\ s.checksum = << <<"message_hash", FirstHello(u)>> >>
      BY <1>2, <3>1, AfterRetry
    <3>3. Key(2) = "plain"
      BY DEF Key
    <3> HIDE DEF s
    <3> QED
      BY <1>2, <1>3, <3>2, <3>3 DEF Stays, Context
  <2>5. "SERVER_CCS_AFTER_HELLO_RETRY_REQUEST" \in StateNames
    BY DEF StateNames, Client13States, Server13States, Client12States
  <2> HIDE DEF s, w
  <2>6. /\ Stays(s, w) /\ w.state = "SERVER_CCS_AFTER_HELLO_RETRY_REQUEST" /\ w.keep = s.keep
        /\ w.checksum = Transcript(u, 2)
    <3>1. Type(2) \in MessageTypes /\ Body(u, 2) \in Bodies
      BY <1>2, <2>2, LineIs DEF Turn
    <3>2. /\ WrittenOf(s, Type(2), Body(u, 2), "SERVER_CCS_AFTER_HELLO_RETRY_REQUEST", w)
          /\ w.retried = s.retried /\ w.ccsSent = s.ccsSent /\ w.newTicket = s.newTicket
      BY <2>4, <2>5, <3>1, WrittenMore DEF w
    <3>3. w.checksum = Append(<< <<"message_hash", FirstHello(u)>> >>, <<"ServerHello", "retry">>)
      <4>1. Type(2) = "ServerHello" /\ Body(u, 2) = "retry"
        BY DEF Type, Body
      <4> QED
        BY <2>4, <3>2, <4>1 DEF WrittenOf
    <3>4. Transcript(u, 2) = << <<"message_hash", FirstHello(u)>>, <<"ServerHello", "retry">> >>
      BY <1>3, HelloRetried
    <3> QED
      BY <3>2, <3>3, <3>4, AppendSecond DEF WrittenOf, Stays
  <2>7. Place("server", w) = 2 /\ FitsPlace(u, "server", w)
    <3>1. ServerPlace13(w) = 2
      BY <1>2, <1>3, <2>1, <2>4, <2>6 DEF Stays, Context, ServerPlace13, Server13Fits
    <3>2. Server13Fits(u, w)
      BY <1>2, <1>3, <2>1, <2>4, <2>6, <3>1 DEF Stays, Context, Server13Fits, Retries, Signs
    <3> QED
      BY <1>2, <2>1, <2>4, <2>6, <3>1, <3>2 DEF Stays, Context, Place, FitsPlace
  <2>8. Speaks("server", s, 1, 2, 2, "SERVER_CCS_AFTER_HELLO_RETRY_REQUEST")
    BY <1>2, <2>1, <2>2, <2>3, <2>4, <2>5, <2>7 DEF Speaks, Stays, Context, w, Speaker
  <2> QED
    BY <1>2, <2>8, SpeaksGoes
<1> QED
  BY <1>4

\* The server says ChangeCipherSpec after it has asked for another hello.
LEMMA ServerCcs1Goes ==
    ASSUME IInv, InStep,
           tls13_write_change_cipher_spec("server", "SERVER_CCS_AFTER_HELLO_RETRY_REQUEST", "CLIENT_HELLO")
    PROVE  Goes
<1> DEFINE u == setup
           c == ssl["server"]
<1>1. At("server", "tls13", "SERVER_CCS_AFTER_HELLO_RETRY_REQUEST")
  BY DEF tls13_write_change_cipher_spec
<1>2. /\ "server" \in Ends /\ "tls13" \in Versions /\ u \in Setup /\ c \in Context
      /\ c.state = "SERVER_CCS_AFTER_HELLO_RETRY_REQUEST" /\ c.version = "tls13" /\ c.out = <<>>
      /\ c.result = "running" /\ Running("server")
      /\ Server13Fits(u, c) /\ Reached("server") = ServerPlace13(c)
  BY <1>1, AtIs, FitsIs DEF Ends, Versions
<1>3. ~ c.ccsSent
  BY <1>2 DEF Server13Fits, ServerPlace13
<1>4. Goes
  <2> DEFINE s == [c EXCEPT !.ccsSent = TRUE]
             w == Written(s, Type(3), Body(u, 3), "CLIENT_HELLO")
  <2>1. /\ Reached("server") = 2
        /\ c.checksum = Transcript(u, 2)
    <3>1. ServerPlace13(c) = 2
      <4>1. c.state = "SERVER_CCS_AFTER_HELLO_RETRY_REQUEST"
        BY <1>2
      <4> QED
        BY <4>1 DEF ServerPlace13
    <3> QED
      BY <1>2, <1>3, <3>1 DEF Server13Fits, Retries, Signs
  <2>2. Turn(u, 2, 3, 3)
    BY <1>2, <1>3, Turns13 DEF Server13Fits, Retries, Signs
  <2>3. Write("server", s, Type(3), Body(u, 3), "CLIENT_HELLO")
    BY <1>2, <1>3, TypeIs DEF Body, tls13_write_change_cipher_spec, Retries, Signs, Server13Fits
  <2>4. /\ s \in Context /\ Stays([c EXCEPT !.ccsSent = TRUE], s) /\ s.checksum = c.checksum
        /\ s.keep = c.keep /\ s.msg = c.msg
        /\ 3 \notin PassedOver => s.outKey = Key(3)
    <3>1. 3 \notin PassedOver => s.outKey = Key(3)
      BY <1>2, <1>3, <2>1 DEF Context, Key, PassedOver, Server13Fits
    <3>2. /\ s \in Context /\ Stays([c EXCEPT !.ccsSent = TRUE], s) /\ s.checksum = c.checksum
          /\ s.keep = c.keep /\ s.msg = c.msg
      BY <1>2, <1>3 DEF Stays, Context, Keys
    <3> QED
      BY <3>1, <3>2
  <2>5. "CLIENT_HELLO" \in StateNames
    BY DEF StateNames, Client13States, Server13States, Client12States
  <2> HIDE DEF s, w
  <2>6. Stays(s, w) /\ w.state = "CLIENT_HELLO" /\ w.keep = s.keep /\ w.checksum = Transcript(u, 3)
    BY <1>2, <2>1, <2>2, <2>4, <2>5, SaysLine DEF w
  <2>7. Place("server", w) = 3 /\ FitsPlace(u, "server", w)
    <3>1. ServerPlace13(w) = 3
      BY <1>2, <1>3, <2>1, <2>4, <2>6 DEF Stays, Context, ServerPlace13, Server13Fits
    <3>2. Server13Fits(u, w)
      BY <1>2, <1>3, <2>1, <2>4, <2>6, <3>1 DEF Stays, Context, Server13Fits, Retries, Signs
    <3> QED
      BY <1>2, <2>1, <2>4, <2>6, <3>1, <3>2 DEF Stays, Context, Place, FitsPlace
  <2>8. Speaks("server", s, 2, 3, 3, "CLIENT_HELLO")
    BY <1>2, <2>1, <2>2, <2>3, <2>4, <2>5, <2>7 DEF Speaks, Stays, Context, w, Speaker
  <2> QED
    BY <1>2, <2>8, SpeaksGoes
<1> QED
  BY <1>4

\* The server says hello.
LEMMA ServerHelloWritten13Goes ==
    ASSUME IInv, InStep, tls13_write_server_hello
    PROVE  Goes
<1> DEFINE u == setup
           c == ssl["server"]
<1>1. At("server", "tls13", "SERVER_HELLO")
  BY DEF tls13_write_server_hello
<1>2. /\ "server" \in Ends /\ "tls13" \in Versions /\ u \in Setup /\ c \in Context
      /\ c.state = "SERVER_HELLO" /\ c.version = "tls13" /\ c.out = <<>> /\ c.result = "running"
      /\ Running("server")
      /\ Server13Fits(u, c) /\ Reached("server") = ServerPlace13(c)
  BY <1>1, AtIs, FitsIs DEF Ends, Versions
<1>3. Goes
  <2> DEFINE s == c
             w == Written(s, Type(6), Body(u, 6), "SERVER_CCS_AFTER_SERVER_HELLO")
  <2>1. /\ Reached("server") = 5
        /\ c.checksum = Transcript(u, 5)
    <3>1. ServerPlace13(c) = 5
      BY <1>2 DEF ServerPlace13
    <3> QED
      BY <1>2, <3>1 DEF Server13Fits, Retries, Signs
  <2>2. Turn(u, 5, 6, 6)
    BY <1>2, Turns13 DEF Server13Fits, Retries, Signs
  <2>3. Write("server", s, Type(6), Body(u, 6), "SERVER_CCS_AFTER_SERVER_HELLO")
    BY <1>2, TypeIs DEF Body, tls13_write_server_hello, Retries, Signs, Server13Fits
  <2>4. /\ s \in Context /\ Stays(c, s) /\ s.checksum = c.checksum
        /\ s.keep = c.keep /\ s.msg = c.msg
        /\ 6 \notin PassedOver => s.outKey = Key(6)
    <3>1. 6 \notin PassedOver => s.outKey = Key(6)
      BY <1>2, <2>1 DEF Context, Key, PassedOver, Server13Fits
    <3>2. /\ s \in Context /\ Stays(c, s) /\ s.checksum = c.checksum /\ s.keep = c.keep
          /\ s.msg = c.msg
      BY <1>2 DEF Stays, Context, Keys
    <3> QED
      BY <3>1, <3>2
  <2>5. "SERVER_CCS_AFTER_SERVER_HELLO" \in StateNames
    BY DEF StateNames, Client13States, Server13States, Client12States
  <2> HIDE DEF s, w
  <2>6. /\ Stays(s, w) /\ w.state = "SERVER_CCS_AFTER_SERVER_HELLO" /\ w.keep = s.keep
        /\ w.checksum = Transcript(u, 6)
    BY <1>2, <2>1, <2>2, <2>4, <2>5, SaysLine DEF w
  <2>7. Place("server", w) = 6 /\ FitsPlace(u, "server", w)
    <3>1. ServerPlace13(w) = 6
      BY <1>2, <2>1, <2>4, <2>6 DEF Stays, ServerPlace13, Server13Fits
    <3>2. Server13Fits(u, w)
      BY <1>2, <2>1, <2>4, <2>6, <3>1 DEF Stays, Server13Fits, Retries, Signs
    <3> QED
      BY <1>2, <2>1, <2>4, <2>6, <3>1, <3>2 DEF Stays, Place, FitsPlace
  <2>8. Speaks("server", s, 5, 6, 6, "SERVER_CCS_AFTER_SERVER_HELLO")
    BY <1>2, <2>1, <2>2, <2>3, <2>4, <2>5, <2>7 DEF Speaks, Stays, Context, w, Speaker
  <2> QED
    BY <1>2, <2>8, SpeaksGoes
<1> QED
  BY <1>3

\* The server says ChangeCipherSpec, unless it has done so before.
LEMMA ServerCcs2Goes ==
    ASSUME IInv, InStep,
           tls13_write_change_cipher_spec("server", "SERVER_CCS_AFTER_SERVER_HELLO", "ENCRYPTED_EXTENSIONS")
    PROVE  Goes
<1> DEFINE u == setup
           c == ssl["server"]
<1>1. At("server", "tls13", "SERVER_CCS_AFTER_SERVER_HELLO")
  BY DEF tls13_write_change_cipher_spec
<1>2. /\ "server" \in Ends /\ "tls13" \in Versions /\ u \in Setup /\ c \in Context
      /\ c.state = "SERVER_CCS_AFTER_SERVER_HELLO" /\ c.version = "tls13" /\ c.out = <<>>
      /\ c.result = "running" /\ Running("server")
      /\ Server13Fits(u, c) /\ Reached("server") = ServerPlace13(c)
  BY <1>1, AtIs, FitsIs DEF Ends, Versions
<1>3. c.ccsSent <=> u.shareRefused
  BY <1>2 DEF Server13Fits, ServerPlace13, Retries
<1>4. ASSUME u.shareRefused
      PROVE  Goes
  <2> DEFINE b == [c EXCEPT !.state = "ENCRYPTED_EXTENSIONS"]
  <2>1. /\ Reached("server") = 6
        /\ c.checksum = Transcript(u, 6)
    <3>1. ServerPlace13(c) = 6
      <4>1. c.state = "SERVER_CCS_AFTER_SERVER_HELLO"
        BY <1>2
      <4> QED
        BY <4>1 DEF ServerPlace13
    <3> QED
      BY <1>2, <1>3, <1>4, <3>1 DEF Server13Fits, Retries, Signs
  <2>2. Turn(u, 6, 7, 0)
    BY <1>2, <1>3, <1>4, Turns13 DEF Server13Fits, Retries, Signs
  <2>3. Transcript(u, 7) = Transcript(u, 6)
    BY <2>2, SaidIs
  <2>4. Become("server", b)
    BY <1>2, <1>3, <1>4 DEF tls13_write_change_cipher_spec, Go, Retries, Signs
  <2>5. /\ Stays(c, b) /\ b.state = "ENCRYPTED_EXTENSIONS" /\ b.keep = c.keep /\ b.msg = c.msg
        /\ b.checksum = c.checksum
    BY <1>2 DEF Stays, Context
  <2> HIDE DEF b
  <2>6. Place("server", b) = 7 /\ FitsPlace(u, "server", b)
    <3>1. ServerPlace13(b) = 7
      BY <1>2, <1>3, <1>4, <2>1, <2>3, <2>5 DEF Stays, ServerPlace13, Server13Fits
    <3>2. Server13Fits(u, b)
      BY <1>2, <1>3, <1>4, <2>1, <2>3, <2>5, <3>1 DEF Stays, Server13Fits, Retries, Signs
    <3> QED
      BY <1>2, <2>1, <2>3, <2>5, <3>1, <3>2 DEF Stays, Place, FitsPlace
  <2> QED
    BY <1>2, <2>1, <2>2, <2>4, <2>5, <2>6, BecomeGoes DEF Stays, Context
<1>5. ASSUME ~ u.shareRefused
      PROVE  Goes
  <2> DEFINE s == [c EXCEPT !.ccsSent = TRUE]
             w == Written(s, Type(7), Body(u, 7), "ENCRYPTED_EXTENSIONS")
  <2>1. /\ Reached("server") = 6
        /\ c.checksum = Transcript(u, 6)
    <3>1. ServerPlace13(c) = 6
      <4>1. c.state = "SERVER_CCS_AFTER_SERVER_HELLO"
        BY <1>2
      <4> QED
        BY <4>1 DEF ServerPlace13
    <3> QED
      BY <1>2, <1>3, <1>5, <3>1 DEF Server13Fits, Retries, Signs
  <2>2. Turn(u, 6, 7, 7)
    BY <1>2, <1>3, <1>5, Turns13 DEF Server13Fits, Retries, Signs
  <2>3. Write("server", s, Type(7), Body(u, 7), "ENCRYPTED_EXTENSIONS")
    BY <1>2, <1>3, <1>5, TypeIs DEF Body, tls13_write_change_cipher_spec, Retries, Signs,
       Server13Fits
  <2>4. /\ s \in Context /\ Stays([c EXCEPT !.ccsSent = TRUE], s) /\ s.checksum = c.checksum
        /\ s.keep = c.keep /\ s.msg = c.msg
        /\ 7 \notin PassedOver => s.outKey = Key(7)
    <3>1. 7 \notin PassedOver => s.outKey = Key(7)
      BY <1>2, <1>3, <1>5, <2>1 DEF Context, Key, PassedOver, Server13Fits
    <3>2. /\ s \in Context /\ Stays([c EXCEPT !.ccsSent = TRUE], s) /\ s.checksum = c.checksum
          /\ s.keep = c.keep /\ s.msg = c.msg
      BY <1>2, <1>3, <1>5 DEF Stays, Context, Keys
    <3> QED
      BY <3>1, <3>2
  <2>5. "ENCRYPTED_EXTENSIONS" \in StateNames
    BY DEF StateNames, Client13States, Server13States, Client12States
  <2> HIDE DEF s, w
  <2>6. /\ Stays(s, w) /\ w.state = "ENCRYPTED_EXTENSIONS" /\ w.keep = s.keep
        /\ w.checksum = Transcript(u, 7)
    BY <1>2, <2>1, <2>2, <2>4, <2>5, SaysLine DEF w
  <2>7. Place("server", w) = 7 /\ FitsPlace(u, "server", w)
    <3>1. ServerPlace13(w) = 7
      BY <1>2, <1>3, <1>5, <2>1, <2>4, <2>6 DEF Stays, Context, ServerPlace13, Server13Fits
    <3>2. Server13Fits(u, w)
      BY <1>2, <1>3, <1>5, <2>1, <2>4, <2>6, <3>1 DEF Stays, Context, Server13Fits, Retries, Signs
    <3> QED
      BY <1>2, <2>1, <2>4, <2>6, <3>1, <3>2 DEF Stays, Context, Place, FitsPlace
  <2>8. Speaks("server", s, 6, 7, 7, "ENCRYPTED_EXTENSIONS")
    BY <1>2, <2>1, <2>2, <2>3, <2>4, <2>5, <2>7 DEF Speaks, Stays, Context, w, Speaker
  <2> QED
    BY <1>2, <2>8, SpeaksGoes
<1> QED
  BY <1>2, <1>3, <1>4, <1>5

\* The server says EncryptedExtensions.
LEMMA EncryptedExtensionsWrittenGoes ==
    ASSUME IInv, InStep, tls13_write_encrypted_extensions
    PROVE  Goes
<1> DEFINE u == setup
           c == ssl["server"]
<1>1. At("server", "tls13", "ENCRYPTED_EXTENSIONS")
  BY DEF tls13_write_encrypted_extensions
<1>2. /\ "server" \in Ends /\ "tls13" \in Versions /\ u \in Setup /\ c \in Context
      /\ c.state = "ENCRYPTED_EXTENSIONS" /\ c.version = "tls13" /\ c.out = <<>>
      /\ c.result = "running" /\ Running("server")
      /\ Server13Fits(u, c) /\ Reached("server") = ServerPlace13(c)
  BY <1>1, AtIs, FitsIs DEF Ends, Versions
<1>3. Goes
  <2> DEFINE s == [c EXCEPT !.outKey = "handshake"]
             w == Written(s, Type(8), Body(u, 8), "CERTIFICATE_REQUEST")
  <2>1. /\ Reached("server") = 7
        /\ c.checksum = Transcript(u, 7)
    <3>1. ServerPlace13(c) = 7
      <4>1. c.state = "ENCRYPTED_EXTENSIONS"
        BY <1>2
      <4> QED
        BY <4>1 DEF ServerPlace13
    <3> QED
      BY <1>2, <3>1 DEF Server13Fits, Retries, Signs
  <2>2. Turn(u, 7, 8, 8)
    BY <1>2, Turns13 DEF Server13Fits, Retries, Signs
  <2>3. Write("server", s, Type(8), Body(u, 8), "CERTIFICATE_REQUEST")
    BY <1>2, TypeIs DEF Body, tls13_write_encrypted_extensions, Retries, Signs, Server13Fits
  <2>4. /\ s \in Context /\ Stays([c EXCEPT !.outKey = "handshake"], s) /\ s.checksum = c.checksum
        /\ s.keep = c.keep /\ s.msg = c.msg
        /\ 8 \notin PassedOver => s.outKey = Key(8)
    <3>1. 8 \notin PassedOver => s.outKey = Key(8)
      BY <1>2, <2>1 DEF Context, Key, PassedOver, Server13Fits
    <3>2. /\ s \in Context /\ Stays([c EXCEPT !.outKey = "handshake"], s) /\ s.checksum = c.checksum
          /\ s.keep = c.keep /\ s.msg = c.msg
      BY <1>2 DEF Stays, Context, Keys
    <3> QED
      BY <3>1, <3>2
  <2>5. "CERTIFICATE_REQUEST" \in StateNames
    BY DEF StateNames, Client13States, Server13States, Client12States
  <2> HIDE DEF s, w
  <2>6. /\ Stays(s, w) /\ w.state = "CERTIFICATE_REQUEST" /\ w.keep = s.keep
        /\ w.checksum = Transcript(u, 8)
    BY <1>2, <2>1, <2>2, <2>4, <2>5, SaysLine DEF w
  <2>7. Place("server", w) = 8 /\ FitsPlace(u, "server", w)
    <3>1. ServerPlace13(w) = 8
      BY <1>2, <2>1, <2>4, <2>6 DEF Stays, Context, ServerPlace13, Server13Fits
    <3>2. Server13Fits(u, w)
      BY <1>2, <2>1, <2>4, <2>6, <3>1 DEF Stays, Context, Server13Fits, Retries, Signs
    <3> QED
      BY <1>2, <2>1, <2>4, <2>6, <3>1, <3>2 DEF Stays, Context, Place, FitsPlace
  <2>8. Speaks("server", s, 7, 8, 8, "CERTIFICATE_REQUEST")
    BY <1>2, <2>1, <2>2, <2>3, <2>4, <2>5, <2>7 DEF Speaks, Stays, Context, w, Speaker
  <2> QED
    BY <1>2, <2>8, SpeaksGoes
<1> QED
  BY <1>3

\* The server asks for a certificate, if it wants one.
LEMMA CertificateRequestWritten13Goes ==
    ASSUME IInv, InStep, tls13_write_certificate_request
    PROVE  Goes
<1> DEFINE u == setup
           c == ssl["server"]
<1>1. At("server", "tls13", "CERTIFICATE_REQUEST")
  BY DEF tls13_write_certificate_request
<1>2. /\ "server" \in Ends /\ "tls13" \in Versions /\ u \in Setup /\ c \in Context
      /\ c.state = "CERTIFICATE_REQUEST" /\ c.version = "tls13" /\ c.out = <<>>
      /\ c.result = "running" /\ Running("server")
      /\ Server13Fits(u, c) /\ Reached("server") = ServerPlace13(c)
  BY <1>1, AtIs, FitsIs DEF Ends, Versions
<1>3. ASSUME Wanted(u)
      PROVE  Goes
  <2> DEFINE s == [c EXCEPT !.clientAuth = TRUE]
             w == Written(s, Type(9), Body(u, 9), "SERVER_CERTIFICATE")
  <2>1. /\ Reached("server") = 8
        /\ c.checksum = Transcript(u, 8)
    <3>1. ServerPlace13(c) = 8
      <4>1. c.state = "CERTIFICATE_REQUEST"
        BY <1>2
      <4> QED
        BY <4>1 DEF ServerPlace13
    <3> QED
      BY <1>2, <1>3, <3>1 DEF Server13Fits, Retries, Signs
  <2>2. Turn(u, 8, 9, 9)
    BY <1>2, <1>3, Turns13 DEF Server13Fits, Retries, Signs
  <2>3. Write("server", s, Type(9), Body(u, 9), "SERVER_CERTIFICATE")
    BY <1>2, <1>3, TypeIs DEF Body, tls13_write_certificate_request, Wanted, Retries, Signs,
       Server13Fits
  <2>4. /\ s \in Context /\ Stays([c EXCEPT !.clientAuth = TRUE], s) /\ s.checksum = c.checksum
        /\ s.keep = c.keep /\ s.msg = c.msg
        /\ 9 \notin PassedOver => s.outKey = Key(9)
    <3>1. 9 \notin PassedOver => s.outKey = Key(9)
      BY <1>2, <1>3, <2>1 DEF Context, Key, PassedOver, Server13Fits
    <3>2. /\ s \in Context /\ Stays([c EXCEPT !.clientAuth = TRUE], s) /\ s.checksum = c.checksum
          /\ s.keep = c.keep /\ s.msg = c.msg
      BY <1>2, <1>3 DEF Stays, Context, Keys
    <3> QED
      BY <3>1, <3>2
  <2>5. "SERVER_CERTIFICATE" \in StateNames
    BY DEF StateNames, Client13States, Server13States, Client12States
  <2> HIDE DEF s, w
  <2>6. /\ Stays(s, w) /\ w.state = "SERVER_CERTIFICATE" /\ w.keep = s.keep
        /\ w.checksum = Transcript(u, 9)
    BY <1>2, <2>1, <2>2, <2>4, <2>5, SaysLine DEF w
  <2>7. Place("server", w) = 9 /\ FitsPlace(u, "server", w)
    <3>1. ServerPlace13(w) = 9
      BY <1>2, <1>3, <2>1, <2>4, <2>6 DEF Stays, Context, ServerPlace13, Server13Fits
    <3>2. Server13Fits(u, w)
      BY <1>2, <1>3, <2>1, <2>4, <2>6, <3>1 DEF Stays, Context, Server13Fits, Retries, Signs
    <3> QED
      BY <1>2, <2>1, <2>4, <2>6, <3>1, <3>2 DEF Stays, Context, Place, FitsPlace
  <2>8. Speaks("server", s, 8, 9, 9, "SERVER_CERTIFICATE")
    BY <1>2, <2>1, <2>2, <2>3, <2>4, <2>5, <2>7 DEF Speaks, Stays, Context, w, Speaker
  <2> QED
    BY <1>2, <2>8, SpeaksGoes
<1>4. ASSUME ~ Wanted(u)
      PROVE  Goes
  <2> DEFINE b == [c EXCEPT !.state = "SERVER_CERTIFICATE"]
  <2>1. /\ Reached("server") = 8
        /\ c.checksum = Transcript(u, 8)
    <3>1. ServerPlace13(c) = 8
      <4>1. c.state = "CERTIFICATE_REQUEST"
        BY <1>2
      <4> QED
        BY <4>1 DEF ServerPlace13
    <3> QED
      BY <1>2, <1>4, <3>1 DEF Server13Fits, Retries, Signs
  <2>2. Turn(u, 8, 9, 0)
    BY <1>2, <1>4, Turns13 DEF Server13Fits, Retries, Signs
  <2>3. Transcript(u, 9) = Transcript(u, 8)
    BY <2>2, SaidIs
  <2>4. Become("server", b)
    BY <1>2, <1>4 DEF tls13_write_certificate_request, Go, Wanted, Retries, Signs
  <2>5. /\ Stays(c, b) /\ b.state = "SERVER_CERTIFICATE" /\ b.keep = c.keep /\ b.msg = c.msg
        /\ b.checksum = c.checksum
    BY <1>2 DEF Stays, Context
  <2> HIDE DEF b
  <2>6. Place("server", b) = 9 /\ FitsPlace(u, "server", b)
    <3>1. ServerPlace13(b) = 9
      BY <1>2, <1>4, <2>1, <2>3, <2>5 DEF Stays, ServerPlace13, Server13Fits
    <3>2. Server13Fits(u, b)
      BY <1>2, <1>4, <2>1, <2>3, <2>5, <3>1 DEF Stays, Server13Fits, Retries, Signs
    <3> QED
      BY <1>2, <2>1, <2>3, <2>5, <3>1, <3>2 DEF Stays, Place, FitsPlace
  <2> QED
    BY <1>2, <2>1, <2>2, <2>4, <2>5, <2>6, BecomeGoes DEF Stays, Context
<1> QED
  BY <1>2, <1>3, <1>4

\* The server says its certificate.
LEMMA ServerCertificateWritten13Goes ==
    ASSUME IInv, InStep, tls13_write_server_certificate
    PROVE  Goes
<1> DEFINE u == setup
           c == ssl["server"]
<1>1. At("server", "tls13", "SERVER_CERTIFICATE")
  BY DEF tls13_write_server_certificate
<1>2. /\ "server" \in Ends /\ "tls13" \in Versions /\ u \in Setup /\ c \in Context
      /\ c.state = "SERVER_CERTIFICATE" /\ c.version = "tls13" /\ c.out = <<>>
      /\ c.result = "running" /\ Running("server")
      /\ Server13Fits(u, c) /\ Reached("server") = ServerPlace13(c)
  BY <1>1, AtIs, FitsIs DEF Ends, Versions
<1>3. Goes
  <2> DEFINE s == c
             w == Written(s, Type(10), Body(u, 10), "CERTIFICATE_VERIFY")
  <2>1. /\ Reached("server") = 9
        /\ c.checksum = Transcript(u, 9)
    <3>1. ServerPlace13(c) = 9
      <4>1. c.state = "SERVER_CERTIFICATE"
        BY <1>2
      <4> QED
        BY <4>1 DEF ServerPlace13
    <3> QED
      BY <1>2, <3>1 DEF Server13Fits, Retries, Signs
  <2>2. Turn(u, 9, 10, 10)
    BY <1>2, Turns13 DEF Server13Fits, Retries, Signs
  <2>3. Write("server", s, Type(10), Body(u, 10), "CERTIFICATE_VERIFY")
    BY <1>2, TypeIs DEF Body, tls13_write_server_certificate, Retries, Signs, Server13Fits
  <2>4. /\ s \in Context /\ Stays(c, s) /\ s.checksum = c.checksum
        /\ s.keep = c.keep /\ s.msg = c.msg
        /\ 10 \notin PassedOver => s.outKey = Key(10)
    <3>1. 10 \notin PassedOver => s.outKey = Key(10)
      BY <1>2, <2>1 DEF Context, Key, PassedOver, Server13Fits
    <3>2. /\ s \in Context /\ Stays(c, s) /\ s.checksum = c.checksum /\ s.keep = c.keep
          /\ s.msg = c.msg
      BY <1>2 DEF Stays, Context, Keys
    <3> QED
      BY <3>1, <3>2
  <2>5. "CERTIFICATE_VERIFY" \in StateNames
    BY DEF StateNames, Client13States, Server13States, Client12States
  <2> HIDE DEF s, w
  <2>6. /\ Stays(s, w) /\ w.state = "CERTIFICATE_VERIFY" /\ w.keep = s.keep
        /\ w.checksum = Transcript(u, 10)
    BY <1>2, <2>1, <2>2, <2>4, <2>5, SaysLine DEF w
  <2>7. Place("server", w) = 10 /\ FitsPlace(u, "server", w)
    <3>1. ServerPlace13(w) = 10
      BY <1>2, <2>1, <2>4, <2>6 DEF Stays, ServerPlace13, Server13Fits
    <3>2. Server13Fits(u, w)
      BY <1>2, <2>1, <2>4, <2>6, <3>1 DEF Stays, Server13Fits, Retries, Signs
    <3> QED
      BY <1>2, <2>1, <2>4, <2>6, <3>1, <3>2 DEF Stays, Place, FitsPlace
  <2>8. Speaks("server", s, 9, 10, 10, "CERTIFICATE_VERIFY")
    BY <1>2, <2>1, <2>2, <2>3, <2>4, <2>5, <2>7 DEF Speaks, Stays, Context, w, Speaker
  <2> QED
    BY <1>2, <2>8, SpeaksGoes
<1> QED
  BY <1>3

\* The server says CertificateVerify.
LEMMA ServerCertificateVerifyWrittenGoes ==
    ASSUME IInv, InStep,
           tls13_write_certificate_verify("server", "CERTIFICATE_VERIFY", "SERVER_FINISHED")
    PROVE  Goes
<1> DEFINE u == setup
           c == ssl["server"]
<1>1. At("server", "tls13", "CERTIFICATE_VERIFY")
  BY DEF tls13_write_certificate_verify
<1>2. /\ "server" \in Ends /\ "tls13" \in Versions /\ u \in Setup /\ c \in Context
      /\ c.state = "CERTIFICATE_VERIFY" /\ c.version = "tls13" /\ c.out = <<>>
      /\ c.result = "running" /\ Running("server")
      /\ Server13Fits(u, c) /\ Reached("server") = ServerPlace13(c)
  BY <1>1, AtIs, FitsIs DEF Ends, Versions
<1>3. Goes
  <2> DEFINE s == c
             w == Written(s, Type(11), Body(u, 11), "SERVER_FINISHED")
  <2>1. /\ Reached("server") = 10
        /\ c.checksum = Transcript(u, 10)
    <3>1. ServerPlace13(c) = 10
      <4>1. c.state = "CERTIFICATE_VERIFY"
        BY <1>2
      <4> QED
        BY <4>1 DEF ServerPlace13
    <3> QED
      BY <1>2, <3>1 DEF Server13Fits, Retries, Signs
  <2>2. Turn(u, 10, 11, 11)
    BY <1>2, Turns13 DEF Server13Fits, Retries, Signs
  <2>3. Write("server", s, Type(11), Body(u, 11), "SERVER_FINISHED")
    BY <1>2, TypeIs DEF Body, tls13_write_certificate_verify, Retries, Signs, Server13Fits
  <2>4. /\ s \in Context /\ Stays(c, s) /\ s.checksum = c.checksum
        /\ s.keep = c.keep /\ s.msg = c.msg
        /\ 11 \notin PassedOver => s.outKey = Key(11)
    <3>1. 11 \notin PassedOver => s.outKey = Key(11)
      BY <1>2, <2>1 DEF Context, Key, PassedOver, Server13Fits
    <3>2. /\ s \in Context /\ Stays(c, s) /\ s.checksum = c.checksum /\ s.keep = c.keep
          /\ s.msg = c.msg
      BY <1>2 DEF Stays, Context, Keys
    <3> QED
      BY <3>1, <3>2
  <2>5. "SERVER_FINISHED" \in StateNames
    BY DEF StateNames, Client13States, Server13States, Client12States
  <2> HIDE DEF s, w
  <2>6. /\ Stays(s, w) /\ w.state = "SERVER_FINISHED" /\ w.keep = s.keep
        /\ w.checksum = Transcript(u, 11)
    BY <1>2, <2>1, <2>2, <2>4, <2>5, SaysLine DEF w
  <2>7. Place("server", w) = 11 /\ FitsPlace(u, "server", w)
    <3>1. ServerPlace13(w) = 11
      BY <1>2, <2>1, <2>4, <2>6 DEF Stays, ServerPlace13, Server13Fits
    <3>2. Server13Fits(u, w)
      BY <1>2, <2>1, <2>4, <2>6, <3>1 DEF Stays, Server13Fits, Retries, Signs
    <3> QED
      BY <1>2, <2>1, <2>4, <2>6, <3>1, <3>2 DEF Stays, Place, FitsPlace
  <2>8. Speaks("server", s, 10, 11, 11, "SERVER_FINISHED")
    BY <1>2, <2>1, <2>2, <2>3, <2>4, <2>5, <2>7 DEF Speaks, Stays, Context, w, Speaker
  <2> QED
    BY <1>2, <2>8, SpeaksGoes
<1> QED
  BY <1>3

\* The server says Finished.
LEMMA ServerFinishedWritten13Goes ==
    ASSUME IInv, InStep, tls13_write_server_finished
    PROVE  Goes
<1> DEFINE u == setup
           c == ssl["server"]
<1>1. At("server", "tls13", "SERVER_FINISHED")
  BY DEF tls13_write_server_finished
<1>2. /\ "server" \in Ends /\ "tls13" \in Versions /\ u \in Setup /\ c \in Context
      /\ c.state = "SERVER_FINISHED" /\ c.version = "tls13" /\ c.out = <<>> /\ c.result = "running"
      /\ Running("server")
      /\ Server13Fits(u, c) /\ Reached("server") = ServerPlace13(c)
  BY <1>1, AtIs, FitsIs DEF Ends, Versions
<1>3. c.clientAuth <=> Wanted(u)
  BY <1>2 DEF Server13Fits, ServerPlace13
<1>4. ASSUME Wanted(u)
      PROVE  Goes
  <2> DEFINE s == [c EXCEPT !.inKey = "handshake"]
             w == Written(s, Type(12), Body(u, 12), "CLIENT_CERTIFICATE")
  <2>1. /\ Reached("server") = 11
        /\ c.checksum = Transcript(u, 11)
    <3>1. ServerPlace13(c) = 11
      <4>1. c.state = "SERVER_FINISHED"
        BY <1>2
      <4> QED
        BY <4>1 DEF ServerPlace13
    <3> QED
      BY <1>2, <1>3, <1>4, <3>1 DEF Server13Fits, Retries, Signs
  <2>2. Turn(u, 11, 13, 12)
    BY <1>2, <1>3, <1>4, Turns13 DEF Server13Fits, Retries, Signs
  <2>3. Write("server", s, Type(12), Body(u, 12), "CLIENT_CERTIFICATE")
    BY <1>2, <1>3, <1>4, TypeIs DEF Body, tls13_write_server_finished, Retries, Signs, Server13Fits
  <2>4. /\ s \in Context /\ Stays([c EXCEPT !.inKey = "handshake"], s) /\ s.checksum = c.checksum
        /\ s.keep = c.keep /\ s.msg = c.msg
        /\ 12 \notin PassedOver => s.outKey = Key(12)
    <3>1. 12 \notin PassedOver => s.outKey = Key(12)
      BY <1>2, <1>3, <1>4, <2>1 DEF Context, Key, PassedOver, Server13Fits
    <3>2. /\ s \in Context /\ Stays([c EXCEPT !.inKey = "handshake"], s) /\ s.checksum = c.checksum
          /\ s.keep = c.keep /\ s.msg = c.msg
      BY <1>2, <1>3, <1>4 DEF Stays, Context, Keys
    <3> QED
      BY <3>1, <3>2
  <2>5. "CLIENT_CERTIFICATE" \in StateNames
    BY DEF StateNames, Client13States, Server13States, Client12States
  <2> HIDE DEF s, w
  <2>6. /\ Stays(s, w) /\ w.state = "CLIENT_CERTIFICATE" /\ w.keep = s.keep
        /\ w.checksum = Transcript(u, 13)
    BY <1>2, <2>1, <2>2, <2>4, <2>5, SaysLine DEF w
  <2>7. Place("server", w) = 13 /\ FitsPlace(u, "server", w)
    <3>1. ServerPlace13(w) = 13
      BY <1>2, <1>3, <1>4, <2>1, <2>4, <2>6 DEF Stays, Context, ServerPlace13, Server13Fits
    <3>2. Server13Fits(u, w)
      BY <1>2, <1>3, <1>4, <2>1, <2>4, <2>6, <3>1 DEF Stays, Context, Server13Fits, Retries, Signs
    <3> QED
      BY <1>2, <2>1, <2>4, <2>6, <3>1, <3>2 DEF Stays, Context, Place, FitsPlace
  <2>8. Speaks("server", s, 11, 13, 12, "CLIENT_CERTIFICATE")
    BY <1>2, <2>1, <2>2, <2>3, <2>4, <2>5, <2>7 DEF Speaks, Stays, Context, w, Speaker
  <2> QED
    BY <1>2, <2>8, SpeaksGoes
<1>5. ASSUME ~ Wanted(u)
      PROVE  Goes
  <2> DEFINE s == [c EXCEPT !.inKey = "handshake"]
             w == Written(s, Type(12), Body(u, 12), "CLIENT_FINISHED")
  <2>1. /\ Reached("server") = 11
        /\ c.checksum = Transcript(u, 11)
    <3>1. ServerPlace13(c) = 11
      <4>1. c.state = "SERVER_FINISHED"
        BY <1>2
      <4> QED
        BY <4>1 DEF ServerPlace13
    <3> QED
      BY <1>2, <1>3, <1>5, <3>1 DEF Server13Fits, Retries, Signs
  <2>2. Turn(u, 11, 15, 12)
    BY <1>2, <1>3, <1>5, Turns13 DEF Server13Fits, Retries, Signs
  <2>3. Write("server", s, Type(12), Body(u, 12), "CLIENT_FINISHED")
    BY <1>2, <1>3, <1>5, TypeIs DEF Body, tls13_write_server_finished, Retries, Signs, Server13Fits
  <2>4. /\ s \in Context /\ Stays([c EXCEPT !.inKey = "handshake"], s) /\ s.checksum = c.checksum
        /\ s.keep = c.keep /\ s.msg = c.msg
        /\ 12 \notin PassedOver => s.outKey = Key(12)
    <3>1. 12 \notin PassedOver => s.outKey = Key(12)
      BY <1>2, <1>3, <1>5, <2>1 DEF Context, Key, PassedOver, Server13Fits
    <3>2. /\ s \in Context /\ Stays([c EXCEPT !.inKey = "handshake"], s) /\ s.checksum = c.checksum
          /\ s.keep = c.keep /\ s.msg = c.msg
      BY <1>2, <1>3, <1>5 DEF Stays, Context, Keys
    <3> QED
      BY <3>1, <3>2
  <2>5. "CLIENT_FINISHED" \in StateNames
    BY DEF StateNames, Client13States, Server13States, Client12States
  <2> HIDE DEF s, w
  <2>6. /\ Stays(s, w) /\ w.state = "CLIENT_FINISHED" /\ w.keep = s.keep
        /\ w.checksum = Transcript(u, 15)
    BY <1>2, <2>1, <2>2, <2>4, <2>5, SaysLine DEF w
  <2>7. Place("server", w) = 15 /\ FitsPlace(u, "server", w)
    <3>1. ServerPlace13(w) = 15
      BY <1>2, <1>3, <1>5, <2>1, <2>4, <2>6 DEF Stays, Context, ServerPlace13, Server13Fits
    <3>2. Server13Fits(u, w)
      BY <1>2, <1>3, <1>5, <2>1, <2>4, <2>6, <3>1 DEF Stays, Context, Server13Fits, Retries, Signs
    <3> QED
      BY <1>2, <2>1, <2>4, <2>6, <3>1, <3>2 DEF Stays, Context, Place, FitsPlace
  <2>8. Speaks("server", s, 11, 15, 12, "CLIENT_FINISHED")
    BY <1>2, <2>1, <2>2, <2>3, <2>4, <2>5, <2>7 DEF Speaks, Stays, Context, w, Speaker
  <2> QED
    BY <1>2, <2>8, SpeaksGoes
<1> QED
  BY <1>2, <1>3, <1>4, <1>5

\* The server takes the client's certificate, does without one, or refuses it.
LEMMA ClientCertificateRead13Goes ==
    ASSUME IInv, InStep,
           tls13_process_certificate("server", "CLIENT_CERTIFICATE", "CLIENT_CERTIFICATE_VERIFY")
    PROVE  Goes
<1> DEFINE u == setup
           c == ssl["server"]
           r == Got("server")
           h == Hash13("server")
<1>1. Reads("server", "tls13", "CLIENT_CERTIFICATE")
  BY DEF tls13_process_certificate
<1>2. /\ "server" \in Ends /\ "tls13" \in Versions /\ u \in Setup /\ c \in Context
      /\ c.state = "CLIENT_CERTIFICATE" /\ c.version = "tls13" /\ c.out = <<>>
      /\ c.result = "running" /\ Running("server")
      /\ Server13Fits(u, c) /\ Reached("server") = ServerPlace13(c)
      /\ h \in Context /\ Stays(c, h) /\ ~ h.keep
      /\ h.checksum = Append(c.checksum, <<r.type, r.body>>)
  BY <1>1, ReadIs, FitsIs, TakenIs DEF Ends, Versions
<1> HIDE DEF h
<1>3. Wanted(u)
  BY <1>2 DEF Server13Fits
<1>4. /\ u.cert["client"] \in {"empty", "good", "bad"}
      /\ u.authmode["server"] \in {"none", "optional", "required"}
  BY <1>2 DEF Setup, Ends, Authmodes, Certificates
<1>5. ASSUME
             u.cert["client"] = "good" \/ (u.cert["client"] = "bad" /\ u.authmode["server"] # "required")
      PROVE  Goes
  <2> DEFINE s == [h EXCEPT !.peerCert = u.cert["client"]]
             b == [s EXCEPT !.state = "CLIENT_CERTIFICATE_VERIFY"]
  <2>1. /\ Reached("server") = 13 /\ NextLine(u, 13) = 14
        /\ c.checksum = Transcript(u, 13)
    <3>1. ServerPlace13(c) = 13
      <4>1. c.state = "CLIENT_CERTIFICATE"
        BY <1>2
      <4> QED
        BY <4>1 DEF ServerPlace13
    <3>2. NextLine(u, 13) = 14
      BY <1>2, <1>3, <1>4, <1>5 DEF NextLine, Next13, Server13Fits, Retries, Signs
    <3> QED
      BY <1>2, <1>3, <1>4, <1>5, <3>1, <3>2 DEF Server13Fits, Retries, Signs
  <2>2. Turn(u, 13, 14, 14)
    BY <1>2, <1>3, <1>4, <1>5, Turns13 DEF Server13Fits, Retries, Signs
  <2>3. r.type = Type(14) /\ r.body = Body(u, 14)
    BY <1>1, <1>2, <2>1, Hears
  <2>4. h.checksum = Transcript(u, 14)
    <3>1. Type(14) # "ChangeCipherSpec"
      BY TypeIs
    <3>2. Transcript(u, 14) = Append(Transcript(u, 13), <<Type(14), Body(u, 14)>>)
      BY <2>2, <3>1, SaidIs
    <3>3. h.checksum = Append(c.checksum, <<r.type, r.body>>)
      BY <1>2
    <3> QED
      BY <2>1, <2>3, <3>2, <3>3
  <2>5. Accept("server", s, "CLIENT_CERTIFICATE_VERIFY")
    <3>1. r.type = "Certificate" /\ r.body = u.cert["client"]
      <4>1. Type(14) = "Certificate" /\ Body(u, 14) = u.cert["client"]
        BY DEF Type, Body
      <4> QED
        BY <2>3, <4>1
    <3> QED
      BY <1>2, <1>3, <1>4, <1>5, <3>1 DEF tls13_process_certificate, Forgiven, h
  <2>6. /\ s \in Context /\ s.out = <<>> /\ s.result = "running" /\ ~ s.keep
        /\ Stays([c EXCEPT !.peerCert = u.cert["client"]], b)
        /\ b.state = "CLIENT_CERTIFICATE_VERIFY" /\ ~ b.keep /\ b.checksum = Transcript(u, 14)
    BY <1>2, <1>3, <1>4, <1>5, <2>1, <2>4 DEF Stays, Context, Certificates
  <2> HIDE DEF b, s
  <2>7. Place("server", b) = 14 /\ FitsPlace(u, "server", b)
    <3>1. ServerPlace13(b) = 14
      BY <1>2, <1>3, <1>4, <1>5, <2>1, <2>6 DEF Stays, Context, ServerPlace13, Server13Fits
    <3>2. Server13Fits(u, b)
      BY <1>2, <1>3, <1>4, <1>5, <2>1, <2>6, <3>1 DEF Stays, Context, Server13Fits, Retries, Signs
    <3> QED
      BY <1>2, <2>1, <2>6, <3>1, <3>2 DEF Stays, Context, Place, FitsPlace
  <2>8. "CLIENT_CERTIFICATE_VERIFY" \in StateNames \ {"HANDSHAKE_OVER"}
    BY DEF StateNames, Client13States, Server13States, Client12States
  <2> QED
    BY <1>1, <1>2, <2>1, <2>2, <2>5, <2>6, <2>7, <2>8, AcceptGoes DEF b
<1>6. ASSUME u.cert["client"] = "empty", u.authmode["server"] = "optional"
      PROVE  Goes
  <2> DEFINE s == [h EXCEPT !.peerCert = u.cert["client"]]
             b == [s EXCEPT !.state = "CLIENT_FINISHED"]
  <2>1. /\ Reached("server") = 13 /\ NextLine(u, 13) = 14
        /\ c.checksum = Transcript(u, 13)
    <3>1. ServerPlace13(c) = 13
      <4>1. c.state = "CLIENT_CERTIFICATE"
        BY <1>2
      <4> QED
        BY <4>1 DEF ServerPlace13
    <3>2. NextLine(u, 13) = 14
      BY <1>2, <1>3, <1>4, <1>6 DEF NextLine, Next13, Server13Fits, Retries, Signs
    <3> QED
      BY <1>2, <1>3, <1>4, <1>6, <3>1, <3>2 DEF Server13Fits, Retries, Signs
  <2>2. Turn(u, 13, 15, 14)
    BY <1>2, <1>3, <1>4, <1>6, Turns13 DEF Server13Fits, Retries, Signs
  <2>3. r.type = Type(14) /\ r.body = Body(u, 14)
    BY <1>1, <1>2, <2>1, Hears
  <2>4. h.checksum = Transcript(u, 15)
    <3>1. Type(14) # "ChangeCipherSpec"
      BY TypeIs
    <3>2. Transcript(u, 15) = Append(Transcript(u, 13), <<Type(14), Body(u, 14)>>)
      BY <2>2, <3>1, SaidIs
    <3>3. h.checksum = Append(c.checksum, <<r.type, r.body>>)
      BY <1>2
    <3> QED
      BY <2>1, <2>3, <3>2, <3>3
  <2>5. Accept("server", s, "CLIENT_FINISHED")
    <3>1. r.type = "Certificate" /\ r.body = u.cert["client"]
      <4>1. Type(14) = "Certificate" /\ Body(u, 14) = u.cert["client"]
        BY DEF Type, Body
      <4> QED
        BY <2>3, <4>1
    <3> QED
      BY <1>2, <1>3, <1>4, <1>6, <3>1 DEF tls13_process_certificate, Forgiven, h
  <2>6. /\ s \in Context /\ s.out = <<>> /\ s.result = "running" /\ ~ s.keep
        /\ Stays([c EXCEPT !.peerCert = u.cert["client"]], b) /\ b.state = "CLIENT_FINISHED"
        /\ ~ b.keep /\ b.checksum = Transcript(u, 15)
    BY <1>2, <1>3, <1>4, <1>6, <2>1, <2>4 DEF Stays, Context, Certificates
  <2> HIDE DEF b, s
  <2>7. Place("server", b) = 15 /\ FitsPlace(u, "server", b)
    <3>1. ServerPlace13(b) = 15
      BY <1>2, <1>3, <1>4, <1>6, <2>1, <2>6 DEF Stays, Context, ServerPlace13, Server13Fits
    <3>2. Server13Fits(u, b)
      BY <1>2, <1>3, <1>4, <1>6, <2>1, <2>6, <3>1 DEF Stays, Context, Server13Fits, Retries, Signs
    <3> QED
      BY <1>2, <2>1, <2>6, <3>1, <3>2 DEF Stays, Context, Place, FitsPlace
  <2>8. "CLIENT_FINISHED" \in StateNames \ {"HANDSHAKE_OVER"}
    BY DEF StateNames, Client13States, Server13States, Client12States
  <2> QED
    BY <1>1, <1>2, <2>1, <2>2, <2>5, <2>6, <2>7, <2>8, AcceptGoes DEF b
<1>7. ASSUME u.cert["client"] = "empty", u.authmode["server"] # "optional"
      PROVE  Goes
  <2>1. /\ Reached("server") = 13 /\ NextLine(u, 13) = 14
        /\ c.checksum = Transcript(u, 13)
    <3>1. ServerPlace13(c) = 13
      <4>1. c.state = "CLIENT_CERTIFICATE"
        BY <1>2
      <4> QED
        BY <4>1 DEF ServerPlace13
    <3>2. NextLine(u, 13) = 14
      BY <1>2, <1>3, <1>4, <1>7 DEF NextLine, Next13, Server13Fits, Retries, Signs
    <3> QED
      BY <1>2, <1>3, <1>4, <1>7, <3>1, <3>2 DEF Server13Fits, Retries, Signs
  <2>2. r.type = Type(14) /\ r.body = Body(u, 14)
    BY <1>1, <1>2, <2>1, Hears
  <2>3. Fail("server", "no_certificate", FatalAlert("server"))
    BY <1>2, <1>3, <1>4, <1>7, <2>2 DEF Body, Forgiven, Refuse, Quit, tls13_process_certificate
  <2>4. "no_certificate" \in Refusals /\ Explained("server", "no_certificate")
    BY <1>2, <1>3, <1>4, <1>7 DEF Refusals, Explained, Unacceptable, Asks, Other, Wanted
  <2>5. Takes("server") # {} /\ Has("server")
    BY <1>1 DEF Reads
  <2> QED
    BY <1>2, <2>3, <2>4, <2>5, FailGoes
<1>8. ASSUME u.cert["client"] = "bad", u.authmode["server"] = "required"
      PROVE  Goes
  <2>1. /\ Reached("server") = 13 /\ NextLine(u, 13) = 14
        /\ c.checksum = Transcript(u, 13)
    <3>1. ServerPlace13(c) = 13
      <4>1. c.state = "CLIENT_CERTIFICATE"
        BY <1>2
      <4> QED
        BY <4>1 DEF ServerPlace13
    <3>2. NextLine(u, 13) = 14
      BY <1>2, <1>3, <1>4, <1>8 DEF NextLine, Next13, Server13Fits, Retries, Signs
    <3> QED
      BY <1>2, <1>3, <1>4, <1>8, <3>1, <3>2 DEF Server13Fits, Retries, Signs
  <2>2. r.type = Type(14) /\ r.body = Body(u, 14)
    BY <1>1, <1>2, <2>1, Hears
  <2>3. Fail("server", "bad_certificate", FatalAlert("server"))
    BY <1>2, <1>3, <1>4, <1>8, <2>2 DEF Body, Forgiven, Refuse, Quit, tls13_process_certificate
  <2>4. "bad_certificate" \in Refusals /\ Explained("server", "bad_certificate")
    BY <1>2, <1>3, <1>4, <1>8 DEF Refusals, Explained, Unacceptable, Asks, Other
  <2>5. Takes("server") # {} /\ Has("server")
    BY <1>1 DEF Reads
  <2> QED
    BY <1>2, <2>3, <2>4, <2>5, FailGoes
<1> QED
  BY <1>2, <1>3, <1>4, <1>5, <1>6, <1>7, <1>8

\* The server takes the client's CertificateVerify.
LEMMA ClientCertificateVerifyRead13Goes ==
    ASSUME IInv, InStep,
           tls13_process_certificate_verify("server", "CLIENT_CERTIFICATE_VERIFY", "CLIENT_FINISHED")
    PROVE  Goes
<1> DEFINE u == setup
           c == ssl["server"]
           r == Got("server")
           h == Hash13("server")
<1>1. Reads("server", "tls13", "CLIENT_CERTIFICATE_VERIFY")
  BY DEF tls13_process_certificate_verify
<1>2. /\ "server" \in Ends /\ "tls13" \in Versions /\ u \in Setup /\ c \in Context
      /\ c.state = "CLIENT_CERTIFICATE_VERIFY" /\ c.version = "tls13" /\ c.out = <<>>
      /\ c.result = "running" /\ Running("server")
      /\ Server13Fits(u, c) /\ Reached("server") = ServerPlace13(c)
      /\ h \in Context /\ Stays(c, h) /\ ~ h.keep
      /\ h.checksum = Append(c.checksum, <<r.type, r.body>>)
  BY <1>1, ReadIs, FitsIs, TakenIs DEF Ends, Versions
<1> HIDE DEF h
<1>3. Goes
  <2> DEFINE s == h
             b == [s EXCEPT !.state = "CLIENT_FINISHED"]
  <2>1. /\ Reached("server") = 14 /\ NextLine(u, 14) = 15
        /\ c.checksum = Transcript(u, 14)
    <3>1. ServerPlace13(c) = 14
      <4>1. c.state = "CLIENT_CERTIFICATE_VERIFY"
        BY <1>2
      <4> QED
        BY <4>1 DEF ServerPlace13
    <3>2. NextLine(u, 14) = 15
      BY <1>2 DEF NextLine, Next13, Server13Fits, Retries, Signs
    <3> QED
      BY <1>2, <3>1, <3>2 DEF Server13Fits, Retries, Signs
  <2>2. Turn(u, 14, 15, 15)
    BY <1>2, Turns13 DEF Server13Fits, Retries, Signs
  <2>3. r.type = Type(15) /\ r.body = Body(u, 15)
    BY <1>1, <1>2, <2>1, Hears
  <2>4. Binds("server")
    <3>1. ~ c.keep
      BY <1>2, <2>1 DEF Server13Fits
    <3>2. r.type \in Bound
      BY <2>3, TypeIs DEF Bound
    <3> QED
      BY <1>1, <1>2, <2>1, <3>1, <3>2, Hears
  <2>5. h.checksum = Transcript(u, 15)
    <3>1. Type(15) # "ChangeCipherSpec"
      BY TypeIs
    <3>2. Transcript(u, 15) = Append(Transcript(u, 14), <<Type(15), Body(u, 15)>>)
      BY <2>2, <3>1, SaidIs
    <3>3. h.checksum = Append(c.checksum, <<r.type, r.body>>)
      BY <1>2
    <3> QED
      BY <2>1, <2>3, <3>2, <3>3
  <2>6. Accept("server", s, "CLIENT_FINISHED")
    BY <1>2, <2>3, <2>4, TypeIs DEF Body, tls13_process_certificate_verify, h
  <2>7. /\ s \in Context /\ s.out = <<>> /\ s.result = "running" /\ ~ s.keep
        /\ Stays(c, b) /\ b.state = "CLIENT_FINISHED" /\ ~ b.keep /\ b.checksum = Transcript(u, 15)
    BY <1>2, <2>1, <2>5 DEF Stays, Context
  <2> HIDE DEF b, s
  <2>8. Place("server", b) = 15 /\ FitsPlace(u, "server", b)
    <3>1. ServerPlace13(b) = 15
      BY <1>2, <2>1, <2>7 DEF Stays, ServerPlace13, Server13Fits
    <3>2. Server13Fits(u, b)
      BY <1>2, <2>1, <2>7, <3>1 DEF Stays, Server13Fits, Retries, Signs
    <3> QED
      BY <1>2, <2>1, <2>7, <3>1, <3>2 DEF Stays, Place, FitsPlace
  <2>9. "CLIENT_FINISHED" \in StateNames \ {"HANDSHAKE_OVER"}
    BY DEF StateNames, Client13States, Server13States, Client12States
  <2> QED
    BY <1>1, <1>2, <2>1, <2>2, <2>6, <2>7, <2>8, <2>9, AcceptGoes DEF b
<1> QED
  BY <1>3

\* The server takes the client's Finished.
LEMMA ClientFinishedRead13Goes ==
    ASSUME IInv, InStep, tls13_process_client_finished
    PROVE  Goes
<1> DEFINE u == setup
           c == ssl["server"]
           r == Got("server")
           h == Hash13("server")
<1>1. Reads("server", "tls13", "CLIENT_FINISHED")
  BY DEF tls13_process_client_finished
<1>2. /\ "server" \in Ends /\ "tls13" \in Versions /\ u \in Setup /\ c \in Context
      /\ c.state = "CLIENT_FINISHED" /\ c.version = "tls13" /\ c.out = <<>> /\ c.result = "running"
      /\ Running("server")
      /\ Server13Fits(u, c) /\ Reached("server") = ServerPlace13(c)
      /\ h \in Context /\ Stays(c, h) /\ ~ h.keep
      /\ h.checksum = Append(c.checksum, <<r.type, r.body>>)
  BY <1>1, ReadIs, FitsIs, TakenIs DEF Ends, Versions
<1> HIDE DEF h
<1>3. Goes
  <2> DEFINE s == h
             b == [s EXCEPT !.state = "HANDSHAKE_WRAPUP"]
  <2>1. /\ Reached("server") = 15 /\ NextLine(u, 15) = 16
        /\ c.checksum = Transcript(u, 15)
    <3>1. ServerPlace13(c) = 15
      <4>1. c.state = "CLIENT_FINISHED"
        BY <1>2
      <4> QED
        BY <4>1 DEF ServerPlace13
    <3>2. NextLine(u, 15) = 16
      BY <1>2 DEF NextLine, Next13, Server13Fits, Retries, Signs
    <3> QED
      BY <1>2, <3>1, <3>2 DEF Server13Fits, Retries, Signs
  <2>2. Turn(u, 15, 16, 16)
    BY <1>2, Turns13 DEF Server13Fits, Retries, Signs
  <2>3. r.type = Type(16) /\ r.body = Body(u, 16)
    BY <1>1, <1>2, <2>1, Hears
  <2>4. Binds("server")
    <3>1. ~ c.keep
      BY <1>2, <2>1 DEF Server13Fits
    <3>2. r.type \in Bound
      BY <2>3, TypeIs DEF Bound
    <3> QED
      BY <1>1, <1>2, <2>1, <3>1, <3>2, Hears
  <2>5. h.checksum = Transcript(u, 16)
    <3>1. Type(16) # "ChangeCipherSpec"
      BY TypeIs
    <3>2. Transcript(u, 16) = Append(Transcript(u, 15), <<Type(16), Body(u, 16)>>)
      BY <2>2, <3>1, SaidIs
    <3>3. h.checksum = Append(c.checksum, <<r.type, r.body>>)
      BY <1>2
    <3> QED
      BY <2>1, <2>3, <3>2, <3>3
  <2>6. Accept("server", s, "HANDSHAKE_WRAPUP")
    BY <1>2, <2>3, <2>4, TypeIs DEF Body, tls13_process_client_finished, h
  <2>7. /\ s \in Context /\ s.out = <<>> /\ s.result = "running" /\ ~ s.keep
        /\ Stays(c, b) /\ b.state = "HANDSHAKE_WRAPUP" /\ ~ b.keep /\ b.checksum = Transcript(u, 16)
    BY <1>2, <2>1, <2>5 DEF Stays, Context
  <2> HIDE DEF b, s
  <2>8. Place("server", b) = 16 /\ FitsPlace(u, "server", b)
    <3>1. ServerPlace13(b) = 16
      BY <1>2, <2>1, <2>7 DEF Stays, ServerPlace13, Server13Fits
    <3>2. Server13Fits(u, b)
      BY <1>2, <2>1, <2>7, <3>1 DEF Stays, Server13Fits, Retries, Signs
    <3> QED
      BY <1>2, <2>1, <2>7, <3>1, <3>2 DEF Stays, Place, FitsPlace
  <2>9. "HANDSHAKE_WRAPUP" \in StateNames \ {"HANDSHAKE_OVER"}
    BY DEF StateNames, Client13States, Server13States, Client12States
  <2> QED
    BY <1>1, <1>2, <2>1, <2>2, <2>6, <2>7, <2>8, <2>9, AcceptGoes DEF b
<1> QED
  BY <1>3

\* The server wraps up.
LEMMA ServerWrapup13Goes ==
    ASSUME IInv, InStep, tls13_handshake_wrapup("server")
    PROVE  Goes
<1> DEFINE u == setup
           c == ssl["server"]
<1>1. At("server", "tls13", "HANDSHAKE_WRAPUP")
  BY DEF tls13_handshake_wrapup
<1>2. /\ "server" \in Ends /\ "tls13" \in Versions /\ u \in Setup /\ c \in Context
      /\ c.state = "HANDSHAKE_WRAPUP" /\ c.version = "tls13" /\ c.out = <<>> /\ c.result = "running"
      /\ Running("server")
      /\ Server13Fits(u, c) /\ Reached("server") = ServerPlace13(c)
  BY <1>1, AtIs, FitsIs DEF Ends, Versions
<1>3. Goes
  <2> DEFINE b == [c EXCEPT !.inKey = "app", !.outKey = "app", !.state = "TLS1_3_NEW_SESSION_TICKET"]
  <2>1. /\ Reached("server") = 16
        /\ c.checksum = Transcript(u, 16)
    <3>1. ServerPlace13(c) = 16
      <4>1. c.state = "HANDSHAKE_WRAPUP"
        BY <1>2
      <4> QED
        BY <4>1 DEF ServerPlace13
    <3> QED
      BY <1>2, <3>1 DEF Server13Fits, Retries, Signs
  <2>2. Turn(u, 16, 16, 0)
    BY TurnStay DEF Places
  <2>3. Transcript(u, 16) = Transcript(u, 16)
    BY <2>2, SaidIs
  <2>4. Become("server", b)
    BY <1>2 DEF tls13_handshake_wrapup, Go, Retries, Signs
  <2>5. /\ Stays([c EXCEPT !.inKey = "app", !.outKey = "app"], b)
        /\ b.state = "TLS1_3_NEW_SESSION_TICKET" /\ b.keep = c.keep /\ b.msg = c.msg
        /\ b.checksum = c.checksum
    BY <1>2 DEF Stays, Context
  <2> HIDE DEF b
  <2>6. Place("server", b) = 16 /\ FitsPlace(u, "server", b)
    <3>1. ServerPlace13(b) = 16
      BY <1>2, <2>1, <2>3, <2>5 DEF Stays, Context, ServerPlace13, Server13Fits
    <3>2. Server13Fits(u, b)
      BY <1>2, <2>1, <2>3, <2>5, <3>1 DEF Stays, Context, Server13Fits, Retries, Signs
    <3> QED
      BY <1>2, <2>1, <2>3, <2>5, <3>1, <3>2 DEF Stays, Context, Place, FitsPlace
  <2> QED
    BY <1>2, <2>1, <2>2, <2>4, <2>5, <2>6, BecomeGoes DEF Stays, Context
<1> QED
  BY <1>3

\* The server has no ticket to say, and is over.
LEMMA Ticket13Goes ==
    ASSUME IInv, InStep, tls13_write_new_session_ticket
    PROVE  Goes
<1> DEFINE u == setup
           c == ssl["server"]
<1>1. At("server", "tls13", "TLS1_3_NEW_SESSION_TICKET")
  BY DEF tls13_write_new_session_ticket
<1>2. /\ "server" \in Ends /\ "tls13" \in Versions /\ u \in Setup /\ c \in Context
      /\ c.state = "TLS1_3_NEW_SESSION_TICKET" /\ c.version = "tls13" /\ c.out = <<>>
      /\ c.result = "running" /\ Running("server")
      /\ Server13Fits(u, c) /\ Reached("server") = ServerPlace13(c)
  BY <1>1, AtIs, FitsIs DEF Ends, Versions
<1>3. Goes
  <2> DEFINE b == [c EXCEPT !.state = "HANDSHAKE_OVER"]
  <2>1. /\ Reached("server") = 16
        /\ c.checksum = Transcript(u, 16)
    <3>1. ServerPlace13(c) = 16
      <4>1. c.state = "TLS1_3_NEW_SESSION_TICKET"
        BY <1>2
      <4> QED
        BY <4>1 DEF ServerPlace13
    <3> QED
      BY <1>2, <3>1 DEF Server13Fits, Retries, Signs
  <2>2. Turn(u, 16, 16, 0)
    BY TurnStay DEF Places
  <2>3. Transcript(u, 16) = Transcript(u, 16)
    BY <2>2, SaidIs
  <2>4. Become("server", b)
    BY <1>2 DEF tls13_write_new_session_ticket, Go, Retries, Signs
  <2>5. /\ Stays(c, b) /\ b.state = "HANDSHAKE_OVER" /\ b.keep = c.keep /\ b.msg = c.msg
        /\ b.checksum = c.checksum
    BY <1>2 DEF Stays, Context
  <2> HIDE DEF b
  <2>6. Place("server", b) = 16 /\ FitsPlace(u, "server", b)
    <3>1. ServerPlace13(b) = 16
      BY <1>2, <2>1, <2>3, <2>5 DEF Stays, ServerPlace13, Server13Fits
    <3>2. Server13Fits(u, b)
      BY <1>2, <2>1, <2>3, <2>5, <3>1 DEF Stays, Server13Fits, Retries, Signs
    <3> QED
      BY <1>2, <2>1, <2>3, <2>5, <3>1, <3>2 DEF Stays, Place, FitsPlace
  <2>7. FlightsAt(u, 16) = Total
    BY <1>2, FlightsAre DEF Server13Fits
  <2> QED
    BY <1>2, <2>1, <2>2, <2>4, <2>5, <2>6, <2>7, BecomeGoes DEF Stays, Context
<1> QED
  BY <1>3

\* The TLS 1.3 server, as a whole.
LEMMA Server13Goes ==
    ASSUME IInv, InStep, Server13
    PROVE  Goes
<1>1. CASE \/ tls13_process_client_hello
           \/ tls13_write_hello_retry_request
           \/ tls13_write_server_hello
           \/ tls13_write_encrypted_extensions
  BY <1>1, ClientHelloRead13Goes, HelloRetryRequestGoes, ServerHelloWritten13Goes,
     EncryptedExtensionsWrittenGoes
<1>2. CASE \/ tls13_write_certificate_request
           \/ tls13_write_server_certificate
           \/ tls13_write_certificate_verify("server", "CERTIFICATE_VERIFY", "SERVER_FINISHED")
           \/ tls13_write_server_finished
  BY <1>2, CertificateRequestWritten13Goes, ServerCertificateWritten13Goes,
     ServerCertificateVerifyWrittenGoes,
     ServerFinishedWritten13Goes
<1>3. CASE \/ tls13_process_certificate("server", "CLIENT_CERTIFICATE", "CLIENT_CERTIFICATE_VERIFY")
           \/ tls13_process_certificate_verify("server", "CLIENT_CERTIFICATE_VERIFY", "CLIENT_FINISHED")
           \/ tls13_process_client_finished
           \/ tls13_write_new_session_ticket
  BY <1>3, ClientCertificateRead13Goes, ClientCertificateVerifyRead13Goes,
     ClientFinishedRead13Goes, Ticket13Goes
<1>4. CASE \/ tls13_write_change_cipher_spec("server", "SERVER_CCS_AFTER_HELLO_RETRY_REQUEST",
                                              "CLIENT_HELLO")
           \/ tls13_write_change_cipher_spec("server", "SERVER_CCS_AFTER_SERVER_HELLO",
                                              "ENCRYPTED_EXTENSIONS")
  BY <1>4, ServerCcs1Goes, ServerCcs2Goes
<1> QED
  BY <1>1, <1>2, <1>3, <1>4 DEF Server13

-----------------------------------------------------------------------------
(* The TLS 1.2 client, in step.                                            *)

\* The client says hello in TLS 1.2.
LEMMA ClientHello12Goes ==
    ASSUME IInv, InStep, write_client_hello("tls12")
    PROVE  Goes
<1> DEFINE u == setup
           c == ssl["client"]
<1>1. At("client", "tls12", "CLIENT_HELLO")
  BY DEF write_client_hello
<1>2. /\ "client" \in Ends /\ "tls12" \in Versions /\ u \in Setup /\ c \in Context
      /\ c.state = "CLIENT_HELLO" /\ c.version = "tls12" /\ c.out = <<>> /\ c.result = "running"
      /\ Running("client")
      /\ Client12Fits(u, c) /\ Reached("client") = Place12(c)
  BY <1>1, AtIs, FitsIs DEF Ends, Versions
<1>3. u.clientMax = "tls12"
  BY <1>2 DEF Client12Fits, Place12
<1>4. Goes
  <2> DEFINE s == c
             w == Written(s, Type(1), Body(u, 1), "SERVER_HELLO")
  <2>1. /\ Reached("client") = 0
        /\ c.checksum = Transcript(u, 0) /\ ~ c.keep
    <3>1. Place12(c) = 0
      BY <1>2, <1>3 DEF Place12
    <3> QED
      BY <1>2, <1>3, <3>1 DEF Client12Fits, Retries, Signs
  <2>2. Turn(u, 0, 1, 1)
    BY <1>2, <1>3, Turns12 DEF Client12Fits, Retries, Signs
  <2>3. Write("client", s, Type(1), Body(u, 1), "SERVER_HELLO")
    BY <1>2, <1>3, TypeIs, Steps12 DEF Body, write_client_hello, ClientHelloBody, FirstHello,
       Retries, Signs,
       Client12Fits
  <2>4. /\ s \in Context /\ Stays(c, s) /\ s.checksum = c.checksum
        /\ s.keep = c.keep /\ s.msg = c.msg
        /\ 1 \notin PassedOver => s.outKey = Key(1)
    <3>1. 1 \notin PassedOver => s.outKey = Key(1)
      BY <1>2, <1>3, <2>1 DEF Context, Key, PassedOver, Client12Fits
    <3>2. /\ s \in Context /\ Stays(c, s) /\ s.checksum = c.checksum /\ s.keep = c.keep
          /\ s.msg = c.msg
      BY <1>2, <1>3 DEF Stays, Context, Keys
    <3> QED
      BY <3>1, <3>2
  <2>5. "SERVER_HELLO" \in StateNames
    BY DEF StateNames, Client13States, Server13States, Client12States
  <2> HIDE DEF s, w
  <2>6. Stays(s, w) /\ w.state = "SERVER_HELLO" /\ w.keep = s.keep /\ w.checksum = Transcript(u, 1)
    BY <1>2, <2>1, <2>2, <2>4, <2>5, SaysLine DEF w
  <2>7. Place("client", w) = 1 /\ FitsPlace(u, "client", w)
    <3>1. Place12(w) = 1
      BY <1>2, <1>3, <2>1, <2>4, <2>6 DEF Stays, Place12, Client12Fits
    <3>2. Client12Fits(u, w)
      BY <1>2, <1>3, <2>1, <2>4, <2>6, <3>1 DEF Stays, Client12Fits, Retries, Signs
    <3> QED
      BY <1>2, <2>1, <2>4, <2>6, <3>1, <3>2 DEF Stays, Place, FitsPlace
  <2>8. Speaks("client", s, 0, 1, 1, "SERVER_HELLO")
    BY <1>2, <2>1, <2>2, <2>3, <2>4, <2>5, <2>7 DEF Speaks, Stays, Context, w, Speaker
  <2> QED
    BY <1>2, <2>8, SpeaksGoes
<1> QED
  BY <1>4

\* The client takes the ServerHello, read now or by its TLS 1.3 code.
LEMMA ServerHello12Goes ==
    ASSUME IInv, InStep, tls12_parse_server_hello
    PROVE  Goes
<1> DEFINE u == setup
           c == ssl["client"]
           r == Got("client")
           h == Hash12("client")
<1>1. Reads("client", "tls12", "SERVER_HELLO")
  BY DEF tls12_parse_server_hello
<1>2. /\ "client" \in Ends /\ "tls12" \in Versions /\ u \in Setup /\ c \in Context
      /\ c.state = "SERVER_HELLO" /\ c.version = "tls12" /\ c.out = <<>> /\ c.result = "running"
      /\ Running("client")
      /\ Client12Fits(u, c) /\ Reached("client") = Place12(c)
      /\ h \in Context /\ Stays(c, h) /\ ~ h.keep
      /\ h.checksum = IF c.keep THEN c.checksum ELSE Append(c.checksum, <<r.type, r.body>>)
  BY <1>1, ReadIs, FitsIs, TakenIs DEF Ends, Versions
<1> HIDE DEF h
<1>3. Goes
  <2> DEFINE s == [h EXCEPT !.newTicket = u.ticket]
             b == [s EXCEPT !.state = "SERVER_CERTIFICATE"]
  <2>1. /\ Reached("client") = 1 /\ NextLine(u, 1) = 17
        /\ c.checksum = Transcript(u, IF c.keep THEN 17 ELSE 1)
    <3>1. Place12(c) = 1
      BY <1>2 DEF Place12
    <3>2. NextLine(u, 1) = 17
      BY <1>2 DEF NextLine, Next12, Client12Fits, Retries, Signs
    <3> QED
      BY <1>2, <3>1, <3>2 DEF Client12Fits, Retries, Signs
  <2>2. Turn(u, 1, 17, 17)
    BY <1>2, Turns12 DEF Client12Fits, Retries, Signs
  <2>3. r.type = Type(17) /\ r.body = Body(u, 17)
    BY <1>1, <1>2, <2>1, Hears
  <2>4. h.checksum = Transcript(u, 17)
    <3>1. Type(17) # "ChangeCipherSpec"
      BY TypeIs
    <3>2. Transcript(u, 17) = Append(Transcript(u, 1), <<Type(17), Body(u, 17)>>)
      BY <2>2, <3>1, SaidIs
    <3>3. CASE c.keep
      <4>1. h.checksum = c.checksum
        BY <1>2, <3>3
      <4> QED
        BY <2>1, <3>3, <4>1
    <3>4. CASE ~ c.keep
      <4>1. h.checksum = Append(c.checksum, <<r.type, r.body>>)
        BY <1>2, <3>4
      <4> QED
        BY <2>1, <2>3, <3>2, <3>4, <4>1
    <3> QED
      BY <3>3, <3>4
  <2>5. Accept("client", s, "SERVER_CERTIFICATE")
    BY <1>2, <2>3, TypeIs, Steps12 DEF Body, tls12_parse_server_hello, h
  <2>6. /\ s \in Context /\ s.out = <<>> /\ s.result = "running" /\ ~ s.keep
        /\ Stays([c EXCEPT !.newTicket = u.ticket], b) /\ b.state = "SERVER_CERTIFICATE" /\ ~ b.keep
        /\ b.checksum = Transcript(u, 17)
    BY <1>2, <2>1, <2>4 DEF Stays, Context, Setup
  <2> HIDE DEF b, s
  <2>7. Place("client", b) = 17 /\ FitsPlace(u, "client", b)
    <3>1. Place12(b) = 17
      BY <1>2, <2>1, <2>6 DEF Stays, Context, Place12, Client12Fits
    <3>2. Client12Fits(u, b)
      BY <1>2, <2>1, <2>6, <3>1 DEF Stays, Context, Client12Fits, Retries, Signs
    <3> QED
      BY <1>2, <2>1, <2>6, <3>1, <3>2 DEF Stays, Context, Place, FitsPlace
  <2>8. "SERVER_CERTIFICATE" \in StateNames \ {"HANDSHAKE_OVER"}
    BY DEF StateNames, Client13States, Server13States, Client12States
  <2> QED
    BY <1>1, <1>2, <2>1, <2>2, <2>5, <2>6, <2>7, <2>8, AcceptGoes DEF b
<1> QED
  BY <1>3

\* The client takes the server's certificate or refuses it.
LEMMA ServerCertificate12Goes ==
    ASSUME IInv, InStep, tls12_parse_certificate("client", "SERVER_CERTIFICATE")
    PROVE  Goes
<1> DEFINE u == setup
           c == ssl["client"]
           r == Got("client")
           h == Hash12("client")
<1>1. Reads("client", "tls12", "SERVER_CERTIFICATE")
  BY DEF tls12_parse_certificate
<1>2. /\ "client" \in Ends /\ "tls12" \in Versions /\ u \in Setup /\ c \in Context
      /\ c.state = "SERVER_CERTIFICATE" /\ c.version = "tls12" /\ c.out = <<>>
      /\ c.result = "running" /\ Running("client")
      /\ Client12Fits(u, c) /\ Reached("client") = Place12(c)
      /\ h \in Context /\ Stays(c, h) /\ ~ h.keep
      /\ h.checksum = IF c.keep THEN c.checksum ELSE Append(c.checksum, <<r.type, r.body>>)
  BY <1>1, ReadIs, FitsIs, TakenIs DEF Ends, Versions
<1> HIDE DEF h
<1>3. u.cert["server"] \in Certificates \ {"empty"}
  BY <1>2, ServerHasOne DEF Setup, Ends
<1>4. u.authmode["client"] \in {"none", "optional", "required"}
  BY <1>2 DEF Setup, Ends, Authmodes
<1>5. ASSUME u.cert["server"] = "good" \/ u.authmode["client"] # "required"
      PROVE  Goes
  <2> DEFINE s == [h EXCEPT !.peerCert = u.cert["server"]]
             b == [s EXCEPT !.state = "SERVER_KEY_EXCHANGE"]
  <2>1. /\ Reached("client") = 17 /\ NextLine(u, 17) = 18
        /\ c.checksum = Transcript(u, 17) /\ ~ c.keep
    <3>1. Place12(c) = 17
      <4>1. c.state = "SERVER_CERTIFICATE"
        BY <1>2
      <4> QED
        BY <4>1 DEF Place12
    <3>2. NextLine(u, 17) = 18
      BY <1>2, <1>3, <1>4, <1>5 DEF NextLine, Next12, Client12Fits, Retries, Signs
    <3> QED
      BY <1>2, <1>3, <1>4, <1>5, <3>1, <3>2 DEF Client12Fits, Retries, Signs
  <2>2. Turn(u, 17, 18, 18)
    BY <1>2, <1>3, <1>4, <1>5, Turns12 DEF Client12Fits, Retries, Signs
  <2>3. r.type = Type(18) /\ r.body = Body(u, 18)
    BY <1>1, <1>2, <2>1, Hears
  <2>4. h.checksum = Transcript(u, 18)
    <3>1. Type(18) # "ChangeCipherSpec"
      BY TypeIs
    <3>2. Transcript(u, 18) = Append(Transcript(u, 17), <<Type(18), Body(u, 18)>>)
      BY <2>2, <3>1, SaidIs
    <3>3. h.checksum = Append(c.checksum, <<r.type, r.body>>)
      BY <1>2, <2>1
    <3> QED
      BY <2>1, <2>3, <3>2, <3>3
  <2>5. Accept("client", s, "SERVER_KEY_EXCHANGE")
    <3>1. r.type = "Certificate" /\ r.body = u.cert["server"]
      <4>1. Type(18) = "Certificate" /\ Body(u, 18) = u.cert["server"]
        BY DEF Type, Body
      <4> QED
        BY <2>3, <4>1
    <3> QED
      BY <1>2, <1>3, <1>4, <1>5, <3>1, Steps12 DEF tls12_parse_certificate, Forgiven, h
  <2>6. /\ s \in Context /\ s.out = <<>> /\ s.result = "running" /\ ~ s.keep
        /\ Stays([c EXCEPT !.peerCert = u.cert["server"]], b) /\ b.state = "SERVER_KEY_EXCHANGE"
        /\ ~ b.keep /\ b.checksum = Transcript(u, 18)
    BY <1>2, <1>3, <1>4, <1>5, <2>1, <2>4 DEF Stays, Context
  <2> HIDE DEF b, s
  <2>7. Place("client", b) = 18 /\ FitsPlace(u, "client", b)
    <3>1. Place12(b) = 18
      BY <1>2, <1>3, <1>4, <1>5, <2>1, <2>6 DEF Stays, Context, Place12, Client12Fits
    <3>2. Client12Fits(u, b)
      BY <1>2, <1>3, <1>4, <1>5, <2>1, <2>6, <3>1 DEF Stays, Context, Client12Fits, Retries, Signs
    <3> QED
      BY <1>2, <2>1, <2>6, <3>1, <3>2 DEF Stays, Context, Place, FitsPlace
  <2>8. "SERVER_KEY_EXCHANGE" \in StateNames \ {"HANDSHAKE_OVER"}
    BY DEF StateNames, Client13States, Server13States, Client12States
  <2> QED
    BY <1>1, <1>2, <2>1, <2>2, <2>5, <2>6, <2>7, <2>8, AcceptGoes DEF b
<1>6. ASSUME ~ (u.cert["server"] = "good" \/ u.authmode["client"] # "required")
      PROVE  Goes
  <2>1. /\ Reached("client") = 17 /\ NextLine(u, 17) = 18
        /\ c.checksum = Transcript(u, 17) /\ ~ c.keep
    <3>1. Place12(c) = 17
      <4>1. c.state = "SERVER_CERTIFICATE"
        BY <1>2
      <4> QED
        BY <4>1 DEF Place12
    <3>2. NextLine(u, 17) = 18
      BY <1>2, <1>3, <1>4, <1>6 DEF NextLine, Next12, Client12Fits, Retries, Signs
    <3> QED
      BY <1>2, <1>3, <1>4, <1>6, <3>1, <3>2 DEF Client12Fits, Retries, Signs
  <2>2. r.type = Type(18) /\ r.body = Body(u, 18)
    BY <1>1, <1>2, <2>1, Hears
  <2>3. Fail("client", "bad_certificate", FatalAlert("client"))
    BY <1>2, <1>3, <1>4, <1>6, <2>2 DEF Body, Forgiven, Refuse, Quit, tls12_parse_certificate
  <2>4. "bad_certificate" \in Refusals /\ Explained("client", "bad_certificate")
    BY <1>2, <1>3, <1>4, <1>6 DEF Refusals, Explained, Unacceptable, Asks, Other
  <2>5. Takes("client") # {} /\ Has("client")
    BY <1>1 DEF Reads
  <2> QED
    BY <1>2, <2>3, <2>4, <2>5, FailGoes
<1> QED
  BY <1>2, <1>3, <1>4, <1>5, <1>6 DEF Retries, Signs

\* The client expects no ServerKeyExchange.
LEMMA NoKeyExchangeGoes ==
    ASSUME IInv, InStep, Skip12("client", "SERVER_KEY_EXCHANGE", setup.rsa)
    PROVE  Goes
<1> DEFINE u == setup
           c == ssl["client"]
<1>1. At("client", "tls12", "SERVER_KEY_EXCHANGE")
  BY DEF Skip12
<1>2. /\ "client" \in Ends /\ "tls12" \in Versions /\ u \in Setup /\ c \in Context
      /\ c.state = "SERVER_KEY_EXCHANGE" /\ c.version = "tls12" /\ c.out = <<>>
      /\ c.result = "running" /\ Running("client")
      /\ Client12Fits(u, c) /\ Reached("client") = Place12(c)
  BY <1>1, AtIs, FitsIs DEF Ends, Versions
<1>3. u.rsa
  BY DEF Skip12
<1>4. Goes
  <2> DEFINE b == [c EXCEPT !.state = "CERTIFICATE_REQUEST"]
  <2>1. /\ Reached("client") = 18
        /\ c.checksum = Transcript(u, 18) /\ ~ c.keep
    <3>1. Place12(c) = 18
      <4>1. c.state = "SERVER_KEY_EXCHANGE"
        BY <1>2
      <4> QED
        BY <4>1 DEF Place12
    <3> QED
      BY <1>2, <1>3, <3>1 DEF Client12Fits, Retries, Signs
  <2>2. Turn(u, 18, 19, 0)
    BY <1>2, <1>3, Turns12 DEF Client12Fits, Retries, Signs
  <2>3. Transcript(u, 19) = Transcript(u, 18)
    BY <2>2, SaidIs
  <2>4. Become("client", b)
    BY <1>2, <1>3, Steps12 DEF Skip12, Go, Retries, Signs
  <2>5. /\ Stays(c, b) /\ b.state = "CERTIFICATE_REQUEST" /\ b.keep = c.keep /\ b.msg = c.msg
        /\ b.checksum = c.checksum
    BY <1>2 DEF Stays, Context
  <2> HIDE DEF b
  <2>6. Place("client", b) = 19 /\ FitsPlace(u, "client", b)
    <3>1. Place12(b) = 19
      BY <1>2, <1>3, <2>1, <2>3, <2>5 DEF Stays, Place12, Client12Fits
    <3>2. Client12Fits(u, b)
      BY <1>2, <1>3, <2>1, <2>3, <2>5, <3>1 DEF Stays, Client12Fits, Retries, Signs
    <3> QED
      BY <1>2, <2>1, <2>3, <2>5, <3>1, <3>2 DEF Stays, Place, FitsPlace
  <2> QED
    BY <1>2, <2>1, <2>2, <2>4, <2>5, <2>6, BecomeGoes DEF Stays, Context
<1> QED
  BY <1>4

\* The client takes the ServerKeyExchange.
LEMMA ServerKeyExchangeGoes ==
    ASSUME IInv, InStep, Reads("client", "tls12", "SERVER_KEY_EXCHANGE"),
           Accept("client", Hash12("client"), "CERTIFICATE_REQUEST")
    PROVE  Goes
<1> DEFINE u == setup
           c == ssl["client"]
           r == Got("client")
           h == Hash12("client")
<1>1. Reads("client", "tls12", "SERVER_KEY_EXCHANGE")
  OBVIOUS
<1>2. /\ "client" \in Ends /\ "tls12" \in Versions /\ u \in Setup /\ c \in Context
      /\ c.state = "SERVER_KEY_EXCHANGE" /\ c.version = "tls12" /\ c.out = <<>>
      /\ c.result = "running" /\ Running("client")
      /\ Client12Fits(u, c) /\ Reached("client") = Place12(c)
      /\ h \in Context /\ Stays(c, h) /\ ~ h.keep
      /\ h.checksum = IF c.keep THEN c.checksum ELSE Append(c.checksum, <<r.type, r.body>>)
  BY <1>1, ReadIs, FitsIs, TakenIs DEF Ends, Versions
<1> HIDE DEF h
<1>3. ~ u.rsa
  BY <1>1, <1>2 DEF Reads, Takes, Takes12
<1>4. Goes
  <2> DEFINE s == h
             b == [s EXCEPT !.state = "CERTIFICATE_REQUEST"]
  <2>1. /\ Reached("client") = 18 /\ NextLine(u, 18) = 19
        /\ c.checksum = Transcript(u, 18) /\ ~ c.keep
    <3>1. Place12(c) = 18
      <4>1. c.state = "SERVER_KEY_EXCHANGE"
        BY <1>2
      <4> QED
        BY <4>1 DEF Place12
    <3>2. NextLine(u, 18) = 19
      BY <1>2, <1>3 DEF NextLine, Next12, Client12Fits, Retries, Signs
    <3> QED
      BY <1>2, <1>3, <3>1, <3>2 DEF Client12Fits, Retries, Signs
  <2>2. Turn(u, 18, 19, 19)
    BY <1>2, <1>3, Turns12 DEF Client12Fits, Retries, Signs
  <2>3. r.type = Type(19) /\ r.body = Body(u, 19)
    BY <1>1, <1>2, <2>1, Hears
  <2>4. h.checksum = Transcript(u, 19)
    <3>1. Type(19) # "ChangeCipherSpec"
      BY TypeIs
    <3>2. Transcript(u, 19) = Append(Transcript(u, 18), <<Type(19), Body(u, 19)>>)
      BY <2>2, <3>1, SaidIs
    <3>3. h.checksum = Append(c.checksum, <<r.type, r.body>>)
      BY <1>2, <2>1
    <3> QED
      BY <2>1, <2>3, <3>2, <3>3
  <2>5. Accept("client", s, "CERTIFICATE_REQUEST")
    BY <1>2, <1>3, <2>3, TypeIs, Steps12 DEF Body, h
  <2>6. /\ s \in Context /\ s.out = <<>> /\ s.result = "running" /\ ~ s.keep
        /\ Stays(c, b) /\ b.state = "CERTIFICATE_REQUEST" /\ ~ b.keep
        /\ b.checksum = Transcript(u, 19)
    BY <1>2, <1>3, <2>1, <2>4 DEF Stays, Context
  <2> HIDE DEF b, s
  <2>7. Place("client", b) = 19 /\ FitsPlace(u, "client", b)
    <3>1. Place12(b) = 19
      BY <1>2, <1>3, <2>1, <2>6 DEF Stays, Place12, Client12Fits
    <3>2. Client12Fits(u, b)
      BY <1>2, <1>3, <2>1, <2>6, <3>1 DEF Stays, Client12Fits, Retries, Signs
    <3> QED
      BY <1>2, <2>1, <2>6, <3>1, <3>2 DEF Stays, Place, FitsPlace
  <2>8. "CERTIFICATE_REQUEST" \in StateNames \ {"HANDSHAKE_OVER"}
    BY DEF StateNames, Client13States, Server13States, Client12States
  <2> QED
    BY <1>1, <1>2, <2>1, <2>2, <2>5, <2>6, <2>7, <2>8, AcceptGoes DEF b
<1> QED
  BY <1>4

\* The client takes a CertificateRequest, or the message in its place.
LEMMA CertificateRequest12Goes ==
    ASSUME IInv, InStep, tls12_parse_certificate_request
    PROVE  Goes
<1> DEFINE u == setup
           c == ssl["client"]
           r == Got("client")
           h == Hash12("client")
<1>1. Reads("client", "tls12", "CERTIFICATE_REQUEST")
  BY DEF tls12_parse_certificate_request
<1>2. /\ "client" \in Ends /\ "tls12" \in Versions /\ u \in Setup /\ c \in Context
      /\ c.state = "CERTIFICATE_REQUEST" /\ c.version = "tls12" /\ c.out = <<>>
      /\ c.result = "running" /\ Running("client")
      /\ Client12Fits(u, c) /\ Reached("client") = Place12(c)
      /\ h \in Context /\ Stays(c, h) /\ ~ h.keep
      /\ h.checksum = IF c.keep THEN c.checksum ELSE Append(c.checksum, <<r.type, r.body>>)
  BY <1>1, ReadIs, FitsIs, TakenIs DEF Ends, Versions
<1> HIDE DEF h
<1>3. ASSUME Wanted(u)
      PROVE  Goes
  <2> DEFINE s == [h EXCEPT !.clientAuth = TRUE]
             b == [s EXCEPT !.state = "SERVER_HELLO_DONE"]
  <2>1. /\ Reached("client") = 19 /\ NextLine(u, 19) = 20
        /\ c.checksum = Transcript(u, 19) /\ ~ c.keep
    <3>1. Place12(c) = 19
      <4>1. c.state = "CERTIFICATE_REQUEST"
        BY <1>2
      <4> QED
        BY <4>1 DEF Place12
    <3>2. NextLine(u, 19) = 20
      BY <1>2, <1>3 DEF NextLine, Next12, Client12Fits, Retries, Signs
    <3> QED
      BY <1>2, <1>3, <3>1, <3>2 DEF Client12Fits, Retries, Signs
  <2>2. Turn(u, 19, 20, 20)
    BY <1>2, <1>3, Turns12 DEF Client12Fits, Retries, Signs
  <2>3. r.type = Type(20) /\ r.body = Body(u, 20)
    BY <1>1, <1>2, <2>1, Hears
  <2>4. h.checksum = Transcript(u, 20)
    <3>1. Type(20) # "ChangeCipherSpec"
      BY TypeIs
    <3>2. Transcript(u, 20) = Append(Transcript(u, 19), <<Type(20), Body(u, 20)>>)
      BY <2>2, <3>1, SaidIs
    <3>3. h.checksum = Append(c.checksum, <<r.type, r.body>>)
      BY <1>2, <2>1
    <3> QED
      BY <2>1, <2>3, <3>2, <3>3
  <2>5. Accept("client", s, "SERVER_HELLO_DONE")
    BY <1>2, <1>3, <2>3, TypeIs, Steps12 DEF Body, tls12_parse_certificate_request, h
  <2>6. /\ s \in Context /\ s.out = <<>> /\ s.result = "running" /\ ~ s.keep
        /\ Stays([c EXCEPT !.clientAuth = TRUE], b) /\ b.state = "SERVER_HELLO_DONE" /\ ~ b.keep
        /\ b.checksum = Transcript(u, 20)
    BY <1>2, <1>3, <2>1, <2>4 DEF Stays, Context
  <2> HIDE DEF b, s
  <2>7. Place("client", b) = 20 /\ FitsPlace(u, "client", b)
    <3>1. Place12(b) = 20
      BY <1>2, <1>3, <2>1, <2>6 DEF Stays, Context, Place12, Client12Fits
    <3>2. Client12Fits(u, b)
      BY <1>2, <1>3, <2>1, <2>6, <3>1 DEF Stays, Context, Client12Fits, Retries, Signs
    <3> QED
      BY <1>2, <2>1, <2>6, <3>1, <3>2 DEF Stays, Context, Place, FitsPlace
  <2>8. "SERVER_HELLO_DONE" \in StateNames \ {"HANDSHAKE_OVER"}
    BY DEF StateNames, Client13States, Server13States, Client12States
  <2> QED
    BY <1>1, <1>2, <2>1, <2>2, <2>5, <2>6, <2>7, <2>8, AcceptGoes DEF b
<1>4. ASSUME ~ Wanted(u)
      PROVE  Goes
  <2> DEFINE s == h
             b == [s EXCEPT !.state = "SERVER_HELLO_DONE", !.keep = TRUE, !.msg = r]
  <2>1. /\ Reached("client") = 19 /\ NextLine(u, 19) = 21
        /\ c.checksum = Transcript(u, 19) /\ ~ c.keep
    <3>1. Place12(c) = 19
      <4>1. c.state = "CERTIFICATE_REQUEST"
        BY <1>2
      <4> QED
        BY <4>1 DEF Place12
    <3>2. NextLine(u, 19) = 21
      BY <1>2, <1>4 DEF NextLine, Next12, Client12Fits, Retries, Signs
    <3> QED
      BY <1>2, <1>4, <3>1, <3>2 DEF Client12Fits, Retries, Signs
  <2>2. Turn(u, 19, 20, 0)
    BY <1>2, <1>4, Turns12 DEF Client12Fits, Retries, Signs
  <2>3. r.type = Type(21) /\ r.body = Body(u, 21)
    BY <1>1, <1>2, <2>1, Hears
  <2>4. h.checksum = Transcript(u, 21)
    <3>1. Turn(u, 19, 21, 21)
      BY <1>2, <1>4, Turns12 DEF Client12Fits
    <3>2. Transcript(u, 21) = Append(Transcript(u, 19), <<Type(21), Body(u, 21)>>)
      <4>1. Type(21) # "ChangeCipherSpec"
        BY TypeIs
      <4> QED
        BY <3>1, <4>1, SaidIs
    <3>3. CASE c.keep
      <4>1. h.checksum = c.checksum
        BY <1>2, <3>3
      <4> QED
        BY <2>1, <3>3, <4>1
    <3>4. CASE ~ c.keep
      <4>1. h.checksum = Append(c.checksum, <<r.type, r.body>>)
        BY <1>2, <3>4
      <4> QED
        BY <2>1, <2>3, <3>2, <3>4, <4>1
    <3> QED
      BY <3>3, <3>4
  <2>5. Keep("client", s, "SERVER_HELLO_DONE")
    BY <1>2, <1>4, <2>3, TypeIs, Steps12 DEF Body, tls12_parse_certificate_request, h
  <2>6. /\ s \in Context /\ s.out = <<>> /\ s.result = "running"
        /\ Stays(c, b) /\ b.state = "SERVER_HELLO_DONE" /\ b.keep /\ b.checksum = Transcript(u, 21)
    BY <1>2, <1>4, <2>1, <2>4 DEF Stays, Context
  <2> HIDE DEF b, s
  <2>7. Place("client", b) = 20 /\ FitsPlace(u, "client", b)
    <3>1. Place12(b) = 20
      BY <1>2, <1>4, <2>1, <2>6 DEF Stays, Place12, Client12Fits
    <3>2. Client12Fits(u, b)
      BY <1>2, <1>4, <2>1, <2>6, <3>1 DEF Stays, Client12Fits, Retries, Signs, NextLine, Next12
    <3> QED
      BY <1>2, <2>1, <2>6, <3>1, <3>2 DEF Stays, Place, FitsPlace
  <2>8. "SERVER_HELLO_DONE" \in StateNames \ {"HANDSHAKE_OVER"}
    BY DEF StateNames, Client13States, Server13States, Client12States
  <2> QED
    BY <1>1, <1>2, <2>1, <2>2, <2>5, <2>6, <2>7, <2>8, KeepGoes DEF b
<1> QED
  BY <1>2, <1>3, <1>4

\* The client takes the ServerHelloDone, read now or before.
LEMMA ServerHelloDone12Goes ==
    ASSUME IInv, InStep, tls12_parse_server_hello_done
    PROVE  Goes
<1> DEFINE u == setup
           c == ssl["client"]
           r == Got("client")
           h == Hash12("client")
<1>1. Reads("client", "tls12", "SERVER_HELLO_DONE")
  BY DEF tls12_parse_server_hello_done
<1>2. /\ "client" \in Ends /\ "tls12" \in Versions /\ u \in Setup /\ c \in Context
      /\ c.state = "SERVER_HELLO_DONE" /\ c.version = "tls12" /\ c.out = <<>>
      /\ c.result = "running" /\ Running("client")
      /\ Client12Fits(u, c) /\ Reached("client") = Place12(c)
      /\ h \in Context /\ Stays(c, h) /\ ~ h.keep
      /\ h.checksum = IF c.keep THEN c.checksum ELSE Append(c.checksum, <<r.type, r.body>>)
  BY <1>1, ReadIs, FitsIs, TakenIs DEF Ends, Versions
<1> HIDE DEF h
<1>3. Goes
  <2> DEFINE s == h
             b == [s EXCEPT !.state = "CLIENT_CERTIFICATE"]
  <2>1. /\ Reached("client") = 20 /\ NextLine(u, 20) = 21
        /\ c.checksum = Transcript(u, IF c.keep THEN 21 ELSE 20)
    <3>1. Place12(c) = 20
      <4>1. c.state = "SERVER_HELLO_DONE"
        BY <1>2
      <4> QED
        BY <4>1 DEF Place12
    <3>2. NextLine(u, 20) = 21
      BY <1>2 DEF NextLine, Next12, Client12Fits, Retries, Signs
    <3> QED
      BY <1>2, <3>1, <3>2 DEF Client12Fits, Retries, Signs
  <2>2. Turn(u, 20, 21, 21)
    BY <1>2, Turns12 DEF Client12Fits, Retries, Signs
  <2>3. r.type = Type(21) /\ r.body = Body(u, 21)
    BY <1>1, <1>2, <2>1, Hears
  <2>4. h.checksum = Transcript(u, 21)
    <3>1. Type(21) # "ChangeCipherSpec"
      BY TypeIs
    <3>2. Transcript(u, 21) = Append(Transcript(u, 20), <<Type(21), Body(u, 21)>>)
      BY <2>2, <3>1, SaidIs
    <3>3. CASE c.keep
      <4>1. h.checksum = c.checksum
        BY <1>2, <3>3
      <4> QED
        BY <2>1, <3>3, <4>1
    <3>4. CASE ~ c.keep
      <4>1. h.checksum = Append(c.checksum, <<r.type, r.body>>)
        BY <1>2, <3>4
      <4> QED
        BY <2>1, <2>3, <3>2, <3>4, <4>1
    <3> QED
      BY <3>3, <3>4
  <2>5. Accept("client", s, "CLIENT_CERTIFICATE")
    BY <1>2, <2>3, TypeIs, Steps12 DEF Body, tls12_parse_server_hello_done, h
  <2>6. /\ s \in Context /\ s.out = <<>> /\ s.result = "running" /\ ~ s.keep
        /\ Stays(c, b) /\ b.state = "CLIENT_CERTIFICATE" /\ ~ b.keep
        /\ b.checksum = Transcript(u, 21)
    BY <1>2, <2>1, <2>4 DEF Stays, Context
  <2> HIDE DEF b, s
  <2>7. Place("client", b) = 21 /\ FitsPlace(u, "client", b)
    <3>1. Place12(b) = 21
      BY <1>2, <2>1, <2>6 DEF Stays, Place12, Client12Fits
    <3>2. Client12Fits(u, b)
      BY <1>2, <2>1, <2>6, <3>1 DEF Stays, Client12Fits, Retries, Signs
    <3> QED
      BY <1>2, <2>1, <2>6, <3>1, <3>2 DEF Stays, Place, FitsPlace
  <2>8. "CLIENT_CERTIFICATE" \in StateNames \ {"HANDSHAKE_OVER"}
    BY DEF StateNames, Client13States, Server13States, Client12States
  <2> QED
    BY <1>1, <1>2, <2>1, <2>2, <2>5, <2>6, <2>7, <2>8, AcceptGoes DEF b
<1> QED
  BY <1>3

\* The client was not asked for a certificate.
LEMMA NotAsked12Goes ==
    ASSUME IInv, InStep, Skip12("client", "CLIENT_CERTIFICATE", ~ ssl["client"].clientAuth)
    PROVE  Goes
<1> DEFINE u == setup
           c == ssl["client"]
<1>1. At("client", "tls12", "CLIENT_CERTIFICATE")
  BY DEF Skip12
<1>2. /\ "client" \in Ends /\ "tls12" \in Versions /\ u \in Setup /\ c \in Context
      /\ c.state = "CLIENT_CERTIFICATE" /\ c.version = "tls12" /\ c.out = <<>>
      /\ c.result = "running" /\ Running("client")
      /\ Client12Fits(u, c) /\ Reached("client") = Place12(c)
  BY <1>1, AtIs, FitsIs DEF Ends, Versions
<1>3. ~ c.clientAuth
  BY DEF Skip12
<1>4. ~ Wanted(u)
  BY <1>2, <1>3 DEF Client12Fits, Place12
<1>5. Goes
  <2> DEFINE b == [c EXCEPT !.state = "CLIENT_KEY_EXCHANGE"]
  <2>1. /\ Reached("client") = 21
        /\ c.checksum = Transcript(u, 21) /\ ~ c.keep
    <3>1. Place12(c) = 21
      <4>1. c.state = "CLIENT_CERTIFICATE"
        BY <1>2
      <4> QED
        BY <4>1 DEF Place12
    <3> QED
      BY <1>2, <1>3, <1>4, <3>1 DEF Client12Fits, Retries, Signs
  <2>2. Turn(u, 21, 22, 0)
    BY <1>2, <1>3, <1>4, Turns12 DEF Client12Fits, Retries, Signs
  <2>3. Transcript(u, 22) = Transcript(u, 21)
    BY <2>2, SaidIs
  <2>4. Become("client", b)
    BY <1>2, <1>3, <1>4, Steps12 DEF Skip12, Go, Retries, Signs
  <2>5. /\ Stays(c, b) /\ b.state = "CLIENT_KEY_EXCHANGE" /\ b.keep = c.keep /\ b.msg = c.msg
        /\ b.checksum = c.checksum
    BY <1>2 DEF Stays, Context
  <2> HIDE DEF b
  <2>6. Place("client", b) = 22 /\ FitsPlace(u, "client", b)
    <3>1. Place12(b) = 22
      BY <1>2, <1>3, <1>4, <2>1, <2>3, <2>5 DEF Stays, Place12, Client12Fits
    <3>2. Client12Fits(u, b)
      BY <1>2, <1>3, <1>4, <2>1, <2>3, <2>5, <3>1 DEF Stays, Client12Fits, Retries, Signs
    <3> QED
      BY <1>2, <2>1, <2>3, <2>5, <3>1, <3>2 DEF Stays, Place, FitsPlace
  <2> QED
    BY <1>2, <2>1, <2>2, <2>4, <2>5, <2>6, BecomeGoes DEF Stays, Context
<1> QED
  BY <1>5

\* The client says its certificate.
LEMMA ClientCertificate12Goes ==
    ASSUME IInv, InStep, ssl["client"].clientAuth,
           Write12("client", "CLIENT_CERTIFICATE", "Certificate", setup.cert["client"])
    PROVE  Goes
<1> DEFINE u == setup
           c == ssl["client"]
<1>1. At("client", "tls12", "CLIENT_CERTIFICATE")
  BY DEF Write12
<1>2. /\ "client" \in Ends /\ "tls12" \in Versions /\ u \in Setup /\ c \in Context
      /\ c.state = "CLIENT_CERTIFICATE" /\ c.version = "tls12" /\ c.out = <<>>
      /\ c.result = "running" /\ Running("client")
      /\ Client12Fits(u, c) /\ Reached("client") = Place12(c)
  BY <1>1, AtIs, FitsIs DEF Ends, Versions
<1>3. Wanted(u)
  BY <1>2 DEF Client12Fits, Place12
<1>4. Goes
  <2> DEFINE s == c
             w == Written(s, Type(22), Body(u, 22), "CLIENT_KEY_EXCHANGE")
  <2>1. /\ Reached("client") = 21
        /\ c.checksum = Transcript(u, 21) /\ ~ c.keep
    <3>1. Place12(c) = 21
      <4>1. c.state = "CLIENT_CERTIFICATE"
        BY <1>2
      <4> QED
        BY <4>1 DEF Place12
    <3> QED
      BY <1>2, <1>3, <3>1 DEF Client12Fits, Retries, Signs
  <2>2. Turn(u, 21, 22, 22)
    BY <1>2, <1>3, Turns12 DEF Client12Fits, Retries, Signs
  <2>3. Write("client", s, Type(22), Body(u, 22), "CLIENT_KEY_EXCHANGE")
    BY <1>2, <1>3, TypeIs, Steps12 DEF Body, Write12, Retries, Signs, Client12Fits
  <2>4. /\ s \in Context /\ Stays(c, s) /\ s.checksum = c.checksum
        /\ s.keep = c.keep /\ s.msg = c.msg
        /\ 22 \notin PassedOver => s.outKey = Key(22)
    <3>1. 22 \notin PassedOver => s.outKey = Key(22)
      BY <1>2, <1>3, <2>1 DEF Context, Key, PassedOver, Client12Fits
    <3>2. /\ s \in Context /\ Stays(c, s) /\ s.checksum = c.checksum /\ s.keep = c.keep
          /\ s.msg = c.msg
      BY <1>2, <1>3 DEF Stays, Context, Keys
    <3> QED
      BY <3>1, <3>2
  <2>5. "CLIENT_KEY_EXCHANGE" \in StateNames
    BY DEF StateNames, Client13States, Server13States, Client12States
  <2> HIDE DEF s, w
  <2>6. /\ Stays(s, w) /\ w.state = "CLIENT_KEY_EXCHANGE" /\ w.keep = s.keep
        /\ w.checksum = Transcript(u, 22)
    BY <1>2, <2>1, <2>2, <2>4, <2>5, SaysLine DEF w
  <2>7. Place("client", w) = 22 /\ FitsPlace(u, "client", w)
    <3>1. Place12(w) = 22
      BY <1>2, <1>3, <2>1, <2>4, <2>6 DEF Stays, Place12, Client12Fits
    <3>2. Client12Fits(u, w)
      BY <1>2, <1>3, <2>1, <2>4, <2>6, <3>1 DEF Stays, Client12Fits, Retries, Signs
    <3> QED
      BY <1>2, <2>1, <2>4, <2>6, <3>1, <3>2 DEF Stays, Place, FitsPlace
  <2>8. Speaks("client", s, 21, 22, 22, "CLIENT_KEY_EXCHANGE")
    BY <1>2, <2>1, <2>2, <2>3, <2>4, <2>5, <2>7 DEF Speaks, Stays, Context, w, Speaker
  <2> QED
    BY <1>2, <2>8, SpeaksGoes
<1> QED
  BY <1>4

\* The client says ClientKeyExchange.
LEMMA ClientKeyExchangeGoes ==
    ASSUME IInv, InStep, tls12_write_client_key_exchange
    PROVE  Goes
<1> DEFINE u == setup
           c == ssl["client"]
<1>1. At("client", "tls12", "CLIENT_KEY_EXCHANGE")
  BY DEF tls12_write_client_key_exchange, Write12
<1>2. /\ "client" \in Ends /\ "tls12" \in Versions /\ u \in Setup /\ c \in Context
      /\ c.state = "CLIENT_KEY_EXCHANGE" /\ c.version = "tls12" /\ c.out = <<>>
      /\ c.result = "running" /\ Running("client")
      /\ Client12Fits(u, c) /\ Reached("client") = Place12(c)
  BY <1>1, AtIs, FitsIs DEF Ends, Versions
<1>3. Goes
  <2> DEFINE s == c
             w == Written(s, Type(23), Body(u, 23), "CERTIFICATE_VERIFY")
  <2>1. /\ Reached("client") = 22
        /\ c.checksum = Transcript(u, 22) /\ ~ c.keep
    <3>1. Place12(c) = 22
      <4>1. c.state = "CLIENT_KEY_EXCHANGE"
        BY <1>2
      <4> QED
        BY <4>1 DEF Place12
    <3> QED
      BY <1>2, <3>1 DEF Client12Fits, Retries, Signs
  <2>2. Turn(u, 22, 23, 23)
    BY <1>2, Turns12 DEF Client12Fits, Retries, Signs
  <2>3. Write("client", s, Type(23), Body(u, 23), "CERTIFICATE_VERIFY")
    BY <1>2, TypeIs, Steps12 DEF Body, tls12_write_client_key_exchange, Write12, Retries, Signs,
       Client12Fits
  <2>4. /\ s \in Context /\ Stays(c, s) /\ s.checksum = c.checksum
        /\ s.keep = c.keep /\ s.msg = c.msg
        /\ 23 \notin PassedOver => s.outKey = Key(23)
    <3>1. 23 \notin PassedOver => s.outKey = Key(23)
      BY <1>2, <2>1 DEF Context, Key, PassedOver, Client12Fits
    <3>2. /\ s \in Context /\ Stays(c, s) /\ s.checksum = c.checksum /\ s.keep = c.keep
          /\ s.msg = c.msg
      BY <1>2 DEF Stays, Context, Keys
    <3> QED
      BY <3>1, <3>2
  <2>5. "CERTIFICATE_VERIFY" \in StateNames
    BY DEF StateNames, Client13States, Server13States, Client12States
  <2> HIDE DEF s, w
  <2>6. /\ Stays(s, w) /\ w.state = "CERTIFICATE_VERIFY" /\ w.keep = s.keep
        /\ w.checksum = Transcript(u, 23)
    BY <1>2, <2>1, <2>2, <2>4, <2>5, SaysLine DEF w
  <2>7. Place("client", w) = 23 /\ FitsPlace(u, "client", w)
    <3>1. Place12(w) = 23
      BY <1>2, <2>1, <2>4, <2>6 DEF Stays, Place12, Client12Fits
    <3>2. Client12Fits(u, w)
      BY <1>2, <2>1, <2>4, <2>6, <3>1 DEF Stays, Client12Fits, Retries, Signs
    <3> QED
      BY <1>2, <2>1, <2>4, <2>6, <3>1, <3>2 DEF Stays, Place, FitsPlace
  <2>8. Speaks("client", s, 22, 23, 23, "CERTIFICATE_VERIFY")
    BY <1>2, <2>1, <2>2, <2>3, <2>4, <2>5, <2>7 DEF Speaks, Stays, Context, w, Speaker
  <2> QED
    BY <1>2, <2>8, SpeaksGoes
<1> QED
  BY <1>3

\* The client has nothing to sign.
LEMMA NotSigned12Goes ==
    ASSUME IInv, InStep, Skip12("client", "CERTIFICATE_VERIFY",
                  ~ (ssl["client"].clientAuth /\ setup.cert["client"] # "empty"))
    PROVE  Goes
<1> DEFINE u == setup
           c == ssl["client"]
<1>1. At("client", "tls12", "CERTIFICATE_VERIFY")
  BY DEF Skip12
<1>2. /\ "client" \in Ends /\ "tls12" \in Versions /\ u \in Setup /\ c \in Context
      /\ c.state = "CERTIFICATE_VERIFY" /\ c.version = "tls12" /\ c.out = <<>>
      /\ c.result = "running" /\ Running("client")
      /\ Client12Fits(u, c) /\ Reached("client") = Place12(c)
  BY <1>1, AtIs, FitsIs DEF Ends, Versions
<1>3. ~ (c.clientAuth /\ u.cert["client"] # "empty")
  BY DEF Skip12
<1>4. ~ Signs(u)
  BY <1>2, <1>3 DEF Client12Fits, Place12, Signs
<1>5. Goes
  <2> DEFINE b == [c EXCEPT !.state = "CLIENT_CHANGE_CIPHER_SPEC"]
  <2>1. /\ Reached("client") = 23
        /\ c.checksum = Transcript(u, 23) /\ ~ c.keep
    <3>1. Place12(c) = 23
      <4>1. c.state = "CERTIFICATE_VERIFY"
        BY <1>2
      <4> QED
        BY <4>1 DEF Place12
    <3> QED
      BY <1>2, <1>3, <1>4, <3>1 DEF Client12Fits, Retries, Signs
  <2>2. Turn(u, 23, 24, 0)
    BY <1>2, <1>3, <1>4, Turns12 DEF Client12Fits, Retries, Signs
  <2>3. Transcript(u, 24) = Transcript(u, 23)
    BY <2>2, SaidIs
  <2>4. Become("client", b)
    BY <1>2, <1>3, <1>4, Steps12 DEF Skip12, Go, Retries, Signs
  <2>5. /\ Stays(c, b) /\ b.state = "CLIENT_CHANGE_CIPHER_SPEC" /\ b.keep = c.keep /\ b.msg = c.msg
        /\ b.checksum = c.checksum
    BY <1>2 DEF Stays, Context
  <2> HIDE DEF b
  <2>6. Place("client", b) = 24 /\ FitsPlace(u, "client", b)
    <3>1. Place12(b) = 24
      BY <1>2, <1>3, <1>4, <2>1, <2>3, <2>5 DEF Stays, Place12, Client12Fits
    <3>2. Client12Fits(u, b)
      BY <1>2, <1>3, <1>4, <2>1, <2>3, <2>5, <3>1 DEF Stays, Client12Fits, Retries, Signs
    <3> QED
      BY <1>2, <2>1, <2>3, <2>5, <3>1, <3>2 DEF Stays, Place, FitsPlace
  <2> QED
    BY <1>2, <2>1, <2>2, <2>4, <2>5, <2>6, BecomeGoes DEF Stays, Context
<1> QED
  BY <1>5

\* The client says CertificateVerify.
LEMMA ClientCertificateVerify12Goes ==
    ASSUME IInv, InStep, ssl["client"].clientAuth, setup.cert["client"] # "empty",
           Write12("client", "CERTIFICATE_VERIFY", "CertificateVerify", "client")
    PROVE  Goes
<1> DEFINE u == setup
           c == ssl["client"]
<1>1. At("client", "tls12", "CERTIFICATE_VERIFY")
  BY DEF Write12
<1>2. /\ "client" \in Ends /\ "tls12" \in Versions /\ u \in Setup /\ c \in Context
      /\ c.state = "CERTIFICATE_VERIFY" /\ c.version = "tls12" /\ c.out = <<>>
      /\ c.result = "running" /\ Running("client")
      /\ Client12Fits(u, c) /\ Reached("client") = Place12(c)
  BY <1>1, AtIs, FitsIs DEF Ends, Versions
<1>3. Signs(u)
  BY <1>2 DEF Client12Fits, Place12, Signs
<1>4. Goes
  <2> DEFINE s == c
             w == Written(s, Type(24), Body(u, 24), "CLIENT_CHANGE_CIPHER_SPEC")
  <2>1. /\ Reached("client") = 23
        /\ c.checksum = Transcript(u, 23) /\ ~ c.keep
    <3>1. Place12(c) = 23
      <4>1. c.state = "CERTIFICATE_VERIFY"
        BY <1>2
      <4> QED
        BY <4>1 DEF Place12
    <3> QED
      BY <1>2, <1>3, <3>1 DEF Client12Fits, Retries, Signs
  <2>2. Turn(u, 23, 24, 24)
    BY <1>2, <1>3, Turns12 DEF Client12Fits, Retries, Signs
  <2>3. Write("client", s, Type(24), Body(u, 24), "CLIENT_CHANGE_CIPHER_SPEC")
    BY <1>2, <1>3, TypeIs, Steps12 DEF Body, Write12, Retries, Signs, Client12Fits
  <2>4. /\ s \in Context /\ Stays(c, s) /\ s.checksum = c.checksum
        /\ s.keep = c.keep /\ s.msg = c.msg
        /\ 24 \notin PassedOver => s.outKey = Key(24)
    <3>1. 24 \notin PassedOver => s.outKey = Key(24)
      BY <1>2, <1>3, <2>1 DEF Context, Key, PassedOver, Client12Fits
    <3>2. /\ s \in Context /\ Stays(c, s) /\ s.checksum = c.checksum /\ s.keep = c.keep
          /\ s.msg = c.msg
      BY <1>2, <1>3 DEF Stays, Context, Keys
    <3> QED
      BY <3>1, <3>2
  <2>5. "CLIENT_CHANGE_CIPHER_SPEC" \in StateNames
    BY DEF StateNames, Client13States, Server13States, Client12States
  <2> HIDE DEF s, w
  <2>6. /\ Stays(s, w) /\ w.state = "CLIENT_CHANGE_CIPHER_SPEC" /\ w.keep = s.keep
        /\ w.checksum = Transcript(u, 24)
    BY <1>2, <2>1, <2>2, <2>4, <2>5, SaysLine DEF w
  <2>7. Place("client", w) = 24 /\ FitsPlace(u, "client", w)
    <3>1. Place12(w) = 24
      BY <1>2, <1>3, <2>1, <2>4, <2>6 DEF Stays, Place12, Client12Fits
    <3>2. Client12Fits(u, w)
      BY <1>2, <1>3, <2>1, <2>4, <2>6, <3>1 DEF Stays, Client12Fits, Retries, Signs
    <3> QED
      BY <1>2, <2>1, <2>4, <2>6, <3>1, <3>2 DEF Stays, Place, FitsPlace
  <2>8. Speaks("client", s, 23, 24, 24, "CLIENT_CHANGE_CIPHER_SPEC")
    BY <1>2, <2>1, <2>2, <2>3, <2>4, <2>5, <2>7 DEF Speaks, Stays, Context, w, Speaker
  <2> QED
    BY <1>2, <2>8, SpeaksGoes
<1> QED
  BY <1>4

\* The client says ChangeCipherSpec.
LEMMA ClientCcs12Goes ==
    ASSUME IInv, InStep, tls12_write_change_cipher_spec("client", "CLIENT_CHANGE_CIPHER_SPEC")
    PROVE  Goes
<1> DEFINE u == setup
           c == ssl["client"]
<1>1. At("client", "tls12", "CLIENT_CHANGE_CIPHER_SPEC")
  BY DEF tls12_write_change_cipher_spec, Write12
<1>2. /\ "client" \in Ends /\ "tls12" \in Versions /\ u \in Setup /\ c \in Context
      /\ c.state = "CLIENT_CHANGE_CIPHER_SPEC" /\ c.version = "tls12" /\ c.out = <<>>
      /\ c.result = "running" /\ Running("client")
      /\ Client12Fits(u, c) /\ Reached("client") = Place12(c)
  BY <1>1, AtIs, FitsIs DEF Ends, Versions
<1>3. Goes
  <2> DEFINE s == c
             w == Written(s, Type(25), Body(u, 25), "CLIENT_FINISHED")
  <2>1. /\ Reached("client") = 24
        /\ c.checksum = Transcript(u, 24) /\ ~ c.keep
    <3>1. Place12(c) = 24
      <4>1. c.state = "CLIENT_CHANGE_CIPHER_SPEC"
        BY <1>2
      <4> QED
        BY <4>1 DEF Place12
    <3> QED
      BY <1>2, <3>1 DEF Client12Fits, Retries, Signs
  <2>2. Turn(u, 24, 25, 25)
    BY <1>2, Turns12 DEF Client12Fits, Retries, Signs
  <2>3. Write("client", s, Type(25), Body(u, 25), "CLIENT_FINISHED")
    BY <1>2, TypeIs, Steps12 DEF Body, tls12_write_change_cipher_spec, Write12, Retries, Signs,
       Client12Fits
  <2>4. /\ s \in Context /\ Stays(c, s) /\ s.checksum = c.checksum
        /\ s.keep = c.keep /\ s.msg = c.msg
        /\ 25 \notin PassedOver => s.outKey = Key(25)
    <3>1. 25 \notin PassedOver => s.outKey = Key(25)
      BY <1>2, <2>1 DEF Context, Key, PassedOver, Client12Fits
    <3>2. /\ s \in Context /\ Stays(c, s) /\ s.checksum = c.checksum /\ s.keep = c.keep
          /\ s.msg = c.msg
      BY <1>2 DEF Stays, Context, Keys
    <3> QED
      BY <3>1, <3>2
  <2>5. "CLIENT_FINISHED" \in StateNames
    BY DEF StateNames, Client13States, Server13States, Client12States
  <2> HIDE DEF s, w
  <2>6. /\ Stays(s, w) /\ w.state = "CLIENT_FINISHED" /\ w.keep = s.keep
        /\ w.checksum = Transcript(u, 25)
    BY <1>2, <2>1, <2>2, <2>4, <2>5, SaysLine DEF w
  <2>7. Place("client", w) = 25 /\ FitsPlace(u, "client", w)
    <3>1. Place12(w) = 25
      BY <1>2, <2>1, <2>4, <2>6 DEF Stays, Place12, Client12Fits
    <3>2. Client12Fits(u, w)
      BY <1>2, <2>1, <2>4, <2>6, <3>1 DEF Stays, Client12Fits, Retries, Signs
    <3> QED
      BY <1>2, <2>1, <2>4, <2>6, <3>1, <3>2 DEF Stays, Place, FitsPlace
  <2>8. Speaks("client", s, 24, 25, 25, "CLIENT_FINISHED")
    BY <1>2, <2>1, <2>2, <2>3, <2>4, <2>5, <2>7 DEF Speaks, Stays, Context, w, Speaker
  <2> QED
    BY <1>2, <2>8, SpeaksGoes
<1> QED
  BY <1>3

\* The client says Finished.
LEMMA ClientFinished12Goes ==
    ASSUME IInv, InStep, tls12_write_finished("client", "CLIENT_FINISHED")
    PROVE  Goes
<1> DEFINE u == setup
           c == ssl["client"]
<1>1. At("client", "tls12", "CLIENT_FINISHED")
  BY DEF tls12_write_finished
<1>2. /\ "client" \in Ends /\ "tls12" \in Versions /\ u \in Setup /\ c \in Context
      /\ c.state = "CLIENT_FINISHED" /\ c.version = "tls12" /\ c.out = <<>> /\ c.result = "running"
      /\ Running("client")
      /\ Client12Fits(u, c) /\ Reached("client") = Place12(c)
  BY <1>1, AtIs, FitsIs DEF Ends, Versions
<1>3. ASSUME u.ticket
      PROVE  Goes
  <2> DEFINE s == [c EXCEPT !.outKey = "session"]
             w == Written(s, Type(26), Body(u, 26), "SERVER_CHANGE_CIPHER_SPEC")
  <2>1. /\ Reached("client") = 25
        /\ c.checksum = Transcript(u, 25) /\ ~ c.keep
    <3>1. Place12(c) = 25
      <4>1. c.state = "CLIENT_FINISHED"
        BY <1>2
      <4> QED
        BY <4>1 DEF Place12
    <3> QED
      BY <1>2, <1>3, <3>1 DEF Client12Fits, Retries, Signs
  <2>2. Turn(u, 25, 26, 26)
    BY <1>2, <1>3, Turns12 DEF Client12Fits, Retries, Signs
  <2>3. Write("client", s, Type(26), Body(u, 26), "SERVER_CHANGE_CIPHER_SPEC")
    BY <1>2, <1>3, TypeIs, Steps12 DEF Body, tls12_write_finished, Retries, Signs, Client12Fits
  <2>4. /\ s \in Context /\ Stays([c EXCEPT !.outKey = "session"], s) /\ s.checksum = c.checksum
        /\ s.keep = c.keep /\ s.msg = c.msg
        /\ 26 \notin PassedOver => s.outKey = Key(26)
    <3>1. 26 \notin PassedOver => s.outKey = Key(26)
      BY <1>2, <1>3, <2>1 DEF Context, Key, PassedOver, Client12Fits
    <3>2. /\ s \in Context /\ Stays([c EXCEPT !.outKey = "session"], s) /\ s.checksum = c.checksum
          /\ s.keep = c.keep /\ s.msg = c.msg
      BY <1>2, <1>3 DEF Stays, Context, Keys
    <3> QED
      BY <3>1, <3>2
  <2>5. "SERVER_CHANGE_CIPHER_SPEC" \in StateNames
    BY DEF StateNames, Client13States, Server13States, Client12States
  <2> HIDE DEF s, w
  <2>6. /\ Stays(s, w) /\ w.state = "SERVER_CHANGE_CIPHER_SPEC" /\ w.keep = s.keep
        /\ w.checksum = Transcript(u, 26)
    BY <1>2, <2>1, <2>2, <2>4, <2>5, SaysLine DEF w
  <2>7. Place("client", w) = 26 /\ FitsPlace(u, "client", w)
    <3>1. Place12(w) = 26
      BY <1>2, <1>3, <2>1, <2>4, <2>6 DEF Stays, Context, Place12, Client12Fits
    <3>2. Client12Fits(u, w)
      BY <1>2, <1>3, <2>1, <2>4, <2>6, <3>1 DEF Stays, Context, Client12Fits, Retries, Signs
    <3> QED
      BY <1>2, <2>1, <2>4, <2>6, <3>1, <3>2 DEF Stays, Context, Place, FitsPlace
  <2>8. Speaks("client", s, 25, 26, 26, "SERVER_CHANGE_CIPHER_SPEC")
    BY <1>2, <2>1, <2>2, <2>3, <2>4, <2>5, <2>7 DEF Speaks, Stays, Context, w, Speaker
  <2> QED
    BY <1>2, <2>8, SpeaksGoes
<1>4. ASSUME ~ u.ticket
      PROVE  Goes
  <2> DEFINE s == [c EXCEPT !.outKey = "session"]
             w == Written(s, Type(26), Body(u, 26), "SERVER_CHANGE_CIPHER_SPEC")
  <2>1. /\ Reached("client") = 25
        /\ c.checksum = Transcript(u, 25) /\ ~ c.keep
    <3>1. Place12(c) = 25
      <4>1. c.state = "CLIENT_FINISHED"
        BY <1>2
      <4> QED
        BY <4>1 DEF Place12
    <3> QED
      BY <1>2, <1>4, <3>1 DEF Client12Fits, Retries, Signs
  <2>2. Turn(u, 25, 27, 26)
    BY <1>2, <1>4, Turns12 DEF Client12Fits, Retries, Signs
  <2>3. Write("client", s, Type(26), Body(u, 26), "SERVER_CHANGE_CIPHER_SPEC")
    BY <1>2, <1>4, TypeIs, Steps12 DEF Body, tls12_write_finished, Retries, Signs, Client12Fits
  <2>4. /\ s \in Context /\ Stays([c EXCEPT !.outKey = "session"], s) /\ s.checksum = c.checksum
        /\ s.keep = c.keep /\ s.msg = c.msg
        /\ 26 \notin PassedOver => s.outKey = Key(26)
    <3>1. 26 \notin PassedOver => s.outKey = Key(26)
      BY <1>2, <1>4, <2>1 DEF Context, Key, PassedOver, Client12Fits
    <3>2. /\ s \in Context /\ Stays([c EXCEPT !.outKey = "session"], s) /\ s.checksum = c.checksum
          /\ s.keep = c.keep /\ s.msg = c.msg
      BY <1>2, <1>4 DEF Stays, Context, Keys
    <3> QED
      BY <3>1, <3>2
  <2>5. "SERVER_CHANGE_CIPHER_SPEC" \in StateNames
    BY DEF StateNames, Client13States, Server13States, Client12States
  <2> HIDE DEF s, w
  <2>6. /\ Stays(s, w) /\ w.state = "SERVER_CHANGE_CIPHER_SPEC" /\ w.keep = s.keep
        /\ w.checksum = Transcript(u, 27)
    BY <1>2, <2>1, <2>2, <2>4, <2>5, SaysLine DEF w
  <2>7. Place("client", w) = 27 /\ FitsPlace(u, "client", w)
    <3>1. Place12(w) = 27
      BY <1>2, <1>4, <2>1, <2>4, <2>6 DEF Stays, Context, Place12, Client12Fits
    <3>2. Client12Fits(u, w)
      BY <1>2, <1>4, <2>1, <2>4, <2>6, <3>1 DEF Stays, Context, Client12Fits, Retries, Signs
    <3> QED
      BY <1>2, <2>1, <2>4, <2>6, <3>1, <3>2 DEF Stays, Context, Place, FitsPlace
  <2>8. Speaks("client", s, 25, 27, 26, "SERVER_CHANGE_CIPHER_SPEC")
    BY <1>2, <2>1, <2>2, <2>3, <2>4, <2>5, <2>7 DEF Speaks, Stays, Context, w, Speaker
  <2> QED
    BY <1>2, <2>8, SpeaksGoes
<1> QED
  BY <1>2, <1>3, <1>4

\* The client waits for a ticket.
LEMMA AwaitTicketGoes ==
    ASSUME IInv, InStep, tls12_await_ticket
    PROVE  Goes
<1> DEFINE u == setup
           c == ssl["client"]
<1>1. At("client", "tls12", "SERVER_CHANGE_CIPHER_SPEC")
  BY DEF tls12_await_ticket
<1>2. /\ "client" \in Ends /\ "tls12" \in Versions /\ u \in Setup /\ c \in Context
      /\ c.state = "SERVER_CHANGE_CIPHER_SPEC" /\ c.version = "tls12" /\ c.out = <<>>
      /\ c.result = "running" /\ Running("client")
      /\ Client12Fits(u, c) /\ Reached("client") = Place12(c)
  BY <1>1, AtIs, FitsIs DEF Ends, Versions
<1>3. c.newTicket
  BY DEF tls12_await_ticket
<1>4. Goes
  <2> DEFINE b == [c EXCEPT !.state = "NEW_SESSION_TICKET"]
  <2>1. /\ Reached("client") = 26
        /\ c.checksum = Transcript(u, 26) /\ ~ c.keep
    <3>1. Place12(c) = 26
      BY <1>2, <1>3 DEF Place12
    <3> QED
      BY <1>2, <1>3, <3>1 DEF Client12Fits, Retries, Signs
  <2>2. Turn(u, 26, 26, 0)
    BY TurnStay DEF Places
  <2>3. Transcript(u, 26) = Transcript(u, 26)
    BY <2>2, SaidIs
  <2>4. Become("client", b)
    BY <1>2, <1>3, Steps12 DEF tls12_await_ticket, Go, Retries, Signs
  <2>5. /\ Stays(c, b) /\ b.state = "NEW_SESSION_TICKET" /\ b.keep = c.keep /\ b.msg = c.msg
        /\ b.checksum = c.checksum
    BY <1>2 DEF Stays, Context
  <2> HIDE DEF b
  <2>6. Place("client", b) = 26 /\ FitsPlace(u, "client", b)
    <3>1. Place12(b) = 26
      BY <1>2, <1>3, <2>1, <2>3, <2>5 DEF Stays, Place12, Client12Fits
    <3>2. Client12Fits(u, b)
      BY <1>2, <1>3, <2>1, <2>3, <2>5, <3>1 DEF Stays, Client12Fits, Retries, Signs
    <3> QED
      BY <1>2, <2>1, <2>3, <2>5, <3>1, <3>2 DEF Stays, Place, FitsPlace
  <2> QED
    BY <1>2, <2>1, <2>2, <2>4, <2>5, <2>6, BecomeGoes DEF Stays, Context
<1> QED
  BY <1>4

\* The client takes a ticket.
LEMMA TicketRead12Goes ==
    ASSUME IInv, InStep, tls12_parse_new_session_ticket
    PROVE  Goes
<1> DEFINE u == setup
           c == ssl["client"]
           r == Got("client")
           h == Hash12("client")
<1>1. Reads("client", "tls12", "NEW_SESSION_TICKET")
  BY DEF tls12_parse_new_session_ticket
<1>2. /\ "client" \in Ends /\ "tls12" \in Versions /\ u \in Setup /\ c \in Context
      /\ c.state = "NEW_SESSION_TICKET" /\ c.version = "tls12" /\ c.out = <<>>
      /\ c.result = "running" /\ Running("client")
      /\ Client12Fits(u, c) /\ Reached("client") = Place12(c)
      /\ h \in Context /\ Stays(c, h) /\ ~ h.keep
      /\ h.checksum = IF c.keep THEN c.checksum ELSE Append(c.checksum, <<r.type, r.body>>)
  BY <1>1, ReadIs, FitsIs, TakenIs DEF Ends, Versions
<1> HIDE DEF h
<1>3. Goes
  <2> DEFINE s == [h EXCEPT !.newTicket = FALSE]
             b == [s EXCEPT !.state = "SERVER_CHANGE_CIPHER_SPEC"]
  <2>1. /\ Reached("client") = 26 /\ NextLine(u, 26) = 27
        /\ c.checksum = Transcript(u, 26) /\ ~ c.keep
    <3>1. Place12(c) = 26
      <4>1. c.state = "NEW_SESSION_TICKET"
        BY <1>2
      <4> QED
        BY <4>1 DEF Place12
    <3>2. NextLine(u, 26) = 27
      BY <1>2 DEF NextLine, Next12, Client12Fits, Retries, Signs
    <3> QED
      BY <1>2, <3>1, <3>2 DEF Client12Fits, Retries, Signs
  <2>2. Turn(u, 26, 27, 27)
    BY <1>2, Turns12 DEF Client12Fits, Retries, Signs
  <2>3. r.type = Type(27) /\ r.body = Body(u, 27)
    BY <1>1, <1>2, <2>1, Hears
  <2>4. h.checksum = Transcript(u, 27)
    <3>1. Type(27) # "ChangeCipherSpec"
      BY TypeIs
    <3>2. Transcript(u, 27) = Append(Transcript(u, 26), <<Type(27), Body(u, 27)>>)
      BY <2>2, <3>1, SaidIs
    <3>3. h.checksum = Append(c.checksum, <<r.type, r.body>>)
      BY <1>2, <2>1
    <3> QED
      BY <2>1, <2>3, <3>2, <3>3
  <2>5. Accept("client", s, "SERVER_CHANGE_CIPHER_SPEC")
    BY <1>2, <2>3, TypeIs, Steps12 DEF Body, tls12_parse_new_session_ticket, h
  <2>6. /\ s \in Context /\ s.out = <<>> /\ s.result = "running" /\ ~ s.keep
        /\ Stays([c EXCEPT !.newTicket = FALSE], b) /\ b.state = "SERVER_CHANGE_CIPHER_SPEC"
        /\ ~ b.keep /\ b.checksum = Transcript(u, 27)
    BY <1>2, <2>1, <2>4 DEF Stays, Context
  <2> HIDE DEF b, s
  <2>7. Place("client", b) = 27 /\ FitsPlace(u, "client", b)
    <3>1. Place12(b) = 27
      BY <1>2, <2>1, <2>6 DEF Stays, Context, Place12, Client12Fits
    <3>2. Client12Fits(u, b)
      BY <1>2, <2>1, <2>6, <3>1 DEF Stays, Context, Client12Fits, Retries, Signs
    <3> QED
      BY <1>2, <2>1, <2>6, <3>1, <3>2 DEF Stays, Context, Place, FitsPlace
  <2>8. "SERVER_CHANGE_CIPHER_SPEC" \in StateNames \ {"HANDSHAKE_OVER"}
    BY DEF StateNames, Client13States, Server13States, Client12States
  <2> QED
    BY <1>1, <1>2, <2>1, <2>2, <2>5, <2>6, <2>7, <2>8, AcceptGoes DEF b
<1> QED
  BY <1>3

\* The client takes the server's ChangeCipherSpec.
LEMMA ServerCcs12Goes ==
    ASSUME IInv, InStep, tls12_parse_change_cipher_spec("client", "SERVER_CHANGE_CIPHER_SPEC")
    PROVE  Goes
<1> DEFINE u == setup
           c == ssl["client"]
           r == Got("client")
           h == Unhashed("client")
<1>1. Reads("client", "tls12", "SERVER_CHANGE_CIPHER_SPEC")
  BY DEF tls12_parse_change_cipher_spec
<1>2. /\ "client" \in Ends /\ "tls12" \in Versions /\ u \in Setup /\ c \in Context
      /\ c.state = "SERVER_CHANGE_CIPHER_SPEC" /\ c.version = "tls12" /\ c.out = <<>>
      /\ c.result = "running" /\ Running("client")
      /\ Client12Fits(u, c) /\ Reached("client") = Place12(c)
      /\ h \in Context /\ Stays(c, h) /\ ~ h.keep
      /\ h.checksum = c.checksum
  BY <1>1, ReadIs, FitsIs, TakenIs DEF Ends, Versions
<1> HIDE DEF h
<1>3. ~ c.newTicket
  BY <1>1, <1>2 DEF Reads, Takes, Takes12
<1>4. Goes
  <2> DEFINE s == [h EXCEPT !.inKey = "session"]
             b == [s EXCEPT !.state = "SERVER_FINISHED"]
  <2>1. /\ Reached("client") = 27 /\ NextLine(u, 27) = 28
        /\ c.checksum = Transcript(u, 27) /\ ~ c.keep
    <3>1. Place12(c) = 27
      BY <1>2, <1>3 DEF Place12
    <3>2. NextLine(u, 27) = 28
      BY <1>2, <1>3 DEF NextLine, Next12, Client12Fits, Retries, Signs
    <3> QED
      BY <1>2, <1>3, <3>1, <3>2 DEF Client12Fits, Retries, Signs
  <2>2. Turn(u, 27, 28, 28)
    BY <1>2, <1>3, Turns12 DEF Client12Fits, Retries, Signs
  <2>3. r.type = Type(28) /\ r.body = Body(u, 28)
    BY <1>1, <1>2, <2>1, Hears
  <2>4. h.checksum = Transcript(u, 28)
    <3>1. Type(28) = "ChangeCipherSpec"
      BY TypeIs
    <3>2. Transcript(u, 28) = Transcript(u, 27)
      BY <2>2, <3>1, SaidIs
    <3>3. h.checksum = c.checksum
      BY <1>2
    <3> QED
      BY <2>1, <3>2, <3>3
  <2>5. Accept("client", s, "SERVER_FINISHED")
    BY <1>2, <1>3, <2>3, TypeIs, Steps12 DEF Body, tls12_parse_change_cipher_spec, h
  <2>6. /\ s \in Context /\ s.out = <<>> /\ s.result = "running" /\ ~ s.keep
        /\ Stays([c EXCEPT !.inKey = "session"], b) /\ b.state = "SERVER_FINISHED" /\ ~ b.keep
        /\ b.checksum = Transcript(u, 28)
    BY <1>2, <1>3, <2>1, <2>4 DEF Stays, Context, Keys
  <2> HIDE DEF b, s
  <2>7. Place("client", b) = 28 /\ FitsPlace(u, "client", b)
    <3>1. Place12(b) = 28
      BY <1>2, <1>3, <2>1, <2>6 DEF Stays, Context, Place12, Client12Fits
    <3>2. Client12Fits(u, b)
      BY <1>2, <1>3, <2>1, <2>6, <3>1 DEF Stays, Context, Client12Fits, Retries, Signs
    <3> QED
      BY <1>2, <2>1, <2>6, <3>1, <3>2 DEF Stays, Context, Place, FitsPlace
  <2>8. "SERVER_FINISHED" \in StateNames \ {"HANDSHAKE_OVER"}
    BY DEF StateNames, Client13States, Server13States, Client12States
  <2> QED
    BY <1>1, <1>2, <2>1, <2>2, <2>5, <2>6, <2>7, <2>8, AcceptGoes DEF b
<1> QED
  BY <1>4

\* The client takes the server's Finished.
LEMMA ServerFinished12Goes ==
    ASSUME IInv, InStep, tls12_parse_finished("client", "SERVER_FINISHED")
    PROVE  Goes
<1> DEFINE u == setup
           c == ssl["client"]
           r == Got("client")
           h == Hash12("client")
<1>1. Reads("client", "tls12", "SERVER_FINISHED")
  BY DEF tls12_parse_finished
<1>2. /\ "client" \in Ends /\ "tls12" \in Versions /\ u \in Setup /\ c \in Context
      /\ c.state = "SERVER_FINISHED" /\ c.version = "tls12" /\ c.out = <<>> /\ c.result = "running"
      /\ Running("client")
      /\ Client12Fits(u, c) /\ Reached("client") = Place12(c)
      /\ h \in Context /\ Stays(c, h) /\ ~ h.keep
      /\ h.checksum = IF c.keep THEN c.checksum ELSE Append(c.checksum, <<r.type, r.body>>)
  BY <1>1, ReadIs, FitsIs, TakenIs DEF Ends, Versions
<1> HIDE DEF h
<1>3. Goes
  <2> DEFINE s == h
             b == [s EXCEPT !.state = "FLUSH_BUFFERS"]
  <2>1. /\ Reached("client") = 28 /\ NextLine(u, 28) = 29
        /\ c.checksum = Transcript(u, 28) /\ ~ c.keep
    <3>1. Place12(c) = 28
      <4>1. c.state = "SERVER_FINISHED"
        BY <1>2
      <4> QED
        BY <4>1 DEF Place12
    <3>2. NextLine(u, 28) = 29
      BY <1>2 DEF NextLine, Next12, Client12Fits, Retries, Signs
    <3> QED
      BY <1>2, <3>1, <3>2 DEF Client12Fits, Retries, Signs
  <2>2. Turn(u, 28, 29, 29)
    BY <1>2, Turns12 DEF Client12Fits, Retries, Signs
  <2>3. r.type = Type(29) /\ r.body = Body(u, 29)
    BY <1>1, <1>2, <2>1, Hears
  <2>4. Binds("client")
    <3>1. ~ c.keep
      BY <1>2, <2>1 DEF Client12Fits
    <3>2. r.type \in Bound
      BY <2>3, TypeIs DEF Bound
    <3> QED
      BY <1>1, <1>2, <2>1, <3>1, <3>2, Hears
  <2>5. h.checksum = Transcript(u, 29)
    <3>1. Type(29) # "ChangeCipherSpec"
      BY TypeIs
    <3>2. Transcript(u, 29) = Append(Transcript(u, 28), <<Type(29), Body(u, 29)>>)
      BY <2>2, <3>1, SaidIs
    <3>3. h.checksum = Append(c.checksum, <<r.type, r.body>>)
      BY <1>2, <2>1
    <3> QED
      BY <2>1, <2>3, <3>2, <3>3
  <2>6. Accept("client", s, "FLUSH_BUFFERS")
    BY <1>2, <2>3, <2>4, TypeIs, Steps12 DEF Body, tls12_parse_finished, h
  <2>7. /\ s \in Context /\ s.out = <<>> /\ s.result = "running" /\ ~ s.keep
        /\ Stays(c, b) /\ b.state = "FLUSH_BUFFERS" /\ ~ b.keep /\ b.checksum = Transcript(u, 29)
    BY <1>2, <2>1, <2>5 DEF Stays, Context
  <2> HIDE DEF b, s
  <2>8. Place("client", b) = 29 /\ FitsPlace(u, "client", b)
    <3>1. Place12(b) = 29
      BY <1>2, <2>1, <2>7 DEF Stays, Place12, Client12Fits
    <3>2. Client12Fits(u, b)
      BY <1>2, <2>1, <2>7, <3>1 DEF Stays, Client12Fits, Retries, Signs
    <3> QED
      BY <1>2, <2>1, <2>7, <3>1, <3>2 DEF Stays, Place, FitsPlace
  <2>9. "FLUSH_BUFFERS" \in StateNames \ {"HANDSHAKE_OVER"}
    BY DEF StateNames, Client13States, Server13States, Client12States
  <2> QED
    BY <1>1, <1>2, <2>1, <2>2, <2>6, <2>7, <2>8, <2>9, AcceptGoes DEF b
<1> QED
  BY <1>3

\* The client flushes.
LEMMA ClientFlush12Goes ==
    ASSUME IInv, InStep, At("client", "tls12", "FLUSH_BUFFERS"), Go("client", "HANDSHAKE_WRAPUP")
    PROVE  Goes
<1> DEFINE u == setup
           c == ssl["client"]
<1>1. At("client", "tls12", "FLUSH_BUFFERS")
  OBVIOUS
<1>2. /\ "client" \in Ends /\ "tls12" \in Versions /\ u \in Setup /\ c \in Context
      /\ c.state = "FLUSH_BUFFERS" /\ c.version = "tls12" /\ c.out = <<>> /\ c.result = "running"
      /\ Running("client")
      /\ Client12Fits(u, c) /\ Reached("client") = Place12(c)
  BY <1>1, AtIs, FitsIs DEF Ends, Versions
<1>3. Goes
  <2> DEFINE b == [c EXCEPT !.state = "HANDSHAKE_WRAPUP"]
  <2>1. /\ Reached("client") = 29
        /\ c.checksum = Transcript(u, 29) /\ ~ c.keep
    <3>1. Place12(c) = 29
      <4>1. c.state = "FLUSH_BUFFERS"
        BY <1>2
      <4> QED
        BY <4>1 DEF Place12
    <3> QED
      BY <1>2, <3>1 DEF Client12Fits, Retries, Signs
  <2>2. Turn(u, 29, 29, 0)
    BY TurnStay DEF Places
  <2>3. Transcript(u, 29) = Transcript(u, 29)
    BY <2>2, SaidIs
  <2>4. Become("client", b)
    BY <1>2, Steps12 DEF Go, Retries, Signs
  <2>5. /\ Stays(c, b) /\ b.state = "HANDSHAKE_WRAPUP" /\ b.keep = c.keep /\ b.msg = c.msg
        /\ b.checksum = c.checksum
    BY <1>2 DEF Stays, Context
  <2> HIDE DEF b
  <2>6. Place("client", b) = 29 /\ FitsPlace(u, "client", b)
    <3>1. Place12(b) = 29
      BY <1>2, <2>1, <2>3, <2>5 DEF Stays, Place12, Client12Fits
    <3>2. Client12Fits(u, b)
      BY <1>2, <2>1, <2>3, <2>5, <3>1 DEF Stays, Client12Fits, Retries, Signs
    <3> QED
      BY <1>2, <2>1, <2>3, <2>5, <3>1, <3>2 DEF Stays, Place, FitsPlace
  <2> QED
    BY <1>2, <2>1, <2>2, <2>4, <2>5, <2>6, BecomeGoes DEF Stays, Context
<1> QED
  BY <1>3

\* The client is over.
LEMMA ClientWrapup12Goes ==
    ASSUME IInv, InStep, At("client", "tls12", "HANDSHAKE_WRAPUP"), Go("client", "HANDSHAKE_OVER")
    PROVE  Goes
<1> DEFINE u == setup
           c == ssl["client"]
<1>1. At("client", "tls12", "HANDSHAKE_WRAPUP")
  OBVIOUS
<1>2. /\ "client" \in Ends /\ "tls12" \in Versions /\ u \in Setup /\ c \in Context
      /\ c.state = "HANDSHAKE_WRAPUP" /\ c.version = "tls12" /\ c.out = <<>> /\ c.result = "running"
      /\ Running("client")
      /\ Client12Fits(u, c) /\ Reached("client") = Place12(c)
  BY <1>1, AtIs, FitsIs DEF Ends, Versions
<1>3. Goes
  <2> DEFINE b == [c EXCEPT !.state = "HANDSHAKE_OVER"]
  <2>1. /\ Reached("client") = 29
        /\ c.checksum = Transcript(u, 29) /\ ~ c.keep
    <3>1. Place12(c) = 29
      <4>1. c.state = "HANDSHAKE_WRAPUP"
        BY <1>2
      <4> QED
        BY <4>1 DEF Place12
    <3> QED
      BY <1>2, <3>1 DEF Client12Fits, Retries, Signs
  <2>2. Turn(u, 29, 29, 0)
    BY TurnStay DEF Places
  <2>3. Transcript(u, 29) = Transcript(u, 29)
    BY <2>2, SaidIs
  <2>4. Become("client", b)
    BY <1>2, Steps12 DEF Go, Retries, Signs
  <2>5. /\ Stays(c, b) /\ b.state = "HANDSHAKE_OVER" /\ b.keep = c.keep /\ b.msg = c.msg
        /\ b.checksum = c.checksum
    BY <1>2 DEF Stays, Context
  <2> HIDE DEF b
  <2>6. Place("client", b) = 29 /\ FitsPlace(u, "client", b)
    <3>1. Place12(b) = 29
      BY <1>2, <2>1, <2>3, <2>5 DEF Stays, Place12, Client12Fits
    <3>2. Client12Fits(u, b)
      BY <1>2, <2>1, <2>3, <2>5, <3>1 DEF Stays, Client12Fits, Retries, Signs
    <3> QED
      BY <1>2, <2>1, <2>3, <2>5, <3>1, <3>2 DEF Stays, Place, FitsPlace
  <2>7. FlightsAt(u, 29) = Total
    BY FlightsAre
  <2> QED
    BY <1>2, <2>1, <2>2, <2>4, <2>5, <2>6, <2>7, BecomeGoes DEF Stays, Context
<1> QED
  BY <1>3

\* The TLS 1.2 client, as a whole.
LEMMA Client12Goes ==
    ASSUME IInv, InStep, Client12
    PROVE  Goes
<1>1. CASE \/ write_client_hello("tls12")
           \/ tls12_parse_server_hello
           \/ tls12_parse_certificate("client", "SERVER_CERTIFICATE")
  BY <1>1, ClientHello12Goes, ServerHello12Goes, ServerCertificate12Goes
<1>2. CASE \/ tls12_parse_server_key_exchange
           \/ tls12_parse_certificate_request
           \/ tls12_parse_server_hello_done
  BY <1>2, NoKeyExchangeGoes, ServerKeyExchangeGoes, CertificateRequest12Goes, ServerHelloDone12Goes
     DEF tls12_parse_server_key_exchange
<1>3. CASE \/ tls12_write_client_certificate
           \/ tls12_write_client_key_exchange
           \/ tls12_write_certificate_verify
  BY <1>3, NotAsked12Goes, ClientCertificate12Goes, ClientKeyExchangeGoes, NotSigned12Goes,
     ClientCertificateVerify12Goes DEF tls12_write_client_certificate, tls12_write_certificate_verify
<1>4. CASE \/ tls12_write_change_cipher_spec("client", "CLIENT_CHANGE_CIPHER_SPEC")
           \/ tls12_write_finished("client", "CLIENT_FINISHED")
           \/ tls12_await_ticket
           \/ tls12_parse_new_session_ticket
  BY <1>4, ClientCcs12Goes, ClientFinished12Goes, AwaitTicketGoes, TicketRead12Goes
<1>5. CASE \/ tls12_parse_change_cipher_spec("client", "SERVER_CHANGE_CIPHER_SPEC")
           \/ tls12_parse_finished("client", "SERVER_FINISHED")
  BY <1>5, ServerCcs12Goes, ServerFinished12Goes
<1> QED
  BY <1>1, <1>2, <1>3, <1>4, <1>5 DEF Client12

-----------------------------------------------------------------------------
(* The TLS 1.2 server, in step.                                            *)

\* The server takes the ClientHello, read now or by its TLS 1.3 code.
LEMMA ClientHelloRead12Goes ==
    ASSUME IInv, InStep, tls12_parse_client_hello
    PROVE  Goes
<1> DEFINE u == setup
           c == ssl["server"]
           r == Got("server")
           h == Hash13("server")
<1>1. Reads("server", "tls12", "CLIENT_HELLO")
  BY DEF tls12_parse_client_hello
<1>2. /\ "server" \in Ends /\ "tls12" \in Versions /\ u \in Setup /\ c \in Context
      /\ c.state = "CLIENT_HELLO" /\ c.version = "tls12" /\ c.out = <<>> /\ c.result = "running"
      /\ Running("server")
      /\ Server12Fits(u, c) /\ Reached("server") = Place12(c)
      /\ h \in Context /\ Stays(c, h) /\ ~ h.keep
      /\ h.checksum = Append(c.checksum, <<r.type, r.body>>)
  BY <1>1, ReadIs, FitsIs, TakenIs DEF Ends, Versions
<1> HIDE DEF h
<1>3. ASSUME ~ NoCommonProtocol
      PROVE  Goes
  <2> DEFINE s == h
             b == [s EXCEPT !.state = "SERVER_HELLO"]
  <2>1. /\ Reached("server") = 0 /\ NextLine(u, 0) = 1
        /\ c.checksum = Transcript(u, 0)
    <3>1. Place12(c) = 0
      BY <1>2 DEF Place12
    <3>2. NextLine(u, 0) = 1
      BY <1>2 DEF NextLine, Next12, Server12Fits, Retries, Signs
    <3> QED
      BY <1>2, <3>1, <3>2 DEF Server12Fits, Retries, Signs
  <2>2. Turn(u, 0, 1, 1)
    BY <1>2, Turns12 DEF Server12Fits, Retries, Signs
  <2>3. r.type = Type(1) /\ r.body = Body(u, 1)
    BY <1>1, <1>2, <2>1, Hears
  <2>4. h.checksum = Transcript(u, 1)
    <3>1. Type(1) # "ChangeCipherSpec"
      BY TypeIs
    <3>2. Transcript(u, 1) = Append(Transcript(u, 0), <<Type(1), Body(u, 1)>>)
      BY <2>2, <3>1, SaidIs
    <3>3. h.checksum = Append(c.checksum, <<r.type, r.body>>)
      BY <1>2, <2>1
    <3> QED
      BY <2>1, <2>3, <3>2, <3>3
  <2>5. Accept("server", s, "SERVER_HELLO")
    BY <1>3 DEF tls12_parse_client_hello, h
  <2>6. /\ s \in Context /\ s.out = <<>> /\ s.result = "running" /\ ~ s.keep
        /\ Stays(c, b) /\ b.state = "SERVER_HELLO" /\ ~ b.keep /\ b.checksum = Transcript(u, 1)
    BY <1>2, <2>1, <2>4 DEF Stays, Context
  <2> HIDE DEF b, s
  <2>7. Place("server", b) = 1 /\ FitsPlace(u, "server", b)
    <3>1. Place12(b) = 1
      BY <1>2, <2>1, <2>6 DEF Stays, Place12, Server12Fits
    <3>2. Server12Fits(u, b)
      BY <1>2, <2>1, <2>6, <3>1 DEF Stays, Server12Fits, Retries, Signs
    <3> QED
      BY <1>2, <2>1, <2>6, <3>1, <3>2 DEF Stays, Place, FitsPlace
  <2>8. "SERVER_HELLO" \in StateNames \ {"HANDSHAKE_OVER"}
    BY DEF StateNames, Client13States, Server13States, Client12States
  <2> QED
    BY <1>1, <1>2, <2>1, <2>2, <2>5, <2>6, <2>7, <2>8, AcceptGoes DEF b
<1>4. ASSUME NoCommonProtocol
      PROVE  Goes
  <2>1. Fail("server", "no_application_protocol", FatalAlert("server"))
    BY <1>4 DEF Refuse, tls12_parse_client_hello
  <2>2. /\ "no_application_protocol" \in Refusals
        /\ Explained("server", "no_application_protocol")
    BY <1>4 DEF Refusals, Explained
  <2>3. Takes("server") # {} /\ Has("server")
    BY <1>1 DEF Reads
  <2> QED
    BY <1>2, <2>1, <2>2, <2>3, FailGoes
<1> QED
  BY <1>3, <1>4

\* The server says hello in TLS 1.2.
LEMMA ServerHelloWritten12Goes ==
    ASSUME IInv, InStep, tls12_write_server_hello
    PROVE  Goes
<1> DEFINE u == setup
           c == ssl["server"]
<1>1. At("server", "tls12", "SERVER_HELLO")
  BY DEF tls12_write_server_hello
<1>2. /\ "server" \in Ends /\ "tls12" \in Versions /\ u \in Setup /\ c \in Context
      /\ c.state = "SERVER_HELLO" /\ c.version = "tls12" /\ c.out = <<>> /\ c.result = "running"
      /\ Running("server")
      /\ Server12Fits(u, c) /\ Reached("server") = Place12(c)
  BY <1>1, AtIs, FitsIs DEF Ends, Versions
<1>3. Goes
  <2> DEFINE s == [c EXCEPT !.newTicket = u.ticket]
             w == Written(s, Type(17), Body(u, 17), "SERVER_CERTIFICATE")
  <2>1. /\ Reached("server") = 1
        /\ c.checksum = Transcript(u, 1) /\ ~ c.keep
    <3>1. Place12(c) = 1
      BY <1>2 DEF Place12
    <3> QED
      BY <1>2, <3>1 DEF Server12Fits, Retries, Signs
  <2>2. Turn(u, 1, 17, 17)
    BY <1>2, Turns12 DEF Server12Fits, Retries, Signs
  <2>3. Write("server", s, Type(17), Body(u, 17), "SERVER_CERTIFICATE")
    BY <1>2, TypeIs, Steps12 DEF Body, tls12_write_server_hello, ServerHello12, Retries, Signs,
       Server12Fits
  <2>4. /\ s \in Context /\ Stays([c EXCEPT !.newTicket = u.ticket], s) /\ s.checksum = c.checksum
        /\ s.keep = c.keep /\ s.msg = c.msg
        /\ 17 \notin PassedOver => s.outKey = Key(17)
    <3>1. 17 \notin PassedOver => s.outKey = Key(17)
      BY <1>2, <2>1 DEF Context, Key, PassedOver, Server12Fits
    <3>2. /\ s \in Context /\ Stays([c EXCEPT !.newTicket = u.ticket], s) /\ s.checksum = c.checksum
          /\ s.keep = c.keep /\ s.msg = c.msg
      BY <1>2 DEF Stays, Context, Keys, Setup
    <3> QED
      BY <3>1, <3>2
  <2>5. "SERVER_CERTIFICATE" \in StateNames
    BY DEF StateNames, Client13States, Server13States, Client12States
  <2> HIDE DEF s, w
  <2>6. /\ Stays(s, w) /\ w.state = "SERVER_CERTIFICATE" /\ w.keep = s.keep
        /\ w.checksum = Transcript(u, 17)
    BY <1>2, <2>1, <2>2, <2>4, <2>5, SaysLine DEF w
  <2>7. Place("server", w) = 17 /\ FitsPlace(u, "server", w)
    <3>1. Place12(w) = 17
      BY <1>2, <2>1, <2>4, <2>6 DEF Stays, Context, Place12, Server12Fits
    <3>2. Server12Fits(u, w)
      BY <1>2, <2>1, <2>4, <2>6, <3>1 DEF Stays, Context, Server12Fits, Retries, Signs
    <3> QED
      BY <1>2, <2>1, <2>4, <2>6, <3>1, <3>2 DEF Stays, Context, Place, FitsPlace
  <2>8. Speaks("server", s, 1, 17, 17, "SERVER_CERTIFICATE")
    BY <1>2, <2>1, <2>2, <2>3, <2>4, <2>5, <2>7 DEF Speaks, Stays, Context, w, Speaker
  <2> QED
    BY <1>2, <2>8, SpeaksGoes
<1> QED
  BY <1>3

\* The server says its certificate.
LEMMA ServerCertificateWritten12Goes ==
    ASSUME IInv, InStep, tls12_write_server_certificate
    PROVE  Goes
<1> DEFINE u == setup
           c == ssl["server"]
<1>1. At("server", "tls12", "SERVER_CERTIFICATE")
  BY DEF tls12_write_server_certificate, Write12
<1>2. /\ "server" \in Ends /\ "tls12" \in Versions /\ u \in Setup /\ c \in Context
      /\ c.state = "SERVER_CERTIFICATE" /\ c.version = "tls12" /\ c.out = <<>>
      /\ c.result = "running" /\ Running("server")
      /\ Server12Fits(u, c) /\ Reached("server") = Place12(c)
  BY <1>1, AtIs, FitsIs DEF Ends, Versions
<1>3. Goes
  <2> DEFINE s == c
             w == Written(s, Type(18), Body(u, 18), "SERVER_KEY_EXCHANGE")
  <2>1. /\ Reached("server") = 17
        /\ c.checksum = Transcript(u, 17) /\ ~ c.keep
    <3>1. Place12(c) = 17
      <4>1. c.state = "SERVER_CERTIFICATE"
        BY <1>2
      <4> QED
        BY <4>1 DEF Place12
    <3> QED
      BY <1>2, <3>1 DEF Server12Fits, Retries, Signs
  <2>2. Turn(u, 17, 18, 18)
    BY <1>2, Turns12 DEF Server12Fits, Retries, Signs
  <2>3. Write("server", s, Type(18), Body(u, 18), "SERVER_KEY_EXCHANGE")
    BY <1>2, TypeIs, Steps12 DEF Body, tls12_write_server_certificate, Write12, Retries, Signs,
       Server12Fits
  <2>4. /\ s \in Context /\ Stays(c, s) /\ s.checksum = c.checksum
        /\ s.keep = c.keep /\ s.msg = c.msg
        /\ 18 \notin PassedOver => s.outKey = Key(18)
    <3>1. 18 \notin PassedOver => s.outKey = Key(18)
      BY <1>2, <2>1 DEF Context, Key, PassedOver, Server12Fits
    <3>2. /\ s \in Context /\ Stays(c, s) /\ s.checksum = c.checksum /\ s.keep = c.keep
          /\ s.msg = c.msg
      BY <1>2 DEF Stays, Context, Keys
    <3> QED
      BY <3>1, <3>2
  <2>5. "SERVER_KEY_EXCHANGE" \in StateNames
    BY DEF StateNames, Client13States, Server13States, Client12States
  <2> HIDE DEF s, w
  <2>6. /\ Stays(s, w) /\ w.state = "SERVER_KEY_EXCHANGE" /\ w.keep = s.keep
        /\ w.checksum = Transcript(u, 18)
    BY <1>2, <2>1, <2>2, <2>4, <2>5, SaysLine DEF w
  <2>7. Place("server", w) = 18 /\ FitsPlace(u, "server", w)
    <3>1. Place12(w) = 18
      BY <1>2, <2>1, <2>4, <2>6 DEF Stays, Place12, Server12Fits
    <3>2. Server12Fits(u, w)
      BY <1>2, <2>1, <2>4, <2>6, <3>1 DEF Stays, Server12Fits, Retries, Signs
    <3> QED
      BY <1>2, <2>1, <2>4, <2>6, <3>1, <3>2 DEF Stays, Place, FitsPlace
  <2>8. Speaks("server", s, 17, 18, 18, "SERVER_KEY_EXCHANGE")
    BY <1>2, <2>1, <2>2, <2>3, <2>4, <2>5, <2>7 DEF Speaks, Stays, Context, w, Speaker
  <2> QED
    BY <1>2, <2>8, SpeaksGoes
<1> QED
  BY <1>3

\* The server has no ServerKeyExchange to say.
LEMMA NoKeyExchangeWrittenGoes ==
    ASSUME IInv, InStep, Skip12("server", "SERVER_KEY_EXCHANGE", setup.rsa)
    PROVE  Goes
<1> DEFINE u == setup
           c == ssl["server"]
<1>1. At("server", "tls12", "SERVER_KEY_EXCHANGE")
  BY DEF Skip12
<1>2. /\ "server" \in Ends /\ "tls12" \in Versions /\ u \in Setup /\ c \in Context
      /\ c.state = "SERVER_KEY_EXCHANGE" /\ c.version = "tls12" /\ c.out = <<>>
      /\ c.result = "running" /\ Running("server")
      /\ Server12Fits(u, c) /\ Reached("server") = Place12(c)
  BY <1>1, AtIs, FitsIs DEF Ends, Versions
<1>3. u.rsa
  BY DEF Skip12
<1>4. Goes
  <2> DEFINE b == [c EXCEPT !.state = "CERTIFICATE_REQUEST"]
  <2>1. /\ Reached("server") = 18
        /\ c.checksum = Transcript(u, 18) /\ ~ c.keep
    <3>1. Place12(c) = 18
      <4>1. c.state = "SERVER_KEY_EXCHANGE"
        BY <1>2
      <4> QED
        BY <4>1 DEF Place12
    <3> QED
      BY <1>2, <1>3, <3>1 DEF Server12Fits, Retries, Signs
  <2>2. Turn(u, 18, 19, 0)
    BY <1>2, <1>3, Turns12 DEF Server12Fits, Retries, Signs
  <2>3. Transcript(u, 19) = Transcript(u, 18)
    BY <2>2, SaidIs
  <2>4. Become("server", b)
    BY <1>2, <1>3, Steps12 DEF Skip12, Go, Retries, Signs
  <2>5. /\ Stays(c, b) /\ b.state = "CERTIFICATE_REQUEST" /\ b.keep = c.keep /\ b.msg = c.msg
        /\ b.checksum = c.checksum
    BY <1>2 DEF Stays, Context
  <2> HIDE DEF b
  <2>6. Place("server", b) = 19 /\ FitsPlace(u, "server", b)
    <3>1. Place12(b) = 19
      BY <1>2, <1>3, <2>1, <2>3, <2>5 DEF Stays, Place12, Server12Fits
    <3>2. Server12Fits(u, b)
      BY <1>2, <1>3, <2>1, <2>3, <2>5, <3>1 DEF Stays, Server12Fits, Retries, Signs
    <3> QED
      BY <1>2, <2>1, <2>3, <2>5, <3>1, <3>2 DEF Stays, Place, FitsPlace
  <2> QED
    BY <1>2, <2>1, <2>2, <2>4, <2>5, <2>6, BecomeGoes DEF Stays, Context
<1> QED
  BY <1>4

\* The server says ServerKeyExchange.
LEMMA KeyExchangeWrittenGoes ==
    ASSUME IInv, InStep, tls12_write_server_key_exchange, ~ setup.rsa
    PROVE  Goes
<1> DEFINE u == setup
           c == ssl["server"]
<1>1. At("server", "tls12", "SERVER_KEY_EXCHANGE")
  BY DEF tls12_write_server_key_exchange, Skip12, Write12
<1>2. /\ "server" \in Ends /\ "tls12" \in Versions /\ u \in Setup /\ c \in Context
      /\ c.state = "SERVER_KEY_EXCHANGE" /\ c.version = "tls12" /\ c.out = <<>>
      /\ c.result = "running" /\ Running("server")
      /\ Server12Fits(u, c) /\ Reached("server") = Place12(c)
  BY <1>1, AtIs, FitsIs DEF Ends, Versions
<1>3. Goes
  <2> DEFINE s == c
             w == Written(s, Type(19), Body(u, 19), "CERTIFICATE_REQUEST")
  <2>1. /\ Reached("server") = 18
        /\ c.checksum = Transcript(u, 18) /\ ~ c.keep
    <3>1. Place12(c) = 18
      <4>1. c.state = "SERVER_KEY_EXCHANGE"
        BY <1>2
      <4> QED
        BY <4>1 DEF Place12
    <3> QED
      BY <1>2, <3>1 DEF Server12Fits, Retries, Signs
  <2>2. Turn(u, 18, 19, 19)
    BY <1>2, Turns12 DEF Server12Fits, Retries, Signs
  <2>3. Write("server", s, Type(19), Body(u, 19), "CERTIFICATE_REQUEST")
    BY <1>2, TypeIs, Steps12 DEF Body, tls12_write_server_key_exchange, Skip12, Write12, Retries,
       Signs,
       Server12Fits
  <2>4. /\ s \in Context /\ Stays(c, s) /\ s.checksum = c.checksum
        /\ s.keep = c.keep /\ s.msg = c.msg
        /\ 19 \notin PassedOver => s.outKey = Key(19)
    <3>1. 19 \notin PassedOver => s.outKey = Key(19)
      BY <1>2, <2>1 DEF Context, Key, PassedOver, Server12Fits
    <3>2. /\ s \in Context /\ Stays(c, s) /\ s.checksum = c.checksum /\ s.keep = c.keep
          /\ s.msg = c.msg
      BY <1>2 DEF Stays, Context, Keys
    <3> QED
      BY <3>1, <3>2
  <2>5. "CERTIFICATE_REQUEST" \in StateNames
    BY DEF StateNames, Client13States, Server13States, Client12States
  <2> HIDE DEF s, w
  <2>6. /\ Stays(s, w) /\ w.state = "CERTIFICATE_REQUEST" /\ w.keep = s.keep
        /\ w.checksum = Transcript(u, 19)
    BY <1>2, <2>1, <2>2, <2>4, <2>5, SaysLine DEF w
  <2>7. Place("server", w) = 19 /\ FitsPlace(u, "server", w)
    <3>1. Place12(w) = 19
      BY <1>2, <2>1, <2>4, <2>6 DEF Stays, Place12, Server12Fits
    <3>2. Server12Fits(u, w)
      BY <1>2, <2>1, <2>4, <2>6, <3>1 DEF Stays, Server12Fits, Retries, Signs
    <3> QED
      BY <1>2, <2>1, <2>4, <2>6, <3>1, <3>2 DEF Stays, Place, FitsPlace
  <2>8. Speaks("server", s, 18, 19, 19, "CERTIFICATE_REQUEST")
    BY <1>2, <2>1, <2>2, <2>3, <2>4, <2>5, <2>7 DEF Speaks, Stays, Context, w, Speaker
  <2> QED
    BY <1>2, <2>8, SpeaksGoes
<1> QED
  BY <1>3

\* The server asks for no certificate.
LEMMA NoCertificateRequestWritten12Goes ==
    ASSUME IInv, InStep, Skip12("server", "CERTIFICATE_REQUEST", ~ Wanted(setup))
    PROVE  Goes
<1> DEFINE u == setup
           c == ssl["server"]
<1>1. At("server", "tls12", "CERTIFICATE_REQUEST")
  BY DEF Skip12
<1>2. /\ "server" \in Ends /\ "tls12" \in Versions /\ u \in Setup /\ c \in Context
      /\ c.state = "CERTIFICATE_REQUEST" /\ c.version = "tls12" /\ c.out = <<>>
      /\ c.result = "running" /\ Running("server")
      /\ Server12Fits(u, c) /\ Reached("server") = Place12(c)
  BY <1>1, AtIs, FitsIs DEF Ends, Versions
<1>3. ~ Wanted(u)
  BY DEF Skip12
<1>4. Goes
  <2> DEFINE b == [c EXCEPT !.state = "SERVER_HELLO_DONE"]
  <2>1. /\ Reached("server") = 19
        /\ c.checksum = Transcript(u, 19) /\ ~ c.keep
    <3>1. Place12(c) = 19
      <4>1. c.state = "CERTIFICATE_REQUEST"
        BY <1>2
      <4> QED
        BY <4>1 DEF Place12
    <3> QED
      BY <1>2, <1>3, <3>1 DEF Server12Fits, Retries, Signs
  <2>2. Turn(u, 19, 20, 0)
    BY <1>2, <1>3, Turns12 DEF Server12Fits, Retries, Signs
  <2>3. Transcript(u, 20) = Transcript(u, 19)
    BY <2>2, SaidIs
  <2>4. Become("server", b)
    BY <1>2, <1>3, Steps12 DEF Skip12, Go, Retries, Signs
  <2>5. /\ Stays(c, b) /\ b.state = "SERVER_HELLO_DONE" /\ b.keep = c.keep /\ b.msg = c.msg
        /\ b.checksum = c.checksum
    BY <1>2 DEF Stays, Context
  <2> HIDE DEF b
  <2>6. Place("server", b) = 20 /\ FitsPlace(u, "server", b)
    <3>1. Place12(b) = 20
      BY <1>2, <1>3, <2>1, <2>3, <2>5 DEF Stays, Place12, Server12Fits
    <3>2. Server12Fits(u, b)
      BY <1>2, <1>3, <2>1, <2>3, <2>5, <3>1 DEF Stays, Server12Fits, Retries, Signs
    <3> QED
      BY <1>2, <2>1, <2>3, <2>5, <3>1, <3>2 DEF Stays, Place, FitsPlace
  <2> QED
    BY <1>2, <2>1, <2>2, <2>4, <2>5, <2>6, BecomeGoes DEF Stays, Context
<1> QED
  BY <1>4

\* The server asks for a certificate.
LEMMA CertificateRequestWritten12Goes ==
    ASSUME IInv, InStep, tls12_write_certificate_request, Wanted(setup)
    PROVE  Goes
<1> DEFINE u == setup
           c == ssl["server"]
<1>1. At("server", "tls12", "CERTIFICATE_REQUEST")
  BY DEF tls12_write_certificate_request, Skip12, Write12, Wanted
<1>2. /\ "server" \in Ends /\ "tls12" \in Versions /\ u \in Setup /\ c \in Context
      /\ c.state = "CERTIFICATE_REQUEST" /\ c.version = "tls12" /\ c.out = <<>>
      /\ c.result = "running" /\ Running("server")
      /\ Server12Fits(u, c) /\ Reached("server") = Place12(c)
  BY <1>1, AtIs, FitsIs DEF Ends, Versions
<1>3. Goes
  <2> DEFINE s == c
             w == Written(s, Type(20), Body(u, 20), "SERVER_HELLO_DONE")
  <2>1. /\ Reached("server") = 19
        /\ c.checksum = Transcript(u, 19) /\ ~ c.keep
    <3>1. Place12(c) = 19
      <4>1. c.state = "CERTIFICATE_REQUEST"
        BY <1>2
      <4> QED
        BY <4>1 DEF Place12
    <3> QED
      BY <1>2, <3>1 DEF Server12Fits, Retries, Signs
  <2>2. Turn(u, 19, 20, 20)
    BY <1>2, Turns12 DEF Server12Fits, Retries, Signs
  <2>3. Write("server", s, Type(20), Body(u, 20), "SERVER_HELLO_DONE")
    BY <1>2, TypeIs, Steps12 DEF Body, tls12_write_certificate_request, Skip12, Write12, Wanted,
       Retries,
       Signs, Server12Fits
  <2>4. /\ s \in Context /\ Stays(c, s) /\ s.checksum = c.checksum
        /\ s.keep = c.keep /\ s.msg = c.msg
        /\ 20 \notin PassedOver => s.outKey = Key(20)
    <3>1. 20 \notin PassedOver => s.outKey = Key(20)
      BY <1>2, <2>1 DEF Context, Key, PassedOver, Server12Fits
    <3>2. /\ s \in Context /\ Stays(c, s) /\ s.checksum = c.checksum /\ s.keep = c.keep
          /\ s.msg = c.msg
      BY <1>2 DEF Stays, Context, Keys
    <3> QED
      BY <3>1, <3>2
  <2>5. "SERVER_HELLO_DONE" \in StateNames
    BY DEF StateNames, Client13States, Server13States, Client12States
  <2> HIDE DEF s, w
  <2>6. /\ Stays(s, w) /\ w.state = "SERVER_HELLO_DONE" /\ w.keep = s.keep
        /\ w.checksum = Transcript(u, 20)
    BY <1>2, <2>1, <2>2, <2>4, <2>5, SaysLine DEF w
  <2>7. Place("server", w) = 20 /\ FitsPlace(u, "server", w)
    <3>1. Place12(w) = 20
      BY <1>2, <2>1, <2>4, <2>6 DEF Stays, Place12, Server12Fits
    <3>2. Server12Fits(u, w)
      BY <1>2, <2>1, <2>4, <2>6, <3>1 DEF Stays, Server12Fits, Retries, Signs
    <3> QED
      BY <1>2, <2>1, <2>4, <2>6, <3>1, <3>2 DEF Stays, Place, FitsPlace
  <2>8. Speaks("server", s, 19, 20, 20, "SERVER_HELLO_DONE")
    BY <1>2, <2>1, <2>2, <2>3, <2>4, <2>5, <2>7 DEF Speaks, Stays, Context, w, Speaker
  <2> QED
    BY <1>2, <2>8, SpeaksGoes
<1> QED
  BY <1>3

\* The server says ServerHelloDone.
LEMMA ServerHelloDoneWrittenGoes ==
    ASSUME IInv, InStep, tls12_write_server_hello_done
    PROVE  Goes
<1> DEFINE u == setup
           c == ssl["server"]
<1>1. At("server", "tls12", "SERVER_HELLO_DONE")
  BY DEF tls12_write_server_hello_done, Write12
<1>2. /\ "server" \in Ends /\ "tls12" \in Versions /\ u \in Setup /\ c \in Context
      /\ c.state = "SERVER_HELLO_DONE" /\ c.version = "tls12" /\ c.out = <<>>
      /\ c.result = "running" /\ Running("server")
      /\ Server12Fits(u, c) /\ Reached("server") = Place12(c)
  BY <1>1, AtIs, FitsIs DEF Ends, Versions
<1>3. Goes
  <2> DEFINE s == c
             w == Written(s, Type(21), Body(u, 21), "CLIENT_CERTIFICATE")
  <2>1. /\ Reached("server") = 20
        /\ c.checksum = Transcript(u, 20) /\ ~ c.keep
    <3>1. Place12(c) = 20
      <4>1. c.state = "SERVER_HELLO_DONE"
        BY <1>2
      <4> QED
        BY <4>1 DEF Place12
    <3> QED
      BY <1>2, <3>1 DEF Server12Fits, Retries, Signs
  <2>2. Turn(u, 20, 21, 21)
    BY <1>2, Turns12 DEF Server12Fits, Retries, Signs
  <2>3. Write("server", s, Type(21), Body(u, 21), "CLIENT_CERTIFICATE")
    BY <1>2, TypeIs, Steps12 DEF Body, tls12_write_server_hello_done, Write12, Retries, Signs,
       Server12Fits
  <2>4. /\ s \in Context /\ Stays(c, s) /\ s.checksum = c.checksum
        /\ s.keep = c.keep /\ s.msg = c.msg
        /\ 21 \notin PassedOver => s.outKey = Key(21)
    <3>1. 21 \notin PassedOver => s.outKey = Key(21)
      BY <1>2, <2>1 DEF Context, Key, PassedOver, Server12Fits
    <3>2. /\ s \in Context /\ Stays(c, s) /\ s.checksum = c.checksum /\ s.keep = c.keep
          /\ s.msg = c.msg
      BY <1>2 DEF Stays, Context, Keys
    <3> QED
      BY <3>1, <3>2
  <2>5. "CLIENT_CERTIFICATE" \in StateNames
    BY DEF StateNames, Client13States, Server13States, Client12States
  <2> HIDE DEF s, w
  <2>6. /\ Stays(s, w) /\ w.state = "CLIENT_CERTIFICATE" /\ w.keep = s.keep
        /\ w.checksum = Transcript(u, 21)
    BY <1>2, <2>1, <2>2, <2>4, <2>5, SaysLine DEF w
  <2>7. Place("server", w) = 21 /\ FitsPlace(u, "server", w)
    <3>1. Place12(w) = 21
      BY <1>2, <2>1, <2>4, <2>6 DEF Stays, Place12, Server12Fits
    <3>2. Server12Fits(u, w)
      BY <1>2, <2>1, <2>4, <2>6, <3>1 DEF Stays, Server12Fits, Retries, Signs
    <3> QED
      BY <1>2, <2>1, <2>4, <2>6, <3>1, <3>2 DEF Stays, Place, FitsPlace
  <2>8. Speaks("server", s, 20, 21, 21, "CLIENT_CERTIFICATE")
    BY <1>2, <2>1, <2>2, <2>3, <2>4, <2>5, <2>7 DEF Speaks, Stays, Context, w, Speaker
  <2> QED
    BY <1>2, <2>8, SpeaksGoes
<1> QED
  BY <1>3

\* The server expects no certificate.
LEMMA CertificateSkippedGoes ==
    ASSUME IInv, InStep, tls12_skip_certificate
    PROVE  Goes
<1> DEFINE u == setup
           c == ssl["server"]
<1>1. At("server", "tls12", "CLIENT_CERTIFICATE")
  BY DEF tls12_skip_certificate, Skip12
<1>2. /\ "server" \in Ends /\ "tls12" \in Versions /\ u \in Setup /\ c \in Context
      /\ c.state = "CLIENT_CERTIFICATE" /\ c.version = "tls12" /\ c.out = <<>>
      /\ c.result = "running" /\ Running("server")
      /\ Server12Fits(u, c) /\ Reached("server") = Place12(c)
  BY <1>1, AtIs, FitsIs DEF Ends, Versions
<1>3. ~ Wanted(u)
  BY DEF tls12_skip_certificate, Skip12, Wanted
<1>4. Goes
  <2> DEFINE b == [c EXCEPT !.state = "CLIENT_KEY_EXCHANGE"]
  <2>1. /\ Reached("server") = 21
        /\ c.checksum = Transcript(u, 21) /\ ~ c.keep
    <3>1. Place12(c) = 21
      <4>1. c.state = "CLIENT_CERTIFICATE"
        BY <1>2
      <4> QED
        BY <4>1 DEF Place12
    <3> QED
      BY <1>2, <1>3, <3>1 DEF Server12Fits, Retries, Signs
  <2>2. Turn(u, 21, 22, 0)
    BY <1>2, <1>3, Turns12 DEF Server12Fits, Retries, Signs
  <2>3. Transcript(u, 22) = Transcript(u, 21)
    BY <2>2, SaidIs
  <2>4. Become("server", b)
    BY <1>2, <1>3, Steps12 DEF tls12_skip_certificate, Skip12, Go, Retries, Signs
  <2>5. /\ Stays(c, b) /\ b.state = "CLIENT_KEY_EXCHANGE" /\ b.keep = c.keep /\ b.msg = c.msg
        /\ b.checksum = c.checksum
    BY <1>2 DEF Stays, Context
  <2> HIDE DEF b
  <2>6. Place("server", b) = 22 /\ FitsPlace(u, "server", b)
    <3>1. Place12(b) = 22
      BY <1>2, <1>3, <2>1, <2>3, <2>5 DEF Stays, Place12, Server12Fits
    <3>2. Server12Fits(u, b)
      BY <1>2, <1>3, <2>1, <2>3, <2>5, <3>1 DEF Stays, Server12Fits, Retries, Signs
    <3> QED
      BY <1>2, <2>1, <2>3, <2>5, <3>1, <3>2 DEF Stays, Place, FitsPlace
  <2> QED
    BY <1>2, <2>1, <2>2, <2>4, <2>5, <2>6, BecomeGoes DEF Stays, Context
<1> QED
  BY <1>4

\* The server takes the client's certificate, does without one, or refuses it.
LEMMA ClientCertificateRead12Goes ==
    ASSUME IInv, InStep, tls12_parse_certificate("server", "CLIENT_CERTIFICATE")
    PROVE  Goes
<1> DEFINE u == setup
           c == ssl["server"]
           r == Got("server")
           h == Hash12("server")
<1>1. Reads("server", "tls12", "CLIENT_CERTIFICATE")
  BY DEF tls12_parse_certificate
<1>2. /\ "server" \in Ends /\ "tls12" \in Versions /\ u \in Setup /\ c \in Context
      /\ c.state = "CLIENT_CERTIFICATE" /\ c.version = "tls12" /\ c.out = <<>>
      /\ c.result = "running" /\ Running("server")
      /\ Server12Fits(u, c) /\ Reached("server") = Place12(c)
      /\ h \in Context /\ Stays(c, h) /\ ~ h.keep
      /\ h.checksum = IF c.keep THEN c.checksum ELSE Append(c.checksum, <<r.type, r.body>>)
  BY <1>1, ReadIs, FitsIs, TakenIs DEF Ends, Versions
<1> HIDE DEF h
<1>3. Wanted(u)
  BY <1>1, <1>2 DEF Reads, Takes, Takes12, Wanted
<1>4. /\ u.cert["client"] \in {"empty", "good", "bad"}
      /\ u.authmode["server"] \in {"none", "optional", "required"}
  BY <1>2 DEF Setup, Ends, Authmodes, Certificates
<1>5. ASSUME u.cert["client"] = "good" \/ u.authmode["server"] # "required"
      PROVE  Goes
  <2> DEFINE s == [h EXCEPT !.peerCert = u.cert["client"]]
             b == [s EXCEPT !.state = "CLIENT_KEY_EXCHANGE"]
  <2>1. /\ Reached("server") = 21 /\ NextLine(u, 21) = 22
        /\ c.checksum = Transcript(u, 21) /\ ~ c.keep
    <3>1. Place12(c) = 21
      <4>1. c.state = "CLIENT_CERTIFICATE"
        BY <1>2
      <4> QED
        BY <4>1 DEF Place12
    <3>2. NextLine(u, 21) = 22
      BY <1>2, <1>3, <1>4, <1>5 DEF NextLine, Next12, Server12Fits, Retries, Signs
    <3> QED
      BY <1>2, <1>3, <1>4, <1>5, <3>1, <3>2 DEF Server12Fits, Retries, Signs
  <2>2. Turn(u, 21, 22, 22)
    BY <1>2, <1>3, <1>4, <1>5, Turns12 DEF Server12Fits, Retries, Signs
  <2>3. r.type = Type(22) /\ r.body = Body(u, 22)
    BY <1>1, <1>2, <2>1, Hears
  <2>4. h.checksum = Transcript(u, 22)
    <3>1. Type(22) # "ChangeCipherSpec"
      BY TypeIs
    <3>2. Transcript(u, 22) = Append(Transcript(u, 21), <<Type(22), Body(u, 22)>>)
      BY <2>2, <3>1, SaidIs
    <3>3. h.checksum = Append(c.checksum, <<r.type, r.body>>)
      BY <1>2, <2>1
    <3> QED
      BY <2>1, <2>3, <3>2, <3>3
  <2>5. Accept("server", s, "CLIENT_KEY_EXCHANGE")
    <3>1. r.type = "Certificate" /\ r.body = u.cert["client"]
      <4>1. Type(22) = "Certificate" /\ Body(u, 22) = u.cert["client"]
        BY DEF Type, Body
      <4> QED
        BY <2>3, <4>1
    <3> QED
      BY <1>2, <1>3, <1>4, <1>5, <3>1, Steps12 DEF tls12_parse_certificate, Forgiven, Wanted, h
  <2>6. /\ s \in Context /\ s.out = <<>> /\ s.result = "running" /\ ~ s.keep
        /\ Stays([c EXCEPT !.peerCert = u.cert["client"]], b) /\ b.state = "CLIENT_KEY_EXCHANGE"
        /\ ~ b.keep /\ b.checksum = Transcript(u, 22)
    BY <1>2, <1>3, <1>4, <1>5, <2>1, <2>4 DEF Stays, Context, Certificates
  <2> HIDE DEF b, s
  <2>7. Place("server", b) = 22 /\ FitsPlace(u, "server", b)
    <3>1. Place12(b) = 22
      BY <1>2, <1>3, <1>4, <1>5, <2>1, <2>6 DEF Stays, Context, Place12, Server12Fits
    <3>2. Server12Fits(u, b)
      BY <1>2, <1>3, <1>4, <1>5, <2>1, <2>6, <3>1 DEF Stays, Context, Server12Fits, Retries, Signs
    <3> QED
      BY <1>2, <2>1, <2>6, <3>1, <3>2 DEF Stays, Context, Place, FitsPlace
  <2>8. "CLIENT_KEY_EXCHANGE" \in StateNames \ {"HANDSHAKE_OVER"}
    BY DEF StateNames, Client13States, Server13States, Client12States
  <2> QED
    BY <1>1, <1>2, <2>1, <2>2, <2>5, <2>6, <2>7, <2>8, AcceptGoes DEF b
<1>6. ASSUME u.cert["client"] = "empty", u.authmode["server"] = "required"
      PROVE  Goes
  <2>1. /\ Reached("server") = 21 /\ NextLine(u, 21) = 22
        /\ c.checksum = Transcript(u, 21) /\ ~ c.keep
    <3>1. Place12(c) = 21
      <4>1. c.state = "CLIENT_CERTIFICATE"
        BY <1>2
      <4> QED
        BY <4>1 DEF Place12
    <3>2. NextLine(u, 21) = 22
      BY <1>2, <1>3, <1>4, <1>6 DEF NextLine, Next12, Server12Fits, Retries, Signs
    <3> QED
      BY <1>2, <1>3, <1>4, <1>6, <3>1, <3>2 DEF Server12Fits, Retries, Signs
  <2>2. r.type = Type(22) /\ r.body = Body(u, 22)
    BY <1>1, <1>2, <2>1, Hears
  <2>3. Fail("server", "no_certificate", <<>>)
    BY <1>2, <1>3, <1>4, <1>6, <2>2 DEF Body, Forgiven, Refuse, Quit, tls12_parse_certificate
  <2>4. "no_certificate" \in Refusals /\ Explained("server", "no_certificate")
    BY <1>2, <1>3, <1>4, <1>6 DEF Refusals, Explained, Unacceptable, Asks, Other, Wanted
  <2>5. Takes("server") # {} /\ Has("server")
    BY <1>1 DEF Reads
  <2> QED
    BY <1>2, <2>3, <2>4, <2>5, FailGoes
<1>7. ASSUME u.cert["client"] = "bad", u.authmode["server"] = "required"
      PROVE  Goes
  <2>1. /\ Reached("server") = 21 /\ NextLine(u, 21) = 22
        /\ c.checksum = Transcript(u, 21) /\ ~ c.keep
    <3>1. Place12(c) = 21
      <4>1. c.state = "CLIENT_CERTIFICATE"
        BY <1>2
      <4> QED
        BY <4>1 DEF Place12
    <3>2. NextLine(u, 21) = 22
      BY <1>2, <1>3, <1>4, <1>7 DEF NextLine, Next12, Server12Fits, Retries, Signs
    <3> QED
      BY <1>2, <1>3, <1>4, <1>7, <3>1, <3>2 DEF Server12Fits, Retries, Signs
  <2>2. r.type = Type(22) /\ r.body = Body(u, 22)
    BY <1>1, <1>2, <2>1, Hears
  <2>3. Fail("server", "bad_certificate", FatalAlert("server"))
    BY <1>2, <1>3, <1>4, <1>7, <2>2 DEF Body, Forgiven, Refuse, Quit, tls12_parse_certificate
  <2>4. "bad_certificate" \in Refusals /\ Explained("server", "bad_certificate")
    BY <1>2, <1>3, <1>4, <1>7 DEF Refusals, Explained, Unacceptable, Asks, Other
  <2>5. Takes("server") # {} /\ Has("server")
    BY <1>1 DEF Reads
  <2> QED
    BY <1>2, <2>3, <2>4, <2>5, FailGoes
<1> QED
  BY <1>2, <1>3, <1>4, <1>5, <1>6, <1>7

\* The server takes the ClientKeyExchange.
LEMMA ClientKeyExchangeReadGoes ==
    ASSUME IInv, InStep, tls12_parse_client_key_exchange
    PROVE  Goes
<1> DEFINE u == setup
           c == ssl["server"]
           r == Got("server")
           h == Hash12("server")
<1>1. Reads("server", "tls12", "CLIENT_KEY_EXCHANGE")
  BY DEF tls12_parse_client_key_exchange
<1>2. /\ "server" \in Ends /\ "tls12" \in Versions /\ u \in Setup /\ c \in Context
      /\ c.state = "CLIENT_KEY_EXCHANGE" /\ c.version = "tls12" /\ c.out = <<>>
      /\ c.result = "running" /\ Running("server")
      /\ Server12Fits(u, c) /\ Reached("server") = Place12(c)
      /\ h \in Context /\ Stays(c, h) /\ ~ h.keep
      /\ h.checksum = IF c.keep THEN c.checksum ELSE Append(c.checksum, <<r.type, r.body>>)
  BY <1>1, ReadIs, FitsIs, TakenIs DEF Ends, Versions
<1> HIDE DEF h
<1>3. Goes
  <2> DEFINE s == h
             b == [s EXCEPT !.state = "CERTIFICATE_VERIFY"]
  <2>1. /\ Reached("server") = 22 /\ NextLine(u, 22) = 23
        /\ c.checksum = Transcript(u, 22) /\ ~ c.keep
    <3>1. Place12(c) = 22
      <4>1. c.state = "CLIENT_KEY_EXCHANGE"
        BY <1>2
      <4> QED
        BY <4>1 DEF Place12
    <3>2. NextLine(u, 22) = 23
      BY <1>2 DEF NextLine, Next12, Server12Fits, Retries, Signs
    <3> QED
      BY <1>2, <3>1, <3>2 DEF Server12Fits, Retries, Signs
  <2>2. Turn(u, 22, 23, 23)
    BY <1>2, Turns12 DEF Server12Fits, Retries, Signs
  <2>3. r.type = Type(23) /\ r.body = Body(u, 23)
    BY <1>1, <1>2, <2>1, Hears
  <2>4. h.checksum = Transcript(u, 23)
    <3>1. Type(23) # "ChangeCipherSpec"
      BY TypeIs
    <3>2. Transcript(u, 23) = Append(Transcript(u, 22), <<Type(23), Body(u, 23)>>)
      BY <2>2, <3>1, SaidIs
    <3>3. h.checksum = Append(c.checksum, <<r.type, r.body>>)
      BY <1>2, <2>1
    <3> QED
      BY <2>1, <2>3, <3>2, <3>3
  <2>5. Accept("server", s, "CERTIFICATE_VERIFY")
    BY <1>2, <2>3, TypeIs, Steps12 DEF Body, tls12_parse_client_key_exchange, h
  <2>6. /\ s \in Context /\ s.out = <<>> /\ s.result = "running" /\ ~ s.keep
        /\ Stays(c, b) /\ b.state = "CERTIFICATE_VERIFY" /\ ~ b.keep
        /\ b.checksum = Transcript(u, 23)
    BY <1>2, <2>1, <2>4 DEF Stays, Context
  <2> HIDE DEF b, s
  <2>7. Place("server", b) = 23 /\ FitsPlace(u, "server", b)
    <3>1. Place12(b) = 23
      BY <1>2, <2>1, <2>6 DEF Stays, Place12, Server12Fits
    <3>2. Server12Fits(u, b)
      BY <1>2, <2>1, <2>6, <3>1 DEF Stays, Server12Fits, Retries, Signs
    <3> QED
      BY <1>2, <2>1, <2>6, <3>1, <3>2 DEF Stays, Place, FitsPlace
  <2>8. "CERTIFICATE_VERIFY" \in StateNames \ {"HANDSHAKE_OVER"}
    BY DEF StateNames, Client13States, Server13States, Client12States
  <2> QED
    BY <1>1, <1>2, <2>1, <2>2, <2>5, <2>6, <2>7, <2>8, AcceptGoes DEF b
<1> QED
  BY <1>3

\* The server has no signature to check.
LEMMA NothingSignedGoes ==
    ASSUME IInv, InStep, Skip12("server", "CERTIFICATE_VERIFY", ssl["server"].peerCert = "empty")
    PROVE  Goes
<1> DEFINE u == setup
           c == ssl["server"]
<1>1. At("server", "tls12", "CERTIFICATE_VERIFY")
  BY DEF Skip12
<1>2. /\ "server" \in Ends /\ "tls12" \in Versions /\ u \in Setup /\ c \in Context
      /\ c.state = "CERTIFICATE_VERIFY" /\ c.version = "tls12" /\ c.out = <<>>
      /\ c.result = "running" /\ Running("server")
      /\ Server12Fits(u, c) /\ Reached("server") = Place12(c)
  BY <1>1, AtIs, FitsIs DEF Ends, Versions
<1>3. c.peerCert = "empty"
  BY DEF Skip12
<1>4. ~ Signs(u)
  BY <1>2, <1>3 DEF Server12Fits, Place12, Signs
<1>5. Goes
  <2> DEFINE b == [c EXCEPT !.state = "CLIENT_CHANGE_CIPHER_SPEC"]
  <2>1. /\ Reached("server") = 23
        /\ c.checksum = Transcript(u, 23) /\ ~ c.keep
    <3>1. Place12(c) = 23
      <4>1. c.state = "CERTIFICATE_VERIFY"
        BY <1>2
      <4> QED
        BY <4>1 DEF Place12
    <3> QED
      BY <1>2, <1>3, <1>4, <3>1 DEF Server12Fits, Retries, Signs
  <2>2. Turn(u, 23, 24, 0)
    BY <1>2, <1>3, <1>4, Turns12 DEF Server12Fits, Retries, Signs
  <2>3. Transcript(u, 24) = Transcript(u, 23)
    BY <2>2, SaidIs
  <2>4. Become("server", b)
    BY <1>2, <1>3, <1>4, Steps12 DEF Skip12, Go, Retries, Signs
  <2>5. /\ Stays(c, b) /\ b.state = "CLIENT_CHANGE_CIPHER_SPEC" /\ b.keep = c.keep /\ b.msg = c.msg
        /\ b.checksum = c.checksum
    BY <1>2 DEF Stays, Context
  <2> HIDE DEF b
  <2>6. Place("server", b) = 24 /\ FitsPlace(u, "server", b)
    <3>1. Place12(b) = 24
      BY <1>2, <1>3, <1>4, <2>1, <2>3, <2>5 DEF Stays, Place12, Server12Fits
    <3>2. Server12Fits(u, b)
      BY <1>2, <1>3, <1>4, <2>1, <2>3, <2>5, <3>1 DEF Stays, Server12Fits, Retries, Signs
    <3> QED
      BY <1>2, <2>1, <2>3, <2>5, <3>1, <3>2 DEF Stays, Place, FitsPlace
  <2> QED
    BY <1>2, <2>1, <2>2, <2>4, <2>5, <2>6, BecomeGoes DEF Stays, Context
<1> QED
  BY <1>5

\* The server takes the client's CertificateVerify.
LEMMA ClientCertificateVerifyRead12Goes ==
    ASSUME IInv, InStep, Reads("server", "tls12", "CERTIFICATE_VERIFY"),
           IF Binds("server") THEN Accept("server", Hash13("server"), "CLIENT_CHANGE_CIPHER_SPEC")
           ELSE Quit("server", "bad_signature")
    PROVE  Goes
<1> DEFINE u == setup
           c == ssl["server"]
           r == Got("server")
           h == Hash13("server")
<1>1. Reads("server", "tls12", "CERTIFICATE_VERIFY")
  OBVIOUS
<1>2. /\ "server" \in Ends /\ "tls12" \in Versions /\ u \in Setup /\ c \in Context
      /\ c.state = "CERTIFICATE_VERIFY" /\ c.version = "tls12" /\ c.out = <<>>
      /\ c.result = "running" /\ Running("server")
      /\ Server12Fits(u, c) /\ Reached("server") = Place12(c)
      /\ h \in Context /\ Stays(c, h) /\ ~ h.keep
      /\ h.checksum = Append(c.checksum, <<r.type, r.body>>)
  BY <1>1, ReadIs, FitsIs, TakenIs DEF Ends, Versions
<1> HIDE DEF h
<1>3. c.peerCert # "empty"
  BY <1>1, <1>2 DEF Reads, Takes, Takes12
<1>4. Signs(u)
  BY <1>2, <1>3 DEF Server12Fits, Place12, Signs
<1>5. Goes
  <2> DEFINE s == h
             b == [s EXCEPT !.state = "CLIENT_CHANGE_CIPHER_SPEC"]
  <2>1. /\ Reached("server") = 23 /\ NextLine(u, 23) = 24
        /\ c.checksum = Transcript(u, 23)
    <3>1. Place12(c) = 23
      <4>1. c.state = "CERTIFICATE_VERIFY"
        BY <1>2
      <4> QED
        BY <4>1 DEF Place12
    <3>2. NextLine(u, 23) = 24
      BY <1>2, <1>3, <1>4 DEF NextLine, Next12, Server12Fits, Retries, Signs
    <3> QED
      BY <1>2, <1>3, <1>4, <3>1, <3>2 DEF Server12Fits, Retries, Signs
  <2>2. Turn(u, 23, 24, 24)
    BY <1>2, <1>3, <1>4, Turns12 DEF Server12Fits, Retries, Signs
  <2>3. r.type = Type(24) /\ r.body = Body(u, 24)
    BY <1>1, <1>2, <2>1, Hears
  <2>4. Binds("server")
    <3>1. ~ c.keep
      BY <1>2, <1>3, <1>4, <2>1 DEF Server12Fits
    <3>2. r.type \in Bound
      BY <2>3, TypeIs DEF Bound
    <3> QED
      BY <1>1, <1>2, <2>1, <3>1, <3>2, Hears
  <2>5. h.checksum = Transcript(u, 24)
    <3>1. Type(24) # "ChangeCipherSpec"
      BY TypeIs
    <3>2. Transcript(u, 24) = Append(Transcript(u, 23), <<Type(24), Body(u, 24)>>)
      BY <2>2, <3>1, SaidIs
    <3>3. h.checksum = Append(c.checksum, <<r.type, r.body>>)
      BY <1>2, <2>1
    <3> QED
      BY <2>1, <2>3, <3>2, <3>3
  <2>6. Accept("server", s, "CLIENT_CHANGE_CIPHER_SPEC")
    BY <1>2, <1>3, <1>4, <2>3, <2>4, TypeIs, Steps12 DEF Body, h
  <2>7. /\ s \in Context /\ s.out = <<>> /\ s.result = "running" /\ ~ s.keep
        /\ Stays(c, b) /\ b.state = "CLIENT_CHANGE_CIPHER_SPEC" /\ ~ b.keep
        /\ b.checksum = Transcript(u, 24)
    BY <1>2, <1>3, <1>4, <2>1, <2>5 DEF Stays, Context
  <2> HIDE DEF b, s
  <2>8. Place("server", b) = 24 /\ FitsPlace(u, "server", b)
    <3>1. Place12(b) = 24
      BY <1>2, <1>3, <1>4, <2>1, <2>7 DEF Stays, Place12, Server12Fits
    <3>2. Server12Fits(u, b)
      BY <1>2, <1>3, <1>4, <2>1, <2>7, <3>1 DEF Stays, Server12Fits, Retries, Signs
    <3> QED
      BY <1>2, <2>1, <2>7, <3>1, <3>2 DEF Stays, Place, FitsPlace
  <2>9. "CLIENT_CHANGE_CIPHER_SPEC" \in StateNames \ {"HANDSHAKE_OVER"}
    BY DEF StateNames, Client13States, Server13States, Client12States
  <2> QED
    BY <1>1, <1>2, <2>1, <2>2, <2>6, <2>7, <2>8, <2>9, AcceptGoes DEF b
<1> QED
  BY <1>5

\* The server takes the client's ChangeCipherSpec.
LEMMA ClientCcsRead12Goes ==
    ASSUME IInv, InStep, tls12_parse_change_cipher_spec("server", "CLIENT_CHANGE_CIPHER_SPEC")
    PROVE  Goes
<1> DEFINE u == setup
           c == ssl["server"]
           r == Got("server")
           h == Unhashed("server")
<1>1. Reads("server", "tls12", "CLIENT_CHANGE_CIPHER_SPEC")
  BY DEF tls12_parse_change_cipher_spec
<1>2. /\ "server" \in Ends /\ "tls12" \in Versions /\ u \in Setup /\ c \in Context
      /\ c.state = "CLIENT_CHANGE_CIPHER_SPEC" /\ c.version = "tls12" /\ c.out = <<>>
      /\ c.result = "running" /\ Running("server")
      /\ Server12Fits(u, c) /\ Reached("server") = Place12(c)
      /\ h \in Context /\ Stays(c, h) /\ ~ h.keep
      /\ h.checksum = c.checksum
  BY <1>1, ReadIs, FitsIs, TakenIs DEF Ends, Versions
<1> HIDE DEF h
<1>3. Goes
  <2> DEFINE s == [h EXCEPT !.inKey = "session"]
             b == [s EXCEPT !.state = "CLIENT_FINISHED"]
  <2>1. /\ Reached("server") = 24 /\ NextLine(u, 24) = 25
        /\ c.checksum = Transcript(u, 24) /\ ~ c.keep
    <3>1. Place12(c) = 24
      <4>1. c.state = "CLIENT_CHANGE_CIPHER_SPEC"
        BY <1>2
      <4> QED
        BY <4>1 DEF Place12
    <3>2. NextLine(u, 24) = 25
      BY <1>2 DEF NextLine, Next12, Server12Fits, Retries, Signs
    <3> QED
      BY <1>2, <3>1, <3>2 DEF Server12Fits, Retries, Signs
  <2>2. Turn(u, 24, 25, 25)
    BY <1>2, Turns12 DEF Server12Fits, Retries, Signs
  <2>3. r.type = Type(25) /\ r.body = Body(u, 25)
    BY <1>1, <1>2, <2>1, Hears
  <2>4. h.checksum = Transcript(u, 25)
    <3>1. Type(25) = "ChangeCipherSpec"
      BY TypeIs
    <3>2. Transcript(u, 25) = Transcript(u, 24)
      BY <2>2, <3>1, SaidIs
    <3>3. h.checksum = c.checksum
      BY <1>2
    <3> QED
      BY <2>1, <3>2, <3>3
  <2>5. Accept("server", s, "CLIENT_FINISHED")
    BY <1>2, <2>3, TypeIs, Steps12 DEF Body, tls12_parse_change_cipher_spec, h
  <2>6. /\ s \in Context /\ s.out = <<>> /\ s.result = "running" /\ ~ s.keep
        /\ Stays([c EXCEPT !.inKey = "session"], b) /\ b.state = "CLIENT_FINISHED" /\ ~ b.keep
        /\ b.checksum = Transcript(u, 25)
    BY <1>2, <2>1, <2>4 DEF Stays, Context, Keys
  <2> HIDE DEF b, s
  <2>7. Place("server", b) = 25 /\ FitsPlace(u, "server", b)
    <3>1. Place12(b) = 25
      BY <1>2, <2>1, <2>6 DEF Stays, Context, Place12, Server12Fits
    <3>2. Server12Fits(u, b)
      BY <1>2, <2>1, <2>6, <3>1 DEF Stays, Context, Server12Fits, Retries, Signs
    <3> QED
      BY <1>2, <2>1, <2>6, <3>1, <3>2 DEF Stays, Context, Place, FitsPlace
  <2>8. "CLIENT_FINISHED" \in StateNames \ {"HANDSHAKE_OVER"}
    BY DEF StateNames, Client13States, Server13States, Client12States
  <2> QED
    BY <1>1, <1>2, <2>1, <2>2, <2>5, <2>6, <2>7, <2>8, AcceptGoes DEF b
<1> QED
  BY <1>3

\* The server takes the client's Finished.
LEMMA ClientFinishedRead12Goes ==
    ASSUME IInv, InStep, tls12_parse_finished("server", "CLIENT_FINISHED")
    PROVE  Goes
<1> DEFINE u == setup
           c == ssl["server"]
           r == Got("server")
           h == Hash12("server")
<1>1. Reads("server", "tls12", "CLIENT_FINISHED")
  BY DEF tls12_parse_finished
<1>2. /\ "server" \in Ends /\ "tls12" \in Versions /\ u \in Setup /\ c \in Context
      /\ c.state = "CLIENT_FINISHED" /\ c.version = "tls12" /\ c.out = <<>> /\ c.result = "running"
      /\ Running("server")
      /\ Server12Fits(u, c) /\ Reached("server") = Place12(c)
      /\ h \in Context /\ Stays(c, h) /\ ~ h.keep
      /\ h.checksum = IF c.keep THEN c.checksum ELSE Append(c.checksum, <<r.type, r.body>>)
  BY <1>1, ReadIs, FitsIs, TakenIs DEF Ends, Versions
<1> HIDE DEF h
<1>3. ASSUME u.ticket
      PROVE  Goes
  <2> DEFINE s == h
             b == [s EXCEPT !.state = "SERVER_CHANGE_CIPHER_SPEC"]
  <2>1. /\ Reached("server") = 25 /\ NextLine(u, 25) = 26
        /\ c.checksum = Transcript(u, 25) /\ ~ c.keep
    <3>1. Place12(c) = 25
      <4>1. c.state = "CLIENT_FINISHED"
        BY <1>2
      <4> QED
        BY <4>1 DEF Place12
    <3>2. NextLine(u, 25) = 26
      BY <1>2, <1>3 DEF NextLine, Next12, Server12Fits, Retries, Signs
    <3> QED
      BY <1>2, <1>3, <3>1, <3>2 DEF Server12Fits, Retries, Signs
  <2>2. Turn(u, 25, 26, 26)
    BY <1>2, <1>3, Turns12 DEF Server12Fits, Retries, Signs
  <2>3. r.type = Type(26) /\ r.body = Body(u, 26)
    BY <1>1, <1>2, <2>1, Hears
  <2>4. Binds("server")
    <3>1. ~ c.keep
      BY <1>2, <1>3, <2>1 DEF Server12Fits
    <3>2. r.type \in Bound
      BY <2>3, TypeIs DEF Bound
    <3> QED
      BY <1>1, <1>2, <2>1, <3>1, <3>2, Hears
  <2>5. h.checksum = Transcript(u, 26)
    <3>1. Type(26) # "ChangeCipherSpec"
      BY TypeIs
    <3>2. Transcript(u, 26) = Append(Transcript(u, 25), <<Type(26), Body(u, 26)>>)
      BY <2>2, <3>1, SaidIs
    <3>3. h.checksum = Append(c.checksum, <<r.type, r.body>>)
      BY <1>2, <2>1
    <3> QED
      BY <2>1, <2>3, <3>2, <3>3
  <2>6. Accept("server", s, "SERVER_CHANGE_CIPHER_SPEC")
    BY <1>2, <1>3, <2>3, <2>4, TypeIs, Steps12 DEF Body, tls12_parse_finished, h
  <2>7. /\ s \in Context /\ s.out = <<>> /\ s.result = "running" /\ ~ s.keep
        /\ Stays(c, b) /\ b.state = "SERVER_CHANGE_CIPHER_SPEC" /\ ~ b.keep
        /\ b.checksum = Transcript(u, 26)
    BY <1>2, <1>3, <2>1, <2>5 DEF Stays, Context
  <2> HIDE DEF b, s
  <2>8. Place("server", b) = 26 /\ FitsPlace(u, "server", b)
    <3>1. Place12(b) = 26
      BY <1>2, <1>3, <2>1, <2>7 DEF Stays, Place12, Server12Fits
    <3>2. Server12Fits(u, b)
      BY <1>2, <1>3, <2>1, <2>7, <3>1 DEF Stays, Server12Fits, Retries, Signs
    <3> QED
      BY <1>2, <2>1, <2>7, <3>1, <3>2 DEF Stays, Place, FitsPlace
  <2>9. "SERVER_CHANGE_CIPHER_SPEC" \in StateNames \ {"HANDSHAKE_OVER"}
    BY DEF StateNames, Client13States, Server13States, Client12States
  <2> QED
    BY <1>1, <1>2, <2>1, <2>2, <2>6, <2>7, <2>8, <2>9, AcceptGoes DEF b
<1>4. ASSUME ~ u.ticket
      PROVE  Goes
  <2> DEFINE s == h
             b == [s EXCEPT !.state = "SERVER_CHANGE_CIPHER_SPEC"]
  <2>1. /\ Reached("server") = 25 /\ NextLine(u, 25) = 26
        /\ c.checksum = Transcript(u, 25) /\ ~ c.keep
    <3>1. Place12(c) = 25
      <4>1. c.state = "CLIENT_FINISHED"
        BY <1>2
      <4> QED
        BY <4>1 DEF Place12
    <3>2. NextLine(u, 25) = 26
      BY <1>2, <1>4 DEF NextLine, Next12, Server12Fits, Retries, Signs
    <3> QED
      BY <1>2, <1>4, <3>1, <3>2 DEF Server12Fits, Retries, Signs
  <2>2. Turn(u, 25, 27, 26)
    BY <1>2, <1>4, Turns12 DEF Server12Fits, Retries, Signs
  <2>3. r.type = Type(26) /\ r.body = Body(u, 26)
    BY <1>1, <1>2, <2>1, Hears
  <2>4. Binds("server")
    <3>1. ~ c.keep
      BY <1>2, <1>4, <2>1 DEF Server12Fits
    <3>2. r.type \in Bound
      BY <2>3, TypeIs DEF Bound
    <3> QED
      BY <1>1, <1>2, <2>1, <3>1, <3>2, Hears
  <2>5. h.checksum = Transcript(u, 27)
    <3>1. Type(26) # "ChangeCipherSpec"
      BY TypeIs
    <3>2. Transcript(u, 27) = Append(Transcript(u, 25), <<Type(26), Body(u, 26)>>)
      BY <2>2, <3>1, SaidIs
    <3>3. h.checksum = Append(c.checksum, <<r.type, r.body>>)
      BY <1>2, <2>1
    <3> QED
      BY <2>1, <2>3, <3>2, <3>3
  <2>6. Accept("server", s, "SERVER_CHANGE_CIPHER_SPEC")
    BY <1>2, <1>4, <2>3, <2>4, TypeIs, Steps12 DEF Body, tls12_parse_finished, h
  <2>7. /\ s \in Context /\ s.out = <<>> /\ s.result = "running" /\ ~ s.keep
        /\ Stays(c, b) /\ b.state = "SERVER_CHANGE_CIPHER_SPEC" /\ ~ b.keep
        /\ b.checksum = Transcript(u, 27)
    BY <1>2, <1>4, <2>1, <2>5 DEF Stays, Context
  <2> HIDE DEF b, s
  <2>8. Place("server", b) = 27 /\ FitsPlace(u, "server", b)
    <3>1. Place12(b) = 27
      BY <1>2, <1>4, <2>1, <2>7 DEF Stays, Place12, Server12Fits
    <3>2. Server12Fits(u, b)
      BY <1>2, <1>4, <2>1, <2>7, <3>1 DEF Stays, Server12Fits, Retries, Signs
    <3> QED
      BY <1>2, <2>1, <2>7, <3>1, <3>2 DEF Stays, Place, FitsPlace
  <2>9. "SERVER_CHANGE_CIPHER_SPEC" \in StateNames \ {"HANDSHAKE_OVER"}
    BY DEF StateNames, Client13States, Server13States, Client12States
  <2> QED
    BY <1>1, <1>2, <2>1, <2>2, <2>6, <2>7, <2>8, <2>9, AcceptGoes DEF b
<1> QED
  BY <1>2, <1>3, <1>4

\* The server says a ticket.
LEMMA TicketWritten12Goes ==
    ASSUME IInv, InStep, tls12_write_new_session_ticket
    PROVE  Goes
<1> DEFINE u == setup
           c == ssl["server"]
<1>1. At("server", "tls12", "SERVER_CHANGE_CIPHER_SPEC")
  BY DEF tls12_write_new_session_ticket
<1>2. /\ "server" \in Ends /\ "tls12" \in Versions /\ u \in Setup /\ c \in Context
      /\ c.state = "SERVER_CHANGE_CIPHER_SPEC" /\ c.version = "tls12" /\ c.out = <<>>
      /\ c.result = "running" /\ Running("server")
      /\ Server12Fits(u, c) /\ Reached("server") = Place12(c)
  BY <1>1, AtIs, FitsIs DEF Ends, Versions
<1>3. c.newTicket
  BY DEF tls12_write_new_session_ticket
<1>4. Goes
  <2> DEFINE s == [c EXCEPT !.newTicket = FALSE]
             w == Written(s, Type(27), Body(u, 27), "SERVER_CHANGE_CIPHER_SPEC")
  <2>1. /\ Reached("server") = 26
        /\ c.checksum = Transcript(u, 26) /\ ~ c.keep
    <3>1. Place12(c) = 26
      BY <1>2, <1>3 DEF Place12
    <3> QED
      BY <1>2, <1>3, <3>1 DEF Server12Fits, Retries, Signs
  <2>2. Turn(u, 26, 27, 27)
    BY <1>2, <1>3, Turns12 DEF Server12Fits, Retries, Signs
  <2>3. Write("server", s, Type(27), Body(u, 27), "SERVER_CHANGE_CIPHER_SPEC")
    BY <1>2, <1>3, TypeIs, Steps12 DEF Body, tls12_write_new_session_ticket, Retries, Signs,
       Server12Fits
  <2>4. /\ s \in Context /\ Stays([c EXCEPT !.newTicket = FALSE], s) /\ s.checksum = c.checksum
        /\ s.keep = c.keep /\ s.msg = c.msg
        /\ 27 \notin PassedOver => s.outKey = Key(27)
    <3>1. 27 \notin PassedOver => s.outKey = Key(27)
      BY <1>2, <1>3, <2>1 DEF Context, Key, PassedOver, Server12Fits
    <3>2. /\ s \in Context /\ Stays([c EXCEPT !.newTicket = FALSE], s) /\ s.checksum = c.checksum
          /\ s.keep = c.keep /\ s.msg = c.msg
      BY <1>2, <1>3 DEF Stays, Context, Keys
    <3> QED
      BY <3>1, <3>2
  <2>5. "SERVER_CHANGE_CIPHER_SPEC" \in StateNames
    BY DEF StateNames, Client13States, Server13States, Client12States
  <2> HIDE DEF s, w
  <2>6. /\ Stays(s, w) /\ w.state = "SERVER_CHANGE_CIPHER_SPEC" /\ w.keep = s.keep
        /\ w.checksum = Transcript(u, 27)
    BY <1>2, <2>1, <2>2, <2>4, <2>5, SaysLine DEF w
  <2>7. Place("server", w) = 27 /\ FitsPlace(u, "server", w)
    <3>1. Place12(w) = 27
      BY <1>2, <1>3, <2>1, <2>4, <2>6 DEF Stays, Context, Place12, Server12Fits
    <3>2. Server12Fits(u, w)
      BY <1>2, <1>3, <2>1, <2>4, <2>6, <3>1 DEF Stays, Context, Server12Fits, Retries, Signs
    <3> QED
      BY <1>2, <2>1, <2>4, <2>6, <3>1, <3>2 DEF Stays, Context, Place, FitsPlace
  <2>8. Speaks("server", s, 26, 27, 27, "SERVER_CHANGE_CIPHER_SPEC")
    BY <1>2, <2>1, <2>2, <2>3, <2>4, <2>5, <2>7 DEF Speaks, Stays, Context, w, Speaker
  <2> QED
    BY <1>2, <2>8, SpeaksGoes
<1> QED
  BY <1>4

\* The server says ChangeCipherSpec.
LEMMA ServerCcsWritten12Goes ==
    ASSUME IInv, InStep, tls12_write_change_cipher_spec("server", "SERVER_CHANGE_CIPHER_SPEC")
    PROVE  Goes
<1> DEFINE u == setup
           c == ssl["server"]
<1>1. At("server", "tls12", "SERVER_CHANGE_CIPHER_SPEC")
  BY DEF tls12_write_change_cipher_spec, Write12
<1>2. /\ "server" \in Ends /\ "tls12" \in Versions /\ u \in Setup /\ c \in Context
      /\ c.state = "SERVER_CHANGE_CIPHER_SPEC" /\ c.version = "tls12" /\ c.out = <<>>
      /\ c.result = "running" /\ Running("server")
      /\ Server12Fits(u, c) /\ Reached("server") = Place12(c)
  BY <1>1, AtIs, FitsIs DEF Ends, Versions
<1>3. ~ c.newTicket
  BY DEF tls12_write_change_cipher_spec
<1>4. Goes
  <2> DEFINE s == c
             w == Written(s, Type(28), Body(u, 28), "SERVER_FINISHED")
  <2>1. /\ Reached("server") = 27
        /\ c.checksum = Transcript(u, 27) /\ ~ c.keep
    <3>1. Place12(c) = 27
      BY <1>2, <1>3 DEF Place12
    <3> QED
      BY <1>2, <1>3, <3>1 DEF Server12Fits, Retries, Signs
  <2>2. Turn(u, 27, 28, 28)
    BY <1>2, <1>3, Turns12 DEF Server12Fits, Retries, Signs
  <2>3. Write("server", s, Type(28), Body(u, 28), "SERVER_FINISHED")
    BY <1>2, <1>3, TypeIs, Steps12 DEF Body, tls12_write_change_cipher_spec, Write12, Retries,
       Signs,
       Server12Fits
  <2>4. /\ s \in Context /\ Stays(c, s) /\ s.checksum = c.checksum
        /\ s.keep = c.keep /\ s.msg = c.msg
        /\ 28 \notin PassedOver => s.outKey = Key(28)
    <3>1. 28 \notin PassedOver => s.outKey = Key(28)
      BY <1>2, <1>3, <2>1 DEF Context, Key, PassedOver, Server12Fits
    <3>2. /\ s \in Context /\ Stays(c, s) /\ s.checksum = c.checksum /\ s.keep = c.keep
          /\ s.msg = c.msg
      BY <1>2, <1>3 DEF Stays, Context, Keys
    <3> QED
      BY <3>1, <3>2
  <2>5. "SERVER_FINISHED" \in StateNames
    BY DEF StateNames, Client13States, Server13States, Client12States
  <2> HIDE DEF s, w
  <2>6. /\ Stays(s, w) /\ w.state = "SERVER_FINISHED" /\ w.keep = s.keep
        /\ w.checksum = Transcript(u, 28)
    BY <1>2, <2>1, <2>2, <2>4, <2>5, SaysLine DEF w
  <2>7. Place("server", w) = 28 /\ FitsPlace(u, "server", w)
    <3>1. Place12(w) = 28
      BY <1>2, <1>3, <2>1, <2>4, <2>6 DEF Stays, Place12, Server12Fits
    <3>2. Server12Fits(u, w)
      BY <1>2, <1>3, <2>1, <2>4, <2>6, <3>1 DEF Stays, Server12Fits, Retries, Signs
    <3> QED
      BY <1>2, <2>1, <2>4, <2>6, <3>1, <3>2 DEF Stays, Place, FitsPlace
  <2>8. Speaks("server", s, 27, 28, 28, "SERVER_FINISHED")
    BY <1>2, <2>1, <2>2, <2>3, <2>4, <2>5, <2>7 DEF Speaks, Stays, Context, w, Speaker
  <2> QED
    BY <1>2, <2>8, SpeaksGoes
<1> QED
  BY <1>4

\* The server says Finished.
LEMMA ServerFinishedWritten12Goes ==
    ASSUME IInv, InStep, tls12_write_finished("server", "SERVER_FINISHED")
    PROVE  Goes
<1> DEFINE u == setup
           c == ssl["server"]
<1>1. At("server", "tls12", "SERVER_FINISHED")
  BY DEF tls12_write_finished
<1>2. /\ "server" \in Ends /\ "tls12" \in Versions /\ u \in Setup /\ c \in Context
      /\ c.state = "SERVER_FINISHED" /\ c.version = "tls12" /\ c.out = <<>> /\ c.result = "running"
      /\ Running("server")
      /\ Server12Fits(u, c) /\ Reached("server") = Place12(c)
  BY <1>1, AtIs, FitsIs DEF Ends, Versions
<1>3. Goes
  <2> DEFINE s == [c EXCEPT !.outKey = "session"]
             w == Written(s, Type(29), Body(u, 29), "FLUSH_BUFFERS")
  <2>1. /\ Reached("server") = 28
        /\ c.checksum = Transcript(u, 28) /\ ~ c.keep
    <3>1. Place12(c) = 28
      <4>1. c.state = "SERVER_FINISHED"
        BY <1>2
      <4> QED
        BY <4>1 DEF Place12
    <3> QED
      BY <1>2, <3>1 DEF Server12Fits, Retries, Signs
  <2>2. Turn(u, 28, 29, 29)
    BY <1>2, Turns12 DEF Server12Fits, Retries, Signs
  <2>3. Write("server", s, Type(29), Body(u, 29), "FLUSH_BUFFERS")
    BY <1>2, TypeIs, Steps12 DEF Body, tls12_write_finished, Retries, Signs, Server12Fits
  <2>4. /\ s \in Context /\ Stays([c EXCEPT !.outKey = "session"], s) /\ s.checksum = c.checksum
        /\ s.keep = c.keep /\ s.msg = c.msg
        /\ 29 \notin PassedOver => s.outKey = Key(29)
    <3>1. 29 \notin PassedOver => s.outKey = Key(29)
      BY <1>2, <2>1 DEF Context, Key, PassedOver, Server12Fits
    <3>2. /\ s \in Context /\ Stays([c EXCEPT !.outKey = "session"], s) /\ s.checksum = c.checksum
          /\ s.keep = c.keep /\ s.msg = c.msg
      BY <1>2 DEF Stays, Context, Keys
    <3> QED
      BY <3>1, <3>2
  <2>5. "FLUSH_BUFFERS" \in StateNames
    BY DEF StateNames, Client13States, Server13States, Client12States
  <2> HIDE DEF s, w
  <2>6. /\ Stays(s, w) /\ w.state = "FLUSH_BUFFERS" /\ w.keep = s.keep
        /\ w.checksum = Transcript(u, 29)
    BY <1>2, <2>1, <2>2, <2>4, <2>5, SaysLine DEF w
  <2>7. Place("server", w) = 29 /\ FitsPlace(u, "server", w)
    <3>1. Place12(w) = 29
      BY <1>2, <2>1, <2>4, <2>6 DEF Stays, Context, Place12, Server12Fits
    <3>2. Server12Fits(u, w)
      BY <1>2, <2>1, <2>4, <2>6, <3>1 DEF Stays, Context, Server12Fits, Retries, Signs
    <3> QED
      BY <1>2, <2>1, <2>4, <2>6, <3>1, <3>2 DEF Stays, Context, Place, FitsPlace
  <2>8. Speaks("server", s, 28, 29, 29, "FLUSH_BUFFERS")
    BY <1>2, <2>1, <2>2, <2>3, <2>4, <2>5, <2>7 DEF Speaks, Stays, Context, w, Speaker
  <2> QED
    BY <1>2, <2>8, SpeaksGoes
<1> QED
  BY <1>3

\* The server flushes.
LEMMA ServerFlush12Goes ==
    ASSUME IInv, InStep, At("server", "tls12", "FLUSH_BUFFERS"), Go("server", "HANDSHAKE_WRAPUP")
    PROVE  Goes
<1> DEFINE u == setup
           c == ssl["server"]
<1>1. At("server", "tls12", "FLUSH_BUFFERS")
  OBVIOUS
<1>2. /\ "server" \in Ends /\ "tls12" \in Versions /\ u \in Setup /\ c \in Context
      /\ c.state = "FLUSH_BUFFERS" /\ c.version = "tls12" /\ c.out = <<>> /\ c.result = "running"
      /\ Running("server")
      /\ Server12Fits(u, c) /\ Reached("server") = Place12(c)
  BY <1>1, AtIs, FitsIs DEF Ends, Versions
<1>3. Goes
  <2> DEFINE b == [c EXCEPT !.state = "HANDSHAKE_WRAPUP"]
  <2>1. /\ Reached("server") = 29
        /\ c.checksum = Transcript(u, 29) /\ ~ c.keep
    <3>1. Place12(c) = 29
      <4>1. c.state = "FLUSH_BUFFERS"
        BY <1>2
      <4> QED
        BY <4>1 DEF Place12
    <3> QED
      BY <1>2, <3>1 DEF Server12Fits, Retries, Signs
  <2>2. Turn(u, 29, 29, 0)
    BY TurnStay DEF Places
  <2>3. Transcript(u, 29) = Transcript(u, 29)
    BY <2>2, SaidIs
  <2>4. Become("server", b)
    BY <1>2, Steps12 DEF Go, Retries, Signs
  <2>5. /\ Stays(c, b) /\ b.state = "HANDSHAKE_WRAPUP" /\ b.keep = c.keep /\ b.msg = c.msg
        /\ b.checksum = c.checksum
    BY <1>2 DEF Stays, Context
  <2> HIDE DEF b
  <2>6. Place("server", b) = 29 /\ FitsPlace(u, "server", b)
    <3>1. Place12(b) = 29
      BY <1>2, <2>1, <2>3, <2>5 DEF Stays, Place12, Server12Fits
    <3>2. Server12Fits(u, b)
      BY <1>2, <2>1, <2>3, <2>5, <3>1 DEF Stays, Server12Fits, Retries, Signs
    <3> QED
      BY <1>2, <2>1, <2>3, <2>5, <3>1, <3>2 DEF Stays, Place, FitsPlace
  <2> QED
    BY <1>2, <2>1, <2>2, <2>4, <2>5, <2>6, BecomeGoes DEF Stays, Context
<1> QED
  BY <1>3

\* The server is over.
LEMMA ServerWrapup12Goes ==
    ASSUME IInv, InStep, At("server", "tls12", "HANDSHAKE_WRAPUP"), Go("server", "HANDSHAKE_OVER")
    PROVE  Goes
<1> DEFINE u == setup
           c == ssl["server"]
<1>1. At("server", "tls12", "HANDSHAKE_WRAPUP")
  OBVIOUS
<1>2. /\ "server" \in Ends /\ "tls12" \in Versions /\ u \in Setup /\ c \in Context
      /\ c.state = "HANDSHAKE_WRAPUP" /\ c.version = "tls12" /\ c.out = <<>> /\ c.result = "running"
      /\ Running("server")
      /\ Server12Fits(u, c) /\ Reached("server") = Place12(c)
  BY <1>1, AtIs, FitsIs DEF Ends, Versions
<1>3. Goes
  <2> DEFINE b == [c EXCEPT !.state = "HANDSHAKE_OVER"]
  <2>1. /\ Reached("server") = 29
        /\ c.checksum = Transcript(u, 29) /\ ~ c.keep
    <3>1. Place12(c) = 29
      <4>1. c.state = "HANDSHAKE_WRAPUP"
        BY <1>2
      <4> QED
        BY <4>1 DEF Place12
    <3> QED
      BY <1>2, <3>1 DEF Server12Fits, Retries, Signs
  <2>2. Turn(u, 29, 29, 0)
    BY TurnStay DEF Places
  <2>3. Transcript(u, 29) = Transcript(u, 29)
    BY <2>2, SaidIs
  <2>4. Become("server", b)
    BY <1>2, Steps12 DEF Go, Retries, Signs
  <2>5. /\ Stays(c, b) /\ b.state = "HANDSHAKE_OVER" /\ b.keep = c.keep /\ b.msg = c.msg
        /\ b.checksum = c.checksum
    BY <1>2 DEF Stays, Context
  <2> HIDE DEF b
  <2>6. Place("server", b) = 29 /\ FitsPlace(u, "server", b)
    <3>1. Place12(b) = 29
      BY <1>2, <2>1, <2>3, <2>5 DEF Stays, Place12, Server12Fits
    <3>2. Server12Fits(u, b)
      BY <1>2, <2>1, <2>3, <2>5, <3>1 DEF Stays, Server12Fits, Retries, Signs
    <3> QED
      BY <1>2, <2>1, <2>3, <2>5, <3>1, <3>2 DEF Stays, Place, FitsPlace
  <2>7. FlightsAt(u, 29) = Total
    BY FlightsAre
  <2> QED
    BY <1>2, <2>1, <2>2, <2>4, <2>5, <2>6, <2>7, BecomeGoes DEF Stays, Context
<1> QED
  BY <1>3

\* The TLS 1.2 server, as a whole.
LEMMA Server12Goes ==
    ASSUME IInv, InStep, Server12
    PROVE  Goes
<1>1. CASE \/ tls12_parse_client_hello
           \/ tls12_write_server_hello
           \/ tls12_write_server_certificate
           \/ tls12_write_server_key_exchange
  BY <1>1, ClientHelloRead12Goes, ServerHelloWritten12Goes, ServerCertificateWritten12Goes,
     NoKeyExchangeWrittenGoes, KeyExchangeWrittenGoes DEF tls12_write_server_key_exchange
<1>2. CASE \/ tls12_write_certificate_request
           \/ tls12_write_server_hello_done
           \/ tls12_skip_certificate
           \/ tls12_parse_certificate("server", "CLIENT_CERTIFICATE")
  BY <1>2, NoCertificateRequestWritten12Goes, CertificateRequestWritten12Goes,
     ServerHelloDoneWrittenGoes,
     CertificateSkippedGoes, ClientCertificateRead12Goes DEF tls12_write_certificate_request, Wanted
<1>3. CASE \/ tls12_parse_client_key_exchange
           \/ tls12_parse_certificate_verify
           \/ tls12_parse_change_cipher_spec("server", "CLIENT_CHANGE_CIPHER_SPEC")
  BY <1>3, ClientKeyExchangeReadGoes, NothingSignedGoes, ClientCertificateVerifyRead12Goes,
     ClientCcsRead12Goes DEF tls12_parse_certificate_verify
<1>4. CASE \/ tls12_parse_finished("server", "CLIENT_FINISHED")
           \/ tls12_write_new_session_ticket
           \/ tls12_write_change_cipher_spec("server", "SERVER_CHANGE_CIPHER_SPEC")
           \/ tls12_write_finished("server", "SERVER_FINISHED")
  BY <1>4, ClientFinishedRead12Goes, TicketWritten12Goes, ServerCcsWritten12Goes,
     ServerFinishedWritten12Goes
<1> QED
  BY <1>1, <1>2, <1>3, <1>4 DEF Server12

-----------------------------------------------------------------------------
(* All steps.                                                              *)

\* The first step of either end says nothing.
LEMMA HelloRequestGoes ==
    ASSUME IInv, InStep, NEW e \in Ends, NEW version \in Versions, hello_request(e, version)
    PROVE  Goes
<1> DEFINE u == setup
           c == ssl[e]
           b == [c EXCEPT !.state = "CLIENT_HELLO"]
<1>1. At(e, version, "HELLO_REQUEST") /\ Become(e, b)
  BY DEF hello_request, Go
<1>2. /\ c \in Context /\ c.state = "HELLO_REQUEST" /\ c.version = version /\ c.out = <<>>
      /\ c.result = "running" /\ Running(e)
  BY <1>1, AtIs
<1>3. /\ Stays(c, b) /\ b.state = "CLIENT_HELLO" /\ b.keep = c.keep /\ b.msg = c.msg
      /\ b.checksum = c.checksum
  BY <1>2 DEF Stays, Context
<1>4. FitsPlace(u, e, c) /\ Reached(e) = Place(e, c)
  BY DEF InStep, Reached
<1> HIDE DEF b
<1>5. ASSUME version = "tls13", e = "client"
      PROVE  Place(e, b) = Place(e, c) /\ FitsPlace(u, e, b)
  <2>1. Client13Fits(u, c)
    BY <1>2, <1>4, <1>5 DEF FitsPlace
  <2>2. ClientPlace13(b) = ClientPlace13(c)
    BY <1>2, <1>3 DEF ClientPlace13, Stays
  <2>3. Client13Fits(u, b)
    BY <1>2, <1>3, <2>1, <2>2 DEF Client13Fits, Stays
  <2> QED
    BY <1>2, <1>3, <1>5, <2>2, <2>3 DEF Place, FitsPlace, Stays
<1>6. ASSUME version = "tls13", e = "server"
      PROVE  Place(e, b) = Place(e, c) /\ FitsPlace(u, e, b)
  <2>1. Server13Fits(u, c)
    BY <1>2, <1>4, <1>6 DEF FitsPlace
  <2>2. ServerPlace13(b) = ServerPlace13(c)
    BY <1>2, <1>3 DEF ServerPlace13, Stays
  <2>3. Server13Fits(u, b)
    BY <1>2, <1>3, <2>1, <2>2 DEF Server13Fits, Stays
  <2> QED
    BY <1>2, <1>3, <1>6, <2>2, <2>3 DEF Place, FitsPlace, Stays
<1>7. ASSUME version = "tls12", e = "client"
      PROVE  Place(e, b) = Place(e, c) /\ FitsPlace(u, e, b)
  <2>1. Client12Fits(u, c)
    BY <1>2, <1>4, <1>7 DEF FitsPlace
  <2>2. Place12(b) = Place12(c)
    BY <1>2, <1>3 DEF Place12, Stays
  <2>3. Client12Fits(u, b)
    BY <1>2, <1>3, <2>1, <2>2 DEF Client12Fits, Stays
  <2> QED
    BY <1>2, <1>3, <1>7, <2>2, <2>3 DEF Place, FitsPlace, Stays
<1>8. ASSUME version = "tls12", e = "server"
      PROVE  Place(e, b) = Place(e, c) /\ FitsPlace(u, e, b)
  <2>1. Server12Fits(u, c)
    BY <1>2, <1>4, <1>8 DEF FitsPlace
  <2>2. Place12(b) = Place12(c)
    BY <1>2, <1>3 DEF Place12, Stays
  <2>3. Server12Fits(u, b)
    BY <1>2, <1>3, <2>1, <2>2 DEF Server12Fits, Stays
  <2> QED
    BY <1>2, <1>3, <1>8, <2>2, <2>3 DEF Place, FitsPlace, Stays
<1>9. Place(e, b) = Reached(e) /\ FitsPlace(u, e, b)
  BY <1>4, <1>5, <1>6, <1>7, <1>8 DEF Ends, Versions
<1>10. Turn(u, Reached(e), Place(e, b), 0)
  BY <1>4, <1>9, PlaceIs, TurnStay
<1> QED
  BY <1>1, <1>2, <1>3, <1>9, <1>10, BecomeGoes DEF Stays

\* The steps of both versions.
LEMMA StepGoes ==
    ASSUME IInv, InStep, NEW e \in Ends, Step(e)
    PROVE  Goes
<1>1. CASE tls13_handshake_wrapup(e)
  BY <1>1, ClientWrapup13Goes, ServerWrapup13Goes DEF Ends
<1>2. CASE tls12_wrapup(e)
  BY <1>2, ClientFlush12Goes, ClientWrapup12Goes, ServerFlush12Goes, ServerWrapup12Goes
     DEF Ends, tls12_wrapup
<1> QED
  BY <1>1, <1>2, FlushGoes, HelloRequestGoes, IgnoreGoes, ReadFailsGoes, PeerClosedGoes DEF Step

\* A step of which nothing comes.
LEMMA StutterGoes ==
    ASSUME InStep, UNCHANGED vars
    PROVE  Goes
<1>1. setup' = setup /\ ssl' = ssl /\ wire' = wire /\ flights' = flights
  BY DEF vars
<1>2. FailsOnlyByRefusal'
  BY <1>1 DEF InStep, FailsOnlyByRefusal, Refused, Refusals, Explained, Unacceptable, Asks,
     NoCommonProtocol
<1>3. ASSUME NEW e \in Ends
      PROVE  /\ FitsPlace(setup, e, ssl[e])'
             /\ (ssl[Other(e)].result = "running" => InOrder(e))'
             /\ (flights[e] = FlightsAt(setup, Reached(e)))'
  BY <1>1 DEF InStep, InOrder, Unheard, Sent, Reached
<1>4. InStep'
  BY <1>2, <1>3 DEF InStep
<1>5. UNCHANGED Flights!vars
  <2>1. \A e \in Ends : Status(e)' = Status(e)
    BY <1>1 DEF Status, Over
  <2>2. Total' = Total
    BY <1>1, TotalStays
  <2> QED
    BY <1>1, <2>1, <2>2, FlightsVars
<1> QED
  BY <1>4, <1>5 DEF Goes

\* InStep is inductive, and every step is one of the flights or none.
LEMMA NextGoes ==
    ASSUME IInv, InStep, [Next]_vars
    PROVE  Goes
<1>1. "client" \in Ends /\ "server" \in Ends
  BY DEF Ends
<1>2. CASE ClientStep
  BY <1>1, <1>2, StepGoes, Client13Goes, Client12Goes DEF ClientStep
<1>3. CASE ServerStep
  BY <1>1, <1>3, StepGoes, Server13Goes, Server12Goes DEF ServerStep
<1>4. CASE Terminated \/ UNCHANGED vars
  BY <1>4, StutterGoes DEF Terminated
<1> QED
  BY <1>2, <1>3, <1>4 DEF Next

\* Both ends begin at place 0, and no flight has gone.
LEMMA InitGoes ==
    ASSUME Init
    PROVE  InStep /\ Flights!Init
<1> DEFINE u == setup
<1>1. u \in Setups /\ u \in Setup /\ u.clientMax \in Versions /\ u.serverMax \in Versions
  BY SetupAssumption DEF Init, Setup
<1>2. /\ ssl["client"] = NewContext(u.clientMax) /\ ssl["server"] = NewContext(u.serverMax)
      /\ \A e \in Ends : wire[e] = <<>> /\ flights[e] = 0
      /\ flights = [e \in Ends |-> 0]
  BY DEF Init, Ends
<1>3. ASSUME NEW e \in Ends
      PROVE  LET s == ssl[e] IN
             /\ s.state = "HELLO_REQUEST" /\ s.out = <<>> /\ ~ s.keep /\ s.checksum = <<>>
             /\ s.inKey = "plain" /\ s.outKey = "plain" /\ ~ s.clientAuth /\ ~ s.retried
             /\ ~ s.ccsSent
             /\ s.peerCert = "empty" /\ ~ s.newTicket /\ s.result = "running"
  BY <1>2 DEF Ends, NewContext
<1>4. ssl["client"].version = u.clientMax /\ ssl["server"].version = u.serverMax
  BY <1>2 DEF NewContext
<1>5. \A e \in Ends : \A p \in {Place12(ssl[e]), ClientPlace13(ssl[e]), ServerPlace13(ssl[e])} : p = 0
  BY <1>3 DEF Place12, ClientPlace13, ServerPlace13
<1>6. \A e \in Ends : Reached(e) = 0
  BY <1>5 DEF Reached, Place
<1>7. Transcript(u, 0) = <<>>
  BY TranscriptIs
<1>8. FitsPlace(u, "client", ssl["client"])
  <2>1. u.clientMax = "tls13" => Client13Fits(u, ssl["client"])
    BY <1>3, <1>5, <1>7 DEF Client13Fits, Ends
  <2>2. u.clientMax = "tls12" => Client12Fits(u, ssl["client"])
    BY <1>3, <1>5, <1>7 DEF Client12Fits, Ends, V12
  <2> QED
    BY <1>1, <1>4, <2>1, <2>2 DEF FitsPlace, Versions
<1>9. FitsPlace(u, "server", ssl["server"])
  <2>1. u.serverMax = "tls13" => Server13Fits(u, ssl["server"])
    BY <1>3, <1>5, <1>7 DEF Server13Fits, Ends
  <2>2. u.serverMax = "tls12" => Server12Fits(u, ssl["server"])
    BY <1>3, <1>5, <1>7 DEF Server12Fits, Ends, V12
  <2> QED
    BY <1>1, <1>4, <2>1, <2>2 DEF FitsPlace, Versions
<1>10. FlightsAt(u, 0) = 0
  <2>1. \A k \in FlightEnds : ~ (k <= 0)
    BY DEF FlightEnds
  <2>2. \A k \in FlightEnds : Ended(u, k, 0) = 0
    BY <2>1 DEF Ended
  <2> QED
    BY <2>2 DEF FlightsAt, FlightEnds
<1>11. ASSUME NEW e \in Ends
       PROVE  InOrder(e)
  <2>1. Other(e) \in Ends
    BY EndsAre
  <2>2. Unheard(e) = <<>> /\ \A i \in 1 .. Len(<<>>) : FALSE
    BY <1>2, <1>3, <2>1 DEF Unheard, Sent
  <2>3. \A k \in Lines(u) : ~ (k <= 0)
    BY LinesAre
  <2>4. Lined(u, e, <<>>, 0, 0) /\ NoAlert(u, e, <<>>)
    BY <2>2, <2>3 DEF Lined, NoAlert
  <2> QED
    BY <1>3, <1>6, <2>1, <2>2, <2>4 DEF InOrder
<1>12. FailsOnlyByRefusal
  BY <1>3 DEF FailsOnlyByRefusal, Refused, Refusals
<1>13. InStep
  BY <1>2, <1>6, <1>8, <1>9, <1>10, <1>11, <1>12 DEF InStep, Ends
<1>14. Flights!Init
  <2>1. Total \in Nat
    BY FlightsAre
  <2>2. \A e \in Ends : ssl[e].result = "running" /\ ~ Over(e)
    BY <1>3 DEF Over
  <2> QED
    BY <1>2, <2>1, <2>2 DEF Flights!Init, Flights!Ends, Ends
<1> QED
  BY <1>13, <1>14

-----------------------------------------------------------------------------
(* The theorems.                                                           *)

\* In every reachable state the two ends are in step: each is at a place of one
\* script, its context is what that place makes it, and what lies between them
\* is what the one has said and the other has not heard, in order.
THEOREM HandshakeInStep == Spec => []InStep
<1>1. Init => InStep
  BY InitGoes
<1>2. IInv /\ InStep /\ [Next]_vars => InStep'
  BY NextGoes DEF Goes
<1> QED
  BY <1>1, <1>2, HandshakeInvariant, PTL DEF Spec

\* Two ends of this code fail for one of two causes, whatever certificates, lists
\* of protocols and modes they are configured to: one of them requires a
\* certificate that verifies and the other has none, or the server finds no name
\* of the client's list in its own.  No transcript, no key and no order of
\* messages is ever refused.
THEOREM OnlyRefusals == Spec => []FailsOnlyByRefusal
<1>1. InStep => FailsOnlyByRefusal
  BY DEF InStep
<1> QED
  BY <1>1, HandshakeInStep, PTL

\* The two state machines implement the flights TlsStream.tla rests on: 3 in
\* TLS 1.3, 5 when the client has to send its hello again, 4 in TLS 1.2.
THEOREM HandshakeIsFlights == Spec => ImplementsFlights
<1>1. Init => Flights!Init
  BY InitGoes
<1>2. IInv /\ InStep /\ [Next]_vars => [Flights!Next]_(Flights!vars)
  BY NextGoes DEF Goes
<1> QED
  BY <1>1, <1>2, HandshakeInvariant, HandshakeInStep, PTL DEF Spec, ImplementsFlights, Flights!Spec

=============================================================================
