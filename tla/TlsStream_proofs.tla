-------------------------- MODULE TlsStream_proofs --------------------------
(***************************************************************************)
(* Proofs about TlsStream, for every value of its constants, in three      *)
(* parts: what one fiber knows (types, that it blocks in Net.read only     *)
(* with a drained session, that nothing sealed is lost when a session is   *)
(* freed); what the two pumps do together in a handshake; and that the two *)
(* streams implement SecureChannel.                                        *)
(*                                                                         *)
(* BlocksOnlyWhenDrained is not inductive: between the moment mbedTLS      *)
(* answers WANT_READ and Net.read, a fiber passes the loop heads of the    *)
(* pump and of flush_out.  Local says what holds at each of them; it       *)
(* speaks of one endpoint only, so a step of the other keeps it (Move).    *)
(***************************************************************************)
EXTENDS TlsStream, SequenceTheorems, TLAPS

-----------------------------------------------------------------------------
(* What the functions of the shim make of a session.                       *)

\* The smaller of two naturals is one of them.
LEMMA SmallerProperties ==
    ASSUME NEW a \in Nat, NEW b \in Nat
    PROVE  /\ Smaller(a, b) \in Nat
           /\ Smaller(a, b) <= a
           /\ Smaller(a, b) <= b
           /\ a > 0 /\ b > 0 => Smaller(a, b) > 0
BY DEF Smaller

\* Cutting a sequence in two gives two sequences over the same set.
LEMMA Cut ==
    ASSUME NEW S, NEW s \in Seq(S), NEW k \in Nat, k <= Len(s)
    PROVE  /\ SubSeq(s, 1, k) \in Seq(S)
           /\ SubSeq(s, k + 1, Len(s)) \in Seq(S)
           /\ Len(SubSeq(s, 1, k)) = k
           /\ Len(SubSeq(s, k + 1, Len(s))) = Len(s) - k
<1>1. Len(s) \in Nat /\ \A i \in 1 .. Len(s) : s[i] \in S
  OBVIOUS
<1>2. /\ SubSeq(s, 1, k) \in Seq(S)
      /\ Len(SubSeq(s, 1, k)) = IF 1 <= k THEN k - 1 + 1 ELSE 0
  <2>1. \A i \in 1 .. k : s[i] \in S
    BY <1>1
  <2> QED
    BY <2>1, SubSeqProperties
<1>3. /\ SubSeq(s, k + 1, Len(s)) \in Seq(S)
      /\ Len(SubSeq(s, k + 1, Len(s))) =
             IF k + 1 <= Len(s) THEN Len(s) - (k + 1) + 1 ELSE 0
  <2>1. \A i \in k + 1 .. Len(s) : s[i] \in S
    BY <1>1
  <2>2. k + 1 \in Int /\ Len(s) \in Int
    BY <1>1
  <2> QED
    BY <2>1, <2>2, SubSeqProperties
<1> QED
  BY <1>1, <1>2, <1>3

-----------------------------------------------------------------------------
\* Every record there is, is one.
LEMMA RecordsType ==
    /\ \A f \in Nat : Flight(f) \in Record
    /\ \A bytes \in Seq(Nat) : Data(bytes) \in Record
    /\ CloseNotify \in Record
    /\ Alert \in Record
    /\ BadRecord \in Record
<1>1. <<>> \in Seq(Nat) /\ \A f \in Nat : <<f>> \in Seq(Nat)
  OBVIOUS
<1> QED
  BY <1>1 DEF Flight, Data, CloseNotify, Alert, BadRecord, Record, RecordTypes

\* A record is two units.
LEMMA UnitsType ==
    ASSUME NEW r \in Record
    PROVE  Units(r) \in Seq(Unit)
<1>1. [rec |-> r, part |-> "header"] \in Unit /\ [rec |-> r, part |-> "body"] \in Unit
  BY DEF Unit
<1> QED
  BY <1>1 DEF Units

\* _tls_send_cb changes out_buf only.
LEMMA SendRecordType ==
    ASSUME NEW s \in NovaTlsSession, NEW r \in Record
    PROVE  /\ SendRecord(s, r) \in NovaTlsSession
           /\ SendRecord(s, r).hs = s.hs
           /\ SendRecord(s, r).left = s.left
           /\ SendRecord(s, r).inb = s.inb
           /\ SendRecord(s, r).plain = s.plain
<1>1. s.outb \o Units(r) \in Seq(Unit)
  BY UnitsType, ConcatProperties DEF NovaTlsSession
<1> QED
  BY <1>1 DEF SendRecord, NovaTlsSession

\* tls_read_tls changes in_buf only.
LEMMA ReadTlsType ==
    ASSUME NEW s \in NovaTlsSession, NEW bytes \in Seq(Unit)
    PROVE  /\ tls_read_tls(s, bytes) \in NovaTlsSession
           /\ tls_read_tls(s, bytes).plain = s.plain
<1>1. s.inb \o bytes \in Seq(Unit)
  BY ConcatProperties DEF NovaTlsSession
<1> QED
  BY <1>1 DEF tls_read_tls, NovaTlsSession

\* tls_write_tls takes a chunk off out_buf and leaves the rest alone.
LEMMA WriteTlsType ==
    ASSUME NEW s \in NovaTlsSession
    PROVE  /\ Dequeued(s) \in Seq(Unit)
           /\ tls_write_tls(s) \in NovaTlsSession
           /\ tls_write_tls(s).hs = s.hs
           /\ tls_write_tls(s).left = s.left
           /\ tls_write_tls(s).inb = s.inb
           /\ tls_write_tls(s).plain = s.plain
<1>1. s.outb \in Seq(Unit) /\ Len(s.outb) \in Nat
  BY DEF NovaTlsSession
<1>2. WriteSize(s) \in Nat /\ WriteSize(s) <= Len(s.outb)
  BY <1>1, SmallerProperties, SessionAssumption DEF WriteSize
<1>3. /\ SubSeq(s.outb, 1, WriteSize(s)) \in Seq(Unit)
      /\ SubSeq(s.outb, WriteSize(s) + 1, Len(s.outb)) \in Seq(Unit)
  BY <1>1, <1>2, Cut
<1> QED
  BY <1>3 DEF Dequeued, tls_write_tls, NovaTlsSession

-----------------------------------------------------------------------------
\* What mbedTLS has at hand are units, at least two of them if HasRecord.
LEMMA FetchedType ==
    ASSUME NEW s \in NovaTlsSession
    PROVE  Fetched(s) \in Seq(Unit) /\ Len(Fetched(s)) \in Nat
BY ConcatProperties DEF Fetched, NovaTlsSession

\* The record read is a record.
LEMMA NextRecordType ==
    ASSUME NEW s \in NovaTlsSession, HasRecord(s)
    PROVE  NextRecord(s) \in Record
<1>1. Fetched(s)[1] \in Unit
  BY FetchedType DEF HasRecord
<1> QED
  BY <1>1, RecordsType DEF NextRecord, Unit

\* Taking it changes only the input.
LEMMA TakeRecordType ==
    ASSUME NEW s \in NovaTlsSession, HasRecord(s)
    PROVE  /\ TakeRecord(s) \in NovaTlsSession
           /\ TakeRecord(s).hs = s.hs
           /\ TakeRecord(s).plain = s.plain
<1>1. SubSeq(Fetched(s), 2 + 1, Len(Fetched(s))) \in Seq(Unit)
  BY FetchedType, Cut DEF HasRecord
<1>2. SubSeq(Fetched(s), 3, Len(Fetched(s))) \in Seq(Unit) /\ <<>> \in Seq(Unit)
  BY <1>1
<1> QED
  BY <1>2 DEF TakeRecord, NovaTlsSession

\* Without a whole record all the input ends up, short of one, in in_left.
LEMMA KeepPartialType ==
    ASSUME NEW s \in NovaTlsSession
    PROVE  /\ KeepPartial(s) \in NovaTlsSession
           /\ KeepPartial(s).hs = s.hs
           /\ KeepPartial(s).plain = s.plain
           /\ KeepPartial(s).outb = s.outb
           /\ KeepPartial(s).inb = <<>>
           /\ ~HasRecord(s) => Len(KeepPartial(s).left) < 2
<1>1. <<>> \in Seq(Unit)
  OBVIOUS
<1>2. Fetched(s) \in Seq(Unit) /\ Len(Fetched(s)) \in Nat
  BY FetchedType
<1>3. /\ KeepPartial(s) \in NovaTlsSession
      /\ KeepPartial(s).hs = s.hs
      /\ KeepPartial(s).plain = s.plain
      /\ KeepPartial(s).outb = s.outb
      /\ KeepPartial(s).inb = <<>>
      /\ KeepPartial(s).left = Fetched(s)
  BY <1>1, <1>2 DEF KeepPartial, NovaTlsSession
<1> QED
  BY <1>2, <1>3 DEF HasRecord

\* Accepting a flight before the last never passes the end of the handshake.
LEMMA AcceptFlightType ==
    ASSUME NEW s \in NovaTlsSession, HasRecord(s), s.hs # NumFlights
    PROVE  /\ AcceptFlight(s) \in NovaTlsSession
           /\ AcceptFlight(s).plain = s.plain
<1> DEFINE accepted == [TakeRecord(s) EXCEPT !.hs = s.hs + 1]
           answered == [accepted EXCEPT !.hs = @ + 1]
<1>1. s.hs \in Nat /\ s.hs + 1 \in 0 .. NumFlights /\ NumFlights \in Nat
  BY SessionAssumption DEF NovaTlsSession
<1>2. accepted \in NovaTlsSession /\ accepted.plain = s.plain /\ accepted.hs = s.hs + 1
  BY <1>1, TakeRecordType DEF NovaTlsSession
<1>3. CASE accepted.hs = NumFlights
  BY <1>2, <1>3 DEF AcceptFlight
<1>4. CASE accepted.hs # NumFlights
  <2>1. answered \in NovaTlsSession /\ answered.plain = s.plain
    <3> HIDE DEF accepted
    <3>1. accepted.hs + 1 \in 0 .. NumFlights
      BY <1>1, <1>2, <1>4
    <3> QED
      BY <1>2, <3>1 DEF NovaTlsSession
  <2>2. Flight(accepted.hs + 1) \in Record
    BY <1>1, <1>2, RecordsType
  <2>3. AcceptFlight(s) = SendRecord(answered, Flight(accepted.hs + 1))
    BY <1>4 DEF AcceptFlight
  <2> QED
    BY <2>1, <2>2, <2>3, SendRecordType
<1> QED
  BY <1>3, <1>4

-----------------------------------------------------------------------------
\* A data record opened is plaintext.
LEMMA OpenDataType ==
    ASSUME NEW s \in NovaTlsSession, HasRecord(s)
    PROVE  OpenData(s) \in NovaTlsSession
<1>1. NextRecord(s).val \in Seq(Nat)
  BY NextRecordType DEF Record
<1> QED
  BY <1>1, TakeRecordType DEF OpenData, NovaTlsSession

\* What is handed out, and what is left, are bytes.
LEMMA HandOutType ==
    ASSUME NEW s \in NovaTlsSession, NEW cap \in Nat
    PROVE  HandedOut(s, cap) \in Seq(Nat) /\ HandOut(s, cap) \in NovaTlsSession
<1>1. s.plain \in Seq(Nat) /\ Len(s.plain) \in Nat
  BY DEF NovaTlsSession
<1>2. /\ Smaller(cap, Len(s.plain)) \in Nat
      /\ Smaller(cap, Len(s.plain)) <= Len(s.plain)
  BY <1>1, SmallerProperties
<1>3. /\ SubSeq(s.plain, 1, Smaller(cap, Len(s.plain))) \in Seq(Nat)
      /\ SubSeq(s.plain, Smaller(cap, Len(s.plain)) + 1, Len(s.plain)) \in Seq(Nat)
  BY <1>1, <1>2, Cut
<1> QED
  BY <1>3 DEF HandedOut, HandOut, NovaTlsSession

\* tls_write_plain changes out_buf only.
LEMMA WritePlainType ==
    ASSUME NEW s \in NovaTlsSession, NEW bytes \in Seq(Nat)
    PROVE  tls_write_plain(s, bytes) \in NovaTlsSession
BY SendRecordType, RecordsType DEF tls_write_plain

-----------------------------------------------------------------------------
(* What a fiber may rely on at the place where it is.                      *)

Drained(s) == s.plain = <<>> /\ s.inb = <<>> /\ Len(s.left) < 2

LocalAt(p, c, s, ciphertext) ==
    /\ p # "send" => ciphertext = <<>>
    /\ p \in {"pump", "process"} => c = "handshake" /\ s.plain = <<>>
    /\ p = "pump" /\ tls_is_handshaking(s) => Drained(s)
    /\ p \in {"flush", "send"} /\ c \in {"handshake", "read"} => Drained(s)
    /\ p = "read" => c = "read"
    /\ p = "write" => c \in {"write", "write_all"}
    /\ p = "fill" => c \in {"handshake", "read"} /\ Drained(s) /\ s.outb = <<>>

Local(e) == LocalAt(pc[e], call[e], session[e], scratch[e])

IInv == TypeOK /\ \A e \in Endpoint : Local(e)

-----------------------------------------------------------------------------
\* The state the constructors leave satisfies the invariant.
LEMMA InitIInv == Init => IInv
<1> SUFFICES ASSUME Init PROVE IInv
  OBVIOUS
<1> DEFINE start == [Freed EXCEPT !.hs = 1]
           hello == SendRecord(start, Flight(1))
<1>1. /\ Freed \in NovaTlsSession /\ Drained(Freed)
      /\ start \in NovaTlsSession /\ Drained(start)
  <2>1. <<>> \in Seq(Unit) /\ <<>> \in Seq(Nat) /\ 0 \in 0 .. NumFlights
        /\ 1 \in 0 .. NumFlights
    BY SessionAssumption
  <2>2. start = [hs |-> 1, left |-> <<>>, plain |-> <<>>, inb |-> <<>>, outb |-> <<>>]
    BY DEF Freed
  <2> HIDE DEF start
  <2>3. Len(<<>>) < 2
    OBVIOUS
  <2> QED
    BY <2>1, <2>2, <2>3 DEF Freed, NovaTlsSession, Drained
<1>2. hello \in NovaTlsSession /\ Drained(hello)
  <2>1. Flight(1) \in Record
    BY RecordsType
  <2> QED
    <3> HIDE DEF start
    <3> QED
      BY <1>1, <2>1, SendRecordType DEF Drained
<1>3. /\ pc = [e \in Endpoint |-> "pump"]
      /\ call = [e \in Endpoint |-> "handshake"]
      /\ session = [e \in Endpoint |-> IF e = "client" THEN hello ELSE Freed]
      /\ scratch = [e \in Endpoint |-> <<>>]
  BY DEF Init
<1> HIDE DEF hello
<1>4. TypeOK
  <2>1. /\ pc \in [Endpoint -> PC] /\ call \in [Endpoint -> Call]
        /\ session \in [Endpoint -> NovaTlsSession]
    BY <1>1, <1>2, <1>3 DEF PC, Running, Call
  <2>2. scratch \in [Endpoint -> Seq(Unit)]
    BY <1>3
  <2>3. /\ todo \in [Endpoint -> Nat]
        /\ result \in [Endpoint -> Result]
        /\ chan \in [Endpoint -> Seq(Unit)]
        /\ open \in [Endpoint -> BOOLEAN]
        /\ broken \in BOOLEAN
        /\ refused \in {0} \cup RefusableFlights
        /\ written \in [Endpoint -> Nat]
        /\ received \in [Endpoint -> Seq(Nat)]
        /\ notified \in [Endpoint -> BOOLEAN]
        /\ ended \in [Endpoint -> BOOLEAN]
    <3>1. /\ todo = [e \in Endpoint |-> 0]
          /\ result = [e \in Endpoint |-> "none"]
          /\ chan = [e \in Endpoint |-> <<>>]
          /\ open = [e \in Endpoint |-> TRUE]
          /\ broken = FALSE
          /\ refused \in {0} \cup RefusableFlights
          /\ written = [e \in Endpoint |-> 0]
          /\ received = [e \in Endpoint |-> <<>>]
          /\ notified = [e \in Endpoint |-> FALSE]
          /\ ended = [e \in Endpoint |-> FALSE]
      BY DEF Init
    <3>2. /\ open \in [Endpoint -> BOOLEAN]
          /\ notified \in [Endpoint -> BOOLEAN]
          /\ ended \in [Endpoint -> BOOLEAN]
      BY <3>1, Zenon
    <3>3. chan \in [Endpoint -> Seq(Unit)] /\ received \in [Endpoint -> Seq(Nat)]
      BY <3>1
    <3> QED
      BY <3>1, <3>2, <3>3 DEF Result
  <2> QED
    BY <2>1, <2>2, <2>3 DEF TypeOK
<1>5. ASSUME NEW e \in Endpoint PROVE Local(e)
  <2>1. /\ pc[e] = "pump" /\ call[e] = "handshake" /\ scratch[e] = <<>>
        /\ session[e] \in {hello, Freed}
    BY <1>3
  <2> QED
    BY <1>1, <1>2, <2>1 DEF Local, LocalAt, Drained
<1> QED
  BY <1>4, <1>5 DEF IInv

-----------------------------------------------------------------------------
\* The variables Local does not speak of.
OtherTypes ==
    /\ todo \in [Endpoint -> Nat]
    /\ result \in [Endpoint -> Result]
    /\ chan \in [Endpoint -> Seq(Unit)]
    /\ open \in [Endpoint -> BOOLEAN]
    /\ broken \in BOOLEAN
    /\ refused \in {0} \cup RefusableFlights
    /\ written \in [Endpoint -> Nat]
    /\ received \in [Endpoint -> Seq(Nat)]
    /\ notified \in [Endpoint -> BOOLEAN]
    /\ ended \in [Endpoint -> BOOLEAN]

\* A step that changes the fiber of one endpoint keeps the invariant if what
\* it leaves there is sound.
LEMMA Move ==
    ASSUME IInv, NEW e \in Endpoint,
           NEW p \in PC, NEW c \in Call, NEW s \in NovaTlsSession, NEW x \in Seq(Unit),
           pc' = [pc EXCEPT ![e] = p],
           call' = [call EXCEPT ![e] = c],
           session' = [session EXCEPT ![e] = s],
           scratch' = [scratch EXCEPT ![e] = x],
           LocalAt(p, c, s, x),
           OtherTypes'
    PROVE  IInv'
<1>1. TypeOK
  BY DEF IInv
<1>2. TypeOK'
  BY <1>1 DEF TypeOK, OtherTypes
<1>3. ASSUME NEW d \in Endpoint PROVE Local(d)'
  <2>1. CASE d = e
    <3>1. pc'[d] = p /\ call'[d] = c /\ session'[d] = s /\ scratch'[d] = x
      BY <1>1, <2>1 DEF TypeOK
    <3> QED
      BY <3>1 DEF Local
  <2>2. CASE d # e
    <3>1. /\ pc'[d] = pc[d] /\ call'[d] = call[d]
          /\ session'[d] = session[d] /\ scratch'[d] = scratch[d]
      BY <1>1, <2>2 DEF TypeOK
    <3>2. Local(d)
      BY DEF IInv
    <3> QED
      BY <3>1, <3>2 DEF Local
  <2> QED
    BY <2>1, <2>2
<1> QED
  BY <1>2, <1>3 DEF IInv

\* What the invariant says of one endpoint.
LEMMA At ==
    ASSUME IInv, NEW e \in Endpoint
    PROVE  /\ pc[e] \in PC /\ call[e] \in Call /\ session[e] \in NovaTlsSession
           /\ scratch[e] \in Seq(Unit) /\ todo[e] \in Nat /\ result[e] \in Result
           /\ written[e] \in Nat /\ received[e] \in Seq(Nat)
           /\ LocalAt(pc[e], call[e], session[e], scratch[e])
           /\ OtherTypes
           /\ pc = [pc EXCEPT ![e] = pc[e]]
           /\ call = [call EXCEPT ![e] = call[e]]
           /\ session = [session EXCEPT ![e] = session[e]]
           /\ scratch = [scratch EXCEPT ![e] = scratch[e]]
<1>1. TypeOK /\ Local(e)
  BY DEF IInv
<1>2. OtherTypes
  BY <1>1 DEF TypeOK, OtherTypes
<1>3. /\ pc[e] \in PC /\ call[e] \in Call /\ session[e] \in NovaTlsSession
      /\ scratch[e] \in Seq(Unit) /\ todo[e] \in Nat /\ result[e] \in Result
      /\ written[e] \in Nat /\ received[e] \in Seq(Nat)
  BY <1>1 DEF TypeOK
<1>4. /\ pc = [pc EXCEPT ![e] = pc[e]]
      /\ call = [call EXCEPT ![e] = call[e]]
      /\ session = [session EXCEPT ![e] = session[e]]
      /\ scratch = [scratch EXCEPT ![e] = scratch[e]]
  BY <1>1 DEF TypeOK
<1> QED
  BY <1>1, <1>2, <1>3, <1>4 DEF Local

-----------------------------------------------------------------------------
(* How a fiber moves on.                                                   *)

\* The types of all but pc, call, scratch and sessions, when none of it changed.
LEMMA SameOtherTypes ==
    ASSUME OtherTypes, UNCHANGED << todo, result, NetVars, refused, HistoryVars >>
    PROVE  OtherTypes'
BY DEF OtherTypes, NetVars, HistoryVars

\* Release leaves an empty session behind.
LEMMA ReleaseKeeps ==
    ASSUME IInv, NEW e \in Endpoint, NEW p \in {"failed", "closed", "crashed"},
           Release(e, p), UNCHANGED << call, chan, broken, refused, HistoryVars >>,
           result' \in [Endpoint -> Result]
    PROVE  IInv'
<1>1. OtherTypes'
  <2>1. open' \in [Endpoint -> BOOLEAN]
    <3>1. open \in [Endpoint -> BOOLEAN] /\ open' = [open EXCEPT ![e] = FALSE]
      BY At DEF OtherTypes, Release
    <3> QED
      BY <3>1
  <2>2. todo' \in [Endpoint -> Nat]
    BY At DEF OtherTypes, Release
  <2> QED
    BY <2>1, <2>2, At DEF OtherTypes, HistoryVars
<1>2. Freed \in NovaTlsSession /\ <<>> \in Seq(Unit) /\ p \in PC
  <2>1. <<>> \in Seq(Unit) /\ <<>> \in Seq(Nat) /\ 0 \in 0 .. NumFlights
    BY SessionAssumption
  <2> QED
    BY <2>1 DEF Freed, NovaTlsSession, PC, Over
<1>3. LocalAt(p, call[e], Freed, <<>>)
  BY DEF LocalAt
<1>4. /\ pc' = [pc EXCEPT ![e] = p]
      /\ call' = [call EXCEPT ![e] = call[e]]
      /\ session' = [session EXCEPT ![e] = Freed]
      /\ scratch' = [scratch EXCEPT ![e] = <<>>]
  BY At DEF Release, Goto
<1> QED
  BY <1>1, <1>2, <1>3, <1>4, At, Move

\* connect or accept returning Err.
LEMMA FailKeeps ==
    ASSUME IInv, NEW e \in Endpoint, NEW error \in Result, FailHandshake(e, error)
    PROVE  IInv'
<1>1. result' \in [Endpoint -> Result]
  BY At DEF OtherTypes, FailHandshake
<1> QED
  BY <1>1, ReleaseKeeps DEF FailHandshake

\* An operation returning to the application.
LEMMA ReturnKeeps ==
    ASSUME IInv, NEW e \in Endpoint, NEW outcome \in Result, Return(e, outcome),
           NEW s \in NovaTlsSession, session' = [session EXCEPT ![e] = s],
           scratch' = [scratch EXCEPT ![e] = <<>>],
           UNCHANGED << NetVars, refused, written, notified >>,
           received' \in [Endpoint -> Seq(Nat)],
           ended' \in [Endpoint -> BOOLEAN]
    PROVE  IInv'
<1>1. OtherTypes'
  <2>1. todo' \in [Endpoint -> Nat] /\ result' \in [Endpoint -> Result]
    BY At DEF OtherTypes, Return
  <2> QED
    BY <2>1, At DEF OtherTypes, NetVars
<1>2. "idle" \in PC /\ "none" \in Call /\ <<>> \in Seq(Unit)
  BY DEF PC, Call
<1>3. LocalAt("idle", "none", s, <<>>)
  BY DEF LocalAt
<1>4. pc' = [pc EXCEPT ![e] = "idle"] /\ call' = [call EXCEPT ![e] = "none"]
  BY DEF Return, Goto
<1> QED
  BY <1>1, <1>2, <1>3, <1>4, Move

-----------------------------------------------------------------------------
(* flush_out.                                                              *)

\* flush_out takes the next chunk.
LEMMA FlushChunkKeeps ==
    ASSUME IInv, NEW e \in Endpoint, FlushChunk(e)
    PROVE  IInv'
<1>1. OtherTypes'
  BY At, SameOtherTypes DEF FlushChunk
<1>2. /\ tls_write_tls(session[e]) \in NovaTlsSession
      /\ Dequeued(session[e]) \in Seq(Unit)
  BY At, WriteTlsType
<1>3. LocalAt("send", call[e], tls_write_tls(session[e]), Dequeued(session[e]))
  BY At, WriteTlsType DEF FlushChunk, LocalAt, Drained
<1>4. /\ pc' = [pc EXCEPT ![e] = "send"] /\ call' = [call EXCEPT ![e] = call[e]]
      /\ session' = [session EXCEPT ![e] = tls_write_tls(session[e])]
      /\ scratch' = [scratch EXCEPT ![e] = Dequeued(session[e])]
  BY At DEF FlushChunk, Goto
<1>5. "send" \in PC
  BY DEF PC, Running
<1> QED
  BY <1>1, <1>2, <1>3, <1>4, <1>5, At, Move

\* write_all hands TCP a part of the chunk.
LEMMA SendToTcpKeeps ==
    ASSUME IInv, NEW e \in Endpoint, SendToTcp(e)
    PROVE  IInv'
<1>1. PICK k \in 1 .. Len(scratch[e]) :
        /\ chan' = [chan EXCEPT ![e] = @ \o SubSeq(scratch[e], 1, k)]
        /\ scratch' = [scratch EXCEPT ![e] = SubSeq(@, k + 1, Len(@))]
        /\ Goto(e, IF k = Len(scratch[e]) THEN "flush" ELSE "send")
  BY DEF SendToTcp
<1> DEFINE p == IF k = Len(scratch[e]) THEN "flush" ELSE "send"
           x == SubSeq(scratch[e], k + 1, Len(scratch[e]))
<1>2. /\ SubSeq(scratch[e], 1, k) \in Seq(Unit) /\ x \in Seq(Unit)
      /\ Len(x) = Len(scratch[e]) - k
  <2>1. scratch[e] \in Seq(Unit) /\ k \in Nat /\ k <= Len(scratch[e])
    BY At
  <2> QED
    BY <2>1, Cut
<1>3. OtherTypes'
  <2>1. chan' \in [Endpoint -> Seq(Unit)]
    <3>1. chan \in [Endpoint -> Seq(Unit)]
      BY At DEF OtherTypes
    <3>2. chan[e] \o SubSeq(scratch[e], 1, k) \in Seq(Unit)
      BY <1>2, <3>1, ConcatProperties
    <3> QED
      BY <1>1, <3>1, <3>2
  <2> QED
    BY <2>1, At DEF SendToTcp, OtherTypes, HistoryVars
<1>4. LocalAt(p, call[e], session[e], x)
  <2>1. p = "flush" => x = <<>>
    BY <1>2, At
  <2> QED
    BY <2>1, At DEF SendToTcp, LocalAt
<1>5. p \in PC
  BY DEF PC, Running
<1>6. /\ pc' = [pc EXCEPT ![e] = p] /\ scratch' = [scratch EXCEPT ![e] = x]
      /\ call' = [call EXCEPT ![e] = call[e]]
      /\ session' = [session EXCEPT ![e] = session[e]]
  BY <1>1, At DEF Goto, SendToTcp
<1> HIDE DEF p, x
<1> QED
  BY <1>2, <1>3, <1>4, <1>5, <1>6, At, Move

\* write_all fails, on behalf of each caller.
LEMMA SendFailsKeeps ==
    ASSUME IInv, NEW e \in Endpoint, SendFails(e)
    PROVE  IInv'
<1>1. ASSUME FailHandshake(e, "Net") PROVE IInv'
  BY <1>1, FailKeeps DEF Result, Error
<1>2. ASSUME FailHandshake(e, result[e]) PROVE IInv'
  BY <1>2, At, FailKeeps
<1>3. ASSUME Return(e, "Net"), scratch' = [scratch EXCEPT ![e] = <<>>],
             UNCHANGED << session, NetVars, refused, HistoryVars >>
      PROVE  IInv'
  <2>1. "Net" \in Result
    BY DEF Result, Error
  <2>2. session' = [session EXCEPT ![e] = session[e]] /\ session[e] \in NovaTlsSession
    BY <1>3, At
  <2>3. /\ UNCHANGED << NetVars, refused, written, notified >>
        /\ received' \in [Endpoint -> Seq(Nat)]
        /\ ended' \in [Endpoint -> BOOLEAN]
    BY <1>3, At DEF HistoryVars, OtherTypes
  <2> QED
    BY <1>3, <2>1, <2>2, <2>3, ReturnKeeps
<1>4. ASSUME Release(e, "closed"), UNCHANGED << call, result, chan, broken, refused, HistoryVars >>
      PROVE  IInv'
  BY <1>4, At, ReleaseKeeps DEF OtherTypes
<1> QED
  BY <1>1, <1>2, <1>3, <1>4 DEF SendFails, EndClose

\* The loop heads a flush returns to hold nothing Local does not grant.
LEMMA FlushDoneKeeps ==
    ASSUME IInv, NEW e \in Endpoint, FlushDone(e)
    PROVE  IInv'
<1>1. ASSUME NEW p \in PC, Goto(e, p), LocalAt(p, call[e], session[e], scratch[e]),
             UNCHANGED << call, session, scratch, todo, result, NetVars, refused, HistoryVars >>
      PROVE  IInv'
  <2>1. OtherTypes'
    BY <1>1, At, SameOtherTypes
  <2>2. /\ pc' = [pc EXCEPT ![e] = p] /\ call' = [call EXCEPT ![e] = call[e]]
        /\ session' = [session EXCEPT ![e] = session[e]]
        /\ scratch' = [scratch EXCEPT ![e] = scratch[e]]
    BY <1>1, At DEF Goto
  <2>3. call[e] \in Call /\ session[e] \in NovaTlsSession /\ scratch[e] \in Seq(Unit)
    BY At
  <2>4. LocalAt(p, call[e], session[e], scratch[e])
    BY <1>1
  <2> QED
    BY <2>1, <2>2, <2>3, <2>4, Move
<1>2. CASE call[e] = "handshake" /\ Goto(e, "pump") /\
           UNCHANGED << call, session, scratch, todo, result, NetVars, refused, HistoryVars >>
  <2>1. LocalAt("pump", call[e], session[e], scratch[e])
    BY <1>2, At DEF FlushDone, Flushed, LocalAt, Drained
  <2> QED
    BY <1>1, <1>2, <2>1 DEF PC, Running
<1>3. CASE call[e] = "read" /\ Goto(e, "fill") /\
           UNCHANGED << call, session, scratch, todo, result, NetVars, refused, HistoryVars >>
  <2>1. LocalAt("fill", call[e], session[e], scratch[e])
    BY <1>3, At DEF FlushDone, Flushed, LocalAt, Drained, tls_wants_write
  <2> QED
    BY <1>1, <1>3, <2>1 DEF PC, Running
<1>4. CASE call[e] = "write_all" /\ Goto(e, "write") /\
           UNCHANGED << call, session, scratch, todo, result, NetVars, refused, HistoryVars >>
  <2>1. LocalAt("write", call[e], session[e], scratch[e])
    BY <1>4, At DEF FlushDone, Flushed, LocalAt
  <2> QED
    BY <1>1, <1>4, <2>1 DEF PC, Running
<1>5. CASE Return(e, "ok") /\ UNCHANGED << session, scratch, NetVars, refused, HistoryVars >>
  <2>1. "ok" \in Result
    BY DEF Result
  <2>2. session' = [session EXCEPT ![e] = session[e]] /\ session[e] \in NovaTlsSession
    BY <1>5, At
  <2>3. scratch' = [scratch EXCEPT ![e] = <<>>]
    BY <1>5, At DEF FlushDone, Flushed, LocalAt
  <2>4. /\ UNCHANGED << NetVars, refused, written, notified >>
        /\ received' \in [Endpoint -> Seq(Nat)]
        /\ ended' \in [Endpoint -> BOOLEAN]
    BY <1>5, At DEF HistoryVars, OtherTypes
  <2> QED
    BY <1>5, <2>1, <2>2, <2>3, <2>4, ReturnKeeps
<1>6. CASE FailHandshake(e, result[e])
  BY <1>6, At, FailKeeps
<1>7. CASE Release(e, "closed") /\ UNCHANGED << call, result, chan, broken, refused, HistoryVars >>
  BY <1>7, At, ReleaseKeeps DEF OtherTypes
<1> QED
  BY <1>2, <1>3, <1>4, <1>5, <1>6, <1>7 DEF FlushDone, Flushed, EndClose

-----------------------------------------------------------------------------
(* fill_from_tcp.                                                          *)

\* Net.read returns some bytes.
LEMMA FillFromTcpKeeps ==
    ASSUME IInv, NEW e \in Endpoint, FillFromTcp(e)
    PROVE  IInv'
<1> DEFINE d == Peer(e)
           p == IF call[e] = "read" THEN "read" ELSE "process"
<1>1. PICK n \in 1 .. Smaller(Chunk, Len(chan[d])) :
        /\ session' = [session EXCEPT ![e] = tls_read_tls(@, SubSeq(chan[d], 1, n))]
        /\ chan' = [chan EXCEPT ![d] = SubSeq(@, n + 1, Len(@))]
  BY DEF FillFromTcp
<1>2. d \in Endpoint /\ chan \in [Endpoint -> Seq(Unit)]
  BY At DEF OtherTypes, Peer, Endpoint
<1>3. /\ SubSeq(chan[d], 1, n) \in Seq(Unit)
      /\ SubSeq(chan[d], n + 1, Len(chan[d])) \in Seq(Unit)
  <2>1. chan[d] \in Seq(Unit) /\ Len(chan[d]) \in Nat
    BY <1>2
  <2>2. Smaller(Chunk, Len(chan[d])) \in Nat /\ Smaller(Chunk, Len(chan[d])) <= Len(chan[d])
    BY <2>1, SmallerProperties, SessionAssumption
  <2>3. n \in Nat /\ n <= Len(chan[d])
    BY <2>1, <2>2
  <2> QED
    BY <2>1, <2>3, Cut
<1> DEFINE s == tls_read_tls(session[e], SubSeq(chan[d], 1, n))
<1>4. s \in NovaTlsSession /\ s.plain = session[e].plain
  BY <1>3, At, ReadTlsType
<1>5. OtherTypes'
  <2>1. chan' \in [Endpoint -> Seq(Unit)]
    BY <1>1, <1>2, <1>3
  <2> QED
    BY <2>1, At DEF FillFromTcp, OtherTypes, HistoryVars
<1>6. LocalAt(p, call[e], s, scratch[e])
  BY <1>4, At DEF FillFromTcp, LocalAt, Drained
<1>7. /\ pc' = [pc EXCEPT ![e] = p] /\ call' = [call EXCEPT ![e] = call[e]]
      /\ session' = [session EXCEPT ![e] = s]
      /\ scratch' = [scratch EXCEPT ![e] = scratch[e]]
  BY <1>1, At DEF FillFromTcp, Goto
<1>8. p \in PC
  BY DEF PC, Running
<1> HIDE DEF p, s
<1> QED
  BY <1>4, <1>5, <1>6, <1>7, <1>8, At, Move

\* Net.read returns no bytes: the handshake fails, or the caller is told.
LEMMA FillEndsKeeps ==
    ASSUME IInv, NEW e \in Endpoint, pc[e] = "fill",
           NEW atEof \in Result, NEW atRead \in Result, FillEnds(e, atEof, atRead)
    PROVE  IInv'
<1>1. CASE FailHandshake(e, atEof)
  BY <1>1, FailKeeps
<1>2. CASE Return(e, atRead) /\ UNCHANGED << session, scratch, NetVars, refused, HistoryVars >>
  <2>1. session' = [session EXCEPT ![e] = session[e]] /\ session[e] \in NovaTlsSession
    BY <1>2, At
  <2>2. scratch' = [scratch EXCEPT ![e] = <<>>]
    BY <1>2, At DEF LocalAt
  <2>3. /\ UNCHANGED << NetVars, refused, written, notified >>
        /\ received' \in [Endpoint -> Seq(Nat)]
        /\ ended' \in [Endpoint -> BOOLEAN]
    BY <1>2, At DEF HistoryVars, OtherTypes
  <2> QED
    BY <1>2, <2>1, <2>2, <2>3, ReturnKeeps
<1> QED
  BY <1>1, <1>2 DEF FillEnds

\* Net.read meets the end of the stream, or fails.
LEMMA FillErrorsKeep ==
    ASSUME IInv, NEW e \in Endpoint, FillEof(e) \/ FillFails(e)
    PROVE  IInv'
BY FillEndsKeeps DEF FillEof, FillFails, Result, Error

-----------------------------------------------------------------------------
(* pump_handshake and tls_process.                                         *)

\* The head of the loop of pump_handshake.
LEMMA PumpStepKeeps ==
    ASSUME IInv, NEW e \in Endpoint, PumpStep(e)
    PROVE  IInv'
<1>1. ASSUME NEW p \in PC, NEW c \in Call, Goto(e, p), call' = [call EXCEPT ![e] = c],
             LocalAt(p, c, session[e], scratch[e]),
             UNCHANGED << session, scratch, todo, result, NetVars, refused, HistoryVars >>
      PROVE  IInv'
  <2>1. OtherTypes'
    BY <1>1, At, SameOtherTypes
  <2> QED
    BY <1>1, <2>1, At, Move DEF Goto
<1>2. CASE ~tls_is_handshaking(session[e]) /\ Goto(e, "flush") /\
           call' = [call EXCEPT ![e] = "final"] /\
           UNCHANGED << session, scratch, todo, result, NetVars, refused, HistoryVars >>
  <2>1. LocalAt("flush", "final", session[e], scratch[e])
    BY At DEF PumpStep, LocalAt
  <2> QED
    BY <1>1, <1>2, <2>1 DEF PC, Running, Call
<1>3. CASE tls_is_handshaking(session[e]) /\ Goto(e, "flush") /\
           UNCHANGED << call, session, scratch, todo, result, NetVars, refused, HistoryVars >>
  <2>1. LocalAt("flush", call[e], session[e], scratch[e])
    BY <1>3, At DEF PumpStep, LocalAt
  <2> QED
    BY <1>1, <1>3, <2>1, At DEF PC, Running
<1>4. CASE tls_is_handshaking(session[e]) /\ ~tls_wants_write(session[e]) /\ Goto(e, "fill") /\
           UNCHANGED << call, session, scratch, todo, result, NetVars, refused, HistoryVars >>
  <2>1. LocalAt("fill", call[e], session[e], scratch[e])
    BY <1>4, At DEF PumpStep, LocalAt, tls_wants_write
  <2> QED
    BY <1>1, <1>4, <2>1, At DEF PC, Running
<1>5. CASE FailHandshake(e, "Internal")
  BY <1>5, FailKeeps DEF Result, Error
<1> QED
  BY <1>2, <1>3, <1>4, <1>5 DEF PumpStep

\* tls_process stops for want of input.
LEMMA ProcessDoneKeeps ==
    ASSUME IInv, NEW e \in Endpoint, ProcessDone(e)
    PROVE  IInv'
<1> DEFINE s == IF tls_is_handshaking(session[e]) THEN KeepPartial(session[e]) ELSE session[e]
<1>1. s \in NovaTlsSession /\ session' = [session EXCEPT ![e] = s]
  BY At, KeepPartialType DEF ProcessDone
<1>2. LocalAt("pump", call[e], s, scratch[e])
  BY At, KeepPartialType DEF ProcessDone, LocalAt, Drained, tls_is_handshaking
<1>3. OtherTypes'
  BY At, SameOtherTypes DEF ProcessDone
<1>4. /\ pc' = [pc EXCEPT ![e] = "pump"] /\ call' = [call EXCEPT ![e] = call[e]]
      /\ scratch' = [scratch EXCEPT ![e] = scratch[e]]
  BY At DEF ProcessDone, Goto
<1>5. "pump" \in PC
  BY DEF PC, Running
<1> HIDE DEF s
<1> QED
  BY <1>1, <1>2, <1>3, <1>4, <1>5, At, Move

\* tls_process accepts a flight.
LEMMA ProcessFlightKeeps ==
    ASSUME IInv, NEW e \in Endpoint, ProcessFlight(e)
    PROVE  IInv'
<1>1. AcceptFlight(session[e]) \in NovaTlsSession
      /\ AcceptFlight(session[e]).plain = session[e].plain
  BY At, AcceptFlightType DEF ProcessFlight, tls_is_handshaking
<1>2. LocalAt(pc[e], call[e], AcceptFlight(session[e]), scratch[e])
  BY <1>1, At DEF ProcessFlight, LocalAt
<1>3. OtherTypes'
  BY At, SameOtherTypes DEF ProcessFlight
<1>4. /\ pc' = [pc EXCEPT ![e] = pc[e]] /\ call' = [call EXCEPT ![e] = call[e]]
      /\ session' = [session EXCEPT ![e] = AcceptFlight(session[e])]
      /\ scratch' = [scratch EXCEPT ![e] = scratch[e]]
  BY At DEF ProcessFlight
<1> QED
  BY <1>1, <1>2, <1>3, <1>4, At, Move

\* tls_process fails, and its alert is flushed.
LEMMA ProcessFailsKeeps ==
    ASSUME IInv, NEW e \in Endpoint, ProcessFails(e)
    PROVE  IInv'
<1>1. PICK s \in NovaTlsSession : session' = [session EXCEPT ![e] = s]
  <2>1. TakeRecord(session[e]) \in NovaTlsSession
    BY At, TakeRecordType DEF ProcessFails
  <2>2. SendRecord(TakeRecord(session[e]), Alert) \in NovaTlsSession
    BY <2>1, SendRecordType, RecordsType
  <2> QED
    BY <2>1, <2>2 DEF ProcessFails
<1>2. LocalAt("flush", "alert", s, scratch[e])
  BY At DEF ProcessFails, LocalAt
<1>3. OtherTypes'
  BY At DEF ProcessFails, OtherTypes, NetVars, HistoryVars, Result, Error
<1>4. /\ pc' = [pc EXCEPT ![e] = "flush"] /\ call' = [call EXCEPT ![e] = "alert"]
      /\ scratch' = [scratch EXCEPT ![e] = scratch[e]]
  BY At DEF ProcessFails, Goto
<1>5. "flush" \in PC /\ "alert" \in Call
  BY DEF PC, Running, Call
<1> QED
  BY <1>1, <1>2, <1>3, <1>4, <1>5, At, Move

-----------------------------------------------------------------------------
(* read_step.                                                              *)

\* tls_read_plain hands out bytes.
LEMMA ReadPlainKeeps ==
    ASSUME IInv, NEW e \in Endpoint, ReadPlain(e)
    PROVE  IInv'
<1> DEFINE opened == IF session[e].plain # <<>> THEN session[e] ELSE OpenData(session[e])
<1>1. opened \in NovaTlsSession
  BY At, OpenDataType DEF ReadPlain
<1>2. PICK cap \in 1 .. MaxRead :
        /\ received' = [received EXCEPT ![e] = @ \o HandedOut(opened, cap)]
        /\ session' = [session EXCEPT ![e] = HandOut(opened, cap)]
  BY DEF ReadPlain
<1> HIDE DEF opened
<1>3. HandedOut(opened, cap) \in Seq(Nat) /\ HandOut(opened, cap) \in NovaTlsSession
  BY <1>1, HandOutType, StreamAssumption
<1>4. received' \in [Endpoint -> Seq(Nat)]
  <2>1. received \in [Endpoint -> Seq(Nat)]
    BY At DEF OtherTypes
  <2>2. received[e] \o HandedOut(opened, cap) \in Seq(Nat)
    BY <1>3, <2>1, ConcatProperties
  <2> QED
    BY <1>2, <2>1, <2>2
<1>5. "ok" \in Result /\ ended' \in [Endpoint -> BOOLEAN]
  BY At DEF ReadPlain, Result, OtherTypes
<1>6. scratch' = [scratch EXCEPT ![e] = <<>>]
  BY At DEF ReadPlain, LocalAt
<1>7. Return(e, "ok") /\ UNCHANGED << NetVars, refused, written, notified >>
  BY DEF ReadPlain
<1> QED
  BY <1>2, <1>3, <1>4, <1>5, <1>6, <1>7, ReturnKeeps

\* tls_read_plain meets the close_notify.
LEMMA ReadCloseNotifyKeeps ==
    ASSUME IInv, NEW e \in Endpoint, ReadCloseNotify(e)
    PROVE  IInv'
<1>1. TakeRecord(session[e]) \in NovaTlsSession
  BY At, TakeRecordType DEF ReadCloseNotify
<1>2. "eof" \in Result /\ received' \in [Endpoint -> Seq(Nat)]
  BY At DEF ReadCloseNotify, Result, OtherTypes
<1>3. ended' \in [Endpoint -> BOOLEAN]
  <2>1. ended \in [Endpoint -> BOOLEAN] /\ ended' = [ended EXCEPT ![e] = TRUE]
    BY At DEF ReadCloseNotify, OtherTypes
  <2> QED
    BY <2>1
<1>4. scratch' = [scratch EXCEPT ![e] = <<>>]
  BY At DEF ReadCloseNotify, LocalAt
<1>5. /\ session' = [session EXCEPT ![e] = TakeRecord(session[e])]
      /\ Return(e, "eof") /\ UNCHANGED << NetVars, refused, written, notified >>
  BY DEF ReadCloseNotify
<1> QED
  BY <1>1, <1>2, <1>3, <1>4, <1>5, ReturnKeeps

\* tls_read_plain fails.
LEMMA ReadErrorKeeps ==
    ASSUME IInv, NEW e \in Endpoint, ReadError(e)
    PROVE  IInv'
<1>1. TakeRecord(session[e]) \in NovaTlsSession
  BY At, TakeRecordType DEF ReadError
<1>2. /\ "HandshakeFailure" \in Result
      /\ received' \in [Endpoint -> Seq(Nat)]
      /\ ended' \in [Endpoint -> BOOLEAN]
  BY At DEF ReadError, Result, Error, OtherTypes, HistoryVars
<1>3. scratch' = [scratch EXCEPT ![e] = <<>>]
  BY At DEF ReadError, LocalAt
<1>4. /\ session' = [session EXCEPT ![e] = TakeRecord(session[e])]
      /\ Return(e, "HandshakeFailure") /\ UNCHANGED << NetVars, refused, written, notified >>
  BY DEF ReadError, HistoryVars
<1> QED
  BY <1>1, <1>2, <1>3, <1>4, ReturnKeeps

\* tls_read_plain asks for ciphertext.
LEMMA ReadNeedsMoreKeeps ==
    ASSUME IInv, NEW e \in Endpoint, ReadNeedsMore(e)
    PROVE  IInv'
<1> DEFINE s == KeepPartial(session[e])
           p == IF tls_wants_write(session[e]) THEN "flush" ELSE "fill"
<1>1. s \in NovaTlsSession /\ Drained(s) /\ s.outb = session[e].outb
  BY At, KeepPartialType DEF ReadNeedsMore, Drained
<1>2. pc[e] = "read" /\ scratch[e] = <<>>
  BY At DEF ReadNeedsMore, LocalAt
<1>4. OtherTypes'
  BY At, SameOtherTypes DEF ReadNeedsMore
<1>5. /\ pc' = [pc EXCEPT ![e] = p] /\ call' = [call EXCEPT ![e] = call[e]]
      /\ session' = [session EXCEPT ![e] = s]
      /\ scratch' = [scratch EXCEPT ![e] = scratch[e]]
  BY At DEF ReadNeedsMore, Goto
<1>6. p \in PC
  BY DEF PC, Running
<1>7. LocalAt(p, call[e], s, scratch[e])
  BY <1>1, <1>2, At DEF LocalAt, tls_wants_write
<1> HIDE DEF p, s
<1> QED
  BY <1>1, <1>4, <1>5, <1>6, <1>7, At, Move

-----------------------------------------------------------------------------
(* @write, @write_all, @flush and @close.                                  *)

\* write_step seals a fragment.
LEMMA WriteStepKeeps ==
    ASSUME IInv, NEW e \in Endpoint, WriteStep(e)
    PROVE  IInv'
<1> DEFINE n == Accepted(todo[e])
           bytes == [i \in 1 .. n |-> written[e] + i]
           s == tls_write_plain(session[e], bytes)
<1>1. n \in Nat /\ n <= todo[e]
  BY At, SmallerProperties, SessionAssumption DEF Accepted
<1>2. /\ session' = [session EXCEPT ![e] = s]
      /\ written' = [written EXCEPT ![e] = @ + n]
      /\ todo' = [todo EXCEPT ![e] = IF call[e] = "write_all" THEN @ - n ELSE 0]
  BY DEF WriteStep
<1> HIDE DEF n
<1>3. bytes \in Seq(Nat)
  BY <1>1, At
<1> HIDE DEF bytes
<1>4. s \in NovaTlsSession
  BY <1>3, At, WritePlainType
<1>5. OtherTypes'
  <2>1. todo' \in [Endpoint -> Nat] /\ written' \in [Endpoint -> Nat]
    BY <1>1, <1>2, At DEF OtherTypes
  <2> QED
    BY <2>1, At DEF WriteStep, OtherTypes, NetVars
<1>6. LocalAt("flush", call[e], s, scratch[e])
  BY At DEF WriteStep, LocalAt
<1>7. /\ pc' = [pc EXCEPT ![e] = "flush"] /\ call' = [call EXCEPT ![e] = call[e]]
      /\ scratch' = [scratch EXCEPT ![e] = scratch[e]]
  BY At DEF WriteStep, Goto
<1>8. "flush" \in PC
  BY DEF PC, Running
<1> HIDE DEF s
<1> QED
  BY <1>2, <1>4, <1>5, <1>6, <1>7, <1>8, At, Move

\* An application's call starts its operation and nothing else.
LEMMA UseKeeps ==
    ASSUME IInv, NEW e \in Endpoint, Use(e)
    PROVE  IInv'
<1>1. pc[e] = "idle" /\ scratch[e] = <<>>
  BY At DEF Use, Read, Write, Flush, Close, LocalAt
<1>2. PICK p \in {"read", "write", "flush"}, c \in {"read", "write", "write_all", "flush", "close"} :
        /\ pc' = [pc EXCEPT ![e] = p] /\ call' = [call EXCEPT ![e] = c]
        /\ p = "flush" => c \in {"flush", "close"}
        /\ p = "read" => c = "read"
        /\ p = "write" => c \in {"write", "write_all"}
  BY DEF Use, Read, Write, Flush, Close, Goto
<1>3. PICK s \in NovaTlsSession : session' = [session EXCEPT ![e] = s]
  <2>1. tls_send_close_notify(session[e]) \in NovaTlsSession
    BY At, SendRecordType, RecordsType DEF tls_send_close_notify
  <2> QED
    BY <2>1, At DEF Use, Read, Write, Flush, Close
<1>4. scratch' = [scratch EXCEPT ![e] = scratch[e]]
  BY At DEF Use, Read, Write, Flush, Close
<1>5. OtherTypes'
  <2>1. CASE Read(e) \/ Flush(e)
    BY <2>1, At, SameOtherTypes DEF Read, Flush
  <2>2. CASE Close(e)
    <3>1. notified \in [Endpoint -> BOOLEAN] /\ notified' = [notified EXCEPT ![e] = TRUE]
      BY <2>2, At DEF Close, OtherTypes
    <3>2. notified' \in [Endpoint -> BOOLEAN]
      BY <3>1
    <3> QED
      BY <2>2, <3>2, At DEF Close, OtherTypes, NetVars
  <2>3. ASSUME NEW op, Write(e, op) PROVE OtherTypes'
    <3>1. PICK n \in 1 .. MaxBytes - written[e] : todo' = [todo EXCEPT ![e] = n]
      BY <2>3 DEF Write
    <3>2. todo' \in [Endpoint -> Nat]
      BY <3>1, At, StreamAssumption DEF OtherTypes
    <3> QED
      BY <2>3, <3>2, At DEF Write, OtherTypes, NetVars, HistoryVars
  <2> QED
    BY <2>1, <2>2, <2>3 DEF Use
<1>6. LocalAt(p, c, s, scratch[e])
  BY <1>1, <1>2 DEF LocalAt
<1>7. p \in PC /\ c \in Call
  BY <1>2 DEF PC, Running, Call
<1> QED
  BY <1>2, <1>3, <1>4, <1>5, <1>6, <1>7, At, Move

-----------------------------------------------------------------------------
(* TCP and crashes.                                                        *)

\* TCP resets the connection.
LEMMA ResetKeeps ==
    ASSUME IInv, ResetByPeer \/ TcpFault
    PROVE  IInv'
<1>1. /\ UNCHANGED << pc, call, session, scratch, todo, result, open, refused, HistoryVars >>
      /\ chan' = [e \in Endpoint |-> <<>>] /\ broken' = TRUE
  BY DEF ResetByPeer, TcpFault
<1>2. chan' \in [Endpoint -> Seq(Unit)] /\ broken' \in BOOLEAN
  BY <1>1
<1>3. TypeOK'
  BY <1>1, <1>2 DEF IInv, TypeOK, HistoryVars
<1>4. \A e \in Endpoint : Local(e)'
  BY <1>1 DEF IInv, Local
<1> QED
  BY <1>3, <1>4 DEF IInv

\* A process dies.
LEMMA CrashKeeps ==
    ASSUME IInv, NEW e \in Endpoint, Crash(e)
    PROVE  IInv'
<1>1. result' \in [Endpoint -> Result]
  BY At DEF Crash, OtherTypes
<1> QED
  BY <1>1, ReleaseKeeps DEF Crash

-----------------------------------------------------------------------------
\* Every step keeps the invariant.
LEMMA NextIInv == IInv /\ [Next]_vars => IInv'
<1> SUFFICES ASSUME IInv, [Next]_vars PROVE IInv'
  OBVIOUS
<1>1. CASE Next
  <2>1. ASSUME NEW e \in Endpoint, Step(e) PROVE IInv'
    BY <2>1, FlushChunkKeeps, SendToTcpKeeps, SendFailsKeeps, FlushDoneKeeps,
       FillFromTcpKeeps, FillErrorsKeep, PumpStepKeeps, ProcessDoneKeeps,
       ProcessFlightKeeps, ProcessFailsKeeps, ReadPlainKeeps, ReadCloseNotifyKeeps,
       ReadErrorKeeps, ReadNeedsMoreKeeps, WriteStepKeeps DEF Step
  <2> QED
    BY <1>1, <2>1, UseKeeps, CrashKeeps, ResetKeeps DEF Next
<1>2. CASE UNCHANGED vars
  BY <1>2 DEF vars, IInv, TypeOK, Local
<1> QED
  BY <1>1, <1>2

\* The invariant holds in every reachable state.
THEOREM Invariance == Spec => []IInv
BY InitIInv, NextIInv, PTL DEF Spec

\* Every variable keeps its type, whatever the chunk size, the fragment size,
\* the number of flights and the faults.
THEOREM TypeCorrect == Spec => []TypeOK
BY Invariance, PTL DEF IInv

\* A fiber never waits in Net.read for bytes while its session holds plaintext
\* or a whole record, or has ciphertext of its own unsent (pump_handshake,
\* read_step, fill_from_tcp).
THEOREM DrainedBeforeBlocking == Spec => []BlocksOnlyWhenDrained
<1>1. IInv => BlocksOnlyWhenDrained
  BY DEF IInv, Local, LocalAt, Drained, BlocksOnlyWhenDrained
<1> QED
  BY <1>1, Invariance, PTL

\* connect, accept and @close free a session only when everything it sealed,
\* an alert or close_notify included, was handed to TCP, or TCP is gone.
THEOREM ReleaseAfterFlush == Spec => NothingUnsentOnRelease
<1> DEFINE Unsent(e) ==
               pc[e] \notin Over /\ pc'[e] \in {"failed", "closed"} /\ ~broken =>
                   session[e].outb = <<>> /\ scratch[e] = <<>>
<1>1. IInv /\ [Next]_vars => [\A e \in Endpoint : Unsent(e)]_vars
  <2> SUFFICES ASSUME IInv, Next, NEW e \in Endpoint,
                      pc[e] \notin Over, pc'[e] \in {"failed", "closed"}, ~broken
               PROVE  session[e].outb = <<>> /\ scratch[e] = <<>>
    OBVIOUS
  \* Only a step of e itself takes e to an end.
  <2>1. ASSUME NEW d \in Endpoint, NEW p, pc' = [pc EXCEPT ![d] = p]
        PROVE  d = e /\ p \in {"failed", "closed"}
    <3>1. pc \in [Endpoint -> PC]
      BY DEF IInv, TypeOK
    <3>2. pc[e] # pc'[e]
      BY DEF Over
    <3> QED
      BY <2>1, <3>1, <3>2
  <2>2. ASSUME NEW d \in Endpoint, Use(d) PROVE FALSE
    <3>1. PICK p \in {"read", "write", "flush"} : pc' = [pc EXCEPT ![d] = p]
      BY <2>2 DEF Use, Read, Write, Flush, Close, Goto
    <3> QED
      BY <2>1, <3>1
  <2>3. ASSUME NEW d \in Endpoint, Crash(d) PROVE FALSE
    <3>1. PICK p \in {"crashed"} : pc' = [pc EXCEPT ![d] = p]
      BY <2>3 DEF Crash, Release, Goto
    <3>2. p \in {"failed", "closed"}
      BY <2>1, <3>1
    <3> QED
      BY <3>1, <3>2
  <2>4. ASSUME ResetByPeer \/ TcpFault PROVE FALSE
    BY <2>4 DEF ResetByPeer, TcpFault, Over
  <2>5. ASSUME NEW d \in Endpoint, Step(d)
        PROVE  session[e].outb = <<>> /\ scratch[e] = <<>>
    <3>1. CASE FlushChunk(d) \/ ProcessFails(d) \/ ProcessDone(d) \/ ReadNeedsMore(d)
               \/ WriteStep(d) \/ FillFromTcp(d) \/ SendToTcp(d)
      <4>1. PICK p \in Running : pc' = [pc EXCEPT ![d] = p]
        BY <3>1 DEF FlushChunk, ProcessFails, ProcessDone, ReadNeedsMore, WriteStep,
           FillFromTcp, SendToTcp, Goto, Running
      <4>2. p \in {"failed", "closed"}
        BY <2>1, <4>1
      <4>3. p \notin {"failed", "closed"}
        BY <4>1 DEF Running
      <4> QED
        BY <4>2, <4>3
    <3>2. CASE ReadPlain(d) \/ ReadCloseNotify(d) \/ ReadError(d)
      <4>1. PICK p \in {"idle"} : pc' = [pc EXCEPT ![d] = p]
        BY <3>2 DEF ReadPlain, ReadCloseNotify, ReadError, Return, Goto
      <4>2. p \in {"failed", "closed"}
        BY <2>1, <4>1
      <4> QED
        BY <4>1, <4>2
    <3>3. CASE ProcessFlight(d)
      BY <3>3 DEF ProcessFlight, Over
    <3>4. CASE SendFails(d) \/ FillFails(d)
      BY <3>4 DEF SendFails, FillFails
    <3>5. CASE FlushDone(d) \/ FillEof(d) \/ PumpStep(d)
      <4>1. PICK p \in PC : pc' = [pc EXCEPT ![d] = p]
        BY <3>5 DEF FlushDone, FillEof, FillEnds, PumpStep, Goto, Return, FailHandshake,
           EndClose, Release, PC, Running, Over
      <4>2. d = e
        BY <2>1, <4>1
      <4>3. scratch[e] = <<>>
        BY <3>5, <4>2, At DEF FlushDone, FillEof, PumpStep, LocalAt
      <4>4. session[e].outb = <<>>
        <5>1. CASE FlushDone(d)
          BY <4>2, <5>1 DEF FlushDone, Flushed, tls_wants_write
        <5>2. CASE FillEof(d)
          BY <4>2, <5>2, At DEF FillEof, LocalAt
        <5>3. CASE PumpStep(d)
          <6>1. p \in {"failed", "closed"}
            BY <2>1, <4>1
          <6>2. pc'[e] = p
            BY <4>1, <4>2 DEF IInv, TypeOK
          <6>3. ~Goto(e, "flush")
            <7>1. Goto(e, "flush") => pc'[e] = "flush"
              BY DEF Goto, IInv, TypeOK
            <7> QED
              BY <6>1, <6>2, <7>1
          <6> QED
            BY <4>2, <5>3, <6>3 DEF PumpStep, tls_wants_write
        <5> QED
          BY <3>5, <5>1, <5>2, <5>3
      <4> QED
        BY <4>3, <4>4
    <3> QED
      BY <2>5, <3>1, <3>2, <3>3, <3>4, <3>5 DEF Step
  <2> QED
    BY <2>2, <2>3, <2>4, <2>5 DEF Next
<1> QED
  BY <1>1, Invariance, PTL DEF Spec, NothingUnsentOnRelease

-----------------------------------------------------------------------------
(***************************************************************************)
(* What the two pumps do together: during a handshake they never wait for  *)
(* each other.                                                             *)
(*                                                                         *)
(* This does not follow from what one fiber knows.  Between running ends   *)
(* the handshake is InStep: one is a flight ahead, that flight is on its   *)
(* way, in one or the other of five queues, and nothing is on its way      *)
(* back.  How many units are in each queue does not matter, only how many  *)
(* are under way, so TLS_CHUNK and the cuts of TCP do not either.          *)
(***************************************************************************)

\* Units session s has, not read and not sent.
Incoming(s) == Len(s.left) + Len(s.inb)
Outgoing(s) == Len(s.outb)

\* Units under way from e to p.
UnderWay(e, p) == Outgoing(session[e]) + Len(scratch[e]) + Len(chan[e]) + Incoming(session[p])

Ahead(e, p) ==
    /\ session[e].hs = session[p].hs + 1
    /\ UnderWay(p, e) = 0
    /\ UnderWay(e, p) >= 2
    /\ session[e].hs < NumFlights => UnderWay(e, p) = 2

InStep ==
    \/ \A e \in Endpoint : session[e].hs = NumFlights
    \/ \E e, p \in Endpoint : e # p /\ Ahead(e, p)

\* Neither end has failed, and TCP has not.
Sound == ~broken /\ \A e \in Endpoint : pc[e] \notin Over /\ call[e] # "alert"

\* Where a fiber is tells whether its handshake is over.
PlaceAt(p, c, s, r) ==
    /\ p \notin Over /\ c \notin {"handshake", "alert"} => s.hs = NumFlights
    /\ c = "alert" => p \in {"flush", "send"} \cup Over
    /\ p = "idle" => c = "none"
    /\ r # "Internal"

Place(e) == PlaceAt(pc[e], call[e], session[e], result[e])

PumpInv ==
    /\ IInv
    /\ \A e \in Endpoint : Place(e)
    /\ Sound => InStep

-----------------------------------------------------------------------------
(* Counting.                                                               *)

\* The units a session holds are a number of them.
LEMMA Counts ==
    ASSUME NEW s \in NovaTlsSession
    PROVE  /\ Incoming(s) \in Nat /\ Outgoing(s) \in Nat
           /\ s.hs \in Nat /\ s.hs <= NumFlights /\ NumFlights \in Nat
           /\ HasRecord(s) <=> Incoming(s) >= 2
<1>1. s.left \in Seq(Unit) /\ s.inb \in Seq(Unit) /\ s.outb \in Seq(Unit)
  BY DEF NovaTlsSession
<1>2. Len(s.left) \in Nat /\ Len(s.inb) \in Nat /\ Len(s.outb) \in Nat
  BY <1>1
<1>3. Len(Fetched(s)) = Len(s.left) + Len(s.inb)
  BY <1>1, ConcatProperties DEF Fetched
<1>4. s.hs \in Nat /\ s.hs <= NumFlights /\ NumFlights \in Nat
  BY SessionAssumption DEF NovaTlsSession
<1>5. HasRecord(s) <=> Len(s.left) + Len(s.inb) >= 2
  BY <1>3 DEF HasRecord
<1> QED
  BY <1>2, <1>4, <1>5 DEF Incoming, Outgoing, NovaTlsSession

\* _tls_send_cb adds one record.
LEMMA SendRecordCounts ==
    ASSUME NEW s \in NovaTlsSession, NEW r \in Record
    PROVE  /\ Incoming(SendRecord(s, r)) = Incoming(s) /\ Outgoing(SendRecord(s, r)) = Outgoing(s) + 2
           /\ SendRecord(s, r).hs = s.hs
<1>1. Len(s.outb \o Units(r)) = Len(s.outb) + 2
  <2>1. Units(r) \in Seq(Unit) /\ s.outb \in Seq(Unit)
    BY UnitsType DEF NovaTlsSession
  <2>2. Len(Units(r)) = 2
    BY DEF Units
  <2>3. Len(s.outb \o Units(r)) = Len(s.outb) + Len(Units(r))
    BY <2>1, ConcatProperties
  <2> QED
    BY <2>2, <2>3
<1>2. SendRecord(s, r).outb = s.outb \o Units(r)
  BY DEF SendRecord, NovaTlsSession
<1> QED
  BY <1>1, <1>2, SendRecordType DEF Incoming, Outgoing

\* tls_write_tls loses nothing.
LEMMA WriteTlsCounts ==
    ASSUME NEW s \in NovaTlsSession
    PROVE  /\ Outgoing(tls_write_tls(s)) + Len(Dequeued(s)) = Outgoing(s)
           /\ Incoming(tls_write_tls(s)) = Incoming(s)
           /\ tls_write_tls(s).hs = s.hs
           /\ Len(Dequeued(s)) \in Nat
<1>1. s.outb \in Seq(Unit) /\ Len(s.outb) \in Nat
  BY DEF NovaTlsSession
<1>2. WriteSize(s) \in Nat /\ WriteSize(s) <= Len(s.outb)
  BY <1>1, SmallerProperties, SessionAssumption DEF WriteSize
<1>3. /\ Len(SubSeq(s.outb, 1, WriteSize(s))) = WriteSize(s)
      /\ Len(SubSeq(s.outb, WriteSize(s) + 1, Len(s.outb))) = Len(s.outb) - WriteSize(s)
  BY <1>1, <1>2, Cut
<1>4. tls_write_tls(s).outb = SubSeq(s.outb, WriteSize(s) + 1, Len(s.outb))
  BY DEF tls_write_tls, NovaTlsSession
<1>5. Incoming(tls_write_tls(s)) = Incoming(s) /\ tls_write_tls(s).hs = s.hs
  BY WriteTlsType DEF Incoming
<1>6. Len(Dequeued(s)) = WriteSize(s)
  BY <1>3 DEF Dequeued
<1>7. Outgoing(tls_write_tls(s)) = Len(s.outb) - WriteSize(s)
  BY <1>3, <1>4 DEF Outgoing
<1>8. Outgoing(tls_write_tls(s)) + Len(Dequeued(s)) = Len(s.outb)
  <2>1. \A a, b \in Nat : b <= a => (a - b) + b = a
    OBVIOUS
  <2> QED
    BY <1>1, <1>2, <1>6, <1>7, <2>1
<1> QED
  BY <1>2, <1>5, <1>6, <1>8 DEF Outgoing

\* tls_read_tls adds what it is given.
LEMMA ReadTlsCounts ==
    ASSUME NEW s \in NovaTlsSession, NEW bytes \in Seq(Unit)
    PROVE  /\ Incoming(tls_read_tls(s, bytes)) = Incoming(s) + Len(bytes)
           /\ Outgoing(tls_read_tls(s, bytes)) = Outgoing(s)
           /\ tls_read_tls(s, bytes).hs = s.hs
<1>1. s.inb \in Seq(Unit) /\ s.left \in Seq(Unit) /\ Len(s.inb \o bytes) = Len(s.inb) + Len(bytes)
  BY ConcatProperties DEF NovaTlsSession
<1>2. /\ tls_read_tls(s, bytes).inb = s.inb \o bytes
      /\ tls_read_tls(s, bytes).left = s.left
      /\ tls_read_tls(s, bytes).outb = s.outb
      /\ tls_read_tls(s, bytes).hs = s.hs
  BY DEF tls_read_tls, NovaTlsSession
<1>3. Len(s.left) \in Nat /\ Len(s.inb) \in Nat /\ Len(bytes) \in Nat
  BY <1>1
<1> QED
  BY <1>1, <1>2, <1>3 DEF Incoming, Outgoing, NovaTlsSession

\* mbedTLS takes a record, or keeps what is less than one.
LEMMA TakeCounts ==
    ASSUME NEW s \in NovaTlsSession
    PROVE  /\ HasRecord(s) => /\ Incoming(TakeRecord(s)) = Incoming(s) - 2
                              /\ Outgoing(TakeRecord(s)) = Outgoing(s)
           /\ Incoming(KeepPartial(s)) = Incoming(s)
           /\ Outgoing(KeepPartial(s)) = Outgoing(s)
<1>1. s.left \in Seq(Unit) /\ s.inb \in Seq(Unit) /\ Fetched(s) \in Seq(Unit)
  BY FetchedType DEF NovaTlsSession
<1>2. /\ Len(Fetched(s)) = Len(s.left) + Len(s.inb)
      /\ Len(Fetched(s)) \in Nat /\ Len(s.left) \in Nat /\ Len(s.inb) \in Nat
  <2>1. Len(Fetched(s)) = Len(s.left) + Len(s.inb)
    BY <1>1, ConcatProperties DEF Fetched
  <2> QED
    BY <1>1, <2>1 DEF NovaTlsSession
<1>3. /\ KeepPartial(s).left = Fetched(s) /\ KeepPartial(s).inb = <<>>
      /\ KeepPartial(s).outb = s.outb
      /\ TakeRecord(s).left = <<>> /\ TakeRecord(s).inb = SubSeq(Fetched(s), 3, Len(Fetched(s)))
      /\ TakeRecord(s).outb = s.outb
  BY DEF KeepPartial, TakeRecord, NovaTlsSession
<1>4. ASSUME HasRecord(s)
      PROVE  Len(SubSeq(Fetched(s), 3, Len(Fetched(s)))) = Len(Fetched(s)) - 2
  <2>1. Len(Fetched(s)) >= 2
    BY <1>4 DEF HasRecord
  <2>2. Len(SubSeq(Fetched(s), 2 + 1, Len(Fetched(s)))) = Len(Fetched(s)) - 2
    BY <1>1, <1>2, <2>1, Cut DEF NovaTlsSession
  <2>3. 2 + 1 = 3
    OBVIOUS
  <2> QED
    BY <2>2, <2>3
<1>5. Len(<<>>) = 0
  OBVIOUS
<1> QED
  BY <1>2, <1>3, <1>4, <1>5 DEF Incoming, Outgoing, NovaTlsSession

\* A flight is taken and, unless it was the last, answered.
LEMMA AcceptCounts ==
    ASSUME NEW s \in NovaTlsSession, HasRecord(s), s.hs # NumFlights
    PROVE  /\ Incoming(AcceptFlight(s)) = Incoming(s) - 2
           /\ \/ /\ AcceptFlight(s).hs = s.hs + 1 /\ s.hs + 1 = NumFlights
                 /\ Outgoing(AcceptFlight(s)) = Outgoing(s)
              \/ /\ AcceptFlight(s).hs = s.hs + 2
                 /\ Outgoing(AcceptFlight(s)) = Outgoing(s) + 2
<1> DEFINE accepted == [TakeRecord(s) EXCEPT !.hs = s.hs + 1]
           answered == [accepted EXCEPT !.hs = @ + 1]
<1>1. s.hs \in Nat /\ s.hs + 1 \in 0 .. NumFlights /\ NumFlights \in Nat
  BY SessionAssumption DEF NovaTlsSession
<1>2. accepted \in NovaTlsSession /\ accepted.hs = s.hs + 1
      /\ Incoming(accepted) = Incoming(s) - 2 /\ Outgoing(accepted) = Outgoing(s)
  <2>1. TakeRecord(s) \in NovaTlsSession
    BY TakeRecordType
  <2>2. /\ accepted \in NovaTlsSession /\ accepted.hs = s.hs + 1
        /\ accepted.left = TakeRecord(s).left /\ accepted.inb = TakeRecord(s).inb
        /\ accepted.outb = TakeRecord(s).outb
    BY <1>1, <2>1 DEF NovaTlsSession
  <2> QED
    BY <2>2, TakeCounts DEF Incoming, Outgoing
<1>3. CASE accepted.hs = NumFlights
  BY <1>2, <1>3 DEF AcceptFlight
<1>4. CASE accepted.hs # NumFlights
  <2>1. answered \in NovaTlsSession /\ answered.hs = s.hs + 2
        /\ Incoming(answered) = Incoming(s) - 2 /\ Outgoing(answered) = Outgoing(s)
    <3> HIDE DEF accepted
    <3>1. accepted.hs + 1 \in 0 .. NumFlights
      BY <1>1, <1>2, <1>4
    <3>2. /\ answered \in NovaTlsSession /\ answered.hs = accepted.hs + 1
          /\ answered.left = accepted.left /\ answered.inb = accepted.inb
          /\ answered.outb = accepted.outb
      BY <1>2, <3>1 DEF NovaTlsSession
    <3> QED
      BY <1>1, <1>2, <3>2, SMTT(60) DEF Incoming, Outgoing, NovaTlsSession
  <2>2. Flight(accepted.hs + 1) \in Record
    BY <1>1, <1>2, RecordsType
  <2>3. AcceptFlight(s) = SendRecord(answered, Flight(accepted.hs + 1))
    BY <1>4 DEF AcceptFlight
  <2> QED
    BY <2>1, <2>2, <2>3, SendRecordCounts
<1> QED
  BY <1>3, <1>4

-----------------------------------------------------------------------------
(* InStep, seen from one end.                                              *)

\* There are two ends.
LEMMA Pair ==
    ASSUME NEW e \in Endpoint
    PROVE  /\ Peer(e) \in Endpoint /\ Peer(e) # e /\ Peer(Peer(e)) = e
           /\ Endpoint = {e, Peer(e)}
BY DEF Endpoint, Peer

\* InStep as a fact about numbers: flights of this end and of the other, and
\* units under way from this end and to it.
Leads(mine, yours, out, back) ==
    mine = yours + 1 /\ back = 0 /\ out >= 2 /\ (mine < NumFlights => out = 2)

Steps(mine, yours, out, back) ==
    \/ mine = NumFlights /\ yours = NumFlights
    \/ Leads(mine, yours, out, back)
    \/ Leads(yours, mine, back, out)

\* What is under way is a number of units.
LEMMA Numbers ==
    ASSUME TypeOK, NEW e \in Endpoint, NEW p \in Endpoint
    PROVE  /\ UnderWay(e, p) \in Nat /\ session[e].hs \in Nat
           /\ session[e].hs <= NumFlights /\ NumFlights \in Nat
           /\ Len(scratch[e]) \in Nat /\ Len(chan[e]) \in Nat
           /\ Incoming(session[p]) \in Nat /\ Outgoing(session[e]) \in Nat
<1>1. /\ session[e] \in NovaTlsSession /\ session[p] \in NovaTlsSession
      /\ scratch[e] \in Seq(Unit) /\ chan[e] \in Seq(Unit)
  BY DEF TypeOK
<1>2. Len(scratch[e]) \in Nat /\ Len(chan[e]) \in Nat
  BY <1>1
<1>3. /\ Incoming(session[p]) \in Nat /\ Outgoing(session[e]) \in Nat
      /\ session[e].hs \in Nat /\ session[e].hs <= NumFlights /\ NumFlights \in Nat
  BY <1>1, Counts
<1> QED
  BY <1>2, <1>3 DEF UnderWay

\* InStep does not depend on the end it is seen from.
LEMMA InStepIs ==
    ASSUME NEW e \in Endpoint, NEW p \in Endpoint, p = Peer(e)
    PROVE  InStep <=> Steps(session[e].hs, session[p].hs, UnderWay(e, p), UnderWay(p, e))
<1>1. Endpoint = {e, p} /\ e # p
  BY Pair
<1>2. (\A d \in Endpoint : session[d].hs = NumFlights)
        <=> session[e].hs = NumFlights /\ session[p].hs = NumFlights
  BY <1>1
<1>3. (\E d, f \in Endpoint : d # f /\ Ahead(d, f)) <=> Ahead(e, p) \/ Ahead(p, e)
  BY <1>1
<1>4. /\ Ahead(e, p) <=> Leads(session[e].hs, session[p].hs, UnderWay(e, p), UnderWay(p, e))
      /\ Ahead(p, e) <=> Leads(session[p].hs, session[e].hs, UnderWay(p, e), UnderWay(e, p))
  BY DEF Ahead, Leads
<1> QED
  BY <1>2, <1>3, <1>4 DEF InStep, Steps

-----------------------------------------------------------------------------
\* A step of e keeps the invariant if the place it leaves e at is right and
\* the two ends stay in step, or are no longer sound.
LEMMA PumpMove ==
    ASSUME PumpInv, IInv', NEW e \in Endpoint, NEW p \in Endpoint, p = Peer(e),
           NEW to, NEW c, NEW s, NEW x, NEW r,
           pc' = [pc EXCEPT ![e] = to],
           call' = [call EXCEPT ![e] = c],
           session' = [session EXCEPT ![e] = s],
           scratch' = [scratch EXCEPT ![e] = x],
           result' = [result EXCEPT ![e] = r],
           broken' = broken,
           pc[e] \notin Over,
           call[e] = "alert" => c = "alert" \/ to \in Over,
           PlaceAt(to, c, s, r),
           Sound /\ c # "alert" /\ to \notin Over =>
               Steps(s.hs, session[p].hs,
                     Outgoing(s) + Len(x) + Len(chan'[e]) + Incoming(session[p]),
                     Outgoing(session[p]) + Len(scratch[p]) + Len(chan'[p]) + Incoming(s))
    PROVE  PumpInv'
<1>1. TypeOK /\ p # e /\ Endpoint = {e, p}
  BY Pair DEF PumpInv, IInv
<1>2. /\ pc'[e] = to /\ call'[e] = c /\ session'[e] = s /\ scratch'[e] = x /\ result'[e] = r
      /\ pc'[p] = pc[p] /\ call'[p] = call[p] /\ session'[p] = session[p]
      /\ scratch'[p] = scratch[p] /\ result'[p] = result[p]
  BY <1>1 DEF TypeOK
<1>3. Place(e)' /\ Place(p)'
  BY <1>2 DEF PumpInv, Place
<1>4. ASSUME Sound' PROVE InStep'
  <2>1. Sound /\ c # "alert" /\ to \notin Over
    BY <1>1, <1>2, <1>4 DEF Sound
  <2>2. Steps(session[e].hs, session[p].hs, UnderWay(e, p), UnderWay(p, e))'
    BY <1>2, <2>1 DEF UnderWay, Steps, Leads
  <2>3. CASE (session[e].hs = NumFlights /\ session[p].hs = NumFlights)'
    BY <1>1, <2>3 DEF InStep
  <2>4. CASE Leads(session[e].hs, session[p].hs, UnderWay(e, p), UnderWay(p, e))'
    BY <1>1, <2>4 DEF Leads, Ahead, InStep
  <2>5. CASE Leads(session[p].hs, session[e].hs, UnderWay(p, e), UnderWay(e, p))'
    BY <1>1, <2>5 DEF Leads, Ahead, InStep
  <2> QED
    BY <2>2, <2>3, <2>4, <2>5 DEF Steps
<1> QED
  BY <1>1, <1>3, <1>4 DEF PumpInv

\* What the invariant says of one end.
LEMMA PumpAt ==
    ASSUME PumpInv, NEW e \in Endpoint
    PROVE  /\ IInv /\ TypeOK
           /\ PlaceAt(pc[e], call[e], session[e], result[e])
           /\ LocalAt(pc[e], call[e], session[e], scratch[e])
           /\ session[e] \in NovaTlsSession /\ scratch[e] \in Seq(Unit)
           /\ pc = [pc EXCEPT ![e] = pc[e]]
           /\ call = [call EXCEPT ![e] = call[e]]
           /\ session = [session EXCEPT ![e] = session[e]]
           /\ scratch = [scratch EXCEPT ![e] = scratch[e]]
           /\ result = [result EXCEPT ![e] = result[e]]
<1>1. IInv /\ TypeOK
  BY DEF PumpInv, IInv
<1>2. result = [result EXCEPT ![e] = result[e]]
  BY <1>1 DEF TypeOK
<1> QED
  BY <1>1, <1>2, At DEF PumpInv, Place

\* Nothing is sealed or taken, only moved between the queues of e.
LEMMA PumpQuiet ==
    ASSUME PumpInv, IInv', NEW e \in Endpoint,
           NEW to, NEW c, NEW s, NEW x, NEW r,
           pc' = [pc EXCEPT ![e] = to],
           call' = [call EXCEPT ![e] = c],
           session' = [session EXCEPT ![e] = s],
           scratch' = [scratch EXCEPT ![e] = x],
           result' = [result EXCEPT ![e] = r],
           broken' = broken, chan' = chan,
           pc[e] \notin Over,
           call[e] = "alert" => c = "alert" \/ to \in Over,
           PlaceAt(to, c, s, r),
           s.hs = session[e].hs,
           Incoming(s) = Incoming(session[e]),
           Outgoing(s) + Len(x) = Outgoing(session[e]) + Len(scratch[e])
    PROVE  PumpInv'
<1> DEFINE p == Peer(e)
<1>1. p \in Endpoint /\ p = Peer(e)
  BY Pair
<1> HIDE DEF p
<1>2. ASSUME Sound
      PROVE  Steps(s.hs, session[p].hs,
                   Outgoing(s) + Len(x) + Len(chan'[e]) + Incoming(session[p]),
                   Outgoing(session[p]) + Len(scratch[p]) + Len(chan'[p]) + Incoming(s))
  <2>1. Steps(session[e].hs, session[p].hs, UnderWay(e, p), UnderWay(p, e))
    BY <1>1, <1>2, InStepIs DEF PumpInv
  <2> QED
    BY <2>1 DEF UnderWay
<1> QED
  BY <1>1, <1>2, PumpMove

\* A record is sealed when the handshake of e is over.
LEMMA PumpSeals ==
    ASSUME PumpInv, IInv', NEW e \in Endpoint,
           NEW to, NEW c, NEW s,
           pc' = [pc EXCEPT ![e] = to],
           call' = [call EXCEPT ![e] = c],
           session' = [session EXCEPT ![e] = s],
           scratch' = scratch, result' = result, broken' = broken, chan' = chan,
           pc[e] \notin Over,
           call[e] # "alert",
           PlaceAt(to, c, s, result[e]),
           session[e].hs = NumFlights, s.hs = NumFlights,
           Incoming(s) = Incoming(session[e]),
           Outgoing(s) = Outgoing(session[e]) + 2
    PROVE  PumpInv'
<1> DEFINE p == Peer(e)
<1>1. p \in Endpoint /\ p = Peer(e)
  BY Pair
<1> HIDE DEF p
<1>2. ASSUME Sound
      PROVE  Steps(s.hs, session[p].hs,
                   Outgoing(s) + Len(scratch[e]) + Len(chan'[e]) + Incoming(session[p]),
                   Outgoing(session[p]) + Len(scratch[p]) + Len(chan'[p]) + Incoming(s))
  <2>1. Steps(session[e].hs, session[p].hs, UnderWay(e, p), UnderWay(p, e))
    BY <1>1, <1>2, InStepIs DEF PumpInv
  <2>2. /\ session[p].hs \in Nat /\ session[p].hs <= NumFlights /\ NumFlights \in Nat
        /\ UnderWay(e, p) \in Nat
        /\ Outgoing(session[e]) \in Nat /\ Len(scratch[e]) \in Nat /\ Len(chan[e]) \in Nat
        /\ Incoming(session[p]) \in Nat
    BY <1>1, Numbers, PumpAt
  <2>3. Outgoing(s) + Len(scratch[e]) + Len(chan'[e]) + Incoming(session[p]) = UnderWay(e, p) + 2
    <3> DEFINE here == Outgoing(session[e])  sent == Len(scratch[e])
               carried == Len(chan[e])       there == Incoming(session[p])
    <3>1. here \in Nat /\ sent \in Nat /\ carried \in Nat /\ there \in Nat
      BY <2>2
    <3>2. UnderWay(e, p) = here + sent + carried + there
      BY DEF UnderWay
    <3>3. Outgoing(s) = here + 2 /\ Len(chan'[e]) = carried
      OBVIOUS
    <3> HIDE DEF here, sent, carried, there
    <3>4. (here + 2) + sent + carried + there = (here + sent + carried + there) + 2
      BY <3>1
    <3>5. Outgoing(s) + sent + carried + there = UnderWay(e, p) + 2
      BY <3>2, <3>3, <3>4
    <3> QED
      BY <3>3, <3>5 DEF sent, there
  <2>4. Outgoing(session[p]) + Len(scratch[p]) + Len(chan'[p]) + Incoming(s) = UnderWay(p, e)
    BY DEF UnderWay
  <2> QED
    BY <2>1, <2>2, <2>3, <2>4, SMTT(60) DEF Steps, Leads
<1>3. scratch' = [scratch EXCEPT ![e] = scratch[e]] /\ result' = [result EXCEPT ![e] = result[e]]
  BY PumpAt
<1> QED
  BY <1>1, <1>2, <1>3, PumpMove

\* A record is taken when the handshake of e is over: then both are.
LEMMA PumpTakes ==
    ASSUME PumpInv, IInv', NEW e \in Endpoint,
           NEW s, NEW r,
           pc' = [pc EXCEPT ![e] = "idle"],
           call' = [call EXCEPT ![e] = "none"],
           session' = [session EXCEPT ![e] = s],
           scratch' = scratch, result' = [result EXCEPT ![e] = r],
           broken' = broken, chan' = chan,
           pc[e] \notin Over, call[e] \notin {"alert", "handshake"},
           HasRecord(session[e]), s.hs = session[e].hs, r # "Internal"
    PROVE  PumpInv'
<1> DEFINE p == Peer(e)
<1>1. p \in Endpoint /\ p = Peer(e)
  BY Pair
<1> HIDE DEF p
<1>2. session[e].hs = NumFlights
  BY PumpAt DEF PlaceAt
<1>3. ASSUME Sound
      PROVE  session[p].hs = NumFlights
  <2>1. Steps(session[e].hs, session[p].hs, UnderWay(e, p), UnderWay(p, e))
    BY <1>1, <1>3, InStepIs DEF PumpInv
  <2>2. /\ session[p].hs \in Nat /\ session[p].hs <= NumFlights /\ NumFlights \in Nat
        /\ Outgoing(session[p]) \in Nat /\ Len(scratch[p]) \in Nat /\ Len(chan[p]) \in Nat
        /\ Incoming(session[e]) \in Nat
    BY <1>1, Numbers, PumpAt
  <2>3. Incoming(session[e]) >= 2
    BY Counts, PumpAt
  <2>4. UnderWay(p, e) >= 2
    BY <2>2, <2>3 DEF UnderWay
  <2> QED
    BY <1>2, <2>1, <2>2, <2>4 DEF Steps, Leads
<1>4. scratch' = [scratch EXCEPT ![e] = scratch[e]]
  BY PumpAt
<1>5. PlaceAt("idle", "none", s, r)
  BY <1>2 DEF PlaceAt
<1> QED
  BY <1>1, <1>2, <1>3, <1>4, <1>5, PumpMove DEF Steps

\* An end that is released is out of it.
LEMMA PumpEnds ==
    ASSUME PumpInv, IInv', NEW e \in Endpoint, NEW to \in Over, NEW r,
           Release(e, to), result' = [result EXCEPT ![e] = r], r # "Internal",
           call' = call, broken' = broken, pc[e] \notin Over
    PROVE  PumpInv'
<1>1. /\ pc' = [pc EXCEPT ![e] = to] /\ call' = [call EXCEPT ![e] = call[e]]
      /\ session' = [session EXCEPT ![e] = Freed] /\ scratch' = [scratch EXCEPT ![e] = <<>>]
  BY PumpAt DEF Release, Goto
<1>2. PlaceAt(to, call[e], Freed, r)
  BY DEF PlaceAt, Over
<1>3. Peer(e) \in Endpoint
  BY Pair
<1> QED
  BY <1>1, <1>2, <1>3, PumpMove

\* connect or accept returning Err.
LEMMA PumpFails ==
    ASSUME PumpInv, IInv', NEW e \in Endpoint, NEW r,
           FailHandshake(e, r), r # "Internal", pc[e] \notin Over
    PROVE  PumpInv'
BY PumpEnds DEF FailHandshake, Over

\* The end of @close.
LEMMA PumpCloses ==
    ASSUME PumpInv, IInv', NEW e \in Endpoint, EndClose(e), pc[e] \notin Over
    PROVE  PumpInv'
<1>1. result[e] # "Internal" /\ result' = [result EXCEPT ![e] = result[e]]
  BY PumpAt DEF PlaceAt, EndClose
<1> QED
  BY <1>1, PumpEnds DEF EndClose, Over

-----------------------------------------------------------------------------
(* flush_out.                                                              *)

\* A chunk goes from the session to scratch.
LEMMA FlushChunkPumps ==
    ASSUME PumpInv, IInv', NEW e \in Endpoint, FlushChunk(e)
    PROVE  PumpInv'
<1> DEFINE s == tls_write_tls(session[e])  x == Dequeued(session[e])
<1>1. /\ s.hs = session[e].hs /\ Incoming(s) = Incoming(session[e])
      /\ Outgoing(s) + Len(x) = Outgoing(session[e])
  BY PumpAt, WriteTlsCounts
<1>2. Outgoing(session[e]) = Outgoing(session[e]) + Len(scratch[e])
  <2>1. scratch[e] = <<>> /\ Outgoing(session[e]) \in Nat
    BY PumpAt, Counts DEF FlushChunk, LocalAt
  <2> QED
    BY <2>1
<1>3. PlaceAt("send", call[e], s, result[e])
  BY <1>1, PumpAt DEF FlushChunk, PlaceAt, Over
<1>4. /\ pc' = [pc EXCEPT ![e] = "send"] /\ call' = [call EXCEPT ![e] = call[e]]
      /\ session' = [session EXCEPT ![e] = s] /\ scratch' = [scratch EXCEPT ![e] = x]
      /\ result' = [result EXCEPT ![e] = result[e]]
      /\ broken' = broken /\ chan' = chan /\ pc[e] \notin Over
  BY PumpAt DEF FlushChunk, Goto, NetVars, Over
<1> HIDE DEF s, x
<1> QED
  BY <1>1, <1>2, <1>3, <1>4, PumpQuiet

\* A part of it goes to TCP.
LEMMA SendToTcpPumps ==
    ASSUME PumpInv, IInv', NEW e \in Endpoint, SendToTcp(e)
    PROVE  PumpInv'
<1>1. PICK k \in 1 .. Len(scratch[e]) :
        /\ chan' = [chan EXCEPT ![e] = @ \o SubSeq(scratch[e], 1, k)]
        /\ scratch' = [scratch EXCEPT ![e] = SubSeq(@, k + 1, Len(@))]
        /\ Goto(e, IF k = Len(scratch[e]) THEN "flush" ELSE "send")
  BY DEF SendToTcp
<1> DEFINE to == IF k = Len(scratch[e]) THEN "flush" ELSE "send"
           x == SubSeq(scratch[e], k + 1, Len(scratch[e]))
           p == Peer(e)
<1>2. p \in Endpoint /\ p = Peer(e) /\ p # e
  BY Pair
<1>3. chan'[p] = chan[p] /\ Len(x) + Len(chan'[e]) = Len(scratch[e]) + Len(chan[e])
  <2>1. chan \in [Endpoint -> Seq(Unit)] /\ scratch[e] \in Seq(Unit) /\ chan[e] \in Seq(Unit)
    BY PumpAt DEF TypeOK
  <2>2. k \in Nat /\ k <= Len(scratch[e]) /\ Len(scratch[e]) \in Nat /\ Len(chan[e]) \in Nat
    BY <2>1
  <2>3. /\ SubSeq(scratch[e], 1, k) \in Seq(Unit) /\ Len(SubSeq(scratch[e], 1, k)) = k
        /\ Len(x) = Len(scratch[e]) - k
    BY <2>1, <2>2, Cut
  <2>4. chan'[e] = chan[e] \o SubSeq(scratch[e], 1, k) /\ chan'[p] = chan[p]
    BY <1>1, <1>2, <2>1
  <2>5. Len(chan'[e]) = Len(chan[e]) + k
    BY <2>1, <2>3, <2>4, ConcatProperties
  <2>6. \A a, b \in Nat : k <= a => (a - k) + (b + k) = a + b
    BY <2>2
  <2>7. Len(x) + Len(chan'[e]) = (Len(scratch[e]) - k) + (Len(chan[e]) + k)
    BY <2>3, <2>5
  <2>8. (Len(scratch[e]) - k) + (Len(chan[e]) + k) = Len(scratch[e]) + Len(chan[e])
    BY <2>2, <2>6
  <2> QED
    BY <2>4, <2>7, <2>8
<1>4. ASSUME Sound
      PROVE  Steps(session[e].hs, session[p].hs,
                   Outgoing(session[e]) + Len(x) + Len(chan'[e]) + Incoming(session[p]),
                   Outgoing(session[p]) + Len(scratch[p]) + Len(chan'[p]) + Incoming(session[e]))
  <2>1. Steps(session[e].hs, session[p].hs, UnderWay(e, p), UnderWay(p, e))
    BY <1>2, <1>4, InStepIs DEF PumpInv
  <2>2. Len(x) \in Nat /\ Len(chan'[e]) \in Nat
    <3>1. scratch'[e] = x /\ TypeOK'
      BY <1>1, PumpAt DEF TypeOK, IInv
    <3>2. x \in Seq(Unit) /\ chan'[e] \in Seq(Unit)
      BY <3>1 DEF TypeOK
    <3> QED
      BY <3>2
  <2>3. Outgoing(session[e]) + Len(x) + Len(chan'[e]) + Incoming(session[p]) = UnderWay(e, p)
    <3> DEFINE here == Outgoing(session[e])  sent == Len(scratch[e])   rest == Len(x)
               carried == Len(chan[e])       now == Len(chan'[e])
               there == Incoming(session[p])
    <3>1. here \in Nat /\ sent \in Nat /\ carried \in Nat /\ there \in Nat
      BY <1>2, Numbers, PumpAt
    <3>2. rest \in Nat /\ now \in Nat /\ rest + now = sent + carried
      BY <1>3, <2>2
    <3>3. UnderWay(e, p) = here + sent + carried + there
      BY DEF UnderWay
    <3> HIDE DEF here, sent, carried, there, rest, now
    <3>4. here + rest + now + there = here + sent + carried + there
      BY <3>1, <3>2
    <3> QED
      BY <3>3, <3>4 DEF here, rest, now, there
  <2>4. Outgoing(session[p]) + Len(scratch[p]) + Len(chan'[p]) + Incoming(session[e])
          = UnderWay(p, e)
    BY <1>3 DEF UnderWay
  <2> QED
    BY <2>1, <2>3, <2>4
<1>5. PlaceAt(to, call[e], session[e], result[e])
  BY PumpAt DEF SendToTcp, PlaceAt, Over
<1>6. /\ pc' = [pc EXCEPT ![e] = to] /\ call' = [call EXCEPT ![e] = call[e]]
      /\ session' = [session EXCEPT ![e] = session[e]] /\ scratch' = [scratch EXCEPT ![e] = x]
      /\ result' = [result EXCEPT ![e] = result[e]]
      /\ broken' = broken /\ pc[e] \notin Over
  BY <1>1, PumpAt DEF SendToTcp, Goto, Over
<1> HIDE DEF to, x, p
<1> QED
  BY <1>2, <1>4, <1>5, <1>6, PumpMove

\* An operation of a stream returns with an error of Net.
LEMMA PumpReturns ==
    ASSUME PumpInv, IInv', NEW e \in Endpoint, NEW r, Return(e, r), r # "Internal",
           session' = session, scratch' = [scratch EXCEPT ![e] = <<>>],
           scratch[e] = <<>> \/ broken,
           UNCHANGED << NetVars, refused, HistoryVars >>,
           pc[e] \notin Over, call[e] \notin {"handshake", "alert"}
    PROVE  PumpInv'
<1>1. PlaceAt("idle", "none", session[e], r)
  BY PumpAt DEF PlaceAt
<1>2. /\ pc' = [pc EXCEPT ![e] = "idle"] /\ call' = [call EXCEPT ![e] = "none"]
      /\ session' = [session EXCEPT ![e] = session[e]]
      /\ result' = [result EXCEPT ![e] = r]
      /\ broken' = broken /\ chan' = chan
  BY PumpAt DEF Return, Goto, NetVars
<1>3. CASE broken
  <2>1. ~Sound /\ Peer(e) \in Endpoint
    BY <1>3, Pair DEF Sound
  <2> QED
    BY <1>1, <1>2, <2>1, PumpMove
<1>4. CASE scratch[e] = <<>>
  BY <1>1, <1>2, <1>4, PumpQuiet
<1> QED
  BY <1>3, <1>4

\* Net.write_all fails.
LEMMA SendFailsPumps ==
    ASSUME PumpInv, IInv', NEW e \in Endpoint, SendFails(e)
    PROVE  PumpInv'
<1>1. pc[e] \notin Over /\ result[e] # "Internal" /\ broken
  BY PumpAt DEF SendFails, Over, PlaceAt
<1>2. ASSUME FailHandshake(e, "Net") \/ FailHandshake(e, result[e]) PROVE PumpInv'
  BY <1>1, <1>2, PumpFails
<1>3. ASSUME call[e] \in {"read", "write", "write_all", "flush"}, Return(e, "Net"),
             scratch' = [scratch EXCEPT ![e] = <<>>],
             UNCHANGED << session, NetVars, refused, HistoryVars >>
      PROVE  PumpInv'
  BY <1>1, <1>3, PumpReturns
<1> QED
  BY <1>1, <1>2, <1>3, PumpCloses DEF SendFails

\* flush_out returns Ok.
LEMMA FlushDonePumps ==
    ASSUME PumpInv, IInv', NEW e \in Endpoint, FlushDone(e)
    PROVE  PumpInv'
<1>1. pc[e] = "flush" /\ pc[e] \notin Over /\ result[e] # "Internal" /\ scratch[e] = <<>>
  BY PumpAt DEF FlushDone, Over, PlaceAt, LocalAt
<1>2. ASSUME NEW to \in {"pump", "fill", "write"}, Goto(e, to),
             call[e] \in {"handshake", "read", "write_all"},
             UNCHANGED << call, session, scratch, todo, result, NetVars, refused, HistoryVars >>
      PROVE  PumpInv'
  <2>1. PlaceAt(to, call[e], session[e], result[e])
    BY <1>1, <1>2, PumpAt DEF PlaceAt, Over
  <2>2. /\ pc' = [pc EXCEPT ![e] = to] /\ call' = [call EXCEPT ![e] = call[e]]
        /\ session' = [session EXCEPT ![e] = session[e]]
        /\ scratch' = [scratch EXCEPT ![e] = scratch[e]]
        /\ result' = [result EXCEPT ![e] = result[e]]
        /\ broken' = broken /\ chan' = chan
    BY <1>2, PumpAt DEF Goto, NetVars
  <2>3. call[e] # "alert"
    BY <1>2
  <2> QED
    BY <1>1, <2>1, <2>2, <2>3, PumpQuiet
<1>3. ASSUME call[e] \in {"final", "write", "write_all", "flush"}, Return(e, "ok"),
             UNCHANGED << session, scratch, NetVars, refused, HistoryVars >>
      PROVE  PumpInv'
  <2>1. scratch' = [scratch EXCEPT ![e] = <<>>]
    BY <1>1, <1>3, PumpAt
  <2> QED
    BY <1>1, <1>3, <2>1, PumpReturns
<1>4. ASSUME FailHandshake(e, result[e]) PROVE PumpInv'
  BY <1>1, <1>4, PumpFails
<1> QED
  BY <1>1, <1>2, <1>3, <1>4, PumpCloses DEF FlushDone

-----------------------------------------------------------------------------
(* fill_from_tcp, pump_handshake and tls_process.                          *)

\* Net.read hands the session a part of what TCP carries.
LEMMA FillFromTcpPumps ==
    ASSUME PumpInv, IInv', NEW e \in Endpoint, FillFromTcp(e)
    PROVE  PumpInv'
<1> DEFINE p == Peer(e)
           to == IF call[e] = "read" THEN "read" ELSE "process"
<1>1. p \in Endpoint /\ p = Peer(e) /\ p # e /\ Peer(p) = e
  BY Pair
<1>2. chan \in [Endpoint -> Seq(Unit)] /\ chan[p] \in Seq(Unit) /\ Len(chan[p]) \in Nat
  <2>1. chan \in [Endpoint -> Seq(Unit)]
    BY PumpAt DEF TypeOK
  <2>2. chan[p] \in Seq(Unit)
    BY <1>1, <2>1
  <2> QED
    BY <2>1, <2>2
<1>3. PICK n \in 1 .. Smaller(Chunk, Len(chan[p])) :
        /\ session' = [session EXCEPT ![e] = tls_read_tls(@, SubSeq(chan[p], 1, n))]
        /\ chan' = [chan EXCEPT ![p] = SubSeq(@, n + 1, Len(@))]
  BY DEF FillFromTcp
<1> DEFINE bytes == SubSeq(chan[p], 1, n)
           s == tls_read_tls(session[e], bytes)
<1>4. n \in Nat /\ n <= Len(chan[p])
  <2>1. Chunk \in Nat
    BY SessionAssumption
  <2>2. /\ Smaller(Chunk, Len(chan[p])) \in Nat
        /\ Smaller(Chunk, Len(chan[p])) <= Len(chan[p])
    BY <1>2, <2>1, SmallerProperties
  <2> QED
    BY <1>2, <2>2
<1>5. bytes \in Seq(Unit) /\ Len(bytes) = n /\ chan'[e] = chan[e]
      /\ Len(chan'[p]) = Len(chan[p]) - n
  <2>1. /\ bytes \in Seq(Unit) /\ Len(bytes) = n
        /\ Len(SubSeq(chan[p], n + 1, Len(chan[p]))) = Len(chan[p]) - n
    BY <1>2, <1>4, Cut
  <2>2. chan'[p] = SubSeq(chan[p], n + 1, Len(chan[p])) /\ chan'[e] = chan[e]
    BY <1>1, <1>2, <1>3
  <2> QED
    BY <2>1, <2>2
<1> HIDE DEF bytes
<1>6. s.hs = session[e].hs /\ Incoming(s) = Incoming(session[e]) + n
      /\ Outgoing(s) = Outgoing(session[e])
  BY <1>5, PumpAt, ReadTlsCounts
<1>7. ASSUME Sound
      PROVE  Steps(s.hs, session[p].hs,
                   Outgoing(s) + Len(scratch[e]) + Len(chan'[e]) + Incoming(session[p]),
                   Outgoing(session[p]) + Len(scratch[p]) + Len(chan'[p]) + Incoming(s))
  <2>1. Steps(session[e].hs, session[p].hs, UnderWay(e, p), UnderWay(p, e))
    BY <1>1, <1>7, InStepIs DEF PumpInv
  <2>2. Outgoing(s) + Len(scratch[e]) + Len(chan'[e]) + Incoming(session[p]) = UnderWay(e, p)
    BY <1>5, <1>6 DEF UnderWay
  <2>3. Outgoing(session[p]) + Len(scratch[p]) + Len(chan'[p]) + Incoming(s) = UnderWay(p, e)
    <3> DEFINE there == Outgoing(session[p])  sent == Len(scratch[p])
               carried == Len(chan[p])        here == Incoming(session[e])
    <3>1. there \in Nat /\ sent \in Nat /\ carried \in Nat /\ here \in Nat
      BY <1>1, Numbers, PumpAt
    <3>2. UnderWay(p, e) = there + sent + carried + here
      BY DEF UnderWay
    <3>3. Len(chan'[p]) = carried - n /\ Incoming(s) = here + n /\ n <= carried
      BY <1>4, <1>5, <1>6
    <3> HIDE DEF there, sent, carried, here, s
    <3>4. there + sent + (carried - n) + (here + n) = there + sent + carried + here
      BY <1>4, <3>1, <3>3
    <3> QED
      BY <3>2, <3>3, <3>4 DEF there, sent
  <2> QED
    BY <1>6, <2>1, <2>2, <2>3
<1>8. PlaceAt(to, call[e], s, result[e])
  BY <1>6, PumpAt DEF FillFromTcp, PlaceAt, Over
<1>9. /\ pc' = [pc EXCEPT ![e] = to] /\ call' = [call EXCEPT ![e] = call[e]]
      /\ session' = [session EXCEPT ![e] = s] /\ scratch' = [scratch EXCEPT ![e] = scratch[e]]
      /\ result' = [result EXCEPT ![e] = result[e]]
      /\ broken' = broken /\ pc[e] \notin Over
  BY <1>3, PumpAt DEF FillFromTcp, Goto, Over, bytes
<1> HIDE DEF p, s, to
<1> QED
  BY <1>1, <1>7, <1>8, <1>9, PumpMove

\* Net.read fails or finds the end.
LEMMA FillErrorsPump ==
    ASSUME PumpInv, IInv', NEW e \in Endpoint, FillEof(e) \/ FillFails(e)
    PROVE  PumpInv'
<1>1. pc[e] = "fill" /\ pc[e] \notin Over /\ scratch[e] = <<>>
  BY PumpAt DEF FillEof, FillFails, Over, LocalAt
<1>2. ASSUME NEW r \in {"HandshakeFailure", "Net"}, FailHandshake(e, r) PROVE PumpInv'
  BY <1>1, <1>2, PumpFails
<1>3. ASSUME NEW r \in {"PeerMisbehaved", "Net"}, call[e] = "read", Return(e, r),
             UNCHANGED << session, scratch, NetVars, refused, HistoryVars >>
      PROVE  PumpInv'
  <2>1. scratch' = [scratch EXCEPT ![e] = <<>>]
    BY <1>1, <1>3, PumpAt
  <2> QED
    BY <1>1, <1>3, <2>1, PumpReturns
<1> QED
  BY <1>2, <1>3 DEF FillEof, FillFails, FillEnds

\* The head of pump_handshake; its "stalled" branch is never taken.
LEMMA PumpStepPumps ==
    ASSUME PumpInv, IInv', NEW e \in Endpoint, PumpStep(e)
    PROVE  PumpInv'
<1>1. pc[e] = "pump" /\ pc[e] \notin Over /\ call[e] = "handshake"
  BY PumpAt DEF PumpStep, Over, LocalAt
<1>2. ASSUME NEW to \in {"flush", "fill"}, NEW c, Goto(e, to),
             call' = [call EXCEPT ![e] = c], c = "handshake" \/
                 (c = "final" /\ session[e].hs = NumFlights),
             UNCHANGED << session, scratch, todo, result, NetVars, refused, HistoryVars >>
      PROVE  PumpInv'
  <2>1. PlaceAt(to, c, session[e], result[e])
    BY <1>2, PumpAt DEF PlaceAt
  <2>2. /\ pc' = [pc EXCEPT ![e] = to]
        /\ session' = [session EXCEPT ![e] = session[e]]
        /\ scratch' = [scratch EXCEPT ![e] = scratch[e]]
        /\ result' = [result EXCEPT ![e] = result[e]]
        /\ broken' = broken /\ chan' = chan
    BY <1>2, PumpAt DEF Goto, NetVars
  <2> QED
    BY <1>1, <1>2, <2>1, <2>2, PumpQuiet, ZenonT(60)
<1>3. call' = call => call' = [call EXCEPT ![e] = "handshake"]
  BY <1>1, PumpAt
<1> QED
  BY <1>2, <1>3 DEF PumpStep, tls_wants_read, tls_is_handshaking

\* tls_process stops for want of input.
LEMMA ProcessDonePumps ==
    ASSUME PumpInv, IInv', NEW e \in Endpoint, ProcessDone(e)
    PROVE  PumpInv'
<1>1. PICK s \in {session[e], KeepPartial(session[e])} :
        session' = [session EXCEPT ![e] = s]
  BY PumpAt DEF ProcessDone
<1>2. s.hs = session[e].hs /\ Incoming(s) = Incoming(session[e])
      /\ Outgoing(s) = Outgoing(session[e])
  BY PumpAt, KeepPartialType, TakeCounts
<1>3. PlaceAt("pump", call[e], s, result[e])
  BY <1>2, PumpAt DEF ProcessDone, PlaceAt, LocalAt
<1>4. /\ pc' = [pc EXCEPT ![e] = "pump"] /\ call' = [call EXCEPT ![e] = call[e]]
      /\ scratch' = [scratch EXCEPT ![e] = scratch[e]]
      /\ result' = [result EXCEPT ![e] = result[e]]
      /\ broken' = broken /\ chan' = chan /\ pc[e] \notin Over /\ call[e] # "alert"
  BY PumpAt DEF ProcessDone, Goto, NetVars, Over, LocalAt
<1> QED
  BY <1>1, <1>2, <1>3, <1>4, PumpQuiet

\* A flight is taken: it is the one under way, and the answer is the next.
LEMMA ProcessFlightPumps ==
    ASSUME PumpInv, IInv', NEW e \in Endpoint, ProcessFlight(e)
    PROVE  PumpInv'
<1> DEFINE p == Peer(e)  s == AcceptFlight(session[e])
<1>1. p \in Endpoint /\ p = Peer(e)
  BY Pair
<1> HIDE DEF p
<1>2. HasRecord(session[e]) /\ session[e].hs # NumFlights /\ session[e] \in NovaTlsSession
  BY PumpAt DEF ProcessFlight, tls_is_handshaking
<1>3. /\ Incoming(s) = Incoming(session[e]) - 2
      /\ \/ s.hs = session[e].hs + 1 /\ s.hs = NumFlights /\ Outgoing(s) = Outgoing(session[e])
         \/ s.hs = session[e].hs + 2 /\ Outgoing(s) = Outgoing(session[e]) + 2
  BY <1>2, AcceptCounts
<1>4. ASSUME Sound
      PROVE  Steps(s.hs, session[p].hs,
                   Outgoing(s) + Len(scratch[e]) + Len(chan[e]) + Incoming(session[p]),
                   Outgoing(session[p]) + Len(scratch[p]) + Len(chan[p]) + Incoming(s))
  <2> DEFINE here == Outgoing(session[e])  sent == Len(scratch[e])
             carried == Len(chan[e])       there == Incoming(session[p])
             back == Outgoing(session[p]) + Len(scratch[p]) + Len(chan[p])
             got == Incoming(session[e])
             mine == session[e].hs         yours == session[p].hs
  <2>1. /\ here \in Nat /\ sent \in Nat /\ carried \in Nat /\ there \in Nat
        /\ back \in Nat /\ got \in Nat /\ got >= 2
        /\ mine \in Nat /\ yours \in Nat /\ mine <= NumFlights /\ yours <= NumFlights
        /\ NumFlights \in Nat
    <3>1. got >= 2 /\ got \in Nat
      BY <1>2, Counts
    <3>2. /\ here \in Nat /\ sent \in Nat /\ carried \in Nat /\ there \in Nat
          /\ mine \in Nat /\ yours \in Nat /\ mine <= NumFlights /\ yours <= NumFlights
          /\ NumFlights \in Nat
      BY <1>1, Numbers, PumpAt
    <3>3. Outgoing(session[p]) \in Nat /\ Len(scratch[p]) \in Nat /\ Len(chan[p]) \in Nat
      BY <1>1, Numbers, PumpAt
    <3> QED
      BY <3>1, <3>2, <3>3, SMTT(60)
  <2>2. Steps(mine, yours, here + sent + carried + there, back + got)
    BY <1>1, <1>4, InStepIs DEF PumpInv, UnderWay
  <2>3. mine # NumFlights
    BY <1>2
  <2> HIDE DEF here, sent, carried, there, back, got, mine, yours
  <2>4. yours = mine + 1 /\ here + sent + carried + there = 0
        /\ (yours < NumFlights => back + got = 2)
    BY <2>1, <2>2, <2>3 DEF Steps, Leads
  <2>5. here = 0 /\ sent = 0 /\ carried = 0 /\ there = 0
    BY <2>1, <2>4
  <2>6. CASE s.hs = mine + 1 /\ s.hs = NumFlights
    BY <2>4, <2>6 DEF Steps, yours
  <2>7. CASE s.hs = mine + 2 /\ Outgoing(s) = here + 2
    <3>1. Incoming(s) = got - 2 /\ s.hs <= NumFlights
      <4>1. s \in NovaTlsSession
        BY <1>2, AcceptFlightType
      <4> QED
        BY <1>3, <4>1, Counts DEF got
    <3> HIDE DEF s
    <3>2. yours < NumFlights /\ s.hs = yours + 1
      BY <2>1, <2>4, <2>7, <3>1
    <3>3. back = 0 /\ got = 2
      BY <2>1, <2>4, <3>2
    <3>4. Outgoing(s) + sent + carried + there = 2 /\ back + Incoming(s) = 0
      BY <2>5, <2>7, <3>1, <3>3
    <3>5. Leads(s.hs, yours, Outgoing(s) + sent + carried + there, back + Incoming(s))
      BY <3>2, <3>4 DEF Leads
    <3> QED
      BY <3>5 DEF Steps, sent, carried, there, back, yours
  <2> QED
    BY <1>3, <2>6, <2>7 DEF mine, here
<1>5. PlaceAt(pc[e], call[e], s, result[e])
  BY PumpAt DEF ProcessFlight, PlaceAt, LocalAt
<1>6. /\ pc' = [pc EXCEPT ![e] = pc[e]] /\ call' = [call EXCEPT ![e] = call[e]]
      /\ session' = [session EXCEPT ![e] = s] /\ scratch' = [scratch EXCEPT ![e] = scratch[e]]
      /\ result' = [result EXCEPT ![e] = result[e]]
      /\ broken' = broken /\ chan' = chan /\ pc[e] \notin Over
  BY PumpAt DEF ProcessFlight, NetVars, Over
<1> HIDE DEF s
<1> QED
  BY <1>1, <1>4, <1>5, <1>6, PumpMove

\* tls_process fails: from now on the two ends owe each other nothing.
LEMMA ProcessFailsPumps ==
    ASSUME PumpInv, IInv', NEW e \in Endpoint, ProcessFails(e)
    PROVE  PumpInv'
<1>1. PICK s : session' = [session EXCEPT ![e] = s]
  BY DEF ProcessFails
<1>2. PlaceAt("flush", "alert", s, "HandshakeFailure")
  BY DEF PlaceAt
<1>3. /\ pc' = [pc EXCEPT ![e] = "flush"] /\ call' = [call EXCEPT ![e] = "alert"]
      /\ scratch' = [scratch EXCEPT ![e] = scratch[e]]
      /\ result' = [result EXCEPT ![e] = "HandshakeFailure"]
      /\ broken' = broken /\ pc[e] \notin Over /\ Peer(e) \in Endpoint
  BY PumpAt, Pair DEF ProcessFails, Goto, NetVars, Over
<1> QED
  BY <1>1, <1>2, <1>3, PumpMove

-----------------------------------------------------------------------------
(* read_step, write_step and the application's calls.                      *)

\* tls_read_plain has an answer for the application.
LEMMA ReadPumps ==
    ASSUME PumpInv, IInv', NEW e \in Endpoint,
           ReadPlain(e) \/ ReadCloseNotify(e) \/ ReadError(e)
    PROVE  PumpInv'
<1>1. /\ pc[e] = "read" /\ pc[e] \notin Over /\ call[e] \notin {"alert", "handshake"}
      /\ scratch' = scratch /\ broken' = broken /\ chan' = chan
      /\ session[e] \in NovaTlsSession
  BY PumpAt DEF ReadPlain, ReadCloseNotify, ReadError, Over, LocalAt, NetVars
<1>2. PICK r \in {"ok", "eof", "HandshakeFailure"} :
        /\ pc' = [pc EXCEPT ![e] = "idle"] /\ call' = [call EXCEPT ![e] = "none"]
        /\ result' = [result EXCEPT ![e] = r]
  BY DEF ReadPlain, ReadCloseNotify, ReadError, Return, Goto
<1>3. ASSUME HasRecord(session[e]), NEW s, s.hs = session[e].hs,
             session' = [session EXCEPT ![e] = s]
      PROVE  PumpInv'
  BY <1>1, <1>2, <1>3, PumpTakes
<1>4. ASSUME HasRecord(session[e]), session' = [session EXCEPT ![e] = TakeRecord(@)]
      PROVE  PumpInv'
  <2>1. TakeRecord(session[e]).hs = session[e].hs
    BY <1>1, <1>4, TakeRecordType
  <2> QED
    BY <1>3, <1>4, <2>1
<1>5. CASE ReadPlain(e)
  <2> DEFINE opened == IF session[e].plain # <<>> THEN session[e] ELSE OpenData(session[e])
  <2>1. PICK cap \in 1 .. MaxRead : session' = [session EXCEPT ![e] = HandOut(opened, cap)]
    BY <1>5 DEF ReadPlain
  <2>2. session[e].plain # <<>> \/ HasRecord(session[e])
    BY <1>5 DEF ReadPlain
  <2>3. ASSUME NEW s \in NovaTlsSession
        PROVE  /\ HandOut(s, cap).hs = s.hs /\ HandOut(s, cap).left = s.left
               /\ HandOut(s, cap).inb = s.inb /\ HandOut(s, cap).outb = s.outb
    BY DEF HandOut, NovaTlsSession
  <2>4. CASE session[e].plain # <<>>
    <3> DEFINE s == HandOut(session[e], cap)
    <3>1. /\ session' = [session EXCEPT ![e] = s] /\ s.hs = session[e].hs
          /\ Incoming(s) = Incoming(session[e]) /\ Outgoing(s) = Outgoing(session[e])
      BY <1>1, <2>1, <2>3, <2>4 DEF Incoming, Outgoing
    <3> HIDE DEF s
    <3>2. PlaceAt("idle", "none", s, r)
      BY <1>1, <1>2, <3>1, PumpAt DEF PlaceAt
    <3>3. scratch' = [scratch EXCEPT ![e] = scratch[e]]
      BY <1>1, PumpAt
    <3> QED
      BY <1>1, <1>2, <3>1, <3>2, <3>3, PumpQuiet
  <2>5. CASE session[e].plain = <<>>
    <3>1. HasRecord(session[e])
      BY <2>2, <2>5
    <3>2. OpenData(session[e]) \in NovaTlsSession /\ OpenData(session[e]).hs = session[e].hs
      <4>1. TakeRecord(session[e]) \in NovaTlsSession /\ TakeRecord(session[e]).hs = session[e].hs
        BY <1>1, <3>1, TakeRecordType
      <4> QED
        BY <1>1, <3>1, <4>1, OpenDataType DEF OpenData, NovaTlsSession
    <3>3. HandOut(opened, cap).hs = session[e].hs
      BY <2>3, <2>5, <3>2
    <3> QED
      BY <1>3, <2>1, <3>1, <3>3
  <2> QED
    BY <2>4, <2>5
<1> QED
  BY <1>4, <1>5 DEF ReadPlain, ReadCloseNotify, ReadError

\* tls_read_plain wants more.
LEMMA ReadNeedsMorePumps ==
    ASSUME PumpInv, IInv', NEW e \in Endpoint, ReadNeedsMore(e)
    PROVE  PumpInv'
<1> DEFINE s == KeepPartial(session[e])
           to == IF tls_wants_write(session[e]) THEN "flush" ELSE "fill"
<1>1. s.hs = session[e].hs /\ Incoming(s) = Incoming(session[e])
      /\ Outgoing(s) = Outgoing(session[e])
  BY PumpAt, KeepPartialType, TakeCounts
<1>2. PlaceAt(to, call[e], s, result[e])
  BY <1>1, PumpAt DEF ReadNeedsMore, PlaceAt, LocalAt, Over
<1>3. /\ pc' = [pc EXCEPT ![e] = to] /\ call' = [call EXCEPT ![e] = call[e]]
      /\ session' = [session EXCEPT ![e] = s] /\ scratch' = [scratch EXCEPT ![e] = scratch[e]]
      /\ result' = [result EXCEPT ![e] = result[e]]
      /\ broken' = broken /\ chan' = chan /\ pc[e] \notin Over /\ call[e] # "alert"
  BY PumpAt DEF ReadNeedsMore, Goto, NetVars, Over, LocalAt
<1> HIDE DEF s, to
<1> QED
  BY <1>1, <1>2, <1>3, PumpQuiet

\* A record of data is sealed, or nothing.
LEMMA WriteStepPumps ==
    ASSUME PumpInv, IInv', NEW e \in Endpoint, WriteStep(e)
    PROVE  PumpInv'
<1> DEFINE n == Accepted(todo[e])
           bytes == [i \in 1 .. n |-> written[e] + i]
           s == tls_write_plain(session[e], bytes)
<1>1. /\ pc' = [pc EXCEPT ![e] = "flush"] /\ call' = [call EXCEPT ![e] = call[e]]
      /\ session' = [session EXCEPT ![e] = s] /\ scratch' = scratch /\ result' = result
      /\ broken' = broken /\ chan' = chan /\ pc[e] \notin Over
      /\ call[e] \notin {"alert", "handshake"}
      /\ session[e] \in NovaTlsSession
  BY PumpAt DEF WriteStep, Goto, NetVars, Over, LocalAt
<1>2. bytes \in Seq(Nat)
  <2>1. todo[e] \in Nat /\ written[e] \in Nat
    BY PumpAt DEF TypeOK
  <2>2. n \in Nat
    <3>1. MaxFragment \in Nat
      BY SessionAssumption
    <3> QED
      BY <2>1, <3>1, SmallerProperties DEF Accepted
  <2> HIDE DEF n
  <2> QED
    BY <2>1, <2>2
<1> HIDE DEF bytes
<1>3. session[e].hs = NumFlights
  BY <1>1, PumpAt DEF PlaceAt
<1>4. CASE bytes = <<>>
  <2>1. s = session[e]
    BY <1>4 DEF tls_write_plain
  <2>2. /\ scratch' = [scratch EXCEPT ![e] = scratch[e]]
        /\ result' = [result EXCEPT ![e] = result[e]]
    BY <1>1, PumpAt
  <2>3. PlaceAt("flush", call[e], s, result[e])
    BY <1>1, <2>1, PumpAt DEF PlaceAt
  <2> HIDE DEF s
  <2> QED
    BY <1>1, <2>1, <2>2, <2>3, PumpQuiet
<1>5. CASE bytes # <<>>
  <2>1. s = SendRecord(session[e], Data(bytes)) /\ Data(bytes) \in Record
    BY <1>2, <1>5, RecordsType DEF tls_write_plain
  <2>2. /\ s.hs = session[e].hs /\ Incoming(s) = Incoming(session[e])
        /\ Outgoing(s) = Outgoing(session[e]) + 2
    BY <1>1, <2>1, SendRecordCounts
  <2>3. PlaceAt("flush", call[e], s, result[e])
    BY <1>1, <2>2, PumpAt DEF PlaceAt
  <2> HIDE DEF s
  <2> QED
    BY <1>1, <1>3, <2>2, <2>3, PumpSeals
<1> QED
  BY <1>4, <1>5

\* A call of the application's.
LEMMA UsePumps ==
    ASSUME PumpInv, IInv', NEW e \in Endpoint, Use(e)
    PROVE  PumpInv'
<1>1. /\ pc[e] = "idle" /\ pc[e] \notin Over /\ call[e] = "none"
      /\ session[e] \in NovaTlsSession
      /\ session[e].hs = NumFlights /\ result[e] # "Internal"
  BY PumpAt DEF Use, Read, Write, Flush, Close, Over, PlaceAt
<1>2. PICK to \in {"read", "write", "flush"}, c \in {"read", "write", "write_all", "flush", "close"} :
        pc' = [pc EXCEPT ![e] = to] /\ call' = [call EXCEPT ![e] = c]
  BY DEF Use, Read, Write, Flush, Close, Goto
<1>3. /\ scratch' = scratch /\ result' = result /\ broken' = broken /\ chan' = chan
      /\ scratch' = [scratch EXCEPT ![e] = scratch[e]]
      /\ result' = [result EXCEPT ![e] = result[e]]
  BY PumpAt DEF Use, Read, Write, Flush, Close, NetVars
<1>4. CASE session' = session
  <2>1. session' = [session EXCEPT ![e] = session[e]]
    BY <1>4, PumpAt
  <2>2. PlaceAt(to, c, session[e], result[e])
    BY <1>1, <1>2 DEF PlaceAt
  <2> QED
    BY <1>1, <1>2, <1>3, <2>1, <2>2, PumpQuiet
<1>5. CASE session' = [session EXCEPT ![e] = tls_send_close_notify(@)]
  <2> DEFINE s == tls_send_close_notify(session[e])
  <2>1. /\ s.hs = session[e].hs /\ Incoming(s) = Incoming(session[e])
        /\ Outgoing(s) = Outgoing(session[e]) + 2
    BY <1>1, SendRecordCounts, RecordsType DEF tls_send_close_notify
  <2>2. session' = [session EXCEPT ![e] = s]
    BY <1>5
  <2> HIDE DEF s
  <2>3. PlaceAt(to, c, s, result[e])
    BY <1>1, <1>2, <2>1 DEF PlaceAt
  <2> QED
    BY <1>1, <1>2, <1>3, <2>1, <2>2, <2>3, PumpSeals
<1> QED
  BY <1>4, <1>5 DEF Use, Read, Write, Flush, Close

-----------------------------------------------------------------------------
\* TCP resets the connection.
LEMMA ResetPumps ==
    ASSUME PumpInv, IInv', ResetByPeer \/ TcpFault
    PROVE  PumpInv'
BY DEF ResetByPeer, TcpFault, PumpInv, Place, Sound

\* A process dies.
LEMMA CrashPumps ==
    ASSUME PumpInv, IInv', NEW e \in Endpoint, Crash(e)
    PROVE  PumpInv'
<1>1. result[e] # "Internal" /\ result' = [result EXCEPT ![e] = result[e]]
  BY PumpAt DEF PlaceAt, Crash
<1> QED
  BY <1>1, PumpEnds DEF Crash, Over

\* At the start the client is one flight ahead: its ClientHello.
LEMMA InitPumps == Init => PumpInv
<1> SUFFICES ASSUME Init PROVE PumpInv
  OBVIOUS
<1> DEFINE start == [Freed EXCEPT !.hs = 1]
           hello == SendRecord(start, Flight(1))
<1>1. /\ Freed \in NovaTlsSession /\ Incoming(Freed) = 0 /\ Outgoing(Freed) = 0 /\ Freed.hs = 0
      /\ start \in NovaTlsSession /\ Incoming(start) = 0 /\ Outgoing(start) = 0 /\ start.hs = 1
  <2>1. <<>> \in Seq(Unit) /\ <<>> \in Seq(Nat) /\ Len(<<>>) = 0
    OBVIOUS
  <2>2. 0 \in 0 .. NumFlights /\ 1 \in 0 .. NumFlights
    BY SessionAssumption
  <2>3. start = [hs |-> 1, left |-> <<>>, plain |-> <<>>, inb |-> <<>>, outb |-> <<>>]
    BY DEF Freed
  <2> HIDE DEF start
  <2> QED
    BY <2>1, <2>2, <2>3 DEF Freed, NovaTlsSession, Incoming, Outgoing
<1>2. hello.hs = 1 /\ Incoming(hello) = 0 /\ Outgoing(hello) = 2
  <2>1. Flight(1) \in Record
    BY RecordsType
  <2> HIDE DEF start
  <2> QED
    BY <1>1, <2>1, SendRecordCounts
<1>3. /\ pc = [e \in Endpoint |-> "pump"]
      /\ call = [e \in Endpoint |-> "handshake"]
      /\ result = [e \in Endpoint |-> "none"]
      /\ session = [e \in Endpoint |-> IF e = "client" THEN hello ELSE Freed]
      /\ scratch = [e \in Endpoint |-> <<>>]
      /\ chan = [e \in Endpoint |-> <<>>]
  BY DEF Init
<1> HIDE DEF hello
<1>4. ASSUME NEW e \in Endpoint PROVE Place(e)
  BY <1>3 DEF Place, PlaceAt
<1>5. Ahead("client", "server")
  <2>1. /\ session["client"] = hello /\ session["server"] = Freed
        /\ scratch["client"] = <<>> /\ scratch["server"] = <<>>
        /\ chan["client"] = <<>> /\ chan["server"] = <<>>
    BY <1>3 DEF Endpoint
  <2>2. UnderWay("client", "server") = 2 /\ UnderWay("server", "client") = 0
    BY <1>1, <1>2, <2>1 DEF UnderWay
  <2> QED
    BY <1>1, <1>2, <2>1, <2>2 DEF Ahead
<1> QED
  BY <1>4, <1>5, InitIInv DEF PumpInv, InStep, Endpoint

-----------------------------------------------------------------------------
\* In every reachable state the two ends are in step or something has failed.
THEOREM PumpInvariance == Spec => []PumpInv
<1>1. PumpInv /\ [Next]_vars => PumpInv'
  <2> SUFFICES ASSUME PumpInv, [Next]_vars PROVE PumpInv'
    OBVIOUS
  <2>1. IInv'
    BY NextIInv DEF PumpInv
  <2>2. CASE Next
    <3>1. ASSUME NEW e \in Endpoint, Step(e) PROVE PumpInv'
      BY <2>1, <3>1, FlushChunkPumps, SendToTcpPumps, SendFailsPumps, FlushDonePumps,
         FillFromTcpPumps, FillErrorsPump, PumpStepPumps, ProcessDonePumps,
         ProcessFlightPumps, ProcessFailsPumps, ReadPumps, ReadNeedsMorePumps,
         WriteStepPumps DEF Step
    <3> QED
      BY <2>1, <2>2, <3>1, UsePumps, CrashPumps, ResetPumps DEF Next
  <2>3. CASE UNCHANGED vars
    BY <2>1, <2>3 DEF vars, PumpInv, Place, Sound, InStep, Ahead, UnderWay
  <2> QED
    BY <2>2, <2>3
<1> QED
  BY InitPumps, <1>1, PTL DEF Spec

\* During a handshake the two pumps never wait in Net.read for each other with
\* nothing on its way, and pump_handshake never finds its session stalled, for
\* every number of flights, TLS_CHUNK and TCP capacity.
THEOREM NoStandoffOfPumps == Spec => []NoHandshakeStandoff
<1>1. PumpInv => NoHandshakeStandoff
  <2> SUFFICES ASSUME PumpInv, ~broken,
                      \A e \in Endpoint : pc[e] = "fill" /\ chan[e] = <<>>
               PROVE  \A e \in Endpoint : ~tls_is_handshaking(session[e])
    BY DEF NoHandshakeStandoff, PumpInv, Place, PlaceAt
  <2>1. Sound
    BY PumpAt DEF Sound, Over, LocalAt
  <2>2. ASSUME NEW e \in Endpoint, NEW p \in Endpoint PROVE ~Ahead(e, p)
    <3>1. /\ session[e].outb = <<>> /\ scratch[e] = <<>> /\ chan[e] = <<>>
          /\ session[p].inb = <<>> /\ Len(session[p].left) < 2
      BY PumpAt DEF LocalAt, Drained
    <3>2. UnderWay(e, p) = Len(session[p].left)
      <4>1. Len(session[p].left) \in Nat
        BY PumpAt DEF NovaTlsSession
      <4>2. Len(<<>>) = 0
        OBVIOUS
      <4> QED
        BY <3>1, <4>1, <4>2 DEF UnderWay, Outgoing, Incoming
    <3>3. UnderWay(e, p) \in Nat /\ UnderWay(e, p) < 2
      BY <3>1, <3>2, Numbers, PumpAt
    <3> QED
      BY <3>3 DEF Ahead
  <2> QED
    BY <2>1, <2>2 DEF PumpInv, InStep, tls_is_handshaking
<1> QED
  BY <1>1, PumpInvariance, PTL

-----------------------------------------------------------------------------
(* An end which was refused gets nothing (RefusedGetsNothing).             *)
(*                                                                         *)
(* The end that is refused may have a stream before it is told (TLS 1.3,   *)
(* client certificates), so what its own fiber knows does not help.  It    *)
(* gets nothing because of what the other end never says: that one stays   *)
(* in its handshake (Due), so all it ever seals are flights and an alert,  *)
(* and no cut of TLS_CHUNK or TCP makes a record of data, or a             *)
(* close_notify, out of these (QuietUnit).                                 *)

\* A unit of a flight or of an alert.
QuietUnit == {u \in Unit : u.rec.type \in {"hs", "alert"}}
Quiet(units) == units \in Seq(QuietUnit)

\* e is the end that refuses a flight of its peer's.
Refuses(e) == refused # 0 /\ (e = "server" <=> refused % 2 = 1)

\* The refused flight has yet to be accepted by s.
Due(s) == \E k \in Nat : refused = s.hs + 1 + 2 * k

\* What the end that refuses is and says.
Refuser(e) ==
    /\ pc[e] \notin Over => Due(session[e])
    /\ Quiet(session[e].outb) /\ Quiet(scratch[e]) /\ Quiet(chan[e])
    /\ result[e] \in Error \cup {"none"}

\* What a session has received, if it has received only that.
QuietInput(s) == Quiet(s.left) /\ Quiet(s.inb) /\ s.plain = <<>>

\* What the end that is refused has.
Unserved(e) == QuietInput(session[e]) /\ received[e] = <<>> /\ ~ended[e]

RefusalInv == \A e \in Endpoint : Refuses(e) => Refuser(e) /\ Unserved(Peer(e))

-----------------------------------------------------------------------------
(* Quiet units, whichever way they are cut and joined.                     *)

LEMMA QuietSequences ==
    /\ Quiet(<<>>)
    /\ \A f \in Nat : Quiet(Units(Flight(f)))
    /\ Quiet(Units(Alert))
    /\ \A a, b : Quiet(a) /\ Quiet(b) => Quiet(a \o b)
    /\ \A a : \A k \in Nat : Quiet(a) /\ k <= Len(a) =>
           Quiet(SubSeq(a, 1, k)) /\ Quiet(SubSeq(a, k + 1, Len(a)))
<1>1. Quiet(<<>>)
  BY DEF Quiet
<1>2. ASSUME NEW r \in Record, r.type \in {"hs", "alert"} PROVE Quiet(Units(r))
  <2>1. [rec |-> r, part |-> "header"] \in QuietUnit /\ [rec |-> r, part |-> "body"] \in QuietUnit
    BY <1>2 DEF QuietUnit, Unit
  <2> QED
    BY <2>1 DEF Quiet, Units
<1>3. /\ Alert \in Record /\ Alert.type = "alert"
      /\ \A f \in Nat : Flight(f) \in Record /\ Flight(f).type = "hs"
  BY RecordsType DEF Alert, Flight
<1>4. ASSUME NEW a, NEW b, Quiet(a), Quiet(b) PROVE Quiet(a \o b)
  BY <1>4, ConcatProperties DEF Quiet
<1>5. ASSUME NEW a, NEW k \in Nat, Quiet(a), k <= Len(a)
      PROVE  Quiet(SubSeq(a, 1, k)) /\ Quiet(SubSeq(a, k + 1, Len(a)))
  BY <1>5, Cut DEF Quiet
<1> QED
  BY <1>1, <1>2, <1>3, <1>4, <1>5

\* The two queues of input, read as one.
LEMMA QuietFetched ==
    ASSUME NEW s \in NovaTlsSession, QuietInput(s)
    PROVE  Quiet(Fetched(s)) /\ Len(Fetched(s)) \in Nat
BY QuietSequences, FetchedType DEF QuietInput, Fetched

\* A record made of quiet units is neither data nor a close_notify.
LEMMA QuietRecord ==
    ASSUME NEW s \in NovaTlsSession, QuietInput(s), HasRecord(s)
    PROVE  NextRecord(s).type \notin {"data", "close_notify"}
<1>1. Fetched(s)[1] \in QuietUnit
  BY QuietFetched DEF HasRecord, Quiet
<1>2. BadRecord.type = "bad" /\ Fetched(s)[1].rec.type \in {"hs", "alert"}
  BY <1>1 DEF BadRecord, QuietUnit
<1> QED
  BY <1>2 DEF NextRecord

\* Taking a record, or keeping a part of one, leaves quiet input.
LEMMA QuietTake ==
    ASSUME NEW s \in NovaTlsSession, QuietInput(s)
    PROVE  /\ HasRecord(s) => QuietInput(TakeRecord(s))
           /\ QuietInput(KeepPartial(s))
<1>1. Quiet(Fetched(s)) /\ Quiet(<<>>)
  BY QuietFetched, QuietSequences
<1>2. ASSUME HasRecord(s) PROVE Quiet(SubSeq(Fetched(s), 3, Len(Fetched(s))))
  <2>1. Quiet(SubSeq(Fetched(s), 2 + 1, Len(Fetched(s))))
    BY <1>1, <1>2, QuietSequences DEF HasRecord
  <2> QED
    BY <2>1
<1>3. /\ TakeRecord(s).left = <<>> /\ TakeRecord(s).inb = SubSeq(Fetched(s), 3, Len(Fetched(s)))
      /\ TakeRecord(s).plain = s.plain
      /\ KeepPartial(s).left = Fetched(s) /\ KeepPartial(s).inb = <<>>
      /\ KeepPartial(s).plain = s.plain
  BY DEF TakeRecord, KeepPartial, NovaTlsSession
<1> QED
  BY <1>1, <1>2, <1>3 DEF QuietInput

\* Taking a flight and answering it leaves the input, and the output, quiet.
LEMMA QuietAccept ==
    ASSUME NEW s \in NovaTlsSession, HasRecord(s), s.hs # NumFlights
    PROVE  /\ QuietInput(s) => QuietInput(AcceptFlight(s))
           /\ Quiet(s.outb) => Quiet(AcceptFlight(s).outb)
           /\ s.hs + 1 # NumFlights => AcceptFlight(s).hs = s.hs + 2
<1> DEFINE accepted == [TakeRecord(s) EXCEPT !.hs = s.hs + 1]
           answered == [accepted EXCEPT !.hs = @ + 1]
           sealed == SendRecord(answered, Flight(accepted.hs + 1))
<1>1. s.hs \in Nat
  BY SessionAssumption DEF NovaTlsSession
<1>2. /\ accepted.hs = s.hs + 1 /\ accepted.outb = s.outb
      /\ accepted.left = TakeRecord(s).left /\ accepted.inb = TakeRecord(s).inb
      /\ accepted.plain = TakeRecord(s).plain
  BY TakeRecordType DEF NovaTlsSession, TakeRecord
<1>3. /\ sealed.hs = s.hs + 2 /\ sealed.outb = s.outb \o Units(Flight(s.hs + 2))
      /\ sealed.left = accepted.left /\ sealed.inb = accepted.inb
      /\ sealed.plain = accepted.plain
  <2>1. accepted.hs + 1 = s.hs + 2
    BY <1>1, <1>2
  <2>2. TakeRecord(s) \in NovaTlsSession
    BY TakeRecordType
  <2>3. /\ answered.hs = accepted.hs + 1 /\ answered.outb = accepted.outb
        /\ answered.left = accepted.left /\ answered.inb = accepted.inb
        /\ answered.plain = accepted.plain
    BY <2>2 DEF NovaTlsSession
  <2>4. /\ sealed.hs = answered.hs
        /\ sealed.outb = answered.outb \o Units(Flight(accepted.hs + 1))
        /\ sealed.left = answered.left /\ sealed.inb = answered.inb
        /\ sealed.plain = answered.plain
    BY <2>2 DEF SendRecord, NovaTlsSession
  <2> QED
    BY <1>2, <2>1, <2>3, <2>4
<1>4. AcceptFlight(s) = IF s.hs + 1 = NumFlights THEN accepted ELSE sealed
  BY <1>2 DEF AcceptFlight
<1>5. Quiet(s.outb) => Quiet(s.outb \o Units(Flight(s.hs + 2)))
  BY <1>1, QuietSequences
<1> HIDE DEF accepted, sealed
<1> QED
  BY <1>2, <1>3, <1>4, <1>5, QuietTake DEF QuietInput

-----------------------------------------------------------------------------
(* One step, seen from the end that does not take it.                      *)

\* A step of e touches nothing of its peer's but what TCP carries to e.
LEMMA Bystander ==
    ASSUME PumpInv, NEW e \in Endpoint, NEW p \in Endpoint, p # e,
           Step(e) \/ Use(e) \/ Crash(e)
    PROVE  /\ pc'[p] = pc[p] /\ session'[p] = session[p] /\ scratch'[p] = scratch[p]
           /\ call'[p] = call[p] /\ todo'[p] = todo[p] /\ result'[p] = result[p]
           /\ written'[p] = written[p] /\ received'[p] = received[p]
           /\ notified'[p] = notified[p] /\ ended'[p] = ended[p]
           /\ refused' = refused /\ broken' = broken
           /\ \/ chan'[p] = chan[p]
              \/ \E n \in 1 .. Len(chan[p]) : chan'[p] = SubSeq(chan[p], n + 1, Len(chan[p]))
<1>1. /\ pc \in [Endpoint -> PC] /\ session \in [Endpoint -> NovaTlsSession]
      /\ scratch \in [Endpoint -> Seq(Unit)] /\ result \in [Endpoint -> Result]
      /\ received \in [Endpoint -> Seq(Nat)] /\ ended \in [Endpoint -> BOOLEAN]
      /\ call \in [Endpoint -> Call] /\ todo \in [Endpoint -> Nat]
      /\ written \in [Endpoint -> Nat] /\ notified \in [Endpoint -> BOOLEAN]
      /\ chan \in [Endpoint -> Seq(Unit)]
  BY PumpAt DEF TypeOK
<1>2. CASE Crash(e) \/ \E error : FailHandshake(e, error)
  BY <1>1, <1>2 DEF Crash, FailHandshake, Release, Goto, HistoryVars
<1>3. CASE EndClose(e)
  BY <1>1, <1>3 DEF EndClose, Release, Goto, HistoryVars
<1>4. CASE Use(e)
  BY <1>1, <1>4 DEF Use, Read, Write, Flush, Close, Goto, NetVars, HistoryVars
<1>5. CASE FlushChunk(e) \/ SendToTcp(e)
  BY <1>1, <1>5 DEF FlushChunk, SendToTcp, Goto, NetVars, HistoryVars
<1>6. CASE SendFails(e)
  BY <1>1, <1>2, <1>3, <1>6 DEF SendFails, Return, Goto, NetVars, HistoryVars
<1>7. CASE FlushDone(e)
  BY <1>1, <1>2, <1>3, <1>7 DEF FlushDone, Return, Goto, NetVars, HistoryVars
<1>8. CASE FillFromTcp(e)
  <2>1. PICK n \in 1 .. Smaller(Chunk, Len(chan[Peer(e)])) :
          chan' = [chan EXCEPT ![Peer(e)] = SubSeq(@, n + 1, Len(@))]
    BY <1>8 DEF FillFromTcp
  <2>2. n \in 1 .. Len(chan[Peer(e)])
    <3>1. Chunk \in Nat /\ Len(chan[Peer(e)]) \in Nat
      BY <1>1, SessionAssumption, Pair
    <3>2. Smaller(Chunk, Len(chan[Peer(e)])) <= Len(chan[Peer(e)])
          /\ Smaller(Chunk, Len(chan[Peer(e)])) \in Nat
      BY <3>1, SmallerProperties
    <3> QED
      BY <3>1, <3>2
  <2>3. p = Peer(e)
    BY Pair
  <2> QED
    BY <1>1, <1>8, <2>1, <2>2, <2>3 DEF FillFromTcp, Goto, HistoryVars
<1>9. CASE FillEof(e) \/ FillFails(e)
  BY <1>1, <1>2, <1>9 DEF FillEof, FillFails, FillEnds, Return, Goto, NetVars, HistoryVars
<1>10. CASE PumpStep(e)
  BY <1>1, <1>2, <1>10 DEF PumpStep, Goto, NetVars, HistoryVars
<1>11. CASE ProcessDone(e) \/ ProcessFlight(e) \/ ProcessFails(e)
  BY <1>1, <1>11 DEF ProcessDone, ProcessFlight, ProcessFails, Goto, NetVars, HistoryVars
<1>12. CASE ReadPlain(e) \/ ReadCloseNotify(e) \/ ReadError(e) \/ ReadNeedsMore(e)
  BY <1>1, <1>12 DEF ReadPlain, ReadCloseNotify, ReadError, ReadNeedsMore, Return, Goto,
                     NetVars, HistoryVars
<1>13. CASE WriteStep(e)
  BY <1>1, <1>13 DEF WriteStep, Goto, NetVars
<1> QED
  BY <1>2, <1>4, <1>5, <1>6, <1>7, <1>8, <1>9, <1>10, <1>11, <1>12, <1>13 DEF Step

\* So the peer of e stays what it was.
LEMMA BystanderKeeps ==
    ASSUME PumpInv, NEW e \in Endpoint, NEW p \in Endpoint, p # e,
           Step(e) \/ Use(e) \/ Crash(e)
    PROVE  /\ Refuser(p) => Refuser(p)'
           /\ Unserved(p) => Unserved(p)'
           /\ \A d \in Endpoint : Refuses(d)' <=> Refuses(d)
<1>1. Quiet(chan[p]) => Quiet(chan'[p])
  <2>1. ASSUME Quiet(chan[p]), NEW n \in 1 .. Len(chan[p])
        PROVE  Quiet(SubSeq(chan[p], n + 1, Len(chan[p])))
    <3>1. n \in Nat /\ n <= Len(chan[p])
      BY <2>1 DEF Quiet
    <3> QED
      BY <2>1, <3>1, QuietSequences
  <2> QED
    BY <2>1, Bystander
<1> QED
  BY <1>1, Bystander DEF Refuser, Unserved, Refuses, Due

-----------------------------------------------------------------------------
(* A step of the end that refuses.                                         *)

\* It is in its handshake, until it is over.
LEMMA StillHandshaking ==
    ASSUME PumpInv, NEW e \in Endpoint, Refuses(e), Refuser(e), pc[e] \notin Over
    PROVE  /\ call[e] \in {"handshake", "alert"}
           /\ pc[e] \in {"pump", "process", "flush", "send", "fill"}
           /\ session[e].hs < refused /\ tls_is_handshaking(session[e])
<1>1. session[e].hs \in Nat /\ refused \in Nat /\ refused <= NumFlights /\ NumFlights \in Nat
  <2>1. refused \in 1 .. NumFlights
    BY PumpAt, StreamAssumption DEF TypeOK, Refuses
  <2> QED
    BY <2>1, PumpAt, Counts
<1>2. PICK k \in Nat : refused = session[e].hs + 1 + 2 * k
  BY DEF Refuser, Due
<1>3. session[e].hs < refused /\ session[e].hs # NumFlights
  BY <1>1, <1>2
<1>4. call[e] \in {"handshake", "alert"}
  BY <1>3, PumpAt DEF PlaceAt
<1>5. pc[e] \in PC
  BY PumpAt DEF TypeOK
<1> QED
  BY <1>3, <1>4, <1>5, PumpAt DEF PlaceAt, LocalAt, PC, Running, tls_is_handshaking

\* A step of it keeps this if what it seals is quiet and it stays before the
\* flight it refuses, or if it ends.
LEMMA RefuserMoves ==
    ASSUME PumpInv, NEW e \in Endpoint, Refuses(e), Refuser(e),
           NEW s, session' = [session EXCEPT ![e] = s],
           refused' = refused,
           (s = Freed /\ pc'[e] \in Over) \/ (Due(s) /\ Quiet(s.outb)),
           Quiet(scratch'[e]), Quiet(chan'[e]),
           result'[e] \in Error \cup {"none"}
    PROVE  Refuser(e)'
<1>1. session'[e] = s
  BY PumpAt DEF TypeOK
<1>2. Quiet(Freed.outb)
  BY QuietSequences DEF Freed
<1> QED
  BY <1>1, <1>2 DEF Refuser, Due

\* connect or accept gives up.
LEMMA RefuserEnds ==
    ASSUME PumpInv, NEW e \in Endpoint, Refuses(e), Refuser(e),
           NEW to \in Over, Release(e, to), refused' = refused, chan' = chan,
           result'[e] \in Error \cup {"none"}
    PROVE  Refuser(e)'
<1> DEFINE s == Freed
<1>1. /\ pc'[e] \in Over /\ scratch'[e] = <<>>
      /\ session' = [session EXCEPT ![e] = s] /\ s = Freed
  BY PumpAt DEF TypeOK, Release, Goto
<1>2. Quiet(scratch'[e]) /\ Quiet(chan'[e])
  BY <1>1, QuietSequences DEF Refuser
<1> HIDE DEF s
<1> QED
  BY <1>1, <1>2, RefuserMoves

LEMMA RefuserFails ==
    ASSUME PumpInv, NEW e \in Endpoint, Refuses(e), Refuser(e),
           NEW error \in Error \cup {"none"}, FailHandshake(e, error)
    PROVE  Refuser(e)'
<1>1. result'[e] = error
  BY PumpAt DEF TypeOK, FailHandshake
<1> QED
  BY <1>1, RefuserEnds DEF FailHandshake, Over

\* It accepts a flight: an earlier one than that which it refuses.
LEMMA RefuserAccepts ==
    ASSUME PumpInv, NEW e \in Endpoint, Refuses(e), Refuser(e), ProcessFlight(e)
    PROVE  Refuser(e)'
<1> DEFINE s == AcceptFlight(session[e])
<1>1. /\ session[e] \in NovaTlsSession /\ HasRecord(session[e]) /\ session[e].hs # NumFlights
      /\ session[e].hs + 1 # refused /\ pc[e] \notin Over
  BY PumpAt DEF ProcessFlight, tls_is_handshaking, AcceptsNext, Over
<1>2. session[e].hs \in Nat /\ NumFlights \in Nat
  BY <1>1, Counts
<1>3. refused \in 1 .. NumFlights
  BY PumpAt, StreamAssumption DEF TypeOK, Refuses
<1>4. PICK k \in Nat : refused = session[e].hs + 1 + 2 * k
  BY <1>1 DEF Refuser, Due
<1>5. k - 1 \in Nat /\ session[e].hs + 1 # NumFlights
  BY <1>1, <1>2, <1>3, <1>4
<1>6. s.hs = session[e].hs + 2 /\ Quiet(s.outb)
  BY <1>1, <1>5, QuietAccept DEF Refuser
<1>7. refused = s.hs + 1 + 2 * (k - 1)
  BY <1>2, <1>4, <1>6
<1>8. Due(s)
  BY <1>5, <1>7 DEF Due
<1>9. /\ session' = [session EXCEPT ![e] = s] /\ scratch' = scratch /\ chan' = chan
      /\ result' = result /\ refused' = refused
  BY DEF ProcessFlight, NetVars
<1> HIDE DEF s
<1> QED
  BY <1>6, <1>8, <1>9, RefuserMoves DEF Refuser

\* It refuses, with an alert or without.
LEMMA RefuserRefuses ==
    ASSUME PumpInv, NEW e \in Endpoint, Refuses(e), Refuser(e), ProcessFails(e)
    PROVE  Refuser(e)'
<1>1. session[e] \in NovaTlsSession /\ HasRecord(session[e]) /\ pc[e] \notin Over
  BY PumpAt DEF ProcessFails, Over
<1>2. /\ TakeRecord(session[e]).hs = session[e].hs
      /\ TakeRecord(session[e]).outb = session[e].outb
      /\ TakeRecord(session[e]) \in NovaTlsSession
  BY <1>1, TakeRecordType DEF TakeRecord, NovaTlsSession
<1>3. PICK s \in {TakeRecord(session[e]), SendRecord(TakeRecord(session[e]), Alert)} :
        session' = [session EXCEPT ![e] = s]
  BY DEF ProcessFails
<1>4. s.hs = session[e].hs /\ Quiet(s.outb)
  <2>1. Quiet(session[e].outb \o Units(Alert))
    BY QuietSequences DEF Refuser
  <2>2. /\ SendRecord(TakeRecord(session[e]), Alert).hs = session[e].hs
        /\ SendRecord(TakeRecord(session[e]), Alert).outb = session[e].outb \o Units(Alert)
    BY <1>2 DEF SendRecord, NovaTlsSession
  <2> QED
    BY <1>2, <2>1, <2>2 DEF Refuser
<1>5. Due(s)
  BY <1>1, <1>4 DEF Refuser, Due
<1>6. /\ scratch' = scratch /\ chan' = chan /\ refused' = refused
      /\ result'[e] = "HandshakeFailure"
  BY PumpAt DEF ProcessFails, NetVars, TypeOK
<1> QED
  BY <1>3, <1>4, <1>5, <1>6, RefuserMoves DEF Refuser, Error

\* flush_out: what has been sealed goes to TCP, in parts.
LEMMA RefuserFlushes ==
    ASSUME PumpInv, NEW e \in Endpoint, Refuses(e), Refuser(e), FlushChunk(e) \/ SendToTcp(e)
    PROVE  Refuser(e)'
<1>1. session[e] \in NovaTlsSession /\ pc[e] \notin Over
  BY PumpAt DEF FlushChunk, SendToTcp, Over
<1>2. CASE FlushChunk(e)
  <2> DEFINE s == tls_write_tls(session[e])
             n == WriteSize(session[e])
  <2>1. n \in Nat /\ n <= Len(session[e].outb)
    <3>1. Len(session[e].outb) \in Nat /\ Chunk \in Nat
      BY <1>1, SessionAssumption DEF NovaTlsSession
    <3> QED
      BY <3>1, SmallerProperties DEF WriteSize
  <2>2. /\ Quiet(SubSeq(session[e].outb, 1, n))
        /\ Quiet(SubSeq(session[e].outb, n + 1, Len(session[e].outb)))
    BY <2>1, QuietSequences DEF Refuser
  <2>3. /\ s.outb = SubSeq(session[e].outb, n + 1, Len(session[e].outb))
        /\ s.hs = session[e].hs
    BY <1>1 DEF tls_write_tls, NovaTlsSession
  <2>4. Due(s)
    BY <1>1, <2>3 DEF Refuser, Due
  <2>5. /\ session' = [session EXCEPT ![e] = s] /\ chan' = chan /\ result' = result
        /\ refused' = refused /\ scratch'[e] = SubSeq(session[e].outb, 1, n)
    BY <1>2, PumpAt DEF FlushChunk, Dequeued, NetVars, TypeOK
  <2> HIDE DEF s, n
  <2> QED
    BY <2>2, <2>3, <2>4, <2>5, RefuserMoves DEF Refuser
<1>3. CASE SendToTcp(e)
  <2>1. PICK k \in 1 .. Len(scratch[e]) :
          /\ chan'[e] = chan[e] \o SubSeq(scratch[e], 1, k)
          /\ scratch'[e] = SubSeq(scratch[e], k + 1, Len(scratch[e]))
    BY <1>3, PumpAt DEF SendToTcp, TypeOK
  <2>2. k \in Nat /\ k <= Len(scratch[e])
    BY PumpAt
  <2>3. Quiet(chan'[e]) /\ Quiet(scratch'[e])
    BY <2>1, <2>2, QuietSequences DEF Refuser
  <2>4. /\ session' = [session EXCEPT ![e] = session[e]] /\ result' = result
        /\ refused' = refused
    BY <1>3, PumpAt DEF SendToTcp
  <2>5. Due(session[e]) /\ Quiet(session[e].outb)
    BY <1>1 DEF Refuser
  <2> QED
    BY <2>3, <2>4, <2>5, RefuserMoves DEF Refuser
<1> QED
  BY <1>2, <1>3

\* The steps of pump_handshake and fill_from_tcp that seal nothing.
LEMMA RefuserPumps ==
    ASSUME PumpInv, NEW e \in Endpoint, Refuses(e), Refuser(e), pc[e] \notin Over,
           NEW s, session' = [session EXCEPT ![e] = s],
           s.hs = session[e].hs, s.outb = session[e].outb,
           chan'[e] = chan[e],
           UNCHANGED << scratch, result, refused >>
    PROVE  Refuser(e)'
<1>1. Due(s) /\ Quiet(s.outb)
  BY DEF Refuser, Due
<1> QED
  BY <1>1, RefuserMoves DEF Refuser

\* Whatever it does, what it says is quiet.
LEMMA RefuserStays ==
    ASSUME PumpInv, NEW e \in Endpoint, Refuses(e), Refuser(e),
           Step(e) \/ Use(e) \/ Crash(e)
    PROVE  Refuser(e)'
<1>1. pc[e] \notin Over /\ session[e] \in NovaTlsSession /\ result[e] \in Error \cup {"none"}
  BY PumpAt DEF Refuser, Step, Use, Crash, FlushChunk, SendToTcp, SendFails, FlushDone, FillFromTcp,
                FillEof, FillFails, PumpStep, ProcessDone, ProcessFlight, ProcessFails,
                ReadPlain, ReadCloseNotify, ReadError, ReadNeedsMore, WriteStep,
                Read, Write, Flush, Close, Over
<1>2. /\ call[e] \in {"handshake", "alert"}
      /\ pc[e] \in {"pump", "process", "flush", "send", "fill"}
      /\ tls_is_handshaking(session[e])
  BY <1>1, StillHandshaking
<1>3. /\ session = [session EXCEPT ![e] = session[e]] /\ result = [result EXCEPT ![e] = result[e]]
      /\ {"HandshakeFailure", "Net", "Internal"} \subseteq Error
  BY PumpAt DEF Error
<1>4. CASE Crash(e)
  BY <1>1, <1>3, <1>4, RefuserEnds DEF Crash, Over
<1>5. CASE FlushChunk(e) \/ SendToTcp(e)
  BY <1>5, RefuserFlushes
<1>6. CASE SendFails(e)
  BY <1>1, <1>2, <1>3, <1>6, RefuserFails DEF SendFails
<1>7. CASE FlushDone(e)
  <2>1. CASE call[e] = "handshake"
    BY <1>1, <1>3, <1>7, <2>1, RefuserPumps DEF FlushDone, NetVars
  <2>2. CASE call[e] = "alert"
    BY <1>1, <1>7, <2>2, RefuserFails DEF FlushDone
  <2> QED
    BY <1>2, <2>1, <2>2
<1>8. CASE FillFromTcp(e)
  <2>1. PICK n \in 1 .. Smaller(Chunk, Len(chan[Peer(e)])) :
          session' = [session EXCEPT ![e] = tls_read_tls(@, SubSeq(chan[Peer(e)], 1, n))]
    BY <1>8 DEF FillFromTcp
  <2> DEFINE s == tls_read_tls(session[e], SubSeq(chan[Peer(e)], 1, n))
  <2>2. s.hs = session[e].hs /\ s.outb = session[e].outb
    BY <1>1 DEF tls_read_tls, NovaTlsSession
  <2>3. chan'[e] = chan[e] /\ UNCHANGED << scratch, result, refused >>
    BY <1>8, PumpAt, Pair DEF FillFromTcp, TypeOK
  <2>4. session' = [session EXCEPT ![e] = s]
    BY <2>1
  <2> HIDE DEF s
  <2> QED
    BY <1>1, <2>2, <2>3, <2>4, RefuserPumps
<1>9. CASE FillEof(e) \/ FillFails(e)
  <2>1. call[e] = "handshake"
    BY <1>2, <1>9 DEF FillEof, FillFails, FillEnds
  <2> QED
    BY <1>3, <1>9, <2>1, RefuserFails DEF FillEof, FillFails, FillEnds
<1>10. CASE PumpStep(e)
  BY <1>1, <1>2, <1>3, <1>10, RefuserPumps, RefuserFails DEF PumpStep, NetVars
<1>11. CASE ProcessDone(e)
  <2>1. PICK s \in {session[e], KeepPartial(session[e])} : session' = [session EXCEPT ![e] = s]
    BY <1>3, <1>11 DEF ProcessDone
  <2>2. s.hs = session[e].hs /\ s.outb = session[e].outb
    BY <1>1, <2>1, KeepPartialType
  <2> QED
    BY <1>1, <1>11, <2>1, <2>2, RefuserPumps DEF ProcessDone, NetVars
<1>12. CASE ProcessFlight(e) \/ ProcessFails(e)
  BY <1>12, RefuserAccepts, RefuserRefuses
<1>13. ~(ReadPlain(e) \/ ReadCloseNotify(e) \/ ReadError(e) \/ ReadNeedsMore(e)
         \/ WriteStep(e) \/ Use(e))
  BY <1>2 DEF ReadPlain, ReadCloseNotify, ReadError, ReadNeedsMore, WriteStep,
              Use, Read, Write, Flush, Close
<1> QED
  BY <1>4, <1>5, <1>6, <1>7, <1>8, <1>9, <1>10, <1>11, <1>12, <1>13 DEF Step

-----------------------------------------------------------------------------
(* A step of the end that is refused.                                      *)

LEMMA UnservedMoves ==
    ASSUME PumpInv, NEW e \in Endpoint, Unserved(e),
           NEW s, session' = [session EXCEPT ![e] = s], QuietInput(s),
           UNCHANGED << received, ended >>
    PROVE  Unserved(e)'
<1>1. session'[e] = s
  BY PumpAt DEF TypeOK
<1> QED
  BY <1>1 DEF Unserved

\* Whatever it does, it has received nothing.
LEMMA UnservedStays ==
    ASSUME PumpInv, NEW e \in Endpoint, Unserved(e), Quiet(chan[Peer(e)]),
           Step(e) \/ Use(e) \/ Crash(e)
    PROVE  Unserved(e)'
<1>1. session[e] \in NovaTlsSession /\ QuietInput(session[e])
      /\ session = [session EXCEPT ![e] = session[e]]
  BY PumpAt DEF Unserved
<1>2. CASE Crash(e) \/ EndClose(e) \/ \E error : FailHandshake(e, error)
  <2> DEFINE s == Freed
  <2>1. QuietInput(s)
    BY QuietSequences DEF QuietInput, Freed
  <2>2. session' = [session EXCEPT ![e] = s] /\ UNCHANGED << received, ended >>
    BY <1>2 DEF Crash, EndClose, FailHandshake, Release, HistoryVars
  <2> HIDE DEF s
  <2> QED
    BY <2>1, <2>2, UnservedMoves
<1>3. ASSUME session' = session, UNCHANGED << received, ended >>
      PROVE  Unserved(e)'
  BY <1>1, <1>3, UnservedMoves
<1>4. ASSUME NEW r \in Record, UNCHANGED << received, ended >>,
             session' = [session EXCEPT ![e] = SendRecord(@, r)]
      PROVE  Unserved(e)'
  <2> DEFINE s == SendRecord(session[e], r)
  <2>1. QuietInput(s)
    BY <1>1 DEF SendRecord, QuietInput, NovaTlsSession
  <2>2. session' = [session EXCEPT ![e] = s]
    BY <1>4
  <2> HIDE DEF s
  <2> QED
    BY <1>4, <2>1, <2>2, UnservedMoves
<1>5. CASE Use(e)
  BY <1>3, <1>4, <1>5, RecordsType
     DEF Use, Read, Write, Flush, Close, tls_send_close_notify, HistoryVars
<1>6. CASE FlushChunk(e)
  <2> DEFINE s == tls_write_tls(session[e])
  <2>1. QuietInput(s)
    BY <1>1 DEF tls_write_tls, QuietInput, NovaTlsSession
  <2>2. session' = [session EXCEPT ![e] = s] /\ UNCHANGED << received, ended >>
    BY <1>6 DEF FlushChunk, HistoryVars
  <2> HIDE DEF s
  <2> QED
    BY <2>1, <2>2, UnservedMoves
<1>7. CASE SendToTcp(e) \/ SendFails(e) \/ FlushDone(e) \/ FillEof(e) \/ FillFails(e) \/ PumpStep(e)
  BY <1>2, <1>3, <1>7 DEF SendToTcp, SendFails, FlushDone, FillEof, FillFails, FillEnds, PumpStep,
                          HistoryVars
<1>8. CASE FillFromTcp(e)
  <2>1. PICK n \in 1 .. Smaller(Chunk, Len(chan[Peer(e)])) :
          session' = [session EXCEPT ![e] = tls_read_tls(@, SubSeq(chan[Peer(e)], 1, n))]
    BY <1>8 DEF FillFromTcp
  <2> DEFINE s == tls_read_tls(session[e], SubSeq(chan[Peer(e)], 1, n))
  <2>2. n \in Nat /\ n <= Len(chan[Peer(e)])
    <3>1. Chunk \in Nat /\ Len(chan[Peer(e)]) \in Nat
      BY SessionAssumption DEF Quiet
    <3>2. Smaller(Chunk, Len(chan[Peer(e)])) <= Len(chan[Peer(e)])
          /\ Smaller(Chunk, Len(chan[Peer(e)])) \in Nat
      BY <3>1, SmallerProperties
    <3> QED
      BY <3>1, <3>2
  <2>3. Quiet(SubSeq(chan[Peer(e)], 1, n))
    BY <2>2, QuietSequences
  <2>4. Quiet(session[e].inb \o SubSeq(chan[Peer(e)], 1, n))
    BY <1>1, <2>3, QuietSequences DEF QuietInput
  <2>5. QuietInput(s)
    BY <1>1, <2>4 DEF tls_read_tls, QuietInput, NovaTlsSession
  <2>6. session' = [session EXCEPT ![e] = s] /\ UNCHANGED << received, ended >>
    BY <1>8, <2>1 DEF FillFromTcp, HistoryVars
  <2> HIDE DEF s
  <2> QED
    BY <2>5, <2>6, UnservedMoves
<1>9. CASE ProcessDone(e) \/ ReadNeedsMore(e)
  <2>1. PICK s \in {session[e], KeepPartial(session[e])} : session' = [session EXCEPT ![e] = s]
    BY <1>1, <1>9 DEF ProcessDone, ReadNeedsMore
  <2>2. QuietInput(s) /\ UNCHANGED << received, ended >>
    BY <1>1, <1>9, <2>1, QuietTake DEF ProcessDone, ReadNeedsMore, HistoryVars
  <2> QED
    BY <2>1, <2>2, UnservedMoves
<1>10. CASE ProcessFlight(e)
  <2> DEFINE s == AcceptFlight(session[e])
  <2>1. QuietInput(s)
    BY <1>1, <1>10, QuietAccept DEF ProcessFlight, tls_is_handshaking
  <2>2. session' = [session EXCEPT ![e] = s] /\ UNCHANGED << received, ended >>
    BY <1>10 DEF ProcessFlight, HistoryVars
  <2> HIDE DEF s
  <2> QED
    BY <2>1, <2>2, UnservedMoves
<1>11. CASE ProcessFails(e) \/ ReadError(e)
  <2> DEFINE taken == TakeRecord(session[e])
  <2>1. HasRecord(session[e])
    BY <1>11 DEF ProcessFails, ReadError
  <2>2. QuietInput(taken) /\ taken \in NovaTlsSession
    BY <1>1, <2>1, QuietTake, TakeRecordType
  <2>3. QuietInput(SendRecord(taken, Alert))
    <3> HIDE DEF taken
    <3> QED
      BY <2>2 DEF SendRecord, QuietInput, NovaTlsSession
  <2>4. PICK s \in {taken, SendRecord(taken, Alert)} : session' = [session EXCEPT ![e] = s]
    BY <1>11 DEF ProcessFails, ReadError
  <2>5. UNCHANGED << received, ended >>
    BY <1>11 DEF ProcessFails, ReadError, HistoryVars
  <2> HIDE DEF taken
  <2> QED
    BY <2>2, <2>3, <2>4, <2>5, UnservedMoves
<1>12. ~(ReadPlain(e) \/ ReadCloseNotify(e))
  BY <1>1, QuietRecord DEF ReadPlain, ReadCloseNotify, QuietInput
<1>13. CASE WriteStep(e)
  <2> DEFINE bytes == [i \in 1 .. Accepted(todo[e]) |-> written[e] + i]
  <2>1. /\ session' = [session EXCEPT ![e] = tls_write_plain(@, bytes)]
        /\ UNCHANGED << received, ended >>
    BY <1>13 DEF WriteStep
  <2> DEFINE s == tls_write_plain(session[e], bytes)
  <2>2. QuietInput(s)
    <3> HIDE DEF bytes
    <3> QED
      BY <1>1 DEF tls_write_plain, SendRecord, QuietInput, NovaTlsSession
  <2>3. session' = [session EXCEPT ![e] = s]
    BY <2>1
  <2> HIDE DEF s, bytes
  <2> QED
    BY <2>1, <2>2, <2>3, UnservedMoves
<1> QED
  BY <1>2, <1>5, <1>6, <1>7, <1>8, <1>9, <1>10, <1>11, <1>12, <1>13 DEF Step

-----------------------------------------------------------------------------
\* At the start the client has said ClientHello, and the server nothing.
LEMMA InitRefusal == Init => RefusalInv
<1> SUFFICES ASSUME Init, NEW e \in Endpoint, Refuses(e)
             PROVE  Refuser(e) /\ Unserved(Peer(e))
  BY DEF RefusalInv
<1> DEFINE start == [Freed EXCEPT !.hs = 1]
           hello == SendRecord(start, Flight(1))
<1>1. /\ QuietInput(Freed) /\ Quiet(Freed.outb) /\ Freed.hs = 0
      /\ QuietInput(hello) /\ Quiet(hello.outb) /\ hello.hs = 1
  <2>1. start = [hs |-> 1, left |-> <<>>, plain |-> <<>>, inb |-> <<>>, outb |-> <<>>]
    BY DEF Freed
  <2> HIDE DEF start
  <2>2. Quiet(<<>> \o Units(Flight(1)))
    BY QuietSequences
  <2> QED
    BY <2>1, <2>2, QuietSequences DEF Freed, SendRecord, QuietInput
<1>2. /\ session = [d \in Endpoint |-> IF d = "client" THEN hello ELSE Freed]
      /\ scratch = [d \in Endpoint |-> <<>>] /\ chan = [d \in Endpoint |-> <<>>]
      /\ result = [d \in Endpoint |-> "none"]
      /\ received = [d \in Endpoint |-> <<>>] /\ ended = [d \in Endpoint |-> FALSE]
  BY DEF Init
<1>3. Due(session[e])
  <2>1. refused \in Nat /\ refused # 0
    BY StreamAssumption, SessionAssumption DEF Init, Refuses
  <2>2. CASE e = "server"
    <3>1. refused % 2 = 1 /\ session[e].hs = 0
      BY <1>1, <1>2, <2>2 DEF Refuses
    <3>2. PICK k \in Nat : refused = 0 + 1 + 2 * k
      <4>1. refused \div 2 \in Nat /\ refused = 0 + 1 + 2 * (refused \div 2)
        BY <2>1, <3>1
      <4> QED
        BY <4>1
    <3> QED
      BY <3>1, <3>2 DEF Due
  <2>3. CASE e = "client"
    <3>1. refused % 2 = 0 /\ session[e].hs = 1
      BY <1>1, <1>2, <2>1, <2>3 DEF Refuses
    <3>2. PICK k \in Nat : refused = 1 + 1 + 2 * k
      <4>1. refused \div 2 - 1 \in Nat /\ refused = 1 + 1 + 2 * (refused \div 2 - 1)
        BY <2>1, <3>1
      <4> QED
        BY <4>1
    <3> QED
      BY <3>1, <3>2 DEF Due
  <2> QED
    BY <2>2, <2>3 DEF Endpoint
<1> HIDE DEF hello
<1>4. Refuser(e)
  BY <1>1, <1>2, <1>3, QuietSequences DEF Refuser
<1>5. Unserved(Peer(e))
  BY <1>1, <1>2, Pair DEF Unserved
<1> QED
  BY <1>4, <1>5

\* Every step keeps it.
LEMMA NextRefusal == PumpInv /\ RefusalInv /\ [Next]_vars => RefusalInv'
<1> SUFFICES ASSUME PumpInv, RefusalInv, [Next]_vars, NEW e \in Endpoint, Refuses(e)'
             PROVE  Refuser(e)' /\ Unserved(Peer(e))'
  BY DEF RefusalInv, Peer
<1> DEFINE p == Peer(e)
<1>1. p \in Endpoint /\ p # e /\ Peer(p) = e /\ Endpoint = {e, p} /\ p = Peer(e)
  BY Pair
<1> HIDE DEF p
<1>2. Refuses(e) => Refuser(e) /\ Unserved(p) /\ Quiet(chan[e])
  BY <1>1 DEF RefusalInv, Refuser
<1>3. ASSUME NEW d \in Endpoint, Step(d) \/ Use(d) \/ Crash(d)
      PROVE  Refuser(e)' /\ Unserved(p)'
  <2>1. Refuses(e)
    <3>1. PICK q \in Endpoint : q # d
      BY <1>1
    <3> QED
      BY <1>3, <3>1, BystanderKeeps
  <2>2. CASE d = e
    BY <1>1, <1>2, <1>3, <2>1, <2>2, RefuserStays, BystanderKeeps
  <2>3. CASE d = p
    BY <1>1, <1>2, <1>3, <2>1, <2>3, UnservedStays, BystanderKeeps
  <2> QED
    BY <1>1, <2>2, <2>3
<1>4. CASE ResetByPeer \/ TcpFault
  <2>1. /\ UNCHANGED << pc, session, scratch, result, refused, received, ended >>
        /\ chan'[e] = <<>>
    BY <1>4 DEF ResetByPeer, TcpFault, HistoryVars
  <2> QED
    BY <1>1, <1>2, <2>1, QuietSequences DEF Refuser, Unserved, Refuses, Due
<1>5. CASE UNCHANGED vars
  BY <1>1, <1>2, <1>5 DEF vars, Refuser, Unserved, Refuses, Due
<1> QED
  BY <1>1, <1>3, <1>4, <1>5 DEF Next

\* An end whose flight the peer refuses reads no byte and no clean end of
\* stream, even if its own handshake was over before the refusal reached it,
\* and the end that refuses never gets a stream (pump_handshake, tls_process,
\* tls_read_plain).
THEOREM NothingForTheRefused == Spec => []RefusedGetsNothing
<1>1. PumpInv /\ RefusalInv => RefusedGetsNothing
  <2> SUFFICES ASSUME PumpInv, RefusalInv, refused # 0,
                      NEW sender \in Endpoint,
                      sender = IF refused % 2 = 1 THEN "client" ELSE "server"
               PROVE  /\ received[sender] = <<>> /\ ~ended[sender]
                      /\ result[Peer(sender)] \in Error \cup {"none"}
                      /\ pc[Peer(sender)] # "idle"
    BY DEF RefusedGetsNothing, Endpoint
  <2> DEFINE e == Peer(sender)
  <2>1. e \in Endpoint /\ Peer(e) = sender /\ Refuses(e)
    BY DEF Endpoint, Peer, Refuses
  <2> HIDE DEF e
  <2>2. Refuser(e) /\ Unserved(sender)
    BY <2>1 DEF RefusalInv
  <2>3. pc[e] # "idle"
    BY <2>1, <2>2, StillHandshaking DEF Over
  <2> QED
    BY <2>2, <2>3 DEF Refuser, Unserved, e
<1> QED
  BY <1>1, PumpInvariance, InitRefusal, NextRefusal, PTL DEF Spec

-----------------------------------------------------------------------------
(***************************************************************************)
(* Proof that TlsStream implements SecureChannel, for every value of its   *)
(* constants: what an application reads is what the other wrote, in order  *)
(* and once, and the clean end is behind the last byte.                    *)
(*                                                                         *)
(* For each direction there is a log of the records the session of the     *)
(* writer sealed (never a variable: the invariant says that there is one). *)
(* The five queues between writer and reader hold its records from the     *)
(* k-th on, each queue where the one before it ends, and what the reader's *)
(* application has, with what is decrypted for it, is what the first k     *)
(* carry.  Cutting, joining and moving the units of a queue keep this      *)
(* (Carries), so no bound on chunks, records or windows is needed.         *)
(***************************************************************************)

-----------------------------------------------------------------------------
(* A queue whose first unit is unit o + 1 of the records of a log.         *)

HeaderOf(r) == [rec |-> r, part |-> "header"]
BodyOf(r) == [rec |-> r, part |-> "body"]

Carries(log, queue, o) ==
    /\ o + Len(queue) <= 2 * Len(log)
    /\ \A i \in 1 .. Len(queue), m \in 1 .. Len(log) :
          /\ o + i = 2 * m - 1 => queue[i] = HeaderOf(log[m])
          /\ o + i = 2 * m => queue[i] = BodyOf(log[m])

\* An empty queue carries nothing, wherever it stands.
LEMMA CarriesNothing ==
    ASSUME NEW log \in Seq(Record), NEW o \in Nat, o <= 2 * Len(log)
    PROVE  Carries(log, <<>>, o)
BY DEF Carries

\* Two queues, one behind the other, are one.
LEMMA CarriesJoin ==
    ASSUME NEW log \in Seq(Record), NEW o \in Nat, NEW a \in Seq(Unit), NEW b \in Seq(Unit),
           Carries(log, a, o), Carries(log, b, o + Len(a))
    PROVE  Carries(log, a \o b, o)
<1>1. /\ Len(a) \in Nat /\ Len(b) \in Nat /\ Len(a \o b) = Len(a) + Len(b)
      /\ \A i \in 1 .. Len(a) + Len(b) :
            (a \o b)[i] = IF i <= Len(a) THEN a[i] ELSE b[i - Len(a)]
  BY ConcatProperties
<1>2. Len(log) \in Nat
  OBVIOUS
<1>3. ASSUME NEW i \in 1 .. Len(a \o b), NEW m \in 1 .. Len(log)
      PROVE  /\ o + i = 2 * m - 1 => (a \o b)[i] = HeaderOf(log[m])
             /\ o + i = 2 * m => (a \o b)[i] = BodyOf(log[m])
  <2>1. CASE i <= Len(a)
    BY <1>1, <1>2, <2>1 DEF Carries
  <2>2. CASE i > Len(a)
    <3> DEFINE j == i - Len(a)
    <3>1. j \in 1 .. Len(b) /\ (o + Len(a)) + j = o + i /\ (a \o b)[i] = b[j]
      BY <1>1, <2>2
    <3> HIDE DEF j
    <3>2. /\ (o + Len(a)) + j = 2 * m - 1 => b[j] = HeaderOf(log[m])
          /\ (o + Len(a)) + j = 2 * m => b[j] = BodyOf(log[m])
      BY <3>1 DEF Carries
    <3> QED
      BY <3>1, <3>2
  <2> QED
    BY <1>1, <2>1, <2>2, SMTT(60)
<1> QED
  BY <1>1, <1>2, <1>3 DEF Carries

\* A queue can be cut in two.
LEMMA CarriesCut ==
    ASSUME NEW log \in Seq(Record), NEW o \in Nat, NEW a \in Seq(Unit), NEW n \in Nat,
           n <= Len(a), Carries(log, a, o)
    PROVE  /\ Carries(log, SubSeq(a, 1, n), o)
           /\ Carries(log, SubSeq(a, n + 1, Len(a)), o + n)
<1>1. Len(a) \in Nat /\ Len(log) \in Nat
  OBVIOUS
<1>2. /\ Len(SubSeq(a, 1, n)) = n /\ Len(SubSeq(a, n + 1, Len(a))) = Len(a) - n
      /\ SubSeq(a, 1, n) \in Seq(Unit) /\ SubSeq(a, n + 1, Len(a)) \in Seq(Unit)
  BY Cut
<1>3. /\ \A i \in 1 .. n : SubSeq(a, 1, n)[i] = a[i]
      /\ \A i \in 1 .. Len(a) - n : SubSeq(a, n + 1, Len(a))[i] = a[n + i]
  BY <1>1
<1>4. Carries(log, SubSeq(a, 1, n), o)
  <2>1. o + n <= 2 * Len(log) /\ \A i \in 1 .. n : i \in 1 .. Len(a)
    BY <1>1 DEF Carries
  <2>2. ASSUME NEW i \in 1 .. n, NEW m \in 1 .. Len(log)
        PROVE  /\ o + i = 2 * m - 1 => SubSeq(a, 1, n)[i] = HeaderOf(log[m])
               /\ o + i = 2 * m => SubSeq(a, 1, n)[i] = BodyOf(log[m])
    BY <1>3, <2>1 DEF Carries
  <2> QED
    BY <1>2, <2>1, <2>2 DEF Carries
<1>5. Carries(log, SubSeq(a, n + 1, Len(a)), o + n)
  <2>1. ASSUME NEW i \in 1 .. Len(a) - n, NEW m \in 1 .. Len(log)
        PROVE  /\ (o + n) + i = 2 * m - 1 => a[n + i] = HeaderOf(log[m])
               /\ (o + n) + i = 2 * m => a[n + i] = BodyOf(log[m])
    <3>1. n + i \in 1 .. Len(a) /\ (o + n) + i = o + (n + i)
      BY <1>1
    <3> QED
      BY <3>1 DEF Carries
  <2>2. (o + n) + (Len(a) - n) <= 2 * Len(log)
    BY <1>1 DEF Carries
  <2> QED
    BY <1>1, <1>2, <1>3, <2>1, <2>2 DEF Carries
<1> QED
  BY <1>4, <1>5

\* A longer log carries what a shorter one did, and the units of its last
\* record behind that.
LEMMA CarriesAppend ==
    ASSUME NEW log \in Seq(Record), NEW r \in Record
    PROVE  /\ Append(log, r) \in Seq(Record) /\ Len(Append(log, r)) = Len(log) + 1
           /\ Append(log, r)[Len(log) + 1] = r
           /\ \A i \in 1 .. Len(log) : Append(log, r)[i] = log[i]
           /\ \A a \in Seq(Unit), o \in Nat : Carries(log, a, o) => Carries(Append(log, r), a, o)
           /\ Carries(Append(log, r), Units(r), 2 * Len(log))
<1> DEFINE longer == Append(log, r)
<1>1. /\ longer \in Seq(Record) /\ Len(longer) = Len(log) + 1 /\ Len(log) \in Nat
      /\ longer[Len(log) + 1] = r /\ \A i \in 1 .. Len(log) : longer[i] = log[i]
  BY AppendProperties
<1> HIDE DEF longer
<1>2. ASSUME NEW a \in Seq(Unit), NEW o \in Nat, Carries(log, a, o) PROVE Carries(longer, a, o)
  <2>1. Len(a) \in Nat /\ o + Len(a) <= 2 * Len(log)
    BY <1>2 DEF Carries
  <2>2. ASSUME NEW i \in 1 .. Len(a), NEW m \in 1 .. Len(longer)
        PROVE  /\ o + i = 2 * m - 1 => a[i] = HeaderOf(longer[m])
               /\ o + i = 2 * m => a[i] = BodyOf(longer[m])
    <3>1. CASE m \in 1 .. Len(log)
      BY <1>1, <1>2, <3>1 DEF Carries
    <3>2. CASE m = Len(log) + 1
      BY <1>1, <2>1, <3>2
    <3> QED
      BY <1>1, <3>1, <3>2
  <2> QED
    BY <1>1, <2>1, <2>2 DEF Carries
<1>3. Carries(longer, Units(r), 2 * Len(log))
  <2>1. Len(Units(r)) = 2 /\ Units(r)[1] = HeaderOf(r) /\ Units(r)[2] = BodyOf(r)
    BY DEF Units, HeaderOf, BodyOf
  <2> QED
    BY <1>1, <2>1 DEF Carries
<1> QED
  BY <1>1, <1>2, <1>3 DEF longer

-----------------------------------------------------------------------------
(* What the reader has of a log: its input, from record k + 1 on.          *)

Arrives(log, k, s) ==
    /\ Carries(log, s.left, 2 * k)
    /\ Carries(log, s.inb, 2 * k + Len(s.left))

LEMMA FetchedArrives ==
    ASSUME NEW log \in Seq(Record), NEW k \in Nat, NEW s \in NovaTlsSession
    PROVE  /\ Arrives(log, k, s) => Carries(log, Fetched(s), 2 * k)
           /\ Len(Fetched(s)) = Incoming(s) /\ Incoming(s) \in Nat
<1>1. s.left \in Seq(Unit) /\ s.inb \in Seq(Unit) /\ 2 * k \in Nat
  BY DEF NovaTlsSession
<1>2. Len(Fetched(s)) = Incoming(s)
  BY <1>1, ConcatProperties DEF Fetched, Incoming
<1>3. Arrives(log, k, s) => Carries(log, Fetched(s), 2 * k)
  BY <1>1, CarriesJoin DEF Arrives, Fetched
<1> QED
  BY <1>2, <1>3, Counts

\* mbedTLS decrypts the next record of the log, and no other.
LEMMA NextOfLog ==
    ASSUME NEW log \in Seq(Record), NEW k \in Nat, NEW s \in NovaTlsSession,
           Arrives(log, k, s), HasRecord(s)
    PROVE  /\ k + 1 <= Len(log) /\ NextRecord(s) = log[k + 1]
           /\ Arrives(log, k + 1, TakeRecord(s))
           /\ Incoming(TakeRecord(s)) = Incoming(s) - 2
<1> DEFINE f == Fetched(s)
<1>1. f \in Seq(Unit) /\ Len(f) \in Nat /\ Len(f) >= 2 /\ Carries(log, f, 2 * k)
  BY FetchedType, FetchedArrives DEF HasRecord
<1>2. k + 1 <= Len(log) /\ Len(log) \in Nat
  BY <1>1 DEF Carries
<1>3. f[1] = HeaderOf(log[k + 1]) /\ f[2] = BodyOf(log[k + 1])
  <2>1. /\ 1 \in 1 .. Len(f) /\ 2 \in 1 .. Len(f) /\ k + 1 \in 1 .. Len(log)
        /\ 2 * k + 1 = 2 * (k + 1) - 1 /\ 2 * k + 2 = 2 * (k + 1)
    BY <1>1, <1>2
  <2> HIDE DEF f
  <2> QED
    BY <1>1, <2>1 DEF Carries
<1>4. NextRecord(s) = log[k + 1]
  BY <1>3 DEF NextRecord, HeaderOf, BodyOf
<1>5. Arrives(log, k + 1, TakeRecord(s))
  <2>1. Carries(log, SubSeq(f, 3, Len(f)), 2 * (k + 1))
    <3> HIDE DEF f
    <3>1. Carries(log, SubSeq(f, 2 + 1, Len(f)), 2 * k + 2) /\ 2 * k \in Nat
      BY <1>1, CarriesCut
    <3>2. 2 * k + 2 = 2 * (k + 1) /\ 2 + 1 = 3
      OBVIOUS
    <3> QED
      BY <3>1, <3>2
  <2>2. /\ TakeRecord(s).left = <<>> /\ TakeRecord(s).inb = SubSeq(f, 3, Len(f))
        /\ 2 * (k + 1) \in Nat /\ 2 * (k + 1) <= 2 * Len(log)
        /\ 2 * (k + 1) + Len(<<>>) = 2 * (k + 1)
    BY <1>2 DEF TakeRecord, NovaTlsSession
  <2> QED
    BY <2>1, <2>2, CarriesNothing DEF Arrives
<1> QED
  BY <1>2, <1>4, <1>5, TakeCounts

\* What is less than a record stays where it was in the log.
LEMMA KeepArrives ==
    ASSUME NEW log \in Seq(Record), NEW k \in Nat, NEW s \in NovaTlsSession, Arrives(log, k, s)
    PROVE  Arrives(log, k, KeepPartial(s)) /\ Incoming(KeepPartial(s)) = Incoming(s)
<1>1. /\ Carries(log, Fetched(s), 2 * k) /\ Len(Fetched(s)) = Incoming(s)
      /\ Incoming(s) \in Nat
  BY FetchedArrives
<1>2. KeepPartial(s).left = Fetched(s) /\ KeepPartial(s).inb = <<>>
  BY DEF KeepPartial, NovaTlsSession
<1>3. 2 * k + Len(Fetched(s)) <= 2 * Len(log)
  BY <1>1 DEF Carries
<1>4. Carries(log, <<>>, 2 * k + Len(Fetched(s)))
  BY <1>1, <1>3, CarriesNothing
<1> QED
  BY <1>1, <1>2, <1>4, TakeCounts DEF Arrives

\* What Net.read takes from TCP continues what the session has.
LEMMA FillArrives ==
    ASSUME NEW log \in Seq(Record), NEW k \in Nat, NEW s \in NovaTlsSession, Arrives(log, k, s),
           NEW queue \in Seq(Unit), Carries(log, queue, 2 * k + Incoming(s)),
           NEW n \in Nat, n <= Len(queue)
    PROVE  LET filled == tls_read_tls(s, SubSeq(queue, 1, n))
           IN  /\ Arrives(log, k, filled)
               /\ Incoming(filled) = Incoming(s) + n
               /\ Carries(log, SubSeq(queue, n + 1, Len(queue)), 2 * k + Incoming(filled))
<1> DEFINE o == 2 * k + Len(s.left)
           taken == SubSeq(queue, 1, n)
           filled == tls_read_tls(s, taken)
<1>1. /\ s.left \in Seq(Unit) /\ s.inb \in Seq(Unit) /\ Len(s.left) \in Nat /\ Len(s.inb) \in Nat
      /\ o \in Nat /\ o + Len(s.inb) = 2 * k + Incoming(s) /\ 2 * k + Incoming(s) \in Nat
  BY DEF NovaTlsSession, Incoming
<1>2. /\ Carries(log, taken, 2 * k + Incoming(s))
      /\ Carries(log, SubSeq(queue, n + 1, Len(queue)), (2 * k + Incoming(s)) + n)
      /\ taken \in Seq(Unit) /\ Len(taken) = n
  BY <1>1, CarriesCut, Cut
<1> HIDE DEF taken
<1>3. Carries(log, s.inb \o taken, o)
  <2> HIDE DEF o
  <2>1. Carries(log, s.inb, o) /\ Carries(log, taken, o + Len(s.inb))
    BY <1>1, <1>2 DEF Arrives, o
  <2> QED
    BY <1>1, <1>2, <2>1, CarriesJoin
<1>4. filled.left = s.left /\ filled.inb = s.inb \o taken
  BY DEF tls_read_tls, NovaTlsSession
<1>5. Arrives(log, k, filled)
  BY <1>3, <1>4 DEF Arrives
<1>6. Incoming(filled) = Incoming(s) + n
  BY <1>2, ReadTlsCounts
<1>7. (2 * k + Incoming(s)) + n = 2 * k + Incoming(filled)
  BY <1>1, <1>6, FetchedArrives
<1> QED
  BY <1>2, <1>5, <1>6, <1>7 DEF taken

-----------------------------------------------------------------------------
(* What a log says, and how far the reader has come.                       *)

\* Record i starts behind the first start[i] of the n bytes written; only the
\* last word is a close_notify.
Tells(log, start, n, closed) ==
    /\ log \in Seq(Record) /\ start \in Seq(Nat) /\ Len(start) = Len(log) + 1
    /\ start[Len(log) + 1] = n
    /\ \A i \in 1 .. Len(log) + 1 : start[i] <= n
    /\ \A i \in 1 .. Len(log) :
          IF log[i].type = "data"
          THEN /\ start[i + 1] = start[i] + Len(log[i].val)
               /\ \A j \in 1 .. Len(log[i].val) : log[i].val[j] = start[i] + j
          ELSE start[i + 1] = start[i]
    /\ \A i \in 1 .. Len(log) : log[i].type = "close_notify" => closed /\ start[i] = n

\* A writer's scratch and out_buf hold the rest of the log, from unit at + 1.
Behind(log, at, x, s) ==
    /\ Carries(log, x, at)
    /\ Carries(log, s.outb, at + Len(x))
    /\ at + Len(x) + Len(s.outb) = 2 * Len(log)

\* Bytes with no gap and no repetition, from the first on.
InOrder(got) == \A i \in 1 .. Len(got) : got[i] = i

\* What is decrypted continues what the application has.
Continues(at, s, got) ==
    /\ Len(got) + Len(s.plain) = at
    /\ \A j \in 1 .. Len(s.plain) : s.plain[j] = Len(got) + j

Reads(k, s) == 2 * k + Incoming(s)

Pipe(e, p, log, k) ==
    pc[p] \notin Over =>
        /\ Arrives(log, k, session[p])
        /\ Carries(log, chan[e], Reads(k, session[p]))
        /\ pc[e] \notin Over /\ ~broken =>
              Behind(log, Reads(k, session[p]) + Len(chan[e]), scratch[e], session[e])

\* The session of e has sealed log, of which p has decrypted k records.
Story(e, p, log, start, k) ==
    /\ Tells(log, start, written[e], notified[e])
    /\ k \in 0 .. Len(log)
    /\ Pipe(e, p, log, k)
    /\ pc[p] \notin Over /\ call[p] # "alert" =>
          Continues(start[k + 1], session[p], received[p])

Told(e, p) ==
    \E log \in Seq(Record), start \in Seq(Nat), k \in Nat : Story(e, p, log, start, k)

\* What the two applications know.
Facts(e, p) ==
    /\ InOrder(received[e])
    /\ Len(received[e]) <= written[p]
    /\ ended[e] => notified[p] /\ Len(received[e]) = written[p]
    /\ notified[e] => pc[e] \in Over \/ call[e] = "close"
    /\ written[e] + todo[e] <= MaxBytes

ChannelInv == \A e \in Endpoint : Told(e, Peer(e)) /\ Facts(e, Peer(e))

-----------------------------------------------------------------------------
(* Sealing a record.                                                       *)

LEMMA TellsMore ==
    ASSUME NEW log \in Seq(Record), NEW start \in Seq(Nat), NEW n \in Nat, NEW closed \in BOOLEAN,
           Tells(log, start, n, closed),
           NEW r \in Record, NEW m \in Nat, NEW end \in BOOLEAN,
           closed => end /\ m = n,
           n <= m,
           r.type = "data" => m = n + Len(r.val) /\ \A j \in 1 .. Len(r.val) : r.val[j] = n + j,
           r.type # "data" => m = n,
           r.type = "close_notify" => end
    PROVE  Tells(Append(log, r), Append(start, m), m, end)
<1> DEFINE longer == Append(log, r)
           starts == Append(start, m)
<1>1. /\ longer \in Seq(Record) /\ Len(longer) = Len(log) + 1 /\ Len(log) \in Nat
      /\ longer[Len(log) + 1] = r /\ \A i \in 1 .. Len(log) : longer[i] = log[i]
  BY AppendProperties
<1>2. /\ starts \in Seq(Nat) /\ Len(starts) = Len(log) + 2 /\ Len(start) = Len(log) + 1
      /\ starts[Len(log) + 2] = m /\ \A i \in 1 .. Len(log) + 1 : starts[i] = start[i]
  BY <1>1, AppendProperties DEF Tells
<1> HIDE DEF longer, starts
<1>3. start[Len(log) + 1] = n /\ \A i \in 1 .. Len(log) + 1 : start[i] <= n /\ start[i] \in Nat
  BY <1>1, <1>2 DEF Tells
<1>4. \A i \in 1 .. Len(longer) + 1 : starts[i] <= m
  <2> SUFFICES ASSUME NEW i \in 1 .. Len(longer) + 1 PROVE starts[i] <= m
    OBVIOUS
  <2>1. CASE i = Len(log) + 2
    BY <1>2, <2>1
  <2>2. CASE i \in 1 .. Len(log) + 1
    BY <1>2, <1>3, <2>2
  <2> QED
    BY <1>1, <2>1, <2>2
<1>5. ASSUME NEW i \in 1 .. Len(longer)
      PROVE  /\ IF longer[i].type = "data"
                THEN /\ starts[i + 1] = starts[i] + Len(longer[i].val)
                     /\ \A j \in 1 .. Len(longer[i].val) : longer[i].val[j] = starts[i] + j
                ELSE starts[i + 1] = starts[i]
             /\ longer[i].type = "close_notify" => end /\ starts[i] = m
  <2>1. CASE i = Len(log) + 1
    <3>1. longer[i] = r /\ starts[i] = n /\ starts[i + 1] = m
      <4>1. i + 1 = Len(log) + 2 /\ i \in 1 .. Len(log) + 1
        BY <1>1, <2>1
      <4> QED
        BY <1>1, <1>2, <1>3, <2>1, <4>1
    <3> QED
      BY <3>1
  <2>2. CASE i \in 1 .. Len(log)
    <3>1. longer[i] = log[i] /\ starts[i] = start[i] /\ starts[i + 1] = start[i + 1]
      <4>1. i \in 1 .. Len(log) + 1 /\ i + 1 \in 1 .. Len(log) + 1
        BY <1>1, <2>2
      <4>2. longer[i] = log[i]
        BY <1>1, <2>2
      <4> QED
        BY <1>2, <4>1, <4>2
    <3>2. /\ IF log[i].type = "data"
             THEN /\ start[i + 1] = start[i] + Len(log[i].val)
                  /\ \A j \in 1 .. Len(log[i].val) : log[i].val[j] = start[i] + j
             ELSE start[i + 1] = start[i]
          /\ log[i].type = "close_notify" => closed /\ start[i] = n
      BY <2>2 DEF Tells
    <3> QED
      BY <3>1, <3>2
  <2> QED
    BY <1>1, <2>1, <2>2
<1>6. starts[Len(longer) + 1] = m /\ Len(starts) = Len(longer) + 1
  BY <1>1, <1>2
<1> QED
  BY <1>1, <1>2, <1>4, <1>5, <1>6 DEF Tells, longer, starts

\* Its units go behind those that are there.
LEMMA BehindMore ==
    ASSUME NEW log \in Seq(Record), NEW r \in Record, NEW at \in Nat,
           NEW x \in Seq(Unit), NEW s \in NovaTlsSession, Behind(log, at, x, s)
    PROVE  Behind(Append(log, r), at, x, SendRecord(s, r))
<1>1. /\ Units(r) \in Seq(Unit) /\ Len(Units(r)) = 2
      /\ Len(x) \in Nat /\ Len(s.outb) \in Nat /\ Len(log) \in Nat
      /\ s.outb \in Seq(Unit)
  BY UnitsType DEF Units, NovaTlsSession
<1> DEFINE longer == Append(log, r)
           o == at + Len(x)
           t == SendRecord(s, r)
<1>2. /\ longer \in Seq(Record) /\ Len(longer) = Len(log) + 1
      /\ Carries(longer, x, at) /\ Carries(longer, s.outb, o)
      /\ Carries(longer, Units(r), 2 * Len(log))
  BY <1>1, CarriesAppend DEF Behind
<1>3. o \in Nat /\ o + Len(s.outb) = 2 * Len(log)
  BY <1>1 DEF Behind, NovaTlsSession
<1> HIDE DEF longer, t
<1>4. Carries(longer, t.outb, o) /\ Len(t.outb) = Len(s.outb) + 2
  <2> HIDE DEF o
  <2>0. t.outb = s.outb \o Units(r)
    BY DEF t, SendRecord, NovaTlsSession
  <2>1. Carries(longer, Units(r), o + Len(s.outb))
    BY <1>2, <1>3
  <2>2. Carries(longer, s.outb \o Units(r), o)
    BY <1>1, <1>2, <1>3, <2>1, CarriesJoin
  <2>3. Len(s.outb \o Units(r)) = Len(s.outb) + Len(Units(r))
    BY <1>1, ConcatProperties
  <2> QED
    BY <1>1, <2>0, <2>2, <2>3
<1>5. o + Len(t.outb) = 2 * Len(longer)
  <2> DEFINE before == Len(s.outb)  after == Len(t.outb)
  <2>1. before \in Nat /\ after = before + 2 /\ o + before = 2 * Len(log) /\ o \in Nat
    BY <1>1, <1>3, <1>4
  <2> HIDE DEF before, after, o
  <2>2. Len(log) \in Nat /\ Len(longer) = Len(log) + 1
    BY <1>1, <1>2
  <2>3. o + after = 2 * Len(longer)
    BY <2>1, <2>2
  <2> QED
    BY <2>3 DEF after
<1> QED
  BY <1>2, <1>4, <1>5 DEF Behind, longer, t

-----------------------------------------------------------------------------
(* Moving what is sealed towards TCP.                                      *)

\* flush_out takes a chunk.
LEMMA BehindChunk ==
    ASSUME NEW log \in Seq(Record), NEW at \in Nat, NEW s \in NovaTlsSession,
           Behind(log, at, <<>>, s)
    PROVE  Behind(log, at, Dequeued(s), tls_write_tls(s))
<1> DEFINE n == WriteSize(s)
<1>1. s.outb \in Seq(Unit) /\ Len(s.outb) \in Nat
  BY DEF NovaTlsSession
<1>2. n \in Nat /\ n <= Len(s.outb)
  BY <1>1, SmallerProperties, SessionAssumption DEF WriteSize
<1>3. Carries(log, s.outb, at) /\ at + Len(s.outb) = 2 * Len(log)
  <2>1. Len(<<>>) = 0 /\ at + 0 = at
    OBVIOUS
  <2> QED
    BY <2>1 DEF Behind
<1> HIDE DEF n
<1>4. /\ Carries(log, SubSeq(s.outb, 1, n), at)
      /\ Carries(log, SubSeq(s.outb, n + 1, Len(s.outb)), at + n)
      /\ Len(SubSeq(s.outb, 1, n)) = n
      /\ Len(SubSeq(s.outb, n + 1, Len(s.outb))) = Len(s.outb) - n
  BY <1>1, <1>2, <1>3, CarriesCut, Cut
<1>5. /\ tls_write_tls(s).outb = SubSeq(s.outb, n + 1, Len(s.outb))
      /\ Dequeued(s) = SubSeq(s.outb, 1, n)
  BY DEF tls_write_tls, Dequeued, NovaTlsSession, n
<1>6. at + n + (Len(s.outb) - n) = 2 * Len(log)
  <2>1. \A a, b, c \in Nat : a + b + (c - b) = a + c
    OBVIOUS
  <2> QED
    BY <1>1, <1>2, <1>3, <2>1
<1> QED
  BY <1>4, <1>5, <1>6 DEF Behind

\* tcp.write_all hands TCP a part of it.
LEMMA BehindSent ==
    ASSUME NEW log \in Seq(Record), NEW o \in Nat, NEW c \in Seq(Unit), NEW x \in Seq(Unit),
           NEW s, NEW k \in Nat, k <= Len(x),
           Carries(log, c, o), Behind(log, o + Len(c), x, s)
    PROVE  /\ Carries(log, c \o SubSeq(x, 1, k), o)
           /\ Behind(log, o + Len(c \o SubSeq(x, 1, k)), SubSeq(x, k + 1, Len(x)), s)
<1> DEFINE part == SubSeq(x, 1, k)
           rest == SubSeq(x, k + 1, Len(x))
           at == o + Len(c)
<1>1. Len(c) \in Nat /\ Len(x) \in Nat /\ at \in Nat
  OBVIOUS
<1>2. /\ Carries(log, x, at) /\ Carries(log, s.outb, at + Len(x))
      /\ at + Len(x) + Len(s.outb) = 2 * Len(log)
  BY DEF Behind
<1>3. /\ Carries(log, part, at) /\ Carries(log, rest, at + k)
      /\ part \in Seq(Unit) /\ rest \in Seq(Unit) /\ Len(part) = k /\ Len(rest) = Len(x) - k
  <2> HIDE DEF at
  <2> QED
    BY <1>1, <1>2, CarriesCut, Cut
<1> HIDE DEF part, rest
<1>4. Carries(log, c \o part, o) /\ Len(c \o part) = Len(c) + k
  BY <1>3, CarriesJoin, ConcatProperties
<1>5. o + Len(c \o part) = at + k /\ at + k + Len(rest) = at + Len(x)
  BY <1>1, <1>3, <1>4
<1> QED
  BY <1>2, <1>3, <1>4, <1>5 DEF Behind, part, rest

-----------------------------------------------------------------------------
(* What a reader makes of a record.                                        *)

\* A data record read continues what the application has; others add nothing.
LEMMA ReadsOn ==
    ASSUME NEW log \in Seq(Record), NEW start \in Seq(Nat), NEW n \in Nat, NEW closed,
           Tells(log, start, n, closed), NEW k \in Nat, k + 1 <= Len(log),
           NEW s, NEW t, NEW got \in Seq(Nat), Continues(start[k + 1], s, got),
           \/ log[k + 1].type # "data" /\ t.plain = s.plain
           \/ log[k + 1].type = "data" /\ s.plain = <<>> /\ t.plain = log[k + 1].val
    PROVE  Continues(start[k + 2], t, got)
<1>1. k + 1 \in 1 .. Len(log) /\ k + 1 + 1 = k + 2
  OBVIOUS
<1>2. IF log[k + 1].type = "data"
      THEN /\ start[k + 2] = start[k + 1] + Len(log[k + 1].val)
           /\ \A j \in 1 .. Len(log[k + 1].val) : log[k + 1].val[j] = start[k + 1] + j
      ELSE start[k + 2] = start[k + 1]
  BY <1>1 DEF Tells
<1>3. CASE log[k + 1].type # "data" /\ t.plain = s.plain
  BY <1>2, <1>3 DEF Continues
<1>4. CASE log[k + 1].type = "data" /\ s.plain = <<>> /\ t.plain = log[k + 1].val
  <2>1. Len(got) = start[k + 1]
    <3>1. Len(got) + Len(<<>>) = start[k + 1] /\ Len(got) \in Nat /\ Len(<<>>) = 0
      BY <1>4 DEF Continues
    <3> QED
      BY <3>1
  <2> QED
    BY <1>2, <1>4, <2>1 DEF Continues
<1> QED
  BY <1>3, <1>4

\* The application is handed the first bytes of what is decrypted.
LEMMA HandsOut ==
    ASSUME NEW s \in NovaTlsSession, NEW got \in Seq(Nat), NEW at \in Nat, NEW cap \in Nat,
           Continues(at, s, got), InOrder(got)
    PROVE  LET more == got \o HandedOut(s, cap)
           IN  /\ Continues(at, HandOut(s, cap), more)
               /\ InOrder(more)
               /\ Len(more) <= at /\ more \in Seq(Nat)
<1> DEFINE m == Smaller(cap, Len(s.plain))
           head == SubSeq(s.plain, 1, m)
           tail == SubSeq(s.plain, m + 1, Len(s.plain))
           more == got \o head
<1>1. s.plain \in Seq(Nat) /\ Len(s.plain) \in Nat /\ Len(got) \in Nat
  BY DEF NovaTlsSession
<1>2. m \in Nat /\ m <= Len(s.plain)
  BY <1>1, SmallerProperties
<1>3. HandedOut(s, cap) = head /\ HandOut(s, cap).plain = tail
  BY DEF HandedOut, HandOut, NovaTlsSession
<1> HIDE DEF m
<1>4. /\ head \in Seq(Nat) /\ tail \in Seq(Nat) /\ Len(head) = m /\ Len(tail) = Len(s.plain) - m
      /\ \A i \in 1 .. m : head[i] = s.plain[i]
      /\ \A i \in 1 .. Len(s.plain) - m : tail[i] = s.plain[m + i]
  <2>1. /\ head \in Seq(Nat) /\ tail \in Seq(Nat) /\ Len(head) = m /\ Len(tail) = Len(s.plain) - m
    BY <1>1, <1>2, Cut, ZenonT(60)
  <2>2. /\ \A i \in 1 .. m : head[i] = s.plain[i]
        /\ \A i \in 1 .. Len(s.plain) - m : tail[i] = s.plain[m + i]
    BY <1>1, <1>2
  <2> QED
    BY <2>1, <2>2
<1> HIDE DEF head, tail
<1>5. /\ more \in Seq(Nat) /\ Len(more) = Len(got) + m
      /\ \A i \in 1 .. Len(got) + m : more[i] = IF i <= Len(got) THEN got[i] ELSE head[i - Len(got)]
  <2>1. /\ more \in Seq(Nat) /\ Len(more) = Len(got) + Len(head)
        /\ \A i \in 1 .. Len(got) + Len(head) :
               more[i] = IF i <= Len(got) THEN got[i] ELSE head[i - Len(got)]
    <3>1. got \in Seq(Nat) /\ head \in Seq(Nat)
      BY <1>4
    <3> QED
      BY <3>1, ConcatProperties
  <2>2. Len(head) = m
    BY <1>4
  <2> HIDE DEF more
  <2> QED
    BY <2>1, <2>2
<1> HIDE DEF more
<1>6. /\ Len(got) + Len(s.plain) = at
      /\ \A j \in 1 .. Len(s.plain) : s.plain[j] = Len(got) + j
  BY DEF Continues
<1>7. ASSUME NEW i \in 1 .. Len(more) PROVE more[i] = i
  <2>1. CASE i <= Len(got)
    <3>1. i \in 1 .. Len(got) /\ more[i] = got[i]
      BY <1>1, <1>2, <1>5, <2>1
    <3> QED
      BY <3>1 DEF InOrder
  <2>2. CASE i > Len(got)
    <3> DEFINE j == i - Len(got)
    <3>1. /\ j \in 1 .. m /\ j \in 1 .. Len(s.plain) /\ Len(got) + j = i
          /\ more[i] = head[j]
      BY <1>1, <1>2, <1>5, <2>2
    <3> HIDE DEF j
    <3>2. head[j] = s.plain[j] /\ s.plain[j] = Len(got) + j
      BY <1>4, <1>6, <3>1
    <3> QED
      BY <3>1, <3>2
  <2> QED
    BY <1>1, <1>2, <1>5, <2>1, <2>2
<1>8. Len(more) + Len(tail) = at
  <2>1. Len(got) \in Nat /\ Len(s.plain) \in Nat /\ m \in Nat
    BY <1>1, <1>2
  <2> \A a, b, c \in Nat : (a + c) + (b - c) = a + b
    OBVIOUS
  <2>2. (Len(got) + m) + (Len(s.plain) - m) = Len(got) + Len(s.plain)
    BY <2>1, ZenonT(60)
  <2>3. Len(more) = Len(got) + m /\ Len(tail) = Len(s.plain) - m
    BY <1>4, <1>5
  <2> QED
    BY <1>6, <2>2, <2>3
<1>9. ASSUME NEW j \in 1 .. Len(tail) PROVE tail[j] = Len(more) + j
  <2>1. m + j \in 1 .. Len(s.plain) /\ Len(got) + (m + j) = Len(more) + j
    BY <1>1, <1>2, <1>4, <1>5
  <2> QED
    BY <1>4, <1>6, <2>1
<1>10. Len(more) <= at
  BY <1>1, <1>2, <1>5, <1>6
<1> QED
  BY <1>3, <1>5, <1>7, <1>8, <1>9, <1>10 DEF Continues, InOrder, more

-----------------------------------------------------------------------------
(* One step, seen from the direction in which the end that takes it writes. *)

\* The end p does not move.
Still(p) ==
    /\ pc'[p] = pc[p] /\ call'[p] = call[p]
    /\ session'[p] = session[p] /\ received'[p] = received[p]

\* What log carries, longer does.
Extends(log, longer) ==
    /\ Len(log) <= Len(longer)
    /\ \A a \in Seq(Unit), o \in Nat : Carries(log, a, o) => Carries(longer, a, o)

\* The queues of e held the end of log, and now hold that of longer.
Passes(log, longer, e) ==
    \A o \in Nat :
        Carries(log, chan[e], o) /\ Behind(log, o + Len(chan[e]), scratch[e], session[e])
            => /\ Carries(longer, chan'[e], o)
               /\ Behind(longer, o + Len(chan'[e]), scratch'[e], session'[e])

\* Where p reads, a number of units.
LEMMA ReadsType ==
    ASSUME PumpInv, NEW p \in Endpoint, NEW k \in Nat
    PROVE  /\ Reads(k, session[p]) \in Nat /\ 2 * k \in Nat
           /\ 2 * k + Len(session[p].left) \in Nat
           /\ session[p].left \in Seq(Unit) /\ session[p].inb \in Seq(Unit)
<1>1. session[p] \in NovaTlsSession
  BY PumpAt
<1>2. session[p].left \in Seq(Unit) /\ session[p].inb \in Seq(Unit)
  BY <1>1 DEF NovaTlsSession
<1>3. Len(session[p].left) \in Nat /\ Incoming(session[p]) \in Nat /\ 2 * k \in Nat
  BY <1>1, <1>2, Counts
<1>4. \A a, b \in Nat : a + b \in Nat
  OBVIOUS
<1>5. 2 * k + Len(session[p].left) \in Nat /\ 2 * k + Incoming(session[p]) \in Nat
  BY <1>3, <1>4
<1> QED
  BY <1>2, <1>3, <1>5, Zenon DEF Reads

\* The pipe from e on, if its reader does not move.
LEMMA WriterMoves ==
    ASSUME PumpInv, NEW e \in Endpoint, NEW p \in Endpoint, Still(p),
           NEW log \in Seq(Record), NEW start \in Seq(Nat), NEW k \in Nat,
           Story(e, p, log, start, k),
           NEW longer \in Seq(Record), NEW starts \in Seq(Nat),
           Tells(longer, starts, written'[e], notified'[e]),
           starts[k + 1] = start[k + 1], Extends(log, longer),
           \/ chan'[e] = chan[e] /\ (pc'[e] \in Over \/ broken')
           \/ pc[e] \notin Over /\ ~broken /\ ~broken' /\ Passes(log, longer, e)
    PROVE  Told(e, p)'
<1> DEFINE o == Reads(k, session[p])
<1>1. chan[e] \in Seq(Unit)
  BY PumpAt DEF TypeOK
<1>2. o \in Nat
  BY ReadsType
<1>3. pc[p] \notin Over => Arrives(longer, k, session[p])
  BY ReadsType DEF Story, Pipe, Arrives, Extends
<1>4. k \in 0 .. Len(longer)
  BY DEF Story, Extends
<1>5. ASSUME pc[p] \notin Over
      PROVE  /\ Carries(longer, chan'[e], o)
             /\ pc'[e] \notin Over /\ ~broken' =>
                   Behind(longer, o + Len(chan'[e]), scratch'[e], session'[e])
  <2>1. /\ Carries(log, chan[e], o)
        /\ pc[e] \notin Over /\ ~broken => Behind(log, o + Len(chan[e]), scratch[e], session[e])
    BY <1>5 DEF Story, Pipe
  <2> HIDE DEF o
  <2>2. Carries(longer, chan[e], o)
    BY <1>1, <1>2, <2>1 DEF Extends
  <2>3. CASE chan'[e] = chan[e] /\ (pc'[e] \in Over \/ broken')
    BY <2>2, <2>3
  <2>4. CASE pc[e] \notin Over /\ ~broken /\ ~broken' /\ Passes(log, longer, e)
    BY <1>2, <2>1, <2>4 DEF Passes
  <2> QED
    BY <2>3, <2>4
<1>6. Pipe(e, p, longer, k)'
  BY <1>3, <1>5 DEF Pipe, Still
<1>7. pc'[p] \notin Over /\ call'[p] # "alert" =>
          Continues(starts[k + 1], session'[p], received'[p])
  BY DEF Story, Still
<1> QED
  BY <1>4, <1>6, <1>7 DEF Told, Story

\* A step that seals nothing and moves nothing towards TCP, or the last one.
LEMMA WriterSilent ==
    ASSUME PumpInv, NEW e \in Endpoint, NEW p \in Endpoint, Still(p), Told(e, p),
           written'[e] = written[e], notified'[e] = notified[e], chan'[e] = chan[e],
           \/ pc'[e] \in Over \/ broken'
           \/ /\ pc[e] \notin Over /\ broken' = broken
              /\ scratch'[e] = scratch[e] /\ session'[e].outb = session[e].outb
    PROVE  Told(e, p)'
<1>1. PICK log \in Seq(Record), start \in Seq(Nat), k \in Nat : Story(e, p, log, start, k)
  BY DEF Told
<1>2. Tells(log, start, written'[e], notified'[e]) /\ Extends(log, log)
  <2>1. Len(log) \in Nat
    OBVIOUS
  <2> QED
    BY <1>1, <2>1 DEF Story, Extends
<1>3. CASE pc'[e] \in Over \/ broken'
  BY <1>1, <1>2, <1>3, WriterMoves
<1>4. CASE /\ pc[e] \notin Over /\ ~broken /\ ~broken'
           /\ scratch'[e] = scratch[e] /\ session'[e].outb = session[e].outb
  <2>1. Passes(log, log, e)
    BY <1>4 DEF Passes, Behind
  <2> QED
    BY <1>1, <1>2, <1>4, <2>1, WriterMoves
<1> QED
  BY <1>3, <1>4 DEF TypeOK

\* flush_out moves what is sealed to TCP.
LEMMA WriterFlushes ==
    ASSUME PumpInv, NEW e \in Endpoint, NEW p \in Endpoint, Still(p), Told(e, p),
           FlushChunk(e) \/ SendToTcp(e)
    PROVE  Told(e, p)'
<1>1. PICK log \in Seq(Record), start \in Seq(Nat), k \in Nat : Story(e, p, log, start, k)
  BY DEF Told
<1>2. /\ written'[e] = written[e] /\ notified'[e] = notified[e] /\ broken' = broken
      /\ pc[e] \notin Over
  BY DEF FlushChunk, SendToTcp, HistoryVars, NetVars, Over
<1>3. Tells(log, start, written'[e], notified'[e]) /\ Extends(log, log)
  <2>1. Len(log) \in Nat
    OBVIOUS
  <2> QED
    BY <1>1, <1>2, <2>1 DEF Story, Extends
<1>4. /\ session[e] \in NovaTlsSession /\ chan[e] \in Seq(Unit) /\ scratch[e] \in Seq(Unit)
      /\ broken \in BOOLEAN
  BY PumpAt DEF TypeOK
<1>5. CASE FlushChunk(e)
  <2>1. /\ scratch[e] = <<>> /\ chan'[e] = chan[e]
        /\ scratch'[e] = Dequeued(session[e]) /\ session'[e] = tls_write_tls(session[e])
    BY <1>5, PumpAt DEF FlushChunk, LocalAt, NetVars, TypeOK
  <2>2. CASE broken
    BY <1>1, <1>2, <1>3, <2>1, <2>2, WriterMoves
  <2>3. CASE ~broken
    <3>1. ASSUME NEW o \in Nat, Carries(log, chan[e], o),
                 Behind(log, o + Len(chan[e]), scratch[e], session[e])
          PROVE  Behind(log, o + Len(chan'[e]), scratch'[e], session'[e])
      <4>1. o + Len(chan[e]) \in Nat
        BY <1>4
      <4> QED
        BY <1>4, <2>1, <3>1, <4>1, BehindChunk
    <3>2. Passes(log, log, e)
      BY <2>1, <3>1 DEF Passes
    <3> QED
      BY <1>1, <1>2, <1>3, <2>3, <3>2, WriterMoves
  <2> QED
    BY <1>4, <2>2, <2>3
<1>6. CASE SendToTcp(e)
  <2>1. PICK n \in 1 .. Len(scratch[e]) :
          /\ chan'[e] = chan[e] \o SubSeq(scratch[e], 1, n)
          /\ scratch'[e] = SubSeq(scratch[e], n + 1, Len(scratch[e]))
    BY <1>6, PumpAt DEF SendToTcp, TypeOK
  <2>2. n \in Nat /\ n <= Len(scratch[e]) /\ ~broken /\ session'[e] = session[e]
    BY <1>4, <1>6 DEF SendToTcp
  <2>3. Passes(log, log, e)
    BY <1>4, <2>1, <2>2, BehindSent DEF Passes
  <2> QED
    BY <1>1, <1>2, <1>3, <2>2, <2>3, WriterMoves
<1> QED
  BY <1>5, <1>6

\* A record is sealed.
LEMMA WriterSeals ==
    ASSUME PumpInv, NEW e \in Endpoint, NEW p \in Endpoint, Still(p), Told(e, p),
           pc[e] \notin Over, broken' = broken, chan'[e] = chan[e], scratch'[e] = scratch[e],
           NEW r \in Record, session'[e].outb = SendRecord(session[e], r).outb,
           written'[e] \in Nat, written[e] <= written'[e], notified'[e] \in BOOLEAN,
           notified[e] => notified'[e] /\ written'[e] = written[e],
           r.type = "data" => /\ written'[e] = written[e] + Len(r.val)
                              /\ \A j \in 1 .. Len(r.val) : r.val[j] = written[e] + j,
           r.type # "data" => written'[e] = written[e],
           r.type = "close_notify" => notified'[e]
    PROVE  Told(e, p)'
<1>1. PICK log \in Seq(Record), start \in Seq(Nat), k \in Nat : Story(e, p, log, start, k)
  BY DEF Told
<1> DEFINE longer == Append(log, r)
           starts == Append(start, written'[e])
<1>2. /\ session[e] \in NovaTlsSession /\ chan[e] \in Seq(Unit) /\ scratch[e] \in Seq(Unit)
      /\ broken \in BOOLEAN /\ written[e] \in Nat /\ notified[e] \in BOOLEAN
  BY PumpAt DEF TypeOK
<1>3. Tells(log, start, written[e], notified[e]) /\ k \in 0 .. Len(log)
  BY <1>1 DEF Story
<1>4. Tells(longer, starts, written'[e], notified'[e])
  BY <1>2, <1>3, TellsMore, ZenonT(60)
<1>5. longer \in Seq(Record) /\ Len(longer) = Len(log) + 1
      /\ \A a \in Seq(Unit), o \in Nat : Carries(log, a, o) => Carries(longer, a, o)
  BY CarriesAppend
<1>6. starts \in Seq(Nat) /\ starts[k + 1] = start[k + 1]
  <2>1. Len(start) = Len(log) + 1 /\ Len(log) \in Nat
    BY <1>3 DEF Tells
  <2>2. k + 1 \in 1 .. Len(start)
    BY <1>3, <2>1
  <2> QED
    BY <2>2, AppendProperties
<1>7. ASSUME NEW o \in Nat, Behind(log, o + Len(chan[e]), scratch[e], session[e])
      PROVE  Behind(longer, o + Len(chan[e]), scratch[e], session'[e])
  <2>1. o + Len(chan[e]) \in Nat
    BY <1>2
  <2>2. Behind(longer, o + Len(chan[e]), scratch[e], SendRecord(session[e], r))
    BY <1>2, <1>7, <2>1, BehindMore
  <2> QED
    BY <2>2 DEF Behind
<1> HIDE DEF longer, starts
<1>8. Extends(log, longer)
  <2>1. Len(log) \in Nat
    OBVIOUS
  <2> QED
    BY <1>5, <2>1 DEF Extends
<1>9. Passes(log, longer, e)
  BY <1>2, <1>5, <1>7 DEF Passes
<1> QED
  BY <1>1, <1>2, <1>4, <1>5, <1>6, <1>8, <1>9, WriterMoves

\* A flight is answered by at most one record.
LEMMA AcceptSeals ==
    ASSUME NEW s \in NovaTlsSession, HasRecord(s), s.hs # NumFlights
    PROVE  \/ AcceptFlight(s).outb = s.outb
           \/ \E f \in Nat : AcceptFlight(s).outb = SendRecord(s, Flight(f)).outb
<1> DEFINE accepted == [TakeRecord(s) EXCEPT !.hs = s.hs + 1]
           answered == [accepted EXCEPT !.hs = @ + 1]
           f == accepted.hs + 1
<1>1. TakeRecord(s) \in NovaTlsSession /\ TakeRecord(s).outb = s.outb /\ s.hs \in Nat
  BY TakeRecordType, Counts DEF TakeRecord, NovaTlsSession
<1>2. accepted.outb = s.outb /\ accepted.hs = s.hs + 1 /\ f \in Nat
  BY <1>1 DEF NovaTlsSession
<1>3. SendRecord(answered, Flight(f)).outb = s.outb \o Units(Flight(f))
  <2>1. answered.outb = s.outb
    BY <1>1 DEF NovaTlsSession
  <2>2. SendRecord(answered, Flight(f)).outb = answered.outb \o Units(Flight(f))
    <3> HIDE DEF f
    <3> QED
      BY <1>1 DEF SendRecord, NovaTlsSession
  <2> QED
    BY <2>1, <2>2
<1>4. SendRecord(s, Flight(f)).outb = s.outb \o Units(Flight(f))
  <2> HIDE DEF f
  <2> QED
    BY DEF SendRecord, NovaTlsSession
<1>5. AcceptFlight(s) = IF accepted.hs = NumFlights THEN accepted
                        ELSE SendRecord(answered, Flight(f))
  BY DEF AcceptFlight
<1> HIDE DEF accepted, answered, f
<1> QED
  BY <1>2, <1>3, <1>4, <1>5

\* Of the input, it takes that record.
LEMMA AcceptTakes ==
    ASSUME NEW s \in NovaTlsSession, HasRecord(s), s.hs # NumFlights
    PROVE  /\ AcceptFlight(s).plain = s.plain
           /\ AcceptFlight(s).left = TakeRecord(s).left /\ AcceptFlight(s).inb = TakeRecord(s).inb
<1> DEFINE accepted == [TakeRecord(s) EXCEPT !.hs = s.hs + 1]
           answered == [accepted EXCEPT !.hs = @ + 1]
<1>1. TakeRecord(s) \in NovaTlsSession
  BY TakeRecordType
<1>2. /\ accepted.left = TakeRecord(s).left /\ accepted.inb = TakeRecord(s).inb
      /\ answered.left = TakeRecord(s).left /\ answered.inb = TakeRecord(s).inb
  BY <1>1 DEF NovaTlsSession
<1>3. /\ SendRecord(answered, Flight(accepted.hs + 1)).left = TakeRecord(s).left
      /\ SendRecord(answered, Flight(accepted.hs + 1)).inb = TakeRecord(s).inb
  BY <1>1 DEF SendRecord, NovaTlsSession
<1>4. AcceptFlight(s) = IF accepted.hs = NumFlights THEN accepted
                        ELSE SendRecord(answered, Flight(accepted.hs + 1))
  BY DEF AcceptFlight
<1> HIDE DEF accepted, answered
<1> QED
  BY <1>2, <1>3, <1>4, AcceptFlightType

\* Whatever the writer does, its reader has the first records of a log.
LEMMA WriterStays ==
    ASSUME PumpInv, NEW e \in Endpoint, NEW p \in Endpoint, p # e, Told(e, p),
           notified[e] => pc[e] \in Over \/ call[e] = "close",
           Step(e) \/ Use(e) \/ Crash(e)
    PROVE  Told(e, p)'
<1>1. Still(p) /\ broken' = broken
  BY Bystander DEF Still
<1>2. /\ session[e] \in NovaTlsSession /\ written[e] \in Nat /\ notified[e] \in BOOLEAN
      /\ broken \in BOOLEAN /\ scratch[e] \in Seq(Unit) /\ call[e] \in Call /\ pc[e] \in PC
      /\ todo[e] \in Nat
  BY PumpAt DEF TypeOK
<1>3. CASE Crash(e) \/ EndClose(e) \/ \E error : FailHandshake(e, error)
  <2>1. /\ pc'[e] \in Over /\ chan' = chan /\ UNCHANGED << written, notified >>
    BY <1>3, PumpAt DEF Crash, EndClose, FailHandshake, Release, Goto, HistoryVars, TypeOK, Over
  <2> QED
    BY <1>1, <2>1, WriterSilent
<1>4. ASSUME pc[e] \notin Over, UNCHANGED << written, notified, scratch >>, chan'[e] = chan[e],
             session'[e].outb = session[e].outb
      PROVE  Told(e, p)'
  BY <1>1, <1>4, WriterSilent
<1>5. ASSUME pc[e] \notin Over, UNCHANGED << written, notified, scratch, chan >>,
             NEW r \in Record, r.type \notin {"data", "close_notify"},
             session'[e].outb = SendRecord(session[e], r).outb
      PROVE  Told(e, p)'
  BY <1>1, <1>2, <1>5, WriterSeals
<1>6. CASE Read(e) \/ Write(e, "write") \/ Write(e, "write_all") \/ Flush(e)
  BY <1>4, <1>6 DEF Read, Write, Flush, NetVars, HistoryVars, Over
<1>7. CASE Close(e)
  <2>1. /\ pc[e] \notin Over /\ UNCHANGED << written, scratch, chan >>
        /\ notified'[e] = TRUE /\ session'[e] = SendRecord(session[e], CloseNotify)
    BY <1>7, PumpAt DEF Close, NetVars, TypeOK, Over, tls_send_close_notify
  <2>2. CloseNotify \in Record /\ CloseNotify.type = "close_notify"
    BY RecordsType DEF CloseNotify
  <2>3. written'[e] = written[e] /\ written'[e] \in Nat /\ written[e] <= written'[e]
    BY <1>2, <2>1
  <2>4. /\ notified'[e] \in BOOLEAN /\ session'[e].outb = SendRecord(session[e], CloseNotify).outb
        /\ chan'[e] = chan[e] /\ scratch'[e] = scratch[e]
    BY <2>1
  <2> QED
    BY <1>1, <2>1, <2>2, <2>3, <2>4, WriterSeals
<1>8. CASE FlushChunk(e) \/ SendToTcp(e)
  BY <1>1, <1>8, WriterFlushes
<1>9. CASE SendFails(e)
  <2>1. ASSUME Return(e, "Net"), UNCHANGED << session, NetVars, refused, HistoryVars >>
        PROVE  Told(e, p)'
    <3>1. broken' /\ chan' = chan /\ UNCHANGED << written, notified >>
      BY <1>1, <1>9, <2>1 DEF SendFails, NetVars, HistoryVars
    <3> QED
      BY <1>1, <3>1, WriterSilent
  <2> QED
    BY <1>3, <1>9, <2>1 DEF SendFails
<1>10. CASE FlushDone(e)
  BY <1>3, <1>4, <1>10 DEF FlushDone, NetVars, HistoryVars, Over
<1>11. CASE FillFromTcp(e)
  <2>1. PICK n \in 1 .. Smaller(Chunk, Len(chan[Peer(e)])) :
          session' = [session EXCEPT ![e] = tls_read_tls(@, SubSeq(chan[Peer(e)], 1, n))]
    BY <1>11 DEF FillFromTcp
  <2>2. session'[e].outb = session[e].outb
    <3>1. session'[e] = tls_read_tls(session[e], SubSeq(chan[Peer(e)], 1, n))
      BY <2>1, PumpAt DEF TypeOK
    <3> QED
      BY <1>2, <3>1 DEF tls_read_tls, NovaTlsSession
  <2>3. /\ pc[e] \notin Over /\ UNCHANGED << written, notified, scratch >> /\ chan'[e] = chan[e]
    BY <1>11, PumpAt, Pair DEF FillFromTcp, TypeOK, HistoryVars, Over
  <2> QED
    BY <1>4, <2>2, <2>3
<1>12. CASE FillEof(e) \/ FillFails(e)
  BY <1>3, <1>4, <1>12 DEF FillEof, FillFails, FillEnds, NetVars, HistoryVars, Over
<1>13. CASE PumpStep(e)
  BY <1>3, <1>4, <1>13 DEF PumpStep, NetVars, HistoryVars, Over
<1>14. CASE ProcessDone(e) \/ ReadNeedsMore(e)
  <2>1. session'[e] \in {session[e], KeepPartial(session[e])}
    BY <1>14, PumpAt DEF ProcessDone, ReadNeedsMore, TypeOK
  <2>2. session'[e].outb = session[e].outb
    BY <1>2, <2>1, KeepPartialType
  <2> QED
    BY <1>4, <1>14, <2>2 DEF ProcessDone, ReadNeedsMore, NetVars, HistoryVars, Over
<1>15. CASE ProcessFlight(e)
  <2>1. /\ pc[e] \notin Over /\ UNCHANGED << written, notified, scratch, chan >>
        /\ session'[e] = AcceptFlight(session[e])
        /\ HasRecord(session[e]) /\ session[e].hs # NumFlights
    BY <1>15, PumpAt DEF ProcessFlight, NetVars, HistoryVars, Over, TypeOK, tls_is_handshaking
  <2>2. CASE session'[e].outb = session[e].outb
    BY <1>4, <2>1, <2>2
  <2>3. CASE \E f \in Nat : session'[e].outb = SendRecord(session[e], Flight(f)).outb
    <3>1. PICK f \in Nat : session'[e].outb = SendRecord(session[e], Flight(f)).outb
      BY <2>3
    <3>2. Flight(f) \in Record /\ Flight(f).type = "hs"
      BY RecordsType DEF Flight
    <3> QED
      BY <1>5, <2>1, <3>1, <3>2
  <2> QED
    BY <1>2, <2>1, <2>2, <2>3, AcceptSeals
<1>16. CASE ProcessFails(e) \/ ReadError(e) \/ ReadCloseNotify(e)
  <2>1. HasRecord(session[e]) /\ pc[e] \notin Over
        /\ UNCHANGED << written, notified, scratch, chan >>
    BY <1>16 DEF ProcessFails, ReadError, ReadCloseNotify, NetVars, HistoryVars, Over
  <2>2. TakeRecord(session[e]) \in NovaTlsSession /\ TakeRecord(session[e]).outb = session[e].outb
    BY <1>2, <2>1, TakeRecordType DEF TakeRecord, NovaTlsSession
  <2>3. session'[e] \in {TakeRecord(session[e]), SendRecord(TakeRecord(session[e]), Alert)}
    BY <1>16, PumpAt DEF ProcessFails, ReadError, ReadCloseNotify, TypeOK
  <2>4. SendRecord(TakeRecord(session[e]), Alert).outb = SendRecord(session[e], Alert).outb
    BY <1>2, <2>2 DEF SendRecord, NovaTlsSession
  <2>5. Alert \in Record /\ Alert.type = "alert"
    BY RecordsType DEF Alert
  <2> QED
    BY <1>4, <1>5, <2>1, <2>2, <2>3, <2>4, <2>5
<1>17. CASE ReadPlain(e)
  <2> DEFINE opened == IF session[e].plain # <<>> THEN session[e] ELSE OpenData(session[e])
  <2>1. PICK cap \in 1 .. MaxRead : session'[e] = HandOut(opened, cap)
    BY <1>17, PumpAt DEF ReadPlain, TypeOK
  <2>2. opened \in NovaTlsSession /\ opened.outb = session[e].outb
    <3>1. CASE session[e].plain # <<>>
      BY <1>2, <3>1
    <3>2. CASE session[e].plain = <<>>
      <4>1. HasRecord(session[e])
        BY <1>17, <3>2 DEF ReadPlain
      <4>2. OpenData(session[e]) \in NovaTlsSession
        BY <1>2, <4>1, OpenDataType
      <4>3. OpenData(session[e]).outb = session[e].outb
        BY <1>2 DEF OpenData, TakeRecord, NovaTlsSession
      <4> QED
        BY <3>2, <4>2, <4>3
    <3> QED
      BY <3>1, <3>2
  <2> HIDE DEF opened
  <2>3. session'[e].outb = session[e].outb
    BY <2>1, <2>2 DEF HandOut, NovaTlsSession
  <2> QED
    BY <1>4, <1>17, <2>3 DEF ReadPlain, NetVars, HistoryVars, Over
<1>18. CASE WriteStep(e)
  <2> DEFINE n == Accepted(todo[e])
             bytes == [i \in 1 .. n |-> written[e] + i]
  <2>1. /\ pc[e] \notin Over /\ UNCHANGED << scratch, chan, notified >>
        /\ written'[e] = written[e] + n /\ session'[e] = tls_write_plain(session[e], bytes)
    BY <1>18, PumpAt DEF WriteStep, TypeOK, NetVars, Over
  <2>2. n \in Nat
    BY <1>2, SmallerProperties, SessionAssumption DEF Accepted
  <2>3. ~notified[e]
    BY <1>18, PumpAt DEF WriteStep, LocalAt, Over
  <2>4. bytes \in Seq(Nat) /\ Len(bytes) = n /\ \A j \in 1 .. n : bytes[j] = written[e] + j
    <3> HIDE DEF n
    <3> QED
      BY <1>2, <2>2
  <2> HIDE DEF n, bytes
  <2>5. CASE bytes = <<>>
    <3>1. Len(bytes) = 0
      BY <2>5
    <3>2. written'[e] = written[e] /\ session'[e] = session[e]
      BY <1>2, <2>1, <2>4, <2>5, <3>1 DEF tls_write_plain
    <3> QED
      BY <1>1, <1>2, <2>1, <3>2, WriterSilent
  <2>6. CASE bytes # <<>>
    <3>1. session'[e] = SendRecord(session[e], Data(bytes))
      BY <2>1, <2>6 DEF tls_write_plain
    <3>2. /\ Data(bytes) \in Record /\ Data(bytes).type = "data" /\ Data(bytes).val = bytes
      BY <2>4, RecordsType DEF Data
    <3>3. /\ written'[e] \in Nat /\ written[e] <= written'[e] /\ notified'[e] \in BOOLEAN
      BY <1>2, <2>1, <2>2
    <3> QED
      BY <1>1, <2>1, <2>3, <2>4, <3>1, <3>2, <3>3, WriterSeals
  <2> QED
    BY <2>5, <2>6
<1> QED
  BY <1>3, <1>6, <1>7, <1>8, <1>9, <1>10, <1>11, <1>12, <1>13, <1>14, <1>15, <1>16, <1>17, <1>18
     DEF Step, Use

-----------------------------------------------------------------------------
(* One step, seen from the direction in which the end that takes it reads. *)

\* The end e does not move, but for what TCP carries from it.
Waits(e) ==
    /\ pc'[e] = pc[e] /\ session'[e] = session[e] /\ scratch'[e] = scratch[e]
    /\ written'[e] = written[e] /\ notified'[e] = notified[e] /\ broken' = broken

\* p has now decrypted k records of log, and TCP stands where it stood.
Stands(e, p, log, was, k) ==
    /\ pc[p] \notin Over
    /\ Arrives(log, k, session'[p])
    /\ Carries(log, chan'[e], Reads(k, session'[p]))
    /\ Reads(k, session'[p]) + Len(chan'[e]) = Reads(was, session[p]) + Len(chan[e])

LEMMA ReaderMoves ==
    ASSUME PumpInv, NEW e \in Endpoint, NEW p \in Endpoint, Waits(e),
           NEW log \in Seq(Record), NEW start \in Seq(Nat), NEW was \in Nat,
           Story(e, p, log, start, was), NEW k \in 0 .. Len(log),
           pc'[p] \notin Over => Stands(e, p, log, was, k),
           pc'[p] \notin Over /\ call'[p] # "alert" =>
               Continues(start[k + 1], session'[p], received'[p])
    PROVE  Told(e, p)'
<1>1. k \in Nat
  OBVIOUS
<1>2. Tells(log, start, written[e], notified[e])'
  BY DEF Story, Waits
<1>3. Pipe(e, p, log, k)'
  <2>1. pc[p] \notin Over /\ pc[e] \notin Over /\ ~broken =>
            Behind(log, Reads(was, session[p]) + Len(chan[e]), scratch[e], session[e])
    BY DEF Story, Pipe
  <2> QED
    BY <2>1 DEF Pipe, Waits, Stands
<1> QED
  BY <1>1, <1>2, <1>3 DEF Told, Story

\* A step that ends, or takes nothing in.
LEMMA ReaderSilent ==
    ASSUME PumpInv, NEW e \in Endpoint, NEW p \in Endpoint, Waits(e), Told(e, p),
           chan'[e] = chan[e],
           \/ pc'[p] \in Over
           \/ /\ pc[p] \notin Over /\ received'[p] = received[p]
              /\ call'[p] = call[p] \/ call[p] # "alert"
              /\ session'[p].left = session[p].left /\ session'[p].inb = session[p].inb
              /\ session'[p].plain = session[p].plain
    PROVE  Told(e, p)'
<1>1. PICK log \in Seq(Record), start \in Seq(Nat), k \in Nat : Story(e, p, log, start, k)
  BY DEF Told
<1>2. k \in 0 .. Len(log)
  BY <1>1 DEF Story
<1>3. CASE pc'[p] \in Over
  BY <1>1, <1>2, <1>3, ReaderMoves
<1>4. CASE /\ pc[p] \notin Over /\ received'[p] = received[p]
           /\ call'[p] = call[p] \/ call[p] # "alert"
           /\ session'[p].left = session[p].left /\ session'[p].inb = session[p].inb
           /\ session'[p].plain = session[p].plain
  <2>1. Reads(k, session'[p]) = Reads(k, session[p])
    BY <1>4 DEF Reads, Incoming
  <2>2. Arrives(log, k, session'[p]) /\ Carries(log, chan'[e], Reads(k, session'[p]))
    BY <1>1, <1>4, <2>1 DEF Story, Pipe, Arrives
  <2>3. Stands(e, p, log, k, k)
    BY <1>4, <2>1, <2>2 DEF Stands
  <2>4. call'[p] # "alert" => Continues(start[k + 1], session'[p], received'[p])
    BY <1>1, <1>4 DEF Story, Continues
  <2> QED
    BY <1>1, <1>2, <2>3, <2>4, ReaderMoves
<1> QED
  BY <1>3, <1>4

\* fill_from_tcp.
LEMMA ReaderFills ==
    ASSUME PumpInv, NEW e \in Endpoint, NEW p \in Endpoint, e = Peer(p), Waits(e), Told(e, p),
           FillFromTcp(p)
    PROVE  Told(e, p)'
<1>1. PICK log \in Seq(Record), start \in Seq(Nat), k \in Nat : Story(e, p, log, start, k)
  BY DEF Told
<1>2. k \in 0 .. Len(log)
  BY <1>1 DEF Story
<1>3. session[p] \in NovaTlsSession /\ chan[e] \in Seq(Unit)
  BY PumpAt DEF TypeOK
<1>4. PICK n \in 1 .. Smaller(Chunk, Len(chan[e])) :
        /\ session'[p] = tls_read_tls(session[p], SubSeq(chan[e], 1, n))
        /\ chan'[e] = SubSeq(chan[e], n + 1, Len(chan[e]))
  BY PumpAt DEF FillFromTcp, TypeOK
<1>5. n \in Nat /\ n <= Len(chan[e])
  <2>1. Chunk \in Nat /\ Len(chan[e]) \in Nat
    BY <1>3, SessionAssumption
  <2>2. Smaller(Chunk, Len(chan[e])) <= Len(chan[e]) /\ Smaller(Chunk, Len(chan[e])) \in Nat
    BY <2>1, SmallerProperties
  <2> QED
    BY <2>1, <2>2
<1>6. /\ pc[p] \notin Over /\ call'[p] = call[p] /\ received'[p] = received[p]
      /\ call[p] # "alert"
  BY PumpAt DEF FillFromTcp, LocalAt, HistoryVars, Over
<1>7. Arrives(log, k, session[p]) /\ Carries(log, chan[e], 2 * k + Incoming(session[p]))
  BY <1>1, <1>6 DEF Story, Pipe, Reads
<1>8. /\ Arrives(log, k, session'[p])
      /\ Incoming(session'[p]) = Incoming(session[p]) + n
      /\ Carries(log, chan'[e], 2 * k + Incoming(session'[p]))
  BY <1>3, <1>4, <1>5, <1>7, FillArrives
<1>9. Len(chan'[e]) = Len(chan[e]) - n
  BY <1>3, <1>4, <1>5, Cut
<1>10. Reads(k, session'[p]) + Len(chan'[e]) = Reads(k, session[p]) + Len(chan[e])
  <2>1. /\ Incoming(session[p]) \in Nat /\ Len(chan[e]) \in Nat
    BY <1>3, Counts
  <2>2. \A a, b, c, d \in Nat : a + (b + c) + (d - c) = a + b + d
    OBVIOUS
  <2> QED
    BY <1>5, <1>8, <1>9, <2>1, <2>2 DEF Reads
<1>11. Stands(e, p, log, k, k)
  BY <1>6, <1>8, <1>10 DEF Stands, Reads
<1>12. Continues(start[k + 1], session'[p], received'[p])
  <2>1. session'[p].plain = session[p].plain
    BY <1>3, <1>4 DEF tls_read_tls, NovaTlsSession
  <2> QED
    BY <1>1, <1>6, <2>1 DEF Story, Continues
<1> QED
  BY <1>1, <1>2, <1>11, <1>12, ReaderMoves

\* mbedTLS keeps a part of a record.
LEMMA ReaderKeeps ==
    ASSUME PumpInv, NEW e \in Endpoint, NEW p \in Endpoint, Waits(e), Told(e, p),
           pc[p] \notin Over, call[p] # "alert", received'[p] = received[p], chan'[e] = chan[e],
           session'[p] = KeepPartial(session[p])
    PROVE  Told(e, p)'
<1>1. PICK log \in Seq(Record), start \in Seq(Nat), k \in Nat : Story(e, p, log, start, k)
  BY DEF Told
<1>2. k \in 0 .. Len(log) /\ session[p] \in NovaTlsSession
  BY <1>1, PumpAt DEF Story
<1>3. Arrives(log, k, session[p]) /\ Carries(log, chan[e], Reads(k, session[p]))
  BY <1>1 DEF Story, Pipe
<1>4. Arrives(log, k, session'[p]) /\ Reads(k, session'[p]) = Reads(k, session[p])
  BY <1>2, <1>3, KeepArrives DEF Reads
<1>5. Stands(e, p, log, k, k)
  BY <1>3, <1>4 DEF Stands
<1>6. Continues(start[k + 1], session'[p], received'[p])
  <2>1. Continues(start[k + 1], session[p], received[p])
    BY <1>1 DEF Story
  <2>2. session'[p].plain = session[p].plain
    BY <1>2, KeepPartialType
  <2> QED
    BY <2>1, <2>2 DEF Continues
<1> QED
  BY <1>1, <1>2, <1>5, <1>6, ReaderMoves

\* mbedTLS takes record k + 1: what stands then.
LEMMA TakeStands ==
    ASSUME PumpInv, NEW e \in Endpoint, NEW p \in Endpoint, pc[p] \notin Over,
           NEW log \in Seq(Record), NEW start \in Seq(Nat), NEW k \in Nat,
           Story(e, p, log, start, k), HasRecord(session[p]), chan'[e] = chan[e],
           session'[p].left = TakeRecord(session[p]).left,
           session'[p].inb = TakeRecord(session[p]).inb
    PROVE  /\ k + 1 \in 0 .. Len(log) /\ k + 1 <= Len(log)
           /\ NextRecord(session[p]) = log[k + 1]
           /\ Stands(e, p, log, k, k + 1)
<1>1. session[p] \in NovaTlsSession /\ Len(log) \in Nat
  BY PumpAt
<1>2. Arrives(log, k, session[p]) /\ Carries(log, chan[e], Reads(k, session[p]))
  BY DEF Story, Pipe
<1>3. /\ k + 1 <= Len(log) /\ NextRecord(session[p]) = log[k + 1]
      /\ Arrives(log, k + 1, TakeRecord(session[p]))
      /\ Incoming(TakeRecord(session[p])) = Incoming(session[p]) - 2
  BY <1>1, <1>2, NextOfLog
<1>4. Arrives(log, k + 1, session'[p]) /\ Incoming(session'[p]) = Incoming(session[p]) - 2
  BY <1>3 DEF Arrives, Incoming
<1>5. Reads(k + 1, session'[p]) = Reads(k, session[p])
  <2>1. Incoming(session[p]) \in Nat
    BY <1>1, Counts
  <2> QED
    BY <1>4, <2>1 DEF Reads
<1> QED
  BY <1>1, <1>2, <1>3, <1>4, <1>5 DEF Stands

\* A record that brings the application nothing.
LEMMA ReaderTakes ==
    ASSUME PumpInv, NEW e \in Endpoint, NEW p \in Endpoint, Waits(e), Told(e, p),
           pc[p] \notin Over, HasRecord(session[p]), chan'[e] = chan[e],
           session'[p].left = TakeRecord(session[p]).left,
           session'[p].inb = TakeRecord(session[p]).inb,
           \/ call'[p] = "alert"
           \/ /\ call[p] # "alert" /\ NextRecord(session[p]).type # "data"
              /\ session'[p].plain = session[p].plain /\ received'[p] = received[p]
    PROVE  Told(e, p)'
<1>1. PICK log \in Seq(Record), start \in Seq(Nat), k \in Nat : Story(e, p, log, start, k)
  BY DEF Told
<1>2. /\ k + 1 \in 0 .. Len(log) /\ k + 1 <= Len(log)
      /\ NextRecord(session[p]) = log[k + 1] /\ Stands(e, p, log, k, k + 1)
  BY <1>1, TakeStands
<1>3. CASE call'[p] = "alert"
  BY <1>1, <1>2, <1>3, ReaderMoves
<1>4. CASE /\ call[p] # "alert" /\ NextRecord(session[p]).type # "data"
           /\ session'[p].plain = session[p].plain /\ received'[p] = received[p]
  <2>1. /\ Continues(start[k + 1], session[p], received[p]) /\ received[p] \in Seq(Nat)
        /\ Tells(log, start, written[e], notified[e]) /\ written[e] \in Nat
    BY <1>1, <1>4, PumpAt DEF Story, TypeOK
  <2>2. Continues(start[k + 2], session'[p], received[p])
    BY <1>2, <1>4, <2>1, ReadsOn
  <2>3. (k + 1) + 1 = k + 2 /\ received'[p] = received[p]
    BY <1>4
  <2> QED
    BY <1>1, <1>2, <2>2, <2>3, ReaderMoves
<1> QED
  BY <1>3, <1>4

\* The application is handed bytes: the next ones, and none that was not written.
LEMMA ReaderReads ==
    ASSUME PumpInv, NEW e \in Endpoint, NEW p \in Endpoint, Waits(e), Told(e, p),
           InOrder(received[p]),
           ReadPlain(p), chan'[e] = chan[e]
    PROVE  /\ Told(e, p)'
           /\ InOrder(received'[p])
           /\ received'[p] \in Seq(Nat)
           /\ Len(received[p]) <= Len(received'[p]) /\ Len(received'[p]) <= written[e]
<1>1. PICK log \in Seq(Record), start \in Seq(Nat), was \in Nat : Story(e, p, log, start, was)
  BY DEF Told
<1>2. /\ session[p] \in NovaTlsSession /\ received[p] \in Seq(Nat) /\ pc[p] \notin Over
      /\ call[p] # "alert" /\ Tells(log, start, written[e], notified[e])
      /\ Continues(start[was + 1], session[p], received[p]) /\ was \in 0 .. Len(log)
      /\ written[e] \in Nat
  BY <1>1, PumpAt DEF ReadPlain, LocalAt, Over, TypeOK, Story
<1> DEFINE opened == IF session[p].plain # <<>> THEN session[p] ELSE OpenData(session[p])
<1>3. PICK cap \in 1 .. MaxRead :
        /\ received'[p] = received[p] \o HandedOut(opened, cap)
        /\ session'[p] = HandOut(opened, cap)
  BY PumpAt DEF ReadPlain, TypeOK
<1>4. cap \in Nat
  BY StreamAssumption
<1>5. PICK k \in 0 .. Len(log) :
        /\ opened \in NovaTlsSession /\ Continues(start[k + 1], opened, received[p])
        /\ Stands(e, p, log, was, k)
  <2>1. CASE session[p].plain # <<>>
    <3>1. opened = session[p]
      BY <2>1
    <3> HIDE DEF opened
    <3>2. session'[p].left = session[p].left /\ session'[p].inb = session[p].inb
      BY <1>2, <1>3, <3>1 DEF HandOut, NovaTlsSession
    <3>3. Reads(was, session'[p]) = Reads(was, session[p])
      BY <3>2 DEF Reads, Incoming
    <3>4. Stands(e, p, log, was, was)
      BY <1>1, <1>2, <3>2, <3>3 DEF Stands, Story, Pipe, Arrives
    <3> QED
      BY <1>2, <3>1, <3>4
  <2>2. CASE session[p].plain = <<>>
    <3>1. opened = OpenData(session[p]) /\ HasRecord(session[p])
          /\ NextRecord(session[p]).type = "data"
      BY <2>2 DEF ReadPlain
    <3> HIDE DEF opened
    <3>2. /\ opened \in NovaTlsSession /\ opened.left = TakeRecord(session[p]).left
          /\ opened.inb = TakeRecord(session[p]).inb
          /\ opened.plain = NextRecord(session[p]).val
      <4>1. opened \in NovaTlsSession /\ TakeRecord(session[p]) \in NovaTlsSession
        BY <1>2, <3>1, OpenDataType, TakeRecordType
      <4> QED
        BY <3>1, <4>1 DEF OpenData, NovaTlsSession
    <3>3. session'[p].left = opened.left /\ session'[p].inb = opened.inb
      BY <1>3, <3>2 DEF HandOut, NovaTlsSession
    <3>4. /\ was + 1 \in 0 .. Len(log) /\ was + 1 <= Len(log)
          /\ NextRecord(session[p]) = log[was + 1] /\ Stands(e, p, log, was, was + 1)
      BY <1>1, <1>2, <3>1, <3>2, <3>3, TakeStands
    <3>5. Continues(start[was + 2], opened, received[p])
      BY <1>2, <2>2, <3>1, <3>2, <3>4, ReadsOn
    <3>6. (was + 1) + 1 = was + 2
      OBVIOUS
    <3> QED
      BY <3>2, <3>4, <3>5, <3>6
  <2> QED
    BY <2>1, <2>2
<1> HIDE DEF opened
<1>6. start[k + 1] \in Nat /\ start[k + 1] <= written[e]
  <2>1. Len(start) = Len(log) + 1 /\ \A i \in 1 .. Len(log) + 1 : start[i] <= written[e]
    BY <1>2 DEF Tells
  <2>2. k + 1 \in 1 .. Len(log) + 1
    OBVIOUS
  <2> QED
    BY <2>1, <2>2
<1>7. /\ Continues(start[k + 1], session'[p], received'[p])
      /\ InOrder(received'[p])
      /\ Len(received'[p]) <= start[k + 1] /\ received'[p] \in Seq(Nat)
  BY <1>2, <1>3, <1>4, <1>5, <1>6, HandsOut
<1>8. Told(e, p)'
  BY <1>1, <1>5, <1>7, ReaderMoves
<1>9. Len(received[p]) <= Len(received'[p])
  <2>1. HandedOut(opened, cap) \in Seq(Nat)
    BY <1>4, <1>5, HandOutType
  <2> QED
    BY <1>2, <1>3, <2>1, ConcatProperties
<1> QED
  <2>1. written[e] \in Nat /\ Len(received'[p]) \in Nat
    <3>1. written[e] \in Nat
      BY PumpAt DEF TypeOK
    <3> QED
      BY <1>7, <3>1
  <2> QED
    BY <1>6, <1>7, <1>8, <1>9, <2>1

\* Whatever the reader does, it has the first records of the log.
LEMMA ReaderStays ==
    ASSUME PumpInv, NEW e \in Endpoint, NEW p \in Endpoint, p = Peer(e), Told(e, p),
           InOrder(received[p]), Step(p) \/ Use(p) \/ Crash(p)
    PROVE  Told(e, p)'
<1>1. /\ e # p /\ e = Peer(p) /\ Waits(e)
      /\ session[p] \in NovaTlsSession
  BY Bystander, Pair, PumpAt DEF Waits
<1>2. CASE Crash(p) \/ EndClose(p) \/ \E error : FailHandshake(p, error)
  <2>1. pc'[p] \in Over /\ chan' = chan
    BY <1>2, PumpAt DEF Crash, EndClose, FailHandshake, Release, Goto, TypeOK, Over
  <2> QED
    BY <1>1, <2>1, ReaderSilent
<1>3. ASSUME pc[p] \notin Over, received' = received, chan'[e] = chan[e],
             call'[p] = call[p] \/ call[p] # "alert",
             session'[p].left = session[p].left, session'[p].inb = session[p].inb,
             session'[p].plain = session[p].plain
      PROVE  Told(e, p)'
  BY <1>1, <1>3, ReaderSilent
<1>4. ASSUME NEW r \in Record, pc[p] \notin Over, received' = received, chan'[e] = chan[e],
             call'[p] = call[p] \/ call[p] # "alert", session'[p] = SendRecord(session[p], r)
      PROVE  Told(e, p)'
  BY <1>1, <1>3, <1>4, SendRecordType
<1>5. CASE Use(p)
  <2>1. /\ pc[p] = "idle" /\ received' = received /\ chan' = chan /\ call[p] = "none"
        /\ session'[p] \in {session[p], SendRecord(session[p], CloseNotify)}
    BY <1>5, PumpAt DEF Use, Read, Write, Flush, Close, PlaceAt, NetVars, HistoryVars, TypeOK,
                        tls_send_close_notify
  <2> QED
    BY <1>3, <1>4, <2>1, RecordsType DEF Over
<1>6. CASE FlushChunk(p)
  <2>1. session'[p] = tls_write_tls(session[p])
    BY <1>6, PumpAt DEF FlushChunk, TypeOK
  <2> QED
    BY <1>1, <1>3, <1>6, <2>1, WriteTlsType DEF FlushChunk, NetVars, HistoryVars, Over
<1>7. CASE SendToTcp(p)
  <2>1. /\ pc[p] \notin Over /\ UNCHANGED << call, session, received >>
        /\ \E units : chan' = [chan EXCEPT ![p] = units]
    BY <1>7 DEF SendToTcp, HistoryVars, Over
  <2>2. chan'[e] = chan[e]
    BY <1>1, <2>1, PumpAt DEF TypeOK
  <2> QED
    BY <1>3, <2>1, <2>2
<1>8. ASSUME NEW outcome, Return(p, outcome), call[p] # "alert", pc[p] \notin Over,
             UNCHANGED << session, NetVars, refused, HistoryVars >>
      PROVE  Told(e, p)'
  BY <1>3, <1>8 DEF NetVars, HistoryVars
<1>9. CASE SendFails(p)
  BY <1>2, <1>8, <1>9 DEF SendFails, Over
<1>10. CASE FlushDone(p)
  BY <1>2, <1>3, <1>8, <1>10 DEF FlushDone, NetVars, HistoryVars, Over
<1>11. CASE FillFromTcp(p)
  BY <1>1, <1>11, ReaderFills
<1>12. CASE FillEof(p) \/ FillFails(p)
  BY <1>2, <1>8, <1>12 DEF FillEof, FillFails, FillEnds, Over
<1>13. CASE PumpStep(p)
  <2>1. call[p] # "alert" /\ pc[p] \notin Over
    BY <1>13, PumpAt DEF PumpStep, LocalAt, Over
  <2> QED
    BY <1>2, <1>3, <1>13, <2>1 DEF PumpStep, NetVars, HistoryVars
<1>14. CASE ProcessDone(p) \/ ReadNeedsMore(p)
  <2>1. /\ call[p] # "alert" /\ pc[p] \notin Over /\ received' = received /\ chan' = chan
        /\ call'[p] = call[p]
        /\ session'[p] \in {session[p], KeepPartial(session[p])}
    BY <1>14, PumpAt DEF ProcessDone, ReadNeedsMore, LocalAt, Over, NetVars, HistoryVars, TypeOK
  <2> QED
    BY <1>1, <1>3, <2>1, ReaderKeeps
<1>15. CASE ProcessFlight(p)
  <2>1. /\ pc[p] \notin Over /\ call[p] # "alert" /\ HasRecord(session[p])
        /\ received' = received /\ chan' = chan /\ session[p].hs # NumFlights
        /\ session'[p] = AcceptFlight(session[p])
        /\ NextRecord(session[p]) = Flight(session[p].hs + 1)
    BY <1>15, PumpAt DEF ProcessFlight, LocalAt, Over, NetVars, HistoryVars, TypeOK,
                         tls_is_handshaking, AcceptsNext, ExpectedFlight
  <2>2. NextRecord(session[p]).type # "data"
    BY <2>1 DEF Flight
  <2>3. /\ session'[p].plain = session[p].plain
        /\ session'[p].left = TakeRecord(session[p]).left
        /\ session'[p].inb = TakeRecord(session[p]).inb
    BY <1>1, <2>1, AcceptTakes
  <2> QED
    BY <1>1, <2>1, <2>2, <2>3, ReaderTakes
<1>16. CASE ProcessFails(p) \/ ReadError(p) \/ ReadCloseNotify(p)
  <2>1. /\ HasRecord(session[p]) /\ pc[p] \notin Over /\ received' = received /\ chan' = chan
        /\ \/ call'[p] = "alert"
           \/ call[p] # "alert" /\ NextRecord(session[p]).type # "data"
    BY <1>16, PumpAt DEF ProcessFails, ReadError, ReadCloseNotify, LocalAt, Over,
                         NetVars, HistoryVars, TypeOK
  <2>2. session'[p] \in {TakeRecord(session[p]), SendRecord(TakeRecord(session[p]), Alert)}
    BY <1>16, PumpAt DEF ProcessFails, ReadError, ReadCloseNotify, TypeOK
  <2>3. TakeRecord(session[p]) \in NovaTlsSession /\ TakeRecord(session[p]).plain = session[p].plain
    BY <1>1, <2>1, TakeRecordType
  <2>4. /\ session'[p].plain = session[p].plain
        /\ session'[p].left = TakeRecord(session[p]).left
        /\ session'[p].inb = TakeRecord(session[p]).inb
    BY <2>2, <2>3, SendRecordType, RecordsType
  <2> QED
    BY <1>1, <2>1, <2>4, ReaderTakes
<1>17. CASE ReadPlain(p)
  BY <1>1, <1>17, ReaderReads DEF ReadPlain, NetVars
<1>18. CASE WriteStep(p)
  <2> DEFINE n == Accepted(todo[p])
             bytes == [i \in 1 .. n |-> written[p] + i]
  <2>1. /\ pc[p] \notin Over /\ UNCHANGED << chan, received, call >>
        /\ session'[p] = tls_write_plain(session[p], bytes)
    BY <1>18, PumpAt DEF WriteStep, TypeOK, NetVars, Over
  <2>2. n \in Nat /\ written[p] \in Nat
    BY PumpAt, SmallerProperties, SessionAssumption DEF Accepted, TypeOK
  <2>3. bytes \in Seq(Nat)
    <3> HIDE DEF n
    <3> QED
      BY <2>2
  <2> HIDE DEF n, bytes
  <2>4. session'[p] = session[p] \/ session'[p] = SendRecord(session[p], Data(bytes))
    BY <2>1 DEF tls_write_plain
  <2> QED
    BY <1>3, <1>4, <2>1, <2>3, <2>4, RecordsType
<1> QED
  BY <1>2, <1>5, <1>6, <1>7, <1>9, <1>10, <1>11, <1>12, <1>13, <1>14, <1>15, <1>16, <1>17, <1>18
     DEF Step

-----------------------------------------------------------------------------
(* What the applications know.                                             *)

\* What a step of e does not take back.
Keeps(e) ==
    /\ written'[e] \in Nat /\ written[e] <= written'[e]
    /\ notified[e] => notified'[e] /\ written'[e] = written[e]

\* The end that does not move.
LEMMA FactsOther ==
    ASSUME PumpInv, NEW e \in Endpoint, NEW p \in Endpoint, Facts(e, p), Keeps(p),
           pc'[e] = pc[e], call'[e] = call[e], todo'[e] = todo[e],
           written'[e] = written[e], received'[e] = received[e],
           notified'[e] = notified[e], ended'[e] = ended[e]
    PROVE  Facts(e, p)'
<1>1. written[p] \in Nat /\ received[e] \in Seq(Nat)
  BY PumpAt DEF TypeOK
<1>2. Len(received[e]) \in Nat
  BY <1>1
<1> QED
  BY <1>1, <1>2 DEF Facts, Keeps

\* A step with which the application learns nothing.
LEMMA FactsSilent ==
    ASSUME PumpInv, NEW e \in Endpoint, NEW p \in Endpoint, Facts(e, p),
           written'[p] = written[p], notified'[p] = notified[p],
           received'[e] = received[e], ended'[e] = ended[e],
           notified'[e] => pc'[e] \in Over \/ call'[e] = "close",
           written'[e] + todo'[e] <= MaxBytes
    PROVE  Facts(e, p)'
BY DEF Facts

\* Which steps of an end touch what the applications see.
LEMMA Quietly ==
    ASSUME PumpInv, NEW e \in Endpoint, Step(e) \/ Use(e) \/ Crash(e),
           ~WriteStep(e), ~ReadPlain(e), ~ReadCloseNotify(e), ~Close(e)
    PROVE  UNCHANGED HistoryVars
<1>1. CASE Crash(e) \/ EndClose(e) \/ \E error : FailHandshake(e, error)
  BY <1>1 DEF Crash, EndClose, FailHandshake
<1>2. CASE Use(e)
  BY <1>2 DEF Use, Read, Write, Flush
<1>3. CASE FlushChunk(e) \/ SendToTcp(e) \/ FillFromTcp(e)
  BY <1>3 DEF FlushChunk, SendToTcp, FillFromTcp
<1>4. CASE SendFails(e) \/ FlushDone(e) \/ PumpStep(e)
  BY <1>1, <1>4 DEF SendFails, FlushDone, PumpStep
<1>5. CASE FillEof(e) \/ FillFails(e)
  BY <1>1, <1>5 DEF FillEof, FillFails, FillEnds
<1>6. CASE ProcessDone(e) \/ ProcessFlight(e) \/ ProcessFails(e) \/ ReadError(e) \/ ReadNeedsMore(e)
  BY <1>6 DEF ProcessDone, ProcessFlight, ProcessFails, ReadError, ReadNeedsMore
<1> QED
  BY <1>1, <1>2, <1>3, <1>4, <1>5, <1>6 DEF Step

\* write_step, after which nothing has been said that was not to be written.
LEMMA WriteStepSays ==
    ASSUME PumpInv, NEW e \in Endpoint, NEW p \in Endpoint, Facts(e, p), WriteStep(e)
    PROVE  /\ ~notified[e] /\ ~notified'[e]
           /\ written' = [written EXCEPT ![e] = written'[e]]
           /\ written'[e] \in Nat /\ written[e] <= written'[e]
           /\ written'[e] + todo'[e] <= MaxBytes /\ written'[e] <= MaxBytes
           /\ UNCHANGED << received, notified, ended >>
<1> DEFINE n == Accepted(todo[e])
<1>1. /\ written[e] \in Nat /\ todo[e] \in Nat /\ MaxBytes \in Nat
      /\ written[e] + todo[e] <= MaxBytes
  BY PumpAt, StreamAssumption DEF TypeOK, Facts
<1>2. n \in Nat /\ n <= todo[e]
  BY <1>1, SmallerProperties, SessionAssumption DEF Accepted
<1>3. /\ written'[e] = written[e] + n /\ todo'[e] \in {todo[e] - n, 0}
      /\ written' = [written EXCEPT ![e] = written'[e]]
      /\ UNCHANGED << received, notified, ended >>
  <2>1. written \in [Endpoint -> Nat] /\ todo \in [Endpoint -> Nat]
    BY PumpAt DEF TypeOK
  <2>2. /\ written' = [written EXCEPT ![e] = @ + n]
        /\ todo' = [todo EXCEPT ![e] = IF call[e] = "write_all" THEN @ - n ELSE 0]
        /\ UNCHANGED << received, notified, ended >>
    BY DEF WriteStep
  <2> HIDE DEF n
  <2>3. written'[e] = written[e] + n /\ todo'[e] \in {todo[e] - n, 0}
    BY <2>1, <2>2
  <2> QED
    BY <2>2, <2>3
<1>4. ~notified[e]
  BY PumpAt DEF WriteStep, LocalAt, Facts, Over
<1> HIDE DEF n
<1> QED
  BY <1>1, <1>2, <1>3, <1>4

\* What has been said stays said.
LEMMA StepKeeps ==
    ASSUME PumpInv, NEW e \in Endpoint, NEW p \in Endpoint, Facts(e, p),
           Step(e) \/ Use(e) \/ Crash(e)
    PROVE  Keeps(e)
<1>1. written[e] \in Nat
  BY PumpAt DEF TypeOK
<1>2. CASE WriteStep(e)
  BY <1>2, WriteStepSays DEF Keeps
<1>3. CASE ReadPlain(e) \/ ReadCloseNotify(e)
  <2>1. UNCHANGED << written, notified >>
    BY <1>3 DEF ReadPlain, ReadCloseNotify
  <2> QED
    BY <1>1, <2>1 DEF Keeps
<1>4. CASE Close(e)
  BY <1>1, <1>4, PumpAt DEF Close, Keeps, TypeOK
<1>5. CASE UNCHANGED HistoryVars
  BY <1>1, <1>5 DEF HistoryVars, Keeps
<1> QED
  BY <1>2, <1>3, <1>4, <1>5, Quietly

\* The clean end of the stream is where the peer put it.
LEMMA EndIsReal ==
    ASSUME PumpInv, NEW e \in Endpoint, NEW p \in Endpoint, e = Peer(p), Told(e, p),
           ReadCloseNotify(p)
    PROVE  notified[e] /\ Len(received[p]) = written[e]
<1>1. PICK log \in Seq(Record), start \in Seq(Nat), k \in Nat : Story(e, p, log, start, k)
  BY DEF Told
<1>2. /\ session[p] \in NovaTlsSession /\ pc[p] \notin Over /\ HasRecord(session[p])
      /\ chan'[e] = chan[e] /\ session'[p] = TakeRecord(session[p])
      /\ call[p] # "alert" /\ session[p].plain = <<>> /\ received[p] \in Seq(Nat)
      /\ NextRecord(session[p]).type = "close_notify"
  BY PumpAt DEF ReadCloseNotify, LocalAt, Over, TypeOK, NetVars
<1>3. k + 1 <= Len(log) /\ NextRecord(session[p]) = log[k + 1]
  <2>1. /\ session'[p].left = TakeRecord(session[p]).left
        /\ session'[p].inb = TakeRecord(session[p]).inb
        /\ pc[p] \notin Over /\ HasRecord(session[p]) /\ chan'[e] = chan[e]
    BY <1>2
  <2> QED
    BY <1>1, <2>1, TakeStands, SMTT(30)
<1>4. notified[e] /\ start[k + 1] = written[e]
  <2>1. k + 1 \in 1 .. Len(log) /\ Tells(log, start, written[e], notified[e])
    BY <1>1, <1>3 DEF Story
  <2> QED
    BY <1>2, <1>3, <2>1 DEF Tells
<1>5. Len(received[p]) = start[k + 1]
  <2>1. Len(received[p]) + Len(<<>>) = start[k + 1]
    BY <1>1, <1>2 DEF Story, Continues
  <2>2. Len(received[p]) \in Nat /\ Len(<<>>) = 0
    BY <1>2
  <2> QED
    BY <2>1, <2>2
<1> QED
  BY <1>4, <1>5

\* Whatever an end does, its application knows no more than is true.
LEMMA FactsStay ==
    ASSUME PumpInv, NEW e \in Endpoint, NEW p \in Endpoint, p = Peer(e), Facts(e, p), Told(p, e),
           Step(e) \/ Use(e) \/ Crash(e)
    PROVE  Facts(e, p)'
<1>1. /\ p # e /\ written'[p] = written[p] /\ notified'[p] = notified[p]
      /\ Waits(p)
  BY Bystander, Pair DEF Waits
<1>2. /\ written[e] \in Nat /\ todo[e] \in Nat /\ MaxBytes \in Nat
      /\ written[e] + todo[e] <= MaxBytes /\ written[e] + 0 <= MaxBytes
  <2>1. /\ written[e] \in Nat /\ todo[e] \in Nat /\ MaxBytes \in Nat
        /\ written[e] + todo[e] <= MaxBytes
    BY PumpAt, StreamAssumption DEF TypeOK, Facts
  <2> QED
    BY <2>1
<1>3. CASE Crash(e) \/ EndClose(e) \/ \E error : FailHandshake(e, error)
  <2>1. pc'[e] \in Over /\ todo'[e] = 0 /\ UNCHANGED HistoryVars
    BY <1>3, PumpAt DEF Crash, EndClose, FailHandshake, Release, Goto, TypeOK, Over
  <2> QED
    BY <1>1, <1>2, <2>1, FactsSilent DEF HistoryVars
<1>4. ASSUME UNCHANGED HistoryVars, pc[e] \notin Over, todo'[e] \in {todo[e], 0},
             call'[e] = call[e] \/ call[e] # "close"
      PROVE  Facts(e, p)'
  <2>1. notified'[e] => call'[e] = "close"
    BY <1>4 DEF Facts, HistoryVars
  <2> QED
    BY <1>1, <1>2, <1>4, <2>1, FactsSilent DEF HistoryVars
<1>5. CASE Read(e) \/ Flush(e)
  BY <1>4, <1>5, PumpAt DEF Read, Flush, PlaceAt, Over
<1>6. CASE Write(e, "write") \/ Write(e, "write_all")
  <2>1. /\ ~notified[e] /\ UNCHANGED HistoryVars
    BY <1>6, PumpAt DEF Write, PlaceAt, Facts, Over
  <2>2. \E n \in 1 .. MaxBytes - written[e] : todo'[e] = n
    BY <1>6, PumpAt DEF Write, TypeOK
  <2>3. written[e] + todo'[e] <= MaxBytes
    BY <1>2, <2>2
  <2> QED
    BY <1>1, <2>1, <2>3, FactsSilent DEF HistoryVars
<1>7. CASE Close(e)
  <2>1. /\ UNCHANGED << todo, written, received, ended >> /\ call'[e] = "close"
    BY <1>7, PumpAt DEF Close, TypeOK
  <2> QED
    BY <1>1, <1>2, <2>1, FactsSilent
<1>8. ASSUME NEW outcome, Return(e, outcome), call[e] # "close", pc[e] \notin Over,
             UNCHANGED HistoryVars
      PROVE  Facts(e, p)'
  <2>1. todo'[e] = 0
    BY <1>8, PumpAt DEF Return, TypeOK
  <2> QED
    BY <1>4, <1>8, <2>1
<1>9. CASE FlushChunk(e) \/ SendToTcp(e) \/ FillFromTcp(e)
  BY <1>4, <1>9 DEF FlushChunk, SendToTcp, FillFromTcp, Over
<1>10. CASE SendFails(e)
  BY <1>3, <1>8, <1>10 DEF SendFails, Over
<1>11. CASE FlushDone(e)
  <2>1. pc[e] \notin Over
    BY <1>11 DEF FlushDone, Over
  <2> QED
    BY <1>3, <1>4, <1>8, <1>11, <2>1 DEF FlushDone
<1>12. CASE FillEof(e) \/ FillFails(e)
  BY <1>3, <1>8, <1>12 DEF FillEof, FillFails, FillEnds, Over
<1>13. CASE PumpStep(e)
  <2>1. call[e] # "close" /\ pc[e] \notin Over
    BY <1>13, PumpAt DEF PumpStep, LocalAt, Over
  <2> QED
    BY <1>3, <1>4, <1>13, <2>1 DEF PumpStep
<1>14. CASE ProcessDone(e) \/ ProcessFlight(e) \/ ReadNeedsMore(e)
  BY <1>4, <1>14 DEF ProcessDone, ProcessFlight, ReadNeedsMore, Over
<1>15. CASE ProcessFails(e)
  BY <1>4, <1>15, PumpAt DEF ProcessFails, LocalAt, Over
<1>16. CASE ReadError(e)
  BY <1>8, <1>16, PumpAt DEF ReadError, LocalAt, Over
<1>17. CASE ReadPlain(e)
  <2>1. /\ InOrder(received'[e]) /\ received'[e] \in Seq(Nat)
        /\ Len(received[e]) <= Len(received'[e]) /\ Len(received'[e]) <= written[p]
    <3>1. chan'[p] = chan[p]
      BY <1>17 DEF ReadPlain, NetVars
    <3> QED
      BY <1>1, <1>17, <3>1, ReaderReads DEF Facts
  <2>2. /\ UNCHANGED << written, notified, ended >> /\ todo'[e] = 0
        /\ ~notified[e]
    BY <1>17, PumpAt DEF ReadPlain, Return, TypeOK, LocalAt, Facts, Over
  <2>3. ended[e] => Len(received'[e]) = written[p]
    <3>1. /\ written[p] \in Nat /\ Len(received[e]) \in Nat /\ Len(received'[e]) \in Nat
      BY <2>1, PumpAt DEF TypeOK
    <3>2. ended[e] => Len(received[e]) = written[p]
      BY DEF Facts
    <3> QED
      BY <2>1, <3>1, <3>2
  <2> QED
    BY <1>2, <2>1, <2>2, <2>3 DEF Facts
<1>18. CASE ReadCloseNotify(e)
  <2>1. notified[p] /\ Len(received[e]) = written[p]
    BY <1>18, Pair, EndIsReal
  <2>2. /\ UNCHANGED << written, received, notified >> /\ todo'[e] = 0 /\ ~notified[e]
    BY <1>18, PumpAt DEF ReadCloseNotify, Return, TypeOK, LocalAt, Facts, Over
  <2> QED
    BY <1>2, <2>1, <2>2 DEF Facts
<1>19. CASE WriteStep(e)
  BY <1>1, <1>19, WriteStepSays, FactsSilent
<1> QED
  BY <1>3, <1>5, <1>6, <1>7, <1>9, <1>10, <1>11, <1>12, <1>13, <1>14, <1>15, <1>16, <1>17, <1>18,
     <1>19 DEF Step, Use

-----------------------------------------------------------------------------
(* The invariant.                                                          *)

\* At the start the client has sealed its ClientHello, and the server nothing.
LEMMA InitChannel == Init => ChannelInv
<1> SUFFICES ASSUME Init, NEW e \in Endpoint
             PROVE  Told(e, Peer(e)) /\ Facts(e, Peer(e))
  BY DEF ChannelInv
<1> DEFINE p == Peer(e)
           fresh == [Freed EXCEPT !.hs = 1]
           hello == Flight(1)
<1>1. p \in Endpoint /\ p # e
  BY Pair
<1>2. /\ session = [d \in Endpoint |-> IF d = "client" THEN SendRecord(fresh, hello) ELSE Freed]
      /\ written[e] = 0 /\ todo[e] = 0 /\ chan[e] = <<>> /\ scratch[e] = <<>>
      /\ received[p] = <<>> /\ received[e] = <<>> /\ notified[e] = FALSE /\ ended[e] = FALSE
      /\ written[p] = 0
  BY <1>1 DEF Init
<1>3. /\ fresh = [hs |-> 1, left |-> <<>>, plain |-> <<>>, inb |-> <<>>, outb |-> <<>>]
      /\ Freed = [hs |-> 0, left |-> <<>>, plain |-> <<>>, inb |-> <<>>, outb |-> <<>>]
      /\ fresh \in NovaTlsSession /\ hello \in Record
  <2>1. fresh = [hs |-> 1, left |-> <<>>, plain |-> <<>>, inb |-> <<>>, outb |-> <<>>]
    BY DEF Freed
  <2>2. <<>> \in Seq(Unit) /\ <<>> \in Seq(Nat) /\ 1 \in 0 .. NumFlights
    BY SessionAssumption
  <2> HIDE DEF fresh
  <2> QED
    BY <2>1, <2>2, RecordsType DEF Freed, NovaTlsSession
<1> HIDE DEF fresh
<1>4. /\ SendRecord(fresh, hello).left = <<>> /\ SendRecord(fresh, hello).inb = <<>>
      /\ SendRecord(fresh, hello).plain = <<>>
  BY <1>3, SendRecordType
<1>5. hello.type = "hs"
  BY DEF Flight
<1> HIDE DEF p, hello
<1>6. session[p].left = <<>> /\ session[p].inb = <<>> /\ session[p].plain = <<>>
  BY <1>1, <1>2, <1>3, <1>4
<1>7. Tells(<<>>, <<0>>, 0, FALSE)
  BY DEF Tells
<1>8. ASSUME NEW log \in Seq(Record), NEW start \in Seq(Nat), Tells(log, start, 0, FALSE),
             start[1] = 0, Behind(log, 0, <<>>, session[e])
      PROVE  Told(e, p)
  <2>1. 0 \in 0 .. Len(log) /\ 0 \in Nat /\ 0 + 1 = 1 /\ 2 * 0 = 0 /\ Len(<<>>) = 0
        /\ 0 + 0 = 0 /\ 0 <= 2 * Len(log)
    OBVIOUS
  <2>2. Carries(log, <<>>, 0)
    BY <2>1, CarriesNothing
  <2>3. Reads(0, session[p]) = 0
    BY <1>6, <2>1 DEF Reads, Incoming
  <2>4. Arrives(log, 0, session[p])
    BY <1>6, <2>1, <2>2 DEF Arrives
  <2>5. Pipe(e, p, log, 0)
    BY <1>2, <1>8, <2>1, <2>2, <2>3, <2>4 DEF Pipe
  <2>6. Continues(start[1], session[p], received[p])
    <3>1. Len(received[p]) + Len(session[p].plain) = 0
      BY <1>2, <1>6, <2>1
    <3>2. \A j \in 1 .. Len(session[p].plain) : FALSE
      BY <1>6, <2>1
    <3> QED
      BY <1>8, <3>1, <3>2 DEF Continues
  <2>7. Story(e, p, log, start, 0)
    BY <1>2, <1>8, <2>1, <2>5, <2>6 DEF Story
  <2> QED
    BY <2>1, <2>7 DEF Told
<1>9. Told(e, p)
  <2>1. <<>> \in Seq(Record) /\ <<0>> \in Seq(Nat) /\ <<0>>[1] = 0
    OBVIOUS
  <2>2. CASE e = "server"
    <3>1. session[e].outb = <<>>
      BY <1>2, <1>3, <2>2
    <3>2. Behind(<<>>, 0, <<>>, session[e])
      BY <3>1 DEF Behind, Carries
    <3> QED
      BY <1>7, <1>8, <2>1, <3>2
  <2>3. CASE e = "client"
    <3>1. session[e] = SendRecord(fresh, hello)
      BY <1>2, <2>3
    <3>2. Behind(<<>>, 0, <<>>, fresh)
      BY <1>3 DEF Behind, Carries
    <3>3. Behind(Append(<<>>, hello), 0, <<>>, session[e]) /\ Append(<<>>, hello) \in Seq(Record)
      <4>1. 0 \in Nat /\ <<>> \in Seq(Unit)
        OBVIOUS
      <4>2. Append(<<>>, hello) \in Seq(Record)
        BY <1>3, <2>1, CarriesAppend
      <4> QED
        BY <1>3, <2>1, <3>1, <3>2, <4>1, <4>2, BehindMore
    <3>4. Tells(Append(<<>>, hello), Append(<<0>>, 0), 0, FALSE)
      <4>1. FALSE \in BOOLEAN /\ 0 \in Nat /\ 0 <= 0
        OBVIOUS
      <4>2. hello.type # "data" /\ hello.type # "close_notify"
        BY <1>5
      <4> QED
        BY <1>3, <1>7, <2>1, <4>1, <4>2, TellsMore
    <3>5. Append(<<0>>, 0) \in Seq(Nat) /\ Append(<<0>>, 0)[1] = 0
      OBVIOUS
    <3> QED
      BY <1>8, <3>3, <3>4, <3>5
  <2> QED
    BY <2>2, <2>3 DEF Endpoint
<1>10. Facts(e, p)
  <2>1. Len(<<>>) = 0 /\ MaxBytes \in Nat
    BY StreamAssumption
  <2> QED
    BY <1>2, <2>1 DEF Facts, InOrder
<1> QED
  BY <1>9, <1>10 DEF p

\* TCP fails: what was under way is gone, and nothing follows it.
LEMMA FaultStays ==
    ASSUME PumpInv, NEW e \in Endpoint, NEW p \in Endpoint, Told(e, p), Facts(e, p),
           ResetByPeer \/ TcpFault
    PROVE  Told(e, p)' /\ Facts(e, p)'
<1>1. /\ UNCHANGED << pc, call, session, scratch, todo, written, received, notified, ended >>
      /\ chan'[e] = <<>> /\ broken'
  BY DEF ResetByPeer, TcpFault, HistoryVars
<1>2. PICK log \in Seq(Record), start \in Seq(Nat), k \in Nat : Story(e, p, log, start, k)
  BY DEF Told
<1>3. Pipe(e, p, log, k)'
  <2>1. ASSUME pc[p] \notin Over
        PROVE  Carries(log, <<>>, Reads(k, session[p])) /\ Arrives(log, k, session[p])
    <3>1. Carries(log, chan[e], Reads(k, session[p])) /\ Arrives(log, k, session[p])
      BY <1>2, <2>1 DEF Story, Pipe
    <3>2. Reads(k, session[p]) \in Nat /\ Len(chan[e]) \in Nat /\ Len(log) \in Nat
      <4>1. chan[e] \in Seq(Unit)
        BY PumpAt DEF TypeOK
      <4>2. Reads(k, session[p]) \in Nat
        BY ReadsType
      <4> QED
        BY <4>1, <4>2
    <3>3. Reads(k, session[p]) <= 2 * Len(log)
      BY <3>1, <3>2 DEF Carries
    <3> QED
      BY <3>1, <3>2, <3>3, CarriesNothing
  <2> QED
    BY <1>1, <2>1 DEF Pipe
<1>4. Story(e, p, log, start, k)'
  BY <1>1, <1>2, <1>3 DEF Story
<1> QED
  BY <1>1, <1>4 DEF Told, Facts

\* Every step keeps it.
LEMMA NextChannel == PumpInv /\ ChannelInv /\ [Next]_vars => ChannelInv'
<1> SUFFICES ASSUME PumpInv, ChannelInv, [Next]_vars, NEW e \in Endpoint
             PROVE  Told(e, Peer(e))' /\ Facts(e, Peer(e))'
  BY DEF ChannelInv, Peer
<1> DEFINE p == Peer(e)
<1>1. p \in Endpoint /\ p # e /\ Peer(p) = e /\ Endpoint = {e, p} /\ p = Peer(e)
  BY Pair
<1> HIDE DEF p
<1>2. Told(e, p) /\ Facts(e, p) /\ Told(p, e) /\ Facts(p, e)
  BY <1>1 DEF ChannelInv
<1>3. ASSUME Step(e) \/ Use(e) \/ Crash(e) PROVE Told(e, p)' /\ Facts(e, p)'
  BY <1>1, <1>2, <1>3, WriterStays, FactsStay DEF Facts
<1>4. ASSUME Step(p) \/ Use(p) \/ Crash(p) PROVE Told(e, p)' /\ Facts(e, p)'
  <2>1. Told(e, p)'
    BY <1>1, <1>2, <1>4, ReaderStays DEF Facts
  <2>2. Keeps(p)
    BY <1>1, <1>2, <1>4, StepKeeps
  <2>3. Facts(e, p)'
    BY <1>1, <1>2, <1>4, <2>2, Bystander, FactsOther
  <2> QED
    BY <2>1, <2>3
<1>5. CASE ResetByPeer \/ TcpFault
  BY <1>1, <1>2, <1>5, FaultStays
<1>6. CASE UNCHANGED vars
  <2>1. UNCHANGED << pc, call, session, scratch, todo, chan, broken, written, received,
                     notified, ended >>
    BY <1>6 DEF vars
  <2>2. PICK log \in Seq(Record), start \in Seq(Nat), k \in Nat : Story(e, p, log, start, k)
    BY <1>2 DEF Told
  <2>3. Story(e, p, log, start, k)'
    BY <2>1, <2>2 DEF Story, Pipe
  <2>4. Told(e, p)'
    BY <2>3 DEF Told
  <2>5. Facts(e, p)'
    BY <1>2, <2>1 DEF Facts
  <2> QED
    BY <1>1, <2>4, <2>5
<1> QED
  BY <1>1, <1>3, <1>4, <1>5, <1>6 DEF Next

-----------------------------------------------------------------------------
(* The refinement.                                                         *)

\* Bytes in order are the first bytes the peer wrote.
LEMMA InOrderIs ==
    ASSUME NEW got \in Seq(Nat), InOrder(got)
    PROVE  got = Channel!FirstBytes(Len(got))
BY DEF InOrder, Channel!FirstBytes

\* What an end does is a step of the channel, or none.
LEMMA StepRefines ==
    ASSUME PumpInv, ChannelInv, ChannelInv', PumpInv', NEW e \in Endpoint,
           Step(e) \/ Use(e) \/ Crash(e)
    PROVE  Channel!Next \/ UNCHANGED Channel!vars
<1> DEFINE p == Peer(e)
<1>1. /\ p \in Endpoint /\ Peer(p) = e /\ p # e /\ p = Peer(e)
      /\ Channel!Peer(e) = p /\ e \in Channel!Endpoint
  BY Pair DEF Channel!Peer, Channel!Endpoint, Peer, Endpoint
<1> HIDE DEF p
<1>2. Facts(e, p) /\ Facts(e, p)' /\ Told(p, e)
  BY <1>1 DEF ChannelInv
<1>3. /\ written \in [Endpoint -> Nat] /\ received \in [Endpoint -> Seq(Nat)]
      /\ notified \in [Endpoint -> BOOLEAN] /\ ended \in [Endpoint -> BOOLEAN]
      /\ received' \in [Endpoint -> Seq(Nat)] /\ MaxBytes \in Nat
  BY StreamAssumption DEF PumpInv, IInv, TypeOK
<1>4. CASE WriteStep(e)
  <2>1. /\ ~notified[e] /\ written' = [written EXCEPT ![e] = written'[e]]
        /\ written'[e] \in Nat /\ written[e] <= written'[e] /\ written'[e] <= MaxBytes
        /\ UNCHANGED << received, notified, ended >>
    BY <1>1, <1>2, <1>4, WriteStepSays
  <2>2. CASE written'[e] = written[e]
    BY <1>3, <2>1, <2>2 DEF Channel!vars
  <2>3. CASE written'[e] # written[e]
    <3>1. written'[e] \in written[e] + 1 .. MaxBytes
      BY <1>3, <2>1, <2>3
    <3>2. Channel!Write(e)
      BY <2>1, <3>1 DEF Channel!Write
    <3> QED
      BY <1>1, <3>2 DEF Channel!Next
  <2> QED
    BY <2>2, <2>3
<1>5. CASE ReadPlain(e)
  <2> DEFINE more == received'[e]
  <2>1. /\ received' = [received EXCEPT ![e] = more]
        /\ UNCHANGED << written, notified, ended >>
    BY <1>3, <1>5 DEF ReadPlain
  <2>2. /\ Len(received[e]) <= Len(more) /\ Len(more) <= written[p] /\ InOrder(more)
    <3>1. chan'[p] = chan[p] /\ Waits(p)
      BY <1>1, <1>5, Bystander DEF ReadPlain, NetVars, Waits
    <3> QED
      BY <1>1, <1>2, <1>5, <3>1, ReaderReads DEF Facts
  <2>3. /\ more \in Seq(Nat) /\ received[e] \in Seq(Nat) /\ Len(more) \in Nat
        /\ Len(received[e]) \in Nat /\ written[p] \in Nat
    BY <1>1, <1>3
  <2>4. more = Channel!FirstBytes(Len(more)) /\ received[e] = Channel!FirstBytes(Len(received[e]))
    BY <1>2, <2>2, <2>3, InOrderIs DEF Facts
  <2> HIDE DEF more
  <2>5. CASE Len(more) = Len(received[e])
    <3>1. received' = received
      BY <1>3, <2>1, <2>4, <2>5
    <3> QED
      BY <2>1, <3>1 DEF Channel!vars
  <2>6. CASE Len(more) # Len(received[e])
    <3>1. ~ended[e]
      BY <1>2, <2>2, <2>3, <2>6 DEF Facts
    <3>2. Len(more) \in Len(received[e]) + 1 .. written[p]
      BY <2>2, <2>3, <2>6
    <3>3. received' = [received EXCEPT ![e] = Channel!FirstBytes(Len(more))]
      BY <2>1, <2>4
    <3>4. Channel!Read(e)
      BY <1>1, <2>1, <3>1, <3>2, <3>3 DEF Channel!Read
    <3> QED
      BY <1>1, <3>4 DEF Channel!Next
  <2> QED
    BY <2>5, <2>6
<1>6. CASE ReadCloseNotify(e)
  <2>1. notified[p] /\ Len(received[e]) = written[p]
    BY <1>1, <1>2, <1>6, EndIsReal
  <2>2. Channel!ReadEnd(e)
    BY <1>1, <1>6, <2>1 DEF ReadCloseNotify, Channel!ReadEnd
  <2> QED
    BY <1>1, <2>2 DEF Channel!Next
<1>7. CASE Close(e)
  <2>1. ~notified[e]
    BY <1>2, <1>7, PumpAt DEF Close, PlaceAt, Facts, Over
  <2>2. Channel!Close(e)
    BY <1>7, <2>1 DEF Close, Channel!Close
  <2> QED
    BY <1>1, <2>2 DEF Channel!Next
<1>8. CASE UNCHANGED HistoryVars
  BY <1>8 DEF HistoryVars, Channel!vars
<1> QED
  BY <1>4, <1>5, <1>6, <1>7, <1>8, Quietly

\* The two streams implement the channel: for every chunk, fragment, window
\* and buffer, whatever fails, an application reads what the other wrote, in
\* order and once, and Ok(0) for a close_notify only behind its last byte
\* (write_step, read_step, flush_out, fill_from_tcp and the shim's queues).
THEOREM StreamsAreAChannel == Spec => ImplementsChannel
<1>1. Init => Channel!Init
  BY DEF Init, Channel!Init, Channel!Endpoint, Endpoint
<1>2. PumpInv /\ PumpInv' /\ ChannelInv /\ ChannelInv' /\ [Next]_vars
        => [Channel!Next]_(Channel!vars)
  <2> SUFFICES ASSUME PumpInv, PumpInv', ChannelInv, ChannelInv', [Next]_vars
               PROVE  Channel!Next \/ UNCHANGED Channel!vars
    OBVIOUS
  <2>1. CASE \E e \in Endpoint : Step(e) \/ Use(e) \/ Crash(e)
    BY <2>1, StepRefines
  <2>2. CASE ResetByPeer \/ TcpFault \/ UNCHANGED vars
    BY <2>2 DEF ResetByPeer, TcpFault, vars, HistoryVars, Channel!vars
  <2> QED
    BY <2>1, <2>2 DEF Next
<1> QED
  BY <1>1, <1>2, PumpInvariance, InitChannel, NextChannel, PTL
     DEF Spec, ImplementsChannel, Channel!Spec

=============================================================================
