------------------------ MODULE TlsLifecycle_proofs ------------------------
(***************************************************************************)
(* Proofs about TlsLifecycle, for configurations with any number of ALPN   *)
(* names: who owns what at every statement (Memory invariant), and what    *)
(* mbedTLS has been told by then (Course).                                 *)
(***************************************************************************)
EXTENDS TlsLifecycle, SequenceTheorems, TLAPS

-----------------------------------------------------------------------------
(* Ownership.                                                              *)

\* What connect or accept itself must release, by the place where it is.
CallHolds ==
    { o \in Object :
        \/ o = "socket" /\ pc \notin {"open", "closed", "failed"}
        \/ o = "builder" /\ pc \in (Building \ {"builder_new"}) \cup Constructing
        \/ o = "session" /\ pc \in Constructing \cup {"pump"}
        \/ o = "sni" /\ pc \in Constructing /\ Client }

\* The ALPN list is still the builder's.
BeforeMove == Building \cup {"arguments", "setup", "trust", "client_ca", "move_alpn"}
                       \cup (IF Client THEN {} ELSE {"own_cert"})

BuilderParts == {"roots", "pins", "alpn", "certs", "auth_roots"}
SessionParts == {"alpn", "session_pins"}

\* Who holds what at each statement: Owned alone is not inductive, since it does
\* not say whose the ALPN list is, or that a failing call lists all it holds.
MemoryInv ==
    /\ pc \in PC
    /\ holds \in [Holder -> SUBSET Object]
    /\ stray = {}
    /\ live = holds["call"] \cup holds["builder"] \cup holds["session"] \cup holds["stream"]
    /\ holds["call"] = CallHolds
    /\ holds["stream"] = IF pc = "open" THEN {"socket", "session"} ELSE {}
    /\ holds["builder"] \subseteq BuilderParts
    /\ holds["session"] \subseteq SessionParts
    /\ pc \notin (Building \ {"builder_new"}) \cup Constructing => holds["builder"] = {}
    /\ pc \notin Constructing \cup {"pump", "open"} => holds["session"] = {}
    /\ "alpn" \notin holds["builder"] \cap holds["session"]
    /\ pc \in BeforeMove =>
          /\ "alpn" \notin holds["session"]
          /\ added # 0 => "alpn" \in holds["builder"]

Setters == Building \ {"builder_new"}

\* Releasing objects takes what the builder and the session among them hold.
LEMMA GoneIs ==
  ASSUME NEW objects \in SUBSET Object
  PROVE  Gone(objects) = objects \cup (IF "builder" \in objects THEN holds["builder"] ELSE {})
                                 \cup (IF "session" \in objects THEN holds["session"] ELSE {})
BY DEF Gone, Object, Parts, Holder

\* A call that releases all it holds and fails leaves nothing behind.
LEMMA FailKeeps ==
  ASSUME MemoryInv, UNCHANGED config,
         NEW objects, NEW error, Fail(objects, error),
         CallHolds = objects \cup {"socket"}, pc \notin {"open", "closed", "failed"}
  PROVE  MemoryInv'
<1> DEFINE os == objects \cup {"socket"}
<1>1. os \in SUBSET Object /\ "call" \notin os /\ "stream" \notin os
  BY DEF CallHolds, Object, Parts
<1>2. holds["call"] = os /\ holds["stream"] = {}
  BY DEF MemoryInv
<1>3. "builder" \notin os => holds["builder"] = {}
  <2>1. SUFFICES ASSUME "builder" \notin CallHolds PROVE holds["builder"] = {}
    OBVIOUS
  <2>2. pc \notin (Building \ {"builder_new"}) \cup Constructing
    BY <2>1 DEF CallHolds, Object
  <2> QED
    BY <2>2 DEF MemoryInv
<1>4. "session" \notin os => holds["session"] = {}
  <2>1. SUFFICES ASSUME "session" \notin CallHolds PROVE holds["session"] = {}
    OBVIOUS
  <2>2. pc \notin Constructing \cup {"pump"}
    BY <2>1 DEF CallHolds, Object
  <2> QED
    BY <2>2 DEF MemoryInv
<1>5. /\ live' = live \ Gone(os)
      /\ stray' = stray \cup (Gone(os) \ live)
      /\ holds' = [g \in Holder |-> IF g \in os THEN {}
                                    ELSE IF g = "call" THEN holds[g] \ os ELSE holds[g]]
      /\ pc' = "failed"
  BY DEF Fail, Free
<1>6. Gone(os) = live
  BY <1>1, <1>2, <1>3, <1>4, GoneIs DEF MemoryInv
<1>7. holds' = [g \in Holder |-> {}]
  BY <1>1, <1>2, <1>3, <1>4, <1>5 DEF Holder
<1> QED
  BY <1>5, <1>6, <1>7 DEF MemoryInv, CallHolds, PC, Building, Constructing, Holder, BeforeMove

\* At the first line the call holds the socket and nothing else.
LEMMA InitMemory == Init => MemoryInv
BY DEF Init, MemoryInv, CallHolds, Object, Parts, Holder, PC, Building, Constructing, BeforeMove

\* A statement between two of the same kind, which leaves the memory alone.
LEMMA GotoKeeps ==
  ASSUME MemoryInv, UNCHANGED config, UNCHANGED Memory,
         \/ pc \in Setters /\ pc' \in Setters
         \/ pc \in Constructing /\ pc' \in Constructing,
         added' = added, pc \in Constructing /\ pc' \in BeforeMove' => pc \in BeforeMove
  PROVE  MemoryInv'
<1>1. CallHolds' = CallHolds
  BY DEF CallHolds, Setters, Building, Constructing, Client
<1>2. pc \in PC /\ pc' \in PC /\ pc # "open" /\ pc' # "open"
  BY DEF PC, Setters, Building, Constructing
<1>3. pc' \in BeforeMove' => pc \in BeforeMove
  BY DEF Setters, BeforeMove
<1> QED
  BY <1>1, <1>2, <1>3 DEF MemoryInv, Memory, Setters, Building, Constructing

\* A statement that gives the builder copies of its own.
LEMMA GrabKeeps ==
  ASSUME MemoryInv, UNCHANGED config, NEW objects \in SUBSET BuilderParts,
         Grab("builder", objects), pc \in Setters, pc' \in Setters,
         added' = added \/ "alpn" \in objects
  PROVE  MemoryInv'
<1>1. CallHolds' = CallHolds
  BY DEF CallHolds, Setters, Building, Constructing, Client
<1>2. /\ live' = live \cup objects /\ stray' = {}
      /\ holds' = [holds EXCEPT !["builder"] = @ \cup objects]
  BY DEF Grab, MemoryInv
<1>3. /\ pc \in PC /\ pc' \in PC /\ pc # "open" /\ pc' # "open"
      /\ pc \in BeforeMove /\ pc \notin Constructing \cup {"pump", "open"}
      /\ pc' \notin Constructing \cup {"pump", "open"}
  BY DEF PC, Setters, Building, Constructing, BeforeMove
<1>4. holds' \in [Holder -> SUBSET Object]
  BY <1>2 DEF MemoryInv, BuilderParts, Object, Parts
<1>5. /\ holds'["builder"] = holds["builder"] \cup objects
      /\ \A h \in {"call", "session", "stream"} : holds'[h] = holds[h]
  BY <1>2 DEF MemoryInv, Holder
<1>6. holds["session"] = {} /\ (added # 0 => "alpn" \in holds["builder"])
  BY <1>3 DEF MemoryInv
<1> QED
  BY <1>1, <1>2, <1>3, <1>4, <1>5, <1>6 DEF MemoryInv, Setters

\* tls_cfg_free and return: the builder is all there is beside the socket.
LEMMA AbandonKeeps ==
  ASSUME MemoryInv, UNCHANGED config, pc \in Setters, NEW error, Abandon(error)
  PROVE  MemoryInv'
<1>1. CallHolds = {"builder"} \cup {"socket"}
  BY DEF CallHolds, Setters, Building, Constructing, Object
<1> QED
  BY <1>1, FailKeeps DEF Abandon, Setters, Building

\* A tls_cfg_ call that copies its argument keeps the memory invariant.
LEMMA CopyKeeps ==
  ASSUME MemoryInv, UNCHANGED config, pc \in Setters,
         NEW objects \in SUBSET BuilderParts, NEW place \in Setters, Copy(objects, place)
  PROVE  MemoryInv'
<1>1. CASE Abandon("Internal")
  BY <1>1, AbandonKeeps
<1>2. CASE Grab("builder", objects) /\ Goto(place) /\ UNCHANGED << added, settings >>
  BY <1>2, GrabKeeps DEF Goto
<1> QED
  BY <1>1, <1>2 DEF Copy

\* So does every statement of build_client_cfg and build_server_cfg.
LEMMA BuildKeepsMemory ==
  ASSUME MemoryInv, Build, UNCHANGED config
  PROVE  MemoryInv'
<1> USE DEF Setters, Building
<1>1. CASE CheckArguments
  <2>1. pc = "arguments" /\ CallHolds = {} \cup {"socket"}
    BY <1>1 DEF CheckArguments, CallHolds, Constructing, Object
  <2>2. ASSUME NEW error, Fail({}, error) PROVE MemoryInv'
    BY <2>1, <2>2, FailKeeps
  <2>3. CASE Goto("builder_new") /\ UNCHANGED << Memory, added, settings >>
    <3>1. CallHolds' = CallHolds
      BY <2>1, <2>3 DEF CallHolds, Constructing, Goto
    <3> QED
      BY <2>1, <2>3, <3>1 DEF MemoryInv, Memory, Goto, PC, Constructing, BeforeMove
  <2> QED
    BY <1>1, <2>2, <2>3 DEF CheckArguments
<1>2. CASE CfgNew
  <2>1. pc = "builder_new" /\ CallHolds = {} \cup {"socket"}
    BY <1>2 DEF CfgNew, CallHolds, Constructing, Object
  <2>2. CASE Fail({}, "Internal")
    BY <2>1, <2>2, FailKeeps
  <2>3. CASE Grab("call", {"builder"}) /\ pc' \in {"verify", "cert"} /\ added' = added
    <3>1. CallHolds' = CallHolds \cup {"builder"}
      BY <2>1, <2>3 DEF CallHolds, Constructing, Object
    <3>2. /\ live' = live \cup {"builder"} /\ stray' = {}
          /\ holds' = [holds EXCEPT !["call"] = @ \cup {"builder"}]
      BY <2>3 DEF Grab, MemoryInv
    <3>3. holds' \in [Holder -> SUBSET Object]
      BY <3>2 DEF MemoryInv, Object
    <3>4. /\ holds'["call"] = holds["call"] \cup {"builder"}
          /\ \A h \in {"builder", "session", "stream"} : holds'[h] = holds[h]
      BY <3>2 DEF MemoryInv, Holder
    <3> QED
      BY <2>1, <2>3, <3>1, <3>2, <3>3, <3>4 DEF MemoryInv, PC, Constructing, BeforeMove
  <2> QED
    BY <1>2, <2>2, <2>3 DEF CfgNew, Goto
<1>3. CASE SetVerification
  <2>1. CASE Abandon("Internal")
    BY <1>3, <2>1, AbandonKeeps DEF SetVerification
  <2>2. CASE \E objects \in SUBSET BuilderParts : Copy(objects, "alpn")
    BY <1>3, <2>2, CopyKeeps DEF SetVerification
  <2>3. CASE Goto("alpn") /\ UNCHANGED << Memory, added, settings >>
    BY <1>3, <2>3, GotoKeeps DEF SetVerification, Goto, Constructing, Memory
  <2> QED
    BY <1>3, <2>1, <2>2, <2>3 DEF SetVerification, BuilderParts
<1>4. CASE AlpnAdd
  <2>1. CASE Abandon("Internal")
    BY <1>4, <2>1, AbandonKeeps DEF AlpnAdd
  <2>2. CASE Grab("builder", {"alpn"}) /\ Goto("alpn")
    BY <1>4, <2>2, GrabKeeps DEF AlpnAdd, Goto, BuilderParts
  <2> QED
    BY <1>4, <2>1, <2>2 DEF AlpnAdd
<1>5. CASE AlpnAdded
  BY <1>5, GotoKeeps DEF AlpnAdded, Goto, Constructing, Memory
<1>6. CASE SetCertKey
  <2>1. CASE Abandon("Internal")
    BY <1>6, <2>1, AbandonKeeps DEF SetCertKey
  <2>2. CASE \E place \in {"new", "auth"} : Copy({"certs"}, place)
    BY <1>6, <2>2, CopyKeeps DEF SetCertKey, BuilderParts
  <2>3. CASE Goto("new") /\ UNCHANGED << Memory, added, settings >>
    BY <1>6, <2>3, GotoKeeps DEF SetCertKey, Goto, Constructing, Memory
  <2> QED
    BY <1>6, <2>1, <2>2, <2>3 DEF SetCertKey
<1>7. CASE SetClientAuth
  <2>1. CASE Abandon("Internal")
    BY <1>7, <2>1, AbandonKeeps DEF SetClientAuth
  <2>2. CASE Copy({"auth_roots"}, "alpn")
    BY <1>7, <2>2, CopyKeeps DEF SetClientAuth, BuilderParts
  <2>3. CASE Goto("alpn") /\ UNCHANGED << Memory, added, settings >>
    BY <1>7, <2>3, GotoKeeps DEF SetClientAuth, Goto, Constructing, Memory
  <2> QED
    BY <1>7, <2>1, <2>2, <2>3 DEF SetClientAuth
<1> QED
  BY <1>1, <1>2, <1>3, <1>4, <1>5, <1>6, <1>7 DEF Build

\* tls_client_new and tls_server_new up to the allocated session.
LEMMA NewSessionKeeps ==
  ASSUME MemoryInv, NewSession, UNCHANGED config
  PROVE  MemoryInv'
<1>1. pc = "new" /\ pc \in Setters
  BY DEF NewSession, Setters, Building
<1>2. CASE \E error : Abandon(error)
  BY <1>1, <1>2, AbandonKeeps
<1>3. CASE Grab("call", {"session"} \cup (Temporaries \ {"builder"})) /\ Goto("setup")
           /\ added' = added
  <2> DEFINE objects == {"session"} \cup (Temporaries \ {"builder"})
  <2>1. pc' = "setup" /\ pc' \in Constructing /\ pc \notin Constructing
    BY <1>1, <1>3 DEF Goto, Constructing
  <2>2. CallHolds' = CallHolds \cup objects
    BY <1>1, <2>1 DEF CallHolds, Temporaries, Client, Object, Building
  <2>3. /\ live' = live \cup objects /\ stray' = {}
        /\ holds' = [holds EXCEPT !["call"] = @ \cup objects]
    BY <1>3 DEF Grab, MemoryInv
  <2>4. holds' \in [Holder -> SUBSET Object]
    BY <2>3 DEF MemoryInv, Object, Temporaries
  <2>5. /\ holds'["call"] = holds["call"] \cup objects
        /\ \A h \in {"builder", "session", "stream"} : holds'[h] = holds[h]
    BY <2>3 DEF MemoryInv, Holder
  <2>6. pc \in BeforeMove
    BY <1>1 DEF BeforeMove, Building
  <2> HIDE DEF objects
  <2> QED
    BY <1>1, <1>3, <2>1, <2>2, <2>3, <2>4, <2>5, <2>6 DEF MemoryInv, PC, Setters
<1> QED
  BY <1>2, <1>3 DEF NewSession

\* Between the statements of a constructor the list stays where it is.
LEMMA ToldKeeps ==
  ASSUME MemoryInv, UNCHANGED config, pc \in Constructing,
         NEW place \in Constructing, place \in BeforeMove => pc \in BeforeMove,
         NEW s, Told(s, place)
  PROVE  MemoryInv'
<1>1. pc' = place /\ UNCHANGED Memory /\ added' = added
  BY DEF Told, Goto, Memory
<1>2. BeforeMove' = BeforeMove
  BY DEF BeforeMove, Client
<1> QED
  BY <1>1, <1>2, GotoKeeps

\* A construction that goes on to its clean-up with rc # 0.
LEMMA BrokenKeeps ==
  ASSUME MemoryInv, UNCHANGED config, pc \in Constructing, NEW error, Broken(error)
  PROVE  MemoryInv'
<1>1. pc' = "discard" /\ UNCHANGED Memory /\ added' = added
  BY DEF Broken, Memory
<1>2. pc' \notin BeforeMove'
  BY <1>1 DEF BeforeMove, Building
<1> QED
  BY <1>1, <1>2, GotoKeeps DEF Constructing

\* The ALPN list changes owner and stays with one.
LEMMA MoveKeeps ==
  ASSUME MemoryInv, UNCHANGED config, pc = "move_alpn", added # 0, UNCHANGED << live, stray >>,
         holds' = Moved("alpn", "builder", "session"),
         pc' \in {"discard", "ssl_setup"} \/ (Client /\ pc' = "own_cert")
  PROVE  MemoryInv'
<1>1. CallHolds' = CallHolds
  BY DEF CallHolds, Building, Constructing, Client
<1>2. /\ pc \in BeforeMove /\ pc' \notin BeforeMove'
      /\ pc \in Constructing /\ pc' \in Constructing
  BY DEF BeforeMove, Building, Client, Constructing
<1>3. "alpn" \in holds["builder"] /\ "alpn" \notin holds["session"]
  BY <1>2 DEF MemoryInv
<1>4. holds' \in [Holder -> SUBSET Object]
  BY DEF MemoryInv, Moved, Object, Parts
<1>5. /\ holds'["builder"] = holds["builder"] \ {"alpn"}
      /\ holds'["session"] = holds["session"] \cup {"alpn"}
      /\ holds'["call"] = holds["call"] /\ holds'["stream"] = holds["stream"]
  BY DEF MemoryInv, Moved, Holder
<1> QED
  BY <1>1, <1>2, <1>3, <1>4, <1>5 DEF MemoryInv, PC, Constructing, SessionParts

\* The builder and the temporary copy of the name go, the session stays.
LEMMA DiscardKeeps ==
  ASSUME MemoryInv, Discard, UNCHANGED config
  PROVE  MemoryInv'
<1>1. /\ pc = "discard" /\ pc \in Constructing
      /\ CallHolds = (Temporaries \cup {"session"}) \cup {"socket"}
  BY DEF Discard, CallHolds, Temporaries, Constructing, Building, Object
<1>2. CASE Fail(Temporaries \cup {"session"}, err)
  BY <1>1, <1>2, FailKeeps
<1>3. CASE Free("call", Temporaries) /\ Goto("pump")
  <2>1. Temporaries \in SUBSET Object /\ "builder" \in Temporaries
        /\ "session" \notin Temporaries /\ "socket" \notin Temporaries
        /\ "call" \notin Temporaries /\ "stream" \notin Temporaries
    BY DEF Temporaries, Object
  <2>2. Gone(Temporaries) = Temporaries \cup holds["builder"]
    BY <2>1, GoneIs
  <2>3. /\ live' = live \ (Temporaries \cup holds["builder"])
        /\ stray' = stray \cup ((Temporaries \cup holds["builder"]) \ live)
        /\ holds' = [g \in Holder |-> IF g \in Temporaries THEN {}
                              ELSE IF g = "call" THEN holds[g] \ Temporaries ELSE holds[g]]
    BY <1>3, <2>2 DEF Free
  <2>4. holds' \in [Holder -> SUBSET Object]
    BY <2>3 DEF MemoryInv
  <2>5. /\ holds'["builder"] = {} /\ holds'["session"] = holds["session"]
        /\ holds'["call"] = {"socket", "session"} /\ holds'["stream"] = {}
    BY <1>1, <2>1, <2>3 DEF MemoryInv, Holder
  <2>6. pc' = "pump" /\ pc' \notin Building \cup Constructing /\ pc' \in PC
        /\ pc' \notin BeforeMove' /\ CallHolds' = {"socket", "session"}
    BY <1>3 DEF Goto, Building, Constructing, PC, BeforeMove, CallHolds, Object
  <2>7. stray' = {}
    BY <1>1, <2>3 DEF MemoryInv
  <2>8. live' = {"socket", "session"} \cup holds["session"]
    <3>1. live = ((Temporaries \cup {"session"}) \cup {"socket"})
                 \cup holds["builder"] \cup holds["session"]
      BY <1>1 DEF MemoryInv
    <3>2. /\ holds["builder"] \cap {"socket", "session"} = {}
          /\ holds["session"] \cap Temporaries = {}
          /\ holds["builder"] \cap holds["session"] = {}
      BY DEF MemoryInv, BuilderParts, SessionParts, Temporaries
    <3> QED
      BY <2>1, <2>3, <3>1, <3>2
  <2> QED
    BY <2>4, <2>5, <2>6, <2>7, <2>8 DEF MemoryInv
<1> QED
  BY <1>2, <1>3 DEF Discard

\* Every statement of tls_client_new and tls_server_new.
LEMMA ConstructKeepsMemory ==
  ASSUME MemoryInv, Construct, UNCHANGED config
  PROVE  MemoryInv'
<1>1. CASE NewSession
  BY <1>1, NewSessionKeeps
<1>2. CASE Discard
  BY <1>2, DiscardKeeps
<1>3. CASE Setup
  <2>1. pc \in Constructing /\ \A place \in {"trust", "own_cert"} : place \in Constructing
    BY <1>3 DEF Setup, Constructing
  <2>2. pc \in BeforeMove
    BY <1>3 DEF Setup, BeforeMove
  <2> QED
    BY <1>3, <2>1, <2>2, ToldKeeps, BrokenKeeps DEF Setup
<1>4. CASE Trust
  <2>1. pc = "trust" /\ pc \in Constructing /\ "move_alpn" \in Constructing
    BY <1>4 DEF Trust, Constructing
  <2>2. pc \in BeforeMove
    BY <2>1 DEF BeforeMove
  <2>3. CASE (\E error : Broken(error)) \/ (\E s : Told(s, "move_alpn"))
    BY <2>1, <2>2, <2>3, ToldKeeps, BrokenKeeps
  <2>4. CASE Grab("session", {"session_pins"}) /\ Goto("move_alpn") /\ UNCHANGED added
    <3>1. pc' = "move_alpn" /\ pc' \in Constructing
      BY <2>1, <2>4 DEF Goto
    <3>2. /\ live' = live \cup {"session_pins"} /\ stray' = {}
          /\ holds' = [holds EXCEPT !["session"] = @ \cup {"session_pins"}]
      BY <2>4 DEF Grab, MemoryInv
    <3>3. holds' \in [Holder -> SUBSET Object]
      BY <3>2 DEF MemoryInv, Object, Parts
    <3>4. /\ holds'["session"] = holds["session"] \cup {"session_pins"}
          /\ \A h \in {"call", "builder", "stream"} : holds'[h] = holds[h]
      BY <3>2 DEF MemoryInv, Holder
    <3>5. CallHolds' = CallHolds
      BY <2>1, <3>1 DEF CallHolds, Client
    <3> QED
      BY <2>1, <2>2, <2>4, <3>1, <3>2, <3>3, <3>4, <3>5 DEF MemoryInv, PC, SessionParts
  <2> QED
    BY <1>4, <2>3, <2>4 DEF Trust
<1>5. CASE MoveAlpn
  <2>1. pc = "move_alpn" /\ pc \in Constructing /\ pc \in BeforeMove
        /\ \A place \in {"own_cert", "ssl_setup"} : place \in Constructing
    BY <1>5 DEF MoveAlpn, Constructing, BeforeMove
  <2>2. CASE \E place \in {"own_cert", "ssl_setup"} : Told(settings, place)
    BY <2>1, <2>2, ToldKeeps
  <2>3. CASE /\ added # 0 /\ UNCHANGED << live, stray >>
             /\ holds' = Moved("alpn", "builder", "session")
             /\ pc' \in {"discard", "ssl_setup"} \/ (Client /\ pc' = "own_cert")
    BY <2>1, <2>3, MoveKeeps
  <2> QED
    BY <1>5, <2>2, <2>3 DEF MoveAlpn
<1>6. CASE OwnCert
  <2>1. pc = "own_cert" /\ pc \in Constructing
        /\ \A place \in {"client_ca", "ssl_setup"} : place \in Constructing
    BY <1>6 DEF OwnCert, Constructing
  <2>2. CASE \E error : Broken(error)
    BY <2>1, <2>2, BrokenKeeps
  <2>3. CASE \E s : Told(s, IF Client THEN "ssl_setup" ELSE "client_ca")
    <3>1. ~Client => "own_cert" \in BeforeMove
      BY DEF BeforeMove
    <3>2. "ssl_setup" \notin BeforeMove
      BY DEF BeforeMove, Building
    <3> QED
      BY <2>1, <2>3, <3>1, <3>2, ToldKeeps
  <2> QED
    BY <1>6, <2>2, <2>3 DEF OwnCert
<1>7. CASE ClientCA
  <2>1. pc \in Constructing /\ pc \in BeforeMove /\ "move_alpn" \in Constructing
    BY <1>7 DEF ClientCA, Constructing, BeforeMove
  <2> QED
    BY <1>7, <2>1, ToldKeeps, BrokenKeeps DEF ClientCA
<1>8. CASE SslSetup
  <2>1. pc \in Constructing /\ "discard" \in Constructing /\ "discard" \notin BeforeMove
    BY <1>8 DEF SslSetup, Constructing, BeforeMove, Building
  <2> QED
    BY <1>8, <2>1, ToldKeeps, BrokenKeeps DEF SslSetup
<1> QED
  BY <1>1, <1>2, <1>3, <1>4, <1>5, <1>6, <1>7, <1>8 DEF Construct

\* The pump returns: the session is freed, or the stream gets it.
LEMMA PumpKeepsMemory ==
  ASSUME MemoryInv, PumpFails \/ PeerRefused \/ Established, UNCHANGED config
  PROVE  MemoryInv'
<1>1. pc = "pump" /\ pc \notin Building \cup Constructing
      /\ CallHolds = {"session"} \cup {"socket"}
  BY DEF PumpFails, PeerRefused, Established, CallHolds, Building, Constructing, Object
<1>2. CASE \E error : Fail({"session"}, error)
  BY <1>1, <1>2, FailKeeps
<1>3. CASE Established
  <2>1. /\ pc' = "open" /\ UNCHANGED << live, stray >>
        /\ holds' = [holds EXCEPT !["call"] = @ \ {"socket", "session"},
                                  !["stream"] = {"socket", "session"}]
    BY <1>3 DEF Established
  <2>2. CallHolds' = {} /\ pc' \in PC /\ pc' \notin Building \cup Constructing
        /\ pc' \notin BeforeMove'
    BY <2>1 DEF CallHolds, PC, Building, Constructing, BeforeMove
  <2>3. holds' \in [Holder -> SUBSET Object]
    BY <2>1 DEF MemoryInv, Object
  <2>4. /\ holds'["call"] = {} /\ holds'["stream"] = {"socket", "session"}
        /\ holds'["builder"] = {} /\ holds'["session"] = holds["session"]
    BY <1>1, <2>1 DEF MemoryInv, Holder
  <2> QED
    BY <1>1, <2>1, <2>2, <2>3, <2>4 DEF MemoryInv
<1> QED
  BY <1>2, <1>3 DEF PumpFails, PeerRefused

\* @close releases all that the stream holds.
LEMMA CloseKeepsMemory ==
  ASSUME MemoryInv, Close, UNCHANGED config
  PROVE  MemoryInv'
<1> DEFINE os == {"socket", "session"}
<1>1. pc = "open" /\ pc' = "closed" /\ pc \notin Building \cup Constructing
  BY DEF Close, Building, Constructing
<1>2. Gone(os) = os \cup holds["session"]
  BY GoneIs DEF Object
<1>3. /\ holds["call"] = {} /\ holds["builder"] = {} /\ holds["stream"] = os
      /\ live = os \cup holds["session"]
  BY <1>1 DEF MemoryInv, CallHolds, Object
<1>4. live' = {} /\ stray' = {}
  BY <1>2, <1>3 DEF Close, Free, MemoryInv
<1>5. holds' = [g \in Holder |-> {}]
  BY <1>3 DEF Close, Free, Holder
<1>6. CallHolds' = {} /\ pc' \in PC /\ pc' \notin BeforeMove'
  BY <1>1 DEF CallHolds, PC, BeforeMove, Building, Constructing
<1> QED
  BY <1>1, <1>4, <1>5, <1>6 DEF MemoryInv, Holder

\* The memory invariant is inductive.
LEMMA NextMemory == MemoryInv /\ [Next]_vars => MemoryInv'
<1> SUFFICES ASSUME MemoryInv, [Next]_vars PROVE MemoryInv'
  OBVIOUS
<1>1. CASE Next
  BY <1>1, BuildKeepsMemory, ConstructKeepsMemory, PumpKeepsMemory, CloseKeepsMemory DEF Next
<1>2. CASE UNCHANGED vars
  BY <1>2 DEF vars, MemoryInv, CallHolds, BeforeMove, Client
<1> QED
  BY <1>1, <1>2

\* At every statement of connect and accept: who holds what.
THEOREM MemoryInvariance == Spec => []MemoryInv
BY InitMemory, NextMemory, PTL DEF Spec

\* Every object has one owner at every statement of connect and accept, and
\* nothing is released twice, whatever fails and however many ALPN names.
THEOREM SingleOwner == Spec => []Owned
<1>1. MemoryInv => Owned
  <2> SUFFICES ASSUME MemoryInv PROVE Owned
    OBVIOUS
  <2>1. stray = {} /\ live = UNION { holds[h] : h \in Holder }
    BY DEF MemoryInv, Holder
  <2>2. \A g, h \in Holder : g # h => holds[g] \cap holds[h] = {}
    <3>1. /\ holds["call"] \subseteq {"socket", "builder", "session", "sni"}
          /\ holds["stream"] \subseteq {"socket", "session"}
          /\ holds["call"] = {} \/ holds["stream"] = {}
      BY DEF MemoryInv, CallHolds, Building, Constructing
    <3>2. /\ holds["builder"] \cap {"socket", "builder", "session", "sni"} = {}
          /\ holds["session"] \cap {"socket", "builder", "session", "sni"} = {}
          /\ holds["builder"] \cap holds["session"] = {}
      BY DEF MemoryInv, BuilderParts, SessionParts
    <3> QED
      BY <3>1, <3>2 DEF Holder
  <2>3. "builder" \notin live => holds["builder"] = {}
    <3>1. "builder" \notin live => pc \notin Setters \cup Constructing
      BY DEF MemoryInv, CallHolds, Setters, Object
    <3> QED
      BY <3>1 DEF MemoryInv, Setters
  <2>4. "session" \notin live => holds["session"] = {}
    <3>1. "session" \notin live => pc \notin Constructing \cup {"pump"} /\ pc # "open"
      BY DEF MemoryInv, CallHolds, Object
    <3> QED
      BY <3>1 DEF MemoryInv
  <2> QED
    BY <2>1, <2>2, <2>3, <2>4 DEF Owned
<1> QED
  BY <1>1, MemoryInvariance, PTL

\* A failed call and a closed stream leave nothing allocated and no socket
\* open; an open stream owns exactly its socket, its session and its parts.
THEOREM ReleasedWhenOver == Spec => []ReleasedOnReturn
<1>1. MemoryInv => ReleasedOnReturn
  <2> SUFFICES ASSUME MemoryInv PROVE ReleasedOnReturn
    OBVIOUS
  <2>1. pc \in {"open", "closed", "failed"} => holds["call"] = {} /\ holds["builder"] = {}
    BY DEF MemoryInv, CallHolds, Building, Constructing
  <2>2. pc \in {"closed", "failed"} => holds["session"] = {} /\ holds["stream"] = {}
    BY DEF MemoryInv, Constructing
  <2> QED
    BY <2>1, <2>2 DEF MemoryInv, ReleasedOnReturn
<1> QED
  BY <1>1, MemoryInvariance, PTL

-----------------------------------------------------------------------------
(* The course of the construction.                                         *)

\* The construction got to a place without an error.
On(places) == pc \in places \cup {"pump", "open"} \/ (pc = "discard" /\ err = "none")

\* By then every ALPN name has been added; mbedTLS has the list; it has the
\* certificate; it has the verification mode.
Numbered == IF Client THEN On({"cert", "new", "own_cert", "ssl_setup", "setup", "trust", "move_alpn"})
            ELSE On({"new", "setup", "own_cert", "client_ca", "move_alpn", "ssl_setup"})
Listed == IF Client THEN On({"own_cert", "ssl_setup"}) ELSE On({"ssl_setup"})
Certified == IF Client THEN On({"ssl_setup"}) ELSE On({"client_ca", "move_alpn", "ssl_setup"})
Trusting == IF Client THEN On({"move_alpn", "own_cert", "ssl_setup"})
            ELSE On({"move_alpn", "ssl_setup"})

\* What the construction has checked, and told mbedTLS, at each place.  A mode
\* set too early or too late, or a check passed over, breaks it.
Course ==
    /\ pc \in {"verify", "trust"} => Client
    /\ pc \in {"auth", "client_ca"} => ~Client
    /\ On((Building \cup Constructing) \ {"discard"}) =>
          IF Client THEN config.name # "empty" ELSE config.certs \in {"bad", "good"}
    /\ On(Constructing \ {"discard"}) =>
          config.name = "valid" /\ config.certs # "keyless"
    /\ pc = "new" => config.certs # "keyless"
    /\ \A i \in 1 .. added : config.alpn[i] # "empty"
    /\ Numbered => added = Len(config.alpn)
    /\ On(Constructing \ {"setup", "discard"}) =>
          settings.alpn = IF Listed THEN added ELSE 0
    /\ Listed => \A i \in DOMAIN config.alpn : config.alpn[i] # "long"
    /\ On(Constructing \ {"setup", "discard"}) =>
          (settings.own <=> Certified /\ config.certs = "good")
    /\ Certified => config.certs \in {"none", "good"}
    /\ Client /\ config.mode = "Pinned" /\ pc \notin {"arguments", "builder_new", "verify", "failed", "closed"}
          => config.material = "good"
    /\ On(Constructing \ {"setup", "discard"}) /\ ~Trusting =>
          ~settings.pin /\ (~Client => settings.authmode = "NONE")
    /\ Trusting =>
          /\ config.mode \in NeedsMaterial => config.material = "good"
          /\ config.mode \in Rooted \cup {"Required"} => settings.authmode = "REQUIRED"
          /\ config.mode \in Rooted \cup {"Required", "Optional"} => settings.ca
          /\ config.mode \in {"Pinned", "Optional"} => settings.authmode = "OPTIONAL"
          /\ config.mode \in {"InsecureSkipVerify", "NoClientAuth"} => settings.authmode = "NONE"
          /\ settings.pin <=> config.mode = "Pinned"
    /\ On({}) => (settings.hostname <=> Client /\ config.mode \in Rooted)

\* What is on record once the handshake was over or the call failed.
Record ==
    /\ EstablishedIsVerified
    /\ ErrorTellsCause
    /\ err \in {"none", "Internal", "InvalidPem", "AlpnNoCommonProtocol"}
    /\ err = "InvalidPem" => ~Client \/ config.certs # "none" \/ config.mode = "CustomRoots"
    /\ pc \notin {"discard", "failed"} => err = "none"
    /\ pc \notin {"failed", "open", "closed"} => result = "none"

Facts == TypeOK /\ Course /\ Record

-----------------------------------------------------------------------------
LEMMA ConfigFacts ==
  ASSUME config \in ClientConfig \cup ServerConfig
  PROVE  /\ config \in Config
         /\ Client => config.mode \in VerificationMode
         /\ ~Client => config.mode \in ClientCertMode /\ config.name = "valid"
         /\ config.mode \notin NeedsMaterial => config.material = "missing"
         /\ config.alpn \in Seq({"empty", "long", "fine"})
         /\ DOMAIN config.alpn = 1 .. Len(config.alpn)
         /\ Len(config.alpn) \in Nat
<1>1. config \in Config
  BY DEF ClientConfig, ServerConfig
<1>2. PICK n \in 0 .. MaxAlpn : config.alpn \in [1 .. n -> {"empty", "long", "fine"}]
  BY <1>1 DEF Config, AlpnList
<1>3. config.alpn \in Seq({"empty", "long", "fine"})
  BY <1>2, LifecycleAssumption
<1> QED
  BY <1>1, <1>3 DEF ClientConfig, ServerConfig, Client

\* The first line of connect and accept.
LEMMA InitFacts == Init => Facts
<1> SUFFICES ASSUME Init PROVE Facts
  OBVIOUS
<1>1. config \in ClientConfig \cup ServerConfig /\ Len(config.alpn) \in Nat
  BY ConfigFacts DEF Init
<1>2. TypeOK
  BY <1>1 DEF Init, TypeOK, PC, Object, Holder, Settings, Defaults, Certificate, NoCertificate
<1>3. Course
  BY <1>1 DEF Init, Course, On, Numbered, Listed, Certified, Trusting, Building, Constructing
<1>4. Record
  BY DEF Init, Record, EstablishedIsVerified, ErrorTellsCause, CertificateError
<1> QED
  BY <1>2, <1>3, <1>4 DEF Facts

\* A call that fails with an error that has its cause.
LEMMA FailKeepsFacts ==
  ASSUME TypeOK, Course, Record, MemoryInv, MemoryInv', UNCHANGED config,
         NEW objects, NEW error \in Error, Fail(objects, error), peer' \in Certificate,
         ErrorTellsCause', pc \notin {"open", "closed", "failed"}
  PROVE  Facts'
<1>1. pc' = "failed" /\ result' = error /\ UNCHANGED << config, added, settings, err >>
  BY DEF Fail
<1>2. TypeOK'
  <2>1. live' \subseteq Object /\ stray' \subseteq Object /\ pc' \in PC
        /\ holds' \in [Holder -> SUBSET Object]
    BY DEF MemoryInv, Holder
  <2> QED
    BY <1>1, <2>1 DEF TypeOK
<1>3. Course'
  BY <1>1 DEF Course, On, Numbered, Listed, Certified, Trusting, Building, Constructing, Client
<1>4. Record'
  BY <1>1 DEF Record, EstablishedIsVerified, Client
<1> QED
  BY <1>2, <1>3, <1>4 DEF Facts

\* An error with no certificate, name or PEM in it.
PlainError == {"Internal", "HandshakeFailure", "UnsupportedProtocolVersion", "Net",
               "AlpnNoCommonProtocol"}

\* A call that fails with an error that needs none.
LEMMA PlainFailKeeps ==
  ASSUME Facts, MemoryInv, MemoryInv', UNCHANGED << config, peer >>,
         NEW objects, NEW error \in PlainError, Fail(objects, error),
         pc \notin {"open", "closed", "failed"}
  PROVE  Facts'
<1>1. ErrorTellsCause'
  BY DEF Fail, ErrorTellsCause, PlainError, CertificateError
<1>2. error \in Error /\ peer' \in Certificate
  BY DEF Error, SetupError, PlainError, Facts, TypeOK
<1> QED
  BY <1>1, <1>2, FailKeepsFacts DEF Facts

\* Any other statement before the pump returns.
LEMMA GoesOn ==
  ASSUME Facts, MemoryInv', UNCHANGED << config, peer, result >>,
         pc \notin {"open", "closed", "failed"}, pc' \notin {"open", "closed", "failed"},
         settings' \in Settings, added' \in 0 .. Len(config.alpn),
         \/ err' = "none"
         \/ /\ pc' = "discard" /\ err' \in {"Internal", "InvalidPem", "AlpnNoCommonProtocol"}
            /\ err' = "InvalidPem"
                  => ~Client \/ config.certs # "none" \/ config.mode = "CustomRoots"
  PROVE  TypeOK' /\ Record'
<1>1. result = "none" /\ result' = "none"
  BY DEF Facts, Record
<1>2. /\ live' \subseteq Object /\ stray' \subseteq Object /\ pc' \in PC
      /\ holds' \in [Holder -> SUBSET Object]
  BY DEF MemoryInv, Holder
<1>3. TypeOK'
  BY <1>1, <1>2 DEF TypeOK, Facts, SetupError
<1>4. Record'
  BY <1>1 DEF Record, EstablishedIsVerified, ErrorTellsCause, CertificateError, Client
<1> QED
  BY <1>3, <1>4

\* Every statement of build_client_cfg and build_server_cfg.
LEMMA BuildKeepsFacts ==
  ASSUME Facts, MemoryInv, MemoryInv', Build, UNCHANGED << config, peer >>
  PROVE  Facts'
<1> DEFINE same == UNCHANGED << added, settings, err, result >>
<1>1. /\ ~Client => config.mode \in ClientCertMode /\ config.name = "valid"
      /\ Client => config.mode \in VerificationMode
      /\ Len(config.alpn) \in Nat /\ DOMAIN config.alpn = 1 .. Len(config.alpn)
      /\ config.name \in {"empty", "invalid", "valid"}
      /\ config.certs \in {"none", "keyless", "bad", "good"}
      /\ config \in ClientConfig \cup ServerConfig
  BY ConfigFacts DEF Facts, TypeOK, Config
<1>2. /\ TypeOK /\ Course /\ Record
      /\ added \in 0 .. Len(config.alpn) /\ settings \in Settings
  BY DEF Facts, TypeOK
<1>3. err = "none" /\ pc \in Building \cup {"arguments"}
  BY <1>2 DEF Build, CheckArguments, CfgNew, SetVerification, AlpnAdd, AlpnAdded,
              SetCertKey, SetClientAuth, Building, Record
<1>4. ASSUME pc' \in Building, same, UNCHANGED << config, peer >>, Course'
      PROVE  Facts'
  BY <1>2, <1>3, <1>4, GoesOn DEF Facts, Building
<1>5. ASSUME NEW objects, NEW error \in PlainError, Fail(objects, error)
      PROVE  Facts'
  BY <1>3, <1>5, PlainFailKeeps DEF Building
<1>6. CASE CheckArguments
  <2>1. pc = "arguments"
    BY <1>6 DEF CheckArguments
  <2>2. CASE /\ pc' = "builder_new" /\ same
             /\ IF Client THEN config.name # "empty" ELSE config.certs \in {"bad", "good"}
    <3>1. Course'
      BY <1>1, <1>2, <2>1, <2>2 DEF Course, On, Numbered, Listed, Certified, Trusting,
            Building, Constructing, Client
    <3> QED
      BY <1>4, <2>2, <3>1 DEF Building
  <2>3. CASE Fail({}, "InvalidServerName") /\ config.name = "empty"
    <3>1. ErrorTellsCause'
      BY <2>3 DEF Fail, ErrorTellsCause, CertificateError
    <3> QED
      BY <1>2, <2>1, <2>3, <3>1, FailKeepsFacts DEF Error, SetupError, TypeOK
  <2>4. CASE Fail({}, "InvalidPem") /\ ~Client
    <3>1. ErrorTellsCause'
      BY <2>4 DEF Fail, ErrorTellsCause, CertificateError, Client
    <3> QED
      BY <1>2, <2>1, <2>4, <3>1, FailKeepsFacts DEF Error, SetupError, TypeOK
  <2> QED
    BY <1>6, <2>2, <2>3, <2>4 DEF CheckArguments, Goto
<1>7. CASE CfgNew
  <2>1. CASE Fail({}, "Internal")
    BY <1>5, <2>1 DEF PlainError
  <2>2. CASE pc = "builder_new" /\ pc' = (IF Client THEN "verify" ELSE "cert") /\ same
    <3>1. Course'
      BY <1>1, <1>2, <2>2 DEF Course, On, Numbered, Listed, Certified, Trusting,
            Building, Constructing, Client
    <3> QED
      BY <1>4, <2>2, <3>1 DEF Building
  <2> QED
    BY <1>7, <2>1, <2>2 DEF CfgNew, Goto
<1>8. CASE SetVerification
  <2>1. CASE \E objects : Fail(objects, "Internal")
    BY <1>5, <2>1 DEF PlainError
  <2>2. CASE /\ pc = "verify" /\ pc' = "alpn" /\ same
             /\ config.mode = "Pinned" => config.material = "good"
    <3>1. Course'
      BY <1>1, <1>2, <2>2 DEF Course, On, Numbered, Listed, Certified, Trusting,
            Building, Constructing, Client, AllAdded
    <3> QED
      BY <1>4, <2>2, <3>1 DEF Building
  <2> QED
    BY <1>1, <1>2, <1>8, <2>1, <2>2 DEF SetVerification, Copy, Abandon, Goto, Course, On, Building, Client
<1>9. CASE AlpnAdded
  <2>1. /\ pc = "alpn" /\ AllAdded /\ same
        /\ pc' = (IF Client THEN "cert" ELSE "new")
    BY <1>9 DEF AlpnAdded, Goto
  <2>2. Course'
    BY <1>1, <1>2, <2>1 DEF Course, On, Numbered, Listed, Certified, Trusting,
            Building, Constructing, Client, AllAdded
  <2> QED
    BY <1>4, <2>1, <2>2 DEF Building
<1>10. CASE SetCertKey
  <2>1. CASE \E objects : Fail(objects, "Internal")
    BY <1>5, <2>1 DEF PlainError
  <2>2. CASE /\ pc = "cert" /\ config.certs # "keyless" /\ same
             /\ pc' = (IF Client THEN "new" ELSE "auth")
    <3>1. Course'
      BY <1>1, <1>2, <2>2 DEF Course, On, Numbered, Listed, Certified, Trusting,
            Building, Constructing, Client, AllAdded
    <3> QED
      BY <1>4, <2>2, <3>1 DEF Building
  <2> QED
    BY <1>1, <1>2, <1>10, <2>1, <2>2 DEF SetCertKey, Copy, Abandon, Goto, Course, On, Building, Client
<1>11. CASE SetClientAuth
  <2>1. CASE \E objects : Fail(objects, "Internal")
    BY <1>5, <2>1 DEF PlainError
  <2>2. CASE /\ pc = "auth" /\ pc' = "alpn" /\ same
    <3>1. Course'
      BY <1>1, <1>2, <2>2 DEF Course, On, Numbered, Listed, Certified, Trusting,
            Building, Constructing, Client, AllAdded
    <3> QED
      BY <1>4, <2>2, <3>1 DEF Building
  <2> QED
    BY <1>1, <1>2, <1>11, <2>1, <2>2 DEF SetClientAuth, Copy, Abandon, Goto, Course, On, Building, Client
<1>12. CASE AlpnAdd
  <2>1. CASE Abandon("Internal")
    BY <1>5, <2>1 DEF PlainError, Abandon
  <2>2. CASE /\ pc = "alpn" /\ added # Len(config.alpn) /\ config.alpn[added + 1] # "empty"
             /\ added' = added + 1 /\ pc' = "alpn" /\ UNCHANGED << settings, err, result >>
    <3>1. added' \in 0 .. Len(config.alpn)
      BY <1>1, <1>2, <2>2
    <3>2. Course'
      BY <1>1, <1>2, <2>2 DEF Course, On, Numbered, Listed, Certified, Trusting,
            Building, Constructing, Client
    <3> QED
      BY <1>2, <1>3, <2>2, <3>1, <3>2, GoesOn DEF Facts
  <2> QED
    BY <1>12, <2>1, <2>2 DEF AlpnAdd, AllAdded, Goto
<1> QED
  BY <1>6, <1>7, <1>8, <1>9, <1>10, <1>11, <1>12 DEF Build

\* Settings, one field at a time.
LEMMA SettingsFields ==
  ASSUME NEW s \in Settings, NEW mode
  PROVE  /\ Anchored(s, "REQUIRED") \in Settings /\ Anchored(s, "OPTIONAL") \in Settings
         /\ mode \in VerificationMode => ClientTrust(s, mode) \in Settings
         /\ mode \in ClientCertMode => ServerTrust(s, mode) \in Settings
BY DEF Settings, Anchored, ClientTrust, ServerTrust, VerificationMode, ClientCertMode, Rooted

\* What tls_client_new makes of a verification mode.
LEMMA ClientTrustIs ==
  ASSUME NEW s \in Settings, NEW mode \in VerificationMode, ~s.pin
  PROVE  LET t == ClientTrust(s, mode) IN
         /\ mode \in Rooted => t.authmode = "REQUIRED" /\ t.ca
         /\ mode = "Pinned" => t.authmode = "OPTIONAL"
         /\ mode = "InsecureSkipVerify" => t.authmode = "NONE"
         /\ t.pin <=> mode = "Pinned"
         /\ t.own = s.own /\ t.alpn = s.alpn
BY DEF Settings, Anchored, ClientTrust, VerificationMode, Rooted

\* What tls_server_new makes of a client authentication mode.
LEMMA ServerTrustIs ==
  ASSUME NEW s \in Settings, NEW mode \in ClientCertMode, ~s.pin, s.authmode = "NONE"
  PROVE  LET t == ServerTrust(s, mode) IN
         /\ mode = "Required" => t.authmode = "REQUIRED"
         /\ mode = "Optional" => t.authmode = "OPTIONAL"
         /\ mode = "NoClientAuth" => t.authmode = "NONE"
         /\ mode # "NoClientAuth" => t.ca
         /\ ~t.pin
         /\ t.own = s.own /\ t.alpn = s.alpn
BY DEF Settings, Anchored, ServerTrust, ClientCertMode

\* Every statement of tls_client_new and tls_server_new.
LEMMA ConstructKeepsFacts ==
  ASSUME Facts, MemoryInv, MemoryInv', Construct, UNCHANGED << config, peer >>
  PROVE  Facts'
<1>1. /\ ~Client => config.mode \in ClientCertMode /\ config.name = "valid"
      /\ Client => config.mode \in VerificationMode
      /\ config.mode \notin NeedsMaterial => config.material = "missing"
      /\ Len(config.alpn) \in Nat /\ DOMAIN config.alpn = 1 .. Len(config.alpn)
      /\ config.name \in {"empty", "invalid", "valid"}
      /\ config.certs \in {"none", "keyless", "bad", "good"}
      /\ config.alpn \in Seq({"empty", "long", "fine"})
  BY ConfigFacts DEF Facts, TypeOK, Config
<1>2. /\ TypeOK /\ Course /\ Record
      /\ added \in 0 .. Len(config.alpn) /\ settings \in Settings
  BY DEF Facts, TypeOK
<1>3. /\ pc \in Constructing \cup {"new"}
      /\ pc # "discard" => err = "none"
  BY <1>2 DEF Construct, NewSession, Setup, Trust, MoveAlpn, OwnCert, ClientCA, SslSetup,
              Discard, Constructing, Record
<1>4. ASSUME NEW error \in {"Internal", "InvalidPem", "AlpnNoCommonProtocol"},
             pc # "discard", pc' = "discard", err' = error,
             error = "InvalidPem" =>
                ~Client \/ config.certs # "none" \/ config.mode = "CustomRoots",
             UNCHANGED << added, settings, result >>
      PROVE  Facts'
  <2>1. Course'
    BY <1>1, <1>2, <1>3, <1>4 DEF Course, On, Numbered, Listed, Certified, Trusting,
            Building, Constructing, Client
  <2> QED
    BY <1>2, <1>3, <1>4, <2>1, GoesOn DEF Facts, Constructing
<1>5. ASSUME NEW error, Broken(error), error \in {"Internal", "InvalidPem"}, pc # "discard",
             error = "InvalidPem" =>
                ~Client \/ config.certs # "none" \/ config.mode = "CustomRoots"
      PROVE  Facts'
  BY <1>4, <1>5 DEF Broken
<1>6. ASSUME NEW s \in Settings, settings' = s, pc' \in Constructing \cup {"pump"},
             err = "none", UNCHANGED << added, err, result >>, Course'
      PROVE  Facts'
  BY <1>2, <1>3, <1>6, GoesOn DEF Facts, Constructing
<1>7. CASE NewSession
  <2>1. pc = "new" /\ err = "none"
    BY <1>3, <1>7 DEF NewSession
  <2>2. CASE Abandon("Internal")
    BY <2>1, <2>2, PlainFailKeeps DEF Abandon, PlainError
  <2>3. CASE Abandon("InvalidServerName") /\ config.name = "invalid"
    <3>1. ErrorTellsCause'
      BY <2>3 DEF Abandon, Fail, ErrorTellsCause, CertificateError
    <3> QED
      BY <1>2, <2>1, <2>3, <3>1, FailKeepsFacts DEF Error, SetupError, TypeOK, Abandon
  <2>4. CASE /\ Client => config.name = "valid"
             /\ pc' = "setup" /\ UNCHANGED << added, settings, err, result >>
    <3>1. Course'
      BY <1>1, <1>2, <2>1, <2>4 DEF Course, On, Numbered, Listed, Certified, Trusting,
            Building, Constructing, Client
    <3> QED
      BY <1>2, <1>6, <2>1, <2>4, <3>1 DEF Constructing
  <2> QED
    BY <1>7, <2>2, <2>3, <2>4 DEF NewSession, Goto
<1>8. CASE Setup
  <2>1. pc = "setup" /\ err = "none"
    BY <1>3, <1>8 DEF Setup
  <2>2. CASE Broken("Internal")
    BY <1>5, <2>1, <2>2
  <2>3. CASE Told(Defaults(config.role), IF Client THEN "trust" ELSE "own_cert")
    <3>1. Defaults(config.role) \in Settings
      BY DEF Defaults, Settings
    <3>2. /\ settings'.own = FALSE /\ settings'.alpn = 0 /\ settings'.pin = FALSE
          /\ ~Client => settings'.authmode = "NONE"
      BY <2>3 DEF Told, Defaults, Client
    <3>3. Course'
      BY <1>1, <1>2, <2>1, <2>3, <3>2 DEF Told, Goto, Course, On, Numbered, Listed,
            Certified, Trusting, Building, Constructing, Client
    <3> QED
      BY <1>6, <2>1, <2>3, <3>1, <3>3 DEF Told, Goto, Constructing
  <2> QED
    BY <1>8, <2>2, <2>3 DEF Setup
<1>9. CASE Trust
  <2>1. pc = "trust" /\ err = "none"
    BY <1>3, <1>9 DEF Trust
  <2>2. CASE Broken("InvalidPem") /\ config.mode = "CustomRoots"
    BY <1>5, <2>1, <2>2
  <2>3. CASE Broken("Internal")
    BY <1>5, <2>1, <2>3
  <2>4. CASE /\ config.mode = "CustomRoots" => config.material = "good"
             /\ settings' = ClientTrust(settings, config.mode)
             /\ pc' = "move_alpn" /\ UNCHANGED << added, err, result >>
    <3>1. Client
      BY <1>2, <2>1 DEF Course
    <3>2. ~settings.pin
      BY <1>2, <2>1, <3>1 DEF Course, Trusting, On, Constructing
    <3>3. ClientTrust(settings, config.mode) \in Settings
      BY <1>1, <1>2, <3>1, SettingsFields
    <3>4. Course'
      BY <1>1, <1>2, <2>1, <2>4, <3>1, <3>2, ClientTrustIs DEF Course, On, Numbered, Listed,
            Certified, Trusting, Building, Constructing, Client, NeedsMaterial,
            VerificationMode, Rooted
    <3> QED
      BY <1>6, <2>1, <2>4, <3>3, <3>4 DEF Constructing
  <2> QED
    BY <1>9, <2>2, <2>3, <2>4 DEF Trust, Told, Goto
<1>10. CASE MoveAlpn
  <2>1. pc = "move_alpn" /\ err = "none"
    BY <1>3, <1>10 DEF MoveAlpn
  <2>2. Numbered /\ ~Listed /\ Trusting
    BY <2>1 DEF Numbered, Listed, Trusting, On
  <2>3. added = Len(config.alpn) /\ settings.alpn = 0
    BY <1>2, <2>1, <2>2 DEF Course, On, Constructing
  <2>4. CASE pc' = "discard" /\ err' = "AlpnNoCommonProtocol"
             /\ UNCHANGED << added, settings, result >>
    BY <1>4, <2>1, <2>4
  <2>5. CASE /\ settings' = [settings EXCEPT !.alpn = added]
             /\ \A i \in DOMAIN config.alpn : config.alpn[i] # "long"
             /\ pc' = (IF Client THEN "own_cert" ELSE "ssl_setup")
             /\ UNCHANGED << added, err, result >>
    <3>1. [settings EXCEPT !.alpn = added] \in Settings
      BY <1>2 DEF Settings
    <3>2. /\ settings'.alpn = added /\ settings'.own = settings.own
          /\ settings'.authmode = settings.authmode /\ settings'.ca = settings.ca
          /\ settings'.pin = settings.pin
      BY <1>2, <2>5 DEF Settings
    <3>3. Course'
      BY <1>1, <1>2, <2>1, <2>2, <2>5, <3>2 DEF Course, On, Numbered, Listed, Certified, Trusting,
            Building, Constructing, Client
    <3> QED
      BY <1>6, <2>1, <2>5, <3>1, <3>3 DEF Constructing
  <2>6. CASE added = 0 /\ Told(settings, IF Client THEN "own_cert" ELSE "ssl_setup")
    <3>1. settings = [settings EXCEPT !.alpn = added]
      BY <1>2, <2>3, <2>6 DEF Settings
    <3> QED
      BY <1>1, <2>3, <2>5, <2>6, <3>1 DEF Told, Goto
  <2> QED
    BY <1>10, <2>4, <2>5, <2>6 DEF MoveAlpn
<1>11. CASE OwnCert
  <2>1. pc = "own_cert" /\ err = "none"
    BY <1>3, <1>11 DEF OwnCert
  <2>2. CASE Broken("InvalidPem") /\ config.certs # "none"
    BY <1>5, <2>1, <2>2
  <2>3. CASE Broken("Internal")
    BY <1>5, <2>1, <2>3
  <2>4. ASSUME NEW s \in Settings, Told(s, IF Client THEN "ssl_setup" ELSE "client_ca"),
               config.certs \in {"none", "good"}, s.own <=> config.certs = "good",
               s.alpn = settings.alpn, s.authmode = settings.authmode, s.ca = settings.ca,
               s.pin = settings.pin
        PROVE  Facts'
    <3>1. Course'
      BY <1>1, <1>2, <2>1, <2>4 DEF Told, Goto, Course, On, Numbered, Listed, Certified,
            Trusting, Building, Constructing, Client
    <3> QED
      BY <1>6, <2>1, <2>4, <3>1 DEF Told, Goto, Constructing
  <2>5. CASE config.certs = "none" /\ Told(settings, IF Client THEN "ssl_setup" ELSE "client_ca")
    <3>1. ~settings.own
      BY <1>2, <2>1, <2>5 DEF Course, On, Constructing
    <3> QED
      BY <1>2, <2>4, <2>5, <3>1
  <2>6. CASE /\ config.certs = "good"
             /\ Told([settings EXCEPT !.own = TRUE], IF Client THEN "ssl_setup" ELSE "client_ca")
    <3> DEFINE s == [settings EXCEPT !.own = TRUE]
    <3>1. /\ s \in Settings /\ s.own /\ s.alpn = settings.alpn
          /\ s.authmode = settings.authmode /\ s.ca = settings.ca /\ s.pin = settings.pin
      BY <1>2 DEF Settings
    <3> HIDE DEF s
    <3> QED
      BY <2>4, <2>6, <3>1 DEF s
  <2> QED
    BY <1>11, <2>2, <2>3, <2>5, <2>6 DEF OwnCert
<1>12. CASE ClientCA
  <2>1. pc = "client_ca" /\ err = "none"
    BY <1>3, <1>12 DEF ClientCA
  <2>2. ~Client
    BY <1>2, <2>1 DEF Course
  <2>3. CASE Broken("InvalidPem")
    BY <1>5, <2>1, <2>2, <2>3
  <2>4. CASE /\ config.mode # "NoClientAuth" => config.material = "good"
             /\ Told(ServerTrust(settings, config.mode), "move_alpn")
    <3>1. ~settings.pin /\ settings.authmode = "NONE"
      BY <1>2, <2>1, <2>2 DEF Course, On, Trusting, Constructing
    <3>2. ServerTrust(settings, config.mode) \in Settings
      BY <1>1, <1>2, <2>2, SettingsFields
    <3>3. Course'
      BY <1>1, <1>2, <2>1, <2>2, <2>4, <3>1, ServerTrustIs DEF Told, Goto, Course, On, Numbered,
            Listed, Certified, Trusting, Building, Constructing, Client, NeedsMaterial,
            ClientCertMode, Rooted
    <3> QED
      BY <1>6, <2>1, <2>4, <3>2, <3>3 DEF Told, Goto, Constructing
  <2> QED
    BY <1>12, <2>3, <2>4 DEF ClientCA
<1>13. CASE SslSetup
  <2>1. pc = "ssl_setup" /\ err = "none"
    BY <1>3, <1>13 DEF SslSetup
  <2>2. CASE Broken("Internal")
    BY <1>5, <2>1, <2>2
  <2> DEFINE s == [settings EXCEPT !.hostname = Client /\ NeedHostname(config.mode)]
  <2>3. CASE Told(s, "discard")
    <3>1. /\ s \in Settings /\ s.own = settings.own /\ s.alpn = settings.alpn
          /\ s.authmode = settings.authmode /\ s.ca = settings.ca /\ s.pin = settings.pin
          /\ s.hostname <=> Client /\ config.mode \in Rooted
      BY <1>2 DEF Settings, NeedHostname, Client
    <3>2. settings' = s /\ pc' = "discard" /\ UNCHANGED << added, err, result >>
      BY <2>3 DEF Told, Goto
    <3> HIDE DEF s
    <3>3. Course'
      BY <1>1, <1>2, <2>1, <3>1, <3>2 DEF Course, On, Numbered, Listed, Certified,
            Trusting, Building, Constructing, Client
    <3> QED
      BY <1>6, <2>1, <3>1, <3>2, <3>3 DEF Constructing
  <2> QED
    BY <1>13, <2>2, <2>3 DEF SslSetup
<1>14. CASE Discard
  <2>1. pc = "discard"
    BY <1>14 DEF Discard
  <2>2. CASE err # "none" /\ \E objects : Fail(objects, err)
    <3>1. ErrorTellsCause'
      BY <1>2, <2>2 DEF Fail, ErrorTellsCause, CertificateError, Record, Client
    <3>2. err \in Error
      BY <1>2, <2>2 DEF Record, Error, SetupError
    <3> QED
      BY <1>2, <2>1, <2>2, <3>1, <3>2, FailKeepsFacts DEF TypeOK
  <2>3. CASE err = "none" /\ pc' = "pump" /\ UNCHANGED << added, settings, err, result >>
    <3>1. Course'
      BY <1>1, <1>2, <2>1, <2>3 DEF Course, On, Numbered, Listed, Certified, Trusting,
            Building, Constructing, Client
    <3> QED
      BY <1>2, <1>6, <2>3, <3>1
  <2> QED
    BY <1>14, <2>2, <2>3 DEF Discard, Goto
<1> QED
  BY <1>7, <1>8, <1>9, <1>10, <1>11, <1>12, <1>13, <1>14 DEF Construct

-----------------------------------------------------------------------------
(* The pump and after it.                                                  *)

\* What each mode has told mbedTLS by the time the handshake runs.
LEMMA PumpSettings ==
  ASSUME Facts, pc \in {"pump", "open"}
  PROVE  /\ PumpsAsConfigured
         /\ config.mode \in Rooted \cup {"Required"} => settings.authmode = "REQUIRED"
         /\ config.mode \in {"Pinned", "Optional"} => settings.authmode = "OPTIONAL"
         /\ config.mode \in {"InsecureSkipVerify", "NoClientAuth"} => settings.authmode = "NONE"
         /\ settings.pin <=> config.mode = "Pinned"
         /\ settings.hostname <=> Client /\ config.mode \in Rooted
         /\ config.mode \in Rooted => Client
         /\ config.mode = "Pinned" => Client
<1>1. TypeOK /\ Course
  BY DEF Facts
<1>2. /\ config \in Config
      /\ DOMAIN config.alpn = 1 .. Len(config.alpn)
      /\ \A i \in DOMAIN config.alpn : config.alpn[i] \in {"empty", "long", "fine"}
      /\ Client => config.mode \in VerificationMode
      /\ ~Client => config.mode \in ClientCertMode
  BY <1>1, ConfigFacts DEF TypeOK
<1>3. /\ On({}) /\ Numbered /\ Listed /\ Certified /\ Trusting
      /\ \A places : On(places)
  BY DEF On, Numbered, Listed, Certified, Trusting
<1>4. PumpsAsConfigured
  BY <1>1, <1>2, <1>3 DEF Course, PumpsAsConfigured
<1>5. config.mode \in Rooted \cup {"Pinned"} => Client
  BY <1>2 DEF VerificationMode, ClientCertMode, Rooted
<1>6. /\ config.mode \in Rooted \cup {"Required"} => settings.authmode = "REQUIRED"
      /\ config.mode \in {"Pinned", "Optional"} => settings.authmode = "OPTIONAL"
      /\ config.mode \in {"InsecureSkipVerify", "NoClientAuth"} => settings.authmode = "NONE"
      /\ settings.pin <=> config.mode = "Pinned"
      /\ settings.hostname <=> Client /\ config.mode \in Rooted
  BY <1>1, <1>3 DEF Course
<1> QED
  BY <1>4, <1>5, <1>6

\* A certificate that is let through with verification required passed it all,
\* and one that is let through with pins has one.
LEMMA OkMeans ==
  ASSUME NEW role \in {"client", "server"}, NEW s \in Settings, NEW cert \in Certificate,
         Verdict(role, s, cert) = "ok"
  PROVE  /\ s.authmode = "REQUIRED" =>
                /\ cert.sent /\ cert.trusted /\ cert.current /\ cert.usable
                /\ s.hostname => cert.named
         /\ s.authmode = "OPTIONAL" /\ s.pin /\ role = "client" => cert.sent /\ cert.pinned
<1>1. CASE ~cert.sent
  BY <1>1 DEF Verdict
<1>2. CASE cert.sent /\ s.authmode = "OPTIONAL"
  BY <1>2 DEF Verdict, Stopped
<1>3. CASE cert.sent /\ s.authmode = "REQUIRED"
  <2>1. ~Stopped(s, cert) /\ s.ca /\ Flags(s, cert) = {} /\ cert.usable
    BY <1>3 DEF Verdict
  <2>2. /\ "NOT_TRUSTED" \notin Flags(s, cert) /\ "EXPIRED" \notin Flags(s, cert)
        /\ "CN_MISMATCH" \notin Flags(s, cert)
    BY <2>1
  <2> QED
    BY <1>3, <2>1, <2>2 DEF Flags
<1>4. CASE s.authmode = "NONE"
  BY <1>4
<1> QED
  BY <1>1, <1>2, <1>3, <1>4 DEF Settings

\* An error about a certificate has a certificate that deserves it.
LEMMA ErrorMeans ==
  ASSUME NEW role \in {"client", "server"}, NEW s \in Settings, NEW cert \in Certificate,
         NEW verdict, verdict = Verdict(role, s, cert)
  PROVE  LET error == ErrorOf(s, cert, verdict) IN
         /\ error \in CertificateError \cup {"HandshakeFailure"}
         /\ error \in CertificateError => cert.sent /\ s.authmode = "REQUIRED"
         /\ error = "HostnameMismatch" => s.hostname /\ ~cert.named
         /\ error = "CertificateExpired" => ~cert.current
         /\ error = "CertificateInvalid" => ~cert.trusted
<1>1. CASE verdict # "verify_failed"
  BY <1>1 DEF ErrorOf, CertificateError
<1>2. CASE verdict = "verify_failed"
  <2>1. cert.sent /\ s.authmode = "REQUIRED" /\ s.ca /\ Flags(s, cert) # {}
    BY <1>2 DEF Verdict, Settings
  <2>2. Flags(s, cert) \subseteq {"NOT_TRUSTED", "EXPIRED", "CN_MISMATCH"}
    BY DEF Flags
  <2>3. /\ "CN_MISMATCH" \in Flags(s, cert) => s.hostname /\ ~cert.named
        /\ "EXPIRED" \in Flags(s, cert) => ~cert.current
        /\ "NOT_TRUSTED" \in Flags(s, cert) => ~cert.trusted
    BY <2>1 DEF Flags
  <2> QED
    BY <1>2, <2>1, <2>2, <2>3 DEF ErrorOf, CertificateError
<1> QED
  BY <1>1, <1>2

\* The ends of the pump: a stream, a refused peer, another error.
LEMMA PumpKeepsFacts ==
  ASSUME Facts, MemoryInv, MemoryInv', UNCHANGED config,
         (PumpFails /\ UNCHANGED peer) \/ PeerRefused \/ Established
  PROVE  Facts'
<1>1. /\ pc = "pump" /\ TypeOK /\ Course /\ Record
      /\ settings \in Settings /\ config.role \in {"client", "server"}
  BY ConfigFacts DEF PumpFails, PeerRefused, Established, Facts, TypeOK, Config
<1>2. CASE PumpFails /\ UNCHANGED peer
  <2>1. PICK error \in PlainError : Fail({"session"}, error)
    BY <1>2 DEF PumpFails, PlainError
  <2> QED
    BY <1>1, <1>2, <2>1, PlainFailKeeps
<1>3. CASE PeerRefused
  <2>1. PICK cert \in Presented(config.role, settings) :
            /\ peer' = cert
            /\ Fail({"session"}, ErrorOf(settings, cert, Verdict(config.role, settings, cert)))
    BY <1>3 DEF PeerRefused
  <2> DEFINE error == ErrorOf(settings, cert, Verdict(config.role, settings, cert))
  <2>2. cert \in Certificate
    BY DEF Presented
  <2>3. /\ error \in CertificateError \cup {"HandshakeFailure"}
        /\ error \in CertificateError => cert.sent /\ settings.authmode = "REQUIRED"
        /\ error = "HostnameMismatch" => settings.hostname /\ ~cert.named
        /\ error = "CertificateExpired" => ~cert.current
        /\ error = "CertificateInvalid" => ~cert.trusted
    BY <1>1, <2>2, ErrorMeans
  <2>4. result' = error /\ Fail({"session"}, error)
    BY <2>1 DEF Fail
  <2> HIDE DEF error
  <2>5. ErrorTellsCause'
    <3>1. settings.authmode = "REQUIRED" => config.mode \in Rooted \cup {"Required"}
      BY <1>1, PumpSettings, ConfigFacts DEF TypeOK, VerificationMode, ClientCertMode, Rooted
    <3>2. settings.hostname => config.mode \in Rooted
      BY <1>1, PumpSettings
    <3> QED
      BY <2>1, <2>3, <2>4, <3>1, <3>2 DEF ErrorTellsCause, CertificateError
  <2>6. error \in Error
    BY <2>3 DEF Error
  <2> QED
    BY <1>1, <2>1, <2>2, <2>4, <2>5, <2>6, FailKeepsFacts
<1>4. CASE Established
  <2>1. PICK cert \in Presented(config.role, settings) :
            Verdict(config.role, settings, cert) = "ok" /\ peer' = cert
    BY <1>4 DEF Established
  <2>2. cert \in Certificate
    BY DEF Presented
  <2>3. pc' = "open" /\ result' = "ok" /\ UNCHANGED << added, settings, err, config >>
    BY <1>4 DEF Established
  <2>4. /\ settings.authmode = "REQUIRED" =>
               /\ cert.sent /\ cert.trusted /\ cert.current /\ cert.usable
               /\ settings.hostname => cert.named
        /\ settings.authmode = "OPTIONAL" /\ settings.pin /\ Client => cert.sent /\ cert.pinned
    BY <1>1, <2>1, <2>2, OkMeans DEF Client
  <2>5. EstablishedIsVerified'
    BY <1>1, <2>1, <2>3, <2>4, PumpSettings DEF EstablishedIsVerified
  <2>6. TypeOK'
    <3>1. /\ live' \subseteq Object /\ stray' \subseteq Object /\ pc' \in PC
          /\ holds' \in [Holder -> SUBSET Object]
      BY DEF MemoryInv, Holder
    <3> QED
      BY <1>1, <2>1, <2>2, <2>3, <3>1 DEF TypeOK
  <2>7. Course'
    BY <1>1, <2>3 DEF Course, On, Numbered, Listed, Certified, Trusting, Building,
          Constructing, Client
  <2>8. Record'
    BY <1>1, <2>3, <2>5 DEF Record, ErrorTellsCause, CertificateError, Client
  <2> QED
    BY <2>6, <2>7, <2>8 DEF Facts
<1> QED
  BY <1>2, <1>3, <1>4

\* @close changes nothing on record.
LEMMA CloseKeepsFacts ==
  ASSUME Facts, MemoryInv', Close, UNCHANGED config
  PROVE  Facts'
<1>1. /\ pc = "open" /\ pc' = "closed" /\ TypeOK /\ Course /\ Record
      /\ UNCHANGED << config, added, settings, err, peer, result >>
  BY DEF Close, Facts
<1>2. TypeOK'
  <2>1. /\ live' \subseteq Object /\ stray' \subseteq Object /\ pc' \in PC
        /\ holds' \in [Holder -> SUBSET Object]
    BY DEF MemoryInv, Holder
  <2> QED
    BY <1>1, <2>1 DEF TypeOK
<1>3. Course'
  BY <1>1 DEF Course, On, Numbered, Listed, Certified, Trusting, Building, Constructing, Client
<1>4. Record'
  BY <1>1 DEF Record, EstablishedIsVerified, ErrorTellsCause, Client
<1> QED
  BY <1>2, <1>3, <1>4 DEF Facts

\* The two invariants together are inductive.
LEMMA NextFacts == MemoryInv /\ Facts /\ [Next]_vars => MemoryInv' /\ Facts'
<1> SUFFICES ASSUME MemoryInv, Facts, [Next]_vars PROVE MemoryInv' /\ Facts'
  OBVIOUS
<1>1. MemoryInv'
  BY NextMemory
<1>2. CASE Next
  <2>1. CASE Build /\ UNCHANGED << config, peer >>
    BY <1>1, <2>1, BuildKeepsFacts
  <2>2. CASE Construct /\ UNCHANGED << config, peer >>
    BY <1>1, <2>2, ConstructKeepsFacts
  <2>3. CASE UNCHANGED config /\ ((PumpFails /\ UNCHANGED peer) \/ PeerRefused \/ Established)
    BY <1>1, <2>3, PumpKeepsFacts
  <2>4. CASE Close /\ UNCHANGED config
    BY <1>1, <2>4, CloseKeepsFacts
  <2> QED
    BY <1>1, <1>2, <2>1, <2>2, <2>3, <2>4 DEF Next
<1>3. CASE UNCHANGED vars
  <2>1. /\ UNCHANGED << pc, config, live, stray, holds, added, settings, err, peer, result >>
        /\ TypeOK /\ Course /\ Record
    BY <1>3 DEF vars, Facts
  <2>2. TypeOK'
    BY <2>1 DEF TypeOK
  <2>3. Course'
    BY <2>1 DEF Course, On, Numbered, Listed, Certified, Trusting, Client
  <2>4. Record'
    BY <2>1 DEF Record, EstablishedIsVerified, ErrorTellsCause, Client
  <2> QED
    BY <1>1, <2>2, <2>3, <2>4 DEF Facts
<1> QED
  BY <1>1, <1>2, <1>3

\* The inductive invariant of connect and accept: memory, settings, record.
THEOREM FactsInvariance == Spec => [](MemoryInv /\ Facts)
BY InitMemory, InitFacts, NextFacts, PTL DEF Spec

\* Type correctness of connect and accept.
THEOREM LifecycleTypes == Spec => []TypeOK
<1>1. Facts => TypeOK
  BY DEF Facts
<1> QED
  BY <1>1, FactsInvariance, PTL

\* No stream opens to a peer that has not passed what the configured mode
\* promises, whatever fails on the way and whatever certificate comes.
THEOREM VerifiedWhenOpen == Spec => []EstablishedIsVerified
<1>1. Facts => EstablishedIsVerified
  BY DEF Facts, Record
<1> QED
  BY <1>1, FactsInvariance, PTL

\* The pump runs only with the whole configuration in force: the ALPN list
\* complete, the certificate and the trust material given to mbedTLS.
THEOREM ConfigurationInForce == Spec => []PumpsAsConfigured
<1>1. Facts => PumpsAsConfigured
  <2>1. pc \notin {"pump", "open"} => PumpsAsConfigured
    BY DEF PumpsAsConfigured
  <2> QED
    BY <2>1, PumpSettings
<1> QED
  BY <1>1, FactsInvariance, PTL

\* An error about a certificate, a name or PEM always has that cause.
THEOREM CauseTold == Spec => []ErrorTellsCause
<1>1. Facts => ErrorTellsCause
  BY DEF Facts, Record
<1> QED
  BY <1>1, FactsInvariance, PTL

=============================================================================
