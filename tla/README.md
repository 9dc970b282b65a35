# A TLA+ model of nova-tls

nova-tls gives Nova programs TLS over a `TcpStream`. This directory holds TLA+
modules that model the package, configurations that check them with TLC, and
proofs checked by TLAPS. Paths below are relative to the repository: `src/*.nv`
is the Nova code, `native/tls_c_shim.c` the C shim, `native/mbedtls` the vendored
TLS library.

## The system

| Component | State it keeps | Operations | Modelled in |
|---|---|---|---|
| Stream and pump, `src/stream.nv` | the socket, the session, one scratch buffer | `@read`, `@read_bytes`, `@read_text`, `@write`, `@write_all`, `@flush`, `@close`, `@cleanup`; `flush_out`, `fill_from_tcp`, `pump_handshake`, `read_step`, `write_step` inside | `TlsStream`, `TlsFaults`; promise in `SecureChannel` |
| Shim session, `tls_c_shim.c` | mbedTLS context, `in_buf`, `out_buf`, last error | `tls_process`, `tls_read_tls`, `tls_write_tls`, `tls_read_plain`, `tls_write_plain`, `tls_send_close_notify`, predicates | `TlsSession`; without memory in `TlsFaults` |
| mbedTLS record layer (vendored) | bytes of an incomplete record, decrypted bytes not handed out, records sealed but not sent, counters | fetch, read, write, alerts | `TlsSession`, more of it in `TlsFaults` |
| mbedTLS handshake state machines (vendored) | state, keys, transcript, kept message, for each end | one handler per state, TLS 1.3 and 1.2, client and server | `TlsHandshake`, seen from outside in `HandshakeFlights` |
| `connect` / `accept`, `src/client.nv`, `src/server.nv` | owns socket, then builder, then session | build configuration, create session, pump, return or release | `TlsLifecycle`; the pump in `TlsStream` |
| Session construction and config builder, `tls_c_shim.c` | builder, session under construction | `tls_cfg_*`, `tls_client_new`, `tls_server_new`, `tls_free` | `TlsLifecycle`, settings in `TlsVerify` |
| Configuration, `src/config.nv` | values only | constructors, setters | what `connect` and `accept` do with them: `TlsVerify`, `TlsLifecycle` |
| Errors, `src/error.nv` and `tls_c_shim.c` | last error of the session | `_tls_classify`, `from_shim` | `TlsErrors`; of construction in `TlsLifecycle` |
| mbedTLS certificate verification (vendored) | none | `mbedtls_ssl_verify_certificate` | `TlsVerify`, with the facts about a chain given |
| Name and DER helpers, `tls_c_shim.c` | none | `_tls_valid_sni`, `nova_der_tlv`, `nova_spki_der` | `TlsNames`, `TlsDer` |
| FFI declarations, build without mbedTLS, root bundle | none | none | no behaviour to model |

How they interact. The shim does no I/O. A `TlsStream` operation calls the shim
for everything that concerns TLS and the `Net` effect for everything that
concerns the socket, and carries ciphertext between the two through `scratch`, at
most `TLS_CHUNK` (4 KiB) at a time. mbedTLS calls back into the shim for its
ciphertext (`_tls_send_cb`, `_tls_recv_cb`), which only touches the two queues.
Two such stacks talk over one TCP connection.

What is hard here:

- *Concurrency.* A stream belongs to one fiber and is consumed by `@close`, so
  there is no sharing within an endpoint. What interleaves is the two endpoints
  and TCP. A fiber gives way only inside `Net.read` and `Net.write_all`.
- *Waiting.* There are no timeouts. A pump that reads the socket although its
  session still has something to say, or something already received, may wait
  for ever, and the peer with it.
- *Cuts.* `TLS_CHUNK`, TCP and the reader's buffer cut records independently.
- *Ends.* Who knows when the handshake is over differs by protocol version: the
  TLS 1.3 client believes so before its certificate was looked at. A close is
  best effort, and TCP may destroy it afterwards.
- *Ownership.* Builder, session and socket are released by hand on each path, and
  the builder is consumed by the constructors also when they fail.
- *Memory and passing errors.* A queue that cannot grow, or a `Net` call that
  fails once, leaves a stream that its owner may go on using, with a record half
  fetched, a chunk lost or a sealed record unsent.
- *Two dispatches.* The mbedTLS handlers are driven by `state`, some by `state++`,
  and the handler of a hello may change the version, and with it the dispatch
  function, under the state it leaves. Each side changes the keys of each direction
  in a handler of its own.
- *Order.* What a verification mode means to mbedTLS is spread over lines that
  depend on each other: the pin callback runs only while verification is on, the
  name is compared only if it was set, one `rc` carries the first fault to the end.

What makes each component correct: for the stream, that bytes arrive once and in
order, that the clean end is reported only where the peer put it, that nobody
blocks beside work he could do, that handshakes end, and that nothing sealed is
dropped while TCP works; for the session, that its operations keep it well formed
and cutting a record loses nothing; for `connect` and `accept`, that a refused
peer gets no service and each resource is released once; for the configuration,
that each verification mode checks what it says; for the helpers, that they agree
with the grammar they parse; for errors, that one describes what just happened;
for the handshake machines, that two of them agree on version, keys and transcript
or fail for a cause. `PROJECT.json` lists the hazards at their lines.

## Modules

`TlsSession` is the shim session as a record (`hs`, `left`, `plain`, `inb`,
`outb`) and the shim's functions as operators on it, under their C names. A
handshake is reduced to its flights, odd ones the client's: three in TLS 1.3,
four in TLS 1.2 (`TlsHandshake` shows that this is what they are). Accepting a flight seals the next one. A record crosses the
queues as two units, header and body: mbedTLS fetches them one after the other
and can use neither alone, so two is the least number that shows every cut.
Cryptography is not there; a flight whose receiver refuses it (certificate, name,
ALPN, version) is the constant `RefusableFlights`, one of which, or none, is
chosen initially.

`TlsStream` is two endpoints, each a fiber whose `pc` names a loop head of
`stream.nv`: `pump` (`pump_handshake`), `process` (the loop of `_tls_step` inside
`tls_process`), `flush` and `send` (`flush_out` before and inside `write_all`),
`fill` (`Net.read`), `read` (`read_step`), `write` (`write_step`), `idle` (the
application holds the stream), and the three ends. `call` says on whose behalf a
shared helper runs, and so where it returns to. Each action is the code from one
such point to the next. The correspondence is in `PROJECT.json` under `map`.

| Action | Code |
|---|---|
| `PumpStep` | head of the loop in `pump_handshake`, with the stall it guards against and the final `flush_out` |
| `FlushChunk`, `SendToTcp`, `SendFails`, `FlushDone` | `flush_out`: take a chunk, write all of it (TCP takes any part at a time), fail, return to each caller |
| `FillFromTcp`, `FillEof`, `FillFails` | `fill_from_tcp`: some bytes, the end of the stream, an error, as each caller treats them |
| `ProcessFlight`, `ProcessDone`, `ProcessFails` | `tls_process` in the handshake: a flight accepted and answered, more input needed, failure with or without an alert |
| `Read`, `ReadPlain`, `ReadCloseNotify`, `ReadError`, `ReadNeedsMore` | `read_step`, one action per result of `tls_read_plain` |
| `Write`, `WriteStep`, `Flush`, `Close` | `@write`, `@write_all`, `@flush`, `@close` and `@cleanup` |
| `ResetByPeer`, `TcpFault`, `Crash` | not in the package: RST for data reaching a closed socket, a lost connection, a process that dies |

All errors the shim reports (`HandshakeFailure`, `CertificateInvalid`, ...) are
one value, `HandshakeFailure`; `PeerMisbehaved`, `Net` and `Internal` are apart
because properties tell them apart. `written`, `received`, `notified` and `ended`
are history variables; no guard of the package's code reads them (`written` also
numbers the bytes and bounds what an application writes).

`SecureChannel` is what the applications are promised, with nothing of TLS in it:
each direction is a byte stream, a read extends what was received to a longer
prefix of what was written, and the end is reported only when the writer has
closed and everything was read. `TlsStream` implements it under the refinement
mapping that is the identity on the four history variables.

`MCTlsStream` holds values for the constants.

`TlsVerify` is pure. `ClientTrust` and `ServerTrust` are the decision tables of
`tls_client_new` and `tls_server_new`: from a mode to mbedTLS settings (authmode,
anchors, pin callback, hostname). A certificate is what the checks find out about
it (trusted, current, named, pinned, usable). `Verdict` is what
`mbedtls_ssl_verify_certificate` decides about it under those settings, `ErrorOf`
the `TlsError` that becomes of a refusal.

`TlsLifecycle` is one call of `connect` or `accept`, statement by statement, up to
the `@close` of its stream. `live` is what is allocated or open; `holds[h]` is what
`h` has a pointer to and must release, for the call itself, the builder, the
session and the stream; `stray` collects what was released when it was not live.
Releasing a holder releases what it holds, as `tls_cfg_free` and `tls_free` do. An
argument of the configuration is what the checks tell apart: a name empty, invalid
or valid; PEM or pins missing, malformed or good; a certificate absent, without its
key, unusable or good; an ALPN name empty, refused by mbedTLS, or fine. Each
allocation and each mbedTLS call may fail whatever its arguments.

| Action | Code |
|---|---|
| `CheckArguments`, `CfgNew` | the checks before there is a builder; `tls_client_cfg_new`, `tls_server_cfg_new` |
| `SetVerification`, `SetClientAuth`, `AlpnAdd`, `AlpnAdded`, `SetCertKey` | the rest of `build_client_cfg` and `build_server_cfg` with the `tls_cfg_*` they call, in each one's order |
| `NewSession`, `Setup` | `tls_client_new`, `tls_server_new` up to `_tls_setup_common` |
| `Trust`, `ClientCA`, `MoveAlpn`, `OwnCert`, `SslSetup` | the `rc` chain, each step with its error code |
| `Discard` | temporaries and builder freed; with `rc` set, the session too |
| `Established`, `PeerRefused`, `PumpFails` | the ends of `pump_handshake`, and who then owns the session |
| `Close` | `@close` |

`TlsFaults` is one client stream in a less kind world: its queues may be unable to
grow, `Net.read` and `Net.write_all` may fail and work again, and the peer is
another implementation that sends, behind its flight, what nova-tls never sends.
Here the session has `out_left` (what mbedTLS sealed and `_tls_send_cb` did not
take), the capacities of both queues with the doubling of `_tls_buf_ensure`, the
record counters of both directions, and `nb_zero`. An operator of the shim returns
the set of its outcomes, for memory may fail in it. The handshake is two flights;
the `i`-th `@write` carries the byte `i`. The actions are those of `TlsStream` for
one endpoint, and:

| Action | Code |
|---|---|
| `SendFails`, `FillFails` | any failing `Net` call, in each caller; the stream stays |
| `ReadWarning`, `ReadEmpty`, `ReadHelloRequest`, `ReadNoRenegotiation` | `mbedtls_ssl_read` on the records it passes over, refuses, or returns from with nothing |
| `PeerSends`, `PeerReads`, `PeerLeaves` | not in the package: a peer that reads records by their counters |

`MCTlsFaults` names the sets of records a peer may send. `ImplementsChannel` is
there too, with a refinement mapping: `written` is what mbedTLS sealed, `received`
the places of what was read among it.

`TlsNames`, `TlsDer` and `TlsErrors` are the helpers. A character is one of each
kind the check of a name tells apart; a buffer is a sequence of bytes, with the
number of values of a byte and the modulus of `size_t` as constants; `TlsErrors` is
a session's error slot over any sequence of calls, each with any answer of mbedTLS.
`MCTlsHelpers` has the reference definitions: what a host name or an address is, said
of its characters and their neighbours, and certificates put together from elements
in DER, then cut short or changed in one byte.

`TlsHandshake` is the two handshake state machines of mbedTLS against each other,
one action per handler, 57 in the four dispatch functions (client and server, TLS
1.3 and 1.2). A context is `ssl->state`, the version, the record not flushed, the
message kept for the next handler, the transcript (a sequence of messages), the key
of each direction and what is known of the peer's certificate. A message is its
type, the key it was sealed under and, for `Finished` and `CertificateVerify`, the
transcript it covers. `Step` is the frame of `mbedtls_ssl_handshake_step` and
`mbedtls_ssl_read_record` around a handler: flush first, fail for a key that is not
the receiver's, an alert, or the end of the stream. `Setups` are the pairs of
configurations that may meet: versions, authentication, certificates and ALPN lists.
A list decides only whether the server goes on (`NoCommonProtocol`, in the handlers of
the ClientHello of both versions), not which protocol is chosen.

`HandshakeFlights` is what remains of that for a pump: flights that alternate, and
two ends that count them.

The `..._proofs` modules hold the proofs of the module they are named after.
`TlsHelpers_proofs` has those about the parts without a session; `TlsScript_proofs` and
`TlsConversation_proofs` go on where `TlsHandshake_proofs` ends.

## Properties

- `TypeOK`.
- `BlocksOnlyWhenDrained`: in `Net.read`, a session has no plaintext, no complete
  record and no unsent ciphertext.
- `NoHandshakeStandoff`: the two pumps never both wait with nothing in flight,
  and the stall error of `pump_handshake` is unreachable.
- `RefusedGetsNothing`: whoever sent a refused flight reads no byte and no clean
  end, also if his own handshake had ended; the refusing side gets no stream.
- `NothingUnsentOnRelease`: a session is freed by `@close`, or by a failing
  `connect` or `accept`, with ciphertext unsent only when TCP is gone.
- `ImplementsChannel`: the refinement of `SecureChannel`.
- `HandshakeEnds`, `CloseReturns`, `CloseIsSeen`: liveness, below.
- `Owned`: every object of a call of `connect` or `accept` has one owner at every
  statement, and nothing is released twice.
- `ReleasedOnReturn`: an error returns with everything released, the socket
  included; a stream owns its socket and session and nothing else is left.
- `EstablishedIsVerified`: a stream exists only with a peer that passed what the
  mode promises: chain, dates, purpose and name for roots, a pinned key for pins, a
  certificate with a valid chain for `Required`.
- `PumpsAsConfigured`: the handshake starts only with the whole configuration in
  force.
- `ErrorTellsCause`: an error about a certificate has a certificate that deserves
  it, in a mode that verifies; an error about names or PEM has such an argument.
- `NameAlwaysChecked`: what `config.nv:59-60` says of the server name.
- `TruncationIsReal`: what the comment above `read_step` says of `PeerMisbehaved`.

Of `TlsFaults`:

- `TypeOK`, with the bound on the one buffer the package itself keeps: `scratch`, from
  which `flush_out` writes, never holds more than `TLS_CHUNK`.
- `QueuesFit`: what was copied into a queue fits it, whichever `realloc` failed.
- `NothingLostInside`: what mbedTLS has begun to fetch, `in_buf` and TCP together
  are exactly the records the peer sent and mbedTLS has not counted, also after
  errors that passed.
- `CleanEndLosesNothing`: a peer told `close_notify` has every byte of the writes
  that returned `Ok`.
- `SentIsRead`: an application that keeps reading gets every byte the peer sent.
- `AcceptedIsSealed`, `HelloIsOut`: what the doc of `@write` and a comment in
  `tls_client_new` say.

Of the helpers:

- `RealNamesPass`, `NothingElsePasses`: `_tls_valid_sni` takes what the grammar has,
  and, apart from the literals of addresses, nothing else.
- `StaysInside`: `nova_der_tlv` and `nova_spki_der` read and report nothing outside
  their buffer, for any bytes; `FindsTheKey`: in a well-formed certificate, with or
  without a version and with long or short lengths, the key is found.
- `EndIsCloseNotify`: the clean end is told only for a `close_notify`, although -1
  is two numbers. `ErrorIsOfThisCall`: an error never describes an earlier call.

Of `TlsHandshake`:

- `TypeOK`: each state is one its dispatch function has a case for.
- `FailsOnlyByRefusal`: two ends of this code fail because one refuses the other's
  certificate, or because their ALPN lists have no name in common; every other error
  is a consequence of that refusal. It is said of ends that have suites, groups,
  signature algorithms and memory enough in common: nova-tls configures none of these.
- `NothingLeftWhenOver`: no record, no kept message is left behind the handshake.
- `AgreeWhenOver`: version, keys, authentication and transcript.
- `AuthenticatedWhenOver`: who requires a certificate has seen a good one and a
  proof of its key.
- `BothEnd`: both ends come to an end, and to success just if there is no
  certificate and no list of protocols to refuse.
- `ImplementsFlights`: the refinement of `HandshakeFlights`.

## Runs

| Run | Constants of interest | Checks | States |
|---|---|---|---|
| `tls13` | 3 flights, chunk 3, fragment 2, window 8, 2 bytes, reading applications | the six safety properties of `TlsStream`; `CloseIsSeen`, `CloseReturns` | 53 902 |
| `tls12` | 4 flights, chunk 3, fragment 1, window 2, 2 bytes, faults and crashes | `NoHandshakeStandoff`, `RefusedGetsNothing`, `ImplementsChannel`, `HandshakeEnds` | 165 238 |
| `truncation` | 3 flights, 1 byte | `TruncationIsReal`, violated | |
| `lifecycle` | `MaxAlpn` 2, every configuration and certificate, any failure | `TypeOK` and the five properties of `TlsLifecycle` | 11 533 |
| `name` | `MaxAlpn` 1 | `NameAlwaysChecked`, violated | |
| `peer` | chunk 3, queues from 1 unit, 5 records of a foreign peer | `TypeOK`, `QueuesFit`, `NothingLostInside`, `ImplementsChannel` of `TlsFaults` | 305 887 |
| `recovery` | 2 writes, 3 records, `Net` fails and recovers, a reading application | `NothingLostInside`, `CleanEndLosesNothing`, `SentIsRead` | 97 532 |
| `starved` | 2 writes, 3 records, memory and `Net` fail | `QueuesFit`, `ImplementsChannel` | 653 756 |
| `accepted` | memory fails | `AcceptedIsSealed`, violated | |
| `hello` | memory fails | `HelloIsOut`, violated | |
| `helpers` | names of up to 8 characters, bytes of 4 bits, lengths of up to 2 bytes, `size_t` of 8 bits | the six properties of the helpers | 822 279 |
| `handshake` | 2160 pairs of configurations | the seven properties of `TlsHandshake` | 132 188 |

Bounds. `MaxBytes` is how many bytes each application writes, `MaxRead` its
largest read buffer, `Capacity` how many units TCP holds in one direction. A chunk
of 3 units is one and a half records, so chunks end in the middle of records and
join the end of one with the start of the next. A window of 2 units is smaller than
a flight followed by data, so `write_all` blocks and delivers in parts; one of 8
holds all that one side writes. Fragments of 1 with 2 bytes make `@write` partial
and `@write_all` loop; fragments of 2 with reads of 1 leave a rest in mbedTLS. Two
bytes per direction make reordering, loss and repetition visible. Both protocol
versions are covered because they differ in who finishes first. `MaxAlpn` bounds the
ALPN names of a configuration: two let the loop that adds them fail at the first, at
a later one, or not. The theorems about these modules have no such bounds.

In `TlsFaults`, `MaxWrites` and `MaxPeerRecords` bound what either side sends, and
`BaseCap` scales the 4096 bytes of a first allocation: with 1 or 2 units a queue
grows once, twice or not at all before it must. Two writes are what it takes for one
record to be reported under the length of another. Five peer records are what four
empty ones in a row, one of which ends the connection, take; the runs divide the
record types among them so that each stays small. In `helpers`, labels of up to 3
and names of up to 7 characters are accepted and names of up to 8 are tried, so both
limits are met and passed; a word of 8 bits makes the sum of a position and a length
wrap. In `handshake` nothing is bounded: `AllSetups` is every pair of an end of
nova-tls with another that the model tells apart. Of two ALPN lists it tells apart
whether there are any, and whether they have a name in common: `AlpnLists` has no lists,
one at either end only, two that share a name and two that do not.

The runs set `CHECK_DEADLOCK FALSE` because the system really ends: both streams
closed, or an application that makes no further call; in `TlsLifecycle`, a call
that has returned an error or a stream that was closed; in `TlsFaults`, both. In
`handshake`, deadlock is checked: two ends that both wait would be one. That nobody is stuck in a
call is what `NoHandshakeStandoff` and the liveness properties say.

Fairness. `FairSpec` assumes weak fairness of each fiber's steps inside a call
(the scheduler runs a fiber that can run) and of `ResetByPeer` (TCP answers data
sent to a closed socket). The application's calls are not fair: it may stop
calling. `ReadingSpec`, for `close`, adds an application that returns to `@read`
again and again. That is strong fairness because it may do other things in
between. In `TlsFaults`, `FairSpec` adds to the fiber's steps that a `Net.read`
which may fail again and again does not fail for ever (strong fairness of
`FillFromTcp`), and a reading application; the peer owes nothing. In `TlsHandshake`,
each end is driven by its own pump, which steps it whenever it can step.

What the runs found. `name` shows that the doc comment of `ClientConfig` ("the shim
always sends SNI and checks the name") holds for `SystemRoots` and `CustomRoots`
only: with `Pinned` or `InsecureSkipVerify` the name is required and then not used.
`truncation` shows that the end of a stream is not
remembered: a reader that got `Ok(0)` and reads again is told `PeerMisbehaved`
("possible truncation"), whereas `stream.nv:203-205` keeps that error for a TCP
connection that ended without close_notify. A limit rather than a contradiction:
`CloseReturns` fails with a window of 4 units, because both sides can sit in
`write_all` for the other to read; with no timeouts in the package that wait never
ends. `tls13` therefore gives TCP room for all that one side writes (8 units), and
shows that there is no other way for `@close` to hang.

`accepted` shows that after a `@write` that failed because `out_buf` could not
grow, the next `@write` returns `Ok(n)` for bytes that are never sealed: mbedTLS
sends the record it kept and reports the length of the new call. `hello` shows that
`tls_client_new`, which ignores the result of the step that makes the ClientHello,
can return a session whose ClientHello is still inside mbedTLS, so that `connect`
waits for an answer to nothing.

Limits that are no contradictions, met while modelling:

- `read_step` reads the socket beside a record that is already queued in two cases:
  two empty data records in a row (`mbedtls_ssl_read` returns 0) and a
  `no_renegotiation` warning (`ssl_msg.c:5853-5921`), against what `ffi.nv:105`
  says of 0. `SentIsRead` therefore has a peer that sends neither.
- `@close` behind a `@write` that ran out of memory sends the record that was left
  over instead of close_notify (`ssl_msg.c:5164`, `tls_c_shim.c:882`): the peer sees
  a truncation, which is safe (`ImplementsChannel` in `starved`).
- In TLS 1.3 a refusal often cannot be read by the other end: a client that refuses
  the server's certificate alerts in plaintext (`ssl_tls13_client.c:2640`) to a server
  that expects handshake keys (`ssl_tls13_server.c:2913`). That end reports a bad MAC;
  both are `HandshakeFailure` in the package.
- `_tls_is_ip_literal` lets ".", "a..b" and ":" pass (`tls_c_shim.c:241` calls it
  close enough); `NothingElsePasses` excepts literals.
- `AlpnNoCommonProtocol` has two causes: no common name, or a name of one's own that
  mbedTLS does not take.

## Proofs

### The stream

`Spec` of `TlsStream` is proved correct for every number of flights, chunk size, fragment size,
TCP capacity, bound on bytes and set of refusable flights, with and without
faults, under the assumptions `SessionAssumption` and `StreamAssumption` only.

- `Invariance`: `Spec => []IInv`, where `IInv` is `TypeOK` and a condition `Local`
  for each endpoint.
- `TypeCorrect`: `Spec => []TypeOK`.
- `DrainedBeforeBlocking`: `Spec => []BlocksOnlyWhenDrained`.
- `ReleaseAfterFlush`: `Spec => NothingUnsentOnRelease`.

Why `Local`. That a fiber in `Net.read` has a drained session is decided two loop
heads earlier, when mbedTLS answers `WANT_READ`; in between the fiber goes through
the pump and `flush_out`. `Local` says what holds at each of these places: the
session is drained in the pump while the handshake lasts, and in `flush_out` when
`pump_handshake` or `read_step` called it; `out_buf` is empty before `Net.read`;
`scratch` is in use only inside `write_all`. It speaks of one endpoint, and no step
of an endpoint touches another's session, so the proof is one lemma per action
about the endpoint that moves (`...Keeps`), over lemmas that say how a fiber
leaves, returns or releases (`Move`, `ReturnKeeps`, `ReleaseKeeps`).
The lemmas about `TlsSession`, first in that module, show that the operators on
sessions return sessions.
`ReleaseAfterFlush` uses the invariant in the places from which a fiber ends: the
flush is over, or it was reading, or TCP had failed.

### The two pumps

What no fiber knows by itself, for the same specification:

- `NoStandoffOfPumps`: `Spec => []NoHandshakeStandoff`, from `PumpInvariance`. The
  invariant adds `Place` (where a fiber is tells whether its handshake is over) and
  `InStep`: between two running ends, one is a flight ahead, that flight is under
  way, and nothing is on its way back. Under way means in `outb`, `scratch`, TCP,
  `inb` or `left`; only the sum of units counts, so how chunks cut them does not
  matter, and a lemma per operator says what it does to the sum. Two fibers in
  `Net.read` with empty TCP have empty queues (`Local`), so neither is ahead.
- `NothingForTheRefused`: `Spec => []RefusedGetsNothing`. The end that is refused
  may believe its handshake over, so the argument is about the other one: it stays
  before the flight it refuses (`Due`), all it seals are flights and an alert
  (`Quiet`), and no cut of such units is a record of data or a close_notify.

### The channel

`StreamsAreAChannel`: `Spec => ImplementsChannel`. The mapping
is the identity on the four history variables, so a step either leaves them alone (a
stutter) or is `WriteStep`, `ReadPlain`, `Close` or `ReadCloseNotify`, and what has to
be proved is that a reader is given nothing but the next bytes. `ChannelInv` says why,
for each direction:

- `Tells`: there is a log of the records the writer's session sealed, its data
  records carry the bytes written, in order, and only the last word is a
  close_notify. The log is no variable of the model: the invariant says that one
  exists, and `WriterSeals` appends to it.
- `Pipe`: `left` and `inb` of the reader, TCP, `scratch` and `outb` of the writer hold
  the log's units from record `k + 1` on, each queue where the one before ends
  (`Carries`). Cutting, joining and moving units keep it, whatever `TLS_CHUNK`
  and TCP do, so the next record the reader opens is record `k + 1` (`NextOfLog`). When
  one end is over, or TCP is gone, only the reader's part of it remains.
- `Continues`: what the application has, and what is decrypted for it, are the bytes
  of the first `k` records.
- `Facts`: what the applications know of each other, from the `Tells` of the other
  direction; a clean end is the close_notify of that log (`EndIsReal`).

There is a lemma for a step seen by the direction its end writes in (`WriterStays`),
one for that it reads in (`ReaderStays`), and one for the loss of TCP (`FaultStays`).

### `connect` and `accept`

`TlsLifecycle` is proved for every configuration with any number of ALPN names,
under `LifecycleAssumption` only, in two layers.

- `MemoryInvariance`: `Spec => []MemoryInv`, from which `SingleOwner`
  (`Spec => []Owned`) and `ReleasedWhenOver` (`Spec => []ReleasedOnReturn`). `Owned`
  is not inductive: that an error path releases all there is depends on what the
  call holds at that statement. `MemoryInv` says it for each: the socket until the
  call returns, the builder between `tls_cfg_new` and the end of the constructor,
  the session from its allocation to the end of the pump, the ALPN list with the
  builder before the move and with the session, or nobody, after it.
- `FactsInvariance`: `Spec => [](MemoryInv /\ Facts)`, where `Facts` is `TypeOK`,
  `Course` and `Record`. `Course` says what has been checked, and what mbedTLS has
  been told, by each statement of the `rc` chain: how many names have been added,
  when the list, the certificate and the mode are in the settings, and that none of
  them is lost afterwards. It gives `ConfigurationInForce`
  (`Spec => []PumpsAsConfigured`). `Record` adds what is true once the handshake is
  over; with two lemmas about `Verdict` and `ErrorOf` (`OkMeans`, `ErrorMeans`) it
  gives `VerifiedWhenOpen` (`Spec => []EstablishedIsVerified`) and `CauseTold`
  (`Spec => []ErrorTellsCause`). `LifecycleTypes` is type correctness.

### A stream that fails and a foreign peer

`TlsFaults` is proved in `TlsFaults_proofs` for every number of writes and records,
chunk size, first capacity of a queue and set of records a peer may send, under
`FaultsAssumption`; memory and `Net` may or may not fail. `FaultsInvariant` is the
invariant `IInv`: `TypeOK`, `Course` (where the fiber is in which call) and

- `Fits`: `CopiesFit` (`Spec => []QueuesFit`) follows. The capacities are a recursive
  function over the numbers; that it is defined, and that some power of two times
  the first is enough, is proved from the least number that is a counterexample
  (`Least`, `Counting`, `CapacityIs`, `DoubledIs`).
- `WeSaid`, `TheySaid`: who sealed what. There is a log of the records the session
  sealed (no variable: the invariant says that one exists), and the peer's log. A
  unit on its way need not be followed by the next one, since any may have been
  lost with a queue that could not grow; but it is a unit of the record in the log
  that has its number, and a reader counts only the record its counter says. So
  each reader has exactly the data records up to its counter (`Count`).
- `Rising`: the `@write` calls carry rising numbers, so that a sealed byte has one
  place.
- `Whole`: while memory lasts, `left`, `in_buf` and TCP are the peer's records from
  some record on, each queue where the one before ends (`Along`); that record is the
  next one uncounted, until a fourth empty one was refused. It gives `NothingIsLost`
  (`Spec => []NothingLostInside`).
- `Kept`: while memory lasts no record is left over in mbedTLS, and a byte is sealed
  before its `@write` returns. It gives `CleanEndIsWhole`
  (`Spec => []CleanEndLosesNothing`) and `AcceptedWhileMemoryLasts`
  (`Spec => []AcceptedIsSealed`).

The last three are stated under `MayStarve = FALSE`, the constant that says whether
`realloc` may fail: with it they are false, as the run `accepted` shows of one.
`StreamIsAChannel` (`Spec => ImplementsChannel`) needs no such assumption: the first
three parts say where the four streams of bytes stand (`View`), and with them each
step is one of the channel, or none (`OurStep`, `PeerStep`, `Unseen`).

### The handshake machines

`TlsHandshake` is proved in `TlsHandshake_proofs` for every set of configurations
(`SetupAssumption`). `HandshakeInvariant` does not follow the two machines of some thirty
states each in step; it is the argument of TLS itself:

- `ClientKnows`, `ServerKnows`: what the state of an end, alone, says of its
  transcript, its keys and its peer's certificate.
- `Genuine`: a record on its way is one its sender may seal.
- `LastWord`: a `Finished` on its way vouches for the transcript of the end that
  sealed it (`Vouches`), and while that end runs it has sent nothing behind it. A
  transcript with a `ClientKeyExchange` is none of TLS 1.3, so a `Finished` accepted
  is one of the same version.
- `HasHeard`: who accepted the `Finished` of the other end knows that it has the same
  version and transcript, and that nothing is left of what it sent.

There is one lemma for each handler, about the context of the end that moves
(`HandshakeTypes` is their first result), and one that carries the rest
over from the other end. `NothingLeft` (`Spec => []NothingLeftWhenOver`),
`BothAgree` (`Spec => []AgreeWhenOver`) and `Authenticated`
(`Spec => []AuthenticatedWhenOver`) follow.

That a handshake fails for no cause but a certificate or a list of protocols does not
follow from this: one needs to know of every message what it is when it arrives.
`TlsScript_proofs` and
`TlsConversation_proofs` follow the machines in step after all, without a product of
their states:

- There is one script for all configurations, 29 lines in one order (2 to 16 of TLS 1.3,
  17 to 29 of TLS 1.2, some said only in some configurations: `Lines`), each with its
  speaker, message and transcript.
- The context of an end says how many lines it has said or heard (`Place`), and
  the place what the rest of it is: transcript, keys, the message it keeps (`FitsPlace`).
- What lies between the two ends is the lines between their two places, each once, in
  order, none left out (`Lined`); a ChangeCipherSpec of TLS 1.3, which nobody waits for,
  may be left of an earlier place. An alert comes last.
- The flights that `HandshakeFlights` counts are those that end up to the place
  (`FlightsAt`).

`InStep` is the conjunction of these with `FailsOnlyByRefusal`, and `HandshakeInStep` is
`Spec => []InStep`, from `HandshakeInvariant`. The handlers come in a few shapes, each a
lemma of `TlsScript_proofs` about any two places: an end writes (`WriteGoes`), accepts
(`AcceptGoes`), keeps for later, passes over or refuses a message, or goes on without
one. With the next line of the script (`Turns13`, `Turns12`) there remains for each
handler, in `TlsConversation_proofs`, that it writes or takes this line, and that the new
context fits the new place. Every message an end meets is the next line of the script,
so the branches that fail for one out of order are proved unreachable between two ends
of this code.

- `OnlyRefusals`: `Spec => []FailsOnlyByRefusal`, for every set of pairs of
  configurations over any set of protocol names (`Protocols`).
- `HandshakeIsFlights`: `Spec => ImplementsFlights`. A line that ends a flight is the
  step of its speaker in `HandshakeFlights`, hearing it the step of the other, and an end is
  over at the place where all flights have ended (`FlightsAre`).

Both rest on one assumption more, `ServerAssumption`: a server has a certificate, for
`tls_server_new` makes no session without (native/tls_c_shim.c:690).

`HandshakeFlights_proofs`: `NoStandoff` and `OverIsComplete` for any number of
flights: the counts differ by at most one, and who is ahead sent last.

### The helpers

`TlsHelpers_proofs` assumes `NamesAssumption`, `DerAssumption` and, of the values TLC's
certificates are made of, `InputsAssumption`; a byte of 256 values, lengths of up to four
bytes, a `size_t` of 64 bits and the tags 0x30 and 0xA0 satisfy them, and so does the run.

- Certificates: `ElementStaysInside` and `KeyStaysInside`, for bytes and words of
  any size and certificates of any content a word can count: the walk reads and
  reports nothing outside the buffer, although lengths are added modulo the word.
  Each step of the walk keeps a window inside the buffer (`Skip`, `Open`).
  `NeverOutside` (`Spec => []StaysInside`) says it of the run's certificates, damaged
  and cut.
- `KeyIsFound`: in every certificate put together from well-formed elements
  (`WellFormed`: any contents, tags and number of bytes, lengths in up to two bytes) the
  key is found. The proof follows the walk over the parts of a concatenation
  (`Holds`): `nova_der_tlv` reads an encoded element for what it is, wherever it is
  (`EncodeRead`), so every step lands on the next part. `FindsTheMadeKey`
  (`Spec => []FindsTheKey`) is the instance the run checks. Longer lengths are read,
  and stay inside, but are not part of this theorem.
- Names: `RealNamesArePassed` (`Spec => []RealNamesPass`) and `NamesAreNames`
  (`Spec => []NothingElsePasses`), for every `MaxLabel` and `MaxName`. The check goes
  by labels, the grammar by neighbours; both are said of what is between neighbouring
  cuts (`Consecutive`, `BetweenOk`), and a cut next to any position exists by the
  least number (`NextCut`, `LastCut`).
- Errors: `CleanEndIsCloseNotify` and `ErrorOfThisCall`, after any
  sequence of calls. The slot of the session is not constrained: a call that
  succeeds tells no error, and one that fails has just written the slot.

### Model-checked only

- All liveness (`CloseIsSeen`, `CloseReturns`, `HandshakeEnds`, `SentIsRead`,
  `BothEnd`), which the prover does not reach, nor `ENABLED`.

## Not modelled

- *Most of the vendored library*: ciphers, curves, big numbers, PSA, X.509 and ASN.1
  parsing. They are over nine tenths of the lines of the repository, compute functions of their
  inputs, and have no state that outlives a call; a flight is accepted or refused, a
  chain is trusted or not. Only a small share of all lines can therefore be modelled.
- *Parts of mbedTLS that nova-tls does not configure*: DTLS, renegotiation,
  resumption, pre-shared keys, early data. In `TlsHandshake` the contents of
  messages are left out, and with them the choice of suite, group, signature algorithm
  and protocol: nova-tls sets only the last, and of it the model keeps whether there is
  one to choose. A mismatch of pins counts as a certificate that does not verify, and an end of TLS 1.2 only is another build of mbedTLS. Its branches for a
  second HelloRetryRequest, a message out of order and a downgrade never fire between
  two ends of this code; they are there because the handlers have them.
- *Joining construction and traffic*: which flight is refused is a constant of
  `TlsStream` and not derived from the two configurations of `TlsLifecycle`.
  `TlsHandshake` derives it from authentication modes, certificates and ALPN lists.
- *The root bundle* (data), *the stubs* of a build without mbedTLS (no state), *the
  inspection calls* of a stream (they change nothing; `@alpn_negotiated` cuts names
  at 64 bytes), an empty read buffer (returns at once), NULL handles and bad buffers
  (no caller in the package passes them), the texts of errors.
