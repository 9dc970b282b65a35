----------------------------- MODULE TlsErrors -----------------------------
(***************************************************************************)
(* How an answer of mbedTLS becomes the result of a call of TlsStream:     *)
(* _tls_classify turns it into one of the shim's codes, the code goes both *)
(* back to the caller and into the session (last_err_kind), and stream.nv  *)
(* looks at the returned number but builds its TlsError from the session.  *)
(* The number -1 means CLOSE_NOTIFY from tls_read_plain and INTERNAL       *)
(* everywhere else.                                                        *)
(***************************************************************************)
EXTENDS Integers

VARIABLES
    last_err_kind,  \* of the session, kept from call to call
    answer,         \* what mbedTLS, or the allocator, said in the last call
    told            \* what the application was told

errVars == <<last_err_kind, answer, told>>

OK == 0
INTERNAL == -1
CERT_INVALID == -3
CERT_EXPIRED == -4
HOSTNAME_MISMATCH == -5
UNSUPPORTED_VERSION == -6
HANDSHAKE == -7
ALPN == -8
PEER_MISBEHAVED == -9
READ_CLOSE_NOTIFY == -1

\* What mbedtls_ssl_get_verify_result may have found.
Flaw == {"cn_mismatch", "expired", "future", "not_trusted"}
Plain(rc) == [rc |-> rc, flags |-> {}]
\* The return codes the shim tells apart.
Answers ==
    { Plain(rc) : rc \in { "bytes", "zero", "want_read", "want_write", "peer_close_notify",
                           "no_application_protocol", "bad_protocol_version", "conn_eof", "other" } }
    \cup { [rc |-> "verify_failed", flags |-> f] : f \in SUBSET Flaw }

\* (mutant: the codes nobody named become an internal error)
OtherIsInternal(a) ==
    IF a.rc = "no_application_protocol" THEN ALPN
    ELSE IF a.rc = "bad_protocol_version" THEN UNSUPPORTED_VERSION
    ELSE IF a.rc = "conn_eof" THEN PEER_MISBEHAVED
    ELSE INTERNAL
_tls_classify(a) ==
    CASE a.rc = "verify_failed" ->
            IF "cn_mismatch" \in a.flags THEN HOSTNAME_MISMATCH
            ELSE IF a.flags \cap {"expired", "future"} # {} THEN CERT_EXPIRED
            ELSE CERT_INVALID
      [] a.rc = "no_application_protocol" -> ALPN
      [] a.rc = "bad_protocol_version" -> UNSUPPORTED_VERSION
      [] a.rc = "conn_eof" -> PEER_MISBEHAVED
      [] OTHER -> HANDSHAKE

\* TlsError.from_shim.
from_shim(kind) ==
    CASE kind = CERT_INVALID        -> "CertificateInvalid"
      [] kind = CERT_EXPIRED        -> "CertificateExpired"
      [] kind = HOSTNAME_MISMATCH   -> "HostnameMismatch"
      [] kind = UNSUPPORTED_VERSION -> "UnsupportedProtocolVersion"
      [] kind = HANDSHAKE           -> "HandshakeFailure"
      [] kind = ALPN                -> "AlpnNoCommonProtocol"
      [] kind = PEER_MISBEHAVED     -> "PeerMisbehaved"
      [] OTHER                      -> "Internal"

ErrInit == last_err_kind = OK /\ answer = Plain("zero") /\ told = "nothing"

\* The call failed with this code; the caller sees it and asks the session.
Fail(a, code) ==
    /\ last_err_kind' = code
    /\ answer' = a
    /\ told' = from_shim(last_err_kind')
Succeed(a, what) ==
    /\ answer' = a
    /\ told' = what
    /\ UNCHANGED last_err_kind

-----------------------------------------------------------------------------
(* read_step around one tls_read_plain, by the number that call returns.   *)

tls_read_plain(a) ==
    CASE a.rc = "bytes"                 -> 1
      [] a.rc = "peer_close_notify"     -> READ_CLOSE_NOTIFY
      [] a.rc \in {"zero", "want_read"} -> 0
      [] OTHER                          -> _tls_classify(a)

ReadPlain(a) ==
    LET n == tls_read_plain(a)
    IN  \/ n > 0 /\ Succeed(a, "data")
        \/ n = -1 /\ Succeed(a, "end")
        \/ n < -1 /\ Fail(a, n)
        \/ n = 0 /\ Succeed(a, "more")

(* write_step around one tls_write_plain: a full out_buf is not expected.  *)
WritePlain(a) ==
    \/ a.rc \in {"bytes", "zero"} /\ Succeed(a, "data")
    \/ a.rc \in {"want_read", "want_write"} /\ Fail(a, INTERNAL)
    \/ a.rc \notin {"bytes", "zero", "want_read", "want_write"} /\ Fail(a, _tls_classify(a))

(* fill_from_tcp: _tls_step goes past WANT_WRITE, so no call ends with it.  *)
Process(a) ==
    \/ a.rc \in {"zero", "want_read"} /\ Succeed(a, "more")
    \/ a.rc \notin {"bytes", "zero", "want_read", "want_write"} /\ Fail(a, _tls_classify(a))

\* (mutant: the code is returned, but not left in the session)
ReturnsOnly ==
    /\ answer' = Plain("no_memory") /\ told' = from_shim(last_err_kind)
    /\ UNCHANGED last_err_kind
ReadTlsStarves == Fail(Plain("no_memory"), INTERNAL)

ErrNext ==
    \/ \E a \in Answers : ReadPlain(a) \/ WritePlain(a) \/ Process(a)
    \/ ReadTlsStarves

ErrSpec == ErrInit /\ [][ErrNext]_errVars

-----------------------------------------------------------------------------

\* Whatever the number -1 means elsewhere: the application sees the clean end
\* of the stream only when mbedTLS did report a close_notify.
EndIsCloseNotify == told = "end" => answer.rc = "peer_close_notify"

\* An error says what happened; of several flaws of a certificate the wrong
\* name is told before the wrong time, and that before any other.
Describes(what, a) ==
    /\ a.rc = "verify_failed" => what \in {"HostnameMismatch", "CertificateExpired", "CertificateInvalid"}
    /\ what = "HostnameMismatch" <=> "cn_mismatch" \in a.flags
    /\ what = "CertificateExpired" <=>
          {"expired", "future"} \cap a.flags # {} /\ "cn_mismatch" \notin a.flags
    /\ what = "AlpnNoCommonProtocol" <=> a.rc = "no_application_protocol"
    /\ what = "UnsupportedProtocolVersion" <=> a.rc = "bad_protocol_version"
    /\ what = "PeerMisbehaved" <=> a.rc = "conn_eof"
    /\ what = "Internal" => a.rc \in {"no_memory", "want_read", "want_write"}
    /\ what = "HandshakeFailure" => a.rc \in {"other", "want_write", "peer_close_notify"}

\* The error a call returns is about what happened in that call, never about
\* an earlier one whose code the session still holds.
ErrorIsOfThisCall == Describes(told, answer)

=============================================================================
