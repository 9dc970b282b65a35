------------------------------- MODULE TlsDer -------------------------------
(***************************************************************************)
(* How the shim finds the SubjectPublicKeyInfo it pins in a certificate    *)
(* (nova_der_tlv, nova_spki_der in native/tls_c_shim.c): a walk over DER   *)
(* elements whose lengths come from the peer.  A buffer is a sequence of   *)
(* bytes; positions count from 0, as pointers do.  The size of a byte is   *)
(* scaled; Word is the modulus of size_t, in which the code adds.          *)
(***************************************************************************)
EXTENDS Integers, Sequences

CONSTANTS
    Base,         \* values of a byte: 256
    MaxLenBytes,  \* bytes a long length may have: 4
    Word,         \* size_t is a number below this
    SequenceTag,  \* 0x30
    VersionTag    \* 0xA0

ASSUME DerAssumption ==
    /\ Base \in Nat \ {0, 1}
    /\ MaxLenBytes \in 1 .. 4
    /\ Word \in Nat /\ Word >= Base /\ Word > MaxLenBytes + 2
    /\ SequenceTag \in 0 .. Base - 1 /\ VersionTag \in 0 .. Base - 1

Byte == 0 .. Base - 1
LongBit == Base \div 2
Plus(a, b) == IF a + b < Word THEN a + b ELSE a + b - Word

\* The byte at a position; what lies behind the buffer is anyone's.
At(data, i) == IF i < Len(data) THEN data[i + 1] ELSE 0

-----------------------------------------------------------------------------
(* nova_der_tlv on the avail bytes at from.  hdr, len and end are its      *)
(* content_off, content_len and tlv_len; reach: how many bytes it read.    *)

Failed(reach) == [ok |-> FALSE, tag |-> 0, hdr |-> 0, len |-> 0, end |-> 0, reach |-> reach]

\* A length of n bytes at i.
BigEndian(data, i, n) ==
    LET b(k) == At(data, i + k)
    IN  ( IF n = 1 THEN b(0)
          ELSE IF n = 2 THEN b(0) * Base + b(1)
          ELSE IF n = 3 THEN (b(0) * Base + b(1)) * Base + b(2)
          ELSE ((b(0) * Base + b(1)) * Base + b(2)) * Base + b(3) ) % Word

\* (mutant: nobody looks whether the sum wrapped around)
WrapsAround(tag, hdr, len, avail) ==
    IF Plus(hdr, len) > avail THEN Failed(hdr)
    ELSE [ok |-> TRUE, tag |-> tag, hdr |-> hdr, len |-> len, end |-> Plus(hdr, len), reach |-> hdr]
Element(tag, hdr, len, avail) ==
    IF Plus(hdr, len) < hdr \/ Plus(hdr, len) > avail THEN Failed(hdr)
    ELSE [ok |-> TRUE, tag |-> tag, hdr |-> hdr, len |-> len, end |-> Plus(hdr, len), reach |-> hdr]

\* (mutant: the bytes of a long length are read before they are known to be there)
ReadsAhead(data, from, avail) ==
    LET tag == At(data, from)
        b1  == At(data, from + 1)
        n   == b1 - LongBit
    IN  IF avail < 2 THEN Failed(0)
        ELSE IF b1 < LongBit THEN Element(tag, 2, b1, avail)
        ELSE IF n = 0 \/ n > MaxLenBytes THEN Failed(2)
        ELSE Element(tag, 2 + n, BigEndian(data, from + 2, n), avail)
nova_der_tlv(data, from, avail) ==
    LET tag == At(data, from)
        b1  == At(data, from + 1)
        n   == b1 - LongBit
    IN  IF avail < 2 THEN Failed(0)
        ELSE IF b1 < LongBit THEN Element(tag, 2, b1, avail)
        ELSE IF n = 0 \/ n > MaxLenBytes \/ avail < 2 + n THEN Failed(2)
        ELSE Element(tag, 2 + n, BigEndian(data, from + 2, n), avail)

-----------------------------------------------------------------------------
(* nova_spki_der.  tbs: where the content of tbsCertificate is.            *)

Nothing == [ok |-> FALSE, from |-> 0, len |-> 0]
\* The content of the element at w, if it is a SEQUENCE.
Open(data, w) ==
    LET e == nova_der_tlv(data, w.from, w.len)
    IN  IF w.ok /\ e.ok /\ e.tag = SequenceTag
        THEN [ok |-> TRUE, from |-> w.from + e.hdr, len |-> e.len]
        ELSE Nothing

\* What is behind the element at w.
Skip(data, w) ==
    LET e == nova_der_tlv(data, w.from, w.len)
    IN  IF w.ok /\ e.ok
        THEN [ok |-> TRUE, from |-> w.from + e.end, len |-> w.len - e.end]
        ELSE Nothing

\* (mutant: a version that is not there is skipped too)
VersionAlways(data, tbs) == Skip(data, tbs)
SkipVersion(data, tbs) ==
    IF nova_der_tlv(data, tbs.from, tbs.len).tag = VersionTag
    THEN Skip(data, tbs)
    ELSE [tbs EXCEPT !.ok = @ /\ nova_der_tlv(data, tbs.from, tbs.len).ok]

\* serialNumber, signature, issuer, validity, subject.
SkipFields(data, w) ==
    Skip(data, Skip(data, Skip(data, Skip(data, Skip(data, w)))))

\* The whole certificate is in data; the key found is w.len bytes at w.from.
nova_spki_der(data) ==
    LET tbs == Open(data, Open(data, [ok |-> TRUE, from |-> 0, len |-> Len(data)]))
        w   == SkipFields(data, SkipVersion(data, tbs))
        e   == nova_der_tlv(data, w.from, w.len)
    IN  IF w.ok /\ e.ok /\ e.tag = SequenceTag
        THEN [ok |-> TRUE, from |-> w.from, len |-> e.end]
        ELSE Nothing

=============================================================================
