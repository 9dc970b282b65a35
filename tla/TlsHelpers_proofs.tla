------------------------- MODULE TlsHelpers_proofs --------------------------
(***************************************************************************)
(* Proofs about the parts without a session: certificates, server names    *)
(* and errors, for every value of their constants.                         *)
(***************************************************************************)
EXTENDS MCTlsHelpers, SequenceTheorems, FiniteSetTheorems, WellFoundedInduction, TLAPS

-----------------------------------------------------------------------------
(* The walk over a certificate never leaves the certificate, for every     *)
(* size of a byte, every length of a length, and every word that can       *)
(* count the bytes that are there.                                         *)

\* A window is a part of the buffer: the len bytes at from.
Inside(data, w) == w.from \in Nat /\ w.len \in Nat /\ w.from + w.len <= Len(data)

\* What one element may be: never past avail bytes, and of hdr + len bytes,
\* not of what is left of that sum when it does not fit into a word.
Within(e, avail) ==
    /\ e.reach \in Nat /\ e.reach <= avail
    /\ e.ok => /\ e.hdr \in Nat /\ e.len \in Nat
               /\ e.end = e.hdr + e.len
               /\ e.end <= avail

\* What is read, also behind the buffer, is a byte.
LEMMA ByteAt ==
    ASSUME NEW data \in Seq(Byte), NEW i \in Nat
    PROVE  At(data, i) \in Byte
<1>1. 0 \in Byte
  BY DerAssumption DEF Byte
<1>2. CASE i < Len(data)
  <2>1. i + 1 \in 1 .. Len(data)
    BY <1>2
  <2>2. data[i + 1] \in Byte
    BY <2>1
  <2> QED
    BY <2>2, <1>2 DEF At
<1>3. CASE ~(i < Len(data))
  BY <1>1, <1>3 DEF At
<1> QED
  BY <1>2, <1>3

\* A length of up to four bytes is computed in a word.
LEMMA LengthIsWord ==
    ASSUME NEW data \in Seq(Byte), NEW i \in Nat, NEW n \in Nat
    PROVE  BigEndian(data, i, n) \in 0 .. Word - 1
<1> DEFINE b(k) == At(data, i + k)
<1>1. \A k \in 0 .. 3 : b(k) \in Nat
  <2>1. \A k \in 0 .. 3 : i + k \in Nat
    OBVIOUS
  <2>2. Byte \subseteq Nat
    BY DerAssumption DEF Byte
  <2> QED
    BY <2>1, <2>2, ByteAt
<1>2. \A a, c \in Nat : a * Base + c \in Nat
  BY DerAssumption
<1>3. b(0) \in Nat /\ b(1) \in Nat /\ b(2) \in Nat /\ b(3) \in Nat
  BY <1>1
<1> HIDE DEF b
<1>4. b(0) * Base + b(1) \in Nat
  BY <1>2, <1>3
<1>5. (b(0) * Base + b(1)) * Base + b(2) \in Nat
  BY <1>2, <1>3, <1>4
<1>6. ((b(0) * Base + b(1)) * Base + b(2)) * Base + b(3) \in Nat
  BY <1>2, <1>3, <1>5
<1>7. \A x \in Nat : x % Word \in 0 .. Word - 1
  BY DerAssumption
<1> DEFINE v == IF n = 1 THEN b(0)
                ELSE IF n = 2 THEN b(0) * Base + b(1)
                ELSE IF n = 3 THEN (b(0) * Base + b(1)) * Base + b(2)
                ELSE ((b(0) * Base + b(1)) * Base + b(2)) * Base + b(3)
<1>8. v \in Nat
  BY <1>3, <1>4, <1>5, <1>6
<1>9. BigEndian(data, i, n) = v % Word
  BY DEF BigEndian, b
<1> HIDE DEF v
<1> QED
  BY <1>7, <1>8, <1>9

\* The two comparisons leave only an element that fits, although the sum is
\* taken in a word.
LEMMA ElementFits ==
    ASSUME NEW tag, NEW hdr \in Nat, NEW len \in 0 .. Word - 1, NEW avail \in Nat,
           hdr <= avail, avail < Word
    PROVE  Within(Element(tag, hdr, len, avail), avail)
<1>1. Word \in Nat
  BY DerAssumption
<1>2. CASE hdr + len < Word
  BY <1>1, <1>2 DEF Within, Element, Failed, Plus
<1>3. CASE ~(hdr + len < Word)
  <2>1. Plus(hdr, len) < hdr
    BY <1>1, <1>3 DEF Plus
  <2> QED
    BY <2>1 DEF Within, Element, Failed
<1> QED
  BY <1>2, <1>3

\* nova_der_tlv reads no byte behind the ones it was given, and the element
\* it reports ends among them, whatever the bytes are.
THEOREM ElementStaysInside ==
    ASSUME NEW data \in Seq(Byte), NEW from \in Nat, NEW avail \in Nat, avail < Word
    PROVE  Within(nova_der_tlv(data, from, avail), avail)
<1> DEFINE tag == At(data, from)
           b1  == At(data, from + 1)
           n   == b1 - LongBit
<1>1. b1 \in 0 .. Base - 1
  BY ByteAt DEF Byte
<1>2. Base \in Nat /\ Word \in Nat /\ Word >= Base /\ MaxLenBytes \in Nat
  BY DerAssumption
<1>3. LongBit \in Nat
  BY <1>2 DEF LongBit
<1>4. nova_der_tlv(data, from, avail) =
        IF avail < 2 THEN Failed(0)
        ELSE IF b1 < LongBit THEN Element(tag, 2, b1, avail)
        ELSE IF n = 0 \/ n > MaxLenBytes \/ avail < 2 + n THEN Failed(2)
        ELSE Element(tag, 2 + n, BigEndian(data, from + 2, n), avail)
  BY DEF nova_der_tlv
<1>5. CASE avail < 2
  BY <1>4, <1>5 DEF Within, Failed
<1>6. CASE avail >= 2 /\ b1 < LongBit
  <2>1. b1 \in 0 .. Word - 1
    BY <1>1, <1>2
  <2>2. Within(Element(tag, 2, b1, avail), avail)
    BY <2>1, <1>6, ElementFits
  <2> QED
    BY <2>2, <1>4, <1>6
<1>7. CASE avail >= 2 /\ ~(b1 < LongBit) /\ (n = 0 \/ n > MaxLenBytes \/ avail < 2 + n)
  BY <1>4, <1>7 DEF Within, Failed
<1>8. CASE avail >= 2 /\ ~(b1 < LongBit) /\ ~(n = 0 \/ n > MaxLenBytes \/ avail < 2 + n)
  <2>1. n \in Nat /\ 2 + n <= avail
    BY <1>1, <1>2, <1>3, <1>8
  <2>2. BigEndian(data, from + 2, n) \in 0 .. Word - 1
    <3>1. n \in Nat /\ from + 2 \in Nat
      BY <2>1
    <3> HIDE DEF n
    <3> QED
      BY <3>1, LengthIsWord
  <2>3. Within(Element(tag, 2 + n, BigEndian(data, from + 2, n), avail), avail)
    BY <2>1, <2>2, ElementFits
  <2> QED
    BY <2>3, <1>4, <1>8
<1> QED
  BY <1>1, <1>3, <1>5, <1>6, <1>7, <1>8

-----------------------------------------------------------------------------
(* The walk: a window inside the certificate leads to a window inside it.  *)

\* What is in a window is in the certificate.
LEMMA OpenStays ==
    ASSUME NEW data \in Seq(Byte), Len(data) < Word, NEW w, w.ok => Inside(data, w)
    PROVE  Open(data, w).ok => Inside(data, Open(data, w))
<1> DEFINE e == nova_der_tlv(data, w.from, w.len)
<1>1. CASE w.ok /\ e.ok /\ e.tag = SequenceTag
  <2>1. w.from \in Nat /\ w.len \in Nat /\ w.from + w.len <= Len(data)
    BY <1>1 DEF Inside
  <2>2. Len(data) \in Nat /\ Word \in Nat
    BY DerAssumption
  <2>3. w.len < Word
    BY <2>1, <2>2
  <2>4. Within(e, w.len)
    BY <2>1, <2>3, ElementStaysInside
  <2>5. Open(data, w) = [ok |-> TRUE, from |-> w.from + e.hdr, len |-> e.len]
    BY <1>1 DEF Open
  <2>6. e.hdr \in Nat /\ e.len \in Nat /\ e.end = e.hdr + e.len /\ e.end <= w.len
    BY <1>1, <2>4 DEF Within
  <2> HIDE DEF e
  <2>7. w.from + e.hdr \in Nat /\ (w.from + e.hdr) + e.len <= Len(data)
    BY <2>1, <2>2, <2>6
  <2> QED
    BY <2>5, <2>6, <2>7 DEF Inside
<1>2. CASE ~(w.ok /\ e.ok /\ e.tag = SequenceTag)
  BY <1>2 DEF Open, Nothing
<1> QED
  BY <1>1, <1>2

\* What is left of a window is in the certificate.
LEMMA SkipStays ==
    ASSUME NEW data \in Seq(Byte), Len(data) < Word, NEW w, w.ok => Inside(data, w)
    PROVE  Skip(data, w).ok => Inside(data, Skip(data, w))
<1> DEFINE e == nova_der_tlv(data, w.from, w.len)
<1>1. CASE w.ok /\ e.ok
  <2>1. w.from \in Nat /\ w.len \in Nat /\ w.from + w.len <= Len(data)
    BY <1>1 DEF Inside
  <2>2. Len(data) \in Nat /\ Word \in Nat
    BY DerAssumption
  <2>3. w.len < Word
    BY <2>1, <2>2
  <2>4. Within(e, w.len)
    BY <2>1, <2>3, ElementStaysInside
  <2>5. Skip(data, w) = [ok |-> TRUE, from |-> w.from + e.end, len |-> w.len - e.end]
    BY <1>1 DEF Skip
  <2>6. e.end \in Nat /\ e.end <= w.len
    BY <1>1, <2>4 DEF Within
  <2> HIDE DEF e
  <2>7. /\ w.from + e.end \in Nat /\ w.len - e.end \in Nat
        /\ (w.from + e.end) + (w.len - e.end) <= Len(data)
    BY <2>1, <2>2, <2>6
  <2> QED
    BY <2>5, <2>7 DEF Inside
<1>2. CASE ~(w.ok /\ e.ok)
  BY <1>2 DEF Skip, Nothing
<1> QED
  BY <1>1, <1>2

\* The SubjectPublicKeyInfo that is hashed and compared with the pins is a
\* part of the certificate, for every certificate: no byte behind it gets
\* into the pin, and the memcpy never leaves the buffer.
THEOREM KeyStaysInside ==
    ASSUME NEW data \in Seq(Byte), Len(data) < Word, nova_spki_der(data).ok
    PROVE  Inside(data, nova_spki_der(data))
<1> DEFINE all == [ok |-> TRUE, from |-> 0, len |-> Len(data)]
           tbs == Open(data, Open(data, all))
           ver == SkipVersion(data, tbs)
           w   == SkipFields(data, ver)
           e   == nova_der_tlv(data, w.from, w.len)
<1>1. Inside(data, all)
  BY DEF Inside
<1>2. tbs.ok => Inside(data, tbs)
  <2> HIDE DEF all
  <2>1. Open(data, all).ok => Inside(data, Open(data, all))
    BY <1>1, OpenStays
  <2> QED
    BY <2>1, OpenStays
<1>3. ver.ok => Inside(data, ver)
  <2> HIDE DEF tbs
  <2>1. CASE nova_der_tlv(data, tbs.from, tbs.len).tag = VersionTag
    <3>1. ver = Skip(data, tbs)
      BY <2>1 DEF SkipVersion
    <3> QED
      BY <3>1, <1>2, SkipStays
  <2>2. CASE ~(nova_der_tlv(data, tbs.from, tbs.len).tag = VersionTag)
    <3>1. ver = [tbs EXCEPT !.ok = @ /\ nova_der_tlv(data, tbs.from, tbs.len).ok]
      BY <2>2 DEF SkipVersion
    <3>2. tbs = [ok |-> tbs.ok, from |-> tbs.from, len |-> tbs.len]
      BY DEF tbs, Open, Nothing
    <3>3. ver.from = tbs.from /\ ver.len = tbs.len /\ (ver.ok => tbs.ok)
      BY <3>1, <3>2
    <3> QED
      BY <3>3, <1>2 DEF Inside
  <2> QED
    BY <2>1, <2>2
<1>4. w.ok => Inside(data, w)
  <2> HIDE DEF ver
  <2> DEFINE w1 == Skip(data, ver)
             w2 == Skip(data, w1)
             w3 == Skip(data, w2)
             w4 == Skip(data, w3)
             w5 == Skip(data, w4)
  <2>1. w1.ok => Inside(data, w1)
    BY <1>3, SkipStays
  <2> HIDE DEF w1
  <2>2. w2.ok => Inside(data, w2)
    BY <2>1, SkipStays
  <2> HIDE DEF w2
  <2>3. w3.ok => Inside(data, w3)
    BY <2>2, SkipStays
  <2> HIDE DEF w3
  <2>4. w4.ok => Inside(data, w4)
    BY <2>3, SkipStays
  <2> HIDE DEF w4
  <2>5. w5.ok => Inside(data, w5)
    BY <2>4, SkipStays
  <2>6. w = w5
    BY DEF SkipFields, w1, w2, w3, w4
  <2> QED
    BY <2>5, <2>6
<1>5. nova_spki_der(data) =
        IF w.ok /\ e.ok /\ e.tag = SequenceTag
        THEN [ok |-> TRUE, from |-> w.from, len |-> e.end]
        ELSE Nothing
  BY DEF nova_spki_der
<1> HIDE DEF w
<1>6. w.ok /\ e.ok /\ nova_spki_der(data) = [ok |-> TRUE, from |-> w.from, len |-> e.end]
  BY <1>5 DEF Nothing
<1>7. w.from \in Nat /\ w.len \in Nat /\ w.from + w.len <= Len(data)
  BY <1>4, <1>6 DEF Inside
<1>8. Len(data) \in Nat /\ Word \in Nat
  BY DerAssumption
<1>9. w.len < Word
  BY <1>7, <1>8
<1>10. Within(e, w.len)
  BY <1>7, <1>9, ElementStaysInside
<1>11. e.end \in Nat /\ e.end <= w.len
  BY <1>6, <1>10 DEF Within
<1> HIDE DEF e
<1>12. w.from + e.end <= Len(data)
  BY <1>7, <1>8, <1>11
<1> QED
  BY <1>6, <1>7, <1>11, <1>12 DEF Inside

-----------------------------------------------------------------------------
(* The walk finds the key of every certificate made of well-formed         *)
(* elements, with lengths of up to two bytes.                              *)

\* s is in the buffer, from a position on.
Holds(data, from, s) ==
    /\ from \in Nat /\ from + Len(s) <= Len(data)
    /\ \A i \in 1 .. Len(s) : data[from + i] = s[i]

\* What n bytes more than the short form can say of a length.
Fits(n, len) ==
    \/ n = 0 /\ len < LongBit
    \/ n = 1 /\ len < Base
    \/ n = 2 /\ len < Base * Base

\* A tag, the length in one of its forms, and as many bytes.
IsElement(s, tag) ==
    \E n \in 0 .. 2 : \E c \in Seq(Byte) : Fits(n, Len(c)) /\ s = Encode(tag, n, c)

\* The constants, as arithmetic needs them.
LEMMA BaseFacts ==
    /\ Base \in Nat /\ Word \in Nat /\ MaxLenBytes \in Nat /\ LongBit \in Nat
    /\ Base >= 8 /\ MaxLenBytes >= 2 /\ Word >= Base
    /\ LongBit >= 4 /\ LongBit + 2 < Base
<1>1. Base \in Nat /\ Base >= 8 /\ Word \in Nat /\ Word >= Base
  BY DerAssumption, InputsAssumption
<1>2. MaxLenBytes \in Nat /\ MaxLenBytes >= 2
  BY DerAssumption, InputsAssumption
<1>3. LongBit \in Nat /\ LongBit >= 4 /\ LongBit + 2 < Base
  BY <1>1 DEF LongBit
<1> QED
  BY <1>1, <1>2, <1>3

\* The two bytes of a length are bytes, and give the length.
LEMMA TwoBytes ==
    ASSUME NEW len \in Nat, len < Base * Base
    PROVE  /\ len \div Base \in Byte /\ len % Base \in Byte
           /\ (len \div Base) * Base + (len % Base) = len
<1>1. Base \in Nat /\ Base >= 8
  BY BaseFacts
<1>2. PICK q \in Int, r \in Int : q = len \div Base /\ r = len % Base
  BY <1>1
<1>3. q * Base + r = len /\ r \in 0 .. Base - 1 /\ q >= 0
  BY <1>1, <1>2
<1>4. q < Base
  <2> SUFFICES ASSUME q >= Base PROVE FALSE
    BY <1>1
  <2>1. q * Base >= Base * Base
    BY <1>1
  <2> QED
    BY <2>1, <1>1, <1>3
<1>5. q \in Byte /\ r \in Byte
  BY <1>1, <1>3, <1>4 DEF Byte
<1> QED
  BY <1>2, <1>3, <1>5

\* The shape of an encoded element, byte by byte.
LEMMA EncodeShape ==
    ASSUME NEW tag \in Byte, NEW n \in 0 .. 2, NEW c \in Seq(Byte), Fits(n, Len(c))
    PROVE  /\ Encode(tag, n, c) \in Seq(Byte)
           /\ Len(Encode(tag, n, c)) = 2 + n + Len(c)
           /\ Encode(tag, n, c)[1] = tag
           /\ n = 0 => Encode(tag, n, c)[2] = Len(c)
           /\ n # 0 => Encode(tag, n, c)[2] = LongBit + n
           /\ n = 1 => Encode(tag, n, c)[3] = Len(c)
           /\ n = 2 => /\ Encode(tag, n, c)[3] = Len(c) \div Base
                       /\ Encode(tag, n, c)[4] = Len(c) % Base
           /\ \A i \in 1 .. Len(c) : Encode(tag, n, c)[2 + n + i] = c[i]
<1>1. PICK len \in Nat : len = Len(c)
  OBVIOUS
<1> DEFINE h == CASE n = 0 -> <<tag, len>>
                  [] n = 1 -> <<tag, LongBit + 1, len>>
                  [] n = 2 -> <<tag, LongBit + 2, len \div Base, len % Base>>
<1>2. Encode(tag, n, c) = h \o c
  BY <1>1 DEF Encode
<1>3. 0 .. Base - 1 = Byte
  BY DEF Byte
<1>4. /\ h \in Seq(Byte) /\ Len(h) = 2 + n
      /\ h[1] = tag
      /\ n = 0 => h[2] = len
      /\ n # 0 => h[2] = LongBit + n
      /\ n = 1 => h[3] = len
      /\ n = 2 => h[3] = len \div Base /\ h[4] = len % Base
  <2>1. CASE n = 0
    <3>1. h = <<tag, len>>
      BY <2>1
    <3>2. len \in Byte
      BY <1>1, <2>1, BaseFacts DEF Fits, Byte
    <3> HIDE DEF h
    <3> QED
      BY <2>1, <3>1, <3>2
  <2>2. CASE n = 1
    <3>1. h = <<tag, LongBit + 1, len>>
      BY <2>2
    <3>2. len \in Byte /\ LongBit + 1 \in Byte
      BY <1>1, <2>2, BaseFacts DEF Fits, Byte
    <3> HIDE DEF h
    <3> QED
      BY <2>2, <3>1, <3>2
  <2>3. CASE n = 2
    <3>1. h = <<tag, LongBit + 2, len \div Base, len % Base>>
      BY <2>3
    <3>2. len \div Base \in Byte /\ len % Base \in Byte
      BY <1>1, <2>3, TwoBytes DEF Fits
    <3>3. LongBit + 2 \in Byte
      BY BaseFacts DEF Byte
    <3> HIDE DEF h
    <3> QED
      BY <2>3, <3>1, <3>2, <3>3
  <2> QED
    BY <2>1, <2>2, <2>3
<1> HIDE DEF h
<1>5. /\ h \o c \in Seq(Byte) /\ Len(h \o c) = Len(h) + Len(c)
      /\ \A i \in 1 .. Len(h) : (h \o c)[i] = h[i]
      /\ \A i \in 1 .. Len(c) : (h \o c)[Len(h) + i] = c[i]
  <2>1. \A i \in 1 .. Len(h) + Len(c) : (h \o c)[i] = IF i <= Len(h) THEN h[i] ELSE c[i - Len(h)]
    BY <1>4
  <2>2. Len(h) \in Nat /\ Len(c) \in Nat
    BY <1>4
  <2> QED
    BY <1>4, <2>1, <2>2
<1> QED
  BY <1>1, <1>2, <1>4, <1>5

\* What is in the buffer is read from it.
LEMMA HeldByte ==
    ASSUME NEW data \in Seq(Byte), NEW from, NEW s \in Seq(Byte), Holds(data, from, s),
           NEW i \in Nat, i < Len(s)
    PROVE  At(data, from + i) = s[i + 1]
<1>1. from \in Nat /\ from + Len(s) <= Len(data) /\ data[from + (i + 1)] = s[i + 1]
  BY DEF Holds
<1>2. from + i < Len(data) /\ from + i + 1 = from + (i + 1)
  BY <1>1
<1> QED
  BY <1>1, <1>2 DEF At

\* What is held as one piece is held as two.
LEMMA HeldParts ==
    ASSUME NEW data \in Seq(Byte), NEW from, NEW s \in Seq(Byte), NEW t \in Seq(Byte),
           Holds(data, from, s \o t)
    PROVE  /\ Holds(data, from, s) /\ Holds(data, from + Len(s), t)
           /\ s \o t \in Seq(Byte) /\ Len(s \o t) = Len(s) + Len(t)
<1>1. PICK m \in Nat, n \in Nat, d \in Nat : m = Len(s) /\ n = Len(t) /\ d = Len(data)
  OBVIOUS
<1>2. s \o t \in Seq(Byte) /\ Len(s \o t) = m + n
  BY <1>1
<1>3. \A i \in 1 .. m + n : (s \o t)[i] = IF i <= m THEN s[i] ELSE t[i - m]
  BY <1>1
<1>4. from \in Nat /\ from + (m + n) <= d /\ \A i \in 1 .. m + n : data[from + i] = (s \o t)[i]
  BY <1>1, <1>2 DEF Holds
<1>5. ASSUME NEW i \in 1 .. m PROVE data[from + i] = s[i]
  <2>1. i \in 1 .. m + n /\ i <= m
    OBVIOUS
  <2>2. (s \o t)[i] = s[i]
    BY <2>1, <1>3
  <2>3. data[from + i] = (s \o t)[i]
    BY <2>1, <1>4
  <2> QED
    BY <2>2, <2>3
<1>6. ASSUME NEW i \in 1 .. n PROVE data[(from + m) + i] = t[i]
  <2>1. m + i \in 1 .. m + n /\ ~(m + i <= m) /\ (m + i) - m = i /\ from + (m + i) = (from + m) + i
    BY <1>4
  <2>2. (s \o t)[m + i] = t[i]
    BY <2>1, <1>3
  <2>3. data[from + (m + i)] = (s \o t)[m + i]
    BY <2>1, <1>4
  <2> QED
    BY <2>1, <2>2, <2>3
<1> QED
  BY <1>1, <1>2, <1>4, <1>5, <1>6 DEF Holds

\* nova_der_tlv reads an element for what it is, wherever it is.
LEMMA EncodeRead ==
    ASSUME NEW data \in Seq(Byte), NEW from, NEW avail \in Nat, avail < Word,
           NEW tag \in Byte, NEW n \in 0 .. 2, NEW c \in Seq(Byte), Fits(n, Len(c)),
           Holds(data, from, Encode(tag, n, c)), Len(Encode(tag, n, c)) <= avail
    PROVE  nova_der_tlv(data, from, avail) =
               [ok |-> TRUE, tag |-> tag, hdr |-> 2 + n, len |-> Len(c),
                end |-> Len(Encode(tag, n, c)), reach |-> 2 + n]
<1> DEFINE s == Encode(tag, n, c)
           b1 == At(data, from + 1)
<1>1. PICK len \in Nat : len = Len(c)
  OBVIOUS
<1>2. /\ s \in Seq(Byte)
      /\ Len(s) = 2 + n + len
      /\ s[1] = tag
      /\ n = 0 => s[2] = len
      /\ n # 0 => s[2] = LongBit + n
      /\ n = 1 => s[3] = len
      /\ n = 2 => s[3] = len \div Base /\ s[4] = len % Base
  BY <1>1, EncodeShape
<1>3. Holds(data, from, s) /\ Len(s) <= avail
  OBVIOUS
<1> HIDE DEF s
<1>4. from \in Nat /\ Len(s) \in Nat
  BY <1>2, <1>3 DEF Holds
<1>5. \A i \in Nat : i < Len(s) => At(data, from + i) = s[i + 1]
  <2>1. s \in Seq(Byte)
    BY <1>2
  <2> QED
    BY <2>1, <1>3, HeldByte
<1>6. At(data, from) = tag
  <2>1. At(data, from + 0) = s[0 + 1]
    BY <1>2, <1>5
  <2> QED
    BY <2>1, <1>2, <1>4
<1>7. b1 = s[2]
  <2>1. At(data, from + 1) = s[1 + 1]
    BY <1>2, <1>5
  <2> QED
    BY <2>1
<1>8. avail >= 2 + n
  BY <1>2, <1>3
<1>9. Element(tag, 2 + n, len, avail) =
        [ok |-> TRUE, tag |-> tag, hdr |-> 2 + n, len |-> len, end |-> Len(s), reach |-> 2 + n]
  <2>1. (2 + n) + len < Word /\ Word \in Nat
    BY <1>2, <1>3, BaseFacts
  <2>2. Plus(2 + n, len) = Len(s)
    BY <2>1, <1>2 DEF Plus
  <2>3. ~(Len(s) < 2 + n) /\ ~(Len(s) > avail)
    BY <1>2, <1>3
  <2> QED
    BY <2>2, <2>3 DEF Element
<1>10. nova_der_tlv(data, from, avail) =
        IF avail < 2 THEN Failed(0)
        ELSE IF b1 < LongBit THEN Element(tag, 2, b1, avail)
        ELSE IF b1 - LongBit = 0 \/ b1 - LongBit > MaxLenBytes \/ avail < 2 + (b1 - LongBit)
             THEN Failed(2)
        ELSE Element(tag, 2 + (b1 - LongBit), BigEndian(data, from + 2, b1 - LongBit), avail)
  BY <1>6 DEF nova_der_tlv
<1> HIDE DEF b1
<1>11. CASE n = 0
  <2>1. b1 = len /\ len < LongBit
    BY <1>1, <1>2, <1>7, <1>11 DEF Fits
  <2>2. ~(avail < 2) /\ 2 + n = 2
    BY <1>8, <1>11
  <2>3. nova_der_tlv(data, from, avail) = Element(tag, 2 + n, len, avail)
    BY <2>1, <2>2, <1>10
  <2> QED
    BY <2>3, <1>1, <1>9 DEF s
<1>12. CASE n # 0
  <2>1. b1 = LongBit + n /\ n \in {1, 2}
    BY <1>2, <1>7, <1>12
  <2>2. /\ ~(avail < 2) /\ ~(b1 < LongBit) /\ b1 - LongBit = n
        /\ ~(n = 0 \/ n > MaxLenBytes \/ avail < 2 + n)
    BY <2>1, <1>8, BaseFacts
  <2>3. nova_der_tlv(data, from, avail) = Element(tag, 2 + n, BigEndian(data, from + 2, n), avail)
    BY <2>2, <1>10
  <2>4. len < Word
    BY <1>2, <1>3, BaseFacts
  <2>5. len % Word = len
    BY <2>4, BaseFacts
  <2>6. BigEndian(data, from + 2, n) = len
    <3>1. from + 2 + 0 = from + 2 /\ from + 2 + 1 = from + 3
      BY <1>4
    <3>2. At(data, from + 2 + 0) = s[3]
      <4>1. At(data, from + 2) = s[2 + 1]
        BY <1>2, <1>5, <2>1
      <4> QED
        BY <4>1, <3>1
    <3>3. CASE n = 1
      <4>1. s[3] = len
        BY <3>3, <1>2
      <4>2. BigEndian(data, from + 2, n) = At(data, from + 2 + 0) % Word
        BY <3>3 DEF BigEndian
      <4> QED
        BY <4>1, <4>2, <3>2, <2>5
    <3>4. CASE n = 2
      <4>1. s[3] = len \div Base /\ s[4] = len % Base
        BY <3>4, <1>2
      <4>2. At(data, from + 2 + 1) = s[4]
        <5>1. At(data, from + 3) = s[3 + 1]
          BY <1>2, <1>5, <3>4
        <5> QED
          BY <5>1, <3>1
      <4>3. BigEndian(data, from + 2, n) =
              (At(data, from + 2 + 0) * Base + At(data, from + 2 + 1)) % Word
        BY <3>4 DEF BigEndian
      <4>4. (len \div Base) * Base + (len % Base) = len
        BY <1>1, <3>4, TwoBytes DEF Fits
      <4> QED
        <5>1. PICK hi, lo : hi = len \div Base /\ lo = len % Base
          OBVIOUS
        <5>2. BigEndian(data, from + 2, n) = (hi * Base + lo) % Word
          BY <4>1, <4>2, <4>3, <3>2, <5>1
        <5>3. hi * Base + lo = len
          BY <4>4, <5>1
        <5> QED
          BY <5>2, <5>3, <2>5
    <3> QED
      BY <2>1, <3>3, <3>4
  <2> QED
    BY <2>3, <2>6, <1>1, <1>9 DEF s
<1> QED
  BY <1>11, <1>12

\* An element is bytes, at least a tag and a length.
LEMMA ElementShape ==
    ASSUME NEW tag \in Byte, NEW s, IsElement(s, tag)
    PROVE  s \in Seq(Byte) /\ Len(s) \in Nat /\ Len(s) >= 2
<1>1. PICK n \in 0 .. 2, c \in Seq(Byte) : Fits(n, Len(c)) /\ s = Encode(tag, n, c)
  BY DEF IsElement
<1>2. s \in Seq(Byte) /\ Len(s) = 2 + n + Len(c)
  BY <1>1, EncodeShape
<1>3. Len(c) \in Nat
  OBVIOUS
<1> QED
  BY <1>2, <1>3

\* What nova_der_tlv says of an element it stands on.
LEMMA ElementRead ==
    ASSUME NEW data \in Seq(Byte), NEW from, NEW avail \in Nat, avail < Word,
           NEW tag \in Byte, NEW s, IsElement(s, tag), Holds(data, from, s), Len(s) <= avail
    PROVE  /\ nova_der_tlv(data, from, avail).ok
           /\ nova_der_tlv(data, from, avail).tag = tag
           /\ nova_der_tlv(data, from, avail).end = Len(s)
<1>1. PICK n \in 0 .. 2, c \in Seq(Byte) : Fits(n, Len(c)) /\ s = Encode(tag, n, c)
  BY DEF IsElement
<1>2. nova_der_tlv(data, from, avail) =
        [ok |-> TRUE, tag |-> tag, hdr |-> 2 + n, len |-> Len(c), end |-> Len(s), reach |-> 2 + n]
  BY <1>1, EncodeRead
<1> QED
  BY <1>2

\* An element, whatever its tag.
IsAny(s) == \E tag \in Byte : IsElement(s, tag)

\* One step of the walk: over an element, to what is behind it.
LEMMA SkipElement ==
    ASSUME NEW data \in Seq(Byte), NEW from, NEW avail \in Nat, avail < Word,
           NEW s, IsAny(s), Holds(data, from, s), Len(s) <= avail
    PROVE  Skip(data, [ok |-> TRUE, from |-> from, len |-> avail]) =
               [ok |-> TRUE, from |-> from + Len(s), len |-> avail - Len(s)]
<1>1. PICK tag \in Byte : IsElement(s, tag)
  BY DEF IsAny
<1>2. /\ nova_der_tlv(data, from, avail).ok
      /\ nova_der_tlv(data, from, avail).tag = tag
      /\ nova_der_tlv(data, from, avail).end = Len(s)
  BY <1>1, ElementRead
<1> QED
  BY <1>2 DEF Skip

\* One step of the walk: into a SEQUENCE.
LEMMA OpenSequence ==
    ASSUME NEW data \in Seq(Byte), NEW from \in Nat, NEW avail \in Nat, avail < Word,
           NEW n \in 0 .. 2, NEW c \in Seq(Byte), Fits(n, Len(c)),
           Holds(data, from, Encode(SequenceTag, n, c)),
           Len(Encode(SequenceTag, n, c)) <= avail
    PROVE  /\ Open(data, [ok |-> TRUE, from |-> from, len |-> avail]) =
                 [ok |-> TRUE, from |-> from + (2 + n), len |-> Len(c)]
           /\ Holds(data, from + (2 + n), c)
<1>0. SequenceTag \in Byte
  BY DerAssumption DEF Byte
<1>1. nova_der_tlv(data, from, avail) =
        [ok |-> TRUE, tag |-> SequenceTag, hdr |-> 2 + n, len |-> Len(c),
         end |-> Len(Encode(SequenceTag, n, c)), reach |-> 2 + n]
  BY <1>0, EncodeRead
<1>2. Open(data, [ok |-> TRUE, from |-> from, len |-> avail]) =
        [ok |-> TRUE, from |-> from + (2 + n), len |-> Len(c)]
  <2>1. PICK w : w = [ok |-> TRUE, from |-> from, len |-> avail]
    OBVIOUS
  <2>2. w.ok /\ w.from = from /\ w.len = avail
    BY <2>1
  <2>3. PICK e : e = nova_der_tlv(data, from, avail)
    OBVIOUS
  <2>4. e.ok /\ e.tag = SequenceTag /\ e.hdr = 2 + n /\ e.len = Len(c)
    BY <2>3, <1>1
  <2>5. Open(data, w) = [ok |-> TRUE, from |-> w.from + e.hdr, len |-> e.len]
    BY <2>2, <2>3, <2>4 DEF Open
  <2> QED
    BY <2>1, <2>2, <2>4, <2>5
<1>3a. PICK s \in Seq(Byte) : s = Encode(SequenceTag, n, c)
  BY <1>0, EncodeShape
<1>3b. PICK k \in Nat : k = Len(c)
  OBVIOUS
<1>3c. PICK d \in Nat : d = Len(data)
  OBVIOUS
<1>3. s = Encode(SequenceTag, n, c) /\ k = Len(c) /\ d = Len(data)
  BY <1>3a, <1>3b, <1>3c
<1>4. Len(s) = 2 + n + k /\ \A i \in 1 .. k : s[2 + n + i] = c[i]
  <2>1. /\ Len(Encode(SequenceTag, n, c)) = 2 + n + Len(c)
        /\ \A i \in 1 .. Len(c) : Encode(SequenceTag, n, c)[2 + n + i] = c[i]
    BY <1>0, EncodeShape
  <2> QED
    BY <2>1, <1>3
<1>5. Holds(data, from, s)
  BY <1>3
<1>6. from + (2 + n + k) <= d /\ \A i \in 1 .. 2 + n + k : data[from + i] = s[i]
  BY <1>3, <1>4, <1>5 DEF Holds
<1>7. ASSUME NEW i \in 1 .. k PROVE data[(from + (2 + n)) + i] = c[i]
  <2>1. 2 + n + i \in 1 .. 2 + n + k /\ from + (2 + n + i) = (from + (2 + n)) + i
    OBVIOUS
  <2>2. data[from + (2 + n + i)] = s[2 + n + i]
    BY <2>1, <1>6
  <2> QED
    BY <2>1, <2>2, <1>4
<1>8. from + (2 + n) \in Nat /\ (from + (2 + n)) + k <= d
  BY <1>6
<1> QED
  BY <1>2, <1>3, <1>7, <1>8 DEF Holds

\* The same for the two-byte length of the certificate and its content.
LEMMA OpenLong ==
    ASSUME NEW data \in Seq(Byte), NEW from \in Nat, NEW avail \in Nat, avail < Word,
           NEW c \in Seq(Byte), Fits(2, Len(c)),
           Holds(data, from, Encode(SequenceTag, 2, c)),
           Len(Encode(SequenceTag, 2, c)) <= avail
    PROVE  /\ Open(data, [ok |-> TRUE, from |-> from, len |-> avail]) =
                 [ok |-> TRUE, from |-> from + 4, len |-> Len(c)]
           /\ Holds(data, from + 4, c)
<1>1. PICK n \in 0 .. 2 : n = 2
  OBVIOUS
<1>2. /\ Fits(n, Len(c)) /\ Holds(data, from, Encode(SequenceTag, n, c))
      /\ Len(Encode(SequenceTag, n, c)) <= avail
  BY <1>1
<1>3. /\ Open(data, [ok |-> TRUE, from |-> from, len |-> avail]) =
            [ok |-> TRUE, from |-> from + (2 + n), len |-> Len(c)]
      /\ Holds(data, from + (2 + n), c)
  BY <1>2, OpenSequence
<1>4. from + (2 + n) = from + 4
  BY <1>1
<1> QED
  BY <1>3, <1>4

\* A certificate of well-formed elements: perhaps a version, five fields of
\* which the first cannot be taken for a version, and the key.
WellFormed(version, fields, spki) ==
    /\ version = <<>> \/ IsElement(version, VersionTag)
    /\ \A i \in 1 .. 5 : IsAny(fields[i])
    /\ \E t \in Byte \ {VersionTag} : IsElement(fields[1], t)
    /\ IsElement(spki, SequenceTag)
    /\ LET n == Len(version \o fields[1] \o fields[2] \o fields[3] \o fields[4] \o fields[5] \o spki)
       IN  n + 6 < Base * Base /\ n + 10 < Word

\* Seven parts one behind the other.
HeldInOrder(data, from, v, a1, a2, a3, a4, a5, k) ==
    /\ Holds(data, from, v)
    /\ Holds(data, from + Len(v), a1)
    /\ Holds(data, from + Len(v) + Len(a1), a2)
    /\ Holds(data, from + Len(v) + Len(a1) + Len(a2), a3)
    /\ Holds(data, from + Len(v) + Len(a1) + Len(a2) + Len(a3), a4)
    /\ Holds(data, from + Len(v) + Len(a1) + Len(a2) + Len(a3) + Len(a4), a5)
    /\ Holds(data, from + Len(v) + Len(a1) + Len(a2) + Len(a3) + Len(a4) + Len(a5), k)

\* What is held as a certificate's content is held part by part.
LEMMA HeldFields ==
    ASSUME NEW data \in Seq(Byte), NEW from, NEW v \in Seq(Byte),
           NEW a1 \in Seq(Byte), NEW a2 \in Seq(Byte), NEW a3 \in Seq(Byte),
           NEW a4 \in Seq(Byte), NEW a5 \in Seq(Byte), NEW k \in Seq(Byte),
           Holds(data, from, v \o a1 \o a2 \o a3 \o a4 \o a5 \o k)
    PROVE  HeldInOrder(data, from, v, a1, a2, a3, a4, a5, k)
<1> DEFINE t1 == v \o a1
           t2 == t1 \o a2
           t3 == t2 \o a3
           t4 == t3 \o a4
           t5 == t4 \o a5
<1>1. t1 \in Seq(Byte) /\ t2 \in Seq(Byte) /\ t3 \in Seq(Byte) /\ t4 \in Seq(Byte) /\ t5 \in Seq(Byte)
  OBVIOUS
<1>2. Holds(data, from, t5 \o k)
  OBVIOUS
<1> HIDE DEF t5
<1>3. Holds(data, from, t5) /\ Holds(data, from + Len(t5), k)
  BY <1>1, <1>2, HeldParts
<1>4. Holds(data, from, t4 \o a5)
  BY <1>3 DEF t5
<1> HIDE DEF t4
<1>5. Holds(data, from, t4) /\ Holds(data, from + Len(t4), a5) /\ Len(t4 \o a5) = Len(t4) + Len(a5)
  BY <1>1, <1>4, HeldParts
<1>6. Holds(data, from, t3 \o a4)
  BY <1>5 DEF t4
<1> HIDE DEF t3
<1>7. Holds(data, from, t3) /\ Holds(data, from + Len(t3), a4) /\ Len(t3 \o a4) = Len(t3) + Len(a4)
  BY <1>1, <1>6, HeldParts
<1>8. Holds(data, from, t2 \o a3)
  BY <1>7 DEF t3
<1> HIDE DEF t2
<1>9. Holds(data, from, t2) /\ Holds(data, from + Len(t2), a3) /\ Len(t2 \o a3) = Len(t2) + Len(a3)
  BY <1>1, <1>8, HeldParts
<1>10. Holds(data, from, t1 \o a2)
  BY <1>9 DEF t2
<1> HIDE DEF t1
<1>11. Holds(data, from, t1) /\ Holds(data, from + Len(t1), a2) /\ Len(t1 \o a2) = Len(t1) + Len(a2)
  BY <1>1, <1>10, HeldParts
<1>12. Holds(data, from, v \o a1)
  BY <1>11 DEF t1
<1>13. Holds(data, from, v) /\ Holds(data, from + Len(v), a1) /\ Len(v \o a1) = Len(v) + Len(a1)
  BY <1>12, HeldParts
<1>14a. PICK n0 \in Nat, n1 \in Nat, n2 \in Nat : n0 = Len(v) /\ n1 = Len(a1) /\ n2 = Len(a2)
  OBVIOUS
<1>14b. PICK n3 \in Nat, n4 \in Nat, n5 \in Nat : n3 = Len(a3) /\ n4 = Len(a4) /\ n5 = Len(a5)
  OBVIOUS
<1>14. /\ n0 = Len(v) /\ n1 = Len(a1) /\ n2 = Len(a2)
       /\ n3 = Len(a3) /\ n4 = Len(a4) /\ n5 = Len(a5)
  BY <1>14a, <1>14b
<1>15. from \in Nat
  BY <1>13 DEF Holds
<1>16. Len(t1) = n0 + n1
  BY <1>13, <1>14 DEF t1
<1>17. Len(t2) = n0 + n1 + n2
  BY <1>11, <1>14, <1>16 DEF t2
<1>18. Len(t3) = n0 + n1 + n2 + n3
  BY <1>9, <1>14, <1>17 DEF t3
<1>19. Len(t4) = n0 + n1 + n2 + n3 + n4
  BY <1>7, <1>14, <1>18 DEF t4
<1>20. Len(t5) = n0 + n1 + n2 + n3 + n4 + n5
  BY <1>5, <1>14, <1>19 DEF t5
<1>21. /\ from + Len(t1) = from + n0 + n1
       /\ from + Len(t2) = from + n0 + n1 + n2
       /\ from + Len(t3) = from + n0 + n1 + n2 + n3
       /\ from + Len(t4) = from + n0 + n1 + n2 + n3 + n4
       /\ from + Len(t5) = from + n0 + n1 + n2 + n3 + n4 + n5
  BY <1>15, <1>16, <1>17, <1>18, <1>19, <1>20
<1> QED
  BY <1>3, <1>5, <1>7, <1>9, <1>11, <1>13, <1>14, <1>21 DEF HeldInOrder

\* The parts of a certificate's content make up its length.
LEMMA FieldsLength ==
    ASSUME NEW v \in Seq(Byte),
           NEW a1 \in Seq(Byte), NEW a2 \in Seq(Byte), NEW a3 \in Seq(Byte),
           NEW a4 \in Seq(Byte), NEW a5 \in Seq(Byte), NEW k \in Seq(Byte)
    PROVE  /\ v \o a1 \o a2 \o a3 \o a4 \o a5 \o k \in Seq(Byte)
           /\ Len(v \o a1 \o a2 \o a3 \o a4 \o a5 \o k) =
                Len(v) + Len(a1) + Len(a2) + Len(a3) + Len(a4) + Len(a5) + Len(k)
<1>1. \A x, y \in Seq(Byte) : x \o y \in Seq(Byte) /\ Len(x \o y) = Len(x) + Len(y)
  OBVIOUS
<1> DEFINE c1 == v \o a1
           c2 == c1 \o a2
           c3 == c2 \o a3
           c4 == c3 \o a4
           c5 == c4 \o a5
           c6 == c5 \o k
<1>2. c1 \in Seq(Byte) /\ Len(c1) = Len(v) + Len(a1)
  BY <1>1
<1> HIDE DEF c1
<1>3. c2 \in Seq(Byte) /\ Len(c2) = Len(c1) + Len(a2)
  BY <1>1, <1>2
<1> HIDE DEF c2
<1>4. c3 \in Seq(Byte) /\ Len(c3) = Len(c2) + Len(a3)
  BY <1>1, <1>3
<1> HIDE DEF c3
<1>5. c4 \in Seq(Byte) /\ Len(c4) = Len(c3) + Len(a4)
  BY <1>1, <1>4
<1> HIDE DEF c4
<1>6. c5 \in Seq(Byte) /\ Len(c5) = Len(c4) + Len(a5)
  BY <1>1, <1>5
<1> HIDE DEF c5
<1>7. c6 \in Seq(Byte) /\ Len(c6) = Len(c5) + Len(k)
  BY <1>1, <1>6
<1> HIDE DEF c6
<1>8. c6 \in Seq(Byte) /\ Len(c6) = Len(v) + Len(a1) + Len(a2) + Len(a3) + Len(a4) + Len(a5) + Len(k)
  BY <1>2, <1>3, <1>4, <1>5, <1>6, <1>7
<1> QED
  BY <1>8 DEF c1, c2, c3, c4, c5, c6

\* What is held can be cut out.
LEMMA HeldIsThere ==
    ASSUME NEW data \in Seq(Byte), NEW from, NEW s \in Seq(Byte), Holds(data, from, s)
    PROVE  SubSeq(data, from + 1, from + Len(s)) = s
<1>1. PICK n \in Nat, d \in Nat : n = Len(s) /\ d = Len(data)
  OBVIOUS
<1>2. from \in Nat /\ from + n <= d /\ \A i \in 1 .. n : data[from + i] = s[i]
  BY <1>1 DEF Holds
<1> DEFINE t == SubSeq(data, from + 1, from + n)
<1>3. t \in Seq(Byte) /\ Len(t) = n /\ \A i \in 1 .. n : t[i] = data[from + i]
  <2>1. \A i \in from + 1 .. from + n : data[i] \in Byte
    <3>1. \A i \in from + 1 .. from + n : i \in 1 .. Len(data)
      BY <1>1, <1>2
    <3> QED
      BY <3>1
  <2>2. from + 1 \in Int /\ from + n \in Int
    BY <1>2
  <2>3. /\ t \in Seq(Byte)
        /\ Len(t) = IF from + 1 <= from + n THEN (from + n) - (from + 1) + 1 ELSE 0
        /\ \A i \in 1 .. (from + n) - (from + 1) + 1 : t[i] = data[(from + 1) + i - 1]
    BY <2>1, <2>2, SubSeqProperties
  <2>4. (from + n) - (from + 1) + 1 = n
    BY <1>2
  <2>5. \A i \in 1 .. n : (from + 1) + i - 1 = from + i
    BY <1>2
  <2>6. Len(t) = n
    BY <1>2, <2>3
  <2> HIDE DEF t
  <2> QED
    BY <2>3, <2>4, <2>5, <2>6
<1> HIDE DEF t
<1>4. t = s
  <2>1. Len(t) = Len(s) /\ \A i \in 1 .. Len(s) : t[i] = s[i]
    BY <1>1, <1>2, <1>3
  <2> QED
    BY <2>1, <1>3, SeqEqual
<1> QED
  BY <1>1, <1>4 DEF t

\* The pin is of the key: in every certificate of well-formed elements the
\* walk finds the bytes of the SubjectPublicKeyInfo, all of them and no other.
THEOREM KeyIsFound ==
    ASSUME NEW version, NEW fields, NEW spki, WellFormed(version, fields, spki)
    PROVE  LET data == Certificate(version, fields, spki)
               k    == nova_spki_der(data)
           IN  /\ data \in Seq(Byte) /\ Len(data) < Word
               /\ k.ok /\ SubSeq(data, k.from + 1, k.from + k.len) = spki
<1> DEFINE data == Certificate(version, fields, spki)
           all  == [ok |-> TRUE, from |-> 0, len |-> Len(data)]
           rest == Encode(SequenceTag, 0, <<>>)
           a1 == fields[1]
           a2 == fields[2]
           a3 == fields[3]
           a4 == fields[4]
           a5 == fields[5]
           cont == version \o a1 \o a2 \o a3 \o a4 \o a5 \o spki
           tbs  == Encode(SequenceTag, 2, cont)
           body == tbs \o rest
<1>1. SequenceTag \in Byte /\ VersionTag \in Byte /\ Word \in Nat /\ Base \in Nat
  BY DerAssumption DEF Byte
<1>2. version \in Seq(Byte)
  <2>1. CASE version = <<>>
    BY <2>1
  <2>2. CASE IsElement(version, VersionTag)
    BY <2>2, <1>1, ElementShape
  <2> QED
    BY <2>1, <2>2 DEF WellFormed
<1>3. \A i \in 1 .. 5 : fields[i] \in Seq(Byte)
  <2>1. ASSUME NEW i \in 1 .. 5 PROVE fields[i] \in Seq(Byte)
    <3>1. PICK t \in Byte : IsElement(fields[i], t)
      BY DEF WellFormed, IsAny
    <3> QED
      BY <3>1, ElementShape
  <2> QED
    BY <2>1
<1>4. /\ a1 \in Seq(Byte) /\ a2 \in Seq(Byte) /\ a3 \in Seq(Byte)
      /\ a4 \in Seq(Byte) /\ a5 \in Seq(Byte) /\ spki \in Seq(Byte)
  <2>1. spki \in Seq(Byte)
    BY <1>1, ElementShape DEF WellFormed
  <2> QED
    BY <2>1, <1>3
<1>5. PICK t1 \in Byte : t1 # VersionTag /\ IsElement(a1, t1)
  BY DEF WellFormed
<1>6. IsAny(a1) /\ IsAny(a2) /\ IsAny(a3) /\ IsAny(a4) /\ IsAny(a5)
  BY DEF WellFormed
<1>10. IsElement(spki, SequenceTag) /\ (version = <<>> \/ IsElement(version, VersionTag))
  BY DEF WellFormed
<1>11. data = Encode(SequenceTag, 2, body) /\ Len(cont) + 6 < Base * Base /\ Len(cont) + 10 < Word
  BY DEF WellFormed, Certificate
<1> HIDE DEF data, a1, a2, a3, a4, a5
<1>12. cont \in Seq(Byte) /\ Len(cont) = Len(version) + Len(a1) + Len(a2) + Len(a3) + Len(a4) + Len(a5) + Len(spki)
  BY <1>2, <1>4, FieldsLength
<1>13. PICK n0 \in Nat : n0 = Len(version)
  BY <1>2
<1>14. PICK n1 \in Nat : n1 = Len(a1) /\ n1 >= 2
  BY <1>5, ElementShape
<1>15. PICK n2 \in Nat : n2 = Len(a2)
  BY <1>4
<1>16. PICK n3 \in Nat : n3 = Len(a3)
  BY <1>4
<1>17. PICK n4 \in Nat : n4 = Len(a4)
  BY <1>4
<1>18. PICK n5 \in Nat : n5 = Len(a5)
  BY <1>4
<1>19. PICK nk \in Nat : nk = Len(spki)
  BY <1>4
<1>20. PICK nc \in Nat : nc = Len(cont) /\ nc = n0 + n1 + n2 + n3 + n4 + n5 + nk
  BY <1>12, <1>13, <1>14, <1>15, <1>16, <1>17, <1>18, <1>19
<1> HIDE DEF cont
<1>21. nc \in Nat /\ nc + 6 < Base * Base /\ Fits(2, Len(cont))
  BY <1>1, <1>11, <1>20 DEF Fits
<1>22. tbs \in Seq(Byte) /\ Len(tbs) = 4 + nc
  <2>1. tbs \in Seq(Byte) /\ Len(tbs) = 2 + 2 + Len(cont)
    BY <1>1, <1>12, <1>21, EncodeShape
  <2> HIDE DEF tbs
  <2> QED
    BY <2>1, <1>20
<1>23. rest \in Seq(Byte) /\ Len(rest) = 2
  <2>1. <<>> \in Seq(Byte) /\ Len(<<>>) = 0
    OBVIOUS
  <2>2. PICK c \in Seq(Byte) : c = <<>>
    BY <2>1
  <2>3. PICK z \in 0 .. 2 : z = 0
    OBVIOUS
  <2>4. Len(c) = 0 /\ Fits(z, Len(c))
    BY <2>2, <2>3, BaseFacts DEF Fits
  <2>5. Encode(SequenceTag, z, c) \in Seq(Byte) /\ Len(Encode(SequenceTag, z, c)) = 2 + z + Len(c)
    BY <1>1, <2>4, EncodeShape
  <2>6. rest = Encode(SequenceTag, z, c)
    BY <2>2, <2>3
  <2> HIDE DEF rest
  <2> QED
    BY <2>3, <2>4, <2>5, <2>6
<1> HIDE DEF tbs, rest
<1>24. body \in Seq(Byte) /\ Len(body) = 6 + nc
  <2>0. \A x, y \in Seq(Byte) : x \o y \in Seq(Byte) /\ Len(x \o y) = Len(x) + Len(y)
    OBVIOUS
  <2>1. body \in Seq(Byte) /\ Len(body) = Len(tbs) + Len(rest)
    BY <2>0, <1>22, <1>23
  <2> HIDE DEF body
  <2> QED
    BY <2>1, <1>20, <1>22, <1>23
<1>25. Fits(2, Len(body))
  BY <1>21, <1>24 DEF Fits
<1>26. data \in Seq(Byte) /\ Len(data) = 10 + nc
  <2> HIDE DEF body
  <2>1. /\ Encode(SequenceTag, 2, body) \in Seq(Byte)
        /\ Len(Encode(SequenceTag, 2, body)) = 2 + 2 + Len(body)
    BY <1>1, <1>24, <1>25, EncodeShape
  <2> QED
    BY <2>1, <1>11, <1>20, <1>24
<1>27. 10 + nc < Word
  BY <1>11, <1>20

\* Into the certificate, and into its tbsCertificate.
<1>28. Open(data, all) = [ok |-> TRUE, from |-> 4, len |-> 6 + nc] /\ Holds(data, 4, body)
  <2>1. Holds(data, 0, Encode(SequenceTag, 2, body)) /\ Len(Encode(SequenceTag, 2, body)) <= 10 + nc
    <3>1. Holds(data, 0, data)
      BY <1>26 DEF Holds
    <3> QED
      BY <3>1, <1>11, <1>26
  <2>2. all = [ok |-> TRUE, from |-> 0, len |-> 10 + nc]
    BY <1>26
  <2>3. PICK z \in Nat, m \in Nat : z = 0 /\ m = 10 + nc
    OBVIOUS
  <2> HIDE DEF body
  <2>4. /\ Open(data, [ok |-> TRUE, from |-> z, len |-> m]) =
              [ok |-> TRUE, from |-> z + 4, len |-> Len(body)]
        /\ Holds(data, z + 4, body)
    BY <2>1, <2>3, <1>24, <1>25, <1>26, <1>27, OpenLong
  <2>5. z + 4 = 4
    BY <2>3
  <2> QED
    BY <2>2, <2>3, <2>4, <2>5, <1>24
<1>29. Holds(data, 4, tbs)
  BY <1>22, <1>23, <1>26, <1>28, HeldParts
<1>30. /\ Open(data, Open(data, all)) = [ok |-> TRUE, from |-> 8, len |-> nc]
       /\ Holds(data, 8, cont)
  <2>1. Holds(data, 4, Encode(SequenceTag, 2, cont)) /\ Len(Encode(SequenceTag, 2, cont)) <= 6 + nc
    BY <1>22, <1>29 DEF tbs
  <2>2. 6 + nc \in Nat /\ 6 + nc < Word /\ 4 \in Nat
    BY <1>1, <1>27
  <2>3. PICK z \in Nat, m \in Nat : z = 4 /\ m = 6 + nc
    OBVIOUS
  <2>4. /\ Open(data, [ok |-> TRUE, from |-> z, len |-> m]) =
              [ok |-> TRUE, from |-> z + 4, len |-> Len(cont)]
        /\ Holds(data, z + 4, cont)
    BY <2>1, <2>2, <2>3, <1>12, <1>21, <1>26, OpenLong
  <2>5. z + 4 = 8
    BY <2>3
  <2> QED
    BY <2>3, <2>4, <2>5, <1>20, <1>28

\* The parts, where they are.
<1>31. /\ Holds(data, 8, version)
       /\ Holds(data, 8 + n0, a1)
       /\ Holds(data, 8 + n0 + n1, a2)
       /\ Holds(data, 8 + n0 + n1 + n2, a3)
       /\ Holds(data, 8 + n0 + n1 + n2 + n3, a4)
       /\ Holds(data, 8 + n0 + n1 + n2 + n3 + n4, a5)
       /\ Holds(data, 8 + n0 + n1 + n2 + n3 + n4 + n5, spki)
  <2>1. Holds(data, 8, version \o a1 \o a2 \o a3 \o a4 \o a5 \o spki)
    BY <1>30 DEF cont
  <2>0. PICK p : p = 8
    OBVIOUS
  <2>2. HeldInOrder(data, p, version, a1, a2, a3, a4, a5, spki)
    BY <2>0, <2>1, <1>2, <1>4, <1>26, HeldFields
  <2> QED
    BY <2>0, <2>2, <1>13, <1>14, <1>15, <1>16, <1>17, <1>18 DEF HeldInOrder
<1> DEFINE W(f, l) == [ok |-> TRUE, from |-> f, len |-> l]
           Step(f, l, k) == Skip(data, W(f, l)) = W(f + k, l - k)
<1>32. ASSUME NEW f, NEW l \in Nat, NEW s, l <= nc, IsAny(s), Holds(data, f, s), Len(s) <= l
       PROVE  Step(f, l, Len(s))
  <2>1. l < Word
    BY <1>1, <1>27, <1>32
  <2> QED
    BY <2>1, <1>26, <1>32, SkipElement

\* Over the version, if there is one.
<1>33. SkipVersion(data, W(8, nc)) = W(8 + n0, nc - n0)
  <2>1. CASE version = <<>>
    <3>1. n0 = 0 /\ 8 + n0 = 8 /\ nc - n0 = nc
      BY <2>1, <1>13
    <3>2. Holds(data, 8, a1) /\ n1 <= nc /\ nc < Word
      BY <3>1, <1>1, <1>20, <1>27, <1>31
    <3>3. nova_der_tlv(data, 8, nc).ok /\ nova_der_tlv(data, 8, nc).tag = t1
      BY <3>2, <1>5, <1>14, <1>26, ElementRead
    <3>4. SkipVersion(data, W(8, nc)) = [W(8, nc) EXCEPT !.ok = @ /\ nova_der_tlv(data, 8, nc).ok]
      BY <3>3, <1>5 DEF SkipVersion
    <3> QED
      BY <3>1, <3>3, <3>4
  <2>2. CASE version # <<>>
    <3>1. IsElement(version, VersionTag)
      BY <2>2, <1>10
    <3>2. n0 <= nc /\ nc < Word
      BY <1>1, <1>20, <1>27
    <3>3. nova_der_tlv(data, 8, nc).tag = VersionTag
      BY <3>1, <3>2, <1>1, <1>13, <1>26, <1>31, ElementRead
    <3>4. SkipVersion(data, W(8, nc)) = Skip(data, W(8, nc))
      BY <3>3 DEF SkipVersion
    <3>5. Step(8, nc, n0)
      <4>1. IsAny(version)
        BY <3>1, <1>1 DEF IsAny
      <4> HIDE DEF Step
      <4>2. Step(8, nc, Len(version))
        BY <4>1, <3>2, <1>13, <1>31, <1>32
      <4> QED
        BY <4>2, <1>13
    <3> QED
      BY <3>4, <3>5
  <2> QED
    BY <2>1, <2>2

\* Over the five fields.
<1> HIDE DEF Step
<1>34. Step(8 + n0, nc - n0, n1)
  <2>1. nc - n0 \in Nat /\ nc - n0 <= nc /\ n1 <= nc - n0
    BY <1>20
  <2>2. Step(8 + n0, nc - n0, Len(a1))
    BY <2>1, <1>6, <1>14, <1>31, <1>32
  <2> QED
    BY <2>2, <1>14
<1>35. Step(8 + n0 + n1, nc - n0 - n1, n2)
  <2>1. nc - n0 - n1 \in Nat /\ nc - n0 - n1 <= nc /\ n2 <= nc - n0 - n1
    BY <1>20
  <2>2. Step(8 + n0 + n1, nc - n0 - n1, Len(a2))
    BY <2>1, <1>6, <1>15, <1>31, <1>32
  <2> QED
    BY <2>2, <1>15
<1>36. Step(8 + n0 + n1 + n2, nc - n0 - n1 - n2, n3)
  <2>1. nc - n0 - n1 - n2 \in Nat /\ nc - n0 - n1 - n2 <= nc /\ n3 <= nc - n0 - n1 - n2
    BY <1>20
  <2>2. Step(8 + n0 + n1 + n2, nc - n0 - n1 - n2, Len(a3))
    BY <2>1, <1>6, <1>16, <1>31, <1>32
  <2> QED
    BY <2>2, <1>16
<1>37. Step(8 + n0 + n1 + n2 + n3, nc - n0 - n1 - n2 - n3, n4)
  <2>1. nc - n0 - n1 - n2 - n3 \in Nat /\ nc - n0 - n1 - n2 - n3 <= nc /\ n4 <= nc - n0 - n1 - n2 - n3
    BY <1>20
  <2>2. Step(8 + n0 + n1 + n2 + n3, nc - n0 - n1 - n2 - n3, Len(a4))
    BY <2>1, <1>6, <1>17, <1>31, <1>32
  <2> QED
    BY <2>2, <1>17
<1>38. Step(8 + n0 + n1 + n2 + n3 + n4, nc - n0 - n1 - n2 - n3 - n4, n5)
  <2>1. nc - n0 - n1 - n2 - n3 - n4 \in Nat /\ nc - n0 - n1 - n2 - n3 - n4 <= nc /\ n5 <= nc - n0 - n1 - n2 - n3 - n4
    BY <1>20
  <2>2. Step(8 + n0 + n1 + n2 + n3 + n4, nc - n0 - n1 - n2 - n3 - n4, Len(a5))
    BY <2>1, <1>6, <1>18, <1>31, <1>32
  <2> QED
    BY <2>2, <1>18
<1> DEFINE last == W(8 + n0 + n1 + n2 + n3 + n4 + n5, nc - n0 - n1 - n2 - n3 - n4 - n5)
<1>39. SkipFields(data, SkipVersion(data, W(8, nc))) = last
  BY <1>33, <1>34, <1>35, <1>36, <1>37, <1>38 DEF SkipFields, Step
<1>40. last.ok /\ last.from = 8 + n0 + n1 + n2 + n3 + n4 + n5 /\ last.len = nk
  BY <1>20
<1>41. /\ nova_der_tlv(data, last.from, last.len).ok
       /\ nova_der_tlv(data, last.from, last.len).tag = SequenceTag
       /\ nova_der_tlv(data, last.from, last.len).end = nk
  <2>1. nk < Word /\ Len(spki) <= nk /\ Holds(data, last.from, spki)
    BY <1>1, <1>19, <1>20, <1>27, <1>31, <1>40
  <2> HIDE DEF last
  <2> QED
    BY <2>1, <1>1, <1>10, <1>19, <1>26, <1>40, ElementRead
<1>42. nova_spki_der(data) = W(last.from, nk)
  <2>1. Open(data, Open(data, all)) = W(8, nc)
    BY <1>30
  <2> HIDE DEF last, all
  <2>2. nova_spki_der(data) =
          LET w == last
              e == nova_der_tlv(data, w.from, w.len)
          IN  IF w.ok /\ e.ok /\ e.tag = SequenceTag THEN W(w.from, e.end) ELSE Nothing
    BY <2>1, <1>39 DEF nova_spki_der, all
  <2> QED
    BY <2>2, <1>40, <1>41
<1>43. SubSeq(data, last.from + 1, last.from + nk) = spki
  <2>1. Holds(data, last.from, spki)
    BY <1>31, <1>40
  <2> HIDE DEF last
  <2> QED
    BY <2>1, <1>4, <1>19, <1>26, HeldIsThere
<1>44. nova_spki_der(data).ok /\ nova_spki_der(data).from = last.from /\ nova_spki_der(data).len = nk
  BY <1>42
<1> HIDE DEF last
<1> QED
  BY <1>26, <1>27, <1>43, <1>44 DEF data

-----------------------------------------------------------------------------
(* What TLC starts from is such a certificate.                             *)

\* A small content fits a length of any form.
LEMMA SmallElement ==
    ASSUME NEW tag \in Byte, NEW n \in 0 .. 2, NEW c \in Seq(Byte), Len(c) <= 3
    PROVE  IsElement(Encode(tag, n, c), tag) /\ Len(Encode(tag, n, c)) = 2 + n + Len(c)
<1>1. Len(c) \in Nat
  OBVIOUS
<1>2. Base * Base >= 8
  <2>1. Base * Base >= 8 * 1
    BY BaseFacts
  <2> QED
    BY <2>1
<1>3. Fits(n, Len(c))
  <2>1. Base \in Nat /\ LongBit \in Nat /\ Base * Base \in Nat
    BY BaseFacts
  <2> QED
    BY <1>1, <1>2, <2>1, BaseFacts DEF Fits
<1> QED
  BY <1>3, EncodeShape DEF IsElement

\* The parts that TLC puts together are elements, of at most six bytes.
LEMMA FieldShape ==
    /\ \A f \in Fields : \E t \in Byte \ {VersionTag} : IsElement(f, t) /\ Len(f) <= 6
    /\ \E t \in Byte \ {VersionTag} : IsElement(<<IntegerTag, 0>>, t) /\ Len(<<IntegerTag, 0>>) <= 6
    /\ \A v \in Versions : (v = <<>> \/ IsElement(v, VersionTag)) /\ Len(v) <= 6
    /\ \A k \in Keys : IsElement(k, SequenceTag) /\ Len(k) <= 6
<1>1. /\ IntegerTag \in Byte /\ SequenceTag \in Byte
      /\ IntegerTag # VersionTag /\ SequenceTag # VersionTag
      /\ VersionTag \in Byte /\ 0 \in Byte /\ 1 \in Byte /\ 2 \in Byte /\ 7 \in Byte
  BY DerAssumption, InputsAssumption DEF Byte, IntegerTag
<1>2. ASSUME NEW f \in Fields
      PROVE  \E t \in Byte \ {VersionTag} : IsElement(f, t) /\ Len(f) <= 6
  <2>1. PICK t \in {IntegerTag, SequenceTag}, n \in 0 .. 2, c \in Contents : f = Encode(t, n, c)
    BY DEF Fields
  <2>2. t \in Byte \ {VersionTag}
    BY <1>1
  <2>3. c \in Seq(Byte) /\ Len(c) \in Nat /\ Len(c) <= 2
    <3>1. CASE c = <<>>
      BY <3>1
    <3>2. CASE c = <<SequenceTag, 0>>
      BY <3>2, <1>1
    <3> QED
      BY <3>1, <3>2 DEF Contents
  <2>4. IsElement(f, t) /\ Len(f) = 2 + n + Len(c)
    BY <2>1, <2>2, <2>3, SmallElement
  <2> QED
    BY <2>2, <2>3, <2>4
<1>3. \E t \in Byte \ {VersionTag} : IsElement(<<IntegerTag, 0>>, t) /\ Len(<<IntegerTag, 0>>) <= 6
  <2>1. PICK c : c = <<>> /\ c \in Seq(Byte) /\ Len(c) = 0
    <3>1. <<>> \in Seq(Byte) /\ Len(<<>>) = 0
      OBVIOUS
    <3> QED
      BY <3>1
  <2>2. Encode(IntegerTag, 0, c) = <<IntegerTag, 0>>
    <3>1. Encode(IntegerTag, 0, c) = <<IntegerTag, Len(c)>> \o c
      BY DEF Encode
    <3> QED
      BY <2>1, <3>1, <1>1
  <2>3. PICK z \in 0 .. 2 : z = 0
    OBVIOUS
  <2>4. IsElement(Encode(IntegerTag, z, c), IntegerTag)
    <3>1. Len(c) <= 3 /\ c \in Seq(Byte) /\ IntegerTag \in Byte
      BY <1>1, <2>1
    <3> QED
      BY <3>1, SmallElement
  <2>5. IsElement(<<IntegerTag, 0>>, IntegerTag)
    BY <2>2, <2>3, <2>4
  <2>6. Len(<<IntegerTag, 0>>) = 2
    OBVIOUS
  <2> QED
    BY <1>1, <2>5, <2>6
<1>4. ASSUME NEW v \in Versions
      PROVE  (v = <<>> \/ IsElement(v, VersionTag)) /\ Len(v) <= 6
  <2>1. CASE v = <<>>
    BY <2>1
  <2>2. CASE v # <<>>
    <3>1. PICK n \in 0 .. 1 : v = Encode(VersionTag, n, <<IntegerTag, 1, 2>>)
      BY <2>2 DEF Versions
    <3>2. PICK c : c = <<IntegerTag, 1, 2>> /\ c \in Seq(Byte) /\ Len(c) = 3
      <4>1. <<IntegerTag, 1, 2>> \in Seq(Byte) /\ Len(<<IntegerTag, 1, 2>>) = 3
        BY <1>1
      <4> QED
        BY <4>1
    <3>3. n \in 0 .. 2
      OBVIOUS
    <3>4. /\ IsElement(Encode(VersionTag, n, c), VersionTag)
          /\ Len(Encode(VersionTag, n, c)) = 2 + n + Len(c)
      <4>1. Len(c) <= 3 /\ c \in Seq(Byte) /\ VersionTag \in Byte
        BY <1>1, <3>2
      <4> QED
        BY <4>1, <3>3, SmallElement
    <3>5. IsElement(v, VersionTag) /\ Len(v) = 2 + n + 3
      BY <3>1, <3>2, <3>4
    <3> QED
      BY <3>5
  <2> QED
    BY <2>1, <2>2
<1>5. ASSUME NEW k \in Keys PROVE IsElement(k, SequenceTag) /\ Len(k) <= 6
  <2>1. PICK n \in 0 .. 2 : k = Encode(SequenceTag, n, <<1, 7>>)
    BY DEF Keys
  <2>2. PICK c : c = <<1, 7>> /\ c \in Seq(Byte) /\ Len(c) = 2
    <3>1. <<1, 7>> \in Seq(Byte) /\ Len(<<1, 7>>) = 2
      BY <1>1
    <3> QED
      BY <3>1
  <2>3. /\ IsElement(Encode(SequenceTag, n, c), SequenceTag)
        /\ Len(Encode(SequenceTag, n, c)) = 2 + n + Len(c)
    <3>1. Len(c) <= 3 /\ c \in Seq(Byte) /\ SequenceTag \in Byte
      BY <1>1, <2>2
    <3> QED
      BY <3>1, SmallElement
  <2>4. IsElement(k, SequenceTag) /\ Len(k) = 2 + n + 2
    BY <2>1, <2>2, <2>3
  <2> QED
    BY <2>4
<1> QED
  BY <1>2, <1>3, <1>4, <1>5

\* Every certificate that TLC puts together is well-formed.
LEMMA MadeIsWellFormed ==
    ASSUME NEW version \in Versions, NEW odd \in Fields, NEW i \in 1 .. 5, NEW spki \in Keys
    PROVE  WellFormed(version, [[k \in 1 .. 5 |-> <<IntegerTag, 0>>] EXCEPT ![i] = odd], spki)
<1> DEFINE f == [[k \in 1 .. 5 |-> <<IntegerTag, 0>>] EXCEPT ![i] = odd]
<1>1. \A k \in 1 .. 5 : f[k] = odd \/ f[k] = <<IntegerTag, 0>>
  OBVIOUS
<1> HIDE DEF f
<1>2. \A k \in 1 .. 5 : \E t \in Byte \ {VersionTag} : IsElement(f[k], t) /\ Len(f[k]) <= 6
  BY <1>1, FieldShape
<1>3. \A k \in 1 .. 5 : IsAny(f[k])
  BY <1>2 DEF IsAny
<1>4. \A k \in 1 .. 5 : f[k] \in Seq(Byte) /\ Len(f[k]) <= 6
  BY <1>2, ElementShape
<1>5. /\ SequenceTag \in Byte /\ VersionTag \in Byte
  BY DerAssumption DEF Byte
<1>6. (version = <<>> \/ IsElement(version, VersionTag)) /\ Len(version) <= 6
  BY FieldShape
<1>7. version \in Seq(Byte)
  <2>1. CASE version = <<>>
    BY <2>1
  <2>2. CASE IsElement(version, VersionTag)
    BY <2>2, <1>5, ElementShape
  <2> QED
    BY <2>1, <2>2, <1>6
<1>8. IsElement(spki, SequenceTag) /\ Len(spki) <= 6 /\ spki \in Seq(Byte)
  BY FieldShape, ElementShape, <1>5
<1> DEFINE c == version \o f[1] \o f[2] \o f[3] \o f[4] \o f[5] \o spki
<1>9. c \in Seq(Byte)
      /\ Len(c) = Len(version) + Len(f[1]) + Len(f[2]) + Len(f[3]) + Len(f[4]) + Len(f[5]) + Len(spki)
  BY <1>4, <1>7, <1>8, FieldsLength
<1> HIDE DEF c
<1>10. Len(c) <= 42
  <2>1. /\ f[1] \in Seq(Byte) /\ f[2] \in Seq(Byte) /\ f[3] \in Seq(Byte)
        /\ f[4] \in Seq(Byte) /\ f[5] \in Seq(Byte)
        /\ Len(f[1]) <= 6 /\ Len(f[2]) <= 6 /\ Len(f[3]) <= 6 /\ Len(f[4]) <= 6 /\ Len(f[5]) <= 6
    BY <1>4
  <2>2. \A s \in Seq(Byte) : \A n \in Nat : Len(s) <= n => \E m \in Nat : m = Len(s) /\ m <= n
    OBVIOUS
  <2>3. PICK n0 \in Nat : n0 = Len(version) /\ n0 <= 6
    BY <2>2, <1>6, <1>7
  <2>4. PICK n1 \in Nat : n1 = Len(f[1]) /\ n1 <= 6
    BY <2>1, <2>2
  <2>5. PICK n2 \in Nat : n2 = Len(f[2]) /\ n2 <= 6
    BY <2>1, <2>2
  <2>6. PICK n3 \in Nat : n3 = Len(f[3]) /\ n3 <= 6
    BY <2>1, <2>2
  <2>7. PICK n4 \in Nat : n4 = Len(f[4]) /\ n4 <= 6
    BY <2>1, <2>2
  <2>8. PICK n5 \in Nat : n5 = Len(f[5]) /\ n5 <= 6
    BY <2>1, <2>2
  <2>9. PICK nk \in Nat : nk = Len(spki) /\ nk <= 6
    BY <2>2, <1>8
  <2>10. Len(c) = n0 + n1 + n2 + n3 + n4 + n5 + nk
    BY <2>3, <2>4, <2>5, <2>6, <2>7, <2>8, <2>9, <1>9
  <2>11. n0 <= 6 /\ n1 <= 6 /\ n2 <= 6 /\ n3 <= 6 /\ n4 <= 6 /\ n5 <= 6 /\ nk <= 6
    BY <2>3, <2>4, <2>5, <2>6, <2>7, <2>8, <2>9
  <2>12. n0 + n1 + n2 + n3 + n4 + n5 + nk <= 42
    BY <2>11
  <2> QED
    BY <2>10, <2>12
<1>11. Len(c) + 6 < Base * Base /\ Len(c) + 10 < Word
  <2>1. Base * Base >= 8 * 8
    BY BaseFacts
  <2>2. Base * Base \in Nat /\ Word \in Nat /\ Word >= 64
    BY BaseFacts, InputsAssumption
  <2>3. PICK m \in Nat : m = Len(c)
    <3>1. \A s \in Seq(Byte) : Len(s) \in Nat
      OBVIOUS
    <3> QED
      BY <3>1, <1>9
  <2> QED
    BY <2>1, <2>2, <2>3, <1>10
<1>12. \E t \in Byte \ {VersionTag} : IsElement(f[1], t)
  BY <1>2
<1>13. WellFormed(version, f, spki)
  BY <1>3, <1>6, <1>8, <1>11, <1>12 DEF WellFormed, c
<1> QED
  BY <1>13 DEF f

-----------------------------------------------------------------------------
(* Names: the check by labels agrees with what a name is, said of the      *)
(* characters and their neighbours.                                        *)

\* Neighbours among the cuts of a name: what is between them is one label.
Consecutive(s, a, b) ==
    a \in Cuts(s) /\ b \in Cuts(s) /\ a < b /\ ~\E i \in Cuts(s) : a < i /\ i < b

\* A set of numbers with a member has a least one.
LEMMA LeastNumber ==
    ASSUME NEW T, T \subseteq Nat, T # {}
    PROVE  \E x \in T : \A y \in T : x <= y
<1> DEFINE R == OpToRel(<, Nat)
<1>1. \A x, y \in Nat : y < x => <<y, x>> \in R
  BY DEF OpToRel
<1>2. IsWellFoundedOn(R, Nat)
  BY NatLessThanWellFounded
<1> HIDE DEF R
<1>3. PICK x \in T : \A y \in T : ~ (<<y, x>> \in R)
  BY <1>2, WFMin
<1>4. ASSUME NEW y \in T PROVE x <= y
  <2> SUFFICES ASSUME ~ (x <= y) PROVE FALSE
    OBVIOUS
  <2>1. x \in Nat /\ y \in Nat /\ y < x
    OBVIOUS
  <2> QED
    BY <1>1, <1>3, <2>1
<1> QED
  BY <1>4

\* Cuts are positions, or one beside the name at either end.
LEMMA CutsAreNumbers ==
    ASSUME NEW s \in Seq(Char)
    PROVE  Cuts(s) \subseteq 0 .. Len(s) + 1
  BY DEF Cuts

\* Behind every position is a next cut.
LEMMA NextCut ==
    ASSUME NEW s \in Seq(Char), NEW p \in 0 .. Len(s)
    PROVE  \E b \in Cuts(s) : p < b /\ ~\E i \in Cuts(s) : p < i /\ i < b
<1> DEFINE S == {i \in Cuts(s) : p < i}
<1>1. Len(s) + 1 \in S
  BY DEF Cuts
<1>2. S \in SUBSET Nat
  BY CutsAreNumbers
<1> HIDE DEF S
<1>3. PICK b \in S : \A y \in S : b <= y
  BY <1>1, <1>2, LeastNumber
<1>4. b \in Cuts(s) /\ p < b
  BY <1>3 DEF S
<1>5. ASSUME NEW i \in Cuts(s), p < i, i < b PROVE FALSE
  <2>1. i \in S
    BY <1>5 DEF S
  <2>2. b <= i
    BY <2>1, <1>3
  <2>3. b \in Nat /\ i \in Nat
    BY <2>1, <1>2
  <2> QED
    BY <2>2, <2>3, <1>5
<1> QED
  BY <1>4, <1>5

\* Before every position is a last cut.
LEMMA LastCut ==
    ASSUME NEW s \in Seq(Char), NEW p \in 1 .. Len(s) + 1
    PROVE  \E a \in Cuts(s) : a < p /\ ~\E i \in Cuts(s) : a < i /\ i < p
<1> DEFINE S == {p - i : i \in {j \in Cuts(s) : j < p}}
<1>1. Len(s) \in Nat /\ p \in Nat
  OBVIOUS
<1>2. 0 \in Cuts(s) /\ 0 < p
  BY DEF Cuts
<1>3. p - 0 \in S
  BY <1>2
<1>4. \A i \in Cuts(s) : i \in Nat
  BY CutsAreNumbers
<1>5. S \in SUBSET Nat
  BY <1>1, <1>4
<1>6. \A x \in S : \E i \in Cuts(s) : i < p /\ x = p - i
  OBVIOUS
<1>7. \A i \in Cuts(s) : i < p => p - i \in S
  OBVIOUS
<1> HIDE DEF S
<1>8. PICK d \in S : \A y \in S : d <= y
  BY <1>3, <1>5, LeastNumber
<1>9. PICK a \in Cuts(s) : a < p /\ d = p - a
  BY <1>6, <1>8
<1>10. ASSUME NEW i \in Cuts(s), a < i, i < p PROVE FALSE
  <2>1. p - a <= p - i
    BY <1>7, <1>8, <1>9, <1>10
  <2> QED
    BY <2>1, <1>1, <1>4, <1>10
<1> QED
  BY <1>9, <1>10

\* The labels are what is between neighbours.
LEMMA LabelsAreBetween ==
    ASSUME NEW s \in Seq(Char)
    PROVE  /\ \A a, b : Consecutive(s, a, b) => SubSeq(s, a + 1, b - 1) \in Labels(s)
           /\ \A l \in Labels(s) : \E a, b : Consecutive(s, a, b) /\ l = SubSeq(s, a + 1, b - 1)
<1> DEFINE D == {d \in Cuts(s) \X Cuts(s) : d[1] < d[2] /\ ~\E i \in Cuts(s) : d[1] < i /\ i < d[2]}
<1>1. Labels(s) = {SubSeq(s, c[1] + 1, c[2] - 1) : c \in D}
  BY DEF Labels
<1>2. ASSUME NEW a, NEW b, Consecutive(s, a, b) PROVE SubSeq(s, a + 1, b - 1) \in Labels(s)
  <2>1. PICK c : c = <<a, b>>
    OBVIOUS
  <2>2. c \in D /\ c[1] = a /\ c[2] = b
    BY <1>2, <2>1 DEF Consecutive
  <2> HIDE DEF D
  <2>3. SubSeq(s, c[1] + 1, c[2] - 1) \in {SubSeq(s, d[1] + 1, d[2] - 1) : d \in D}
    BY <2>2
  <2> QED
    BY <2>2, <2>3, <1>1
<1>3. ASSUME NEW l \in Labels(s)
      PROVE  \E a, b : Consecutive(s, a, b) /\ l = SubSeq(s, a + 1, b - 1)
  <2>1. PICK c \in D : l = SubSeq(s, c[1] + 1, c[2] - 1)
    BY <1>1
  <2>2. Consecutive(s, c[1], c[2])
    BY <2>1 DEF Consecutive
  <2> QED
    BY <2>1, <2>2
<1> QED
  BY <1>2, <1>3

\* What the check of one label says of the positions of the name.
BetweenOk(s, a, b) ==
    /\ b - a - 1 \in 1 .. MaxLabel
    /\ \A k \in a + 1 .. b - 1 : s[k] \in Alnum \cup {"-"}
    /\ s[a + 1] # "-" /\ s[b - 1] # "-"

\* The check of a label, said of the positions it takes up.
LEMMA LabelSaysBetween ==
    ASSUME NEW s \in Seq(Char), NEW a, NEW b, Consecutive(s, a, b)
    PROVE  _tls_label_ok(SubSeq(s, a + 1, b - 1)) <=> BetweenOk(s, a, b)
<1> DEFINE l == SubSeq(s, a + 1, b - 1)
<1>1. PICK n \in Nat : n = Len(s)
  OBVIOUS
<1>2. a \in 0 .. n + 1 /\ b \in 0 .. n + 1 /\ a < b
  BY <1>1, CutsAreNumbers DEF Consecutive
<1>3. a \in Nat /\ b \in Nat /\ a <= n /\ b - 1 <= n /\ b - 1 \in Nat /\ b - a - 1 \in Nat
  BY <1>1, <1>2
<1>4. Len(l) = b - a - 1 /\ \A k \in 1 .. b - a - 1 : l[k] = s[a + k]
  BY <1>1, <1>2, <1>3
<1>5. MaxLabel \in Nat
  BY NamesAssumption
<1> HIDE DEF l
<1>6. ASSUME b - a - 1 >= 1
      PROVE  l[1] = s[a + 1] /\ l[Len(l)] = s[b - 1]
  <2>1. l[1] = s[a + 1]
    BY <1>3, <1>4, <1>6
  <2>2. l[b - a - 1] = s[a + (b - a - 1)] /\ a + (b - a - 1) = b - 1
    BY <1>3, <1>4, <1>6
  <2> QED
    BY <2>1, <2>2, <1>4
<1>7. Chars(l) = {s[k] : k \in a + 1 .. b - 1}
  <2>1. ASSUME NEW k \in 1 .. b - a - 1 PROVE l[k] \in {s[j] : j \in a + 1 .. b - 1}
    <3>1. a + k \in a + 1 .. b - 1
      BY <1>3
    <3> QED
      BY <3>1, <1>4
  <2>2. ASSUME NEW j \in a + 1 .. b - 1 PROVE s[j] \in {l[k] : k \in 1 .. b - a - 1}
    <3>1. j - a \in 1 .. b - a - 1 /\ a + (j - a) = j
      BY <1>3
    <3>2. l[j - a] = s[j]
      BY <3>1, <1>4
    <3> QED
      BY <3>1, <3>2
  <2>3. Chars(l) = {l[k] : k \in 1 .. b - a - 1}
    BY <1>4 DEF Chars
  <2> QED
    BY <2>1, <2>2, <2>3
<1>8. _tls_label_ok(l) <=> /\ b - a - 1 \in 1 .. MaxLabel
                           /\ {s[k] : k \in a + 1 .. b - 1} \subseteq Alnum \cup {"-"}
                           /\ s[a + 1] # "-" /\ s[b - 1] # "-"
  BY <1>3, <1>4, <1>5, <1>6, <1>7 DEF _tls_label_ok
<1> QED
  BY <1>8 DEF BetweenOk, l


\* The check, said of the cuts.
LEMMA ValidSaysBetween ==
    ASSUME NEW s \in Seq(Char)
    PROVE  (\A l \in Labels(s) : _tls_label_ok(l)) <=>
           (\A a, b : Consecutive(s, a, b) => BetweenOk(s, a, b))
<1>1. ASSUME \A l \in Labels(s) : _tls_label_ok(l), NEW a, NEW b, Consecutive(s, a, b)
      PROVE  BetweenOk(s, a, b)
  BY <1>1, LabelsAreBetween, LabelSaysBetween
<1>2. ASSUME \A a, b : Consecutive(s, a, b) => BetweenOk(s, a, b), NEW l \in Labels(s)
      PROVE  _tls_label_ok(l)
  <2>1. PICK a, b : Consecutive(s, a, b) /\ l = SubSeq(s, a + 1, b - 1)
    BY LabelsAreBetween
  <2> QED
    BY <2>1, <1>2, LabelSaysBetween
<1> QED
  BY <1>1, <1>2

\* In a host name, what is between neighbouring cuts is a label.
LEMMA HostNameBetween ==
    ASSUME NEW s \in Seq(Char), HostName(s), NEW a, NEW b, Consecutive(s, a, b)
    PROVE  BetweenOk(s, a, b)
<1>1. PICK n \in Nat : n = Len(s)
  OBVIOUS
<1>2. a \in 0 .. n + 1 /\ b \in 0 .. n + 1 /\ a < b
  BY <1>1, CutsAreNumbers DEF Consecutive
<1>3. (a = 0 \/ s[a] = ".") /\ (b = n + 1 \/ s[b] = ".")
  <2>1. a \in Cuts(s) /\ b \in Cuts(s)
    BY DEF Consecutive
  <2> QED
    BY <2>1, <1>1, <1>2 DEF Cuts
<1>4. (a = 0 \/ a \in 1 .. n) /\ (b = n + 1 \/ b \in 1 .. n)
  BY <1>2
<1>5. \A k \in a + 1 .. b - 1 : k \in 1 .. n /\ s[k] # "."
  <2>1. ASSUME NEW k \in a + 1 .. b - 1 PROVE k \in 1 .. n /\ s[k] # "."
    <3>1. a < k /\ k < b /\ k \in 1 .. n
      BY <1>2
    <3>2. k \notin Cuts(s)
      BY <3>1 DEF Consecutive
    <3> QED
      BY <3>1, <3>2, <1>1 DEF Cuts
  <2> QED
    BY <2>1
<1>6. n >= 1 /\ MaxLabel \in Nat
  BY <1>1, NamesAssumption DEF HostName
<1>7. \A i \in 1 .. n : s[i] \notin Alnum =>
         /\ i \in 2 .. n - 1
         /\ s[i] = "." => s[i - 1] \in Alnum /\ s[i + 1] \in Alnum
  BY <1>1 DEF HostName
<1>8. "." \notin Alnum /\ "-" \notin Alnum
  BY DEF Alnum, HexDigit
<1>9. b >= a + 2 /\ s[a + 1] \in Alnum /\ s[b - 1] \in Alnum
  <2>1. CASE a = 0
    <3>1. s[1] \in Alnum
      BY <1>6, <1>7
    <3>2. b # 1
      BY <1>3, <1>6, <1>8, <3>1
    <3>3. b >= 2
      BY <1>2, <2>1, <3>2
    <3>4. CASE b = n + 1
      <4>1. s[n] \in Alnum
        BY <1>6, <1>7
      <4> QED
        BY <2>1, <3>1, <3>3, <3>4, <4>1
    <3>5. CASE b # n + 1
      <4>1. b \in 1 .. n /\ s[b] = "."
        BY <1>3, <1>4, <3>5
      <4>2. s[b - 1] \in Alnum
        BY <4>1, <1>7, <1>8
      <4> QED
        BY <2>1, <3>1, <3>3, <4>2
    <3> QED
      BY <3>4, <3>5
  <2>2. CASE a # 0
    <3>1. a \in 1 .. n /\ s[a] = "."
      BY <1>3, <1>4, <2>2
    <3>2. a \in 2 .. n - 1 /\ s[a + 1] \in Alnum
      BY <3>1, <1>7, <1>8
    <3>3. b # a + 1
      BY <1>3, <1>8, <3>2
    <3>4. b >= a + 2
      BY <1>2, <3>2, <3>3
    <3>5. CASE b = n + 1
      <4>1. s[n] \in Alnum
        BY <1>6, <1>7
      <4> QED
        BY <3>2, <3>4, <3>5, <4>1
    <3>6. CASE b # n + 1
      <4>1. b \in 1 .. n /\ s[b] = "."
        BY <1>3, <1>4, <3>6
      <4>2. s[b - 1] \in Alnum
        BY <4>1, <1>7, <1>8
      <4> QED
        BY <3>2, <3>4, <4>2
    <3> QED
      BY <3>5, <3>6
  <2> QED
    BY <2>1, <2>2
<1>10. b - a - 1 \in 1 .. MaxLabel
  <2>1. ASSUME b - a - 1 > MaxLabel PROVE FALSE
    <3>1. a + 1 \in 1 .. n - MaxLabel
      BY <1>2, <1>6, <2>1
    <3>2. PICK j \in a + 1 .. a + 1 + MaxLabel : s[j] = "."
      BY <3>1, <1>1 DEF HostName
    <3>3. j \in a + 1 .. b - 1
      BY <1>2, <1>6, <2>1
    <3> QED
      BY <3>2, <3>3, <1>5
  <2> QED
    BY <2>1, <1>2, <1>6, <1>9
<1>11. \A k \in a + 1 .. b - 1 : s[k] \in Alnum \cup {"-"}
  <2>1. \A k \in 1 .. n : s[k] \in Alnum \cup {"-", "."}
    BY <1>1 DEF HostName, Chars
  <2> QED
    BY <2>1, <1>5
<1> QED
  BY <1>8, <1>9, <1>10, <1>11 DEF BetweenOk

\* Addresses are what _tls_is_ip_literal takes for one.
LEMMA AddressIsLiteral ==
    ASSUME NEW s \in Seq(Char), IPv4(s) \/ IPv6(s)
    PROVE  _tls_is_ip_literal(s) /\ Len(s) \in 1 .. MaxName
<1>0. Cardinality({}) = 0
  BY FS_EmptySet
<1>1. CASE IPv4(s)
  <2>1. Places(s, ".") # {}
    <3>1. Cardinality(Places(s, ".")) = 3
      BY <1>1 DEF IPv4
    <3> QED
      BY <3>1, <1>0
  <2>2. PICK i \in 1 .. Len(s) : s[i] = "."
    BY <2>1 DEF Places
  <2>3. "." \in Chars(s)
    BY <2>2 DEF Chars
  <2> QED
    BY <1>1, <2>2, <2>3, NamesAssumption DEF IPv4, _tls_is_ip_literal
<1>2. CASE IPv6(s)
  <2>1. Places(s, ":") # {} \/ Double(s) # {}
    <3>1. Cardinality(Places(s, ":")) = 7 \/ \E i \in Double(s) : Double(s) = {i}
      BY <1>2 DEF IPv6
    <3>2. CASE Cardinality(Places(s, ":")) = 7
      <4>1. Places(s, ":") # {}
        BY <3>2, <1>0
      <4> QED
        BY <4>1
    <3>3. CASE \E i \in Double(s) : Double(s) = {i}
      <4>1. Double(s) # {}
        BY <3>3
      <4> QED
        BY <4>1
    <3> QED
      BY <3>1, <3>2, <3>3
  <2>2. PICK i \in 1 .. Len(s) : s[i] = ":"
    BY <2>1 DEF Places, Double
  <2>3. ":" \in Chars(s)
    BY <2>2 DEF Chars
  <2> QED
    BY <1>2, <2>2, <2>3, NamesAssumption DEF IPv6, _tls_is_ip_literal
<1> QED
  BY <1>1, <1>2

\* A host name and an address pass the check.
LEMMA RealNameIsValid ==
    ASSUME NEW s \in Seq(Char), HostName(s) \/ IPv4(s) \/ IPv6(s)
    PROVE  _tls_valid_sni(s)
<1>1. CASE HostName(s)
  <2>1. \A a, b : Consecutive(s, a, b) => BetweenOk(s, a, b)
    BY <1>1, HostNameBetween
  <2> QED
    BY <2>1, <1>1, ValidSaysBetween DEF _tls_valid_sni, HostName
<1>2. CASE IPv4(s) \/ IPv6(s)
  BY <1>2, AddressIsLiteral DEF _tls_valid_sni
<1> QED
  BY <1>1, <1>2

\* A name whose labels are in order is a host name.
LEMMA LabelsMakeHostName ==
    ASSUME NEW s \in Seq(Char), Len(s) \in 1 .. MaxName,
           \A a, b : Consecutive(s, a, b) => BetweenOk(s, a, b)
    PROVE  HostName(s)
<1>1. PICK n \in Nat : n = Len(s)
  OBVIOUS
<1>2. n >= 1 /\ MaxLabel \in Nat
  BY <1>1, NamesAssumption
<1>3. "." \notin Alnum \cup {"-"} /\ "-" \notin Alnum
  BY DEF Alnum, HexDigit
<1>4. \A i \in Cuts(s) : i \in 0 .. n + 1
  BY <1>1, CutsAreNumbers
<1>5. \A i \in 1 .. n : i \in Cuts(s) <=> s[i] = "."
  BY <1>1 DEF Cuts
<1>6. \A i \in 0 .. n : \E b \in Cuts(s) : i < b /\ ~\E j \in Cuts(s) : i < j /\ j < b
  BY <1>1, NextCut
<1>7. \A i \in 1 .. n + 1 : \E a \in Cuts(s) : a < i /\ ~\E j \in Cuts(s) : a < j /\ j < i
  BY <1>1, LastCut
<1>8. ASSUME NEW i \in 1 .. n, s[i] # "."
      PROVE  \E a, b : Consecutive(s, a, b) /\ BetweenOk(s, a, b) /\ a < i /\ i < b
  <2>1. PICK a \in Cuts(s) : a < i /\ ~\E j \in Cuts(s) : a < j /\ j < i
    BY <1>7
  <2>2. PICK b \in Cuts(s) : i < b /\ ~\E j \in Cuts(s) : i < j /\ j < b
    BY <1>6
  <2>3. i \notin Cuts(s)
    BY <1>5, <1>8
  <2>4. ASSUME NEW j \in Cuts(s), a < j, j < b PROVE FALSE
    <3>1. j < i \/ j = i \/ i < j
      BY <1>4
    <3> QED
      BY <3>1, <2>1, <2>2, <2>3, <2>4
  <2>5. a < b
    BY <1>4, <2>1, <2>2
  <2>6. Consecutive(s, a, b)
    BY <2>4, <2>5 DEF Consecutive
  <2> QED
    BY <2>1, <2>2, <2>6
<1>9. Chars(s) \subseteq Alnum \cup {"-", "."}
  <2>1. ASSUME NEW i \in 1 .. n, s[i] # "." PROVE s[i] \in Alnum \cup {"-"}
    <3>1. PICK a, b : Consecutive(s, a, b) /\ BetweenOk(s, a, b) /\ a < i /\ i < b
      BY <1>8, <2>1
    <3>2. a \in 0 .. n + 1 /\ b \in 0 .. n + 1
      BY <3>1, <1>4 DEF Consecutive
    <3>3. i \in a + 1 .. b - 1
      BY <3>1, <3>2
    <3> QED
      BY <3>1, <3>3 DEF BetweenOk
  <2> QED
    BY <2>1, <1>1 DEF Chars
<1>10. ASSUME NEW i \in 1 .. n, s[i] = "-" PROVE i \in 2 .. n - 1
  <2>1. PICK a, b : Consecutive(s, a, b) /\ BetweenOk(s, a, b) /\ a < i /\ i < b
    BY <1>8, <1>10
  <2>2. a \in 0 .. n + 1 /\ b \in 0 .. n + 1
    BY <2>1, <1>4 DEF Consecutive
  <2>3. i # a + 1 /\ i # b - 1
    BY <2>1, <1>10 DEF BetweenOk
  <2> QED
    BY <2>1, <2>2, <2>3
<1>11. ASSUME NEW i \in 1 .. n, s[i] = "."
       PROVE  i \in 2 .. n - 1 /\ s[i - 1] \in Alnum /\ s[i + 1] \in Alnum
  <2>1. i \in Cuts(s)
    BY <1>5, <1>11
  <2>2. i + 1 <= n /\ s[i + 1] \in Alnum
    <3>1. PICK b \in Cuts(s) : i < b /\ ~\E j \in Cuts(s) : i < j /\ j < b
      BY <1>6
    <3>2. BetweenOk(s, i, b)
      BY <2>1, <3>1 DEF Consecutive
    <3>3. b \in 0 .. n + 1 /\ b - i - 1 >= 1
      BY <1>2, <1>4, <3>2 DEF BetweenOk
    <3>4. i + 1 \in i + 1 .. b - 1 /\ i + 1 <= n
      BY <3>3
    <3> QED
      BY <3>2, <3>4 DEF BetweenOk
  <2>3. i - 1 >= 1 /\ s[i - 1] \in Alnum
    <3>1. PICK a \in Cuts(s) : a < i /\ ~\E j \in Cuts(s) : a < j /\ j < i
      BY <1>7
    <3>2. BetweenOk(s, a, i)
      BY <2>1, <3>1 DEF Consecutive
    <3>3. a \in 0 .. n + 1 /\ i - a - 1 >= 1
      BY <1>2, <1>4, <3>2 DEF BetweenOk
    <3>4. i - 1 \in a + 1 .. i - 1 /\ i - 1 >= 1
      BY <3>3
    <3> QED
      BY <3>2, <3>4 DEF BetweenOk
  <2> QED
    BY <2>2, <2>3
<1>12. ASSUME NEW i \in 1 .. n - MaxLabel PROVE \E j \in i .. i + MaxLabel : s[j] = "."
  <2> SUFFICES ASSUME \A j \in i .. i + MaxLabel : s[j] # "." PROVE FALSE
    OBVIOUS
  <2>1. i \in 1 .. n /\ i \in i .. i + MaxLabel
    BY <1>2
  <2>2. PICK a, b : Consecutive(s, a, b) /\ BetweenOk(s, a, b) /\ a < i /\ i < b
    BY <2>1, <1>8
  <2>3. a \in 0 .. n + 1 /\ b \in 0 .. n + 1
    BY <2>2, <1>4 DEF Consecutive
  <2>4. b > i + MaxLabel
    <3> SUFFICES ASSUME b <= i + MaxLabel PROVE FALSE
      BY <2>3, <1>2
    <3>1. b \in i .. i + MaxLabel /\ b \in 1 .. n
      BY <1>2, <2>2, <2>3
    <3>2. s[b] = "."
      BY <3>1, <1>5, <2>2 DEF Consecutive
    <3> QED
      BY <3>1, <3>2
  <2>5. b - a - 1 <= MaxLabel
    BY <2>2, <1>2, <2>3 DEF BetweenOk
  <2> QED
    BY <2>2, <2>3, <2>4, <2>5, <1>2
<1>13. \A i \in 1 .. n : s[i] \notin Alnum =>
          /\ i \in 2 .. n - 1
          /\ s[i] = "." => s[i - 1] \in Alnum /\ s[i + 1] \in Alnum
  <2>1. \A i \in 1 .. n : s[i] \in Alnum \/ s[i] = "-" \/ s[i] = "."
    BY <1>1, <1>9 DEF Chars
  <2> QED
    BY <2>1, <1>10, <1>11
<1> QED
  BY <1>1, <1>9, <1>12, <1>13 DEF HostName

\* What passes the check is a host name, or made of digits, dots and colons.
LEMMA ValidIsNameOrAddress ==
    ASSUME NEW s \in Seq(Char), _tls_valid_sni(s)
    PROVE  \/ HostName(s)
           \/ /\ Len(s) \in 1 .. MaxName
              /\ Chars(s) \subseteq HexDigit \cup {".", ":"}
              /\ Chars(s) \cap {".", ":"} # {}
<1>1. CASE _tls_is_ip_literal(s)
  BY <1>1 DEF _tls_valid_sni, _tls_is_ip_literal
<1>2. CASE \A l \in Labels(s) : _tls_label_ok(l)
  BY <1>2, ValidSaysBetween, LabelsMakeHostName DEF _tls_valid_sni
<1> QED
  BY <1>1, <1>2 DEF _tls_valid_sni

-----------------------------------------------------------------------------
(* The four properties of names and certificates, of every behaviour.      *)

\* Names are typed of characters; certificates are of bytes that a word can
\* count; and until it is damaged, a certificate is the one that was made.
InputsInv ==
    /\ name \in Seq(Char)
    /\ cert \in Seq(Byte) /\ Len(cert) < Word
    /\ key # <<>> => \E version, fields : /\ WellFormed(version, fields, key)
                                          /\ cert = Certificate(version, fields, key)

\* Every job starts with bytes and characters.
LEMMA InputsInit == Init => InputsInv
<1> SUFFICES ASSUME Init PROVE InputsInv
  OBVIOUS
<1>1. name \in Seq(Char)
  <2>1. name = <<>>
    BY DEF Init
  <2> QED
    BY <2>1
<1>2. CASE job = "der"
  <2>1. PICK version \in Versions, odd \in Fields, i \in 1 .. 5 :
          /\ key \in Keys
          /\ cert = Certificate(version, [[k \in 1 .. 5 |-> <<IntegerTag, 0>>] EXCEPT ![i] = odd], key)
    BY <1>2 DEF Init
  <2>2. PICK fields : fields = [[k \in 1 .. 5 |-> <<IntegerTag, 0>>] EXCEPT ![i] = odd]
    OBVIOUS
  <2>3. WellFormed(version, fields, key) /\ cert = Certificate(version, fields, key)
    BY <2>1, <2>2, MadeIsWellFormed
  <2>4. cert \in Seq(Byte) /\ Len(cert) < Word
    BY <2>3, KeyIsFound
  <2> QED
    BY <1>1, <2>3, <2>4 DEF InputsInv
<1>3. CASE job # "der"
  <2>1. cert = <<>> /\ key = <<>>
    BY <1>3 DEF Init
  <2>2. Word \in Nat /\ Word > 0
    BY BaseFacts
  <2> QED
    BY <1>1, <2>1, <2>2 DEF InputsInv
<1> QED
  BY <1>2, <1>3

\* Typing, damaging and cutting leave bytes and characters.
LEMMA InputsNext == InputsInv /\ [Next]_vars => InputsInv'
<1> SUFFICES ASSUME InputsInv, [Next]_vars PROVE InputsInv'
  OBVIOUS
<1>1. CASE TypeCharacter
  <2>1. PICK c \in Char : name' = Append(name, c)
    BY <1>1 DEF TypeCharacter
  <2>2. name' \in Seq(Char)
    BY <2>1 DEF InputsInv
  <2>3. cert' = cert /\ key' = key
    BY <1>1 DEF TypeCharacter
  <2> QED
    BY <2>2, <2>3 DEF InputsInv
<1>2. CASE Corrupt
  <2>1. PICK i \in 1 .. Len(cert), b \in Byte : cert' = [cert EXCEPT ![i] = b]
    BY <1>2 DEF Corrupt
  <2>2. cert' \in Seq(Byte) /\ Len(cert') = Len(cert)
    BY <2>1 DEF InputsInv
  <2>3. key' = <<>> /\ name' = name
    BY <1>2 DEF Corrupt
  <2> QED
    BY <2>2, <2>3 DEF InputsInv
<1>3. CASE Truncate
  <2>1. PICK n \in 0 .. Len(cert) - 1 : cert' = SubSeq(cert, 1, n)
    BY <1>3 DEF Truncate
  <2>2. cert' \in Seq(Byte) /\ Len(cert') = n
    <3>1. cert \in Seq(Byte) /\ n \in Nat /\ n <= Len(cert)
      BY DEF InputsInv
    <3>2. \A s \in Seq(Byte) : \A m \in Nat :
             m <= Len(s) => SubSeq(s, 1, m) \in Seq(Byte) /\ Len(SubSeq(s, 1, m)) = m
      OBVIOUS
    <3> QED
      BY <2>1, <3>1, <3>2
  <2>3. key' = <<>> /\ name' = name
    BY <1>3 DEF Truncate
  <2>4. n < Word
    BY BaseFacts DEF InputsInv
  <2> QED
    BY <2>2, <2>3, <2>4 DEF InputsInv
<1>4. CASE Answered
  BY <1>4 DEF Answered, InputsInv
<1>5. CASE UNCHANGED vars
  BY <1>5 DEF vars, InputsInv
<1> QED
  BY <1>1, <1>2, <1>3, <1>4, <1>5 DEF Next

\* TLC's inputs are names of characters and certificates of bytes, whatever
\* was done to them.
THEOREM InputsInvariant == Spec => []InputsInv
BY InputsInit, InputsNext, PTL DEF Spec

\* No damage makes the walk read behind the certificate, at any size of a
\* byte, of a length and of a word.
THEOREM NeverOutside == Spec => []StaysInside
<1>1. InputsInv => StaysInside
  <2> SUFFICES ASSUME InputsInv PROVE StaysInside
    OBVIOUS
  <2>1. PICK n \in Nat : n = Len(cert)
    BY DEF InputsInv
  <2>2. cert \in Seq(Byte) /\ n < Word
    BY <2>1 DEF InputsInv
  <2>3. ASSUME NEW from \in 0 .. Len(cert)
        PROVE  LET avail == Len(cert) - from
                   e     == nova_der_tlv(cert, from, avail)
               IN  e.reach <= avail /\ (e.ok => e.hdr + e.len = e.end /\ e.end <= avail)
    <3>1. PICK avail : avail = Len(cert) - from
      OBVIOUS
    <3>1a. avail \in Nat /\ avail < Word
      BY <2>1, <2>2, <3>1, BaseFacts
    <3>2. from \in Nat
      BY <2>1
    <3>3. Within(nova_der_tlv(cert, from, avail), avail)
      BY <2>2, <3>1a, <3>2, ElementStaysInside
    <3> QED
      BY <3>1, <3>3 DEF Within
  <2>4. nova_spki_der(cert).ok => Inside(cert, nova_spki_der(cert))
    BY <2>1, <2>2, KeyStaysInside
  <2> QED
    BY <2>3, <2>4 DEF StaysInside, Inside
<1> QED
  BY <1>1, InputsInvariant, PTL

\* The key of an undamaged certificate is found in it.
THEOREM FindsTheMadeKey == Spec => []FindsTheKey
<1>1. InputsInv => FindsTheKey
  <2> SUFFICES ASSUME InputsInv, key # <<>>
               PROVE  /\ nova_spki_der(cert).ok
                      /\ SubSeq(cert, nova_spki_der(cert).from + 1,
                                nova_spki_der(cert).from + nova_spki_der(cert).len) = key
    BY DEF FindsTheKey
  <2>1. PICK version, fields : /\ WellFormed(version, fields, key)
                               /\ cert = Certificate(version, fields, key)
    BY DEF InputsInv
  <2> QED
    BY <2>1, KeyIsFound
<1> QED
  BY <1>1, InputsInvariant, PTL

\* Every host name and every address passes the check, whatever the limits.
THEOREM RealNamesArePassed == Spec => []RealNamesPass
<1>1. InputsInv => RealNamesPass
  BY RealNameIsValid DEF InputsInv, RealNamesPass
<1> QED
  BY <1>1, InputsInvariant, PTL

\* Nothing but host names and what is made of digits, dots and colons passes.
THEOREM NamesAreNames == Spec => []NothingElsePasses
<1>1. InputsInv => NothingElsePasses
  BY ValidIsNameOrAddress DEF InputsInv, NothingElsePasses
<1> QED
  BY <1>1, InputsInvariant, PTL

-----------------------------------------------------------------------------
(* What the application is told is about the call it made, after any       *)
(* number of calls before.                                                 *)

\* Each property speaks of the last call only, so every action establishes
\* both, whatever the session holds from the calls before.
Told == EndIsCloseNotify /\ ErrorIsOfThisCall

\* Only a failed verification comes with flaws of the certificate.
LEMMA AnswerShape ==
    ASSUME NEW a \in Answers
    PROVE  /\ a.flags \subseteq Flaw
           /\ a.rc # "verify_failed" => a.flags = {}
           /\ a.rc \in { "bytes", "zero", "want_read", "want_write", "peer_close_notify",
                         "no_application_protocol", "bad_protocol_version", "conn_eof",
                         "other", "verify_failed" }
  BY DEF Answers, Plain

\* What is not a failure is told by none of the errors' names.
LEMMA SuccessDescribes ==
    ASSUME NEW a \in Answers, NEW what \in {"data", "end", "more", "nothing"},
           a.rc \in {"bytes", "zero", "want_read", "peer_close_notify"}
    PROVE  Describes(what, a)
<1>1. a.flags = {}
  BY AnswerShape
<1> QED
  BY <1>1 DEF Describes

\* The code of an answer leads back to an error that describes the answer.
LEMMA CodeDescribes ==
    ASSUME NEW a \in Answers, a.rc \notin {"bytes", "zero", "want_read"}
    PROVE  /\ _tls_classify(a) \in Int /\ _tls_classify(a) < -1
           /\ Describes(from_shim(_tls_classify(a)), a)
           /\ from_shim(_tls_classify(a)) # "end"
<1> USE DEF CERT_INVALID, CERT_EXPIRED, HOSTNAME_MISMATCH, UNSUPPORTED_VERSION, HANDSHAKE, ALPN,
            PEER_MISBEHAVED
<1> DEFINE code == _tls_classify(a)
<1>1. CASE a.rc = "verify_failed"
  <2>1. CASE "cn_mismatch" \in a.flags
    <3>1. code = HOSTNAME_MISMATCH
      BY <1>1, <2>1 DEF _tls_classify
    <3>2. from_shim(code) = "HostnameMismatch"
      BY <3>1 DEF from_shim
    <3> QED
      BY <1>1, <2>1, <3>1, <3>2 DEF Describes
  <2>2. CASE "cn_mismatch" \notin a.flags /\ a.flags \cap {"expired", "future"} # {}
    <3>1. code = CERT_EXPIRED
      BY <1>1, <2>2 DEF _tls_classify
    <3>2. from_shim(code) = "CertificateExpired"
      BY <3>1 DEF from_shim
    <3> QED
      BY <1>1, <2>2, <3>1, <3>2 DEF Describes
  <2>3. CASE "cn_mismatch" \notin a.flags /\ a.flags \cap {"expired", "future"} = {}
    <3>1. code = CERT_INVALID
      BY <1>1, <2>3 DEF _tls_classify
    <3>2. from_shim(code) = "CertificateInvalid"
      BY <3>1 DEF from_shim
    <3> QED
      BY <1>1, <2>3, <3>1, <3>2 DEF Describes
  <2> QED
    BY <2>1, <2>2, <2>3
<1>2. CASE a.rc # "verify_failed"
  <2>1. a.flags = {}
    BY <1>2, AnswerShape
  <2>2. CASE a.rc = "no_application_protocol"
    <3>1. code = ALPN
      BY <2>2 DEF _tls_classify
    <3> QED
      BY <2>1, <2>2, <3>1 DEF Describes, from_shim
  <2>3. CASE a.rc = "bad_protocol_version"
    <3>1. code = UNSUPPORTED_VERSION
      BY <2>3 DEF _tls_classify
    <3> QED
      BY <2>1, <2>3, <3>1 DEF Describes, from_shim
  <2>4. CASE a.rc = "conn_eof"
    <3>1. code = PEER_MISBEHAVED
      BY <2>4 DEF _tls_classify
    <3> QED
      BY <2>1, <2>4, <3>1 DEF Describes, from_shim
  <2>5. CASE a.rc \in {"other", "want_write", "peer_close_notify"}
    <3>1. code = HANDSHAKE
      BY <2>5 DEF _tls_classify
    <3> QED
      BY <2>1, <2>5, <3>1 DEF Describes, from_shim
  <2> QED
    BY <1>2, <2>2, <2>3, <2>4, <2>5, AnswerShape
<1> QED
  BY <1>1, <1>2

\* A failure that is classified is told as what it is.
LEMMA FailTells ==
    ASSUME NEW a \in Answers, a.rc \notin {"bytes", "zero", "want_read"},
           Fail(a, _tls_classify(a))
    PROVE  Told'
<1>1. told' = from_shim(_tls_classify(a)) /\ answer' = a
  BY DEF Fail
<1> QED
  BY <1>1, CodeDescribes DEF Told, EndIsCloseNotify, ErrorIsOfThisCall

\* INTERNAL is told where nothing else can be said.
LEMMA InternalTells ==
    ASSUME NEW a, a.flags = {}, a.rc \in {"no_memory", "want_read", "want_write"}, Fail(a, INTERNAL)
    PROVE  Told'
<1>1. from_shim(INTERNAL) = "Internal"
  BY DEF from_shim, INTERNAL, CERT_INVALID, CERT_EXPIRED, HOSTNAME_MISMATCH, UNSUPPORTED_VERSION,
         HANDSHAKE, ALPN, PEER_MISBEHAVED
<1>2. told' = "Internal" /\ answer' = a
  BY <1>1 DEF Fail
<1> QED
  BY <1>2 DEF Told, EndIsCloseNotify, ErrorIsOfThisCall, Describes

\* A success is told as what it is.
LEMMA SuccessTells ==
    ASSUME NEW a \in Answers, NEW what \in {"data", "end", "more"},
           a.rc \in {"bytes", "zero", "want_read", "peer_close_notify"},
           what = "end" => a.rc = "peer_close_notify",
           Succeed(a, what)
    PROVE  Told'
<1>1. told' = what /\ answer' = a
  BY DEF Succeed
<1> QED
  BY <1>1, SuccessDescribes DEF Told, EndIsCloseNotify, ErrorIsOfThisCall

\* What tls_read_plain returns is told as what it is.
LEMMA ReadPlainTells ==
    ASSUME NEW a \in Answers, ReadPlain(a)
    PROVE  Told'
<1> USE DEF READ_CLOSE_NOTIFY
<1> DEFINE n == tls_read_plain(a)
<1>1. CASE a.rc = "bytes"
  <2>1. n = 1
    BY <1>1 DEF tls_read_plain
  <2>2. Succeed(a, "data")
    BY <2>1 DEF ReadPlain
  <2> QED
    BY <1>1, <2>2, SuccessTells
<1>2. CASE a.rc = "peer_close_notify"
  <2>1. n = -1
    BY <1>2 DEF tls_read_plain
  <2>2. Succeed(a, "end")
    BY <2>1 DEF ReadPlain
  <2> QED
    BY <1>2, <2>2, SuccessTells
<1>3. CASE a.rc \in {"zero", "want_read"}
  <2>1. n = 0
    BY <1>3 DEF tls_read_plain
  <2>2. Succeed(a, "more")
    BY <2>1 DEF ReadPlain
  <2> QED
    BY <1>3, <2>2, SuccessTells
<1>4. CASE a.rc \notin {"bytes", "peer_close_notify", "zero", "want_read"}
  <2>1. n = _tls_classify(a)
    BY <1>4 DEF tls_read_plain
  <2>2. n \in Int /\ n < -1
    BY <1>4, <2>1, CodeDescribes
  <2>3. Fail(a, n)
    <3> HIDE DEF n
    <3>1. /\ ~(n > 0)
          /\ n # -1
          /\ n # 0
      BY <2>2
    <3> QED
      BY <3>1 DEF ReadPlain, n
  <2> QED
    BY <1>4, <2>1, <2>3, FailTells
<1> QED
  BY <1>1, <1>2, <1>3, <1>4

\* Every call leaves the truth about itself.
LEMMA NextTells ==
    ASSUME Told, [ErrNext]_errVars
    PROVE  Told'
<1>1. ASSUME NEW a \in Answers, ReadPlain(a) PROVE Told'
  BY <1>1, ReadPlainTells
<1>2. ASSUME NEW a \in Answers, WritePlain(a) PROVE Told'
  <2>1. CASE a.rc \in {"bytes", "zero"} /\ Succeed(a, "data")
    BY <2>1, SuccessTells
  <2>2. CASE a.rc \in {"want_read", "want_write"} /\ Fail(a, INTERNAL)
    <3>1. a.flags = {}
      BY <2>2, AnswerShape
    <3> QED
      BY <2>2, <3>1, InternalTells
  <2>3. CASE a.rc \notin {"bytes", "zero", "want_read", "want_write"} /\ Fail(a, _tls_classify(a))
    BY <2>3, FailTells
  <2> QED
    BY <1>2, <2>1, <2>2, <2>3 DEF WritePlain
<1>3. ASSUME NEW a \in Answers, Process(a) PROVE Told'
  <2>1. CASE a.rc \in {"zero", "want_read"} /\ Succeed(a, "more")
    BY <2>1, SuccessTells
  <2>2. CASE a.rc \notin {"bytes", "zero", "want_read", "want_write"} /\ Fail(a, _tls_classify(a))
    BY <2>2, FailTells
  <2> QED
    BY <1>3, <2>1, <2>2 DEF Process
<1>4. CASE ReadTlsStarves
  <2>1. Plain("no_memory").flags = {} /\ Plain("no_memory").rc = "no_memory"
    BY DEF Plain
  <2> QED
    BY <1>4, <2>1, InternalTells DEF ReadTlsStarves
<1>5. CASE UNCHANGED errVars
  BY <1>5 DEF Told, EndIsCloseNotify, ErrorIsOfThisCall, errVars
<1> QED
  BY <1>1, <1>2, <1>3, <1>4, <1>5 DEF ErrNext

\* After any sequence of calls: a clean end is told only for a close_notify.
THEOREM CleanEndIsCloseNotify == ErrSpec => []EndIsCloseNotify
<1>1. ErrInit => Told
  <2>1. Plain("zero") \in Answers /\ Plain("zero").rc = "zero"
    BY DEF Answers, Plain
  <2> QED
    BY <2>1, SuccessDescribes DEF ErrInit, Told, EndIsCloseNotify, ErrorIsOfThisCall
<1>2. Told /\ [ErrNext]_errVars => Told'
  BY NextTells
<1>3. Told => EndIsCloseNotify
  BY DEF Told
<1> QED
  BY <1>1, <1>2, <1>3, PTL DEF ErrSpec

\* After any sequence of calls: the error told is the last call's.
THEOREM ErrorOfThisCall == ErrSpec => []ErrorIsOfThisCall
<1>1. ErrInit => Told
  <2>1. Plain("zero") \in Answers /\ Plain("zero").rc = "zero"
    BY DEF Answers, Plain
  <2> QED
    BY <2>1, SuccessDescribes DEF ErrInit, Told, EndIsCloseNotify, ErrorIsOfThisCall
<1>2. Told /\ [ErrNext]_errVars => Told'
  BY NextTells
<1>3. Told => ErrorIsOfThisCall
  BY DEF Told
<1> QED
  BY <1>1, <1>2, <1>3, PTL DEF ErrSpec

=============================================================================
