---------------------------- MODULE MCTlsHelpers ----------------------------
(***************************************************************************)
(* TLC's inputs for the modules without a session: every name that can be  *)
(* typed, certificates and damaged certificates, and every sequence of     *)
(* answers of mbedTLS.                                                     *)
(***************************************************************************)
EXTENDS TlsNames, TlsDer, TlsErrors, FiniteSets

VARIABLES
    job,   \* which module is at work
    name,  \* a server name
    cert,  \* a certificate
    key    \* what was put into it as SubjectPublicKeyInfo; nothing if damaged

vars == <<job, name, cert, key, errVars>>

\* DER with a length in n bytes more than the short form.
Encode(tag, n, content) ==
    LET len == Len(content)
    IN  ( CASE n = 0 -> <<tag, len>>
            [] n = 1 -> <<tag, LongBit + 1, len>>
            [] n = 2 -> <<tag, LongBit + 2, len \div Base, len % Base>> ) \o content

IntegerTag == 2
Contents == {<<>>, <<SequenceTag, 0>>}
Fields == {Encode(t, n, c) : t \in {IntegerTag, SequenceTag}, n \in 0 .. 2, c \in Contents}
Versions == {<<>>} \cup {Encode(VersionTag, n, <<IntegerTag, 1, 2>>) : n \in 0 .. 1}
Keys == {Encode(SequenceTag, n, <<1, 7>>) : n \in 0 .. 2}

Certificate(version, fields, spki) ==
    LET tbs == version \o fields[1] \o fields[2] \o fields[3] \o fields[4] \o fields[5] \o spki
    IN  Encode(SequenceTag, 2, Encode(SequenceTag, 2, tbs) \o Encode(SequenceTag, 0, <<>>))

\* The values above are bytes and lengths, and the tags are told apart.
ASSUME InputsAssumption ==
    /\ Base >= 8 /\ MaxLenBytes >= 2 /\ Word >= 64
    /\ VersionTag \notin {IntegerTag, SequenceTag}

Init ==
    /\ job \in {"name", "der", "errors"}
    /\ name = <<>>
    /\ ErrInit
    /\ IF job = "der"
       THEN \E version \in Versions, odd \in Fields, i \in 1 .. 5 :
              /\ key \in Keys
              /\ cert = Certificate(version, [[k \in 1 .. 5 |-> <<IntegerTag, 0>>] EXCEPT ![i] = odd], key)
       ELSE cert = <<>> /\ key = <<>>

\* One more character; behind a wrong one nothing matters any more.
TypeCharacter ==
    /\ job = "name" /\ Len(name) <= MaxName
    /\ "other" \notin Chars(name)
    /\ \E c \in Char : name' = Append(name, c)
    /\ UNCHANGED <<job, cert, key, errVars>>

Corrupt ==
    /\ job = "der" /\ key # <<>>
    /\ \E i \in 1 .. Len(cert), b \in Byte : b # cert[i] /\ cert' = [cert EXCEPT ![i] = b]
    /\ key' = <<>>
    /\ UNCHANGED <<job, name, errVars>>

Truncate ==
    /\ job = "der" /\ key # <<>>
    /\ \E n \in 0 .. Len(cert) - 1 : cert' = SubSeq(cert, 1, n)
    /\ key' = <<>>
    /\ UNCHANGED <<job, name, errVars>>

Answered == job = "errors" /\ ErrNext /\ UNCHANGED <<job, name, cert, key>>

Next == TypeCharacter \/ Corrupt \/ Truncate \/ Answered

Spec == Init /\ [][Next]_vars

-----------------------------------------------------------------------------
(* What a server name is, said of the characters and their neighbours.     *)

\* Dots and hyphens stand between letters and digits, hyphens also beside
\* hyphens, and there is a dot in any MaxLabel + 1 characters.
HostName(s) ==
    /\ Len(s) \in 1 .. MaxName
    /\ Chars(s) \subseteq Alnum \cup {"-", "."}
    /\ \A i \in 1 .. Len(s) : s[i] \notin Alnum =>
          /\ i \in 2 .. Len(s) - 1
          /\ s[i] = "." => s[i - 1] \in Alnum /\ s[i + 1] \in Alnum
    /\ \A i \in 1 .. Len(s) - MaxLabel : \E j \in i .. i + MaxLabel : s[j] = "."

Places(s, c) == {i \in 1 .. Len(s) : s[i] = c}

\* Digits in four groups.
IPv4(s) ==
    /\ Len(s) <= MaxName
    /\ Chars(s) \subseteq HexDigit \cup {"."}
    /\ Cardinality(Places(s, ".")) = 3
    /\ s[1] # "." /\ s[Len(s)] # "."
    /\ \A i \in 1 .. Len(s) - 1 : s[i] # "." \/ s[i + 1] # "."

\* Eight groups of up to four digits, or one empty place for those left out.
Double(s) == {i \in 1 .. Len(s) - 1 : s[i] = ":" /\ s[i + 1] = ":"}
IPv6(s) ==
    /\ Len(s) <= MaxName
    /\ Chars(s) \subseteq HexDigit \cup {":"}
    /\ \/ Cardinality(Places(s, ":")) = 7 /\ Double(s) = {}
       \/ Cardinality(Places(s, ":")) <= 7 /\ \E i \in Double(s) : Double(s) = {i}
    /\ s[1] = ":" => s[2] = ":"
    /\ s[Len(s)] = ":" => s[Len(s) - 1] = ":"
    /\ \A i \in 1 .. Len(s) - 4 : \E j \in i .. i + 4 : s[j] = ":"

-----------------------------------------------------------------------------

\* tls_client_new refuses no name that can be resolved, and no address.
RealNamesPass == job = "name" /\ (HostName(name) \/ IPv4(name) \/ IPv6(name)) => _tls_valid_sni(name)

\* Beside host names the check lets through only digits, dots and colons: no
\* blank, NUL or hyphen at an edge ever reaches mbedtls_ssl_set_hostname.
NothingElsePasses ==
    job = "name" /\ _tls_valid_sni(name) =>
        \/ HostName(name)
        \/ /\ Len(name) \in 1 .. MaxName
           /\ Chars(name) \subseteq HexDigit \cup {".", ":"}
           /\ Chars(name) \cap {".", ":"} # {}

\* However a certificate is damaged, the walk reads no byte behind its end,
\* every element ends inside what is there, and so does the key it finds.
StaysInside ==
    /\ \A from \in 0 .. Len(cert) :
          LET avail == Len(cert) - from
              e     == nova_der_tlv(cert, from, avail)
          IN  e.reach <= avail /\ (e.ok => e.hdr + e.len = e.end /\ e.end <= avail)
    /\ LET k == nova_spki_der(cert) IN k.ok => k.from + k.len <= Len(cert)

\* Of a certificate as it was made, with or without the version and with
\* lengths in any form, the walk finds exactly the bytes of the key: the pin
\* is of the key, and of nothing before or behind it.
FindsTheKey ==
    key # <<>> => LET k == nova_spki_der(cert)
                  IN  k.ok /\ SubSeq(cert, k.from + 1, k.from + k.len) = key

=============================================================================
