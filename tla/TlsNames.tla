------------------------------ MODULE TlsNames ------------------------------
(***************************************************************************)
(* The check of a server name in native/tls_c_shim.c, which alone stands   *)
(* between the configuration and mbedtls_ssl_set_hostname.  A name is a    *)
(* sequence of characters, of which there is one of each kind the check    *)
(* tells apart: a digit, a letter that is no hexadecimal digit, the three  *)
(* punctuation marks, and anything else (a blank, a NUL).                  *)
(***************************************************************************)
EXTENDS Naturals, Sequences

CONSTANTS
    MaxLabel,  \* 63
    MaxName    \* 253

ASSUME NamesAssumption == MaxLabel \in Nat \ {0} /\ MaxName \in Nat \ {0}

HexDigit == {"1"}
Alnum == HexDigit \cup {"x"}
Char == Alnum \cup {"-", ".", ":", "other"}

Chars(s) == {s[i] : i \in 1 .. Len(s)}

\* (mutant: only the first character is looked at)
LooksLikeIp(s) == s[1] \in HexDigit \cup {".", ":"} /\ Chars(s) \cap {".", ":"} # {}
_tls_is_ip_literal(s) ==
    /\ Chars(s) \subseteq HexDigit \cup {".", ":"}
    /\ Chars(s) \cap {".", ":"} # {}

\* (mutant: the length limit off by one)
LabelTooShort(s) ==
    /\ Len(s) \in 1 .. MaxLabel - 1
    /\ Chars(s) \subseteq Alnum \cup {"-"}
    /\ s[1] # "-" /\ s[Len(s)] # "-"
_tls_label_ok(s) ==
    /\ Len(s) \in 1 .. MaxLabel
    /\ Chars(s) \subseteq Alnum \cup {"-"}
    /\ s[1] # "-" /\ s[Len(s)] # "-"

\* The loop over labels: from behind a dot, or the start, to the next dot, or
\* the end.
Cuts(s) == {0, Len(s) + 1} \cup {i \in 1 .. Len(s) : s[i] = "."}
Labels(s) ==
    { SubSeq(s, c[1] + 1, c[2] - 1) : c \in
        {d \in Cuts(s) \X Cuts(s) : d[1] < d[2] /\ ~\E i \in Cuts(s) : d[1] < i /\ i < d[2]} }

_tls_valid_sni(s) ==
    /\ Len(s) \in 1 .. MaxName
    /\ _tls_is_ip_literal(s) \/ \A l \in Labels(s) : _tls_label_ok(l)

=============================================================================
