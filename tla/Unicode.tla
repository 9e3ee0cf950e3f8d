------------------------------- MODULE Unicode -------------------------------
(***************************************************************************)
(* The string functions of Unicode.cpp beside those of String16: UTF-32,   *)
(* UTF-16 and UTF-8 into each other, and comparison and search of UTF-16.  *)
(* A string is the sequence of its units; where the code looks for a NUL   *)
(* the sequence holds it.  Positions count from 0 as in the code.          *)
(***************************************************************************)
EXTENDS Integers, SequencesExt

CONSTANT SignedChar     \* a char has a sign: so on x86, not on ARM
ASSUME UnicodeAssumption == SignedChar \in BOOLEAN

Total(s)        == FoldLeft(+, 0, s)
AsSeq(s, Op(_)) == [i \in DOMAIN s |-> Op(s[i])]

\* The positions at which a walk over n units stops, each skip[p] after the last.
Walk(n, skip) ==
    LET stops[p \in 0 .. n + 8] == IF p >= n THEN << >> ELSE <<p>> \o stops[p + skip[p]]
    IN  stops[0]

----------------------------------------------------------------------------
(* UTF-32 *)

Surrogate(c) == 55296 <= c /\ c <= 57343

\* utf32_codepoint_utf8_length: 0 for a surrogate and for what is no code point.
\* (A plausible bug: the bound of two bytes is one too large.)
CodepointUtf8LengthOff(c) == CASE c < 128 -> 1
                               [] 128 <= c /\ c <= 2048 -> 2
                               [] 2048 < c /\ c < 65536 -> IF Surrogate(c) THEN 0 ELSE 3
                               [] 65536 <= c /\ c <= 1114111 -> 4
                               [] OTHER -> 0
CodepointUtf8Length(c) == CASE c < 128 -> 1
                            [] 128 <= c /\ c < 2048 -> 2
                            [] 2048 <= c /\ c < 65536 -> IF Surrogate(c) THEN 0 ELSE 3
                            [] 65536 <= c /\ c <= 1114111 -> 4
                            [] OTHER -> 0

\* Shifts of six bits; utf32_codepoint_to_utf8: six bits a byte from the last to the
\* first, which gets the mark of the length.
Shift         == <<1, 64, 4096, 262144, 16777216, 1073741824>>
FirstByteMark == <<0, 192, 224, 240>>
CodepointToUtf8(c, bytes) ==
    [i \in 1 .. bytes |->
       IF i = 1 THEN (c \div Shift[bytes]) + FirstByteMark[bytes]
                ELSE 128 + ((c \div Shift[bytes - i + 1]) % 64)]
ToUtf8(c) == CodepointToUtf8(c, CodepointUtf8Length(c))

Utf32ToUtf8(s)       == FlattenSeq(AsSeq(s, ToUtf8))
Utf32ToUtf8Length(s) == IF s = << >> THEN -1 ELSE Total(AsSeq(s, CodepointUtf8Length))

\* utf32_at_internal: as many bytes as the first has leading ones, one if it has none;
\* the bits after them and six of each byte that follows, with the NUL at the end.
\* (FE and FF would shift the first bits out of a word: they are not asked for.)
LeadingOnes(b) == CASE b < 128 -> 0 [] b \in 128 .. 191 -> 1 [] b \in 192 .. 223 -> 2
                    [] b \in 224 .. 239 -> 3 [] b \in 240 .. 247 -> 4 [] b \in 248 .. 251 -> 5
                    [] b \in 252 .. 253 -> 6 [] b = 254 -> 7 [] OTHER -> 8
NumRead(b)     == IF LeadingOnes(b) = 0 THEN 1 ELSE LeadingOnes(b)
FirstBits(b)   == IF b < 128 THEN b ELSE b % <<64, 32, 16, 8, 4, 2, 1>>[NumRead(b)]
ByteOf(s, p)   == IF p < Len(s) THEN s[p + 1] ELSE 0
Utf32At(s, p)  ==
    LET n == NumRead(s[p + 1])
    IN  Total([k \in 1 .. n |-> IF k = 1 THEN FirstBits(s[p + 1]) * Shift[n]
                                         ELSE (ByteOf(s, p + k - 1) % 64) * Shift[n - k + 1]])

\* utf32_from_utf8_at: the code point at a position, and the next position.
Utf32FromUtf8At(s, p) ==
    IF p >= Len(s) THEN [value |-> -1, next |-> p]
                   ELSE [value |-> Utf32At(s, p), next |-> p + NumRead(s[p + 1])]

Utf8Stops(s)         == Walk(Len(s), [p \in 0 .. Len(s) - 1 |-> NumRead(s[p + 1])])
Utf8ToUtf32Length(s) == Len(Utf8Stops(s))
Utf8ToUtf32(s)       == AsSeq(Utf8Stops(s), LAMBDA p : Utf32At(s, p))

\* utf8_length: -1 unless every character begins with 0, 110, 1110 or 11110, has its
\* bytes 10 and is no more than 10FFFF.  With a sign, the bits of the first byte
\* come with ones before them, and the code point is always more.  (A plausible bug:
\* the bytes that follow are not looked at.)
AcceptsUnfollowed(s, p) ==
    LET n == NumRead(s[p + 1])
    IN  s[p + 1] < 128 \/ (s[p + 1] >= 192 /\ n < 5 /\ Utf32At(s, p) <= 1114111)
Accepts(s, p) ==
    LET n == NumRead(s[p + 1])
    IN  \/ s[p + 1] < 128
        \/ /\ s[p + 1] >= 192 /\ n < 5 /\ p + n <= Len(s)
           /\ \A k \in p + 2 .. p + n : s[k] \div 64 = 2
           /\ ~SignedChar /\ Utf32At(s, p) <= 1114111
Utf8Length(s) == IF \A i \in DOMAIN Utf8Stops(s) : Accepts(s, Utf8Stops(s)[i])
                   THEN Total(AsSeq(Utf8Stops(s), LAMBDA p : NumRead(s[p + 1]))) ELSE -1

----------------------------------------------------------------------------
(* UTF-16 *)

\* A high surrogate with a low one after it; any other unit stands for itself.
PairAt(s, p)    == s[p + 1] \div 1024 = 54 /\ p + 1 < Len(s) /\ s[p + 2] \div 1024 = 55
Utf16Stops(s)   == Walk(Len(s), [p \in 0 .. Len(s) - 1 |-> IF PairAt(s, p) THEN 2 ELSE 1])
Utf32Of(s, p)   == IF PairAt(s, p) THEN (s[p + 1] - 55296) * 1024 + (s[p + 2] - 56320) + 65536
                                   ELSE s[p + 1]
Utf16ToUtf8(s)  == Utf32ToUtf8(AsSeq(Utf16Stops(s), LAMBDA p : Utf32Of(s, p)))

\* (A plausible bug: every surrogate, paired or not, counts for three bytes.)
LengthAtApart(s, p) == IF PairAt(s, p) THEN 6 ELSE CodepointUtf8Length(s[p + 1])
LengthAt(s, p) == IF PairAt(s, p) THEN 4 ELSE CodepointUtf8Length(s[p + 1])
Utf16ToUtf8Length(s) ==
    IF s = << >> THEN -1 ELSE Total(AsSeq(Utf16Stops(s), LAMBDA p : LengthAt(s, p)))

\* strlen16, strnlen16, strlen32, strnlen32: units before the NUL, n at the most.
Strnlen(s, n) == CHOOSE k \in 0 .. n : /\ k = n \/ s[k + 1] = 0
                                       /\ \A i \in 1 .. k : s[i] # 0
Strlen(s)     == CHOOSE k \in 0 .. Len(s) - 1 : Strnlen(s, k + 1) = k

\* strncmp16: up to the first difference or NUL of n units.  strcmp16 has no n.
Strncmp16(s, t, n) ==
    LET stop == {i \in DOMAIN s \cap DOMAIN t : i <= n /\ (s[i] # t[i] \/ s[i] = 0)}
    IN  IF stop = {} THEN 0 ELSE s[Min(stop)] - t[Min(stop)]
Strcmp16(s, t) == Strncmp16(s, t, Len(s))

\* strzcmp16 of strings without their NUL: the first
\* difference, or the first unit that one has more.  strzcmp16_h_n is the same for
\* a second string in network order.  (A plausible bug: a prefix is taken for equal.)
StrzcmpPrefix(s, t) ==
    LET differ == {i \in DOMAIN s \cap DOMAIN t : s[i] # t[i]}
    IN  IF differ # {} THEN s[Min(differ)] - t[Min(differ)] ELSE 0
Strzcmp16(s, t) ==
    LET differ == {i \in DOMAIN s \cap DOMAIN t : s[i] # t[i]}
    IN  IF differ # {} THEN s[Min(differ)] - t[Min(differ)]
        ELSE IF Len(s) < Len(t) THEN 0 - t[Len(s) + 1]
        ELSE IF Len(s) > Len(t) THEN s[Len(t) + 1]
        ELSE 0
Ntohs(u)            == (u % 256) * 256 + u \div 256
Strzcmp16_h_n(s, t) == Strzcmp16(s, AsSeq(t, Ntohs))

\* strstr16: the first unit of the target, then the rest of it after every place
\* where that is found; -1 where the code returns NULL.  (A plausible bug: after a
\* mismatch the search goes on behind all that was compared.)
After(s, k) == SubSeq(s, k + 1, Len(s))
FoundAtFirst(s, t) ==
    LET first == {p \in 0 .. Strlen(s) - 1 : s[p + 1] = t[1]}
    IN  {p \in first : /\ p = Min(first)
                       /\ Strncmp16(After(s, p + 1), After(t, 1), Strlen(t) - 1) = 0}
FoundAt(s, t) == {p \in 0 .. Strlen(s) - 1 :
                    /\ s[p + 1] = t[1]
                    /\ Strncmp16(After(s, p + 1), After(t, 1), Strlen(t) - 1) = 0}
Strstr16(s, t) == IF t[1] = 0 THEN 0 ELSE IF FoundAt(s, t) = {} THEN -1 ELSE Min(FoundAt(s, t))
=============================================================================
