---------------------------- MODULE String16Texts ----------------------------
(***************************************************************************)
(* What the users of a String16 rely on: a name that comes from Java or    *)
(* from UTF-8 is the same text in it, the ways between the encodings agree *)
(* with each other and with String16's own loops, and so do the order of   *)
(* two names and the search for one in the other.                          *)
(***************************************************************************)
EXTENDS String16, Unicode

CONSTANTS JavaStrings,      \* strings of Java: any units
          Texts             \* texts: any code points that are no surrogates

ASSUME TextsAssumption ==
    /\ \A t \in JavaStrings : t \in Seq(Nat) /\ \A i \in DOMAIN t : t[i] < 65536
    /\ \A t \in Texts : /\ t \in Seq(Nat)
                        /\ \A i \in DOMAIN t : t[i] <= 1114111 /\ ~Surrogate(t[i])

\* The bytes GetStringUTFChars makes of a unit: one to three, and two for a NUL.
ModifiedUtf8(u) == CASE 0 < u /\ u < 128 -> <<u>>
                     [] u = 0 \/ (128 <= u /\ u < 2048) -> <<192 + u \div 64, 128 + (u % 64)>>
                     [] OTHER -> <<224 + u \div 4096, 128 + ((u \div 64) % 64), 128 + (u % 64)>>
JavaBytes == [t \in JavaStrings |-> FlattenSeq(AsSeq(t, ModifiedUtf8))]

\* The UTF-8 of a code point.
Utf8(c) == CASE c < 128 -> <<c>>
             [] 128 <= c /\ c < 65536 -> ModifiedUtf8(c)
             [] OTHER -> <<240 + c \div 262144, 128 + ((c \div 4096) % 64),
                           128 + ((c \div 64) % 64), 128 + (c % 64)>>
TextBytes == [t \in Texts |-> FlattenSeq(AsSeq(t, Utf8))]

----------------------------------------------------------------------------
(* Properties *)

Converted  == pc = "done" /\ room = measured[Len(src)]
Result     == [i \in 1 .. count |-> dst[i - 1]]
Nul(s)     == Append(s, 0)
NulFree(s) == \A i \in DOMAIN s : s[i] # 0
Sign(n)    == CASE n < 0 -> -1 [] n = 0 -> 0 [] OTHER -> 1

\* JAVA STRINGS KEPT.  A name that comes from Java as modified UTF-8 is the same
\* units again as a String16, NULs and lone surrogates too (String16.cpp:11-38).
JavaStringsKept == \A t \in JavaStrings : src = JavaBytes[t] => Result = t

\* TEXTS KEPT.  Whichever way a text goes through UTF-8, UTF-16 and UTF-32 it comes
\* back, and every length measured is the length it has there (Unicode.cpp:87-613).
TextsKept ==
    \A t \in Texts \ {<< >>} : src = TextBytes[t] =>
       /\ Utf32ToUtf8(t) = src /\ Utf32ToUtf8Length(t) = Len(src)
       /\ ~SignedChar => Utf8Length(src) = Len(src)
       /\ Utf8ToUtf32(src) = t /\ Utf8ToUtf32Length(src) = Len(t)
       /\ Utf16ToUtf8(Result) = src

\* ROUND TRIPS.  Both of these, and whatever units a conversion left, lone surrogates
\* among them, their UTF-8 is as long as was measured for it (Unicode.cpp:340-367, 415-442).
RoundTrips ==
    /\ Converted => JavaStringsKept /\ TextsKept
    /\ pc = "done" /\ count > 0 => Utf16ToUtf8Length(Result) = Len(Utf16ToUtf8(Result))

\* ACCEPTED IS SAFE.  A string that utf8_length accepts is walked by the functions
\* that check nothing without a read beyond its end, and the two decoders, with
\* their different tables, agree on the units it makes (Unicode.h:116-131).
AcceptedIsSafe ==
    Utf8Length(src) # -1 =>
       /\ \A i \in DOMAIN Utf8Stops(src) :
             Utf32FromUtf8At(src, Utf8Stops(src)[i]).next
               = IF i < Len(Utf8Stops(src)) THEN Utf8Stops(src)[i + 1] ELSE Len(src)
       /\ pc = "measure" => cur = Len(src) \/ ~Beyond(cur)
       /\ pc = "alloc" => count = Total(AsSeq(Utf8ToUtf32(src), Units))

\* ORDER.  strzcmp16 "will have the equivalent result as strcmp16", in either byte
\* order, and both are the order of the first difference (Unicode.h:36-42).
Before(s, t) == \E n \in 0 .. Len(s) : /\ n < Len(t) /\ SubSeq(s, 1, n) = SubSeq(t, 1, n)
                                       /\ n < Len(s) => s[n + 1] < t[n + 1]
Ordered(s, t) ==
    LET order == Sign(Strcmp16(Nul(s), Nul(t)))
    IN  /\ order = -1 <=> Before(s, t)
        /\ order = 0 <=> s = t
        /\ order = Sign(Strzcmp16(s, t))
        /\ order = Sign(Strzcmp16_h_n(s, AsSeq(t, Ntohs)))
OrderAgrees ==
    Converted /\ Result \in JavaStrings /\ NulFree(Result) =>
       \A t \in JavaStrings : NulFree(t) => Ordered(Result, t)

\* SEARCH.  strstr16 finds the first place where all of the target is, or nothing
\* when there is none (Unicode.cpp:285-300).
Places(s, t) == {p \in 0 .. Len(s) - Len(t) : SubSeq(s, p + 1, p + Len(t)) = t}
Found(s, t)  == Strstr16(Nul(s), Nul(t)) = IF Places(s, t) = {} THEN -1 ELSE Min(Places(s, t))
SearchFinds ==
    Converted /\ Result \in JavaStrings /\ NulFree(Result) =>
       \A t \in JavaStrings : NulFree(t) => Found(Result, t)
=============================================================================
