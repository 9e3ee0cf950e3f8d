----------------------------- MODULE MCString16 ------------------------------
(***************************************************************************)
(* The strings on which String16 and Unicode are checked.                  *)
(***************************************************************************)
EXTENDS String16Texts

\* Java strings, NULs and lone surrogates included.
MCJavaStrings == SeqOf({0, 65, 8364, 55357, 56832}, 3)

\* Texts of code points at the limits of the lengths.
MCTexts == SeqOf({65, 127, 128, 2047, 2048, 65535, 65536, 1114111}, 2)

\* Any bytes, well formed or not: of each length and from beyond 10FFFF.
AnyBytes == SeqOf({65, 160, 208, 237, 240, 247}, 4)
Strings  == AnyBytes \cup {JavaBytes[t] : t \in JavaStrings} \cup {TextBytes[t] : t \in Texts}
=============================================================================
