------------------------------ MODULE String16 -------------------------------
(***************************************************************************)
(* How a String16 is made of a C string: allocFromUTF8 measures the bytes, *)
(* allocates as much and converts them, in two loops that read the same    *)
(* bytes and never compare notes.  The conversion is also open to a caller *)
(* who has measured but brings less room.  One action is one character.    *)
(***************************************************************************)
EXTENDS Integers, Sequences

CONSTANTS Inputs,         \* the C strings, without their NUL
          ShortRoom,      \* a caller of utf8_to_utf16 may have too little room
          AllocMayFail,   \* SharedBuffer::alloc may return no buffer
          Junk            \* what memory holds that nobody has written

Bytes == 0 .. 255
ASSUME String16Assumption ==
    /\ \A s \in Inputs : s \in Seq(Bytes)
    /\ ShortRoom \in BOOLEAN /\ AllocMayFail \in BOOLEAN
    /\ Junk \notin Int

VARIABLES src,       \* the bytes
          pc,        \* the loop it is in, "done", or "none": there is no string
          cur,       \* u8cur: how many bytes the loop has passed
          count,     \* units measured, then units written: u16measuredLen, u16cur
          room,      \* units there is room for, the terminator apart
          dst,       \* the memory of the string, terminator included
          measured   \* history: where characters begin, with the units before each

vars == <<src, pc, cur, count, room, dst, measured>>

TypeOK == /\ src \in Inputs
          /\ pc \in {"measure", "alloc", "convert", "done", "none"}
          /\ cur \in 0 .. Len(src)
          /\ count \in Nat /\ room \in Nat
          /\ dst \in [0 .. room -> Int \cup {Junk}]
          /\ DOMAIN measured \subseteq 0 .. Len(src)
          /\ \A p \in DOMAIN measured : measured[p] \in Nat

----------------------------------------------------------------------------
\* The byte after p bytes; the NUL of the C string is the last that may be read.
Byte(p) == IF p < Len(src) THEN src[p + 1] ELSE 0

\* utf8_codepoint_len: by the four leading bits, 0xE5 being the lengths less one of
\* the last four.
CodepointLen(b) == CASE b >= 240 -> 4 [] b \in 224 .. 239 -> 3 [] b \in 192 .. 223 -> 2
                     [] OTHER -> 1

\* utf8_to_utf32_codepoint of the n bytes at p.  (A plausible bug: the mark of the
\* bytes that follow is left on.)
Low6Marked(p) == Byte(p)
Low6(p) == Byte(p) % 64
Codepoint(p, n) ==
    CASE n = 1 -> Byte(p)
      [] n = 2 -> (Byte(p) % 32) * 64 + Low6(p + 1)
      [] n = 3 -> (Byte(p) % 16) * 4096 + Low6(p + 1) * 64 + Low6(p + 2)
      [] OTHER -> (Byte(p) % 8) * 262144 + Low6(p + 1) * 4096 + Low6(p + 2) * 64 + Low6(p + 3)

Skip(p)  == CodepointLen(Byte(p))
Value(p) == Codepoint(p, Skip(p))
High(c)  == 55296 + ((c - 65536) \div 1024)
Low(c)   == 56320 + ((c - 65536) % 1024)

\* The units the measuring loop counts for a code point.  (A plausible bug: off by one.)
UnitsOff(c) == IF c >= 65535 THEN 2 ELSE 1
Units(c) == IF c > 65535 THEN 2 ELSE 1

----------------------------------------------------------------------------
Init == /\ src \in Inputs
        /\ pc = IF src = << >> THEN "none" ELSE "measure"
        /\ cur = 0 /\ count = 0
        /\ room = 0 /\ dst = [i \in 0 .. 0 |-> Junk]
        /\ measured = [p \in {0} |-> 0]

\* utf8_to_utf16_length: -1 if a character ends beyond the string.  (A plausible bug:
\* the comparison is off by one and lets one byte too many be read.)
BeyondLate(p) == p + Skip(p) - 1 > Len(src)
Beyond(p) == p + Skip(p) - 1 >= Len(src)
Measure ==
    /\ pc = "measure" /\ cur < Len(src) /\ ~Beyond(cur)
    /\ cur' = cur + Skip(cur)
    /\ count' = count + Units(Value(cur))
    /\ measured' = [p \in DOMAIN measured \cup {cur'} |-> IF p = cur' THEN count' ELSE measured[p]]
    /\ UNCHANGED <<src, pc, room, dst>>
Malformed ==
    /\ pc = "measure" /\ cur # Len(src) /\ (cur < Len(src) => Beyond(cur))
    /\ pc' = "none"
    /\ UNCHANGED <<src, cur, count, room, dst, measured>>
Measured ==
    /\ pc = "measure" /\ cur = Len(src)
    /\ pc' = "alloc"
    /\ UNCHANGED <<src, cur, count, room, dst, measured>>

\* SharedBuffer::alloc of the units and the terminator.
Alloc ==
    /\ pc = "alloc"
    /\ \E r \in IF ShortRoom THEN 0 .. count ELSE {count} :
          /\ room' = r
          /\ dst' = [i \in 0 .. r |-> Junk]
    /\ pc' = "convert" /\ cur' = 0 /\ count' = 0
    /\ UNCHANGED <<src, measured>>
AllocFails ==
    /\ pc = "alloc" /\ AllocMayFail
    /\ pc' = "none"
    /\ UNCHANGED <<src, cur, count, room, dst, measured>>

\* utf8_to_utf16_no_null_terminator, while there are bytes and room.  (A plausible
\* bug: the room is not looked at.)
MoreBytes == cur < Len(src)
More == cur < Len(src) /\ count < room
ConvertOne ==
    /\ pc = "convert" /\ More /\ Value(cur) <= 65535
    /\ dst' = [dst EXCEPT ![count] = Value(cur)]
    /\ count' = count + 1 /\ cur' = cur + Skip(cur)
    /\ UNCHANGED <<src, pc, room, measured>>
ConvertPair ==
    /\ pc = "convert" /\ More /\ Value(cur) > 65535 /\ count + 1 < room
    /\ dst' = [dst EXCEPT ![count] = High(Value(cur)), ![count + 1] = Low(Value(cur))]
    /\ count' = count + 2 /\ cur' = cur + Skip(cur)
    /\ UNCHANGED <<src, pc, room, measured>>

\* utf8_to_utf16 terminates the string where the conversion ended: for want of room
\* for the second half, at the first half of a pair.  (A plausible bug: after it.)
AfterHalfKept == count + 1
AfterHalf == count
Terminate ==
    /\ pc = "convert" /\ ~More
    /\ dst' = [dst EXCEPT ![count] = 0]
    /\ pc' = "done"
    /\ UNCHANGED <<src, cur, count, room, measured>>
HalfPair ==
    /\ pc = "convert" /\ More /\ Value(cur) > 65535 /\ count + 1 >= room
    /\ dst' = [dst EXCEPT ![count] = High(Value(cur)), ![AfterHalf] = 0]
    /\ count' = AfterHalf
    /\ pc' = "done"
    /\ UNCHANGED <<src, cur, room, measured>>

Next == \/ Measure \/ Malformed \/ Measured \/ Alloc \/ AllocFails
        \/ ConvertOne \/ ConvertPair \/ Terminate \/ HalfPair

Spec == Init /\ [][Next]_vars

----------------------------------------------------------------------------
(* Properties *)

\* FITS.  Whatever the bytes, well formed or not, no loop reads beyond their end, the
\* conversion never writes beyond the room, and the string it leaves has no unit
\* that was not written (Unicode.cpp:530-611).
Fits ==
    /\ pc = "convert" /\ cur < Len(src) => cur + Skip(cur) <= Len(src)
    /\ pc \in {"convert", "done"} => /\ count <= room
                                     /\ \A i \in 0 .. count - 1 : dst[i] # Junk
    /\ pc = "done" => dst[count] = 0

\* WHOLE CHARACTERS.  The string ends after a whole character, the last that fits:
\* "it won't emit half a surrogate pair" (Unicode.h:155).  With the room that was
\* measured, where allocFromUTF8 takes it, that is after the last byte (String16.cpp:21-26).
WholeCharacters ==
    pc = "done" =>
       /\ count = measured[cur]
       /\ cur < Len(src) => measured[cur + Skip(cur)] > room
       /\ room = measured[Len(src)] => cur = Len(src) /\ count = room
=============================================================================
