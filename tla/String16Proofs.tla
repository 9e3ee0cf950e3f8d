---------------------------- MODULE String16Proofs ----------------------------
(***************************************************************************)
(* The two loops agree.  The measuring leaves a chain of character         *)
(* beginnings, each with the units before it, and the conversion walks the *)
(* same chain.                                                             *)
(***************************************************************************)
EXTENDS String16Texts, UnicodeProofs

\* Where the chain ends: where the measuring is, afterwards at the last byte.
End == IF pc = "measure" THEN cur ELSE Len(src)

Chain ==
    /\ 0 \in DOMAIN measured /\ measured[0] = 0
    /\ End \in DOMAIN measured
    /\ \A p \in DOMAIN measured : p <= End /\ measured[p] <= measured[End]
    /\ \A p \in DOMAIN measured : p # End =>
          /\ p + Skip(p) \in DOMAIN measured
          /\ measured[p + Skip(p)] = measured[p] + Units(Value(p))
    /\ \A p, q \in DOMAIN measured : p < q => p + Skip(p) <= q

\* Both loops stand at a character of the chain, with the units before it.
OnChain == cur \in DOMAIN measured /\ count = measured[cur]

Written == count <= room /\ \A i \in 0 .. count - 1 : dst[i] \in Nat /\ dst[i] < 65536

\* What the conversion has passed is written where it was measured.
InPlace(p) == IF Value(p) <= 65535 THEN dst[measured[p]] = Value(p)
              ELSE dst[measured[p]] = High(Value(p)) /\ dst[measured[p] + 1] = Low(Value(p))
Decoded == \A p \in DOMAIN measured : p < cur =>
              measured[p] + Units(Value(p)) <= count /\ InPlace(p)

Inv ==
    /\ TypeOK
    /\ pc # "none" => Chain /\ OnChain
    /\ pc = "alloc" => cur = Len(src)
    /\ pc \in {"convert", "done"} => Written /\ Decoded /\ room <= measured[Len(src)]
    /\ pc = "done" => WholeCharacters /\ dst[count] = 0

----------------------------------------------------------------------------
\* Bytes are bytes, a character takes one to four of them, and one or two units.
LEMMA Sizes ==
    ASSUME TypeOK
    PROVE  /\ src \in Seq(Bytes) /\ Len(src) \in Nat
           /\ \A p \in Nat : Byte(p) \in Bytes /\ Skip(p) \in 1 .. 4
           /\ \A c : Units(c) \in {1, 2}
<1>1. src \in Seq(Bytes)
  BY String16Assumption DEF TypeOK
<1>2. ASSUME NEW p \in Nat PROVE Byte(p) \in Bytes
  <2>1. CASE p < Len(src)
    <3>1. p + 1 \in 1 .. Len(src)
      BY <1>1, <2>1
    <3>2. src[p + 1] \in Bytes
      BY <1>1, <3>1
    <3> QED  BY <2>1, <3>2 DEF Byte
  <2>2. CASE ~(p < Len(src))
    BY <2>2 DEF Byte, Bytes
  <2> QED  BY <2>1, <2>2
<1>3. \A p \in Nat : Skip(p) \in 1 .. 4
  BY <1>2 DEF Skip, CodepointLen, Bytes
<1>4. \A c : Units(c) \in {1, 2}
  BY SMT DEF Units
<1> QED  BY <1>1, <1>2, <1>3, <1>4

\* A code point has 21 bits at most.
LEMMA Values ==
    ASSUME TypeOK
    PROVE  \A p \in Nat : Value(p) \in Nat /\ Value(p) < 2097152
<1>1. ASSUME NEW p \in Nat PROVE Value(p) \in Nat /\ Value(p) < 2097152
  <2>1. p + 1 \in Nat /\ p + 2 \in Nat /\ p + 3 \in Nat
    OBVIOUS
  <2>2. PICK b \in Nat, x \in Nat, y \in Nat, z \in Nat :
           /\ b = Byte(p) /\ b < 256
           /\ x = Byte(p + 1) /\ y = Byte(p + 2) /\ z = Byte(p + 3)
    <3>1. \A c \in Bytes : c \in Nat /\ c < 256
      BY DEF Bytes
    <3>2. Byte(p) \in Bytes /\ Byte(p + 1) \in Bytes /\ Byte(p + 2) \in Bytes /\ Byte(p + 3) \in Bytes
      BY <2>1, Sizes
    <3> QED  BY <3>1, <3>2
  <2>3. PICK b5 \in Nat, b4 \in Nat, b3 \in Nat, x6 \in Nat, y6 \in Nat, z6 \in Nat :
           /\ b5 = b % 32 /\ b5 < 32 /\ b4 = b % 16 /\ b4 < 16 /\ b3 = b % 8 /\ b3 < 8
           /\ x6 = x % 64 /\ x6 < 64 /\ y6 = y % 64 /\ y6 < 64 /\ z6 = z % 64 /\ z6 < 64
    BY Remainders
  <2>4. Value(p) = CASE Skip(p) = 1 -> b
                     [] Skip(p) = 2 -> b5 * 64 + x6
                     [] Skip(p) = 3 -> b4 * 4096 + x6 * 64 + y6
                     [] OTHER -> b3 * 262144 + x6 * 4096 + y6 * 64 + z6
    BY <2>2, <2>3, SMT DEF Value, Codepoint, Low6
  <2>5. Skip(p) \in 1 .. 4
    BY Sizes
  <2> HIDE DEF Value
  <2> QED  BY <2>2, <2>3, <2>4, <2>5, SMT
<1> QED  BY <1>1

\* The halves of a pair are units.
LEMMA Halves ==
    ASSUME NEW c \in Nat, c > 65535, c < 2097152
    PROVE  /\ High(c) \in Nat /\ High(c) < 65536
           /\ Low(c) \in Nat /\ Low(c) < 65536
<1>1. PICK d \in Nat : d = c - 65536
  BY SMT
<1>2. PICK h \in Nat, l \in Nat : h = d \div 1024 /\ l = d % 1024 /\ h < 1984 /\ l < 1024
  BY <1>1, SMT
<1> QED  BY <1>1, <1>2, SMT DEF High, Low

\* What is read of the bytes does not change while they do not.
LEMMA SameBytes ==
    ASSUME src' = src
    PROVE  /\ \A p : Skip(p)' = Skip(p)
           /\ \A p : Value(p)' = Value(p)
BY DEF Skip, Value, Codepoint, Low6, Byte

\* A character of the chain before its end has its successor in it.
LEMMA Onward ==
    ASSUME Inv, pc \in {"convert", "done"}, cur < Len(src)
    PROVE  /\ cur + Skip(cur) \in DOMAIN measured
           /\ measured[cur + Skip(cur)] = count + Units(Value(cur))
           /\ cur + Skip(cur) \in 0 .. Len(src)
           /\ measured[cur + Skip(cur)] <= measured[Len(src)]
<1>1. cur # Len(src) /\ End = Len(src)
  <2>1. Len(src) \in Nat /\ cur \in Nat
    BY Sizes DEF Inv, TypeOK
  <2> QED  BY <2>1 DEF End
<1>2. cur \in DOMAIN measured /\ count = measured[cur]
  BY DEF Inv, OnChain
<1> QED  BY <1>1, <1>2 DEF Inv, Chain, TypeOK

----------------------------------------------------------------------------
LEMMA InitInv == Init => Inv
<1> SUFFICES ASSUME Init PROVE Inv
  OBVIOUS
<1>1. src \in Seq(Bytes) /\ Len(src) \in Nat
  BY String16Assumption DEF Init
<1>2. TypeOK
  BY <1>1 DEF Init, TypeOK
<1>3. (Chain /\ OnChain) \/ pc = "none"
  BY <1>1 DEF Init, Chain, OnChain, End
<1> QED  BY <1>2, <1>3 DEF Init, Inv

LEMMA MeasureInv == Inv /\ Measure => Inv'
<1> SUFFICES ASSUME Inv, Measure PROVE Inv'
  OBVIOUS
<1> DEFINE next == cur + Skip(cur)
           units == Units(Value(cur))
<1>0. TypeOK /\ cur \in Nat /\ count \in Nat
  BY DEF Inv, TypeOK
<1>1. /\ cur \in Nat /\ Skip(cur) \in 1 .. 4 /\ units \in {1, 2} /\ Len(src) \in Nat
      /\ count \in Nat
  <2>1. Units(Value(cur)) \in {1, 2}
    BY <1>0, Sizes
  <2>2. Skip(cur) \in 1 .. 4
    BY <1>0, Sizes
  <2>3. Len(src) \in Nat
    BY <1>0, Sizes
  <2> QED  BY <1>0, <2>1, <2>2, <2>3
<1>2. next \in 0 .. Len(src) /\ next > cur
  BY <1>1 DEF Measure, Beyond
<1>3. /\ src' = src /\ pc' = pc /\ pc = "measure" /\ cur' = next /\ count' = count + units
      /\ room' = room /\ dst' = dst
      /\ measured' = [p \in DOMAIN measured \cup {next} |-> IF p = next THEN count + units ELSE measured[p]]
  BY DEF Measure
<1>4. DOMAIN measured' = DOMAIN measured \cup {next} /\ measured'[next] = count + units
  BY <1>3
<1>5. Chain /\ OnChain /\ End = cur
  BY <1>3 DEF Inv, End
<1>6. \A p \in DOMAIN measured : p \in Nat /\ p <= cur /\ p # next /\ measured'[p] = measured[p]
                                 /\ measured[p] \in Nat /\ measured[p] <= count
  BY <1>1, <1>2, <1>3, <1>5 DEF Chain, OnChain, Inv, TypeOK
<1>7. TypeOK'
  BY <1>1, <1>2, <1>3, <1>4, <1>6 DEF Inv, TypeOK
<1>8. End' = next /\ OnChain'
  BY <1>3, <1>4 DEF End, OnChain
<1>9. Chain'
  <2>1. 0 \in DOMAIN measured' /\ measured'[0] = 0
    BY <1>4, <1>5, <1>6 DEF Chain
  <2>2. \A p \in DOMAIN measured' : p <= next /\ measured'[p] <= measured'[next]
    BY <1>1, <1>2, <1>4, <1>6
  <2>3. ASSUME NEW p \in DOMAIN measured', p # next
        PROVE  /\ p + Skip(p) \in DOMAIN measured'
               /\ measured'[p + Skip(p)] = measured'[p] + Units(Value(p))
    <3>1. p \in DOMAIN measured
      BY <1>4, <2>3
    <3>2. CASE p = cur
      BY <1>4, <1>5, <1>6, <3>1, <3>2 DEF OnChain
    <3>3. CASE p # cur
      BY <1>4, <1>5, <1>6, <3>1, <3>3 DEF Chain
    <3> QED  BY <3>2, <3>3
  <2>4. \A p : Skip(p)' = Skip(p) /\ Value(p)' = Value(p)
    BY <1>3, SameBytes
  <2>5. ASSUME NEW p \in DOMAIN measured', NEW q \in DOMAIN measured', p < q
        PROVE  p + Skip(p) <= q
    <3>1. p \in DOMAIN measured
      BY <1>1, <1>2, <1>4, <1>6, <2>5
    <3>2. CASE q # next
      BY <1>4, <1>5, <2>5, <3>1, <3>2 DEF Chain
    <3>3. CASE q = next /\ p = cur
      BY <3>3, <1>1
    <3>4. CASE q = next /\ p # cur
      <4>1. p < cur /\ cur \in DOMAIN measured /\ p \in Nat
        BY <1>1, <1>5, <1>6, <3>1, <3>4 DEF OnChain
      <4>2. p + Skip(p) <= cur
        BY <1>5, <3>1, <4>1 DEF Chain
      <4>3. Skip(p) \in 1 .. 4
        BY <1>0, <4>1, Sizes
      <4> QED  BY <1>1, <1>2, <3>4, <4>1, <4>2, <4>3
    <3> QED  BY <3>2, <3>3, <3>4
  <2> QED  BY <1>4, <1>8, <2>1, <2>2, <2>3, <2>4, <2>5 DEF Chain
<1> QED  BY <1>3, <1>7, <1>8, <1>9 DEF Inv

\* The steps that leave the chain as it is, and have measured it all.
LEMMA ChainKept ==
    ASSUME Inv, pc # "none", End' = End, src' = src, measured' = measured
    PROVE  Chain'
<1>1. \A p : Skip(p)' = Skip(p) /\ Value(p)' = Value(p)
  BY SameBytes
<1> QED  BY <1>1 DEF Inv, Chain

LEMMA OtherStepsInv ==
    Inv /\ (Malformed \/ Measured \/ Alloc \/ AllocFails) => Inv'
<1> SUFFICES ASSUME Inv, Malformed \/ Measured \/ Alloc \/ AllocFails PROVE Inv'
  OBVIOUS
<1>0. TypeOK /\ Len(src) \in Nat /\ cur \in Nat /\ count \in Nat
  <2>1. TypeOK
    BY DEF Inv
  <2>2. Len(src) \in Nat
    BY <2>1, Sizes
  <2> QED  BY <2>1, <2>2 DEF TypeOK
<1>1. CASE Malformed
  BY <1>0, <1>1 DEF Malformed, Inv, TypeOK
<1>2. CASE AllocFails
  BY <1>0, <1>2 DEF AllocFails, Inv, TypeOK
<1>3. CASE Measured
  <2>1. TypeOK' /\ End' = End /\ OnChain'
    BY <1>0, <1>3 DEF Measured, Inv, TypeOK, End, OnChain
  <2>2. Chain'
    BY <1>3, <2>1, ChainKept DEF Measured
  <2> QED  BY <1>3, <2>1, <2>2 DEF Measured, Inv
<1>4. CASE Alloc
  <2>1. PICK r \in IF ShortRoom THEN 0 .. count ELSE {count} :
           room' = r /\ dst' = [i \in 0 .. r |-> Junk]
    BY <1>4 DEF Alloc
  <2>2. r \in 0 .. count /\ count = measured[Len(src)]
    BY <1>0, <1>4, <2>1 DEF Alloc, Inv, OnChain
  <2>3. /\ pc = "alloc" /\ pc' = "convert" /\ cur' = 0 /\ count' = 0
        /\ src' = src /\ measured' = measured
    BY <1>4 DEF Alloc
  <2>4. TypeOK'
    BY <1>0, <2>1, <2>2, <2>3 DEF TypeOK
  <2>5. End' = End /\ OnChain'
    BY <2>3 DEF End, OnChain, Inv, Chain
  <2>6. Chain'
    BY <2>3, <2>5, ChainKept
  <2>7. Written'
    BY <1>0, <2>1, <2>2, <2>3, SMT DEF Written
  <2>8. Decoded'
    <3>1. \A p \in DOMAIN measured : ~(p < 0)
      BY <1>0 DEF TypeOK
    <3> QED  BY <2>3, <3>1 DEF Decoded
  <2> QED  BY <1>0, <2>1, <2>2, <2>3, <2>4, <2>5, <2>6, <2>7, <2>8 DEF Inv
<1> QED  BY <1>1, <1>2, <1>3, <1>4

LEMMA ConvertInv == Inv /\ (ConvertOne \/ ConvertPair) => Inv'
<1> SUFFICES ASSUME Inv, ConvertOne \/ ConvertPair PROVE Inv'
  OBVIOUS
<1> DEFINE v == Value(cur)
           next == cur + Skip(cur)
<1>1. /\ pc = "convert" /\ cur < Len(src) /\ count < room
      /\ src' = src /\ pc' = pc /\ room' = room /\ measured' = measured
      /\ cur' = next
  BY DEF ConvertOne, ConvertPair, More
<1>2. /\ TypeOK /\ Written /\ Decoded /\ Chain /\ OnChain /\ room <= measured[Len(src)]
  BY <1>1 DEF Inv
<1>3. /\ Len(src) \in Nat /\ cur \in Nat /\ count \in Nat /\ room \in Nat
      /\ v \in Nat /\ v < 2097152 /\ Skip(cur) \in 1 .. 4
      /\ dst \in [0 .. room -> Int \cup {Junk}]
  <2>1. cur \in Nat /\ count \in Nat /\ room \in Nat /\ dst \in [0 .. room -> Int \cup {Junk}]
    BY <1>2 DEF TypeOK
  <2>2. Len(src) \in Nat
    BY <1>2, Sizes
  <2>3. v \in Nat /\ v < 2097152 /\ Skip(cur) \in 1 .. 4
    <3> HIDE DEF v
    <3>1. \A p \in Nat : Value(p) \in Nat /\ Value(p) < 2097152
      BY <1>2, Values, SMT
    <3>2. Skip(cur) \in 1 .. 4
      BY <1>2, <2>1, Sizes
    <3> QED  BY <2>1, <3>1, <3>2, SMT DEF v
  <2> QED  BY <2>1, <2>2, <2>3
<1>4. /\ next \in DOMAIN measured /\ measured[next] = count + Units(v)
      /\ next \in 0 .. Len(src)
      /\ cur \in DOMAIN measured /\ count = measured[cur]
  BY <1>1, <1>2, Onward DEF OnChain
<1>5. \A p \in DOMAIN measured : p \in Nat /\ (p < next => p = cur \/ p < cur)
  BY <1>2, <1>3, <1>4 DEF Chain, TypeOK
<1>6. \A p \in DOMAIN measured : p < cur =>
         /\ measured[p] \in Nat /\ Units(Value(p)) \in {1, 2}
         /\ measured[p] + Units(Value(p)) <= count /\ InPlace(p)
  BY <1>2, Sizes DEF Decoded, TypeOK
<1>7. \A p : Value(p)' = Value(p)
  BY <1>1, SameBytes
\* The units written, and that nothing before them has changed.
<1>8. /\ Units(v) \in {1, 2} /\ count' = count + Units(v) /\ count' \in Nat /\ count' <= room
      /\ dst' \in [0 .. room -> Int \cup {Junk}]
      /\ \A i \in 0 .. count - 1 : dst'[i] = dst[i]
      /\ dst'[count] \in Nat /\ dst'[count] < 65536
      /\ v <= 65535 => Units(v) = 1 /\ dst'[count] = v
      /\ v > 65535 => /\ Units(v) = 2 /\ dst'[count] = High(v) /\ dst'[count + 1] = Low(v)
                      /\ dst'[count + 1] \in Nat /\ dst'[count + 1] < 65536
  <2>1. CASE ConvertOne
    <3>1. v <= 65535 /\ count' = count + 1 /\ dst' = [dst EXCEPT ![count] = v]
      BY <2>1, SMT DEF ConvertOne
    <3>2. Units(v) = 1
      BY <1>3, <3>1, SMT DEF Units
    <3>3. count \in 0 .. room /\ count' \in Nat /\ count' <= room /\ v \in Int
      BY <1>1, <1>3, <3>1, SMT
    <3>4. /\ dst' \in [0 .. room -> Int \cup {Junk}] /\ dst'[count] = v
          /\ \A i \in 0 .. count - 1 : dst'[i] = dst[i]
      BY <1>3, <3>1, <3>3
    <3> HIDE DEF v
    <3> QED  BY <1>3, <3>1, <3>2, <3>3, <3>4, SMT
  <2>2. CASE ConvertPair
    <3>1. /\ v > 65535 /\ count' = count + 2 /\ count + 1 < room
          /\ dst' = [dst EXCEPT ![count] = High(v), ![count + 1] = Low(v)]
      BY <2>2, SMT DEF ConvertPair
    <3>2. Units(v) = 2
      BY <1>3, <3>1, SMT DEF Units
    <3>3. count \in 0 .. room /\ count + 1 \in 0 .. room /\ count' \in Nat /\ count' <= room
      BY <1>1, <1>3, <3>1, SMT
    <3>4. /\ High(v) \in Nat /\ High(v) < 65536
          /\ Low(v) \in Nat /\ Low(v) < 65536
      BY <1>3, <3>1, Halves, SMT
    <3>5. High(v) \in Int /\ Low(v) \in Int
      BY <3>4, SMT
    <3>6. /\ dst' \in [0 .. room -> Int \cup {Junk}]
          /\ dst'[count] = High(v) /\ dst'[count + 1] = Low(v)
          /\ \A i \in 0 .. count - 1 : dst'[i] = dst[i]
      <4> HIDE DEF v
      <4>1. PICK h \in Int, l \in Int : h = High(v) /\ l = Low(v)
        BY <3>5
      <4>2. dst' = [dst EXCEPT ![count] = h, ![count + 1] = l]
        BY <3>1, <4>1, SMT
      <4> QED  BY <1>3, <3>3, <4>1, <4>2, SMT
    <3> HIDE DEF v
    <3> QED  BY <1>3, <3>1, <3>2, <3>3, <3>4, <3>6, SMT
  <2> QED  BY <2>1, <2>2
<1> HIDE DEF v, next
<1>9. TypeOK'
  BY <1>1, <1>2, <1>4, <1>8 DEF TypeOK
<1>10. End' = End /\ OnChain'
  BY <1>1, <1>4, <1>8 DEF End, OnChain
<1>11. Chain'
  BY <1>1, <1>10, ChainKept
<1>12. Written'
  <2>1. ASSUME NEW i \in 0 .. count' - 1 PROVE dst'[i] \in Nat /\ dst'[i] < 65536
    <3>1. CASE i \in 0 .. count - 1
      BY <1>2, <1>8, <3>1, SMT DEF Written
    <3>2. CASE i = count
      BY <1>8, <3>2, SMT
    <3>3. CASE i = count + 1
      <4>1. Units(v) = 2
        BY <1>3, <1>8, <2>1, <3>3, SMT
      <4>2. v > 65535
        BY <1>3, <1>8, <4>1, SMT
      <4> QED  BY <1>8, <3>3, <4>2, SMT
    <3> QED  BY <1>3, <1>8, <2>1, <3>1, <3>2, <3>3, SMT
  <2> QED  BY <1>1, <1>8, <2>1, SMT DEF Written
<1>13. Decoded'
  <2>1. ASSUME NEW p \in DOMAIN measured, p < next
        PROVE  /\ measured[p] + Units(Value(p)) <= count'
               /\ InPlace(p)'
    <3>1. CASE p = cur
      <4>1. Value(p) = v /\ measured[p] = count /\ measured'[p] = count
        BY <1>1, <1>4, <3>1 DEF v
      <4>2. InPlace(p)'
        BY <1>3, <1>7, <1>8, <4>1, SMT DEF InPlace
      <4> QED  BY <1>3, <1>8, <4>1, <4>2, SMT
    <3>2. CASE p < cur
      <4>1. PICK m \in Nat, c \in Nat : m = measured[p] /\ c = Value(p)
        <5>1. p \in Nat /\ measured[p] \in Nat
          BY <1>5, <1>6, <3>2
        <5>2. Value(p) \in Nat
          BY <1>2, <5>1, Values, SMT
        <5> QED  BY <5>1, <5>2
      <4>2. m + Units(c) <= count /\ Units(c) \in {1, 2} /\ InPlace(p)
        BY <1>6, <3>2, <4>1
      <4>3. dst'[m] = dst[m] /\ (c > 65535 => dst'[m + 1] = dst[m + 1])
        <5>1. m \in 0 .. count - 1
          BY <1>3, <4>1, <4>2
        <5>2. c > 65535 => Units(c) = 2
          BY SMT DEF Units
        <5>3. c > 65535 => m + 1 \in 0 .. count - 1
          BY <1>3, <4>1, <4>2, <5>2, SMT
        <5> QED  BY <1>8, <5>1, <5>3, SMT
      <4>4. InPlace(p)'
        BY <1>1, <1>7, <4>1, <4>2, <4>3, SMT DEF InPlace
      <4> QED  BY <1>3, <1>8, <4>1, <4>2, <4>4, SMT
    <3> QED  BY <1>5, <2>1, <3>1, <3>2
  <2> QED  BY <1>1, <1>7, <2>1, SMT DEF Decoded, Units
<1> QED  BY <1>1, <1>2, <1>9, <1>10, <1>11, <1>12, <1>13 DEF Inv

LEMMA EndInv == Inv /\ (Terminate \/ HalfPair) => Inv'
<1> SUFFICES ASSUME Inv, Terminate \/ HalfPair PROVE Inv'
  OBVIOUS
<1>1. /\ pc = "convert" /\ pc' = "done" /\ count' = count
      /\ src' = src /\ room' = room /\ measured' = measured /\ cur' = cur
  BY DEF Terminate, HalfPair, AfterHalf
<1>2. /\ TypeOK /\ Len(src) \in Nat /\ cur \in Nat /\ cur <= Len(src) /\ count \in Nat
      /\ room \in Nat /\ Value(cur) \in Nat /\ Written /\ count <= room
      /\ dst \in [0 .. room -> Int \cup {Junk}] /\ measured[Len(src)] \in Nat
      /\ room <= measured[Len(src)] /\ OnChain
  <2>1. Len(src) \in DOMAIN measured
    BY <1>1 DEF Inv, Chain, End
  <2>2. TypeOK /\ OnChain /\ Written /\ count <= room /\ room <= measured[Len(src)]
    BY <1>1, SMT DEF Inv, Written
  <2>3. /\ cur \in Nat /\ cur <= Len(src) /\ count \in Nat /\ room \in Nat
        /\ dst \in [0 .. room -> Int \cup {Junk}] /\ measured[Len(src)] \in Nat
    BY <2>1, <2>2 DEF TypeOK
  <2>4. Len(src) \in Nat /\ Value(cur) \in Nat
    BY <2>2, <2>3, Sizes, Values, SMT
  <2> QED  BY <2>2, <2>3, <2>4
<1>3. /\ dst' \in [0 .. room -> Int \cup {Junk}] /\ dst'[count] = 0
      /\ \A i \in 0 .. count - 1 : dst'[i] = dst[i]
  <2>1. High(Value(cur)) \in Int
    BY <1>2, SMT DEF High
  <2>2. \/ dst' = [dst EXCEPT ![count] = 0]
        \/ dst' = [dst EXCEPT ![count] = High(Value(cur)), ![count] = 0]
    BY DEF Terminate, HalfPair, AfterHalf
  <2>3. PICK h \in Int : h = High(Value(cur))
    BY <2>1
  <2>4. \/ dst' = [dst EXCEPT ![count] = 0]
        \/ dst' = [dst EXCEPT ![count] = h, ![count] = 0]
    BY <2>2, <2>3
  <2> QED  BY <1>2, <2>3, <2>4
<1>4. TypeOK' /\ End' = End /\ OnChain' /\ Written'
  BY <1>1, <1>2, <1>3, SMT DEF TypeOK, End, OnChain, Written
<1>5. Chain'
  BY <1>1, <1>4, ChainKept
<1>8. Decoded'
  <2>1. \A p : Value(p)' = Value(p)
    BY <1>1, SameBytes
  <2>2. ASSUME NEW p \in DOMAIN measured, p < cur
        PROVE  measured[p] + Units(Value(p)) <= count /\ InPlace(p)'
    <3>1. PICK m \in Nat, c \in Nat : m = measured[p] /\ c = Value(p)
      <4>1. p \in Nat /\ measured[p] \in Nat
        BY <1>2 DEF TypeOK
      <4>2. Value(p) \in Nat
        BY <1>2, <4>1, Values, SMT
      <4> QED  BY <4>1, <4>2
    <3>2. m + Units(c) <= count /\ InPlace(p)
      BY <1>1, <2>2, <3>1 DEF Inv, Decoded
    <3>3. Units(c) \in {1, 2} /\ (c > 65535 => Units(c) = 2)
      BY SMT DEF Units
    <3>4. m \in 0 .. count - 1 /\ (c > 65535 => m + 1 \in 0 .. count - 1)
      BY <1>2, <3>1, <3>2, <3>3, SMT
    <3>5. dst'[m] = dst[m] /\ (c > 65535 => dst'[m + 1] = dst[m + 1])
      BY <1>3, <3>4, SMT
    <3>6. InPlace(p)'
      BY <1>1, <2>1, <3>1, <3>2, <3>5, SMT DEF InPlace
    <3> QED  BY <3>1, <3>2, <3>6
  <2> QED  BY <1>1, <2>1, <2>2, SMT DEF Decoded, Units
<1>6. ASSUME cur < Len(src)
      PROVE  measured[cur + Skip(cur)] > room /\ room # measured[Len(src)]
  <2>0. Units(Value(cur)) \in {1, 2}
    BY <1>2, Sizes
  <2>1. /\ measured[cur + Skip(cur)] = count + Units(Value(cur))
        /\ measured[cur + Skip(cur)] <= measured[Len(src)]
    BY <1>1, <1>6, Onward
  <2>2. count + Units(Value(cur)) > room
    <3>1. CASE Terminate
      BY <1>2, <1>6, <2>0, <3>1 DEF Terminate, More
    <3>2. CASE HalfPair
      BY <1>2, <3>2, SMT DEF HalfPair, Units
    <3> QED  BY <3>1, <3>2
  <2> QED  BY <1>2, <2>0, <2>1, <2>2
<1>7. WholeCharacters'
  <2>2. (cur + Skip(cur))' = cur + Skip(cur)
    BY <1>1 DEF Skip, Byte
  <2>3. room = measured[Len(src)] => cur = Len(src) /\ count = room
    BY <1>2, <1>6 DEF OnChain
  <2> QED  BY <1>1, <1>2, <1>6, <2>2, <2>3 DEF WholeCharacters, OnChain
<1> QED  BY <1>1, <1>2, <1>3, <1>4, <1>5, <1>7, <1>8 DEF Inv

----------------------------------------------------------------------------
LEMMA NextInv == Inv /\ [Next]_vars => Inv'
<1> SUFFICES ASSUME Inv, [Next]_vars PROVE Inv'
  OBVIOUS
<1>1. CASE UNCHANGED vars
  <2>1. \A p : Skip(p)' = Skip(p) /\ Value(p)' = Value(p)
    BY <1>1, SameBytes DEF vars
  <2>2. TypeOK'
    BY <1>1 DEF vars, Inv, TypeOK
  <2>3. End' = End /\ (OnChain => OnChain') /\ (Written => Written')
    BY <1>1, SMT DEF vars, End, OnChain, Written
  <2>4. pc # "none" => Chain'
    BY <1>1, <2>3, ChainKept DEF vars
  <2>5. WholeCharacters => WholeCharacters'
    BY <1>1 DEF vars, WholeCharacters, Skip, Byte
  <2>6. \A p : InPlace(p) => InPlace(p)'
    BY <1>1, <2>1, SMT DEF vars, InPlace
  <2>7. Decoded => Decoded'
    BY <1>1, <2>1, <2>6, SMT DEF vars, Decoded, Units
  <2> QED  BY <1>1, <2>2, <2>3, <2>4, <2>5, <2>7 DEF vars, Inv
<1> QED  BY <1>1, MeasureInv, OtherStepsInv, ConvertInv, EndInv DEF Next

LEMMA InvHolds == Spec => []Inv
BY InitInv, NextInv, PTL DEF Spec

\* The loops keep their types for any inputs (Unicode.cpp:530-611).
THEOREM TypeCorrect == Spec => []TypeOK
<1>1. Inv => TypeOK
  BY DEF Inv
<1> QED  BY <1>1, InvHolds, PTL

\* Nothing is read or written beyond its end, and nothing is left unwritten, for any
\* bytes and any room (Unicode.cpp:530-611).
THEOREM FitsHolds == Spec => []Fits
<1>1. Inv => Fits
  <2> SUFFICES ASSUME Inv PROVE Fits
    OBVIOUS
  <2>1. pc = "convert" /\ cur < Len(src) => cur + Skip(cur) <= Len(src)
    <3>1. TypeOK /\ cur \in Nat
      BY DEF Inv, TypeOK
    <3>2. Len(src) \in Nat /\ Skip(cur) \in 1 .. 4
      BY <3>1, Sizes
    <3> QED  BY <3>1, <3>2, Onward
  <2>2. pc \in {"convert", "done"} => count <= room /\ \A i \in 0 .. count - 1 : dst[i] # Junk
    BY String16Assumption, SMT DEF Inv, Written
  <2> QED  BY <2>1, <2>2 DEF Inv, Fits
<1> QED  BY <1>1, InvHolds, PTL

\* The conversion ends after a whole character, the last that fits, and in the room
\* that was measured after the last byte, for any bytes and any room
\* (String16.cpp:21-26, Unicode.h:155).
THEOREM WholeCharactersHolds == Spec => []WholeCharacters
<1>1. Inv => WholeCharacters
  BY DEF Inv, WholeCharacters
<1> QED  BY <1>1, InvHolds, PTL


----------------------------------------------------------------------------
(* The order of names, and the search for one in another *)

LEMMA OrderedAlways ==
    ASSUME NEW s \in Seq(Nat), NulFree(s),
           NEW t \in Seq(Nat), NulFree(t), \A i \in DOMAIN t : t[i] < 65536
    PROVE  Ordered(s, t)
<1>0. PICK n \in Nat, m \in Nat : n = Len(s) /\ m = Len(t)
  OBVIOUS
<1>1. s \in Seq(Nat \ {0}) /\ t \in Seq(Nat \ {0})
  <2>1. \A i \in DOMAIN s : s[i] \in Nat \ {0}
    BY DEF NulFree
  <2>2. \A i \in DOMAIN t : t[i] \in Nat \ {0}
    BY DEF NulFree
  <2> QED  BY <2>1, <2>2, Restricted
<1>2. PICK d : FirstStop(d, s, t)
  BY <1>1, StopExists
<1> DEFINE u == UnitAt(s, d)
           v == UnitAt(t, d)
<1>3. /\ d \in 1 .. n + 1 /\ d \in 1 .. m + 1 /\ u \in Nat /\ v \in Nat
      /\ u = 0 <=> d = n + 1
      /\ v = 0 <=> d = m + 1
      /\ u # v \/ (d = n + 1 /\ d = m + 1)
      /\ d <= n => u = s[d]
      /\ d <= m => v = t[d]
      /\ \A i \in 1 .. d - 1 : s[i] = t[i]
  <2>1. d \in 1 .. n + 1 /\ d \in 1 .. m + 1
    BY <1>0, <1>2 DEF FirstStop
  <2>2. /\ u \in Nat
        /\ u = 0 <=> d = n + 1
        /\ d <= n => u = s[d]
    BY <1>0, <1>1, <2>1, UnitsAre
  <2>3. /\ v \in Nat
        /\ v = 0 <=> d = m + 1
        /\ d <= m => v = t[d]
    BY <1>0, <1>1, <2>1, UnitsAre
  <2> QED  BY <1>0, <1>2, <2>1, <2>2, <2>3 DEF FirstStop
<1>4. Strcmp16(Nul(s), Nul(t)) = u - v
  BY <1>1, <1>2, StrcmpIs DEF Nul
<1>5. Strzcmp16(s, t) = u - v
  BY <1>1, <1>2, StrzcmpIs
<1>6. Strzcmp16_h_n(s, AsSeq(t, Ntohs)) = u - v
  BY <1>5, NtohsTwice DEF Strzcmp16_h_n
<1> HIDE DEF u, v
<1>7. u < v <=> Before(s, t)
  <2>1. ASSUME u < v PROVE Before(s, t)
    <3>1. PICK k \in 0 .. n : k < m /\ k + 1 = d /\ k = d - 1
      <4>1. d - 1 \in 0 .. n /\ d - 1 < m /\ (d - 1) + 1 = d
        BY <1>3, <2>1
      <4> QED  BY <4>1
    <3>2. SubSeq(s, 1, k) = SubSeq(t, 1, k)
      <4>1. /\ SubSeq(s, 1, k) = [i \in 1 .. k |-> s[i]]
            /\ SubSeq(t, 1, k) = [i \in 1 .. k |-> t[i]]
        BY <1>0, <3>1, Prefix
      <4>2. \A i \in 1 .. k : s[i] = t[i]
        BY <1>3, <3>1
      <4> QED  BY <4>1, <4>2
    <3>3. k < n => s[k + 1] < t[k + 1]
      <4>1. k < n => d <= n /\ d <= m
        BY <3>1
      <4> QED  BY <1>3, <2>1, <3>1, <4>1
    <3>4. k \in 0 .. Len(s) /\ k < Len(t) /\ (k < Len(s) => s[k + 1] < t[k + 1])
      BY <1>0, <3>1, <3>3
    <3>5. \E j \in 0 .. Len(s) : /\ j < Len(t) /\ SubSeq(s, 1, j) = SubSeq(t, 1, j)
                                 /\ j < Len(s) => s[j + 1] < t[j + 1]
      <4>1. k \in 0 .. Len(s)
        BY <3>4
      <4> WITNESS k \in 0 .. Len(s)
      <4> QED  BY <3>2, <3>4
    <3> QED  BY <3>5 DEF Before
  <2>2. ASSUME Before(s, t) PROVE u < v
    <3>1. PICK k \in 0 .. n : /\ k < m /\ SubSeq(s, 1, k) = SubSeq(t, 1, k)
                              /\ k < n => s[k + 1] < t[k + 1]
      BY <1>0, <2>2 DEF Before
    <3>2. \A i \in 1 .. k : s[i] = t[i]
      <4>1. /\ SubSeq(s, 1, k) = [i \in 1 .. k |-> s[i]]
            /\ SubSeq(t, 1, k) = [i \in 1 .. k |-> t[i]]
        BY <1>0, <3>1, Prefix
      <4>2. \A i \in 1 .. k : [j \in 1 .. k |-> s[j]][i] = [j \in 1 .. k |-> t[j]][i]
        BY <3>1, <4>1
      <4> QED  BY <4>2
    <3>3. d = k + 1
      <4>1. ~(d <= k)
        <5> SUFFICES ASSUME d <= k PROVE FALSE
          OBVIOUS
        <5>1. d \in 1 .. k /\ d <= n /\ d <= m
          BY <1>3, <3>1
        <5>2. s[d] = t[d]
          BY <3>2, <5>1
        <5> QED  BY <1>3, <5>1, <5>2
      <4>2. ~(d > k + 1)
        <5> SUFFICES ASSUME d > k + 1 PROVE FALSE
          OBVIOUS
        <5>1. k + 1 \in 1 .. d - 1 /\ k < n /\ k + 1 \in 1 .. n
          BY <1>3, <3>1
        <5>2. s[k + 1] = t[k + 1] /\ s[k + 1] \in Nat
          BY <1>0, <1>3, <5>1
        <5> QED  BY <3>1, <5>1, <5>2
      <4> QED  BY <1>3, <3>1, <4>1, <4>2
    <3>4. CASE k < n
      BY <1>3, <3>1, <3>3, <3>4
    <3>5. CASE k = n
      BY <1>3, <3>1, <3>3, <3>5
    <3> QED  BY <3>1, <3>4, <3>5
  <2> QED  BY <2>1, <2>2
<1>8. u - v = 0 <=> s = t
  <2>1. ASSUME u - v = 0 PROVE s = t
    <3>1. d = n + 1 /\ d = m + 1
      BY <1>3, <2>1
    <3>2. \A i \in 1 .. n : s[i] = t[i]
      BY <1>3, <3>1
    <3> QED  BY <1>0, <3>1, <3>2
  <2>2. ASSUME s = t PROVE u - v = 0
    BY <1>3, <2>2 DEF u, v
  <2> QED  BY <2>1, <2>2
<1>9. /\ u - v \in Int
      /\ u - v < 0 <=> u < v
  BY <1>3
<1>10. /\ Sign(u - v) = -1 <=> u - v < 0
       /\ Sign(u - v) = 0 <=> u - v = 0
  BY <1>9 DEF Sign
<1> QED  BY <1>4, <1>5, <1>6, <1>7, <1>8, <1>9, <1>10 DEF Ordered

LEMMA FoundAlways ==
    ASSUME NEW s \in Seq(Nat), NulFree(s), NEW t \in Seq(Nat), NulFree(t)
    PROVE  Found(s, t)
<1>0. PICK n \in Nat, m \in Nat : n = Len(s) /\ m = Len(t)
  OBVIOUS
<1>1. s \in Seq(Nat \ {0}) /\ t \in Seq(Nat \ {0})
  <2>1. \A i \in DOMAIN s : s[i] \in Nat \ {0}
    BY DEF NulFree
  <2>2. \A i \in DOMAIN t : t[i] \in Nat \ {0}
    BY DEF NulFree
  <2> QED  BY <2>1, <2>2, Restricted
<1>2. Places(s, t) = {p \in 0 .. n - m : \A i \in 1 .. m : s[p + i] = t[i]}
  <2>1. ASSUME NEW p \in 0 .. n - m
        PROVE  SubSeq(s, p + 1, p + m) = t <=> \A i \in 1 .. m : s[p + i] = t[i]
    <3>1. SubSeq(s, p + 1, p + m) = [i \in 1 .. m |-> s[p + i]]
      BY <1>0, Slice
    <3>2. t = [i \in 1 .. m |-> t[i]]
      BY <1>0
    <3>3. ASSUME SubSeq(s, p + 1, p + m) = t, NEW i \in 1 .. m PROVE s[p + i] = t[i]
      BY <3>1, <3>3
    <3>4. ASSUME \A i \in 1 .. m : s[p + i] = t[i] PROVE SubSeq(s, p + 1, p + m) = t
      BY <3>1, <3>2, <3>4
    <3> QED  BY <3>3, <3>4
  <2> QED  BY <1>0, <2>1 DEF Places
<1>3. CASE t = << >>
  <2>1. Nul(t)[1] = 0 /\ m = 0
    BY <1>0, <1>3 DEF Nul
  <2>2. Strstr16(Nul(s), Nul(t)) = 0
    BY <2>1 DEF Strstr16
  <2>3. Places(s, t) = 0 .. n
    BY <1>2, <2>1
  <2>4. Min(0 .. n) = 0 /\ 0 .. n # {}
    <3>1. 0 .. n \in SUBSET Nat /\ 0 \in 0 .. n /\ \A i \in 0 .. n : ~(i < 0)
      OBVIOUS
    <3> QED  BY <3>1, MinBy
  <2> QED  BY <2>2, <2>3, <2>4 DEF Found
<1>4. CASE t # << >>
  <2>1. FoundAt(Nul(s), Nul(t)) = Places(s, t)
    <3>1. FoundAt(Append(s, 0), Append(t, 0))
            = {p \in 0 .. Len(s) - Len(t) : \A i \in 1 .. Len(t) : s[p + i] = t[i]}
      BY <1>1, <1>4, FoundAtIs
    <3> QED  BY <1>0, <1>2, <3>1 DEF Nul
  <2>2. Nul(t)[1] # 0
    <3>1. m > 0
      BY <1>0, <1>4, NoneLeft
    <3>2. Nul(t)[1] = t[1] /\ 1 \in DOMAIN t
      BY <1>0, <3>1 DEF Nul
    <3> QED  BY <3>2 DEF NulFree
  <2> QED  BY <2>1, <2>2 DEF Found, Strstr16
<1> QED  BY <1>3, <1>4

\* The three comparisons agree on the order of a converted name and any other, for
\* any strings of Java without NUL (Unicode.h:36-42).
THEOREM OrderAgreesHolds == Spec => []OrderAgrees
<1>1. OrderAgrees
  <2> SUFFICES ASSUME Result \in JavaStrings, NulFree(Result),
                      NEW t \in JavaStrings, NulFree(t)
               PROVE  Ordered(Result, t)
    BY DEF OrderAgrees
  <2>1. Result \in Seq(Nat) /\ t \in Seq(Nat) /\ \A i \in DOMAIN t : t[i] < 65536
    BY TextsAssumption, SMT
  <2> HIDE DEF Result
  <2> QED  BY <2>1, OrderedAlways
<1> QED  BY <1>1, PTL

\* The search finds the first place, or nothing when there is none, for a converted
\* name and any target without NUL (Unicode.cpp:285-300).
THEOREM SearchFindsHolds == Spec => []SearchFinds
<1>1. SearchFinds
  <2> SUFFICES ASSUME Result \in JavaStrings, NulFree(Result),
                      NEW t \in JavaStrings, NulFree(t)
               PROVE  Found(Result, t)
    BY DEF SearchFinds
  <2>1. Result \in Seq(Nat) /\ t \in Seq(Nat)
    BY TextsAssumption
  <2> HIDE DEF Result
  <2> QED  BY <2>1, FoundAlways
<1> QED  BY <1>1, PTL

----------------------------------------------------------------------------
(* A text that is spelled in the bytes is decoded where it stands *)

LEMMA ModifiedIs ==
    ASSUME NEW u \in Nat, u < 65536
    PROVE  Character(ModifiedUtf8(u), u)
<1>1. CASE 0 < u /\ u < 128
  <2>1. ModifiedUtf8(u) = <<u>>
    BY <1>1, SMT DEF ModifiedUtf8
  <2> QED  BY <1>1, <2>1, One, SMT
<1>2. CASE u = 0 \/ (128 <= u /\ u < 2048)
  <2>1. ModifiedUtf8(u) = <<192 + u \div 64, 128 + (u % 64)>> /\ u < 2048
    BY <1>2, SMT DEF ModifiedUtf8
  <2> QED  BY <2>1, Two, SMT
<1>3. CASE 2048 <= u
  <2>1. ModifiedUtf8(u) = <<224 + u \div 4096, 128 + ((u \div 64) % 64), 128 + (u % 64)>>
    BY <1>3, SMT DEF ModifiedUtf8
  <2> QED  BY <2>1, Three, SMT
<1>4. (0 < u /\ u < 128) \/ u = 0 \/ (128 <= u /\ u < 2048) \/ 2048 <= u
  BY SMT
<1> QED  BY <1>1, <1>2, <1>3, <1>4, SMT

LEMMA Utf8Is ==
    ASSUME NEW c \in Nat, c <= 1114111
    PROVE  /\ Character(Utf8(c), c)
           /\ ~Surrogate(c) => ToUtf8(c) = Utf8(c)
<1> DEFINE four == <<240 + c \div 262144, 128 + ((c \div 4096) % 64),
                     128 + ((c \div 64) % 64), 128 + (c % 64)>>
           three == <<224 + c \div 4096, 128 + ((c \div 64) % 64), 128 + (c % 64)>>
           two == <<192 + c \div 64, 128 + (c % 64)>>
<1>1. /\ c < 128 => Utf8(c) = <<c>>
      /\ 128 <= c /\ c < 65536 => Utf8(c) = ModifiedUtf8(c)
      /\ 65536 <= c => Utf8(c) = four
  BY SMT DEF Utf8
<1>2. /\ 128 <= c /\ c < 2048 => ModifiedUtf8(c) = two
      /\ 2048 <= c /\ c < 65536 => ModifiedUtf8(c) = three
  BY SMT DEF ModifiedUtf8
<1>3. Character(Utf8(c), c)
  <2>1. CASE c < 128
    BY <1>1, <2>1, One, SMT
  <2>2. CASE 128 <= c /\ c < 65536
    BY <1>1, <2>2, ModifiedIs, SMT
  <2>3. CASE 65536 <= c
    <3>1. c < 2097152
      BY SMT
    <3>2. Character(four, c)
      BY <3>1, Four, SMT
    <3> HIDE DEF four
    <3> QED  BY <1>1, <2>3, <3>2, SMT
  <2>4. c < 128 \/ (128 <= c /\ c < 65536) \/ 65536 <= c
    BY SMT
  <2> QED  BY <2>1, <2>2, <2>3, <2>4, SMT
<1>4. ASSUME ~Surrogate(c) PROVE ToUtf8(c) = Utf8(c)
  <2>1. /\ c < 128 => ToUtf8(c) = <<c>>
        /\ 128 <= c /\ c < 2048 => ToUtf8(c) = two
        /\ 2048 <= c /\ c < 65536 => ToUtf8(c) = three
        /\ 65536 <= c => ToUtf8(c) = four
    BY <1>4, EncodedAs, SMT
  <2>2. \/ c < 128 \/ (128 <= c /\ c < 2048 /\ c < 65536)
        \/ (128 <= c /\ 2048 <= c /\ c < 65536) \/ 65536 <= c
    BY SMT
  <2> HIDE DEF two, three, four
  <2> QED  BY <1>1, <1>2, <2>1, <2>2, SMT
<1> QED  BY <1>3, <1>4, SMT

LEMMA CodepointLenIs ==
    ASSUME NEW b \in Nat
    PROVE  /\ b < 128 => CodepointLen(b) = 1
           /\ 192 <= b /\ b < 224 => CodepointLen(b) = 2
           /\ 224 <= b /\ b < 240 => CodepointLen(b) = 3
           /\ 240 <= b => CodepointLen(b) = 4
<1>1. /\ b \in 224 .. 239 <=> 224 <= b /\ b < 240
      /\ b \in 192 .. 223 <=> 192 <= b /\ b < 224
  OBVIOUS
<1>2. CASE b >= 240
  BY <1>2 DEF CodepointLen
<1>3. CASE 224 <= b /\ b < 240
  BY <1>1, <1>3 DEF CodepointLen
<1>4. CASE 192 <= b /\ b < 224
  BY <1>1, <1>4 DEF CodepointLen
<1>5. CASE b < 128
  BY <1>1, <1>5 DEF CodepointLen
<1> QED  BY <1>2, <1>3, <1>4, <1>5

\* What the converting loop reads at a place, by the number of bytes.
LEMMA CodepointIs ==
    ASSUME NEW p \in Nat, NEW b, b = Byte(p), NEW x, x = Byte(p + 1),
           NEW y, y = Byte(p + 2), NEW z, z = Byte(p + 3)
    PROVE  /\ Codepoint(p, 1) = b /\ Codepoint(p, 2) = Two6(b, x)
           /\ Codepoint(p, 3) = Three6(b, x, y) /\ Codepoint(p, 4) = Four6(b, x, y, z)
<1>1. Codepoint(p, 1) = b
  BY DEF Codepoint
<1>2. Codepoint(p, 2) = Two6(b, x)
  BY SMT DEF Codepoint, Low6, Two6
<1>3. Codepoint(p, 3) = Three6(b, x, y)
  BY SMT DEF Codepoint, Low6, Three6
<1>4. Codepoint(p, 4) = Four6(b, x, y, z)
  BY SMT DEF Codepoint, Low6, Four6
<1> QED  BY <1>1, <1>2, <1>3, <1>4

LEMMA Decodes ==
    ASSUME TypeOK, NEW p \in Nat, NEW c \in Nat, NEW w, Character(w, c), At(src, p, w)
    PROVE  Skip(p) = Len(w) /\ Value(p) = c
<1>0. w \in Seq(Nat) /\ 1 <= Len(w) /\ Len(w) <= 4
  BY SMT DEF Character
<1>1. PICK n \in Nat : n = Len(w) /\ 1 <= n /\ n <= 4
  BY <1>0
<1>2. \A k \in 1 .. n : Byte(p + k - 1) = w[k]
  BY <1>1 DEF At, ByteOf, Byte
<1>3. PICK b \in Nat, x \in Nat, y \in Nat, z \in Nat :
         b = Byte(p) /\ x = Byte(p + 1) /\ y = Byte(p + 2) /\ z = Byte(p + 3)
  <2>1. p + 1 \in Nat /\ p + 2 \in Nat /\ p + 3 \in Nat
    OBVIOUS
  <2>2. \A q \in Nat : Byte(q) \in Nat
    <3>1. \A q \in Nat : Byte(q) \in Bytes
      BY Sizes
    <3>2. \A d \in Bytes : d \in Nat
      BY DEF Bytes
    <3> QED  BY <3>1, <3>2
  <2> QED  BY <2>1, <2>2
<1>4. /\ w[1] = b
      /\ n >= 2 => w[2] = x
      /\ n >= 3 => w[3] = y
      /\ n >= 4 => w[4] = z
  <2>1. w[1] = b
    <3>1. 1 \in 1 .. n /\ p + 1 - 1 = p
      BY <1>1
    <3> QED  BY <1>2, <1>3, <3>1
  <2>2. ASSUME n >= 2 PROVE w[2] = x
    <3>1. 2 \in 1 .. n
      BY <1>1, <2>2
    <3>2. Byte(p + 2 - 1) = w[2]
      BY <1>2, <3>1
    <3>3. p + 2 - 1 = p + 1
      OBVIOUS
    <3> QED  BY <1>3, <3>2, <3>3
  <2>3. ASSUME n >= 3 PROVE w[3] = y
    <3>1. 3 \in 1 .. n
      BY <1>1, <2>3
    <3>2. Byte(p + 3 - 1) = w[3]
      BY <1>2, <3>1
    <3>3. p + 3 - 1 = p + 2
      OBVIOUS
    <3> QED  BY <1>3, <3>2, <3>3
  <2>4. ASSUME n >= 4 PROVE w[4] = z
    <3>1. 4 \in 1 .. n
      BY <1>1, <2>4
    <3>2. Byte(p + 4 - 1) = w[4]
      BY <1>2, <3>1
    <3>3. p + 4 - 1 = p + 3
      OBVIOUS
    <3> QED  BY <1>3, <3>2, <3>3
  <2> QED  BY <2>1, <2>2, <2>3, <2>4
<1>5. /\ n = 1 => b < 128 /\ b = c
      /\ n = 2 => 192 <= b /\ b < 224 /\ Two6(b, x) = c
      /\ n = 3 => 224 <= b /\ b < 240 /\ Three6(b, x, y) = c
      /\ n = 4 => 240 <= b /\ b < 248 /\ Four6(b, x, y, z) = c
  <2>1. \A k, d, u, v, m \in Nat :
           /\ k = Len(w) /\ d = w[1]
           /\ k >= 2 => u = w[2]
           /\ k >= 3 => v = w[3]
           /\ k >= 4 => m = w[4]
           => Named(k, d, u, v, m, c)
    BY FirstIs
  <2>2. Named(n, b, x, y, z, c)
    BY <1>1, <1>4, <2>1, Zenon
  <2> QED  BY <2>2 DEF Named
<1>6. n = 1 \/ n = 2 \/ n = 3 \/ n = 4
  <2>1. \A k \in Nat : 1 <= k /\ k <= 4 => k = 1 \/ k = 2 \/ k = 3 \/ k = 4
    OBVIOUS
  <2> QED  BY <1>1, <2>1
<1>7. Skip(p) = n
  <2>1. /\ n = 1 => CodepointLen(b) = 1
        /\ n = 2 => CodepointLen(b) = 2
        /\ n = 3 => CodepointLen(b) = 3
        /\ n = 4 => CodepointLen(b) = 4
    BY <1>5, CodepointLenIs, SMT
  <2> QED  BY <1>3, <1>6, <2>1 DEF Skip
<1>8. /\ Codepoint(p, 1) = b /\ Codepoint(p, 2) = Two6(b, x)
      /\ Codepoint(p, 3) = Three6(b, x, y) /\ Codepoint(p, 4) = Four6(b, x, y, z)
  BY <1>3, CodepointIs
<1>9. Value(p) = Codepoint(p, n)
  BY <1>7 DEF Value
<1>10. Value(p) = c
  BY <1>5, <1>6, <1>8, <1>9, SMT
<1> QED  BY <1>1, <1>7, <1>10

\* A walk over the characters that does not pass the end of the chain is on the chain.
LEMMA Walked ==
    ASSUME Inv, pc # "none", NEW n \in Nat, NEW at \in [0 .. n -> Nat], at[0] = 0,
           \A i \in 1 .. n : at[i - 1] # End /\ at[i] = at[i - 1] + Skip(at[i - 1])
    PROVE  /\ \A i \in 0 .. n : at[i] \in DOMAIN measured
           /\ \A i \in 1 .. n : measured[at[i]] = measured[at[i - 1]] + Units(Value(at[i - 1]))
<1>1. Chain
  BY DEF Inv
<1> DEFINE S == {i \in 0 .. n : at[i] \in DOMAIN measured}
<1>2. 0 \in S
  BY <1>1 DEF Chain
<1>3. \A j \in 0 .. n - 1 : j \in S => j + 1 \in S
  <2>1. ASSUME NEW j \in 0 .. n - 1, j \in S PROVE j + 1 \in S
    <3>1. j + 1 \in 1 .. n /\ (j + 1) - 1 = j
      OBVIOUS
    <3>2. at[j] # End /\ at[j + 1] = at[j] + Skip(at[j])
      BY <3>1
    <3>3. at[j] + Skip(at[j]) \in DOMAIN measured
      BY <1>1, <2>1, <3>2 DEF Chain
    <3> QED  BY <3>1, <3>2, <3>3
  <2> QED  BY <2>1
<1> HIDE DEF S
<1>4. \A i \in 0 .. n : i \in S
  BY <1>2, <1>3, Upward
<1>5. \A i \in 0 .. n : at[i] \in DOMAIN measured
  BY <1>4 DEF S
<1>6. ASSUME NEW i \in 1 .. n
      PROVE  measured[at[i]] = measured[at[i - 1]] + Units(Value(at[i - 1]))
  <2>1. i - 1 \in 0 .. n
    OBVIOUS
  <2>2. at[i - 1] \in DOMAIN measured /\ at[i - 1] # End /\ at[i] = at[i - 1] + Skip(at[i - 1])
    BY <1>5, <2>1
  <2> QED  BY <1>1, <2>2 DEF Chain
<1> QED  BY <1>5, <1>6

\* parts spell t, and at is where each begins in the bytes.
Spelled(t, parts, at) ==
    /\ at \in [0 .. Len(t) -> Nat] /\ at[0] = 0 /\ at[Len(t)] = Len(src)
    /\ \A i \in 1 .. Len(t) :
          /\ at[i] = at[i - 1] + Len(parts[i]) /\ at[i - 1] < Len(src)
          /\ Character(parts[i], t[i]) /\ At(src, at[i - 1], parts[i])
          /\ at[i - 1] + Len(parts[i]) <= Len(src)
          /\ Skip(at[i - 1]) = Len(parts[i]) /\ Value(at[i - 1]) = t[i]

LEMMA SpelledIn ==
    ASSUME TypeOK, NEW t \in Seq(Nat), NEW parts \in Seq(Seq(Nat)), Len(parts) = Len(t),
           \A i \in 1 .. Len(t) : Character(parts[i], t[i]), src = FlattenSeq(parts)
    PROVE  \E at : Spelled(t, parts, at)
<1>0. PICK n \in Nat, l \in Nat : n = Len(t) /\ n = Len(parts) /\ l = Len(src)
  <2>1. Len(src) \in Nat
    BY Sizes
  <2> QED  BY <2>1
<1>1. PICK at : Concatenation(src, at, parts)
  BY FlattenIs
<1>2. /\ Lens(parts) \in Seq(Nat) /\ Len(Lens(parts)) = n
      /\ \A i \in 1 .. n : Lens(parts)[i] = Len(parts[i]) /\ Len(parts[i]) \in Nat
  BY <1>0, LensSeq
<1>3. /\ Sums(at, Lens(parts)) /\ l = at[n]
      /\ \A i \in 1 .. n : \A k \in 1 .. Len(parts[i]) : src[at[i - 1] + k] = parts[i][k]
  BY <1>0, <1>1 DEF Concatenation
<1>4. /\ at \in [0 .. n -> Nat]
      /\ \A i, j \in 0 .. n : i <= j => at[i] <= at[j]
  BY <1>2, <1>3, SumsGrow
<1>5. /\ at[0] = 0
      /\ \A i \in 1 .. n : at[i] = at[i - 1] + Len(parts[i])
  BY <1>2, <1>3 DEF Sums
<1>6. ASSUME NEW i \in 1 .. n
      PROVE  /\ at[i] = at[i - 1] + Len(parts[i]) /\ at[i - 1] < l
             /\ Character(parts[i], t[i]) /\ At(src, at[i - 1], parts[i])
             /\ at[i - 1] + Len(parts[i]) <= l
             /\ Skip(at[i - 1]) = Len(parts[i]) /\ Value(at[i - 1]) = t[i]
  <2>1. Character(parts[i], t[i]) /\ t[i] \in Nat
    BY <1>0
  <2>2. PICK w : w = parts[i]
    OBVIOUS
  <2>3. w \in Seq(Nat) /\ 1 <= Len(w) /\ Len(w) <= 4
    BY <2>1, <2>2, SMT DEF Character
  <2>4. PICK m \in Nat, p \in Nat : m = Len(w) /\ p = at[i - 1] /\ 1 <= m
    <3>1. i - 1 \in 0 .. n
      OBVIOUS
    <3> QED  BY <1>4, <2>3, <3>1
  <2>5. at[i] = p + m /\ at[i] <= l
    <3>1. at[i] <= at[n]
      BY <1>4
    <3> QED  BY <1>3, <1>5, <2>2, <2>4, <3>1
  <2>6. p < l /\ p + m <= l
    BY <2>4, <2>5
  <2>7. At(src, p, w)
    <3>1. ASSUME NEW k \in 1 .. m PROVE ByteOf(src, p + k - 1) = w[k]
      <4>1. src[p + k] = w[k]
        BY <1>3, <2>2, <2>4
      <4>2. PICK q \in Nat : q = p + k - 1 /\ q < l /\ q + 1 = p + k
        <5>1. p + k - 1 \in Nat /\ p + k - 1 < l /\ (p + k - 1) + 1 = p + k
          BY <2>6
        <5> QED  BY <5>1
      <4>3. ByteOf(src, q) = src[q + 1]
        BY <1>0, <4>2 DEF ByteOf
      <4> QED  BY <4>1, <4>2, <4>3
    <3> QED  BY <2>4, <3>1 DEF At
  <2>8. Skip(p) = Len(w) /\ Value(p) = t[i]
    BY <2>1, <2>2, <2>7, Decodes
  <2> QED  BY <2>1, <2>2, <2>4, <2>5, <2>6, <2>7, <2>8
<1>7. Spelled(t, parts, at)
  BY <1>0, <1>3, <1>4, <1>5, <1>6 DEF Spelled
<1> QED  BY <1>7

\* Where the units of each character are in the string that was converted.
InUnits(t, pos) ==
    /\ pos \in [0 .. Len(t) -> Nat] /\ pos[0] = 0 /\ pos[Len(t)] = count
    /\ \A i \in 1 .. Len(t) :
          /\ pos[i] = pos[i - 1] + Units(t[i])
          /\ pos[i - 1] + Units(t[i]) <= count
          /\ t[i] <= 65535 => dst[pos[i - 1]] = t[i]
          /\ t[i] > 65535 => /\ dst[pos[i - 1]] = High(t[i])
                             /\ dst[pos[i - 1] + 1] = Low(t[i])

LEMMA ConvertedTo ==
    ASSUME Inv, Converted, NEW t \in Seq(Nat), NEW parts, NEW at, Spelled(t, parts, at)
    PROVE  \E pos : InUnits(t, pos)
<1>0. PICK n \in Nat : n = Len(t)
  OBVIOUS
<1>1. /\ TypeOK /\ Chain /\ OnChain /\ Decoded /\ pc = "done" /\ End = Len(src)
      /\ cur = Len(src) /\ count = measured[Len(src)]
  <2>1. pc = "done" /\ room = measured[Len(src)]
    BY DEF Converted
  <2>2. TypeOK /\ Chain /\ OnChain /\ Decoded /\ WholeCharacters
    BY <2>1 DEF Inv
  <2>3. cur = Len(src)
    BY <2>1, <2>2 DEF WholeCharacters
  <2> QED  BY <2>1, <2>2, <2>3 DEF OnChain, End
<1>2. /\ at \in [0 .. n -> Nat] /\ at[0] = 0 /\ at[n] = Len(src)
      /\ \A i \in 1 .. n : /\ at[i] = at[i - 1] + Skip(at[i - 1]) /\ at[i - 1] < Len(src)
                           /\ Value(at[i - 1]) = t[i]
  BY <1>0 DEF Spelled
<1>3. \A i \in 1 .. n : at[i - 1] # End
  <2>1. Len(src) \in Nat
    BY <1>1, Sizes
  <2>2. \A i \in 1 .. n : i - 1 \in 0 .. n
    OBVIOUS
  <2>3. \A i \in 1 .. n : at[i - 1] \in Nat /\ at[i - 1] < Len(src)
    BY <1>2, <2>2
  <2> QED  BY <1>1, <2>1, <2>3
<1>4. /\ \A i \in 0 .. n : at[i] \in DOMAIN measured
      /\ \A i \in 1 .. n : measured[at[i]] = measured[at[i - 1]] + Units(Value(at[i - 1]))
  <2>1. pc # "none"
    BY <1>1
  <2> QED  BY <1>2, <1>3, <2>1, Walked
<1> DEFINE pos == [i \in 0 .. n |-> measured[at[i]]]
<1>5. pos \in [0 .. n -> Nat]
  BY <1>1, <1>4 DEF TypeOK
<1>6. pos[0] = 0 /\ pos[n] = count
  BY <1>1, <1>2 DEF Chain
<1>7. ASSUME NEW i \in 1 .. n
      PROVE  /\ pos[i] = pos[i - 1] + Units(t[i])
             /\ pos[i - 1] + Units(t[i]) <= count
             /\ t[i] <= 65535 => dst[pos[i - 1]] = t[i]
             /\ t[i] > 65535 => /\ dst[pos[i - 1]] = High(t[i])
                                /\ dst[pos[i - 1] + 1] = Low(t[i])
  <2>1. i - 1 \in 0 .. n /\ i \in 0 .. n /\ t[i] \in Nat
    BY <1>0
  <2>2. PICK p : p = at[i - 1]
    OBVIOUS
  <2>3. p \in DOMAIN measured /\ p < cur /\ Value(p) = t[i]
    BY <1>1, <1>2, <1>4, <2>1, <2>2
  <2>4. measured[p] + Units(Value(p)) <= count /\ InPlace(p)
    BY <1>1, <2>3 DEF Decoded
  <2>5. pos[i - 1] = measured[p]
    BY <2>1, <2>2
  <2>6. pos[i] = measured[p] + Units(t[i])
    BY <1>4, <2>1, <2>2, <2>3
  <2> HIDE DEF pos
  <2>7. /\ t[i] <= 65535 => dst[pos[i - 1]] = t[i]
        /\ t[i] > 65535 => /\ dst[pos[i - 1]] = High(t[i])
                           /\ dst[pos[i - 1] + 1] = Low(t[i])
    BY <2>1, <2>3, <2>4, <2>5, SMT DEF InPlace
  <2> QED  BY <2>3, <2>4, <2>5, <2>6, <2>7, SMT
<1> HIDE DEF pos
<1>8. InUnits(t, pos)
  BY <1>0, <1>5, <1>6, <1>7, SMT DEF InUnits
<1> QED  BY <1>8

LEMMA PartsAre ==
    ASSUME NEW t \in Seq(Nat), NEW parts, parts = [i \in DOMAIN t |-> parts[i]],
           \A i \in 1 .. Len(t) : Character(parts[i], t[i])
    PROVE  parts \in Seq(Seq(Nat)) /\ Len(parts) = Len(t)
<1>1. \A i \in 1 .. Len(t) : parts[i] \in Seq(Nat)
  <2>1. \A w, c : Character(w, c) => w \in Seq(Nat)
    BY SMT DEF Character
  <2> QED  BY <2>1
<1>2. PICK n \in Nat : n = Len(t) /\ DOMAIN t = 1 .. n
  OBVIOUS
<1>3. parts \in [1 .. n -> Seq(Nat)]
  BY <1>1, <1>2
<1> QED  BY <1>2, <1>3

\* A string of Java is the same units again.
LEMMA JavaKept ==
    ASSUME Inv, Converted
    PROVE  JavaStringsKept
<1> SUFFICES ASSUME NEW t \in JavaStrings, src = JavaBytes[t] PROVE Result = t
  BY DEF JavaStringsKept
<1>1. t \in Seq(Nat) /\ \A i \in DOMAIN t : t[i] < 65536
  BY TextsAssumption, SMT
<1>2. PICK n \in Nat : n = Len(t) /\ DOMAIN t = 1 .. n
  BY <1>1
<1> DEFINE parts == AsSeq(t, ModifiedUtf8)
<1>3. parts = [i \in DOMAIN t |-> ModifiedUtf8(t[i])]
  BY DEF AsSeq
<1>4. \A i \in 1 .. n : parts[i] = ModifiedUtf8(t[i])
  BY <1>2, <1>3
<1>5. \A i \in 1 .. n : Character(parts[i], t[i])
  <2>1. ASSUME NEW i \in 1 .. n PROVE Character(ModifiedUtf8(t[i]), t[i])
    <3>1. PICK u \in Nat : u = t[i] /\ u < 65536
      BY <1>1, <1>2, SMT
    <3>2. Character(ModifiedUtf8(u), u)
      BY <3>1, ModifiedIs, SMT
    <3> QED  BY <3>1, <3>2, SMT
  <2> HIDE DEF parts
  <2> QED  BY <1>4, <2>1
<1>6. parts \in Seq(Seq(Nat)) /\ Len(parts) = Len(t)
  <2>1. parts = [i \in DOMAIN t |-> parts[i]]
    BY <1>3
  <2>2. t \in Seq(Nat)
    BY <1>1, SMT
  <2>3. \A i \in 1 .. Len(t) : Character(parts[i], t[i])
    BY <1>2, <1>5
  <2> HIDE DEF parts
  <2> QED  BY <2>1, <2>2, <2>3, PartsAre
<1>7. src = FlattenSeq(parts)
  BY DEF JavaBytes
<1> HIDE DEF parts
<1>8. PICK at : Spelled(t, parts, at)
  <2>1. TypeOK
    BY DEF Inv
  <2> QED  BY <1>1, <1>2, <1>5, <1>6, <1>7, <2>1, SpelledIn
<1>9. PICK pos : InUnits(t, pos)
  BY <1>1, <1>8, ConvertedTo
<1>10. \A i \in 1 .. n : Units(t[i]) = 1 /\ t[i] <= 65535
  <2>1. ASSUME NEW i \in 1 .. n PROVE Units(t[i]) = 1 /\ t[i] <= 65535
    <3>1. t[i] \in Nat /\ t[i] < 65536
      BY <1>1, <1>2, SMT
    <3> QED  BY <3>1, SMT DEF Units
  <2> QED  BY <2>1
<1>11. \A i \in 0 .. n : pos[i] = i
  <2> DEFINE S == {i \in 0 .. n : pos[i] = i}
  <2>1. 0 \in S
    <3>1. pos[0] = 0
      BY <1>9, SMT DEF InUnits
    <3> QED  BY <3>1
  <2>2. \A j \in 0 .. n - 1 : j \in S => j + 1 \in S
    <3>1. ASSUME NEW j \in 0 .. n - 1, pos[j] = j PROVE pos[j + 1] = j + 1
      <4>1. j + 1 \in 1 .. n /\ (j + 1) - 1 = j
        OBVIOUS
      <4>2. pos[j + 1] = pos[(j + 1) - 1] + Units(t[j + 1])
        BY <1>2, <1>9, <4>1, SMT DEF InUnits
      <4> QED  BY <1>10, <3>1, <4>1, <4>2, SMT
    <3> QED  BY <3>1
  <2> HIDE DEF S
  <2>3. \A i \in 0 .. n : i \in S
    BY <2>1, <2>2, Upward
  <2> QED  BY <2>3 DEF S
<1>12. count = n
  BY <1>2, <1>9, <1>11, SMT DEF InUnits
<1>13. \A i \in 1 .. n : dst[i - 1] = t[i]
  <2>1. ASSUME NEW i \in 1 .. n PROVE dst[i - 1] = t[i]
    <3>1. i - 1 \in 0 .. n
      OBVIOUS
    <3>2. dst[pos[i - 1]] = t[i]
      BY <1>2, <1>9, <1>10, SMT DEF InUnits
    <3> QED  BY <1>11, <3>1, <3>2, SMT
  <2> QED  BY <2>1
<1>14. t = [i \in 1 .. n |-> t[i]]
  BY <1>1, <1>2
<1> QED  BY <1>12, <1>13, <1>14 DEF Result

LEMMA BytesNat ==
    ASSUME TypeOK
    PROVE  /\ src \in Seq(Nat) /\ Len(src) \in Nat /\ DOMAIN src = 1 .. Len(src)
           /\ \A i \in 1 .. Len(src) : src[i] \in Nat /\ src[i] < 256
<1>1. src \in Seq(Bytes)
  BY Sizes
<1>2. \A b \in Bytes : b \in Nat /\ b < 256
  BY DEF Bytes
<1>3. Len(src) \in Nat /\ DOMAIN src = 1 .. Len(src)
  BY <1>1
<1>4. \A i \in 1 .. Len(src) : src[i] \in Nat /\ src[i] < 256
  BY <1>1, <1>2, <1>3
<1> QED  BY <1>1, <1>3, <1>4

\* How far the functions of UTF-32 go from each byte.
Skips == [p \in 0 .. Len(src) - 1 |-> NumRead(src[p + 1])]

LEMMA SkipsAre ==
    ASSUME TypeOK
    PROVE  Skips \in [0 .. Len(src) - 1 -> 1 .. 8] /\ Utf8Stops(src) = Walk(Len(src), Skips)
<1>1. PICK l \in Nat : l = Len(src)
  BY BytesNat
<1>2. ASSUME NEW p \in 0 .. l - 1 PROVE NumRead(src[p + 1]) \in 1 .. 8
  <2>1. p + 1 \in 1 .. l
    BY <1>1
  <2>2. src[p + 1] \in Nat
    BY <1>1, <2>1, BytesNat
  <2> QED  BY <2>2, NumReadIs
<1>3. Skips \in [0 .. Len(src) - 1 -> 1 .. 8]
  BY <1>1, <1>2 DEF Skips
<1> QED  BY <1>3 DEF Utf8Stops, Skips

Point(c) == c <= 1114111

\* The functions of UTF-32 stop at each character and read it.
LEMMA SpelledRead ==
    ASSUME TypeOK, NEW t \in Seq(Nat), NEW parts, NEW at, Spelled(t, parts, at)
    PROVE  \A i \in 1 .. Len(t) :
              /\ at[i - 1] \in 0 .. Len(src) - 1 /\ Skips[at[i - 1]] = at[i] - at[i - 1]
              /\ NumRead(src[at[i - 1] + 1]) = at[i] - at[i - 1]
              /\ Utf32At(src, at[i - 1]) = t[i]
              /\ ~SignedChar /\ Point(t[i]) => Accepts(src, at[i - 1])
<1> SUFFICES ASSUME NEW i \in 1 .. Len(t)
             PROVE  /\ at[i - 1] \in 0 .. Len(src) - 1 /\ Skips[at[i - 1]] = at[i] - at[i - 1]
                    /\ NumRead(src[at[i - 1] + 1]) = at[i] - at[i - 1]
                    /\ Utf32At(src, at[i - 1]) = t[i]
                    /\ ~SignedChar /\ Point(t[i]) => Accepts(src, at[i - 1])
  OBVIOUS
<1>1. PICK p \in Nat, q \in Nat, c \in Nat : p = at[i - 1] /\ q = at[i] /\ c = t[i]
  <2>1. i - 1 \in 0 .. Len(t) /\ i \in 0 .. Len(t) /\ t[i] \in Nat
    OBVIOUS
  <2> QED  BY <2>1 DEF Spelled
<1>2. PICK w : w = parts[i]
  OBVIOUS
<1>3. /\ q = p + Len(w) /\ Character(w, c) /\ At(src, p, w) /\ p + Len(w) <= Len(src)
  BY <1>1, <1>2 DEF Spelled
<1>4. src \in Seq(Nat) /\ Len(src) \in Nat
  BY BytesNat
<1>5. /\ p \in 0 .. Len(src) - 1
      /\ NumRead(src[p + 1]) = Len(w) /\ Utf32At(src, p) = c
      /\ ~SignedChar /\ Point(c) => Accepts(src, p)
  <2>1. /\ p \in 0 .. Len(src) - 1
        /\ NumRead(src[p + 1]) = Len(w) /\ Utf32At(src, p) = c
        /\ ~SignedChar /\ c <= 1114111 => Accepts(src, p)
    BY <1>3, <1>4, ReadAt, SMT
  <2> QED  BY <2>1, SMT DEF Point
<1>6. Len(w) \in Nat
  BY <1>3, SMT DEF Character
<1>7. Len(w) = q - p
  BY <1>3, <1>6
<1>8. Skips[p] = NumRead(src[p + 1])
  BY <1>5 DEF Skips
<1> QED  BY <1>1, <1>5, <1>7, <1>8

LEMMA StopsAre ==
    ASSUME TypeOK, NEW t \in Seq(Nat), t # << >>, NEW parts, NEW at, Spelled(t, parts, at)
    PROVE  /\ Utf8Stops(src) = [i \in 1 .. Len(t) |-> at[i - 1]]
           /\ Utf8ToUtf32(src) = t /\ Utf8ToUtf32Length(src) = Len(t)
           /\ ~SignedChar /\ (\A i \in 1 .. Len(t) : Point(t[i])) => Utf8Length(src) = Len(src)
<1>1. PICK n \in Nat, l \in Nat : n = Len(t) /\ DOMAIN t = 1 .. n /\ l = Len(src) /\ n >= 1
  <2>1. Len(t) \in Nat /\ DOMAIN t = 1 .. Len(t) /\ Len(t) # 0
    BY NoneLeft
  <2>2. Len(src) \in Nat /\ Len(t) >= 1
    BY <2>1, BytesNat
  <2> QED  BY <2>1, <2>2
<1>2. /\ at \in [0 .. n -> Nat] /\ at[0] = 0 /\ at[n] = l
  BY <1>1 DEF Spelled
<1>3. \A i \in 1 .. n :
              /\ at[i - 1] \in 0 .. l - 1 /\ Skips[at[i - 1]] = at[i] - at[i - 1]
              /\ NumRead(src[at[i - 1] + 1]) = at[i] - at[i - 1]
              /\ Utf32At(src, at[i - 1]) = t[i]
              /\ ~SignedChar /\ Point(t[i]) => Accepts(src, at[i - 1])
  <2>1. \A i \in 1 .. Len(t) :
              /\ at[i - 1] \in 0 .. Len(src) - 1 /\ Skips[at[i - 1]] = at[i] - at[i - 1]
              /\ NumRead(src[at[i - 1] + 1]) = at[i] - at[i - 1]
              /\ Utf32At(src, at[i - 1]) = t[i]
              /\ ~SignedChar /\ Point(t[i]) => Accepts(src, at[i - 1])
    BY SpelledRead
  <2> QED  BY <1>1, <2>1
<1> DEFINE w == [i \in 1 .. n |-> at[i - 1]]
<1>4. /\ w \in Seq(0 .. l - 1) /\ Len(w) = n /\ DOMAIN w = 1 .. n
      /\ \A i \in 1 .. n : w[i] = at[i - 1]
  <2>1. \A i \in 1 .. n : at[i - 1] \in 0 .. l - 1
    BY <1>3
  <2>2. w \in [1 .. n -> 0 .. l - 1]
    BY <2>1
  <2> QED  BY <2>2
<1> HIDE DEF w
<1>6. Utf8Stops(src) = w
  <2>1. Skips \in [0 .. l - 1 -> 1 .. 8] /\ Utf8Stops(src) = Walk(l, Skips)
    BY <1>1, SkipsAre
  <2>2. \A i \in 1 .. n : at[i - 1] \in 0 .. l - 1 /\ Skips[at[i - 1]] = at[i] - at[i - 1]
    BY <1>3
  <2>3. Walk(l, Skips) = [i \in 1 .. n |-> at[i - 1]]
    <3>1. n \in Nat /\ n >= 1 /\ l \in Nat
      BY <1>1
    <3>2. Skips \in [0 .. l - 1 -> 1 .. 8]
      BY <2>1
    <3> QED  BY <1>2, <2>2, <3>1, <3>2, StopsAt, ZenonT(30)
  <2> QED  BY <2>1, <2>3 DEF w
<1>7. Utf8ToUtf32(src) = t
  <2>1. Utf8ToUtf32(src) = [i \in DOMAIN w |-> Utf32At(src, w[i])]
    BY <1>6 DEF Utf8ToUtf32, AsSeq
  <2>2. \A i \in 1 .. n : Utf32At(src, w[i]) = t[i]
    BY <1>3, <1>4
  <2>3. t = [i \in 1 .. n |-> t[i]]
    BY <1>1
  <2> QED  BY <1>4, <2>1, <2>2, <2>3
<1>8. Utf8ToUtf32Length(src) = Len(t)
  BY <1>1, <1>4, <1>6 DEF Utf8ToUtf32Length
<1>9. ASSUME ~SignedChar, \A i \in 1 .. n : Point(t[i]) PROVE Utf8Length(src) = Len(src)
  <2>1. \A i \in 1 .. n : Accepts(src, w[i])
    BY <1>3, <1>4, <1>9
  <2> DEFINE reads == AsSeq(w, LAMBDA p : NumRead(src[p + 1]))
  <2>2. reads = [i \in 1 .. n |-> NumRead(src[w[i] + 1])]
    BY <1>4 DEF AsSeq
  <2>3. \A i \in 1 .. n : reads[i] = at[i] - at[i - 1]
    <3>1. \A i \in 1 .. n : NumRead(src[at[i - 1] + 1]) = at[i] - at[i - 1]
      BY <1>3
    <3> QED  BY <1>4, <2>2, <3>1
  <2>4. reads \in Seq(Int) /\ Len(reads) = n
    <3>1. \A i \in 1 .. n : at[i] - at[i - 1] \in Int
      <4>1. \A i \in 1 .. n : i - 1 \in 0 .. n /\ i \in 0 .. n
        OBVIOUS
      <4> QED  BY <1>2, <4>1
    <3>2. reads \in [1 .. n -> Int]
      BY <2>2, <2>3, <3>1
    <3> QED  BY <3>2, Numbers
  <2> HIDE DEF reads
  <2>5. Sums(at, reads)
    <3>1. at \in [0 .. n -> Int]
      BY <1>2
    <3>2. ASSUME NEW i \in 1 .. n PROVE at[i] = at[i - 1] + reads[i]
      <4>1. i - 1 \in 0 .. n /\ i \in 0 .. n
        OBVIOUS
      <4>2. at[i] \in Nat /\ at[i - 1] \in Nat
        BY <1>2, <4>1
      <4> QED  BY <2>3, <4>2
    <3> QED  BY <1>2, <2>4, <3>1, <3>2 DEF Sums
  <2>6. Total(reads) = l
    BY <1>2, <2>4, <2>5, TotalBy
  <2>7. Utf8Length(src) = Total(reads)
    BY <1>4, <1>6, <2>1 DEF Utf8Length, reads
  <2> QED  BY <1>1, <2>6, <2>7
<1> QED  BY <1>1, <1>6, <1>7, <1>8, <1>9 DEF w

LEMMA PairOf ==
    ASSUME NEW c \in Nat, Point(c), ~Surrogate(c)
    PROVE  /\ c <= 65535 => c \div 1024 # 54
           /\ c > 65535 => /\ High(c) \div 1024 = 54 /\ Low(c) \div 1024 = 55
                           /\ (High(c) - 55296) * 1024 + (Low(c) - 56320) + 65536 = c
<1>1. ASSUME c <= 65535 PROVE c \div 1024 # 54
  BY <1>1, SMT DEF Surrogate
<1>2. ASSUME c > 65535
      PROVE  /\ High(c) \div 1024 = 54 /\ Low(c) \div 1024 = 55
             /\ (High(c) - 55296) * 1024 + (Low(c) - 56320) + 65536 = c
  <2>1. PICK d \in Nat : d = c - 65536 /\ c = d + 65536 /\ d < 1048576
    BY <1>2, SMT DEF Point
  <2>2. PICK h \in Nat, l \in Nat : /\ h = d \div 1024 /\ l = d % 1024 /\ h < 1024 /\ l < 1024
                                    /\ d = h * 1024 + l
    BY <2>1, SMT
  <2>3. High(c) = 55296 + h /\ Low(c) = 56320 + l
    BY <2>1, <2>2, SMT DEF High, Low
  <2>4. (55296 + h) \div 1024 = 54 /\ (56320 + l) \div 1024 = 55
    BY <2>2, SMT
  <2> HIDE DEF High, Low
  <2>5. (High(c) - 55296) * 1024 + (Low(c) - 56320) + 65536 = h * 1024 + l + 65536
    BY <2>3, SMT
  <2> QED  BY <2>1, <2>2, <2>3, <2>4, <2>5, SMT
<1> QED  BY <1>1, <1>2, SMT

\* A high surrogate with a low one after it is a pair, another unit is none.
LEMMA UnitsRead ==
    ASSUME NEW c \in Nat, Point(c), ~Surrogate(c), NEW r \in Seq(Int), NEW p \in Nat,
           p + Units(c) <= Len(r),
           c <= 65535 => r[p + 1] = c,
           c > 65535 => r[p + 1] = High(c) /\ r[p + 2] = Low(c)
    PROVE  /\ Utf32Of(r, p) = c
           /\ (IF PairAt(r, p) THEN 2 ELSE 1) = Units(c)
<1>1. CASE c <= 65535
  <2>1. ~PairAt(r, p)
    BY <1>1, PairOf, SMT DEF PairAt
  <2>2. Units(c) = 1
    BY <1>1, SMT DEF Units
  <2> QED  BY <1>1, <2>1, <2>2, SMT DEF Utf32Of
<1>2. CASE c > 65535
  <2>1. Units(c) = 2
    BY <1>2, SMT DEF Units
  <2>2. p + 1 < Len(r)
    <3>1. PICK l \in Nat : l = Len(r)
      OBVIOUS
    <3> QED  BY <2>1, <3>1, SMT
  <2>3. PairAt(r, p)
    <3>1. High(c) \div 1024 = 54 /\ Low(c) \div 1024 = 55
      BY <1>2, PairOf, SMT
    <3>2. r[p + 1] = High(c) /\ r[p + 2] = Low(c)
      BY <1>2, SMT
    <3> HIDE DEF High, Low
    <3> QED  BY <2>2, <3>1, <3>2 DEF PairAt
  <2>4. Utf32Of(r, p) = (High(c) - 55296) * 1024 + (Low(c) - 56320) + 65536
    BY <1>2, <2>3, SMT DEF Utf32Of
  <2>5. (High(c) - 55296) * 1024 + (Low(c) - 56320) + 65536 = c
    BY <1>2, PairOf, SMT
  <2> QED  BY <2>1, <2>3, <2>4, <2>5, SMT
<1>3. c <= 65535 \/ c > 65535
  BY SMT
<1> QED  BY <1>1, <1>2, <1>3, SMT

\* The units of the string that was converted are the text again.
LEMMA UnitsBack ==
    ASSUME NEW t \in Seq(Nat), t # << >>, \A i \in 1 .. Len(t) : Point(t[i]) /\ ~Surrogate(t[i]),
           NEW pos, InUnits(t, pos), Result \in Seq(Int), Len(Result) = count, count \in Nat
    PROVE  AsSeq(Utf16Stops(Result), LAMBDA p : Utf32Of(Result, p)) = t
<1>1. PICK n \in Nat : n = Len(t) /\ DOMAIN t = 1 .. n /\ n >= 1
  <2>1. Len(t) \in Nat /\ DOMAIN t = 1 .. Len(t) /\ Len(t) # 0
    BY NoneLeft
  <2>2. Len(t) >= 1
    BY <2>1
  <2> QED  BY <2>1, <2>2
<1>2. PICK l \in Nat, r \in Seq(Int) : l = count /\ r = Result /\ l = Len(r)
  OBVIOUS
<1>3. \A q \in Nat : q < l => r[q + 1] = dst[q]
  <2>1. ASSUME NEW q \in Nat, q < l PROVE r[q + 1] = dst[q]
    <3>1. q + 1 \in 1 .. count /\ (q + 1) - 1 = q
      BY <1>2, <2>1
    <3>2. Result[q + 1] = dst[(q + 1) - 1]
      BY <3>1 DEF Result
    <3> QED  BY <1>2, <3>1, <3>2
  <2> QED  BY <2>1
<1>4. pos \in [0 .. n -> Nat] /\ pos[0] = 0 /\ pos[n] = l
  BY <1>1, <1>2, SMT DEF InUnits
<1> DEFINE hops == [p \in 0 .. l - 1 |-> IF PairAt(r, p) THEN 2 ELSE 1]
<1>5. hops \in [0 .. l - 1 -> 1 .. 8]
  OBVIOUS
<1>6. ASSUME NEW i \in 1 .. n
      PROVE  /\ pos[i - 1] \in 0 .. l - 1 /\ hops[pos[i - 1]] = pos[i] - pos[i - 1]
             /\ Utf32Of(r, pos[i - 1]) = t[i]
  <2>1. PICK p \in Nat, q \in Nat, c \in Nat : p = pos[i - 1] /\ q = pos[i] /\ c = t[i]
    <3>1. i - 1 \in 0 .. n /\ i \in 0 .. n /\ t[i] \in Nat
      BY <1>1
    <3> QED  BY <1>4, <3>1
  <2>2. /\ q = p + Units(c) /\ p + Units(c) <= l
        /\ c <= 65535 => dst[p] = c
        /\ c > 65535 => dst[p] = High(c) /\ dst[p + 1] = Low(c)
    BY <1>1, <1>2, <2>1, SMT DEF InUnits
  <2>3. PICK u \in Nat : u = Units(c) /\ u >= 1 /\ (c > 65535 => u >= 2)
    BY SMT DEF Units
  <2>4. p < l /\ (c > 65535 => p + 1 < l)
    BY <2>2, <2>3, SMT
  <2>5. /\ c <= 65535 => r[p + 1] = c
        /\ c > 65535 => r[p + 1] = High(c) /\ r[p + 2] = Low(c)
    <3>1. r[p + 1] = dst[p]
      BY <1>3, <2>4, SMT
    <3>2. ASSUME p + 1 < l PROVE r[p + 2] = dst[p + 1]
      <4>1. p + 1 \in Nat /\ (p + 1) + 1 = p + 2
        OBVIOUS
      <4>2. r[(p + 1) + 1] = dst[p + 1]
        BY <1>3, <3>2, <4>1
      <4> QED  BY <4>1, <4>2
    <3> QED  BY <2>2, <2>4, <3>1, <3>2, SMT
  <2>6. Point(c) /\ ~Surrogate(c)
    BY <1>1, <2>1
  <2>7. p + Units(c) <= Len(r)
    BY <1>2, <2>2, SMT
  <2>8. /\ Utf32Of(r, p) = c
        /\ (IF PairAt(r, p) THEN 2 ELSE 1) = Units(c)
    BY <2>5, <2>6, <2>7, UnitsRead, SMT
  <2>9. p \in 0 .. l - 1
    BY <2>4, SMT
  <2>10. hops[p] = u
    BY <2>3, <2>8, <2>9
  <2>11. u = q - p
    BY <2>2, <2>3, SMT
  <2> HIDE DEF hops
  <2> QED  BY <2>1, <2>8, <2>9, <2>10, <2>11
<1>7. Utf16Stops(r) = Walk(l, hops)
  BY <1>2 DEF Utf16Stops
<1> HIDE DEF hops
<1>8. Walk(l, hops) = [i \in 1 .. n |-> pos[i - 1]]
  <2>1. \A i \in 1 .. n : pos[i - 1] \in 0 .. l - 1 /\ hops[pos[i - 1]] = pos[i] - pos[i - 1]
    BY <1>6
  <2>2. n \in Nat /\ n >= 1 /\ l \in Nat
    BY <1>1
  <2> QED  BY <1>4, <1>5, <2>1, <2>2, StopsAt, ZenonT(30)
<1> DEFINE w == [i \in 1 .. n |-> pos[i - 1]]
<1>9. AsSeq(Utf16Stops(r), LAMBDA p : Utf32Of(r, p)) = [i \in DOMAIN w |-> Utf32Of(r, w[i])]
  BY <1>7, <1>8 DEF AsSeq
<1>10. DOMAIN w = 1 .. n /\ \A i \in 1 .. n : w[i] = pos[i - 1]
  OBVIOUS
<1> HIDE DEF w
<1>11. \A i \in 1 .. n : Utf32Of(r, w[i]) = t[i]
  BY <1>6, <1>10
<1>12. t = [i \in 1 .. n |-> t[i]]
  BY <1>1
<1>13. AsSeq(Utf16Stops(r), LAMBDA p : Utf32Of(r, p)) = t
  BY <1>9, <1>10, <1>11, <1>12
<1> HIDE DEF Result
<1> QED  BY <1>2, <1>13

\* What the conversion has left are units.
LEMMA ResultIs ==
    ASSUME Inv, pc = "done"
    PROVE  /\ Result \in Seq(Nat) /\ Len(Result) = count /\ count \in Nat
           /\ \A i \in DOMAIN Result : Result[i] < 65536
<1>1. count \in Nat /\ Written
  BY DEF Inv, TypeOK
<1>2. \A i \in 1 .. count : dst[i - 1] \in Nat /\ dst[i - 1] < 65536
  <2>1. \A i \in 1 .. count : i - 1 \in 0 .. count - 1
    BY <1>1
  <2> QED  BY <1>1, <2>1, SMT DEF Written
<1>3. Result \in [1 .. count -> Nat] /\ \A i \in 1 .. count : Result[i] < 65536
  BY <1>2, SMT DEF Result
<1> HIDE DEF Result
<1> QED  BY <1>1, <1>3, SMT

\* A text comes back from each encoding, and every length is what was measured.
LEMMA TextKept ==
    ASSUME Inv, Converted
    PROVE  TextsKept
<1> SUFFICES ASSUME NEW t \in Texts \ {<< >>}, src = TextBytes[t]
             PROVE  /\ Utf32ToUtf8(t) = src /\ Utf32ToUtf8Length(t) = Len(src)
                    /\ ~SignedChar => Utf8Length(src) = Len(src)
                    /\ Utf8ToUtf32(src) = t /\ Utf8ToUtf32Length(src) = Len(t)
                    /\ Utf16ToUtf8(Result) = src
  BY DEF TextsKept
<1>1. t \in Seq(Nat) /\ t # << >>
  BY TextsAssumption, SMT
<1>2. PICK n \in Nat : n = Len(t) /\ DOMAIN t = 1 .. n
  BY <1>1
<1>3. \A i \in 1 .. n : t[i] \in Nat /\ Point(t[i]) /\ ~Surrogate(t[i])
  <2>1. \A i \in DOMAIN t : t[i] <= 1114111 /\ ~Surrogate(t[i])
    BY TextsAssumption, SMT
  <2> QED  BY <1>1, <1>2, <2>1, SMT DEF Point
<1>4. \A c \in Nat : Point(c) => /\ Character(Utf8(c), c)
                                 /\ ~Surrogate(c) => ToUtf8(c) = Utf8(c)
  BY Utf8Is, SMT DEF Point
<1> DEFINE parts == AsSeq(t, Utf8)
<1>5. parts = [i \in DOMAIN t |-> Utf8(t[i])]
  BY DEF AsSeq
<1>6. \A i \in 1 .. n : parts[i] = Utf8(t[i])
  BY <1>2, <1>5
<1>7. src = FlattenSeq(parts)
  BY DEF TextBytes
<1>8. parts = [i \in DOMAIN t |-> parts[i]]
  BY <1>5
<1> HIDE DEF parts
<1>9. \A i \in 1 .. Len(t) : Character(parts[i], t[i])
  BY <1>2, <1>3, <1>4, <1>6
<1>10. parts \in Seq(Seq(Nat)) /\ Len(parts) = Len(t)
  BY <1>1, <1>8, <1>9, PartsAre
<1>11. TypeOK /\ pc = "done"
  BY DEF Inv, Converted
<1>12. PICK at : Spelled(t, parts, at)
  BY <1>1, <1>7, <1>9, <1>10, <1>11, SpelledIn
<1>13. PICK pos : InUnits(t, pos)
  BY <1>1, <1>12, ConvertedTo
<1>14. Utf32ToUtf8(t) = src
  <2>1. AsSeq(t, ToUtf8) = [i \in DOMAIN t |-> ToUtf8(t[i])]
    BY DEF AsSeq
  <2>2. \A i \in DOMAIN t : ToUtf8(t[i]) = Utf8(t[i])
    BY <1>2, <1>3, <1>4
  <2>3. AsSeq(t, ToUtf8) = parts
    BY <1>5, <2>1, <2>2
  <2> QED  BY <1>7, <2>3 DEF Utf32ToUtf8
<1>15. Utf32ToUtf8Length(t) = Len(src)
  BY <1>1, <1>14, Utf32Length DEF Utf32ToUtf8Length
<1>16. /\ Utf8ToUtf32(src) = t /\ Utf8ToUtf32Length(src) = Len(t)
       /\ ~SignedChar => Utf8Length(src) = Len(src)
  <2>1. \A i \in 1 .. Len(t) : Point(t[i])
    BY <1>2, <1>3
  <2> QED  BY <1>1, <1>11, <1>12, <2>1, StopsAre
<1>17. Utf16ToUtf8(Result) = src
  <2>1. Result \in Seq(Int) /\ Len(Result) = count /\ count \in Nat
    BY <1>11, ResultIs, SMT
  <2>2. \A i \in 1 .. Len(t) : Point(t[i]) /\ ~Surrogate(t[i])
    BY <1>2, <1>3
  <2>3. AsSeq(Utf16Stops(Result), LAMBDA p : Utf32Of(Result, p)) = t
    BY <1>1, <1>13, <2>1, <2>2, UnitsBack
  <2> HIDE DEF Result
  <2> QED  BY <1>14, <2>3 DEF Utf16ToUtf8
<1> QED  BY <1>14, <1>15, <1>16, <1>17

\* A string of Java and a text come back from the encodings, and the UTF-8 of any
\* units is as long as was measured, for strings of any length (String16.cpp:11-38,
\* Unicode.cpp:87-613).
THEOREM RoundTripsHolds == Spec => []RoundTrips
<1>1. Inv => RoundTrips
  <2>1. ASSUME Inv, Converted PROVE JavaStringsKept /\ TextsKept
    BY <2>1, JavaKept, TextKept
  <2>2. ASSUME Inv, pc = "done", count > 0
        PROVE  Utf16ToUtf8Length(Result) = Len(Utf16ToUtf8(Result))
    <3>1. /\ Result \in Seq(Nat) /\ Len(Result) = count /\ count \in Nat
          /\ \A i \in DOMAIN Result : Result[i] < 65536
      BY <2>2, ResultIs, SMT
    <3>2. Result # << >>
      BY <2>2, <3>1, SMT
    <3> HIDE DEF Result
    <3> QED  BY <3>1, <3>2, Utf16Length, SMT
  <2> QED  BY <2>1, <2>2 DEF RoundTrips
<1> QED  BY <1>1, InvHolds, PTL

----------------------------------------------------------------------------
(* What utf8_length accepts *)

\* Where it accepts, both decoders read the same character, and all of it.
LEMMA AcceptedAt ==
    ASSUME TypeOK, NEW p \in 0 .. Len(src) - 1, Accepts(src, p)
    PROVE  /\ NumRead(src[p + 1]) \in Nat /\ Skip(p) = NumRead(src[p + 1])
           /\ Value(p) = Utf32At(src, p) /\ p + Skip(p) <= Len(src)
<1>1. PICK l \in Nat : l = Len(src) /\ p < l
  <2>1. Len(src) \in Nat
    BY BytesNat
  <2> QED  BY <2>1
<1>2. p \in Nat /\ p + 1 \in Nat /\ p + 2 \in Nat /\ p + 3 \in Nat /\ p + 1 \in 1 .. l
  BY <1>1
<1>3. PICK b \in Nat : b = src[p + 1] /\ b < 256 /\ b = Byte(p)
  <2>1. src[p + 1] \in Nat /\ src[p + 1] < 256
    BY <1>1, <1>2, BytesNat
  <2>2. Byte(p) = src[p + 1]
    BY <1>1 DEF Byte
  <2> QED  BY <2>1, <2>2
<1>4. PICK x \in Nat, y \in Nat, z \in Nat :
         /\ x = Byte(p + 1) /\ y = Byte(p + 2) /\ z = Byte(p + 3)
         /\ x = ByteOf(src, p + 1) /\ y = ByteOf(src, p + 2) /\ z = ByteOf(src, p + 3)
  <2>1. \A q \in Nat : Byte(q) \in Nat
    <3>1. \A q \in Nat : Byte(q) \in Bytes
      BY Sizes
    <3>2. \A d \in Bytes : d \in Nat
      BY DEF Bytes
    <3> QED  BY <3>1, <3>2
  <2>2. \A q : Byte(q) = ByteOf(src, q)
    BY DEF Byte, ByteOf
  <2> QED  BY <1>2, <2>1, <2>2
<1>5. PICK n : n = NumRead(b)
  OBVIOUS
<1>6. \/ b < 128
      \/ 192 <= b /\ n < 5 /\ p + n <= l
  BY <1>1, <1>3, <1>5, SMT DEF Accepts
<1>7. /\ n \in Nat
      /\ b < 192 => n = 1
      /\ 192 <= b /\ b < 224 => n = 2
      /\ 224 <= b /\ b < 240 => n = 3
      /\ 240 <= b /\ b < 248 => n = 4
      /\ 248 <= b => n > 4
  <2>1. n \in 1 .. 8
    BY <1>5, NumReadIs
  <2> QED  BY <1>5, <2>1, NumReadIs
<1>8. b < 128 \/ (192 <= b /\ b < 224) \/ (224 <= b /\ b < 240) \/ (240 <= b /\ b < 248)
  BY <1>6, <1>7
<1>9. Skip(p) = n /\ p + n <= l
  <2>1. Skip(p) = n
    <3>1. /\ b < 128 => CodepointLen(b) = 1
          /\ 192 <= b /\ b < 224 => CodepointLen(b) = 2
          /\ 224 <= b /\ b < 240 => CodepointLen(b) = 3
          /\ 240 <= b => CodepointLen(b) = 4
      BY CodepointLenIs
    <3>2. CodepointLen(b) = n
      BY <1>7, <1>8, <3>1
    <3> QED  BY <1>3, <3>2 DEF Skip
  <2>2. p + n <= l
    BY <1>1, <1>6, <1>7, <1>8
  <2> QED  BY <2>1, <2>2
<1>10. Reads(src, p, b, x, y, z)
  <2>1. \A d, u, v, m \in Nat :
           d = src[p + 1] /\ u = ByteOf(src, p + 1) /\ v = ByteOf(src, p + 2) /\ m = ByteOf(src, p + 3) =>
           Reads(src, p, d, u, v, m)
    <3>1. src \in Seq(Nat)
      BY BytesNat
    <3> QED  BY <3>1, Utf32AtIs
  <2> QED  BY <1>3, <1>4, <2>1, Zenon
<1>11. /\ Codepoint(p, 1) = b /\ Codepoint(p, 2) = Two6(b, x)
       /\ Codepoint(p, 3) = Three6(b, x, y) /\ Codepoint(p, 4) = Four6(b, x, y, z)
  BY <1>3, <1>4, CodepointIs
<1>12. Value(p) = Utf32At(src, p)
  <2>1. Value(p) = Codepoint(p, n)
    BY <1>9 DEF Value
  <2> QED  BY <1>7, <1>8, <1>10, <1>11, <2>1 DEF Reads
<1> QED  BY <1>1, <1>3, <1>5, <1>7, <1>9, <1>12

\* The stops of an accepted string, and its end.
Stopping(at, n) ==
    /\ n = Len(Utf8Stops(src)) /\ n \in Nat
    /\ at \in [0 .. n -> Nat] /\ at[0] = 0 /\ at[n] = Len(src)
    /\ \A i \in 1 .. n :
          /\ Utf8Stops(src)[i] = at[i - 1] /\ at[i - 1] < Len(src)
          /\ Accepts(src, at[i - 1])
          /\ Skip(at[i - 1]) = NumRead(src[at[i - 1] + 1])
          /\ at[i] = at[i - 1] + Skip(at[i - 1])
          /\ Value(at[i - 1]) = Utf32At(src, at[i - 1])

LEMMA AcceptedStops ==
    ASSUME TypeOK, Utf8Length(src) # -1
    PROVE  \E at, n : Stopping(at, n)
<1>1. PICK w : w = Utf8Stops(src)
  OBVIOUS
<1>2. PICK l \in Nat : l = Len(src)
  BY BytesNat
<1>3. StopsFrom(w, 0, l, Skips)
  <2>1. Skips \in [0 .. l - 1 -> 1 .. 8] /\ w = Walk(l, Skips)
    BY <1>1, <1>2, SkipsAre
  <2> QED  BY <2>1, WalkStops
<1>4. w \in Seq(0 .. l - 1)
  BY <1>3 DEF StopsFrom
<1>5. PICK n \in Nat : n = Len(w) /\ DOMAIN w = 1 .. n
  BY <1>4
<1>6. \A i \in 1 .. n : w[i] \in 0 .. l - 1
  BY <1>4, <1>5
<1>7. \A i \in 1 .. n : Accepts(src, w[i])
  <2>1. \A i \in DOMAIN w : Accepts(src, w[i])
    BY <1>1 DEF Utf8Length
  <2> QED  BY <1>5, <2>1
<1>8. \A i \in 1 .. n : /\ Skip(w[i]) = NumRead(src[w[i] + 1]) /\ Skip(w[i]) \in Nat
                        /\ Value(w[i]) = Utf32At(src, w[i]) /\ w[i] + Skip(w[i]) <= l
  BY <1>2, <1>6, <1>7, AcceptedAt
<1>9. \A i \in 1 .. n : Skips[w[i]] = Skip(w[i])
  BY <1>2, <1>6, <1>8 DEF Skips
<1> DEFINE at == [i \in 0 .. n |-> IF i < n THEN w[i + 1] ELSE l]
<1>10. at \in [0 .. n -> Nat]
  <2>1. ASSUME NEW i \in 0 .. n, i < n PROVE w[i + 1] \in Nat
    <3>1. i + 1 \in 1 .. n
      BY <2>1
    <3> QED  BY <1>6, <3>1
  <2> QED  BY <2>1
<1>11. at[n] = l /\ \A i \in 1 .. n : at[i - 1] = w[i]
  <2>1. at[n] = l
    OBVIOUS
  <2>2. ASSUME NEW i \in 1 .. n PROVE at[i - 1] = w[i]
    <3>1. i - 1 \in 0 .. n /\ i - 1 < n /\ (i - 1) + 1 = i
      OBVIOUS
    <3> QED  BY <3>1
  <2> QED  BY <2>1, <2>2
<1> HIDE DEF at
<1>12. at[0] = 0
  <2>1. CASE n = 0
    <3>1. w = << >>
      BY <1>4, <1>5, <2>1, NoneLeft
    <3>2. 0 >= l
      BY <1>3, <3>1 DEF StopsFrom
    <3> QED  BY <1>11, <2>1, <3>2
  <2>2. CASE n # 0
    <3>1. 1 \in 1 .. n /\ 1 - 1 = 0
      BY <2>2
    <3>2. at[0] = w[1] /\ w[1] \in 0 .. l - 1
      BY <1>6, <1>11, <3>1
    <3>3. 0 < l
      BY <3>2
    <3>4. w[1] = 0
      BY <1>3, <3>3 DEF StopsFrom
    <3> QED  BY <3>2, <3>4
  <2> QED  BY <2>1, <2>2
<1>13. ASSUME NEW i \in 1 .. n PROVE at[i] = w[i] + Skip(w[i])
  <2>1. CASE i < n
    <3>1. i + 1 \in 1 .. n /\ (i + 1) - 1 = i
      BY <2>1
    <3>2. at[i] = w[i + 1]
      BY <1>11, <3>1
    <3>3. w[i + 1] = w[i] + Skips[w[i]]
      BY <1>3, <1>5, <2>1 DEF StopsFrom
    <3> QED  BY <1>9, <3>2, <3>3
  <2>2. CASE i = n
    <3>1. w[i] + Skips[w[i]] >= l
      BY <1>3, <1>5, <2>2 DEF StopsFrom
    <3>2. PICK a \in Nat, b \in Nat : a = w[i] /\ b = Skip(w[i])
      BY <1>6, <1>8
    <3>3. a + b >= l /\ a + b <= l
      BY <1>8, <1>9, <3>1, <3>2
    <3> QED  BY <1>11, <2>2, <3>2, <3>3
  <2> QED  BY <2>1, <2>2
<1>14. Stopping(at, n)
  <2>1. ASSUME NEW i \in 1 .. n
        PROVE  /\ Utf8Stops(src)[i] = at[i - 1] /\ at[i - 1] < Len(src)
               /\ Accepts(src, at[i - 1])
               /\ Skip(at[i - 1]) = NumRead(src[at[i - 1] + 1])
               /\ at[i] = at[i - 1] + Skip(at[i - 1])
               /\ Value(at[i - 1]) = Utf32At(src, at[i - 1])
    <3>1. at[i - 1] = w[i]
      BY <1>11
    <3>2. w[i] < l
      BY <1>6
    <3> QED  BY <1>1, <1>2, <1>7, <1>8, <1>13, <3>1, <3>2
  <2> QED  BY <1>1, <1>2, <1>5, <1>10, <1>11, <1>12, <2>1 DEF Stopping
<1> QED  BY <1>14

LEMMA AcceptedSafe ==
    ASSUME Inv
    PROVE  AcceptedIsSafe
<1> SUFFICES ASSUME Utf8Length(src) # -1
             PROVE  /\ \A i \in DOMAIN Utf8Stops(src) :
                          Utf32FromUtf8At(src, Utf8Stops(src)[i]).next
                            = IF i < Len(Utf8Stops(src)) THEN Utf8Stops(src)[i + 1] ELSE Len(src)
                    /\ pc = "measure" => cur = Len(src) \/ ~Beyond(cur)
                    /\ pc = "alloc" => count = Total(AsSeq(Utf8ToUtf32(src), Units))
  BY DEF AcceptedIsSafe
<1>1. TypeOK
  BY DEF Inv
<1>2. PICK at, n : Stopping(at, n)
  BY <1>1, AcceptedStops
<1>3. PICK l \in Nat : l = Len(src)
  BY <1>1, BytesNat
<1>4. n \in Nat /\ at \in [0 .. n -> Nat] /\ at[0] = 0 /\ at[n] = l
  BY <1>2, <1>3 DEF Stopping
<1>5. PICK w : w = Utf8Stops(src) /\ Len(w) = n /\ DOMAIN w = 1 .. n
  <2>1. Skips \in [0 .. l - 1 -> 1 .. 8] /\ Utf8Stops(src) = Walk(l, Skips)
    BY <1>1, <1>3, SkipsAre
  <2>2. Utf8Stops(src) \in Seq(0 .. l - 1)
    BY <2>1, WalkStops DEF StopsFrom
  <2> QED  BY <1>2, <2>2 DEF Stopping
<1>6. \A i \in 1 .. n :
         /\ w[i] = at[i - 1] /\ at[i - 1] \in Nat /\ at[i - 1] < l
         /\ Accepts(src, at[i - 1])
         /\ Skip(at[i - 1]) = NumRead(src[at[i - 1] + 1])
         /\ at[i] = at[i - 1] + Skip(at[i - 1])
         /\ Value(at[i - 1]) = Utf32At(src, at[i - 1])
  <2>1. \A i \in 1 .. n : i - 1 \in 0 .. n
    BY <1>4
  <2> QED  BY <1>2, <1>3, <1>4, <1>5, <2>1 DEF Stopping
<1>7. ASSUME NEW i \in 1 .. n
      PROVE  Utf32FromUtf8At(src, w[i]).next = IF i < n THEN w[i + 1] ELSE l
  <2>1. Utf32FromUtf8At(src, w[i]).next = at[i]
    <3>1. ~(w[i] >= Len(src))
      BY <1>3, <1>6
    <3>2. Utf32FromUtf8At(src, w[i]).next = w[i] + NumRead(src[w[i] + 1])
      BY <3>1 DEF Utf32FromUtf8At
    <3> QED  BY <1>6, <3>2
  <2>2. CASE i < n
    <3>1. i + 1 \in 1 .. n /\ (i + 1) - 1 = i
      BY <1>4, <2>2
    <3>2. w[i + 1] = at[i]
      BY <1>6, <3>1
    <3> QED  BY <2>1, <2>2, <3>2
  <2>3. CASE ~(i < n)
    <3>1. i = n
      BY <1>4, <2>3
    <3> QED  BY <1>4, <2>1, <2>3, <3>1
  <2> QED  BY <2>2, <2>3
\* The measuring loop stands at one of the stops, or it is at the end.
<1>8. ASSUME pc = "measure", cur # Len(src) PROVE ~Beyond(cur)
  <2>1. Chain /\ OnChain /\ End = cur /\ pc # "none" /\ cur \in Nat /\ cur <= l
    BY <1>1, <1>3, <1>8 DEF Inv, End, TypeOK
  <2>2. \E i \in 1 .. n : at[i - 1] = cur
    <3> SUFFICES ASSUME \A i \in 1 .. n : at[i - 1] # cur PROVE FALSE
      OBVIOUS
    <3>1. \A i \in 1 .. n : at[i - 1] # End /\ at[i] = at[i - 1] + Skip(at[i - 1])
      BY <1>6, <2>1
    <3>2. \A i \in 0 .. n : at[i] \in DOMAIN measured
      BY <1>4, <2>1, <3>1, Walked
    <3>3. n \in 0 .. n
      BY <1>4
    <3>4. l \in DOMAIN measured
      BY <1>4, <3>2, <3>3
    <3>5. l <= cur
      BY <2>1, <3>4 DEF Chain
    <3> QED  BY <1>3, <1>8, <2>1, <3>5
  <2>3. PICK i \in 1 .. n : at[i - 1] = cur
    BY <2>2
  <2>4. cur \in 0 .. Len(src) - 1 /\ Accepts(src, cur)
    <3>1. cur \in Nat /\ cur < l
      BY <1>6, <2>3
    <3> QED  BY <1>3, <1>6, <2>3, <3>1
  <2>5. Skip(cur) \in Nat /\ cur + Skip(cur) <= l
    BY <1>1, <1>3, <2>4, AcceptedAt
  <2> QED  BY <1>3, <2>1, <2>5 DEF Beyond
\* What it has counted is the units of the characters at the stops.
<1>9. ASSUME pc = "alloc" PROVE count = Total(AsSeq(Utf8ToUtf32(src), Units))
  <2>1. Chain /\ OnChain /\ End = Len(src) /\ cur = Len(src) /\ pc # "none"
    BY <1>9 DEF Inv, End
  <2>2. \A i \in 1 .. n : at[i - 1] # End /\ at[i] = at[i - 1] + Skip(at[i - 1])
    BY <1>3, <1>6, <2>1
  <2>3. /\ \A i \in 0 .. n : at[i] \in DOMAIN measured
        /\ \A i \in 1 .. n : measured[at[i]] = measured[at[i - 1]] + Units(Value(at[i - 1]))
    BY <1>4, <2>1, <2>2, Walked
  <2> DEFINE pos == [i \in 0 .. n |-> measured[at[i]]]
             units == AsSeq(Utf8ToUtf32(src), Units)
  <2>4. pos \in [0 .. n -> Nat] /\ pos[0] = 0 /\ pos[n] = count
    <3>1. \A p \in DOMAIN measured : measured[p] \in Nat
      BY <1>1 DEF TypeOK
    <3>2. 0 \in 0 .. n /\ n \in 0 .. n
      BY <1>4
    <3> QED  BY <1>3, <1>4, <2>1, <2>3, <3>1, <3>2 DEF Chain, OnChain
  <2>5. units = [i \in 1 .. n |-> Units(Value(at[i - 1]))]
    <3>1. Utf8ToUtf32(src) = [i \in 1 .. n |-> Utf32At(src, w[i])]
      BY <1>5 DEF Utf8ToUtf32, AsSeq
    <3>2. \A i \in 1 .. n : Utf32At(src, w[i]) = Value(at[i - 1])
      BY <1>6
    <3>3. Utf8ToUtf32(src) = [i \in 1 .. n |-> Value(at[i - 1])]
      BY <3>1, <3>2
    <3> QED  BY <3>3 DEF AsSeq
  <2>6. units \in Seq(Int) /\ Len(units) = n
    <3>1. \A i \in 1 .. n : Units(Value(at[i - 1])) \in Int
      <4>1. \A c : Units(c) \in Int
        BY SMT DEF Units
      <4> QED  BY <4>1
    <3> HIDE DEF units
    <3>2. units \in [1 .. n -> Int]
      BY <2>5, <3>1
    <3> QED  BY <1>4, <3>2, Numbers
  <2>7. \A i \in 1 .. n : pos[i] = pos[i - 1] + units[i]
    <3>1. ASSUME NEW i \in 1 .. n PROVE pos[i] = pos[i - 1] + units[i]
      <4>1. i - 1 \in 0 .. n /\ i \in 0 .. n
        BY <1>4
      <4>2. pos[i] = measured[at[i]] /\ pos[i - 1] = measured[at[i - 1]]
        BY <4>1
      <4> HIDE DEF units, pos
      <4>3. units[i] = Units(Value(at[i - 1]))
        BY <2>5
      <4> QED  BY <2>3, <4>2, <4>3
    <3> QED  BY <3>1
  <2> HIDE DEF units, pos
  <2>8. Sums(pos, units)
    BY <1>4, <2>4, <2>6, <2>7 DEF Sums
  <2>9. Total(units) = pos[n]
    BY <2>6, <2>8, TotalBy
  <2> QED  BY <2>4, <2>9 DEF units
<1> QED  BY <1>3, <1>5, <1>7, <1>8, <1>9

\* A string that utf8_length accepts is walked to its end and no further, and counts
\* the units it makes, for any bytes (Unicode.h:116-131).
THEOREM AcceptedIsSafeHolds == Spec => []AcceptedIsSafe
<1>1. Inv => AcceptedIsSafe
  BY AcceptedSafe
<1> QED  BY <1>1, InvHolds, PTL
=============================================================================
