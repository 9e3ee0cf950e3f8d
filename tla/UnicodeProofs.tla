----------------------------- MODULE UnicodeProofs -----------------------------
(***************************************************************************)
(* What the string functions compute, for strings of any length.  The      *)
(* recursive definitions are reasoned about by induction in the form of    *)
(* sets of numbers: the smallest number outside would have to be inside.   *)
(***************************************************************************)
EXTENDS Unicode, WellFoundedInduction, TLAPS

----------------------------------------------------------------------------
(* Induction *)

LEMMA Smallest ==
    ASSUME NEW T \in SUBSET Nat, T # {}
    PROVE  \E x \in T : \A y \in T : x <= y
<1> DEFINE R == OpToRel(<, Nat)
<1>1. IsWellFoundedOn(R, Nat)
  BY NatLessThanWellFounded
<1>2. \A x, y \in Nat : x < y <=> <<x, y>> \in R
  BY DEF OpToRel
<1> HIDE DEF R
<1>3. PICK x \in T : \A y \in T : ~(<<y, x>> \in R)
  BY <1>1, WFMin
<1>4. ASSUME NEW y \in T PROVE x <= y
  <2>1. x \in Nat /\ y \in Nat
    OBVIOUS
  <2>2. ~(y < x)
    BY <1>2, <1>3, <2>1
  <2> QED  BY <2>1, <2>2
<1> QED  BY <1>3, <1>4

LEMMA Upward ==
    ASSUME NEW m \in Nat, NEW S, 0 \in S, \A n \in 0 .. m - 1 : n \in S => n + 1 \in S
    PROVE  \A n \in 0 .. m : n \in S
<1> SUFFICES ASSUME NEW z \in 0 .. m, z \notin S PROVE FALSE
  OBVIOUS
<1> DEFINE T == {n \in 0 .. m : n \notin S}
<1>1. PICK x \in T : \A y \in T : x <= y
  <2>1. T \in SUBSET Nat /\ T # {}
    OBVIOUS
  <2> QED  BY <2>1, Smallest
<1>2. x # 0 /\ x - 1 \in 0 .. m - 1 /\ (x - 1) + 1 = x /\ ~(x <= x - 1)
  OBVIOUS
<1>3. x - 1 \in S
  BY <1>1, <1>2
<1> QED  BY <1>2, <1>3

LEMMA Downward ==
    ASSUME NEW m \in Nat, NEW S, m \in S, \A n \in 1 .. m : n \in S => n - 1 \in S
    PROVE  \A n \in 0 .. m : n \in S
<1> DEFINE R == {n \in 0 .. m : m - n \in S}
<1>1. 0 \in R
  OBVIOUS
<1>2. ASSUME NEW n \in 0 .. m - 1, n \in R PROVE n + 1 \in R
  <2>1. m - n \in 1 .. m /\ (m - n) - 1 = m - (n + 1) /\ n + 1 \in 0 .. m
    OBVIOUS
  <2> QED  BY <1>2, <2>1
<1>3. \A n \in 0 .. m : n \in R
  <2> HIDE DEF R
  <2> QED  BY <1>1, <1>2, Upward
<1>4. ASSUME NEW n \in 0 .. m PROVE n \in S
  <2>1. m - n \in R /\ m - (m - n) = n
    BY <1>3
  <2> QED  BY <2>1
<1> QED  BY <1>4

LEMMA MinIs ==
    ASSUME NEW T \in SUBSET Nat, T # {}
    PROVE  Min(T) \in T /\ \A y \in T : Min(T) <= y
BY Smallest DEF Min

LEMMA MinBy ==
    ASSUME NEW T \in SUBSET Nat, NEW d \in T, \A i \in T : ~(i < d)
    PROVE  Min(T) = d
<1>1. Min(T) \in T /\ Min(T) <= d
  BY MinIs
<1>2. d \in Nat /\ Min(T) \in Nat /\ ~(Min(T) < d)
  BY <1>1
<1> QED  BY <1>1, <1>2

LEMMA MaxIs ==
    \A k \in Nat \ {0} : Max(1 .. k) = k
<1> SUFFICES ASSUME NEW k \in Nat \ {0} PROVE Max(1 .. k) = k
  OBVIOUS
<1>1. k \in 1 .. k /\ \A y \in 1 .. k : k >= y
  OBVIOUS
<1>2. \A x \in 1 .. k : (\A y \in 1 .. k : x >= y) => x = k
  BY <1>1
<1> QED  BY <1>1, <1>2 DEF Max

----------------------------------------------------------------------------
(* The recursive definitions have the functions they speak of *)

\* at is where each of the parts begins, counted from 0, and at last where all end.
Sums(at, s) == /\ at \in [0 .. Len(s) -> Int] /\ at[0] = 0
               /\ \A i \in 1 .. Len(s) : at[i] = at[i - 1] + s[i]

\* The function in FoldLeft, on the sets of the first m positions.
IsFold(f, s, m) ==
    f = [P \in SUBSET (1 .. m) |-> IF P = {} THEN 0 ELSE f[P \ {Max(P)}] + s[Max(P)]]

LEMMA FoldExists == ASSUME NEW s \in Seq(Int) PROVE \E f : IsFold(f, s, Len(s))
<1> DEFINE S == {m \in 0 .. Len(s) : \E f : IsFold(f, s, m)}
<1>0. Len(s) \in Nat
  OBVIOUS
<1>1. 0 \in S
  <2> DEFINE f == [P \in SUBSET (1 .. 0) |-> 0]
  <2>1. \A P \in SUBSET (1 .. 0) : P = {}
    OBVIOUS
  <2>2. IsFold(f, s, 0)
    BY <2>1 DEF IsFold
  <2> QED  BY <1>0, <2>2
<1>2. ASSUME NEW m \in 0 .. Len(s) - 1, m \in S PROVE m + 1 \in S
  <2>1. PICK f : IsFold(f, s, m)
    BY <1>2
  <2> DEFINE g == [P \in SUBSET (1 .. m + 1) |->
                     IF m + 1 \in P THEN f[P \ {m + 1}] + s[m + 1] ELSE f[P]]
  <2>2. \A P \in SUBSET (1 .. m) : /\ P \in SUBSET (1 .. m + 1) /\ m + 1 \notin P
                                   /\ g[P] = f[P]
    OBVIOUS
  <2>3. ASSUME NEW P \in SUBSET (1 .. m + 1)
        PROVE  g[P] = IF P = {} THEN 0 ELSE g[P \ {Max(P)}] + s[Max(P)]
    <3>1. CASE m + 1 \in P
      <4>1. Max(P) = m + 1
        <5>1. \A y \in P : m + 1 >= y
          OBVIOUS
        <5>2. \A x \in P : (\A y \in P : x >= y) => x = m + 1
          BY <3>1, <5>1
        <5> QED  BY <3>1, <5>1, <5>2 DEF Max
      <4>2. P \ {m + 1} \in SUBSET (1 .. m)
        OBVIOUS
      <4> QED  BY <2>2, <3>1, <4>1, <4>2
    <3>2. CASE m + 1 \notin P
      <4>1. P \in SUBSET (1 .. m) /\ P \ {Max(P)} \in SUBSET (1 .. m)
        <5>1. \A x \in P : x \in 1 .. m
          BY <3>2
        <5> QED  BY <5>1
      <4>2. f[P] = IF P = {} THEN 0 ELSE f[P \ {Max(P)}] + s[Max(P)]
        BY <2>1, <4>1 DEF IsFold
      <4> QED  BY <2>2, <4>1, <4>2
    <3> QED  BY <3>1, <3>2
  <2>4. IsFold(g, s, m + 1)
    <3>1. g = [P \in SUBSET (1 .. m + 1) |-> g[P]]
      OBVIOUS
    <3> HIDE DEF g
    <3> QED  BY <2>3, <3>1 DEF IsFold
  <2> QED  BY <2>4
<1>3. \A m \in 0 .. Len(s) : m \in S
  <2> HIDE DEF S
  <2> QED  BY <1>0, <1>1, <1>2, Upward
<1> QED  BY <1>0, <1>3

\* The total is the last of the sums of the first parts.
LEMMA TotalIs ==
    ASSUME NEW s \in Seq(Int)
    PROVE  \E at : Sums(at, s) /\ Total(s) = at[Len(s)]
<1>1. DOMAIN s = 1 .. Len(s) /\ Len(s) \in Nat
  OBVIOUS
<1>2. Total(s) = (CHOOSE f : IsFold(f, s, Len(s)))[1 .. Len(s)]
  BY <1>1 DEF Total, FoldLeft, MapThenFoldSet, IsFold
<1>3. PICK f : IsFold(f, s, Len(s)) /\ Total(s) = f[1 .. Len(s)]
  BY <1>2, FoldExists
<1> DEFINE at == [i \in 0 .. Len(s) |-> f[1 .. i]]
<1>4. at[0] = 0
  <2>1. 1 .. 0 = {}
    OBVIOUS
  <2> QED  BY <1>1, <1>3, <2>1 DEF IsFold
<1>5. ASSUME NEW i \in 1 .. Len(s) PROVE at[i] = at[i - 1] + s[i]
  <2>1. 1 .. i # {} /\ Max(1 .. i) = i /\ (1 .. i) \ {i} = 1 .. i - 1
        /\ 1 .. i \in SUBSET (1 .. Len(s))
    <3>1. i \in Nat \ {0}
      BY <1>1
    <3>2. Max(1 .. i) = i
      BY <3>1, MaxIs
    <3>3. (1 .. i) \ {i} = 1 .. i - 1 /\ i \in 1 .. i /\ 1 .. i \in SUBSET (1 .. Len(s))
      BY <3>1
    <3> QED  BY <3>2, <3>3
  <2>2. f[1 .. i] = f[1 .. i - 1] + s[i]
    BY <1>3, <2>1 DEF IsFold
  <2> QED  BY <2>2
<1>6. \A i \in 0 .. Len(s) : at[i] \in Int
  <2> DEFINE S == {i \in 0 .. Len(s) : at[i] \in Int}
  <2>1. 0 \in S
    BY <1>1, <1>4
  <2>2. ASSUME NEW i \in 0 .. Len(s) - 1, i \in S PROVE i + 1 \in S
    <3>1. i + 1 \in 1 .. Len(s) /\ s[i + 1] \in Int /\ (i + 1) - 1 = i
      OBVIOUS
    <3>2. at[i + 1] = at[i] + s[i + 1]
      BY <1>5, <3>1
    <3> HIDE DEF at
    <3> QED  BY <2>2, <3>1, <3>2
  <2>3. \A i \in 0 .. Len(s) : i \in S
    <3> HIDE DEF S
    <3> QED  BY <1>1, <2>1, <2>2, Upward
  <2> QED  BY <2>3
<1>7. Sums(at, s)
  BY <1>4, <1>5, <1>6 DEF Sums
<1> QED  BY <1>1, <1>3, <1>7

LEMMA TotalBy ==
    ASSUME NEW s \in Seq(Int), NEW at, Sums(at, s)
    PROVE  Total(s) = at[Len(s)]
<1>1. PICK sum : Sums(sum, s) /\ Total(s) = sum[Len(s)]
  BY TotalIs
<1> DEFINE S == {i \in 0 .. Len(s) : sum[i] = at[i]}
<1>2. 0 \in S /\ Len(s) \in Nat
  BY <1>1 DEF Sums
<1>3. ASSUME NEW i \in 0 .. Len(s) - 1, i \in S PROVE i + 1 \in S
  <2>1. i + 1 \in 1 .. Len(s) /\ (i + 1) - 1 = i
    OBVIOUS
  <2>2. sum[i + 1] = sum[i] + s[i + 1] /\ at[i + 1] = at[i] + s[i + 1]
    BY <1>1, <2>1 DEF Sums
  <2> QED  BY <1>3, <2>1, <2>2
<1>4. \A i \in 0 .. Len(s) : i \in S
  <2> HIDE DEF S
  <2> QED  BY <1>2, <1>3, Upward
<1> QED  BY <1>1, <1>2, <1>4

LEMMA SumsGrow ==
    ASSUME NEW s \in Seq(Nat), NEW at, Sums(at, s)
    PROVE  /\ at \in [0 .. Len(s) -> Nat]
           /\ \A i, j \in 0 .. Len(s) : i <= j => at[i] <= at[j]
<1> DEFINE S == {j \in 0 .. Len(s) : at[j] \in Nat /\ \A i \in 0 .. j : at[i] <= at[j]}
<1>1. 0 \in S /\ Len(s) \in Nat
  BY DEF Sums
<1>2. ASSUME NEW j \in 0 .. Len(s) - 1, j \in S PROVE j + 1 \in S
  <2>1. j + 1 \in 1 .. Len(s) /\ (j + 1) - 1 = j /\ s[j + 1] \in Nat /\ at[j] \in Nat
    BY <1>2
  <2>2. at[j + 1] = at[j] + s[j + 1]
    BY <2>1 DEF Sums
  <2>3. ASSUME NEW i \in 0 .. j + 1 PROVE at[i] <= at[j + 1]
    <3>1. CASE i = j + 1
      BY <2>1, <2>2, <3>1
    <3>2. CASE i # j + 1
      <4>1. i \in 0 .. j /\ i \in 0 .. Len(s)
        BY <1>1, <3>2
      <4>2. at[i] <= at[j] /\ at[i] \in Int
        BY <1>2, <4>1 DEF Sums
      <4> QED  BY <2>1, <2>2, <4>2
    <3> QED  BY <3>1, <3>2
  <2> QED  BY <2>1, <2>2, <2>3
<1>3. \A j \in 0 .. Len(s) : j \in S
  <2> HIDE DEF S
  <2> QED  BY <1>1, <1>2, Upward
<1> QED  BY <1>3 DEF Sums

----------------------------------------------------------------------------
(* Concatenation *)

LEMMA NoneLeft ==
    ASSUME NEW S, NEW s \in Seq(S), Len(s) = 0
    PROVE  s = << >>
OBVIOUS

LEMMA Joined ==
    ASSUME NEW S, NEW s \in Seq(S), NEW t \in Seq(S)
    PROVE  /\ s \o t \in Seq(S) /\ Len(s \o t) = Len(s) + Len(t)
           /\ \A k \in 1 .. Len(s) : (s \o t)[k] = s[k]
           /\ \A k \in 1 .. Len(t) : (s \o t)[Len(s) + k] = t[k]
OBVIOUS

IsFlatten(f, parts, m) ==
    f = [i \in 1 .. m |-> IF i = 1 THEN parts[i] ELSE f[i - 1] \o parts[i]]

LEMMA FlattenExists ==
    ASSUME NEW parts, NEW n \in Nat PROVE \E f : IsFlatten(f, parts, n)
<1> DEFINE S == {m \in 0 .. n : \E f : IsFlatten(f, parts, m)}
<1>1. 0 \in S
  <2> DEFINE f == [i \in 1 .. 0 |-> parts]
  <2>1. IsFlatten(f, parts, 0)
    BY DEF IsFlatten
  <2> QED  BY <2>1
<1>2. ASSUME NEW m \in 0 .. n - 1, m \in S PROVE m + 1 \in S
  <2>0. m \in Nat
    OBVIOUS
  <2>1. PICK f : IsFlatten(f, parts, m)
    BY <1>2
  <2> DEFINE g == [i \in 1 .. m + 1 |->
                     IF i = 1 THEN parts[1]
                     ELSE IF i = m + 1 THEN f[m] \o parts[m + 1] ELSE f[i]]
  <2>2. ASSUME NEW i \in 1 .. m PROVE g[i] = f[i]
    <3>1. f[i] = IF i = 1 THEN parts[i] ELSE f[i - 1] \o parts[i]
      BY <2>1 DEF IsFlatten
    <3> QED  BY <3>1
  <2>3. ASSUME NEW i \in 1 .. m + 1
        PROVE  g[i] = IF i = 1 THEN parts[i] ELSE g[i - 1] \o parts[i]
    <3>1. CASE i = 1
      BY <3>1
    <3>2. CASE i # 1
      <4>0. i - 1 \in 1 .. m
        BY <2>0, <3>2
      <4>1. g[i - 1] = f[i - 1]
        BY <2>2, <4>0
      <4>2. CASE i = m + 1
        <5>1. i - 1 = m
          BY <2>0, <4>2
        <5>2. g[m + 1] = f[m] \o parts[m + 1]
          BY <3>2, <4>2
        <5> HIDE DEF g
        <5> QED  BY <3>2, <4>1, <4>2, <5>1, <5>2
      <4>3. CASE i # m + 1
        <5>1. i \in 1 .. m
          BY <2>0, <4>3
        <5>2. f[i] = f[i - 1] \o parts[i]
          BY <2>1, <3>2, <5>1 DEF IsFlatten
        <5> QED  BY <2>2, <3>2, <4>1, <5>1, <5>2
      <4> QED  BY <4>2, <4>3
    <3> QED  BY <3>1, <3>2
  <2>4. IsFlatten(g, parts, m + 1)
    <3>1. g = [i \in 1 .. m + 1 |-> g[i]]
      OBVIOUS
    <3> HIDE DEF g
    <3> QED  BY <2>3, <3>1 DEF IsFlatten
  <2> QED  BY <2>4
<1>3. \A m \in 0 .. n : m \in S
  <2> HIDE DEF S
  <2> QED  BY <1>1, <1>2, Upward
<1> QED  BY <1>3

\* The lengths of the parts.
Lens(parts) == [i \in DOMAIN parts |-> Len(parts[i])]

\* s has the parts one after the other, each where at has it.
Concatenation(s, at, parts) ==
    /\ Sums(at, Lens(parts)) /\ Len(s) = at[Len(parts)]
    /\ \A i \in 1 .. Len(parts) : \A k \in 1 .. Len(parts[i]) : s[at[i - 1] + k] = parts[i][k]

LEMMA LensSeq ==
    ASSUME NEW S, NEW parts \in Seq(Seq(S))
    PROVE  /\ Lens(parts) \in Seq(Nat) /\ Len(Lens(parts)) = Len(parts)
           /\ \A i \in 1 .. Len(parts) : Lens(parts)[i] = Len(parts[i]) /\ Len(parts[i]) \in Nat
<1>1. DOMAIN parts = 1 .. Len(parts) /\ Len(parts) \in Nat
  OBVIOUS
<1>2. \A i \in 1 .. Len(parts) : parts[i] \in Seq(S)
  OBVIOUS
<1>3. \A i \in 1 .. Len(parts) : Len(parts[i]) \in Nat
  BY <1>2
<1>4. Lens(parts) = [i \in 1 .. Len(parts) |-> Len(parts[i])]
  BY <1>1 DEF Lens
<1>5. Lens(parts) \in [1 .. Len(parts) -> Nat]
  BY <1>3, <1>4
<1>6. Lens(parts) \in Seq(Nat) /\ Len(Lens(parts)) = Len(parts)
  <2>1. PICK n \in Nat : n = Len(parts)
    BY <1>1
  <2>2. PICK g \in [1 .. n -> Nat] : g = Lens(parts)
    BY <1>5, <2>1
  <2>3. g \in Seq(Nat) /\ Len(g) = n
    OBVIOUS
  <2> QED  BY <2>1, <2>2, <2>3
<1> QED  BY <1>3, <1>4, <1>6

LEMMA FlattenIs ==
    ASSUME NEW S, NEW parts \in Seq(Seq(S))
    PROVE  /\ FlattenSeq(parts) \in Seq(S)
           /\ \E at : Concatenation(FlattenSeq(parts), at, parts)
<1>0. PICK n \in Nat : n = Len(parts)
  OBVIOUS
<1>1. \A i \in 1 .. n : parts[i] \in Seq(S) /\ Len(parts[i]) \in Nat
  BY <1>0
<1>2. PICK at : Sums(at, Lens(parts))
  <2>1. Lens(parts) \in Seq(Int)
    BY LensSeq
  <2> QED  BY <2>1, TotalIs
<1>3. /\ at \in [0 .. n -> Nat] /\ at[0] = 0
      /\ \A i, j \in 0 .. n : i <= j => at[i] <= at[j]
  <2>1. Lens(parts) \in Seq(Nat) /\ Len(Lens(parts)) = n
    BY <1>0, LensSeq
  <2> QED  BY <1>2, <2>1, SumsGrow DEF Sums
<1>4. \A i \in 1 .. n : at[i] = at[i - 1] + Len(parts[i])
  BY <1>0, <1>2, LensSeq DEF Sums
<1>5. CASE n = 0
  <2>1. FlattenSeq(parts) = parts
    BY <1>0, <1>5 DEF FlattenSeq
  <2>2. parts \in Seq(S) /\ Len(parts) = at[Len(parts)]
    <3>1. parts = << >>
      <4>1. Len(parts) = 0
        BY <1>0, <1>5
      <4> QED  BY <4>1, NoneLeft
    <3>2. << >> \in Seq(S) /\ Len(<< >>) = 0
      OBVIOUS
    <3>3. Len(parts) = 0 /\ at[Len(parts)] = 0
      BY <1>0, <1>3, <1>5
    <3> QED  BY <3>1, <3>2, <3>3
  <2>3. \A i \in 1 .. Len(parts) : FALSE
    BY <1>0, <1>5
  <2> QED  BY <1>2, <2>1, <2>2, <2>3 DEF Concatenation
<1>6. CASE n # 0
  <2>1. FlattenSeq(parts) = (CHOOSE f : IsFlatten(f, parts, n))[n]
    BY <1>0, <1>6 DEF FlattenSeq, IsFlatten
  <2>2. PICK f : IsFlatten(f, parts, n) /\ FlattenSeq(parts) = f[n]
    BY <2>1, FlattenExists
  <2>3. \A i \in 1 .. n : f[i] = IF i = 1 THEN parts[i] ELSE f[i - 1] \o parts[i]
    BY <2>2 DEF IsFlatten
  <2> DEFINE Good(i) == /\ f[i] \in Seq(S) /\ Len(f[i]) = at[i]
                        /\ \A j \in 1 .. i : \A k \in 1 .. Len(parts[j]) :
                              f[i][at[j - 1] + k] = parts[j][k]
             T == {i \in 0 .. n : i # 0 => Good(i)}
  <2>4. Good(1)
    <3>1. 1 \in 1 .. n /\ f[1] = parts[1] /\ parts[1] \in Seq(S)
      BY <1>1, <1>6, <2>3
    <3>2. at[1] = Len(parts[1])
      BY <1>1, <1>3, <1>4, <3>1
    <3>3. ASSUME NEW j \in 1 .. 1, NEW k \in 1 .. Len(parts[j])
          PROVE  f[1][at[j - 1] + k] = parts[j][k]
      <4>1. j = 1 /\ k \in Nat /\ at[j - 1] + k = k
        BY <1>1, <1>3, <3>1
      <4> QED  BY <3>1, <4>1
    <3> QED  BY <3>1, <3>2, <3>3
  <2>5. ASSUME NEW i \in 1 .. n - 1, Good(i) PROVE Good(i + 1)
    <3> DEFINE part == parts[i + 1]
    <3>1. i \in 0 .. n /\ i + 1 \in 1 .. n /\ i + 1 # 1 /\ (i + 1) - 1 = i /\ i \in Nat
      OBVIOUS
    <3>2. f[i + 1] = f[i] \o part /\ part \in Seq(S) /\ Len(part) \in Nat
      BY <1>1, <2>3, <3>1
    <3>3. at[i + 1] = at[i] + Len(part) /\ at[i] \in Nat
      BY <1>3, <1>4, <3>1
    <3>4. f[i] \in Seq(S) /\ Len(f[i]) = at[i]
      BY <2>5
    <3> HIDE DEF part
    <3>5. f[i + 1] \in Seq(S) /\ Len(f[i + 1]) = at[i + 1]
      BY <3>2, <3>3, <3>4, Joined
    <3>6. ASSUME NEW j \in 1 .. i + 1, NEW k \in 1 .. Len(parts[j])
          PROVE  f[i + 1][at[j - 1] + k] = parts[j][k]
      <4>1. CASE j = i + 1
        <5>1. k \in 1 .. Len(part) /\ j - 1 = i
          BY <3>1, <4>1 DEF part
        <5>2. (f[i] \o part)[Len(f[i]) + k] = part[k]
          <6>1. PICK a \in Seq(S) : a = f[i]
            BY <3>4
          <6>2. \A l \in 1 .. Len(part) : (a \o part)[Len(a) + l] = part[l]
            BY <3>2, <6>1, Joined
          <6> QED  BY <5>1, <6>1, <6>2
        <5>3. (f[i] \o part)[at[i] + k] = part[k]
          BY <3>4, <5>2
        <5> QED  BY <3>2, <4>1, <5>1, <5>3 DEF part
      <4>2. CASE j # i + 1
        <5>1. j \in 1 .. i /\ j \in 0 .. n /\ j - 1 \in 0 .. n /\ j \in 1 .. n /\ j <= i
          BY <3>1, <4>2
        <5>2. at[j] <= at[i] /\ at[j - 1] \in Nat /\ at[j] = at[j - 1] + Len(parts[j])
              /\ Len(parts[j]) \in Nat
          BY <1>1, <1>3, <1>4, <3>1, <5>1
        <5>3. at[j - 1] + k \in 1 .. at[i]
          <6>1. \A a, b, c, d, e \in Nat : d = a + b /\ d <= e /\ c \in 1 .. b
                                             => a + c \in 1 .. e
            OBVIOUS
          <6>2. k \in Nat /\ at[i] \in Nat /\ at[j] \in Nat
            BY <3>3, <5>2
          <6> QED  BY <5>2, <6>1, <6>2
        <5>4. (f[i] \o part)[at[j - 1] + k] = f[i][at[j - 1] + k]
          BY <3>2, <3>4, <5>3, Joined
        <5>5. f[i][at[j - 1] + k] = parts[j][k]
          BY <2>5, <5>1
        <5> QED  BY <3>2, <5>4, <5>5
      <4> QED  BY <4>1, <4>2
    <3> QED  BY <3>5, <3>6
  <2>6. \A i \in 0 .. n : i \in T
    <3> HIDE DEF Good
    <3>1. 0 \in T
      OBVIOUS
    <3>2. ASSUME NEW i \in 0 .. n - 1, i \in T PROVE i + 1 \in T
      <4>1. i + 1 \in 0 .. n
        OBVIOUS
      <4>2. Good(i + 1)
        <5>1. CASE i = 0
          BY <2>4, <5>1
        <5>2. CASE i # 0
          BY <2>5, <3>2, <5>2
        <5> QED  BY <5>1, <5>2
      <4> QED  BY <4>1, <4>2
    <3> HIDE DEF T
    <3> QED  BY <3>1, <3>2, Upward
  <2>7. Good(n)
    <3> HIDE DEF Good
    <3> QED  BY <1>6, <2>6
  <2> QED  BY <1>0, <1>2, <2>2, <2>7 DEF Concatenation
<1> QED  BY <1>5, <1>6

\* The sums are only one function, so that a concatenation is only one sequence.
LEMMA SumsUnique ==
    ASSUME NEW s \in Seq(Int), NEW at, Sums(at, s), NEW by, Sums(by, s)
    PROVE  at = by
<1> DEFINE S == {i \in 0 .. Len(s) : at[i] = by[i]}
<1>1. 0 \in S /\ Len(s) \in Nat
  BY DEF Sums
<1>2. ASSUME NEW i \in 0 .. Len(s) - 1, i \in S PROVE i + 1 \in S
  <2>1. i + 1 \in 1 .. Len(s) /\ (i + 1) - 1 = i
    OBVIOUS
  <2>2. at[i + 1] = at[i] + s[i + 1] /\ by[i + 1] = by[i] + s[i + 1]
    BY <2>1 DEF Sums
  <2> QED  BY <1>2, <2>1, <2>2
<1>3. \A i \in 0 .. Len(s) : i \in S
  <2> HIDE DEF S
  <2> QED  BY <1>1, <1>2, Upward
<1> QED  BY <1>3 DEF Sums

\* Every position up to the end is in one of the parts.
LEMMA Covered ==
    ASSUME NEW s \in Seq(Nat), NEW at, Sums(at, s), NEW q \in 1 .. at[Len(s)]
    PROVE  \E i \in 1 .. Len(s) : \E k \in 1 .. s[i] : q = at[i - 1] + k
<1>0. PICK n \in Nat : n = Len(s)
  OBVIOUS
<1>1. at \in [0 .. n -> Nat] /\ at[0] = 0 /\ q \in Nat /\ q <= at[n]
  <2>1. at \in [0 .. n -> Nat] /\ at[0] = 0
    BY <1>0, SumsGrow DEF Sums
  <2>2. n \in 0 .. n /\ at[n] \in Nat /\ q \in 1 .. at[n]
    BY <1>0, <2>1
  <2> QED  BY <2>1, <2>2
<1> DEFINE T == {i \in 0 .. n : q <= at[i]}
<1>2. PICK i \in T : \A j \in T : i <= j
  <2>1. T \in SUBSET Nat /\ n \in T
    BY <1>0, <1>1
  <2> HIDE DEF T
  <2> QED  BY <2>1, Smallest
<1>3. i # 0
  BY <1>1
<1>4. i \in 1 .. n /\ i - 1 \in 0 .. n /\ ~(i <= i - 1)
  BY <1>0, <1>3
<1>5. ~(q <= at[i - 1])
  BY <1>2, <1>4
<1>6. at[i] = at[i - 1] + s[i] /\ s[i] \in Nat /\ at[i - 1] \in Nat /\ q <= at[i]
  <2>1. i \in 1 .. Len(s)
    BY <1>0, <1>4
  <2>2. s[i] \in Nat /\ at[i] = at[i - 1] + s[i]
    BY <2>1 DEF Sums
  <2> QED  BY <1>1, <1>4, <2>2
<1>7. q - at[i - 1] \in 1 .. s[i] /\ q = at[i - 1] + (q - at[i - 1])
  <2>1. \A a, b, c, d \in Nat : d = a + b /\ ~(c <= a) /\ c <= d
                                  => c - a \in 1 .. b /\ c = a + (c - a)
    OBVIOUS
  <2>2. at[i] \in Nat
    BY <1>1
  <2> QED  BY <1>1, <1>5, <1>6, <2>1, <2>2
<1> QED  BY <1>0, <1>4, <1>7

LEMMA FlattenBy ==
    ASSUME NEW S, NEW parts \in Seq(Seq(S)), NEW s \in Seq(S), NEW at, Concatenation(s, at, parts)
    PROVE  s = FlattenSeq(parts)
<1>1. PICK by : Concatenation(FlattenSeq(parts), by, parts)
  BY FlattenIs
<1>2. Lens(parts) \in Seq(Nat) /\ Lens(parts) \in Seq(Int) /\ Len(Lens(parts)) = Len(parts)
  BY LensSeq
<1>3. at = by
  BY <1>1, <1>2, SumsUnique DEF Concatenation
<1>4. Len(s) = Len(FlattenSeq(parts)) /\ Len(s) = at[Len(parts)] /\ Sums(at, Lens(parts))
  BY <1>1, <1>3 DEF Concatenation
<1>5. ASSUME NEW q \in 1 .. Len(s) PROVE s[q] = FlattenSeq(parts)[q]
  <2>1. PICK i \in 1 .. Len(parts) : \E k \in 1 .. Lens(parts)[i] : q = at[i - 1] + k
    <3>1. PICK l \in Seq(Nat) : l = Lens(parts)
      BY <1>2
    <3>2. q \in 1 .. at[Len(l)] /\ Sums(at, l) /\ Len(l) = Len(parts)
      BY <1>2, <1>4, <3>1
    <3>3. \E i \in 1 .. Len(l) : \E k \in 1 .. l[i] : q = at[i - 1] + k
      BY <3>2, Covered
    <3> QED  BY <3>1, <3>2, <3>3
  <2>2. PICK k \in 1 .. Lens(parts)[i] : q = at[i - 1] + k
    BY <2>1
  <2>3. k \in 1 .. Len(parts[i])
    BY LensSeq
  <2>4. s[at[i - 1] + k] = parts[i][k]
    BY <2>3 DEF Concatenation
  <2>5. FlattenSeq(parts)[at[i - 1] + k] = parts[i][k]
    BY <1>1, <1>3, <2>3 DEF Concatenation
  <2> QED  BY <2>2, <2>4, <2>5
<1>6. FlattenSeq(parts) \in Seq(S)
  BY FlattenIs
<1>7. PICK r \in Seq(S) : r = FlattenSeq(parts)
  BY <1>6
<1>8. Len(r) = Len(s) /\ \A q \in 1 .. Len(s) : s[q] = r[q]
  BY <1>4, <1>5, <1>7
<1>9. s = r
  BY <1>8
<1> QED  BY <1>7, <1>9

LEMMA FlattenLen ==
    ASSUME NEW S, NEW parts \in Seq(Seq(S))
    PROVE  Len(FlattenSeq(parts)) = Total(Lens(parts))
<1>1. PICK at : Concatenation(FlattenSeq(parts), at, parts)
  BY FlattenIs
<1>2. Lens(parts) \in Seq(Int) /\ Len(Lens(parts)) = Len(parts)
  BY LensSeq
<1> QED  BY <1>1, <1>2, TotalBy DEF Concatenation

----------------------------------------------------------------------------
(* Walks *)

IsWalk(f, n, skip, m) ==
    f = [p \in m .. n + 8 |-> IF p >= n THEN << >> ELSE <<p>> \o f[p + skip[p]]]

LEMMA WalkExists ==
    ASSUME NEW n \in Nat, NEW skip \in [0 .. n - 1 -> 1 .. 8]
    PROVE  \E f : IsWalk(f, n, skip, 0)
<1> DEFINE S == {m \in 0 .. n : \E f : IsWalk(f, n, skip, m)}
<1>1. n \in S
  <2> DEFINE f == [p \in n .. n + 8 |-> << >>]
  <2>1. IsWalk(f, n, skip, n)
    BY DEF IsWalk
  <2> QED  BY <2>1
<1>2. ASSUME NEW m \in 1 .. n, m \in S PROVE m - 1 \in S
  <2>1. PICK f : IsWalk(f, n, skip, m)
    BY <1>2
  <2>2. m - 1 \in 0 .. n - 1 /\ skip[m - 1] \in 1 .. 8 /\ (m - 1) + skip[m - 1] \in m .. n + 8
    <3>1. m - 1 \in 0 .. n - 1
      OBVIOUS
    <3>2. skip[m - 1] \in 1 .. 8
      BY <3>1
    <3> QED  BY <3>1, <3>2
  <2> DEFINE g == [p \in m - 1 .. n + 8 |->
                     IF p = m - 1 THEN <<m - 1>> \o f[(m - 1) + skip[m - 1]] ELSE f[p]]
  <2>3. \A p \in m .. n + 8 : p \in m - 1 .. n + 8 /\ p # m - 1 /\ g[p] = f[p]
    OBVIOUS
  <2>4. ASSUME NEW p \in m - 1 .. n + 8
        PROVE  g[p] = IF p >= n THEN << >> ELSE <<p>> \o g[p + skip[p]]
    <3>1. CASE p = m - 1
      <4>1. ~(p >= n)
        BY <2>2, <3>1
      <4>2. g[p] = <<m - 1>> \o f[(m - 1) + skip[m - 1]]
        BY <3>1
      <4>3. g[p + skip[p]] = f[(m - 1) + skip[m - 1]]
        BY <2>2, <2>3, <3>1
      <4> QED  BY <3>1, <4>1, <4>2, <4>3
    <3>2. CASE p # m - 1
      <4>1. p \in m .. n + 8 /\ g[p] = f[p]
        BY <2>3, <3>2
      <4>2. f[p] = IF p >= n THEN << >> ELSE <<p>> \o f[p + skip[p]]
        BY <2>1, <4>1 DEF IsWalk
      <4>3. CASE p >= n
        BY <4>1, <4>2, <4>3
      <4>4. CASE ~(p >= n)
        <5>1. p \in 0 .. n - 1
          BY <4>1, <4>4
        <5>2. skip[p] \in 1 .. 8
          BY <5>1
        <5>3. p + skip[p] \in m .. n + 8
          BY <4>1, <5>1, <5>2
        <5> QED  BY <2>3, <4>1, <4>2, <4>4, <5>3
      <4> QED  BY <4>3, <4>4
    <3> QED  BY <3>1, <3>2
  <2>5. IsWalk(g, n, skip, m - 1)
    <3>1. g = [p \in m - 1 .. n + 8 |-> g[p]]
      OBVIOUS
    <3> HIDE DEF g
    <3> QED  BY <2>4, <3>1 DEF IsWalk
  <2> QED  BY <2>5
<1>3. \A m \in 0 .. n : m \in S
  <2> HIDE DEF S
  <2> QED  BY <1>1, <1>2, Downward
<1> QED  BY <1>3

\* w are the stops of a walk over n units, from p on.
StopsFrom(w, p, n, skip) ==
    /\ w \in Seq(0 .. n - 1)
    /\ p >= n => w = << >>
    /\ p < n => w # << >> /\ w[1] = p
    /\ \A i \in 1 .. Len(w) : IF i < Len(w) THEN w[i + 1] = w[i] + skip[w[i]]
                                            ELSE w[i] + skip[w[i]] >= n

\* The recursive function of Walk is the loop of the code, for any number of units and
\* any skips of up to eight (Unicode.cpp:348-358, 390-410, 470-482).
THEOREM WalkStops ==
    ASSUME NEW n \in Nat, NEW skip \in [0 .. n - 1 -> 1 .. 8]
    PROVE  StopsFrom(Walk(n, skip), 0, n, skip)
<1>1. Walk(n, skip) = (CHOOSE f : IsWalk(f, n, skip, 0))[0]
  BY DEF Walk, IsWalk
<1>2. PICK f : IsWalk(f, n, skip, 0) /\ Walk(n, skip) = f[0]
  BY <1>1, WalkExists
<1>3. \A p \in 0 .. n + 8 : f[p] = IF p >= n THEN << >> ELSE <<p>> \o f[p + skip[p]]
  BY <1>2 DEF IsWalk
<1> DEFINE S == {m \in 0 .. n : \A p \in m .. n + 8 : StopsFrom(f[p], p, n, skip)}
<1>4. n \in S
  <2>1. \A p \in n .. n + 8 : p \in 0 .. n + 8 /\ p >= n /\ ~(p < n)
    OBVIOUS
  <2>2. << >> \in Seq(0 .. n - 1) /\ Len(<< >>) = 0
    OBVIOUS
  <2>3. \A p \in n .. n + 8 : f[p] = << >>
    BY <1>3, <2>1
  <2>4. ASSUME NEW p \in n .. n + 8 PROVE StopsFrom(f[p], p, n, skip)
    <3>1. f[p] = << >> /\ ~(p < n)
      BY <2>1, <2>3
    <3>2. 1 .. Len(f[p]) = {}
      BY <2>2, <3>1
    <3> QED  BY <2>2, <3>1, <3>2 DEF StopsFrom
  <2> QED  BY <2>4
<1>5. ASSUME NEW m \in 1 .. n, m \in S PROVE m - 1 \in S
  <2> DEFINE p == m - 1
             q == p + skip[p]
  <2>1. p \in 0 .. n - 1 /\ p \in 0 .. n + 8 /\ ~(p >= n) /\ p < n
    OBVIOUS
  <2>2. skip[p] \in 1 .. 8
    BY <2>1
  <2>3. q \in m .. n + 8
    BY <2>1, <2>2
  <2>4. f[p] = <<p>> \o f[q] /\ StopsFrom(f[q], q, n, skip)
    BY <1>3, <1>5, <2>1, <2>3
  <2> HIDE DEF p, q
  <2>5. f[q] \in Seq(0 .. n - 1) /\ <<p>> \in Seq(0 .. n - 1)
    BY <2>1, <2>4 DEF StopsFrom
  <2>6. /\ f[p] \in Seq(0 .. n - 1) /\ Len(f[p]) = 1 + Len(f[q]) /\ f[p][1] = p
        /\ \A i \in 1 .. Len(f[q]) : f[p][i + 1] = f[q][i]
    BY <2>4, <2>5
  <2>7. ASSUME NEW i \in 1 .. Len(f[p])
        PROVE  IF i < Len(f[p]) THEN f[p][i + 1] = f[p][i] + skip[f[p][i]]
                                ELSE f[p][i] + skip[f[p][i]] >= n
    <3>1. CASE i = 1
      <4>1. CASE q >= n
        BY <2>4, <2>6, <3>1, <4>1 DEF StopsFrom, q
      <4>2. CASE ~(q >= n)
        <5>1. Len(f[q]) > 0 /\ f[q][1] = q
          BY <2>3, <2>4, <2>5, <4>2 DEF StopsFrom
        <5>2. Len(f[q]) \in Nat
          BY <2>5
        <5>3. 1 \in 1 .. Len(f[q])
          BY <5>1, <5>2
        <5>4. f[p][1 + 1] = f[q][1] /\ 1 < Len(f[p])
          BY <2>6, <5>1, <5>2, <5>3
        <5>5. f[p][1 + 1] = f[p][1] + skip[f[p][1]]
          BY <2>6, <5>1, <5>4 DEF q
        <5> QED  BY <3>1, <5>4, <5>5
      <4> QED  BY <4>1, <4>2
    <3>2. CASE i # 1
      <4>1. /\ i - 1 \in 1 .. Len(f[q]) /\ (i - 1) + 1 = i
            /\ i < Len(f[p]) <=> i - 1 < Len(f[q])
        BY <2>5, <2>6, <3>2
      <4>2. f[p][i] = f[q][i - 1]
        BY <2>6, <4>1
      <4>3. IF i - 1 < Len(f[q]) THEN f[q][i] = f[q][i - 1] + skip[f[q][i - 1]]
                                 ELSE f[q][i - 1] + skip[f[q][i - 1]] >= n
        BY <2>4, <4>1 DEF StopsFrom
      <4>4. i < Len(f[p]) => f[p][i + 1] = f[q][i]
        BY <2>5, <2>6, <4>1
      <4> QED  BY <4>1, <4>2, <4>3, <4>4
    <3> QED  BY <3>1, <3>2
  <2>8. StopsFrom(f[p], p, n, skip)
    <3>1. f[p] # << >>
      BY <2>5, <2>6
    <3> QED  BY <2>1, <2>6, <2>7, <3>1 DEF StopsFrom
  <2>9. \A o \in m - 1 .. n + 8 : o = p \/ o \in m .. n + 8
    BY DEF p
  <2> QED  BY <1>5, <2>8, <2>9
<1>6. \A m \in 0 .. n : m \in S
  <2> HIDE DEF S
  <2> QED  BY <1>4, <1>5, Downward
<1>7. 0 \in S /\ 0 \in 0 .. n + 8
  BY <1>6
<1> QED  BY <1>2, <1>7


----------------------------------------------------------------------------
(* Comparison and search *)

\* The units of a string, and the NUL behind them.
UnitAt(s, i) == IF i <= Len(s) THEN s[i] ELSE 0

LEMMA Terminated ==
    ASSUME NEW S, NEW s \in Seq(S)
    PROVE  /\ Len(Append(s, 0)) = Len(s) + 1
           /\ DOMAIN Append(s, 0) = 1 .. Len(s) + 1
           /\ \A i \in 1 .. Len(s) + 1 : Append(s, 0)[i] = UnitAt(s, i)
BY DEF UnitAt

LEMMA UnitsAre ==
    ASSUME NEW s \in Seq(Nat \ {0})
    PROVE  \A i \in 1 .. Len(s) + 1 : /\ UnitAt(s, i) \in Nat
                                      /\ UnitAt(s, i) = 0 <=> i = Len(s) + 1
                                      /\ i <= Len(s) => UnitAt(s, i) = s[i]
<1> SUFFICES ASSUME NEW i \in 1 .. Len(s) + 1
             PROVE  /\ UnitAt(s, i) \in Nat
                    /\ UnitAt(s, i) = 0 <=> i = Len(s) + 1
                    /\ i <= Len(s) => UnitAt(s, i) = s[i]
  OBVIOUS
<1>1. CASE i <= Len(s)
  <2>1. i \in 1 .. Len(s) /\ i # Len(s) + 1
    BY <1>1
  <2>2. s[i] \in Nat \ {0}
    BY <2>1
  <2> QED  BY <1>1, <2>1, <2>2 DEF UnitAt
<1>2. CASE ~(i <= Len(s))
  BY <1>2 DEF UnitAt
<1> QED  BY <1>1, <1>2

\* d is the first place where two strings differ, or both end.
FirstStop(d, s, t) ==
    /\ d \in 1 .. Len(s) + 1 /\ d \in 1 .. Len(t) + 1
    /\ \A i \in 1 .. d - 1 : s[i] = t[i]
    /\ UnitAt(s, d) # UnitAt(t, d) \/ (d = Len(s) + 1 /\ d = Len(t) + 1)

LEMMA StopExists ==
    ASSUME NEW s \in Seq(Nat \ {0}), NEW t \in Seq(Nat \ {0})
    PROVE  \E d : FirstStop(d, s, t)
<1>0. PICK n \in Nat, m \in Nat : n = Len(s) /\ m = Len(t)
  OBVIOUS
<1> DEFINE T == {i \in Nat \ {0} : /\ i <= n + 1 /\ i <= m + 1
                                   /\ UnitAt(s, i) # UnitAt(t, i) \/ (i = n + 1 /\ i = m + 1)}
<1>1. T # {}
  <2>1. CASE n = m
    <3>1. n + 1 \in T
      BY <2>1
    <3> QED  BY <3>1
  <2>2. CASE n < m
    <3>1. UnitAt(s, n + 1) = 0
      BY <1>0, UnitsAre
    <3>2. n + 1 \in 1 .. Len(t) + 1 /\ n + 1 # Len(t) + 1
      BY <1>0, <2>2
    <3>3. UnitAt(t, n + 1) # 0
      BY <3>2, UnitsAre
    <3>4. n + 1 \in T
      BY <2>2, <3>1, <3>3
    <3> QED  BY <3>4
  <2>3. CASE m < n
    <3>1. UnitAt(t, m + 1) = 0
      BY <1>0, UnitsAre
    <3>2. m + 1 \in 1 .. Len(s) + 1 /\ m + 1 # Len(s) + 1
      BY <1>0, <2>3
    <3>3. UnitAt(s, m + 1) # 0
      BY <3>2, UnitsAre
    <3>4. m + 1 \in T
      BY <2>3, <3>1, <3>3
    <3> QED  BY <3>4
  <2> HIDE DEF T
  <2> QED  BY <2>1, <2>2, <2>3
<1>2. PICK d \in T : \A i \in T : d <= i
  <2>1. T \in SUBSET Nat
    OBVIOUS
  <2> HIDE DEF T
  <2> QED  BY <1>1, <2>1, Smallest
<1>3. ASSUME NEW i \in 1 .. d - 1 PROVE s[i] = t[i]
  <2>1. i \notin T /\ i <= n /\ i <= m /\ i \in Nat \ {0} /\ i <= n + 1 /\ i <= m + 1
    BY <1>2
  <2>2. UnitAt(s, i) = UnitAt(t, i)
    BY <2>1
  <2> QED  BY <1>0, <2>1, <2>2 DEF UnitAt
<1>4. /\ d \in 1 .. Len(s) + 1 /\ d \in 1 .. Len(t) + 1
      /\ UnitAt(s, d) # UnitAt(t, d) \/ (d = Len(s) + 1 /\ d = Len(t) + 1)
  BY <1>0, <1>2
<1> QED  BY <1>3, <1>4 DEF FirstStop

\* strcmp16 of the terminated strings, and strzcmp16, are the difference there.
LEMMA StrcmpIs ==
    ASSUME NEW s \in Seq(Nat \ {0}), NEW t \in Seq(Nat \ {0}), NEW d, FirstStop(d, s, t)
    PROVE  Strcmp16(Append(s, 0), Append(t, 0)) = UnitAt(s, d) - UnitAt(t, d)
<1>0. PICK n \in Nat, m \in Nat : n = Len(s) /\ m = Len(t)
  OBVIOUS
<1> DEFINE x == Append(s, 0)
           y == Append(t, 0)
           T == {i \in DOMAIN x \cap DOMAIN y : i <= Len(x) /\ (x[i] # y[i] \/ x[i] = 0)}
<1>1. /\ DOMAIN x = 1 .. n + 1 /\ DOMAIN y = 1 .. m + 1 /\ Len(x) = n + 1
      /\ \A i \in 1 .. n + 1 : x[i] = UnitAt(s, i)
      /\ \A i \in 1 .. m + 1 : y[i] = UnitAt(t, i)
  BY <1>0, Terminated
<1> HIDE DEF x, y
<1>2. d \in 1 .. n + 1 /\ d \in 1 .. m + 1
  BY <1>0 DEF FirstStop
<1>3. d \in T
  <2>1. CASE UnitAt(s, d) # UnitAt(t, d)
    BY <1>1, <1>2, <2>1
  <2>2. CASE d = n + 1
    <3>1. UnitAt(s, d) = 0
      BY <1>0, <1>2, <2>2, UnitsAre
    <3> QED  BY <1>1, <1>2, <3>1
  <2> QED  BY <1>0, <2>1, <2>2 DEF FirstStop
<1>4. ASSUME NEW i \in T, i < d PROVE FALSE
  <2>1. i \in 1 .. d - 1 /\ i \in 1 .. n + 1 /\ i \in 1 .. m + 1 /\ i # n + 1 /\ i <= n /\ i <= m
    BY <1>1, <1>2, <1>4
  <2>2. s[i] = t[i]
    BY <2>1 DEF FirstStop
  <2>3. x[i] = s[i] /\ y[i] = t[i]
    BY <1>0, <1>1, <2>1 DEF UnitAt
  <2>4. UnitAt(s, i) # 0
    BY <1>0, <2>1, UnitsAre
  <2> QED  BY <1>0, <1>1, <1>4, <2>1, <2>2, <2>3, <2>4
<1>5. T \in SUBSET Nat
  BY <1>1
<1>6. Strcmp16(x, y) = IF T = {} THEN 0 ELSE x[Min(T)] - y[Min(T)]
  BY DEF Strcmp16, Strncmp16
<1> HIDE DEF T
<1>7. Min(T) = d
  <2>1. \A i \in T : ~(i < d)
    BY <1>4
  <2> QED  BY <1>3, <1>5, <2>1, MinBy
<1> QED  BY <1>1, <1>2, <1>3, <1>6, <1>7 DEF x, y

LEMMA StrzcmpIs ==
    ASSUME NEW s \in Seq(Nat \ {0}), NEW t \in Seq(Nat \ {0}), NEW d, FirstStop(d, s, t)
    PROVE  Strzcmp16(s, t) = UnitAt(s, d) - UnitAt(t, d)
<1>0. PICK n \in Nat, m \in Nat : n = Len(s) /\ m = Len(t)
  OBVIOUS
<1> DEFINE T == {i \in DOMAIN s \cap DOMAIN t : s[i] # t[i]}
<1>1. DOMAIN s = 1 .. n /\ DOMAIN t = 1 .. m
  BY <1>0
<1>2. d \in 1 .. n + 1 /\ d \in 1 .. m + 1 /\ T \in SUBSET Nat
  BY <1>0, <1>1 DEF FirstStop
<1>3. \A i \in T : ~(i < d)
  BY <1>1, <1>2 DEF FirstStop
<1>4. CASE d <= n /\ d <= m
  <2>1. UnitAt(s, d) = s[d] /\ UnitAt(t, d) = t[d]
    BY <1>0, <1>4 DEF UnitAt
  <2>2. d \in T
    BY <1>0, <1>1, <1>2, <1>4, <2>1 DEF FirstStop
  <2>3. Strzcmp16(s, t) = IF T # {} THEN s[Min(T)] - t[Min(T)]
                          ELSE IF Len(s) < Len(t) THEN 0 - t[Len(s) + 1]
                          ELSE IF Len(s) > Len(t) THEN s[Len(t) + 1] ELSE 0
    BY DEF Strzcmp16
  <2> HIDE DEF T
  <2>4. Min(T) = d
    BY <1>2, <1>3, <2>2, MinBy
  <2> QED  BY <2>1, <2>2, <2>3, <2>4
<1>5. CASE d > n \/ d > m
  <2>1. T = {}
    BY <1>1, <1>2, <1>3, <1>5
  <2>2. Strzcmp16(s, t) = IF n < m THEN 0 - t[n + 1] ELSE IF n > m THEN s[m + 1] ELSE 0
    BY <1>0, <2>1 DEF Strzcmp16
  <2>3. CASE n < m
    <3>1. d = n + 1 /\ UnitAt(s, d) = 0 /\ UnitAt(t, d) = t[n + 1]
      BY <1>0, <1>2, <1>5, <2>3 DEF UnitAt
    <3> QED  BY <2>2, <2>3, <3>1
  <2>4. CASE n > m
    <3>1. d = m + 1 /\ UnitAt(t, d) = 0 /\ UnitAt(s, d) = s[m + 1] /\ ~(n < m)
      BY <1>0, <1>2, <1>5, <2>4 DEF UnitAt
    <3>2. s[m + 1] \in Int
      BY <1>0, <2>4
    <3> QED  BY <2>2, <2>4, <3>1, <3>2
  <2>5. CASE n = m
    <3>1. UnitAt(s, d) = 0 /\ UnitAt(t, d) = 0
      BY <1>0, <1>2, <1>5, <2>5 DEF UnitAt
    <3>2. Strzcmp16(s, t) = 0
      BY <2>2, <2>5
    <3> QED  BY <3>1, <3>2
  <2> QED  BY <2>3, <2>4, <2>5
<1>6. (d <= n /\ d <= m) \/ d > n \/ d > m
  BY <1>2
<1> QED  BY <1>4, <1>5, <1>6

\* Twice from one byte order into the other.
LEMMA NtohsTwice ==
    ASSUME NEW t \in Seq(Nat), \A i \in DOMAIN t : t[i] < 65536
    PROVE  AsSeq(AsSeq(t, Ntohs), Ntohs) = t
<1>1. ASSUME NEW u \in Nat, u < 65536 PROVE Ntohs(Ntohs(u)) = u
  <2>1. PICK a \in Nat, b \in Nat : a = u % 256 /\ b = u \div 256
    OBVIOUS
  <2>2. a < 256 /\ b < 256 /\ u = 256 * b + a
    BY <1>1, <2>1
  <2>3. Ntohs(u) = a * 256 + b
    BY <2>1 DEF Ntohs
  <2>4. (a * 256 + b) % 256 = b /\ (a * 256 + b) \div 256 = a
    BY <2>2
  <2> QED  BY <2>2, <2>3, <2>4 DEF Ntohs
<1>2. \A i \in DOMAIN t : t[i] \in Nat /\ t[i] < 65536
  BY SMT
<1>3. AsSeq(AsSeq(t, Ntohs), Ntohs) = [i \in DOMAIN t |-> Ntohs(Ntohs(t[i]))]
  BY DEF AsSeq
<1>4. AsSeq(AsSeq(t, Ntohs), Ntohs) = [i \in DOMAIN t |-> t[i]]
  BY <1>1, <1>2, <1>3
<1> QED  BY <1>4

LEMMA StrlenIs ==
    ASSUME NEW s \in Seq(Nat \ {0})
    PROVE  Strlen(Append(s, 0)) = Len(s)
<1>0. PICK n \in Nat : n = Len(s)
  OBVIOUS
<1> DEFINE x == Append(s, 0)
<1>1. /\ Len(x) = n + 1 /\ x[n + 1] = 0
      /\ \A i \in 1 .. n : x[i] # 0
  <2>1. Len(x) = n + 1 /\ \A i \in 1 .. n + 1 : x[i] = UnitAt(s, i)
    BY <1>0, Terminated
  <2>2. \A i \in 1 .. n + 1 : UnitAt(s, i) = 0 <=> i = n + 1
    BY <1>0, UnitsAre
  <2> HIDE DEF x
  <2> QED  BY <2>1, <2>2
<1> HIDE DEF x
<1>2. ASSUME NEW k \in 0 .. n PROVE Strnlen(x, k + 1) = k <=> k = n
  <2> DEFINE Stops(j) == /\ j = k + 1 \/ x[j + 1] = 0
                         /\ \A i \in 1 .. j : x[i] # 0
  <2>1. CASE k = n
    <3>1. n \in 0 .. k + 1 /\ Stops(n)
      BY <1>1, <2>1
    <3>2. ASSUME NEW j \in 0 .. k + 1, Stops(j) PROVE j = n
      <4>1. j # k + 1
        BY <1>1, <2>1, <3>2
      <4>2. x[j + 1] = 0 /\ j + 1 \in 1 .. n + 1
        BY <2>1, <3>2, <4>1
      <4> QED  BY <1>1, <4>2
    <3> QED  BY <2>1, <3>1, <3>2 DEF Strnlen
  <2>2. CASE k # n
    <3>1. k + 1 \in 0 .. k + 1 /\ Stops(k + 1)
      BY <1>1, <2>2
    <3>2. ASSUME NEW j \in 0 .. k + 1, Stops(j) PROVE j = k + 1
      <4>1. CASE j # k + 1
        <5>1. x[j + 1] = 0 /\ j + 1 \in 1 .. n
          BY <2>2, <3>2, <4>1
        <5> QED  BY <1>1, <5>1
      <4> QED  BY <4>1
    <3>3. Strnlen(x, k + 1) = k + 1
      BY <3>1, <3>2 DEF Strnlen
    <3> QED  BY <2>2, <3>3
  <2> QED  BY <2>1, <2>2
<1>3. Len(x) - 1 = n /\ n \in 0 .. n
  BY <1>1
<1> QED  BY <1>0, <1>2, <1>3 DEF Strlen, x


LEMMA RestOf ==
    ASSUME NEW x \in Seq(Nat), NEW k \in 0 .. Len(x)
    PROVE  /\ DOMAIN After(x, k) = 1 .. Len(x) - k
           /\ \A i \in 1 .. Len(x) - k : After(x, k)[i] = x[k + i]
<1>1. PICK n \in Nat : n = Len(x)
  OBVIOUS
<1>2. After(x, k) = SubSeq(x, k + 1, n)
  BY <1>1 DEF After
<1>3. SubSeq(x, k + 1, n) = [i \in 1 .. (1 + n) - (k + 1) |-> x[i + (k + 1) - 1]]
  BY <1>1
<1>4. (1 + n) - (k + 1) = n - k /\ \A i \in 1 .. n - k : i + (k + 1) - 1 = k + i
  BY <1>1
<1>5. DOMAIN SubSeq(x, k + 1, n) = 1 .. n - k
  BY <1>3, <1>4
<1>6. \A i \in 1 .. n - k : SubSeq(x, k + 1, n)[i] = x[k + i]
  BY <1>3, <1>4
<1> QED  BY <1>1, <1>2, <1>5, <1>6

\* What strncmp16 finds where the rest of a target is looked for: all of it, or not.
LEMMA RestFound ==
    ASSUME NEW s \in Seq(Nat \ {0}), NEW t \in Seq(Nat \ {0}), t # << >>,
           NEW p \in 0 .. Len(s) - 1
    PROVE  Strncmp16(After(Append(s, 0), p + 1), After(Append(t, 0), 1), Len(t) - 1) = 0
             <=> /\ p \in 0 .. Len(s) - Len(t)
                 /\ \A i \in 2 .. Len(t) : s[p + i] = t[i]
<1>0. PICK n \in Nat, m \in Nat : n = Len(s) /\ m = Len(t)
  OBVIOUS
<1>1. m > 0 /\ p \in 0 .. n - 1
  BY <1>0, NoneLeft
<1> DEFINE a == After(Append(s, 0), p + 1)
           b == After(Append(t, 0), 1)
           T == {i \in DOMAIN a \cap DOMAIN b : i <= m - 1 /\ (a[i] # b[i] \/ a[i] = 0)}
<1>2. DOMAIN a = 1 .. n - p /\ \A i \in 1 .. n - p : a[i] = UnitAt(s, p + 1 + i)
  <2>1. /\ Append(s, 0) \in Seq(Nat) /\ Len(Append(s, 0)) = n + 1
        /\ \A i \in 1 .. n + 1 : Append(s, 0)[i] = UnitAt(s, i)
    <3>1. s \in Seq(Nat) /\ Append(s, 0) \in Seq(Nat)
      OBVIOUS
    <3>2. /\ Len(Append(s, 0)) = Len(s) + 1
          /\ \A i \in 1 .. Len(s) + 1 : Append(s, 0)[i] = UnitAt(s, i)
      BY <3>1, Terminated
    <3> QED  BY <1>0, <3>1, <3>2
  <2>2. PICK x \in Seq(Nat) : x = Append(s, 0)
    BY <2>1
  <2>3. p + 1 \in 0 .. Len(x) /\ Len(x) - (p + 1) = n - p
    BY <1>1, <2>1, <2>2
  <2>4. \A i \in 1 .. n - p : p + 1 + i \in 1 .. n + 1
    BY <1>1
  <2>5. DOMAIN a = 1 .. n - p /\ \A i \in 1 .. n - p : a[i] = x[p + 1 + i]
    BY <2>2, <2>3, RestOf
  <2> HIDE DEF a
  <2> QED  BY <2>1, <2>2, <2>4, <2>5
<1>3. DOMAIN b = 1 .. m /\ \A i \in 1 .. m : b[i] = UnitAt(t, 1 + i)
  <2>1. /\ Append(t, 0) \in Seq(Nat) /\ Len(Append(t, 0)) = m + 1
        /\ \A i \in 1 .. m + 1 : Append(t, 0)[i] = UnitAt(t, i)
    <3>1. t \in Seq(Nat) /\ Append(t, 0) \in Seq(Nat)
      OBVIOUS
    <3>2. /\ Len(Append(t, 0)) = Len(t) + 1
          /\ \A i \in 1 .. Len(t) + 1 : Append(t, 0)[i] = UnitAt(t, i)
      BY <3>1, Terminated
    <3> QED  BY <1>0, <3>1, <3>2
  <2>2. PICK y \in Seq(Nat) : y = Append(t, 0)
    BY <2>1
  <2>3. 1 \in 0 .. Len(y) /\ Len(y) - 1 = m
    BY <2>1, <2>2
  <2>4. \A i \in 1 .. m : 1 + i \in 1 .. m + 1
    OBVIOUS
  <2>5. DOMAIN b = 1 .. m /\ \A i \in 1 .. m : b[i] = y[1 + i]
    BY <2>2, <2>3, RestOf
  <2> HIDE DEF b
  <2> QED  BY <2>1, <2>2, <2>4, <2>5
<1>4. Strncmp16(a, b, m - 1) = IF T = {} THEN 0 ELSE a[Min(T)] - b[Min(T)]
  BY DEF Strncmp16
<1> HIDE DEF a, b
<1>5. \A i \in 1 .. n + 1 : /\ UnitAt(s, i) \in Nat /\ (UnitAt(s, i) = 0 <=> i = n + 1)
                            /\ i <= n => UnitAt(s, i) = s[i]
  BY <1>0, UnitsAre
<1>6. \A i \in 1 .. m + 1 : /\ UnitAt(t, i) \in Nat /\ (UnitAt(t, i) = 0 <=> i = m + 1)
                            /\ i <= m => UnitAt(t, i) = t[i]
  BY <1>0, UnitsAre
<1>7. ASSUME NEW i \in T
      PROVE  /\ i \in 1 .. n - p /\ i \in 1 .. m /\ i \in Nat
             /\ p + 1 + i \in 1 .. n + 1 /\ 1 + i \in 1 .. m + 1 /\ 1 + i <= m
  <2>1. i \in 1 .. n - p /\ i \in 1 .. m /\ i <= m - 1
    BY <1>2, <1>3
  <2> QED  BY <1>1, <2>1
<1>8. ASSUME NEW i \in T PROVE a[i] \in Nat /\ b[i] \in Nat /\ a[i] # b[i]
  <2>1. /\ i \in 1 .. n - p /\ i \in 1 .. m /\ p + 1 + i \in 1 .. n + 1 /\ 1 + i \in 1 .. m + 1
        /\ 1 + i # m + 1
    BY <1>7
  <2>2. a[i] = UnitAt(s, p + 1 + i) /\ b[i] = UnitAt(t, 1 + i)
    BY <1>2, <1>3, <2>1
  <2>3. UnitAt(s, p + 1 + i) \in Nat
    BY <1>5, <2>1
  <2>4. UnitAt(t, 1 + i) \in Nat /\ UnitAt(t, 1 + i) # 0
    BY <1>6, <2>1
  <2>5. a[i] # b[i] \/ a[i] = 0
    OBVIOUS
  <2> QED  BY <2>2, <2>3, <2>4, <2>5
<1>9. Strncmp16(a, b, m - 1) = 0 <=> T = {}
  <2>1. CASE T = {}
    BY <1>4, <2>1
  <2>2. CASE T # {}
    <3>1. T \in SUBSET Nat
      BY <1>7
    <3> HIDE DEF T
    <3>2. Min(T) \in T
      BY <2>2, <3>1, MinIs
    <3>3. \A u, v \in Nat : u # v => u - v # 0
      OBVIOUS
    <3> QED  BY <1>4, <1>8, <2>2, <3>2, <3>3
  <2> QED  BY <2>1, <2>2
<1>10. ASSUME T = {}
       PROVE  p \in 0 .. n - m /\ \A i \in 2 .. m : s[p + i] = t[i]
  <2>1. p <= n - m
    <3> SUFFICES ASSUME ~(p <= n - m) PROVE FALSE
      OBVIOUS
    <3>1. n - p \in 1 .. n - p /\ n - p \in 1 .. m /\ n - p <= m - 1 /\ p + 1 + (n - p) = n + 1
      BY <1>1
    <3>2. a[n - p] = 0
      BY <1>2, <1>5, <3>1
    <3>3. n - p \in T
      BY <1>2, <1>3, <3>1, <3>2
    <3> QED  BY <1>10, <3>3
  <2>2. ASSUME NEW i \in 2 .. m PROVE s[p + i] = t[i]
    <3>1. /\ i - 1 \in 1 .. n - p /\ i - 1 \in 1 .. m /\ i - 1 <= m - 1
          /\ p + 1 + (i - 1) = p + i /\ 1 + (i - 1) = i
          /\ p + i \in 1 .. n + 1 /\ i \in 1 .. m + 1 /\ p + i <= n /\ i <= m
      BY <1>1, <2>1
    <3>2. a[i - 1] = s[p + i] /\ b[i - 1] = t[i]
      BY <1>2, <1>3, <1>5, <1>6, <3>1
    <3>3. i - 1 \notin T
      BY <1>10
    <3> QED  BY <1>2, <1>3, <3>1, <3>2, <3>3
  <2> QED  BY <1>1, <2>1, <2>2
<1>11. ASSUME p \in 0 .. n - m, \A i \in 2 .. m : s[p + i] = t[i], NEW i \in T
       PROVE  FALSE
  <2>1. /\ i \in 1 .. n - p /\ i \in 1 .. m /\ 1 + i \in 2 .. m
        /\ p + 1 + i = p + (1 + i) /\ p + (1 + i) \in 1 .. n + 1 /\ 1 + i \in 1 .. m + 1
        /\ p + (1 + i) <= n /\ 1 + i <= m
    <3>1. i \in 1 .. n - p /\ i \in 1 .. m /\ 1 + i <= m
      BY <1>7
    <3>2. p \in Nat /\ p <= n - m
      BY <1>1, <1>11
    <3> QED  BY <3>1, <3>2
  <2>2. a[i] = s[p + (1 + i)] /\ b[i] = t[1 + i]
    BY <1>2, <1>3, <1>5, <1>6, <2>1
  <2>3. s[p + (1 + i)] = t[1 + i]
    BY <1>11, <2>1
  <2> QED  BY <1>8, <2>2, <2>3
<1>12. T = {} <=> p \in 0 .. n - m /\ \A i \in 2 .. m : s[p + i] = t[i]
  <2> HIDE DEF T
  <2> QED  BY <1>10, <1>11
<1> QED  BY <1>0, <1>9, <1>12 DEF a, b

LEMMA FoundAtIs ==
    ASSUME NEW s \in Seq(Nat \ {0}), NEW t \in Seq(Nat \ {0}), t # << >>
    PROVE  FoundAt(Append(s, 0), Append(t, 0))
             = {p \in 0 .. Len(s) - Len(t) : \A i \in 1 .. Len(t) : s[p + i] = t[i]}
<1>0. PICK n \in Nat, m \in Nat : n = Len(s) /\ m = Len(t)
  OBVIOUS
<1>1. m > 0
  BY <1>0, NoneLeft
<1> DEFINE x == Append(s, 0)
           y == Append(t, 0)
<1>2. Strlen(x) = n /\ Strlen(y) = m
  BY <1>0, StrlenIs
<1>3. \A p \in 0 .. n - 1 : x[p + 1] = s[p + 1]
  BY <1>0
<1>4. y[1] = t[1]
  BY <1>0, <1>1
<1> HIDE DEF x, y
<1>5. FoundAt(x, y) = {p \in 0 .. n - 1 :
                         /\ x[p + 1] = y[1]
                         /\ Strncmp16(After(x, p + 1), After(y, 1), m - 1) = 0}
  BY <1>2 DEF FoundAt
<1>6. \A p \in 0 .. n - 1 :
         Strncmp16(After(x, p + 1), After(y, 1), m - 1) = 0
           <=> p \in 0 .. n - m /\ \A i \in 2 .. m : s[p + i] = t[i]
  BY <1>0, RestFound DEF x, y
<1>7. 0 .. n - m \subseteq 0 .. n - 1
  BY <1>1
<1>8. ASSUME NEW p \in 0 .. n - m
      PROVE  (s[p + 1] = t[1] /\ \A i \in 2 .. m : s[p + i] = t[i])
               <=> \A i \in 1 .. m : s[p + i] = t[i]
  <2>1. 1 \in 1 .. m /\ \A i \in 1 .. m : i = 1 \/ i \in 2 .. m
    BY <1>1
  <2>2. \A i \in 2 .. m : i \in 1 .. m
    OBVIOUS
  <2> QED  BY <2>1, <2>2
<1>9. FoundAt(x, y) = {p \in 0 .. n - m : \A i \in 1 .. m : s[p + i] = t[i]}
  <2>1. ASSUME NEW p \in 0 .. n - 1
        PROVE  (x[p + 1] = y[1] /\ Strncmp16(After(x, p + 1), After(y, 1), m - 1) = 0)
                 <=> (p \in 0 .. n - m /\ \A i \in 1 .. m : s[p + i] = t[i])
    <3>1. x[p + 1] = s[p + 1] /\ y[1] = t[1]
      BY <1>3, <1>4
    <3> QED  BY <1>6, <1>8, <3>1
  <2> QED  BY <1>5, <1>7, <2>1
<1> QED  BY <1>0, <1>9 DEF x, y


LEMMA Slice ==
    ASSUME NEW s \in Seq(Nat), NEW p \in Nat, NEW m \in Nat, p + m <= Len(s)
    PROVE  SubSeq(s, p + 1, p + m) = [i \in 1 .. m |-> s[p + i]]
<1>1. SubSeq(s, p + 1, p + m) = [i \in 1 .. (1 + (p + m)) - (p + 1) |-> s[i + (p + 1) - 1]]
  OBVIOUS
<1>2. (1 + (p + m)) - (p + 1) = m /\ \A i \in 1 .. m : i + (p + 1) - 1 = p + i
  OBVIOUS
<1> QED  BY <1>1, <1>2

LEMMA Prefix ==
    ASSUME NEW s \in Seq(Nat), NEW n \in 0 .. Len(s)
    PROVE  SubSeq(s, 1, n) = [i \in 1 .. n |-> s[i]]
<1>1. SubSeq(s, 0 + 1, 0 + n) = [i \in 1 .. n |-> s[0 + i]]
  BY Slice
<1>2. 0 + 1 = 1 /\ 0 + n = n /\ \A i \in 1 .. n : 0 + i = i
  OBVIOUS
<1> QED  BY <1>1, <1>2


LEMMA Restricted ==
    ASSUME NEW s \in Seq(Nat), NEW S, \A i \in DOMAIN s : s[i] \in S
    PROVE  s \in Seq(S)
<1>1. DOMAIN s = 1 .. Len(s) /\ Len(s) \in Nat /\ s = [i \in 1 .. Len(s) |-> s[i]]
  OBVIOUS
<1>2. s \in [1 .. Len(s) -> S]
  BY <1>1
<1> QED  BY <1>1, <1>2


----------------------------------------------------------------------------
(* A walk has only one sequence of stops *)

LEMMA SameStops ==
    ASSUME NEW n \in Nat, NEW skip \in [0 .. n - 1 -> 1 .. 8],
           NEW w, StopsFrom(w, 0, n, skip), NEW v, StopsFrom(v, 0, n, skip)
    PROVE  Len(w) <= Len(v) /\ \A i \in 1 .. Len(w) : v[i] = w[i]
<1>0. PICK l \in Nat, m \in Nat : l = Len(w) /\ m = Len(v)
  BY DEF StopsFrom
<1>1. /\ w \in Seq(0 .. n - 1) /\ v \in Seq(0 .. n - 1)
      /\ \A i \in 1 .. l : IF i < l THEN w[i + 1] = w[i] + skip[w[i]] ELSE w[i] + skip[w[i]] >= n
      /\ \A i \in 1 .. m : IF i < m THEN v[i + 1] = v[i] + skip[v[i]] ELSE v[i] + skip[v[i]] >= n
  BY <1>0 DEF StopsFrom
<1> DEFINE S == {i \in 0 .. l : i # 0 => i <= m /\ v[i] = w[i]}
<1>2. 0 \in S
  OBVIOUS
<1>3. ASSUME NEW i \in 0 .. l - 1, i \in S PROVE i + 1 \in S
  <2>1. CASE i = 0
    <3>1. w # << >> /\ ~(0 >= n)
      <4>1. w # << >>
        BY <1>0, <2>1
      <4> QED  BY <4>1 DEF StopsFrom
    <3>2. w[1] = 0 /\ v[1] = 0 /\ v # << >>
      BY <3>1 DEF StopsFrom
    <3>3. 1 <= m
      BY <1>0, <1>1, <3>2, NoneLeft
    <3> QED  BY <2>1, <3>2, <3>3
  <2>2. CASE i # 0
    <3>1. i \in 1 .. l /\ i < l /\ i <= m /\ v[i] = w[i] /\ i \in 1 .. m /\ i + 1 \in 1 .. l
      BY <1>3, <2>2
    <3>2. w[i + 1] = w[i] + skip[w[i]] /\ w[i + 1] \in 0 .. n - 1
      BY <1>0, <1>1, <3>1
    <3>3. i < m
      BY <1>1, <3>1, <3>2
    <3>4. v[i + 1] = v[i] + skip[v[i]]
      BY <1>1, <3>1, <3>3
    <3> QED  BY <3>1, <3>2, <3>3, <3>4
  <2> QED  BY <2>1, <2>2
<1>4. \A i \in 0 .. l : i \in S
  <2> HIDE DEF S
  <2> QED  BY <1>2, <1>3, Upward
<1>5. l <= m
  BY <1>4
<1> QED  BY <1>0, <1>4, <1>5

LEMMA WalkBy ==
    ASSUME NEW n \in Nat, NEW skip \in [0 .. n - 1 -> 1 .. 8],
           NEW w, StopsFrom(w, 0, n, skip)
    PROVE  Walk(n, skip) = w
<1> DEFINE v == Walk(n, skip)
<1>1. StopsFrom(v, 0, n, skip)
  BY WalkStops
<1> HIDE DEF v
<1>2. Len(w) <= Len(v) /\ \A i \in 1 .. Len(w) : v[i] = w[i]
  BY <1>1, SameStops
<1>3. Len(v) <= Len(w)
  BY <1>1, SameStops
<1>4. v \in Seq(0 .. n - 1) /\ w \in Seq(0 .. n - 1)
  BY <1>1 DEF StopsFrom
<1>5. Len(v) = Len(w)
  BY <1>2, <1>3, <1>4
<1>6. v = w
  BY <1>2, <1>4, <1>5
<1> QED  BY <1>6 DEF v

----------------------------------------------------------------------------
(* The length of what is converted is the length measured *)

LEMMA SeqBy ==
    ASSUME NEW S, NEW T, NEW s \in Seq(S), NEW f,
           f = [i \in DOMAIN s |-> f[i]], \A i \in 1 .. Len(s) : f[i] \in T
    PROVE  f \in Seq(T) /\ Len(f) = Len(s)
<1>1. DOMAIN s = 1 .. Len(s) /\ Len(s) \in Nat
  OBVIOUS
<1>2. f \in [1 .. Len(s) -> T]
  BY <1>1
<1> QED  BY <1>1, <1>2

LEMMA ToUtf8Is ==
    ASSUME NEW c \in Nat
    PROVE  /\ ToUtf8(c) \in Seq(Int) /\ Len(ToUtf8(c)) = CodepointUtf8Length(c)
           /\ CodepointUtf8Length(c) \in Int
<1>1. CodepointUtf8Length(c) \in 0 .. 4
  BY DEF CodepointUtf8Length
<1>2. ASSUME NEW b \in 0 .. 4
      PROVE  CodepointToUtf8(c, b) \in Seq(Int) /\ Len(CodepointToUtf8(c, b)) = b
  <2>1. ASSUME NEW i \in 1 .. b
        PROVE  (IF i = 1 THEN (c \div Shift[b]) + FirstByteMark[b]
                         ELSE 128 + ((c \div Shift[b - i + 1]) % 64)) \in Int
    <3>1. \A j \in 1 .. 4 : Shift[j] \in Nat \ {0} /\ FirstByteMark[j] \in Int
      BY SMT DEF Shift, FirstByteMark
    <3>2. b \in 1 .. 4 /\ b - i + 1 \in 1 .. 4
      OBVIOUS
    <3>3. PICK d \in Nat \ {0}, e \in Nat \ {0}, f \in Int :
             d = Shift[b] /\ e = Shift[b - i + 1] /\ f = FirstByteMark[b]
      BY <3>1, <3>2
    <3>4. c \div d \in Int /\ c \div e \in Int
      OBVIOUS
    <3>5. (c \div e) % 64 \in Int
      BY <3>4
    <3> QED  BY <3>3, <3>4, <3>5
  <2>2. CodepointToUtf8(c, b) \in [1 .. b -> Int] /\ b \in Nat
    BY <2>1 DEF CodepointToUtf8
  <2> QED  BY <2>2
<1>3. PICK b \in 0 .. 4 : b = CodepointUtf8Length(c)
  BY <1>1
<1>4. ToUtf8(c) = CodepointToUtf8(c, b)
  BY <1>3 DEF ToUtf8
<1>5. CodepointToUtf8(c, b) \in Seq(Int) /\ Len(CodepointToUtf8(c, b)) = b
  BY <1>2
<1>6. b \in Int
  OBVIOUS
<1> QED  BY <1>3, <1>4, <1>5, <1>6

\* From UTF-32: every code point is as long as was measured for it.
LEMMA Utf32Length ==
    ASSUME NEW s \in Seq(Nat)
    PROVE  /\ Utf32ToUtf8(s) \in Seq(Int)
           /\ Len(Utf32ToUtf8(s)) = Total(AsSeq(s, CodepointUtf8Length))
<1>0. DOMAIN s = 1 .. Len(s) /\ \A i \in 1 .. Len(s) : s[i] \in Nat
  OBVIOUS
<1>1. /\ AsSeq(s, ToUtf8) \in Seq(Seq(Int)) /\ Len(AsSeq(s, ToUtf8)) = Len(s)
      /\ \A i \in 1 .. Len(s) : AsSeq(s, ToUtf8)[i] = ToUtf8(s[i])
  <2>1. \A i \in 1 .. Len(s) : ToUtf8(s[i]) \in Seq(Int)
    BY <1>0, ToUtf8Is
  <2> DEFINE f == AsSeq(s, ToUtf8)
  <2>2. f = [i \in DOMAIN s |-> f[i]] /\ \A i \in DOMAIN s : f[i] = ToUtf8(s[i])
    BY DEF AsSeq
  <2> HIDE DEF f
  <2>3. f \in Seq(Seq(Int)) /\ Len(f) = Len(s)
    BY <1>0, <2>1, <2>2, SeqBy
  <2> QED  BY <1>0, <2>2, <2>3 DEF f
<1>2. /\ Len(AsSeq(s, CodepointUtf8Length)) = Len(s)
      /\ AsSeq(s, CodepointUtf8Length) \in Seq(Int)
      /\ \A i \in 1 .. Len(s) : AsSeq(s, CodepointUtf8Length)[i] = CodepointUtf8Length(s[i])
  <2>1. \A i \in 1 .. Len(s) : CodepointUtf8Length(s[i]) \in Int
    BY <1>0, ToUtf8Is
  <2> DEFINE f == AsSeq(s, CodepointUtf8Length)
  <2>2. f = [i \in DOMAIN s |-> f[i]] /\ \A i \in DOMAIN s : f[i] = CodepointUtf8Length(s[i])
    BY DEF AsSeq
  <2> HIDE DEF f
  <2>3. f \in Seq(Int) /\ Len(f) = Len(s)
    BY <1>0, <2>1, <2>2, SeqBy
  <2> QED  BY <1>0, <2>2, <2>3 DEF f
<1>3. Lens(AsSeq(s, ToUtf8)) = AsSeq(s, CodepointUtf8Length)
  <2> DEFINE parts == AsSeq(s, ToUtf8)
             lens == AsSeq(s, CodepointUtf8Length)
  <2>1. /\ Lens(parts) \in Seq(Nat) /\ Len(Lens(parts)) = Len(s)
        /\ \A i \in 1 .. Len(s) : Lens(parts)[i] = Len(parts[i])
    BY <1>1, LensSeq
  <2>2. \A i \in 1 .. Len(s) : s[i] \in Nat
    OBVIOUS
  <2>3. \A i \in 1 .. Len(s) : Len(ToUtf8(s[i])) = CodepointUtf8Length(s[i])
    BY <2>2, ToUtf8Is
  <2>4. \A i \in 1 .. Len(s) : Lens(parts)[i] = lens[i]
    BY <1>1, <1>2, <2>1, <2>3
  <2>5. Len(Lens(parts)) = Len(lens) /\ lens \in Seq(Int)
    BY <1>2, <2>1
  <2> HIDE DEF parts, lens
  <2>6. PICK l \in Seq(Nat) : l = Lens(parts)
    BY <2>1
  <2>7. l = lens
    BY <2>1, <2>4, <2>5, <2>6
  <2> QED  BY <2>6, <2>7 DEF parts, lens
<1> QED  BY <1>1, <1>3, FlattenIs, FlattenLen DEF Utf32ToUtf8

\* From UTF-16: a pair and a unit are as long as was measured for them, whatever units.
THEOREM Utf16Length ==
    ASSUME NEW s \in Seq(Nat), s # << >>, \A i \in DOMAIN s : s[i] < 65536
    PROVE  Utf16ToUtf8Length(s) = Len(Utf16ToUtf8(s))
<1>0. PICK n \in Nat : n = Len(s)
  OBVIOUS
<1> DEFINE skip == [p \in 0 .. n - 1 |-> IF PairAt(s, p) THEN 2 ELSE 1]
           w == Utf16Stops(s)
           u == AsSeq(w, LAMBDA p : Utf32Of(s, p))
<1>1. w \in Seq(0 .. n - 1)
  <2>1. skip \in [0 .. n - 1 -> 1 .. 8]
    OBVIOUS
  <2>2. w = Walk(n, skip)
    BY <1>0 DEF Utf16Stops
  <2> HIDE DEF skip, w
  <2>3. StopsFrom(w, 0, n, skip)
    BY <2>1, <2>2, WalkStops
  <2> QED  BY <2>3 DEF StopsFrom
<1> HIDE DEF w
<1>2. ASSUME NEW p \in 0 .. n - 1
      PROVE  /\ Utf32Of(s, p) \in Nat
             /\ CodepointUtf8Length(Utf32Of(s, p)) = LengthAt(s, p)
  <2>1. p + 1 \in 1 .. n /\ s[p + 1] \in Nat /\ s[p + 1] < 65536
    BY <1>0, SMT
  <2>2. CASE ~PairAt(s, p)
    BY <2>1, <2>2 DEF Utf32Of, LengthAt
  <2>3. CASE PairAt(s, p)
    <3>1. p + 2 \in 1 .. n /\ s[p + 2] \in Nat
      BY <1>0, <2>3 DEF PairAt
    <3>2. PICK a \in Nat, b \in Nat : a = s[p + 1] /\ b = s[p + 2]
      BY <2>1, <3>1
    <3>3. a \div 1024 = 54 /\ b \div 1024 = 55
      BY <2>3, <3>2, SMT DEF PairAt
    <3>4. a >= 55296 /\ a < 56320 /\ b >= 56320 /\ b < 57344
      BY <3>3, SMT
    <3>5. Utf32Of(s, p) = (a - 55296) * 1024 + (b - 56320) + 65536
      BY <2>3, <3>2, SMT DEF Utf32Of
    <3>6. PICK c \in Nat : c = (a - 55296) * 1024 + (b - 56320) + 65536
      BY <3>4, SMT
    <3>7. 65536 <= c /\ c <= 1114111
      BY <3>4, <3>6, SMT
    <3>8. CodepointUtf8Length(c) = 4
      BY <3>7 DEF CodepointUtf8Length
    <3> QED  BY <2>3, <3>5, <3>6, <3>8 DEF LengthAt
  <2> QED  BY <2>2, <2>3
<1>3. /\ u \in Seq(Nat) /\ Len(u) = Len(w)
      /\ \A i \in 1 .. Len(w) : u[i] = Utf32Of(s, w[i])
  <2>1. DOMAIN w = 1 .. Len(w) /\ \A i \in 1 .. Len(w) : w[i] \in 0 .. n - 1
    BY <1>1
  <2>2. u = [i \in DOMAIN w |-> u[i]] /\ \A i \in DOMAIN w : u[i] = Utf32Of(s, w[i])
    BY DEF AsSeq
  <2> HIDE DEF u
  <2>3. \A i \in 1 .. Len(w) : u[i] \in Nat
    BY <1>2, <2>1, <2>2
  <2>4. u \in Seq(Nat) /\ Len(u) = Len(w)
    <3>1. u \in [1 .. Len(w) -> Nat]
      BY <2>1, <2>2, <2>3
    <3>2. Len(w) \in Nat
      BY <1>1
    <3> QED  BY <3>1, <3>2
  <2> QED  BY <2>1, <2>2, <2>4
<1>4. AsSeq(u, CodepointUtf8Length) = AsSeq(w, LAMBDA p : LengthAt(s, p))
  <2>1. DOMAIN u = DOMAIN w /\ DOMAIN w = 1 .. Len(w)
    BY <1>1, <1>3
  <2>2. \A i \in DOMAIN w : w[i] \in 0 .. n - 1
    BY <1>1
  <2> HIDE DEF u
  <2>3. \A i \in DOMAIN w : CodepointUtf8Length(u[i]) = LengthAt(s, w[i])
    BY <1>2, <1>3, <2>1, <2>2
  <2> QED  BY <2>1, <2>3 DEF AsSeq
<1>5. Utf16ToUtf8(s) = Utf32ToUtf8(u)
  BY DEF Utf16ToUtf8, w
<1>6. Utf16ToUtf8Length(s) = Total(AsSeq(w, LAMBDA p : LengthAt(s, p)))
  BY DEF Utf16ToUtf8Length, w
<1> HIDE DEF u
<1> QED  BY <1>3, <1>4, <1>5, <1>6, Utf32Length


----------------------------------------------------------------------------
(* The table-driven decoder, spelled out for one to four bytes *)

LEMMA TotalSmall ==
    ASSUME NEW s \in Seq(Int), NEW n \in 1 .. 4, Len(s) = n
    PROVE  /\ n = 1 => Total(s) = s[1]
           /\ n = 2 => Total(s) = s[1] + s[2]
           /\ n = 3 => Total(s) = s[1] + s[2] + s[3]
           /\ n = 4 => Total(s) = s[1] + s[2] + s[3] + s[4]
<1>1. PICK at : Sums(at, s) /\ Total(s) = at[n]
  BY TotalIs
<1>2. at[0] = 0 /\ \A i \in 1 .. n : at[i] = at[i - 1] + s[i] /\ s[i] \in Int
  BY <1>1 DEF Sums
<1>3. at[1] = s[1] /\ s[1] \in Int
  <2>1. at[1] = at[1 - 1] + s[1] /\ s[1] \in Int
    BY <1>2
  <2> QED  BY <1>2, <2>1
<1>4. n >= 2 => at[2] = s[1] + s[2] /\ s[2] \in Int
  <2> SUFFICES ASSUME n >= 2 PROVE at[2] = s[1] + s[2] /\ s[2] \in Int
    OBVIOUS
  <2>1. at[2] = at[2 - 1] + s[2] /\ s[2] \in Int
    BY <1>2
  <2> QED  BY <1>3, <2>1
<1>5. n >= 3 => at[3] = s[1] + s[2] + s[3] /\ s[3] \in Int
  <2> SUFFICES ASSUME n >= 3 PROVE at[3] = s[1] + s[2] + s[3] /\ s[3] \in Int
    OBVIOUS
  <2>1. at[3] = at[3 - 1] + s[3] /\ s[3] \in Int
    BY <1>2
  <2> QED  BY <1>3, <1>4, <2>1
<1>6. n >= 4 => at[4] = s[1] + s[2] + s[3] + s[4]
  <2> SUFFICES ASSUME n >= 4 PROVE at[4] = s[1] + s[2] + s[3] + s[4]
    OBVIOUS
  <2>1. at[4] = at[4 - 1] + s[4]
    BY <1>2
  <2> QED  BY <1>3, <1>4, <1>5, <2>1
<1> QED  BY <1>1, <1>3, <1>4, <1>5, <1>6

LEMMA NumReadIs ==
    ASSUME NEW b \in Nat
    PROVE  /\ NumRead(b) \in 1 .. 8
           /\ b < 192 => NumRead(b) = 1
           /\ 192 <= b /\ b < 224 => NumRead(b) = 2
           /\ 224 <= b /\ b < 240 => NumRead(b) = 3
           /\ 240 <= b /\ b < 248 => NumRead(b) = 4
           /\ 248 <= b => NumRead(b) > 4
BY DEF NumRead, LeadingOnes

LEMMA Remainders ==
    ASSUME NEW a \in Nat
    PROVE  /\ a % 64 \in Nat /\ a % 64 < 64 /\ a % 32 \in Nat /\ a % 32 < 32
           /\ a % 16 \in Nat /\ a % 16 < 16 /\ a % 8 \in Nat /\ a % 8 < 8
OBVIOUS

LEMMA Numbers ==
    ASSUME NEW n \in Nat, NEW f \in [1 .. n -> Int]
    PROVE  f \in Seq(Int) /\ Len(f) = n
OBVIOUS

\* What two, three and four bytes stand for.
Two6(b, x)         == (b % 32) * 64 + (x % 64)
Three6(b, x, y)    == (b % 16) * 4096 + (x % 64) * 64 + (y % 64)
Four6(b, x, y, z)  == (b % 8) * 262144 + (x % 64) * 4096 + (y % 64) * 64 + (z % 64)

\* The character at a place, by its first byte.
Reads(s, p, b, x, y, z) ==
    /\ b < 128 => Utf32At(s, p) = b
    /\ 192 <= b /\ b < 224 => Utf32At(s, p) = Two6(b, x)
    /\ 224 <= b /\ b < 240 => Utf32At(s, p) = Three6(b, x, y)
    /\ 240 <= b /\ b < 248 => Utf32At(s, p) = Four6(b, x, y, z)

LEMMA Utf32AtIs ==
    ASSUME NEW s \in Seq(Nat), NEW p \in 0 .. Len(s) - 1,
           NEW b \in Nat, b = s[p + 1], NEW x \in Nat, x = ByteOf(s, p + 1),
           NEW y \in Nat, y = ByteOf(s, p + 2), NEW z \in Nat, z = ByteOf(s, p + 3)
    PROVE  Reads(s, p, b, x, y, z)
<1> DEFINE f == [k \in 1 .. NumRead(b) |->
                   IF k = 1 THEN FirstBits(b) * Shift[NumRead(b)]
                            ELSE (ByteOf(s, p + k - 1) % 64) * Shift[NumRead(b) - k + 1]]
<1>1. Utf32At(s, p) = Total(f)
  BY DEF Utf32At
<1>2. Shift[1] = 1 /\ Shift[2] = 64 /\ Shift[3] = 4096 /\ Shift[4] = 262144
  BY SMT DEF Shift
<1>3. p + 2 - 1 = p + 1 /\ p + 3 - 1 = p + 2 /\ p + 4 - 1 = p + 3
  OBVIOUS
<1>4. /\ x % 64 \in Nat /\ y % 64 \in Nat /\ z % 64 \in Nat
      /\ b % 32 \in Nat /\ b % 16 \in Nat /\ b % 8 \in Nat
  BY Remainders
<1>5. f = [k \in 1 .. NumRead(b) |-> f[k]]
  OBVIOUS
<1>6. ASSUME b < 128 PROVE Utf32At(s, p) = b
  <2>1. NumRead(b) = 1
    BY <1>6, NumReadIs
  <2>2. PICK c \in Nat :
           c = b
    BY <1>4
  <2>3. FirstBits(b) = c
    BY <1>6, <2>2, SMT DEF FirstBits
  <2>4. f[1] = c * 1
    <3>1. f[1] = FirstBits(b) * Shift[1]
      BY <2>1
    <3> QED  BY <1>2, <2>3, <3>1, SMT
  <2> HIDE DEF f
  <2>5. f[1] \in Int
    BY <2>4, SMT
  <2>6. f \in [1 .. 1 -> Int]
    BY <1>5, <2>1, <2>5
  <2>7. f \in Seq(Int) /\ Len(f) = 1
    BY <2>6, Numbers
  <2>8. Total(f) = f[1]
    BY <2>7, TotalSmall
  <2> QED  BY <1>1, <2>2, <2>4, <2>8, SMT
<1>7. ASSUME 192 <= b /\ b < 224 PROVE Utf32At(s, p) = Two6(b, x)
  <2>1. NumRead(b) = 2
    BY <1>7, NumReadIs
  <2>2. PICK c \in Nat, x6 \in Nat :
           c = b % 32 /\ x6 = x % 64
    BY <1>4
  <2>3. FirstBits(b) = c
    <3>1. <<64, 32, 16, 8, 4, 2, 1>>[2] = 32 /\ ~(b < 128)
      BY <1>7
    <3> QED  BY <2>1, <2>2, <3>1 DEF FirstBits
  <2>4. f[1] = c * 64
    <3>1. f[1] = FirstBits(b) * Shift[2]
      BY <2>1
    <3> QED  BY <1>2, <2>3, <3>1, SMT
  <2>5. f[2] = x6 * 1
    <3>1. f[2] = (ByteOf(s, p + 2 - 1) % 64) * Shift[2 - 2 + 1]
      BY <2>1
    <3>2. ByteOf(s, p + 2 - 1) = x /\ 2 - 2 + 1 = 1
      BY <1>3
    <3>3. f[2] = x6 * Shift[1]
      BY <2>2, <3>1, <3>2
    <3> QED  BY <1>2, <3>3, SMT
  <2> HIDE DEF f
  <2>6. f[1] \in Int /\ f[2] \in Int
    BY <2>4, <2>5, SMT
  <2>7. f \in [1 .. 2 -> Int]
    BY <1>5, <2>1, <2>6
  <2>8. f \in Seq(Int) /\ Len(f) = 2
    BY <2>7, Numbers
  <2>9. Total(f) = f[1] + f[2]
    BY <2>8, TotalSmall
  <2> QED  BY <1>1, <2>2, <2>4, <2>5, <2>9, SMT DEF Two6
<1>8. ASSUME 224 <= b /\ b < 240 PROVE Utf32At(s, p) = Three6(b, x, y)
  <2>1. NumRead(b) = 3
    BY <1>8, NumReadIs
  <2>2. PICK c \in Nat, x6 \in Nat, y6 \in Nat :
           c = b % 16 /\ x6 = x % 64 /\ y6 = y % 64
    BY <1>4
  <2>3. FirstBits(b) = c
    <3>1. <<64, 32, 16, 8, 4, 2, 1>>[3] = 16 /\ ~(b < 128)
      BY <1>8
    <3> QED  BY <2>1, <2>2, <3>1 DEF FirstBits
  <2>4. f[1] = c * 4096
    <3>1. f[1] = FirstBits(b) * Shift[3]
      BY <2>1
    <3> QED  BY <1>2, <2>3, <3>1, SMT
  <2>5. f[2] = x6 * 64
    <3>1. f[2] = (ByteOf(s, p + 2 - 1) % 64) * Shift[3 - 2 + 1]
      BY <2>1
    <3>2. ByteOf(s, p + 2 - 1) = x /\ 3 - 2 + 1 = 2
      BY <1>3
    <3>3. f[2] = x6 * Shift[2]
      BY <2>2, <3>1, <3>2
    <3> QED  BY <1>2, <3>3, SMT
  <2>6. f[3] = y6 * 1
    <3>1. f[3] = (ByteOf(s, p + 3 - 1) % 64) * Shift[3 - 3 + 1]
      BY <2>1
    <3>2. ByteOf(s, p + 3 - 1) = y /\ 3 - 3 + 1 = 1
      BY <1>3
    <3>3. f[3] = y6 * Shift[1]
      BY <2>2, <3>1, <3>2
    <3> QED  BY <1>2, <3>3, SMT
  <2> HIDE DEF f
  <2>7. f[1] \in Int /\ f[2] \in Int /\ f[3] \in Int
    BY <2>4, <2>5, <2>6, SMT
  <2>8. f \in [1 .. 3 -> Int]
    BY <1>5, <2>1, <2>7
  <2>9. f \in Seq(Int) /\ Len(f) = 3
    BY <2>8, Numbers
  <2>10. Total(f) = f[1] + f[2] + f[3]
    BY <2>9, TotalSmall
  <2> QED  BY <1>1, <2>2, <2>4, <2>5, <2>6, <2>10, SMT DEF Three6
<1>9. ASSUME 240 <= b /\ b < 248 PROVE Utf32At(s, p) = Four6(b, x, y, z)
  <2>1. NumRead(b) = 4
    BY <1>9, NumReadIs
  <2>2. PICK c \in Nat, x6 \in Nat, y6 \in Nat, z6 \in Nat :
           c = b % 8 /\ x6 = x % 64 /\ y6 = y % 64 /\ z6 = z % 64
    BY <1>4
  <2>3. FirstBits(b) = c
    <3>1. <<64, 32, 16, 8, 4, 2, 1>>[4] = 8 /\ ~(b < 128)
      BY <1>9
    <3> QED  BY <2>1, <2>2, <3>1 DEF FirstBits
  <2>4. f[1] = c * 262144
    <3>1. f[1] = FirstBits(b) * Shift[4]
      BY <2>1
    <3> QED  BY <1>2, <2>3, <3>1, SMT
  <2>5. f[2] = x6 * 4096
    <3>1. f[2] = (ByteOf(s, p + 2 - 1) % 64) * Shift[4 - 2 + 1]
      BY <2>1
    <3>2. ByteOf(s, p + 2 - 1) = x /\ 4 - 2 + 1 = 3
      BY <1>3
    <3>3. f[2] = x6 * Shift[3]
      BY <2>2, <3>1, <3>2
    <3> QED  BY <1>2, <3>3, SMT
  <2>6. f[3] = y6 * 64
    <3>1. f[3] = (ByteOf(s, p + 3 - 1) % 64) * Shift[4 - 3 + 1]
      BY <2>1
    <3>2. ByteOf(s, p + 3 - 1) = y /\ 4 - 3 + 1 = 2
      BY <1>3
    <3>3. f[3] = y6 * Shift[2]
      BY <2>2, <3>1, <3>2
    <3> QED  BY <1>2, <3>3, SMT
  <2>7. f[4] = z6 * 1
    <3>1. f[4] = (ByteOf(s, p + 4 - 1) % 64) * Shift[4 - 4 + 1]
      BY <2>1
    <3>2. ByteOf(s, p + 4 - 1) = z /\ 4 - 4 + 1 = 1
      BY <1>3
    <3>3. f[4] = z6 * Shift[1]
      BY <2>2, <3>1, <3>2
    <3> QED  BY <1>2, <3>3, SMT
  <2> HIDE DEF f
  <2>8. f[1] \in Int /\ f[2] \in Int /\ f[3] \in Int /\ f[4] \in Int
    BY <2>4, <2>5, <2>6, <2>7, SMT
  <2>9. f \in [1 .. 4 -> Int]
    BY <1>5, <2>1, <2>8
  <2>10. f \in Seq(Int) /\ Len(f) = 4
    BY <2>9, Numbers
  <2>11. Total(f) = f[1] + f[2] + f[3] + f[4]
    BY <2>10, TotalSmall
  <2> QED  BY <1>1, <2>2, <2>4, <2>5, <2>6, <2>7, <2>11, SMT DEF Four6
<1> QED  BY <1>6, <1>7, <1>8, <1>9 DEF Reads

----------------------------------------------------------------------------
(* One character there and back *)

LEMMA TwoDigits ==
    ASSUME NEW c \in Nat, c < 2048
    PROVE  \E a \in Nat, d \in Nat : /\ a = c \div 64 /\ d = c % 64 /\ a < 32 /\ d < 64
                                     /\ c = a * 64 + d
BY SMT

LEMMA ThreeDigits ==
    ASSUME NEW c \in Nat, c < 65536
    PROVE  \E a \in Nat, e \in Nat, d \in Nat :
              /\ a = c \div 4096 /\ e = (c \div 64) % 64 /\ d = c % 64
              /\ a < 16 /\ e < 64 /\ d < 64
              /\ c = a * 4096 + e * 64 + d
<1>1. PICK h \in Nat, d \in Nat : h = c \div 64 /\ d = c % 64 /\ d < 64 /\ c = h * 64 + d /\ h < 1024
  BY SMT
<1>2. PICK a \in Nat, e \in Nat : a = h \div 64 /\ e = h % 64 /\ e < 64 /\ h = a * 64 + e /\ a < 16
  BY <1>1, SMT
<1>3. a = c \div 4096 /\ c = a * 4096 + e * 64 + d
  BY <1>1, <1>2, SMT
<1> QED  BY <1>1, <1>2, <1>3, SMT

LEMMA FourDigits ==
    ASSUME NEW c \in Nat, c < 2097152
    PROVE  \E a \in Nat, f \in Nat, e \in Nat, d \in Nat :
              /\ a = c \div 262144 /\ f = (c \div 4096) % 64 /\ e = (c \div 64) % 64 /\ d = c % 64
              /\ a < 8 /\ f < 64 /\ e < 64 /\ d < 64
              /\ c = a * 262144 + f * 4096 + e * 64 + d
<1>1. PICK h \in Nat, d \in Nat : h = c \div 64 /\ d = c % 64 /\ d < 64 /\ c = h * 64 + d /\ h < 32768
  BY SMT
<1>2. PICK g \in Nat, e \in Nat : g = h \div 64 /\ e = h % 64 /\ e < 64 /\ h = g * 64 + e /\ g < 512
  BY <1>1, SMT
<1>3. PICK a \in Nat, f \in Nat : a = g \div 64 /\ f = g % 64 /\ f < 64 /\ g = a * 64 + f /\ a < 8
  BY <1>2, SMT
<1>4. g = c \div 4096 /\ c = g * 4096 + e * 64 + d
  BY <1>1, <1>2, SMT
<1>5. a = c \div 262144 /\ c = a * 262144 + f * 4096 + e * 64 + d
  BY <1>3, <1>4, SMT
<1> QED  BY <1>1, <1>2, <1>3, <1>4, <1>5, SMT

\* s has the character w at p.
At(s, p, w) == \A k \in 1 .. Len(w) : ByteOf(s, p + k - 1) = w[k]

\* A character as the decoders want it: the first byte has the length, the others are marked.
Marked(w) == /\ Len(w) = 1 => w[1] < 128
             /\ Len(w) = 2 => 192 <= w[1] /\ w[1] < 224
             /\ Len(w) = 3 => 224 <= w[1] /\ w[1] < 240
             /\ Len(w) = 4 => 240 <= w[1] /\ w[1] < 248
             /\ \A k \in 2 .. Len(w) : w[k] \div 64 = 2
Character(w, c) == /\ w \in Seq(Nat) /\ 1 <= Len(w) /\ Len(w) <= 4 /\ Marked(w)
                   /\ Len(w) = 1 => w[1] = c
                   /\ Len(w) = 2 => Two6(w[1], w[2]) = c
                   /\ Len(w) = 3 => Three6(w[1], w[2], w[3]) = c
                   /\ Len(w) = 4 => Four6(w[1], w[2], w[3], w[4]) = c

LEMMA One == ASSUME NEW c \in Nat, c < 128 PROVE Character(<<c>>, c)
<1>1. \A k \in 2 .. 1 : FALSE
  OBVIOUS
<1>2. <<c>> \in Seq(Nat) /\ Len(<<c>>) = 1 /\ <<c>>[1] = c
  OBVIOUS
<1> QED  BY <1>1, <1>2, SMT DEF Character, Marked

LEMMA Two ==
    ASSUME NEW c \in Nat, c < 2048
    PROVE  Character(<<192 + c \div 64, 128 + (c % 64)>>, c)
<1>1. PICK a \in Nat, d \in Nat : /\ a = c \div 64 /\ d = c % 64 /\ a < 32 /\ d < 64
                                  /\ c = a * 64 + d
  BY TwoDigits, SMT
<1> DEFINE w == <<192 + a, 128 + d>>
<1>2. (192 + a) % 32 = a /\ (128 + d) % 64 = d /\ (128 + d) \div 64 = 2
  BY <1>1, SMT
<1>3. w \in Seq(Nat) /\ Len(w) = 2 /\ w[1] = 192 + a /\ w[2] = 128 + d
  OBVIOUS
<1>4. w = <<192 + c \div 64, 128 + (c % 64)>>
  BY <1>1
<1> HIDE DEF w
<1>5. Marked(w)
  BY <1>1, <1>2, <1>3, SMT DEF Marked
<1> QED  BY <1>1, <1>2, <1>3, <1>4, <1>5, SMT DEF Character, Two6, Three6, Four6

LEMMA Three ==
    ASSUME NEW c \in Nat, c < 65536
    PROVE  Character(<<224 + c \div 4096, 128 + ((c \div 64) % 64), 128 + (c % 64)>>, c)
<1>1. PICK a \in Nat, e \in Nat, d \in Nat :
         /\ a = c \div 4096 /\ e = (c \div 64) % 64 /\ d = c % 64
         /\ a < 16 /\ e < 64 /\ d < 64
         /\ c = a * 4096 + e * 64 + d
  BY ThreeDigits, SMT
<1> DEFINE w == <<224 + a, 128 + e, 128 + d>>
<1>2. /\ (224 + a) % 16 = a /\ (128 + d) % 64 = d /\ (128 + d) \div 64 = 2
      /\ (128 + e) % 64 = e /\ (128 + e) \div 64 = 2
  BY <1>1, SMT
<1>3. w \in Seq(Nat) /\ Len(w) = 3 /\ w[1] = 224 + a /\ w[2] = 128 + e /\ w[3] = 128 + d
  OBVIOUS
<1>4. w = <<224 + c \div 4096, 128 + ((c \div 64) % 64), 128 + (c % 64)>>
  BY <1>1, SMT
<1> HIDE DEF w
<1>5. Marked(w)
  BY <1>1, <1>2, <1>3, SMT DEF Marked
<1> QED  BY <1>1, <1>2, <1>3, <1>4, <1>5, SMT DEF Character, Two6, Three6, Four6

LEMMA Four ==
    ASSUME NEW c \in Nat, c < 2097152
    PROVE  Character(<<240 + c \div 262144, 128 + ((c \div 4096) % 64),
                       128 + ((c \div 64) % 64), 128 + (c % 64)>>, c)
<1>1. PICK a \in Nat, f \in Nat, e \in Nat, d \in Nat :
         /\ a = c \div 262144 /\ f = (c \div 4096) % 64 /\ e = (c \div 64) % 64 /\ d = c % 64
         /\ a < 8 /\ f < 64 /\ e < 64 /\ d < 64
         /\ c = a * 262144 + f * 4096 + e * 64 + d
  BY FourDigits, SMT
<1> DEFINE w == <<240 + a, 128 + f, 128 + e, 128 + d>>
<1>2. /\ (240 + a) % 8 = a /\ (128 + d) % 64 = d /\ (128 + d) \div 64 = 2
      /\ (128 + e) % 64 = e /\ (128 + e) \div 64 = 2
      /\ (128 + f) % 64 = f /\ (128 + f) \div 64 = 2
  BY <1>1, SMT
<1>3. /\ w \in Seq(Nat) /\ Len(w) = 4
      /\ w[1] = 240 + a /\ w[2] = 128 + f /\ w[3] = 128 + e /\ w[4] = 128 + d
  OBVIOUS
<1>4. w = <<240 + c \div 262144, 128 + ((c \div 4096) % 64),
            128 + ((c \div 64) % 64), 128 + (c % 64)>>
  BY <1>1, SMT
<1> HIDE DEF w
<1>5. Marked(w)
  <2>1. 240 <= w[1] /\ w[1] < 248
    BY <1>1, <1>3, SMT
  <2>2. \A k \in 2 .. 4 : w[k] \div 64 = 2
    <3>1. w[2] \div 64 = 2 /\ w[3] \div 64 = 2 /\ w[4] \div 64 = 2
      BY <1>2, <1>3, SMT
    <3>2. \A k \in 2 .. 4 : k = 2 \/ k = 3 \/ k = 4
      OBVIOUS
    <3> QED  BY <3>1, <3>2
  <2> QED  BY <1>3, <2>1, <2>2, SMT DEF Marked
<1> QED  BY <1>1, <1>2, <1>3, <1>4, <1>5, SMT DEF Character, Two6, Three6, Four6

\* Its bytes by name, and which character they are.
Named(n, b, x, y, z, c) ==
    /\ n = 1 => b < 128 /\ b = c
    /\ n = 2 => 192 <= b /\ b < 224 /\ Two6(b, x) = c
    /\ n = 3 => 224 <= b /\ b < 240 /\ Three6(b, x, y) = c
    /\ n = 4 => 240 <= b /\ b < 248 /\ Four6(b, x, y, z) = c

LEMMA FirstIs ==
    ASSUME NEW w, NEW c \in Nat, Character(w, c), NEW n \in Nat, n = Len(w),
           NEW b \in Nat, NEW x \in Nat, NEW y \in Nat, NEW z \in Nat, b = w[1],
           n >= 2 => x = w[2], n >= 3 => y = w[3], n >= 4 => z = w[4]
    PROVE  Named(n, b, x, y, z, c)
<1>0. /\ n = Len(w) /\ b = w[1]
      /\ n >= 2 => x = w[2]
      /\ n >= 3 => y = w[3]
      /\ n >= 4 => z = w[4]
  OBVIOUS
<1>1. /\ Len(w) = 1 => w[1] = c
      /\ Len(w) = 2 => Two6(w[1], w[2]) = c
      /\ Len(w) = 3 => Three6(w[1], w[2], w[3]) = c
      /\ Len(w) = 4 => Four6(w[1], w[2], w[3], w[4]) = c
  BY SMT DEF Character
<1>2. /\ Len(w) = 1 => w[1] < 128
      /\ Len(w) = 2 => 192 <= w[1] /\ w[1] < 224
      /\ Len(w) = 3 => 224 <= w[1] /\ w[1] < 240
      /\ Len(w) = 4 => 240 <= w[1] /\ w[1] < 248
  BY SMT DEF Character, Marked
<1>3. n = 1 => b < 128 /\ b = c
  BY <1>0, <1>1, <1>2, SMT
<1>4. n = 2 => 192 <= b /\ b < 224 /\ Two6(b, x) = c
  BY <1>0, <1>1, <1>2, SMT
<1>5. n = 3 => 224 <= b /\ b < 240 /\ Three6(b, x, y) = c
  <2> SUFFICES ASSUME n = 3 PROVE 224 <= b /\ b < 240 /\ Three6(b, x, y) = c
    OBVIOUS
  <2>1. b = w[1] /\ x = w[2] /\ y = w[3]
    BY <1>0, SMT
  <2>2. Three6(w[1], w[2], w[3]) = c /\ 224 <= w[1] /\ w[1] < 240
    BY <1>0, <1>1, <1>2, SMT
  <2>3. Three6(b, x, y) = Three6(w[1], w[2], w[3])
    BY <2>1, Zenon
  <2> QED  BY <2>1, <2>2, <2>3
<1>6. n = 4 => 240 <= b /\ b < 248 /\ Four6(b, x, y, z) = c
  <2> SUFFICES ASSUME n = 4 PROVE 240 <= b /\ b < 248 /\ Four6(b, x, y, z) = c
    OBVIOUS
  <2>1. b = w[1] /\ x = w[2] /\ y = w[3] /\ z = w[4]
    BY <1>0, SMT
  <2>2. Four6(w[1], w[2], w[3], w[4]) = c /\ 240 <= w[1] /\ w[1] < 248
    BY <1>0, <1>1, <1>2, SMT
  <2>3. Four6(b, x, y, z) = Four6(w[1], w[2], w[3], w[4])
    BY <2>1, Zenon
  <2> QED  BY <2>1, <2>2, <2>3
<1> QED  BY <1>3, <1>4, <1>5, <1>6 DEF Named

\* The functions of UTF-32 read the character that is there, all of it, and accept it.
LEMMA ReadAt ==
    ASSUME NEW s \in Seq(Nat), NEW p \in Nat, NEW c \in Nat, NEW w, Character(w, c),
           At(s, p, w), p + Len(w) <= Len(s)
    PROVE  /\ p \in 0 .. Len(s) - 1
           /\ NumRead(s[p + 1]) = Len(w) /\ Utf32At(s, p) = c
           /\ ~SignedChar /\ c <= 1114111 => Accepts(s, p)
<1>0. w \in Seq(Nat) /\ 1 <= Len(w) /\ Len(w) <= 4
  BY SMT DEF Character
<1>1. PICK n \in Nat, l \in Nat : /\ n = Len(w) /\ 1 <= n /\ n <= 4
                                  /\ l = Len(s) /\ p + n <= l /\ p < l
  BY <1>0
<1>2. w \in Seq(Nat) /\ \A k \in 1 .. n : w[k] \in Nat
  BY <1>0, <1>1
<1>3. \A k \in 1 .. n : ByteOf(s, p + k - 1) = w[k] /\ s[p + k] = w[k]
  <2>1. ASSUME NEW k \in 1 .. n PROVE ByteOf(s, p + k - 1) = w[k] /\ s[p + k] = w[k]
    <3>1. PICK q \in Nat : q = p + k - 1 /\ q < l /\ q + 1 = p + k
      <4>1. p + k - 1 \in Nat /\ p + k - 1 < l /\ (p + k - 1) + 1 = p + k
        BY <1>1
      <4> QED  BY <4>1
    <3>2. ByteOf(s, q) = w[k]
      BY <1>1, <3>1 DEF At
    <3>3. ByteOf(s, q) = s[q + 1]
      BY <1>1, <3>1 DEF ByteOf
    <3> QED  BY <3>1, <3>2, <3>3
  <2> QED  BY <2>1
<1>4. PICK b \in Nat : b = s[p + 1] /\ b = w[1]
  <2>1. 1 \in 1 .. n
    BY <1>1
  <2> QED  BY <1>2, <1>3, <2>1
<1>5. PICK x \in Nat, y \in Nat, z \in Nat :
         x = ByteOf(s, p + 1) /\ y = ByteOf(s, p + 2) /\ z = ByteOf(s, p + 3)
  <2>1. \A q \in Nat : ByteOf(s, q) \in Nat
    <3>1. \A q \in Nat : q < l => q + 1 \in DOMAIN s
      BY <1>1
    <3> QED  BY <1>1, <3>1 DEF ByteOf
  <2>2. p + 1 \in Nat /\ p + 2 \in Nat /\ p + 3 \in Nat
    OBVIOUS
  <2> QED  BY <2>1, <2>2
<1>6. /\ n >= 2 => x = w[2]
      /\ n >= 3 => y = w[3]
      /\ n >= 4 => z = w[4]
  <2>1. ASSUME n >= 2 PROVE ByteOf(s, p + 1) = w[2]
    <3>1. 2 \in 1 .. n /\ p + 2 - 1 = p + 1
      BY <1>1, <2>1
    <3> QED  BY <1>3, <3>1
  <2>2. ASSUME n >= 3 PROVE ByteOf(s, p + 2) = w[3]
    <3>1. 3 \in 1 .. n /\ p + 3 - 1 = p + 2
      BY <1>1, <2>2
    <3> QED  BY <1>3, <3>1
  <2>3. ASSUME n >= 4 PROVE ByteOf(s, p + 3) = w[4]
    <3>1. 4 \in 1 .. n /\ p + 4 - 1 = p + 3
      BY <1>1, <2>3
    <3> QED  BY <1>3, <3>1
  <2> QED  BY <1>5, <2>1, <2>2, <2>3
<1>12. n = 1 \/ n = 2 \/ n = 3 \/ n = 4
  <2>1. \A k \in Nat : 1 <= k /\ k <= 4 => k = 1 \/ k = 2 \/ k = 3 \/ k = 4
    OBVIOUS
  <2> QED  BY <1>1, <2>1
<1>7. /\ n = 1 => b < 128 /\ b = c
      /\ n = 2 => 192 <= b /\ b < 224 /\ Two6(b, x) = c
      /\ n = 3 => 224 <= b /\ b < 240 /\ Three6(b, x, y) = c
      /\ n = 4 => 240 <= b /\ b < 248
                  /\ Four6(b, x, y, z) = c
  <2>1. \A k, d, u, v, m \in Nat :
           /\ k = Len(w) /\ d = w[1]
           /\ k >= 2 => u = w[2]
           /\ k >= 3 => v = w[3]
           /\ k >= 4 => m = w[4]
           => Named(k, d, u, v, m, c)
    BY FirstIs
  <2>2. Named(n, b, x, y, z, c)
    BY <1>1, <1>4, <1>6, <2>1, Zenon
  <2> QED  BY <2>2 DEF Named
<1>8. p \in 0 .. Len(s) - 1
  BY <1>1
<1>9. NumRead(b) = n
  <2>2. /\ n = 1 => b < 128
        /\ n = 2 => 192 <= b /\ b < 224
        /\ n = 3 => 224 <= b /\ b < 240
        /\ n = 4 => 240 <= b /\ b < 248
    BY <1>7, SMT
  <2> QED  BY <1>12, <2>2, NumReadIs, SMT
<1>10. Utf32At(s, p) = c
  <2>1. /\ b < 128 => Utf32At(s, p) = b
        /\ 192 <= b /\ b < 224 => Utf32At(s, p) = Two6(b, x)
        /\ 224 <= b /\ b < 240 =>
             Utf32At(s, p) = Three6(b, x, y)
        /\ 240 <= b /\ b < 248 =>
             Utf32At(s, p) = Four6(b, x, y, z)
    <3>1. \A d, u, v, m \in Nat :
             d = s[p + 1] /\ u = ByteOf(s, p + 1) /\ v = ByteOf(s, p + 2) /\ m = ByteOf(s, p + 3) =>
             Reads(s, p, d, u, v, m)
      BY <1>8, Utf32AtIs
    <3>2. Reads(s, p, b, x, y, z)
      BY <1>4, <1>5, <3>1, Zenon
    <3> QED  BY <3>2 DEF Reads
  <2>2. CASE n = 1
    BY <1>7, <2>1, <2>2, SMT
  <2>3. CASE n = 2
    BY <1>7, <2>1, <2>3, SMT
  <2>4. CASE n = 3
    BY <1>7, <2>1, <2>4, SMT
  <2>5. CASE n = 4
    BY <1>7, <2>1, <2>5, SMT
  <2> QED  BY <1>12, <2>2, <2>3, <2>4, <2>5
<1>11. ASSUME ~SignedChar, c <= 1114111 PROVE Accepts(s, p)
  <2>1. \A k \in p + 2 .. p + n : s[k] \div 64 = 2
    <3>1. ASSUME NEW k \in p + 2 .. p + n PROVE s[k] \div 64 = 2
      <4>1. PICK j \in 2 .. n : k = p + j
        <5>1. k - p \in 2 .. n /\ k = p + (k - p)
          BY <1>1
        <5> QED  BY <5>1
      <4>2. s[k] = w[j] /\ w[j] \div 64 = 2
        <5>1. \A i \in 2 .. n : w[i] \div 64 = 2
          BY <1>1, SMT DEF Character, Marked
        <5> QED  BY <1>1, <1>3, <4>1, <5>1
      <4> QED  BY <4>2
    <3> QED  BY <3>1
  <2>2. b < 128 \/ b >= 192
    BY <1>7, <1>12, SMT
  <2>3. n < 5 /\ p + n <= Len(s)
    BY <1>1
  <2>4. Utf32At(s, p) <= 1114111
    BY <1>10, <1>11, SMT
  <2>5. \/ s[p + 1] < 128
        \/ /\ s[p + 1] >= 192 /\ NumRead(s[p + 1]) < 5 /\ p + NumRead(s[p + 1]) <= Len(s)
           /\ \A k \in p + 2 .. p + NumRead(s[p + 1]) : s[k] \div 64 = 2
           /\ ~SignedChar /\ Utf32At(s, p) <= 1114111
    <3>1. s[p + 1] = b /\ NumRead(s[p + 1]) = n
      BY <1>4, <1>9
    <3> QED  BY <1>11, <2>1, <2>2, <2>3, <2>4, <3>1, SMT
  <2> QED  BY <2>5, SMT DEF Accepts
<1> QED  BY <1>1, <1>4, <1>8, <1>9, <1>10, <1>11, SMT

LEMMA Alike ==
    ASSUME NEW S, NEW s \in Seq(S), NEW t \in Seq(S), Len(s) = Len(t),
           \A i \in 1 .. Len(s) : s[i] = t[i]
    PROVE  s = t
OBVIOUS

\* What utf32_codepoint_to_utf8 writes.
LEMMA EncodedAs ==
    ASSUME NEW c \in Nat, c <= 1114111, ~Surrogate(c)
    PROVE  /\ c < 128 => ToUtf8(c) = <<c>>
           /\ 128 <= c /\ c < 2048 => ToUtf8(c) = <<192 + c \div 64, 128 + (c % 64)>>
           /\ 2048 <= c /\ c < 65536 =>
                ToUtf8(c) = <<224 + c \div 4096, 128 + ((c \div 64) % 64), 128 + (c % 64)>>
           /\ 65536 <= c =>
                ToUtf8(c) = <<240 + c \div 262144, 128 + ((c \div 4096) % 64),
                              128 + ((c \div 64) % 64), 128 + (c % 64)>>
<1> DEFINE n == CodepointUtf8Length(c)
           byte(k) == IF k = 1 THEN (c \div Shift[n]) + FirstByteMark[n]
                               ELSE 128 + ((c \div Shift[n - k + 1]) % 64)
<1>1. ToUtf8(c) = [k \in 1 .. n |-> byte(k)]
  BY DEF ToUtf8, CodepointToUtf8
<1>2. ToUtf8(c) \in Seq(Int) /\ Len(ToUtf8(c)) = n
  BY ToUtf8Is
<1>3. /\ c < 128 => n = 1
      /\ 128 <= c /\ c < 2048 => n = 2
      /\ 2048 <= c /\ c < 65536 => n = 3
      /\ 65536 <= c => n = 4
  BY SMT DEF CodepointUtf8Length
<1>4. /\ Shift[1] = 1 /\ Shift[2] = 64 /\ Shift[3] = 4096 /\ Shift[4] = 262144
      /\ FirstByteMark[1] = 0 /\ FirstByteMark[2] = 192
      /\ FirstByteMark[3] = 224 /\ FirstByteMark[4] = 240
  BY SMT DEF Shift, FirstByteMark
<1>5. c \div 1 = c
  BY SMT
<1>6. /\ 2 - 2 + 1 = 1 /\ 3 - 2 + 1 = 2 /\ 3 - 3 + 1 = 1
      /\ 4 - 2 + 1 = 3 /\ 4 - 3 + 1 = 2 /\ 4 - 4 + 1 = 1
  OBVIOUS
<1> DEFINE m == ToUtf8(c)
<1>7. \A k \in 1 .. n : m[k] = byte(k)
  BY <1>1
<1>8. ASSUME c < 128 PROVE m = <<c>>
  <2>1. n = 1
    BY <1>3, <1>8
  <2>2. m[1] = (c \div Shift[1]) + FirstByteMark[1]
    <3>1. m[1] = byte(1)
      BY <1>7, <2>1
    <3> QED  BY <2>1, <3>1
  <2>3. m[1] = c
    BY <1>4, <1>5, <2>2, SMT
  <2>4. <<c>> \in Seq(Int) /\ Len(<<c>>) = 1 /\ <<c>>[1] = c
    OBVIOUS
  <2> HIDE DEF m, n
  <2>5. m \in Seq(Int) /\ Len(m) = 1
    BY <1>2, <2>1 DEF m
  <2>6. \A k \in 1 .. Len(m) : m[k] = <<c>>[k]
    BY <2>3, <2>4, <2>5
  <2> QED  BY <2>4, <2>5, <2>6, Alike
<1>9. ASSUME 128 <= c /\ c < 2048 PROVE m = <<192 + c \div 64, 128 + (c % 64)>>
  <2>1. n = 2
    BY <1>3, <1>9
  <2>2. m[1] = (c \div Shift[2]) + FirstByteMark[2] /\ m[2] = 128 + ((c \div Shift[2 - 2 + 1]) % 64)
    <3>1. m[1] = byte(1) /\ m[2] = byte(2)
      BY <1>7, <2>1
    <3> QED  BY <2>1, <3>1
  <2> HIDE DEF m, n
  <2>3. PICK x \in Int, y \in Int : x = 192 + c \div 64 /\ y = 128 + (c % 64)
    BY SMT
  <2>4. m[1] = x /\ m[2] = y
    BY <1>4, <1>5, <2>2, <2>3, SMT
  <2>5. m \in Seq(Int) /\ Len(m) = 2
    BY <1>2, <2>1 DEF m
  <2>6. m = <<x, y>>
    BY <2>4, <2>5
  <2> QED  BY <2>3, <2>6
<1>10. ASSUME 2048 <= c /\ c < 65536
       PROVE  m = <<224 + c \div 4096, 128 + ((c \div 64) % 64), 128 + (c % 64)>>
  <2>1. n = 3
    BY <1>3, <1>10, SMT
  <2>2. /\ m[1] = (c \div Shift[3]) + FirstByteMark[3]
        /\ m[2] = 128 + ((c \div Shift[3 - 2 + 1]) % 64)
        /\ m[3] = 128 + ((c \div Shift[3 - 3 + 1]) % 64)
    <3>1. m[1] = byte(1) /\ m[2] = byte(2) /\ m[3] = byte(3)
      BY <1>7, <2>1
    <3> QED  BY <2>1, <3>1
  <2> HIDE DEF m, n
  <2>3. PICK x \in Int, y \in Int, z \in Int :
           x = 224 + c \div 4096 /\ y = 128 + ((c \div 64) % 64) /\ z = 128 + (c % 64)
    BY SMT
  <2>4. m[1] = x /\ m[2] = y /\ m[3] = z
    BY <1>4, <1>5, <2>2, <2>3, SMT
  <2>5. m \in Seq(Int) /\ Len(m) = 3
    BY <1>2, <2>1 DEF m
  <2>6. m = <<x, y, z>>
    BY <2>4, <2>5
  <2> QED  BY <2>3, <2>6, SMT
<1>11. ASSUME 65536 <= c
       PROVE  m = <<240 + c \div 262144, 128 + ((c \div 4096) % 64),
                    128 + ((c \div 64) % 64), 128 + (c % 64)>>
  <2>1. n = 4
    BY <1>3, <1>11, SMT
  <2>2. /\ m[1] = (c \div Shift[4]) + FirstByteMark[4]
        /\ m[2] = 128 + ((c \div Shift[4 - 2 + 1]) % 64)
        /\ m[3] = 128 + ((c \div Shift[4 - 3 + 1]) % 64)
        /\ m[4] = 128 + ((c \div Shift[4 - 4 + 1]) % 64)
    <3>1. m[1] = byte(1) /\ m[2] = byte(2) /\ m[3] = byte(3) /\ m[4] = byte(4)
      BY <1>7, <2>1
    <3> QED  BY <2>1, <3>1
  <2> HIDE DEF m, n
  <2>3. PICK x \in Int, w \in Int, y \in Int, z \in Int :
           /\ x = 240 + c \div 262144 /\ w = 128 + ((c \div 4096) % 64)
           /\ y = 128 + ((c \div 64) % 64) /\ z = 128 + (c % 64)
    BY SMT
  <2>4. m[1] = x /\ m[2] = w /\ m[3] = y /\ m[4] = z
    <3>1. m[1] = x
      BY <1>4, <2>2, <2>3, SMT
    <3>2. m[2] = w
      <4>1. m[2] = 128 + ((c \div Shift[3]) % 64)
        BY <1>6, <2>2
      <4> QED  BY <1>4, <2>3, <4>1, SMT
    <3>3. m[3] = y
      <4>1. m[3] = 128 + ((c \div Shift[2]) % 64)
        BY <1>6, <2>2
      <4> QED  BY <1>4, <2>3, <4>1, SMT
    <3>4. m[4] = z
      <4>1. m[4] = 128 + ((c \div Shift[1]) % 64)
        BY <1>6, <2>2
      <4> QED  BY <1>4, <1>5, <2>3, <4>1, SMT
    <3> QED  BY <3>1, <3>2, <3>3, <3>4
  <2>5. m \in Seq(Int) /\ Len(m) = 4
    BY <1>2, <2>1 DEF m
  <2>6. m = <<x, w, y, z>>
    BY <2>4, <2>5
  <2> QED  BY <2>3, <2>6, SMT
<1> QED  BY <1>8, <1>9, <1>10, <1>11, SMT

\* The walk that stops wherever at does.
LEMMA StopsAt ==
    ASSUME NEW n \in Nat, n >= 1, NEW l \in Nat, NEW skip \in [0 .. l - 1 -> 1 .. 8],
           NEW at \in [0 .. n -> Nat], at[0] = 0, at[n] = l,
           \A i \in 1 .. n : at[i - 1] \in 0 .. l - 1 /\ skip[at[i - 1]] = at[i] - at[i - 1]
    PROVE  Walk(l, skip) = [i \in 1 .. n |-> at[i - 1]]
<1> DEFINE w == [i \in 1 .. n |-> at[i - 1]]
<1>1. /\ w \in Seq(0 .. l - 1) /\ Len(w) = n /\ DOMAIN w = 1 .. n
      /\ \A i \in 1 .. n : w[i] = at[i - 1]
  <2>1. w \in [1 .. n -> 0 .. l - 1]
    OBVIOUS
  <2> QED  BY <2>1
<1> HIDE DEF w
<1>2. w[1] = 0 /\ 0 < l /\ w # << >>
  <2>1. at[1 - 1] = 0 /\ 1 \in 1 .. n
    OBVIOUS
  <2>2. w[1] = 0
    BY <1>1, <2>1
  <2>3. at[1 - 1] \in 0 .. l - 1
    BY <2>1
  <2>4. 0 < l
    BY <2>1, <2>3
  <2> QED  BY <1>1, <2>2, <2>4
<1>3. ASSUME NEW i \in 1 .. n
      PROVE  IF i < n THEN w[i + 1] = w[i] + skip[w[i]] ELSE w[i] + skip[w[i]] >= l
  <2>1. PICK p \in Nat, q \in Nat : p = at[i - 1] /\ q = at[i]
    <3>1. i - 1 \in 0 .. n /\ i \in 0 .. n
      OBVIOUS
    <3> QED  BY <3>1
  <2>2. w[i] = p /\ skip[p] = q - p
    BY <1>1, <2>1
  <2>3. w[i] + skip[w[i]] = q
    BY <2>2
  <2>4. ASSUME i < n PROVE w[i + 1] = q
    <3>1. i + 1 \in 1 .. n /\ (i + 1) - 1 = i
      BY <2>4
    <3> QED  BY <1>1, <2>1, <3>1
  <2>5. ASSUME ~(i < n) PROVE q >= l
    <3>1. i = n
      BY <2>5
    <3> QED  BY <2>1, <3>1
  <2> QED  BY <2>3, <2>4, <2>5
<1>4. StopsFrom(w, 0, l, skip)
  BY <1>1, <1>2, <1>3 DEF StopsFrom
<1>5. Walk(l, skip) = w
  BY <1>4, WalkBy
<1> QED  BY <1>5 DEF w
=============================================================================
