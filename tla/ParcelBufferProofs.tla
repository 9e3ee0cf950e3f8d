------------------------- MODULE ParcelBufferProofs --------------------------
(***************************************************************************)
(* Theorems of ParcelBuffer, for any words, lengths and bounds: the buffer *)
(* holds what was written, the table of objects is sound and searched      *)
(* rightly, and to its user the parcel is a log of words.                  *)
(***************************************************************************)
EXTENDS ParcelBuffer, TLAPS

\* Unless its offsets were refused the driver's table has no room to spare, so no object
\* goes to a table whose room was looked at before the data grew and is gone after.
LentTableFull == lent /\ ~refused => mObjectsCapacity = Len(mObjects)

\* Lent data have no room to spare either: who writes to them grows them first.
LentIsFull == lent => mDataSize = mDataCapacity

Inv == TypeOK /\ DataWritten /\ TableInOrder /\ LentTableFull /\ LentIsFull

Memory(c) == [0 .. c - 1 -> Cells \cup {Junk}]

\* GROWTH: after room was made for n words at the end, the memory is as long as the
\* capacity, holds the data and has place for n more (cParcel.cpp:1625-1636, 1684-1840).
LEMMA RoomMade ==
    ASSUME Inv, Writable, NEW n \in Nat \ {0}, MakeRoom(n)
    PROVE  /\ mDataCapacity' \in Nat /\ mNextObjectHint' \in Nat /\ lent' \in BOOLEAN
           /\ mDataPos + n <= mDataCapacity'
           /\ Roomy(n) \in Memory(mDataCapacity')
           /\ \A i \in 0 .. mDataSize - 1 : Roomy(n)[i] = mData[i]
           /\ TableAfter(n) \in Nat /\ Len(mObjects) <= TableAfter(n)
           /\ ~lent'
<1>1. CASE Fits(n)
  <2>1. Roomy(n) = mData /\ TableAfter(n) = mObjectsCapacity
    BY <1>1 DEF Roomy, TableAfter
  <2>2. mDataCapacity' = mDataCapacity /\ mNextObjectHint' = mNextObjectHint /\ lent' = lent
    BY <1>1 DEF MakeRoom
  <2>3. ~lent
    BY <1>1 DEF Fits, Writable, Inv, TypeOK, LentIsFull
  <2> QED BY <1>1, <2>1, <2>2, <2>3 DEF Inv, TypeOK, TableInOrder, Fits, Memory
<1>2. CASE ~Fits(n)
  <2>1. Wanted(n) \in Nat /\ mDataPos + n <= Wanted(n) /\ mDataSize < Wanted(n)
    BY DEF Inv, TypeOK, DataWritten, Wanted, Writable
  <2>2. /\ Roomy(n) = Moved(Wanted(n)) /\ TableAfter(n) = TableAfterGrow
        /\ mDataCapacity' = Wanted(n) /\ lent' = FALSE /\ mDataCapacity < Wanted(n)
    BY <1>2, <2>1 DEF MakeRoom, Roomy, TableAfter, GrowTo, Fits, Inv, TypeOK, DataWritten
  <2>3. mNextObjectHint' \in Nat
    BY <1>2 DEF MakeRoom, GrowTo, Inv, TypeOK
  <2>4. Moved(Wanted(n)) \in Memory(Wanted(n))
    BY <2>1, <2>2 DEF Moved, Memory, Inv, TypeOK, DataWritten
  <2>5. \A i \in 0 .. mDataSize - 1 : Moved(Wanted(n))[i] = mData[i]
    BY <2>1, <2>2 DEF Moved, Inv, TypeOK, DataWritten
  <2>6. TableAfterGrow \in Nat /\ Len(mObjects) <= TableAfterGrow
    BY DEF TableAfterGrow, Inv, TypeOK, TableInOrder
  <2>7. lent => TableAfterGrow = Len(mObjects)
    BY DEF TableAfterGrow
  <2> QED BY <2>1, <2>2, <2>3, <2>4, <2>5, <2>6, <2>7
<1> QED BY <1>1, <1>2

\* A block of n words over memory with place for them (cParcel.cpp:638-720).
LEMMA WrittenOver ==
    ASSUME Inv, Writable, NEW n \in Nat \ {0}, NEW w \in Block(n), NEW c \in Nat,
           NEW m \in Memory(c), mDataPos + n <= c,
           \A i \in 0 .. mDataSize - 1 : m[i] = mData[i]
    PROVE  /\ Over(m, n, w) \in Memory(c)
           /\ \A i \in 0 .. mDataPos + n - 1 :
                 /\ Over(m, n, w)[i] \in Cells
                 /\ Over(m, n, w)[i] = IF i < mDataPos THEN mData[i] ELSE w[i - mDataPos]
<1>1. mDataPos \in Nat /\ mDataPos = mDataSize
  BY DEF Inv, TypeOK, Writable
<1>2. ASSUME NEW i \in 0 .. c - 1
      PROVE  (IF mDataPos <= i /\ i < mDataPos + n THEN w[i - mDataPos] ELSE m[i]) \in Cells \cup {Junk}
  BY <1>1, <1>2 DEF Memory, Block
<1>3. Over(m, n, w) \in Memory(c)
  BY <1>2 DEF Over, Memory
<1>4. ASSUME NEW i \in 0 .. mDataPos + n - 1
      PROVE  /\ Over(m, n, w)[i] = IF i < mDataPos THEN mData[i] ELSE w[i - mDataPos]
             /\ Over(m, n, w)[i] \in Cells
  <2>1. i \in 0 .. c - 1 /\ DOMAIN m = 0 .. c - 1
    BY <1>1 DEF Memory
  <2>2. Over(m, n, w)[i] = IF i < mDataPos THEN mData[i] ELSE w[i - mDataPos]
    BY <1>1, <2>1 DEF Over
  <2>3. CASE i < mDataPos
    BY <1>1, <2>2, <2>3 DEF Inv, DataWritten
  <2>4. CASE ~(i < mDataPos)
    BY <1>1, <2>2, <2>4 DEF Block
  <2> QED BY <2>2, <2>3, <2>4
<1> QED BY <1>3, <1>4

\* A table o in order, of objects within n words.
Sound(o, n) == InOrder(o) /\ \A i \in 1 .. Len(o) : o[i] + ObjWords <= n

\* The table stays sound when the data grow beyond n or an object is entered at the end.
LEMMA TableGrows ==
    ASSUME NEW o \in Seq(Nat), NEW n \in Nat, NEW k \in Nat, n <= k, Sound(o, n)
    PROVE  Sound(o, k) /\ (n + ObjWords <= k => Sound(Append(o, n), k))
<1>1. Sound(o, k)
  BY DEF Sound, ObjWords
<1>2. ASSUME n + ObjWords <= k PROVE Sound(Append(o, n), k)
  <2>1. Len(Append(o, n)) = Len(o) + 1 /\ Append(o, n)[Len(o) + 1] = n
    OBVIOUS
  <2>2. \A i \in 1 .. Len(o) : Append(o, n)[i] = o[i] /\ o[i] \in Nat
    OBVIOUS
  <2>3. \A i \in 1 .. Len(o) : o[i] + ObjWords <= n
    BY DEF Sound
  <2>4. \A i, j \in 1 .. Len(o) : i < j => o[i] + ObjWords <= o[j]
    BY DEF Sound, InOrder
  <2>5. Len(o) \in Nat /\ ObjWords \in Nat
    BY DEF ObjWords
  <2>6. ASSUME NEW i \in 1 .. Len(o) + 1 PROVE Append(o, n)[i] + ObjWords <= k
    BY <1>2, <2>1, <2>2, <2>3, <2>5, <2>6
  <2>7. ASSUME NEW i \in 1 .. Len(o) + 1, NEW j \in 1 .. Len(o) + 1, i < j
        PROVE  Append(o, n)[i] + ObjWords <= Append(o, n)[j]
    <3>1. i \in 1 .. Len(o)
      BY <2>5, <2>7
    <3>2. CASE j = Len(o) + 1
      BY <2>1, <2>2, <2>3, <3>1, <3>2
    <3>3. CASE j \in 1 .. Len(o)
      BY <2>2, <2>4, <2>7, <3>1, <3>3
    <3> QED BY <2>5, <3>2, <3>3
  <2> QED BY <2>1, <2>6, <2>7 DEF Sound, InOrder
<1> QED BY <1>1, <1>2

----------------------------------------------------------------------------
\* The invariant holds of every step.
LEMMA Inductive == Inv /\ [Next]_vars => Inv'
<1> SUFFICES ASSUME Inv, [Next]_vars PROVE Inv'
  OBVIOUS
<1> USE ParcelBufferAssumption DEF ParcelBufferAssumption
<1> DEFINE Alive == UNCHANGED <<refused, crashed>>
<1>1. ASSUME NEW n \in Lengths, NEW w \in Block(n), Write(n, w), Alive PROVE Inv'
  <2>1. n \in Nat \ {0} /\ Writable /\ MakeRoom(n)
    BY <1>1 DEF Write
  <2>2. /\ mData' \in Memory(mDataCapacity')
        /\ \A i \in 0 .. mDataPos + n - 1 : mData'[i] \in Cells
    BY <1>1, <2>1, RoomMade, WrittenOver DEF Write
  <2>3. mDataPos' = mDataPos + n /\ mDataSize' = mDataPos + n /\ mDataPos' \in Nat
    BY <1>1, <2>1 DEF Write, FinishWrite, Larger, Writable, Inv, TypeOK
  <2>4. TypeOK'
    BY <1>1, <2>1, <2>2, <2>3, RoomMade DEF Write, TypeOK, Memory, Inv
  <2>5. DataWritten'
    <3>1. mDataPos + n <= mDataCapacity'
      BY <2>1, RoomMade
    <3>2. \A i \in 0 .. mDataSize' - 1 : mData'[i] \in Cells
      <4>1. mDataSize' - 1 = mDataPos + n - 1
        BY <1>1, <2>1, <2>3 DEF Inv, TypeOK
      <4> QED BY <2>2, <4>1
    <3> QED BY <2>3, <3>1, <3>2 DEF DataWritten
  <2>6. TableInOrder' /\ LentTableFull' /\ LentIsFull'
    <3>1. Sound(mObjects, mDataPos + n)
      BY <1>1, <2>1, TableGrows DEF Inv, TypeOK, TableInOrder, Sound, Writable
    <3> QED BY <1>1, <2>1, <2>3, <3>1, RoomMade DEF Write, Inv, Sound, TableInOrder, InOrder, LentTableFull, LentIsFull
  <2> QED BY <2>4, <2>5, <2>6 DEF Inv
<1>2. ASSUME NEW w \in Block(ObjWords), WriteObject(w), Alive PROVE Inv'
  <2>1. ObjWords \in Nat \ {0} /\ Writable /\ MakeRoom(ObjWords)
    BY <1>2 DEF WriteObject, ObjWords
  <2>2. /\ mData' \in Memory(mDataCapacity')
        /\ \A i \in 0 .. mDataPos + ObjWords - 1 : mData'[i] \in Cells
    BY <1>2, <2>1, RoomMade, WrittenOver DEF WriteObject
  <2>3. /\ mDataPos' = mDataPos + ObjWords /\ mDataSize' = mDataPos + ObjWords
        /\ mDataPos' \in Nat /\ mDataPos \in Nat /\ mDataPos = mDataSize
    BY <1>2, <2>1 DEF WriteObject, FinishWrite, Larger, Writable, Inv, TypeOK
  <2>4. mObjects' = mObjects \/ mObjects' = Append(mObjects, mDataPos)
    BY <1>2 DEF WriteObject
  <2>a. mObjects' \in Seq(Nat) /\ Len(mObjects') <= Len(mObjects) + 1
    <3>1. mObjects \in Seq(Nat)
      BY DEF Inv, TypeOK
    <3> QED BY <2>3, <2>4, <3>1
  <2>5. /\ mObjectsCapacity' \in Nat /\ Len(mObjects') <= mObjectsCapacity'
        /\ ~lent'
    <3>1. Len(mObjects) \in Nat /\ mObjectsCapacity \in Nat
      BY DEF Inv, TypeOK
    <3>2. ~lent' /\ TableAfter(ObjWords) \in Nat /\ Len(mObjects) <= TableAfter(ObjWords)
      BY <2>1, RoomMade
    <3>3. CASE EnoughObjects
      <4>1. mObjectsCapacity' = TableAfter(ObjWords)
        BY <1>2, <3>3 DEF WriteObject
      <4>2. CASE w[0] = 0
        BY <1>2, <3>2, <4>1, <4>2 DEF WriteObject
      <4>3. CASE w[0] # 0
        BY <1>2, <2>a, <3>1, <3>2, <3>3, <4>1, <4>3 DEF WriteObject, TableGone
      <4> QED BY <3>2, <4>1, <4>2, <4>3
    <3>4. CASE ~EnoughObjects
      <4>1. mObjectsCapacity' = ((Len(mObjects) + 2) * 3) \div 2
        BY <1>2, <3>4 DEF WriteObject
      <4> QED BY <2>a, <3>1, <3>2, <4>1
    <3> QED BY <3>3, <3>4
  <2>6. TypeOK'
    <3>1. refused' \in BOOLEAN /\ crashed' \in BOOLEAN
      BY <1>2 DEF Inv, TypeOK
    <3> QED BY <2>1, <2>2, <2>3, <2>a, <2>5, <3>1, RoomMade DEF TypeOK, Memory
  <2>7. DataWritten'
    BY <2>1, <2>2, <2>3, RoomMade DEF DataWritten
  <2>8. Sound(mObjects, mDataPos + ObjWords) /\ Sound(Append(mObjects, mDataPos), mDataPos + ObjWords)
    <3>1. mObjects \in Seq(Nat) /\ Sound(mObjects, mDataPos)
      BY <2>3 DEF Inv, TypeOK, TableInOrder, Sound
    <3>2. mDataPos + ObjWords \in Nat /\ mDataPos <= mDataPos + ObjWords
      BY <2>1, <2>3
    <3> QED BY <2>3, <3>1, <3>2, TableGrows
  <2>9. TableInOrder' /\ LentTableFull' /\ LentIsFull'
    <3>1. Sound(mObjects', mDataSize')
      BY <2>3, <2>4, <2>8
    <3> QED BY <1>2, <2>5, <3>1 DEF Inv, Sound, TableInOrder, InOrder, LentTableFull, LentIsFull
  <2> QED BY <2>6, <2>7, <2>9 DEF Inv
<1>3. ASSUME WriteObjectFails, Alive PROVE Inv'
  <2>1. ObjWords \in Nat \ {0} /\ Writable /\ MakeRoom(ObjWords)
    BY <1>3 DEF WriteObjectFails, ObjWords
  <2>2. TypeOK'
    BY <1>3, <2>1, RoomMade DEF WriteObjectFails, TypeOK, Memory, Inv
  <2>3. DataWritten'
    BY <1>3, <2>1, RoomMade DEF WriteObjectFails, DataWritten, Inv, Writable, TypeOK, ObjWords
  <2>4. TableInOrder' /\ LentTableFull' /\ LentIsFull'
    BY <1>3, <2>1, RoomMade DEF WriteObjectFails, TableInOrder, LentTableFull, LentIsFull, Inv
  <2> QED BY <2>2, <2>3, <2>4 DEF Inv
<1>4. ASSUME NEW n \in Lengths, SetDataCapacity(n), Alive PROVE Inv'
  <2>1. /\ n \in Nat /\ mDataCapacity < n /\ mDataCapacity' = n /\ lent' = FALSE
        /\ mData' = Moved(n) /\ mObjectsCapacity' = TableAfterGrow
        /\ UNCHANGED <<mDataSize, mDataPos, mObjects>>
    BY <1>4 DEF SetDataCapacity, GrowTo
  <2>2. mNextObjectHint' \in Nat
    BY <1>4 DEF SetDataCapacity, GrowTo, Inv, TypeOK
  <2>3. Moved(n) \in Memory(n) /\ \A i \in 0 .. mDataSize - 1 : Moved(n)[i] = mData[i]
    BY <1>4, <2>1 DEF Moved, Memory, Inv, TypeOK, DataWritten
  <2>4. TableAfterGrow \in Nat /\ Len(mObjects) <= TableAfterGrow
    BY DEF TableAfterGrow, Inv, TypeOK, TableInOrder
  <2>5. TypeOK'
    BY <1>4, <2>1, <2>2, <2>3, <2>4 DEF TypeOK, Memory, Inv
  <2>6. DataWritten'
    BY <1>4, <2>1, <2>3 DEF DataWritten, Inv, TypeOK
  <2>7. TableInOrder' /\ LentTableFull' /\ LentIsFull'
    BY <1>4, <2>1, <2>4 DEF TableInOrder, LentTableFull, LentIsFull, Inv
  <2> QED BY <2>5, <2>6, <2>7 DEF Inv
<1>5. ASSUME NEW n \in Lengths, NEW w \in Block(n), Refill(n, w), Alive PROVE Inv'
  <2>1. /\ n \in Nat /\ n <= mDataCapacity /\ mObjects = << >>
        /\ mDataSize' = n /\ mDataPos' = 0 /\ mNextObjectHint' = 0 /\ ~lent /\ mDataCapacity \in Nat
        /\ UNCHANGED <<mDataCapacity, mObjects, mObjectsCapacity, lent>>
    BY <1>5 DEF Refill, Inv, TypeOK
  <2>2. mData' \in Memory(mDataCapacity) /\ \A i \in 0 .. n - 1 : mData'[i] \in Cells
    BY <1>5, <2>1 DEF Refill, Memory, Block, Inv, TypeOK
  <2>3. TypeOK'
    BY <1>5, <2>1, <2>2 DEF TypeOK, Memory, Inv
  <2>4. DataWritten'
    BY <2>1, <2>2 DEF DataWritten
  <2>5. TableInOrder' /\ LentTableFull' /\ LentIsFull'
    BY <1>5, <2>1 DEF TableInOrder, InOrder, LentTableFull, LentIsFull, Inv, TypeOK
  <2> QED BY <2>3, <2>4, <2>5 DEF Inv
<1>6. ASSUME NEW n \in Lengths, Read(n), Alive PROVE Inv'
  BY <1>6 DEF Read, objs, Inv, TypeOK, DataWritten, TableInOrder, LentTableFull, LentIsFull, InOrder
<1>7. ASSUME ReadObject, Alive PROVE Inv'
  <2>1. mNextObjectHint' \in Nat
    <3> DEFINE Ends == {k \in 0 .. LastIndex : SearchEnds(k, mDataPos)}
    <3>1. mNextObjectHint \in Nat
      BY DEF Inv, TypeOK
    <3>2. mNextObjectHint' = mNextObjectHint
            \/ mNextObjectHint' \in {IF Offset(j) = mDataPos THEN j + 1 ELSE mNextObjectHint : j \in Ends}
      BY <1>7 DEF ReadObject
    <3>3. \A j \in Ends : (IF Offset(j) = mDataPos THEN j + 1 ELSE mNextObjectHint) \in Nat
      <4> SUFFICES ASSUME NEW j \in Ends
                   PROVE (IF Offset(j) = mDataPos THEN j + 1 ELSE mNextObjectHint) \in Nat
        OBVIOUS
      <4>1. j \in 0 .. LastIndex
        OBVIOUS
      <4> QED BY <3>1, <4>1
    <3> QED BY <3>1, <3>2, <3>3
  <2>2. /\ mDataPos' = mDataPos + ObjWords /\ mDataPos' <= mDataSize
        /\ UNCHANGED <<mData, mDataCapacity, mDataSize, mObjects, mObjectsCapacity, lent>>
    BY <1>7 DEF ReadObject
  <2> QED BY <1>7, <2>1, <2>2 DEF ObjWords, Inv, TypeOK, DataWritten, TableInOrder, LentTableFull, LentIsFull, InOrder
<1>8. ASSUME Rewind, Alive PROVE Inv'
  BY <1>8 DEF Rewind, Inv, TypeOK, DataWritten, TableInOrder, LentTableFull, LentIsFull, InOrder
<1>11. ASSUME Empty, Alive PROVE Inv'
  <2>1. mDataSize' = 0 /\ mDataPos' = 0 /\ ~lent /\ Len(mObjects) = 0
        /\ UNCHANGED <<mData, mDataCapacity, mObjects, mObjectsCapacity, mNextObjectHint, lent>>
    BY <1>11 DEF Empty, objs
  <2>2. TypeOK' /\ DataWritten'
    BY <1>11, <2>1 DEF Inv, TypeOK, DataWritten
  <2>3. TableInOrder' /\ LentTableFull' /\ LentIsFull'
    BY <1>11, <2>1 DEF Inv, TypeOK, TableInOrder, InOrder, LentTableFull, LentIsFull
  <2> QED BY <2>2, <2>3 DEF Inv
<1>9. ASSUME NEW n \in 1 .. MaxLent, NEW w \in Block(n), NEW o \in Offsets(n),
             ~crashed, IpcSetDataReference(n, w, o) PROVE Inv'
  <2>1. n \in Nat
    OBVIOUS
  <2>2. PICK k \in 0 .. MaxObjects : o \in [1 .. k -> 0 .. n - ObjWords]
    BY DEF Offsets
  <2>3. o \in Seq(Nat) /\ Len(o) = k
    BY <2>1, <2>2 DEF ObjWords
  <2>4. mData' = w /\ mData' \in Block(n)
    BY <1>9 DEF IpcSetDataReference
  <2>5. \A i \in 1 .. Len(o) : o[i] + ObjWords <= n
    BY <2>1, <2>2, <2>3 DEF ObjWords
  <2>6. mObjects' \in Seq(Nat) /\ Len(mObjects') <= Len(o) /\ Len(o) \in Nat
    BY <1>9, <2>3 DEF IpcSetDataReference
  <2>7. TypeOK'
    BY <1>9, <2>1, <2>4, <2>6 DEF IpcSetDataReference, TypeOK, Block, Inv
  <2>8. DataWritten'
    BY <1>9, <2>1, <2>4 DEF IpcSetDataReference, DataWritten, Block
  <2>9. ~crashed'
    BY <1>9 DEF IpcSetDataReference
  <2>10. TableInOrder'
    BY <1>9, <2>5, <2>6, <2>9 DEF IpcSetDataReference, TableInOrder, InOrder
  <2>11. LentTableFull' /\ LentIsFull'
    BY <1>9, <2>3 DEF IpcSetDataReference, LentTableFull, LentIsFull
  <2> QED BY <2>7, <2>8, <2>10, <2>11 DEF Inv
\* The table of a parcel that dies here had room, so it was one that was lent and refused.
<1>12. ASSUME NEW w \in Block(ObjWords), WriteObjectCrashes(w) PROVE Inv'
  <2>1. EnoughObjects /\ TableAfter(ObjWords) <= Len(mObjects) /\ crashed'
        /\ UNCHANGED <<data, objs, lent, refused>>
    BY <1>12 DEF WriteObjectCrashes, TableGone
  <2>2. Len(mObjects) \in Nat /\ mObjectsCapacity \in Nat
    BY DEF Inv, TypeOK
  <2>3. refused
    BY <2>1, <2>2 DEF EnoughObjects, TableAfter, TableAfterGrow, Inv, TypeOK, LentTableFull
  <2> QED BY <1>12, <2>1, <2>3 DEF WriteObjectCrashes, data, objs, Inv, TypeOK, DataWritten,
                                    TableInOrder, LentTableFull, LentIsFull, InOrder
<1>10. CASE UNCHANGED vars
  BY <1>10 DEF vars, data, objs, Inv, TypeOK, DataWritten, TableInOrder, LentTableFull, LentIsFull, InOrder
<1> QED BY <1>1, <1>2, <1>3, <1>4, <1>5, <1>6, <1>7, <1>8, <1>9, <1>10, <1>11, <1>12 DEF Next, Call

\* A new parcel satisfies the invariant (initState).
LEMMA Initially == Init => Inv
<1> SUFFICES ASSUME Init PROVE Inv
  OBVIOUS
<1>1. mData \in Memory(0)
  BY DEF Init, Memory
<1>2. Len(mObjects) = 0 /\ mObjects \in Seq(Nat)
  BY DEF Init
<1>3. TypeOK
  BY <1>1, <1>2 DEF Init, TypeOK, Memory
<1> QED BY <1>2, <1>3 DEF Init, Inv, DataWritten, TableInOrder, LentTableFull, LentIsFull, InOrder

LEMMA InvHolds == Spec => []Inv
BY Initially, Inductive, PTL DEF Spec

----------------------------------------------------------------------------
\* TYPE CORRECTNESS: the fields of a parcel keep their types.
THEOREM TypeCorrect == Spec => []TypeOK
<1>1. Inv => TypeOK
  BY DEF Inv
<1> QED BY <1>1, InvHolds, PTL

\* NOTHING UNWRITTEN: the data lie in memory the parcel has, and all were written, however
\* the parcel has grown and whoever owned the memory.
THEOREM DataWrittenHolds == Spec => []DataWritten
<1>1. Inv => DataWritten
  BY DEF Inv
<1> QED BY <1>1, InvHolds, PTL

\* SOUND TABLE: the offsets of the objects are in order, apart and within the data, each with
\* a place in the table, and no object is entered where there is no place, unless the parcel
\* was lent with offsets out of order, which are refused and leave a capacity without a table.
THEOREM TableInOrderHolds == Spec => []TableInOrder
<1>1. Inv => TableInOrder
  BY DEF Inv
<1> QED BY <1>1, InvHolds, PTL

\* SEARCH: in a table in order the search ends at the object at p, if there is one, from any
\* hint (cParcel.cpp:1443-1479).
LEMMA SearchFinds == Inv => HintFinds
<1> SUFFICES ASSUME Inv, NEW p \in 0 .. mDataSize, NEW j \in 0 .. LastIndex, SearchEnds(j, p),
                    NEW q \in 0 .. LastIndex, Offset(q) = p
             PROVE  Offset(j) = p
  BY DEF HintFinds
<1>1. PICK i \in 0 .. LastIndex : ForwardStops(i, p) /\ BackwardStops(j, i, p)
  BY DEF SearchEnds
<1>2. /\ LastIndex \in Int /\ mNextObjectHint \in Nat
      /\ \A k \in 0 .. LastIndex : Offset(k) \in Nat
  BY DEF LastIndex, Offset, Inv, TypeOK
<1>3. \A k, l \in 0 .. LastIndex : k < l => Offset(k) < Offset(l)
  <2> SUFFICES ASSUME NEW k \in 0 .. LastIndex, NEW l \in 0 .. LastIndex, k < l
               PROVE  Offset(k) < Offset(l)
    OBVIOUS
  <2>1. Offset(k) + ObjWords <= Offset(l)
    BY DEF LastIndex, Offset, Inv, TypeOK, TableInOrder, InOrder
  <2> QED BY <1>2, <2>1 DEF ObjWords
\* The forward loop does not pass the object, and it stops at it if it starts before it.
<1>4. q <= i
  BY <1>1, <1>2, <1>3 DEF ForwardStops
\* The backward loop does not pass it either, and goes on above it.
<1>5. q <= j
  <2> SUFFICES ASSUME j < q PROVE FALSE
    BY <1>2
  <2>1. q \in j + 1 .. i
    BY <1>2, <1>4
  <2> QED BY <1>1, <1>2, <2>1 DEF BackwardStops
<1>6. ~(q < j)
  <2> SUFFICES ASSUME q < j PROVE FALSE
    OBVIOUS
  <2>1. p < Offset(j) /\ j # 0
    BY <1>2, <1>3
  <2>2. Offset(j) <= p
    BY <1>1, <2>1 DEF BackwardStops
  <2> QED BY <1>2, <2>1, <2>2
<1>7. j = q
  BY <1>2, <1>5, <1>6
<1> QED BY <1>7

\* OBJECTS ARE FOUND: readObject finds an object exactly when the table has it.
THEOREM HintFindsHolds == Spec => []HintFinds
BY SearchFinds, InvHolds, PTL

----------------------------------------------------------------------------
\* A step that leaves the size, the position and the data is none of the log.
LEMMA SameLog ==
    ASSUME UNCHANGED <<mDataSize, mDataPos>>, \A i \in 0 .. mDataSize - 1 : mData'[i] = mData[i]
    PROVE  UNCHANGED Abstract!vars
BY DEF Abstract!vars

\* Every step of the parcel is a step of the log or leaves it as it is.
LEMMA StepRefines == Inv /\ Inv' /\ [Next]_vars => [Abstract!Next]_(Abstract!vars)
<1> SUFFICES ASSUME Inv, Inv', [Next]_vars PROVE Abstract!Next \/ UNCHANGED Abstract!vars
  OBVIOUS
<1> USE ParcelBufferAssumption DEF ParcelBufferAssumption
<1> DEFINE Log == [i \in 0 .. mDataSize - 1 |-> mData[i]]
<1>0. mDataPos \in Nat /\ mDataSize \in Nat /\ mDataPos <= mDataSize
  BY DEF Inv, TypeOK, DataWritten
<1>1. ASSUME NEW n \in Lengths, NEW w \in Block(n), Writable, MakeRoom(n), n \in Nat \ {0},
             mData' = Over(Roomy(n), n, w), FinishWrite(n)
      PROVE  Abstract!Next
  <2>1. mDataPos = mDataSize /\ mDataPos' = mDataPos + n /\ mDataSize' = mDataPos + n
    BY <1>0, <1>1 DEF Writable, FinishWrite, Larger
  <2>2. \A i \in 0 .. mDataPos + n - 1 :
           mData'[i] = IF i < mDataPos THEN mData[i] ELSE w[i - mDataPos]
    BY <1>1, RoomMade, WrittenOver
  <2>3. mDataSize' = Abstract!Larger(mDataSize, mDataPos + n)
    BY <1>0, <1>1, <2>1 DEF Abstract!Larger
  <2>4. Log' = [i \in 0 .. mDataSize' - 1 |->
                  IF i < mDataPos \/ i >= mDataPos + n THEN Log[i] ELSE w[i - mDataPos]]
    <3>1. ASSUME NEW i \in 0 .. mDataSize' - 1
          PROVE  mData'[i] = IF i < mDataPos \/ i >= mDataPos + n THEN Log[i] ELSE w[i - mDataPos]
      <4>1. i \in 0 .. mDataPos + n - 1 /\ ~(i >= mDataPos + n)
        BY <1>0, <1>1, <2>1
      <4>2. i < mDataPos => Log[i] = mData[i]
        BY <1>0, <2>1, <4>1
      <4> QED BY <2>2, <4>1, <4>2
    <3> QED BY <3>1
  <2>5. Abstract!Put(n, w)
    BY <2>1, <2>3, <2>4 DEF Abstract!Put
  <2>6. w \in [0 .. n - 1 -> Cells]
    BY DEF Block
  <2> QED BY <2>5, <2>6 DEF Abstract!Next
<1>2. ASSUME NEW n \in Lengths, NEW w \in Block(n), Write(n, w) PROVE Abstract!Next
  BY <1>1, <1>2 DEF Write
<1>3. ASSUME NEW w \in Block(ObjWords), WriteObject(w) PROVE Abstract!Next
  BY <1>1, <1>3 DEF WriteObject, ObjWords
<1>4. ASSUME WriteObjectFails PROVE UNCHANGED Abstract!vars
  BY <1>4, RoomMade, SameLog DEF WriteObjectFails, ObjWords
<1>5. ASSUME NEW n \in Lengths, SetDataCapacity(n) PROVE UNCHANGED Abstract!vars
  <2>1. /\ n \in Nat /\ mDataCapacity < n /\ mData' = Moved(n)
        /\ UNCHANGED <<mDataSize, mDataPos>>
    BY <1>5 DEF SetDataCapacity
  <2>2. \A i \in 0 .. mDataSize - 1 : Moved(n)[i] = mData[i]
    <3>1. mDataCapacity \in Nat /\ mDataSize <= mDataCapacity
      BY DEF Inv, TypeOK, DataWritten
    <3> QED BY <1>0, <2>1, <3>1 DEF Moved
  <2>3. \A i \in 0 .. mDataSize - 1 : mData'[i] = mData[i]
    BY <2>1, <2>2
  <2> QED BY <2>1, <2>3, SameLog
<1>6. ASSUME NEW n \in Nat, mDataPos' = mDataPos + n, mDataPos + n <= mDataSize,
             UNCHANGED <<mData, mDataSize>>
      PROVE  Abstract!Next
  <2>1. mDataPos' \in mDataPos .. mDataSize
    BY <1>0, <1>6
  <2>2. Abstract!Get
    BY <1>6, <2>1 DEF Abstract!Get
  <2> QED BY <2>2 DEF Abstract!Next
<1>7. ASSUME NEW n \in Lengths, Read(n) PROVE Abstract!Next
  BY <1>6, <1>7 DEF Read
<1>8. ASSUME ReadObject PROVE Abstract!Next
  BY <1>6, <1>8 DEF ReadObject, ObjWords
<1>9. ASSUME Rewind PROVE Abstract!Next
  BY <1>9 DEF Rewind, Abstract!Rewind, Abstract!Next
<1>10. ASSUME mDataPos' = 0 PROVE Abstract!Next \/ Abstract!Replace
  <2>1. mDataSize' \in Nat /\ \A i \in 0 .. mDataSize' - 1 : mData'[i] \in Cells
    BY DEF Inv, TypeOK, DataWritten
  <2>2. Log' \in [0 .. mDataSize' - 1 -> Cells]
    BY <2>1
  <2> QED BY <1>10, <2>1, <2>2 DEF Abstract!Replace
<1>11. ASSUME Empty PROVE Abstract!Next
  BY <1>10, <1>11 DEF Empty, Abstract!Next
<1>12. ASSUME NEW n \in Lengths, NEW w \in Block(n), Refill(n, w) PROVE Abstract!Next
  BY <1>10, <1>12 DEF Refill, Abstract!Next
<1>13. ASSUME NEW n \in 1 .. MaxLent, NEW w \in Block(n), NEW o \in Offsets(n),
              IpcSetDataReference(n, w, o) PROVE Abstract!Next
  BY <1>10, <1>13 DEF IpcSetDataReference, Abstract!Next
<1>15. ASSUME NEW w \in Block(ObjWords), WriteObjectCrashes(w) PROVE UNCHANGED Abstract!vars
  BY <1>15 DEF WriteObjectCrashes, data, Abstract!vars
<1>14. CASE UNCHANGED vars
  BY <1>14 DEF vars, data, Abstract!vars
<1> QED BY <1>2, <1>3, <1>4, <1>5, <1>7, <1>8, <1>9, <1>11, <1>12, <1>13, <1>14, <1>15 DEF Next, Call

LEMMA InitRefines == Init => Abstract!Init
<1> SUFFICES ASSUME Init PROVE Abstract!Init
  OBVIOUS
<1>1. mDataSize = 0 /\ mDataPos = 0
  BY DEF Init
<1>2. [i \in 0 .. mDataSize - 1 |-> mData[i]] = [i \in {} |-> 0]
  BY <1>1
<1> QED BY <1>1, <1>2 DEF Abstract!Init

\* A LOG OF WORDS: whatever the words, the lengths, the growth and the owner of the memory,
\* the parcel shows its user what was written or received, in its place.
THEOREM Refinement == Spec => ImplementsParcelLog
BY InvHolds, InitRefines, StepRefines, PTL DEF Spec, ImplementsParcelLog, Abstract!Spec
=============================================================================
