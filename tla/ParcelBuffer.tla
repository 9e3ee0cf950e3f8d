---------------------------- MODULE ParcelBuffer -----------------------------
(***************************************************************************)
(* The buffer of a Parcel: words up to a size, a capacity that grows, a    *)
(* position, and the table of the offsets at which objects lie.  The data  *)
(* are the parcel's own or are lent to it by the driver, until the parcel  *)
(* has to grow and takes a copy.  Sizes are in words of 4 bytes; an object *)
(* is two words here, its binder and its cookie.                           *)
(***************************************************************************)
EXTENDS Integers, Sequences

CONSTANTS Words,          \* values of a word other than 0
          Junk,           \* what memory holds that nobody has written
          Lengths,        \* how many words one write or read may have
          MaxWords,       \* bounds the capacity
          MaxLent,        \* bounds the buffers the driver lends
          MaxObjects,     \* bounds the table of objects
          MallocMayFail   \* malloc and realloc may return NULL

Cells    == Words \cup {0}
ObjWords == 2

ASSUME ParcelBufferAssumption ==
    /\ 0 \notin Words /\ Junk \notin Cells
    /\ Lengths \subseteq Nat \ {0} /\ ObjWords \in Lengths
    /\ MaxWords \in Nat /\ MaxLent \in Nat /\ MaxObjects \in Nat
    /\ MallocMayFail \in BOOLEAN

VARIABLES mData,             \* the memory: word -> value, as long as the capacity
          mDataCapacity,
          mDataSize,
          mDataPos,
          mObjects,          \* the offsets of the objects, in the order of the table
          mObjectsCapacity,
          mNextObjectHint,   \* where readObject starts to look, from 0
          lent,              \* mOwner is set: the memory is the driver's
          refused,           \* history: the offsets lent with it were out of order
          crashed            \* the process has written where it has no memory

data == <<mData, mDataCapacity, mDataSize, mDataPos>>
objs == <<mObjects, mObjectsCapacity, mNextObjectHint>>
vars == <<data, objs, lent, refused, crashed>>

TypeOK == /\ mDataCapacity \in Nat /\ mDataSize \in Nat /\ mDataPos \in Nat
          /\ mData \in [0 .. mDataCapacity - 1 -> Cells \cup {Junk}]
          /\ mObjects \in Seq(Nat) /\ mObjectsCapacity \in Nat
          /\ mNextObjectHint \in Nat
          /\ lent \in BOOLEAN /\ refused \in BOOLEAN /\ crashed \in BOOLEAN

\* Blocks of n words as they come from a caller or from the driver.
Block(n)  == [0 .. n - 1 -> Cells]
Larger(m, n) == IF m > n THEN m ELSE n

----------------------------------------------------------------------------
\* initState.
Init == /\ mData = [i \in {} |-> 0]
        /\ mDataCapacity = 0 /\ mDataSize = 0 /\ mDataPos = 0
        /\ mObjects = << >> /\ mObjectsCapacity = 0 /\ mNextObjectHint = 0
        /\ lent = FALSE /\ refused = FALSE /\ crashed = FALSE

\* growData: half as much again as the data and what is to come.
Wanted(n) == ((mDataSize + n) * 3) \div 2
Fits(n)   == mDataPos + n <= mDataCapacity

\* Plausible bugs: the lent data are not copied; mData is not set to the new memory.
MovedNothing(c) == [i \in 0 .. c - 1 |->
                      IF i < (IF lent THEN 0 ELSE mDataCapacity) THEN mData[i] ELSE Junk]
MovedNowhere(c) == IF c > mDataCapacity THEN mData ELSE << >>

\* continueWrite for c words, more than the capacity: realloc of the parcel's own
\* memory, or a copy of the data that were lent.
Moved(c) == [i \in 0 .. c - 1 |->
               IF i < (IF lent THEN mDataSize ELSE mDataCapacity) THEN mData[i] ELSE Junk]
GrowTo(c) == /\ mDataCapacity' = c
             /\ lent' = FALSE
             /\ IF lent THEN mNextObjectHint' = 0 ELSE UNCHANGED mNextObjectHint
TableAfterGrow == IF lent THEN Len(mObjects) ELSE mObjectsCapacity

\* Room for n words at the position.
MakeRoom(n)   == IF Fits(n) THEN UNCHANGED <<mDataCapacity, lent, mNextObjectHint>>
                            ELSE Wanted(n) <= MaxWords /\ GrowTo(Wanted(n))
Roomy(n)      == IF Fits(n) THEN mData ELSE Moved(Wanted(n))
TableAfter(n) == IF Fits(n) THEN mObjectsCapacity ELSE TableAfterGrow

\* A block of n words over memory m at the position, and finishWrite.
Over(m, n, w) == [i \in DOMAIN m |-> IF mDataPos <= i /\ i < mDataPos + n
                                     THEN w[i - mDataPos] ELSE m[i]]
FinishWrite(n) == /\ mDataPos' = mDataPos + n
                  /\ mDataSize' = Larger(mDataSize, mDataPos + n)

\* The code only writes a parcel at its end.
Writable == mDataPos = mDataSize

\* writeAligned, writeInplace, writeUnpadded.  A malloc that fails leaves all as it was.
Write(n, w) ==
    /\ Writable
    /\ MakeRoom(n)
    /\ mData' = Over(Roomy(n), n, w)
    /\ FinishWrite(n)
    /\ mObjectsCapacity' = TableAfter(n)
    /\ UNCHANGED mObjects

\* writeObject(val, false): an object with no binder is not entered in the table.
\* Whether the table has room is looked at before the data grow.
\* (A plausible bug: room for one object more than there is.)
EnoughObjectsOver == Len(mObjects) <= mObjectsCapacity
EnoughObjects == Len(mObjects) < mObjectsCapacity

\* The table that had room has none once the data have grown: a growth of lent data
\* makes the capacity the number of the objects, and the table NULL if there are none.
TableGone == EnoughObjects /\ TableAfter(ObjWords) <= Len(mObjects)

WriteObject(w) ==
    /\ Writable /\ ~(w[0] # 0 /\ TableGone)
    /\ MakeRoom(ObjWords)
    /\ mData' = Over(Roomy(ObjWords), ObjWords, w)
    /\ FinishWrite(ObjWords)
    /\ mObjectsCapacity' = IF EnoughObjects THEN TableAfter(ObjWords)
                                            ELSE ((Len(mObjects) + 2) * 3) \div 2
    /\ IF w[0] # 0 THEN Len(mObjects) < MaxObjects /\ mObjects' = Append(mObjects, mDataPos)
                   ELSE UNCHANGED mObjects

\* The object is entered through the NULL table all the same, and the process dies.
WriteObjectCrashes(w) ==
    /\ Writable /\ w[0] # 0 /\ TableGone
    /\ crashed' = TRUE
    /\ UNCHANGED <<data, objs, lent, refused>>

\* The data have grown, the table has not: NO_MEMORY, with nothing written.
WriteObjectFails ==
    /\ MallocMayFail /\ Writable /\ ~EnoughObjects
    /\ MakeRoom(ObjWords)
    /\ mData' = Roomy(ObjWords)
    /\ mObjectsCapacity' = TableAfter(ObjWords)
    /\ UNCHANGED <<mDataSize, mDataPos, mObjects>>

SetDataCapacity(n) ==
    /\ mDataCapacity < n /\ n <= MaxWords
    /\ GrowTo(n)
    /\ mData' = Moved(n)
    /\ mObjectsCapacity' = TableAfterGrow
    /\ UNCHANGED <<mDataSize, mDataPos, mObjects>>

----------------------------------------------------------------------------
\* A plausible bug: the end of the data is not looked at.
ReadUnchecked(n) == /\ mDataPos <= mDataSize
                    /\ mDataPos' = mDataPos + n
                    /\ UNCHANGED <<mData, mDataCapacity, mDataSize, objs, lent>>

\* read, readAligned, readInplace: nothing is read past the end.
Read(n) == /\ mDataPos + n <= mDataSize
           /\ mDataPos' = mDataPos + n
           /\ UNCHANGED <<mData, mDataCapacity, mDataSize, objs, lent>>

\* The search for the object at offset p starts at the hint: the forward loop stops
\* at index i, the backward loop at index j.
Offset(i)  == mObjects[i + 1]
LastIndex  == Len(mObjects) - 1
\* (A plausible bug: the search stops one object short.)
ForwardStopsShort(i, p) ==
    /\ i \in 0 .. LastIndex
    /\ i >= LastIndex - 1 \/ Offset(i) >= p
    /\ \A k \in mNextObjectHint .. i - 1 : Offset(k) < p /\ k < LastIndex - 1
ForwardStops(i, p) ==
    IF mNextObjectHint > LastIndex
      THEN i = LastIndex
      ELSE /\ i \in mNextObjectHint .. LastIndex
           /\ i = LastIndex \/ Offset(i) >= p
           /\ \A k \in mNextObjectHint .. i - 1 : Offset(k) < p
BackwardStops(j, i, p) ==
    /\ j \in 0 .. i
    /\ j = 0 \/ Offset(j) <= p
    /\ \A k \in j + 1 .. i : Offset(k) > p
SearchEnds(j, p) == \E i \in 0 .. LastIndex : ForwardStops(i, p) /\ BackwardStops(j, i, p)

\* readObject(false) returns an object with neither binder nor cookie unseen, and
\* looks up any other.
ReadObject ==
    /\ mDataPos + ObjWords <= mDataSize
    /\ mDataPos' = mDataPos + ObjWords
    /\ mNextObjectHint' \in
         IF \A i \in 0 .. ObjWords - 1 : mData[mDataPos + i] = 0 THEN {mNextObjectHint}
         ELSE IF mObjects = << >> THEN {mNextObjectHint}
         ELSE {IF Offset(j) = mDataPos THEN j + 1 ELSE mNextObjectHint :
                 j \in {k \in 0 .. LastIndex : SearchEnds(k, mDataPos)}}
    /\ UNCHANGED <<mData, mDataCapacity, mDataSize, mObjects, mObjectsCapacity, lent>>

\* setDataPosition(0).
Rewind == /\ mDataPos' = 0 /\ mNextObjectHint' = 0
          /\ UNCHANGED <<mData, mDataCapacity, mDataSize, mObjects, mObjectsCapacity, lent>>

\* setDataSize(0), of a parcel of its own without objects as mOut is.
Empty == /\ ~lent /\ mObjects = << >> /\ mDataCapacity > 0
         /\ mDataSize' = 0 /\ mDataPos' = 0
         /\ UNCHANGED <<mData, mDataCapacity, objs, lent>>

\* talkWithDriver: the driver has put n words into mIn; setDataSize(n), then
\* setDataPosition(0).
Refill(n, w) ==
    /\ ~lent /\ mObjects = << >> /\ n <= mDataCapacity
    /\ mData' = [i \in DOMAIN mData |-> IF i < n THEN w[i] ELSE mData[i]]
    /\ mDataSize' = n /\ mDataPos' = 0
    /\ mNextObjectHint' = 0
    /\ UNCHANGED <<mDataCapacity, mObjects, mObjectsCapacity, lent>>

\* The loop over the offsets: each lies where the object before it ends, or after.
InOrder(o) == \A i, j \in 1 .. Len(o) : i < j => o[i] + ObjWords <= o[j]

\* ipcSetDataReference, of the new parcel of a reply, which is lent the driver's buffer.
\* Offsets out of order are refused: the parcel then has no objects, but the capacity
\* stays what their number was.
IpcSetDataReference(n, w, o) ==
    /\ mDataCapacity = 0
    /\ mData' = w /\ mDataCapacity' = n /\ mDataSize' = n /\ mDataPos' = 0
    /\ mObjects' = (IF InOrder(o) THEN o ELSE << >>)
    /\ mObjectsCapacity' = Len(o) /\ mNextObjectHint' = 0
    /\ lent' = TRUE /\ refused' = ~InOrder(o)
    /\ UNCHANGED crashed

----------------------------------------------------------------------------
\* The offsets the driver may lend with n words: in any order, each of an object that ends
\* within the data.  That they do is the driver's to see to, nothing here looks at it.
Offsets(n) == UNION {[1 .. k -> 0 .. n - ObjWords] : k \in 0 .. MaxObjects}

\* A call on a parcel that goes on.
Call == \/ \E n \in Lengths : \/ \E w \in Block(n) : Write(n, w) \/ Refill(n, w)
                            \/ Read(n)
                            \/ SetDataCapacity(n)
        \/ \E w \in Block(ObjWords) : WriteObject(w)
        \/ WriteObjectFails
        \/ ReadObject \/ Rewind \/ Empty

Next == /\ ~crashed
        /\ \/ Call /\ UNCHANGED <<refused, crashed>>
           \/ \E w \in Block(ObjWords) : WriteObjectCrashes(w)
           \/ \E n \in 1 .. MaxLent : \E w \in Block(n), o \in Offsets(n) :
                  IpcSetDataReference(n, w, o)

Spec == Init /\ [][Next]_vars

----------------------------------------------------------------------------
(* Properties *)

\* Every word of the data lies in memory the parcel has and has been written: no
\* write passes the capacity, no growth loses or exposes a word, whether the memory
\* is the parcel's own or lent (cParcel.cpp:1625-1840).
DataWritten == /\ mDataPos <= mDataSize /\ mDataSize <= mDataCapacity
               /\ \A i \in 0 .. mDataSize - 1 : mData[i] \in Cells

\* The table says where objects are: in order, apart, within the data, and each with a
\* place in the table.  No object is entered where there is none, except in a parcel whose
\* offsets were refused: there writeObject finds room in a table that the growth of the
\* data takes away (cParcel.cpp:1006-1047, 1535-1544, 1756-1761).
TableInOrder == /\ InOrder(mObjects)
                /\ \A i \in 1 .. Len(mObjects) : mObjects[i] + ObjWords <= mDataSize
                /\ Len(mObjects) <= mObjectsCapacity
                /\ crashed => refused

\* Wherever the hint stands, the search of readObject finds an object exactly when
\* the table has it (cParcel.cpp:1443-1479).
HintFinds ==
    \A p \in 0 .. mDataSize, j \in 0 .. LastIndex :
        SearchEnds(j, p) => (Offset(j) = p <=> \E i \in 0 .. LastIndex : Offset(i) = p)

\* To its user the parcel is a log of words.
Abstract == INSTANCE ParcelLog
    WITH size <- mDataSize, pos <- mDataPos, log <- [i \in 0 .. mDataSize - 1 |-> mData[i]]
ImplementsParcelLog == Abstract!Spec
=============================================================================
