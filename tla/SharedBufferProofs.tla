-------------------------- MODULE SharedBufferProofs --------------------------
(***************************************************************************)
(* References are counted for any number of users, buffers and sizes, and  *)
(* sharing and copy on write give every user a copy of its own.            *)
(***************************************************************************)
EXTENDS SharedBuffer, FiniteSetTheorems, SequenceTheorems, TLAPS

\* Where a user is in which call, and what it has there.
Shape(u) ==
    /\ pc[u] # "idle" => ref[u] # None
    /\ new[u] # None => pc[u] \in {"release", "sole", "shared"}
    /\ call[u] = "none" <=> pc[u] \in {"idle", "write", "kept"}
    /\ pc[u] = "load" => call[u] \in {"edit", "resize"}
    /\ pc[u] = "realloc" => call[u] = "resize"
    /\ pc[u] = "copy" => call[u] \in {"edit", "resize", "reset"}
    /\ pc[u] \in {"release", "sole", "shared"} => (new[u] = None <=> call[u] = "release")
    /\ keep[u] => call[u] = "release"
    /\ \/ pc[u] \in {"realloc", "copy"}
       \/ pc[u] = "load" /\ call[u] = "resize"
       => size[u] \in Sizes
    /\ pc[u] = "copy" /\ call[u] = "edit" => size[u] = heap[ref[u]].size

\* A new buffer is its user's only, until the call returns it.
NewAlone == \A u \in Users : new[u] # None => /\ \A v \in Users : ref[v] # new[u]
                                              /\ \A v \in Users : v # u => new[v] # new[u]

\* And it has what the old buffer has, which does not change meanwhile.
CopyTrue ==
    \A u \in Users : new[u] # None =>
       /\ call[u] = "edit" => heap[new[u]].size = heap[ref[u]].size
       /\ call[u] \in {"edit", "resize"} =>
             \A i \in DOMAIN heap[new[u]].data \cap DOMAIN heap[ref[u]].data :
                heap[new[u]].data[i] = heap[ref[u]].data[i]

Inv == /\ TypeOK /\ Counted /\ Alone /\ NewAlone /\ CopyTrue
       /\ \A u \in Users : Shape(u)

----------------------------------------------------------------------------
(* Facts of any state *)

LEMMA HoldersFinite ==
    \A b : /\ IsFiniteSet(Holders(b)) /\ Cardinality(Holders(b)) \in Nat
BY SharedBufferAssumption, FS_Subset, FS_CardinalityType DEF Holders

\* Types of what a user has.
LEMMA HasBuffer ==
    ASSUME Inv, NEW u \in Users, ref[u] # None
    PROVE  /\ ref[u] \in DOMAIN heap /\ ref[u] \in Blocks
           /\ heap[ref[u]] \in Buffer /\ heap[ref[u]].data \in Data(heap[ref[u]].size)
           /\ heap[ref[u]].refs = Cardinality(Holders(ref[u]))
BY DEF Inv, Counted, TypeOK

\* Who finds a count of one shares with nobody.
LEMMA SoleOwner ==
    ASSUME Inv, NEW u \in Users, ref[u] # None, pc[u] # "kept", heap[ref[u]].refs = 1
    PROVE  /\ Holders(ref[u]) = {u}
           /\ \A v \in Users : v # u => ref[v] # ref[u]
<1>1. u \in Holders(ref[u])
  BY DEF Holders
<1>2. Cardinality(Holders(ref[u])) = 1
  BY HasBuffer
<1>3. \E x : Holders(ref[u]) = {x}
  BY <1>2, HoldersFinite, FS_Singleton
<1>4. Holders(ref[u]) = {u}
  BY <1>1, <1>3
<1>5. ASSUME NEW v \in Users, v # u, ref[v] = ref[u] PROVE FALSE
  <2>1. CASE pc[v] = "kept"
    BY <1>5, <2>1 DEF Inv, Alone
  <2>2. CASE pc[v] # "kept"
    BY <1>4, <1>5, <2>2 DEF Holders
  <2> QED  BY <2>1, <2>2
<1> QED  BY <1>4, <1>5

\* Who was the only owner still is the only one that is counted.
LEMMA StillAlone ==
    ASSUME Inv, NEW u \in Users, pc[u] \in {"write", "realloc", "sole"}
    PROVE  Holders(ref[u]) = {u} /\ heap[ref[u]].refs = 1 /\ ref[u] # None
<1>1. ref[u] # None
  BY DEF Inv, Shape
<1>2. Holders(ref[u]) = {u}
  BY <1>1 DEF Inv, Alone, NewAlone, Holders
<1>3. Cardinality({u}) = 1
  BY FS_Singleton
<1> QED  BY <1>1, <1>2, <1>3, HasBuffer

\* What is copied fits, and is what was there.
LEMMA CopiedType ==
    ASSUME NEW b, heap[b] \in Buffer, heap[b].data \in Data(heap[b].size),
           NEW n \in Sizes, NEW d \in Data(n)
    PROVE  /\ Copied(b, n, d) \in Data(n)
           /\ \A i \in 1 .. n : i <= heap[b].size => Copied(b, n, d)[i] = heap[b].data[i]
<1>1. n \in Nat /\ heap[b].size \in Nat
  BY SharedBufferAssumption DEF Buffer
<1>2. heap[b].data \in [1 .. heap[b].size -> Contents] /\ d \in [1 .. n -> Contents]
  BY DEF Data
<1>3. ASSUME NEW i \in 1 .. n
      PROVE  (IF i <= heap[b].size THEN heap[b].data[i] ELSE d[i]) \in Contents
  BY <1>1, <1>2
<1> QED  BY <1>1, <1>3 DEF Copied, Data

\* A place that is free is nobody's.
LEMMA FreeIsNobodys ==
    ASSUME Inv, NEW b \in Free
    PROVE  /\ b # None /\ b \in Blocks /\ b \notin DOMAIN heap
           /\ \A u \in Users : ref[u] # b /\ new[u] # b
           /\ Holders(b) = {}
BY SharedBufferAssumption DEF Inv, Counted, Free, Holders

----------------------------------------------------------------------------
LEMMA InitInv == Init => Inv
<1> SUFFICES ASSUME Init PROVE Inv
  OBVIOUS
<1>1. TypeOK
  BY DEF Init, TypeOK, Calls, Places
<1>2. Counted /\ Alone /\ NewAlone /\ CopyTrue
  BY DEF Init, Counted, Alone, NewAlone, CopyTrue
<1>3. \A u \in Users : Shape(u)
  BY DEF Init, Shape
<1> QED  BY <1>1, <1>2, <1>3 DEF Inv

\* Steps inside a call that leave the memory alone.
LEMMA LocalStep ==
    ASSUME Inv, NEW u \in Users, NEW p \in Places, NEW c \in Calls,
           NEW n \in Sizes \cup {None}, NEW k \in BOOLEAN,
           UNCHANGED <<heap, ref, new>>,
           pc' = [pc EXCEPT ![u] = p], call' = [call EXCEPT ![u] = c],
           size' = [size EXCEPT ![u] = n], keep' = [keep EXCEPT ![u] = k],
           pc[u] # "kept", p # "kept", ref[u] # None,
           p \in {"write", "realloc", "sole"} =>
              pc[u] \in {"write", "realloc", "sole"} \/ OnlyOwner(ref[u]),
           new[u] # None => c = call[u],
           Shape(u)'
    PROVE  Inv'
<1>1. TypeOK'
  BY DEF Inv, TypeOK
<1>2. \A b : Holders(b)' = Holders(b)
  BY DEF Inv, TypeOK, Holders
<1>3. Counted'
  BY <1>2 DEF Inv, TypeOK, Counted
<1>4. NewAlone' /\ CopyTrue'
  BY DEF Inv, TypeOK, NewAlone, CopyTrue
<1>5. Alone'
  BY SoleOwner DEF Inv, TypeOK, Alone, OnlyOwner
<1>6. \A v \in Users : Shape(v)'
  <2>1. ASSUME NEW v \in Users, v # u PROVE Shape(v)'
    <3>1. Shape(v)
      BY DEF Inv
    <3> QED  BY <2>1, <3>1 DEF Inv, TypeOK, Shape
  <2> QED  BY <2>1
<1> QED  BY <1>1, <1>3, <1>4, <1>5, <1>6 DEF Inv

LEMMA LocalSteps ==
    ASSUME Inv, NEW u \in Users,
           \/ CallEdit(u) \/ CallEditResize(u) \/ CallReset(u) \/ CallRelease(u)
           \/ EditSole(u) \/ EditShared(u) \/ AttemptEditFails(u)
           \/ SameSize(u) \/ OtherSize(u) \/ ReallocFails(u) \/ CopyFails(u) \/ Release(u)
    PROVE  Inv'
<1>1. /\ call[u] \in Calls /\ size[u] \in Sizes \cup {None} /\ keep[u] \in BOOLEAN
      /\ call = [call EXCEPT ![u] = call[u]] /\ size = [size EXCEPT ![u] = size[u]]
      /\ keep = [keep EXCEPT ![u] = keep[u]] /\ Shape(u)
      /\ pc \in [Users -> Places] /\ call \in [Users -> Calls]
      /\ size \in [Users -> Sizes \cup {None}] /\ keep \in [Users -> BOOLEAN]
  BY DEF Inv, TypeOK
<1>2. CASE CallEdit(u)
  <2>1. Shape(u)'
    BY <1>1, <1>2 DEF CallEdit, Call, Goto, Shape
  <2>2. /\ ref[u] # None /\ pc[u] # "kept" /\ new[u] = None /\ UNCHANGED <<heap, ref, new>>
        /\ pc' = [pc EXCEPT ![u] = "load"] /\ call' = [call EXCEPT ![u] = "edit"]
        /\ size' = [size EXCEPT ![u] = size[u]] /\ keep' = [keep EXCEPT ![u] = keep[u]]
    BY <1>1, <1>2 DEF CallEdit, Call, Goto, Shape
  <2> QED  BY <1>1, <2>1, <2>2, LocalStep DEF Calls, Places
<1>3. CASE CallEditResize(u)
  <2>1. PICK n \in Sizes : size' = [size EXCEPT ![u] = n]
    BY <1>3 DEF CallEditResize
  <2>2. Shape(u)'
    BY <1>1, <1>3, <2>1 DEF CallEditResize, Call, Goto, Shape
  <2>3. /\ ref[u] # None /\ pc[u] # "kept" /\ new[u] = None /\ UNCHANGED <<heap, ref, new>>
        /\ pc' = [pc EXCEPT ![u] = "load"] /\ call' = [call EXCEPT ![u] = "resize"]
        /\ keep' = [keep EXCEPT ![u] = keep[u]]
    BY <1>1, <1>3 DEF CallEditResize, Call, Goto, Shape
  <2> QED  BY <1>1, <2>1, <2>2, <2>3, LocalStep DEF Calls, Places
<1>4. CASE CallReset(u)
  <2>1. PICK n \in Sizes : size' = [size EXCEPT ![u] = n]
    BY <1>4 DEF CallReset
  <2>2. Shape(u)'
    BY <1>1, <1>4, <2>1 DEF CallReset, Call, Goto, Shape
  <2>3. /\ ref[u] # None /\ pc[u] # "kept" /\ new[u] = None /\ UNCHANGED <<heap, ref, new>>
        /\ pc' = [pc EXCEPT ![u] = "copy"] /\ call' = [call EXCEPT ![u] = "reset"]
        /\ keep' = [keep EXCEPT ![u] = keep[u]]
    BY <1>1, <1>4 DEF CallReset, Call, Goto, Shape
  <2> QED  BY <1>1, <2>1, <2>2, <2>3, LocalStep DEF Calls, Places
<1>5. CASE CallRelease(u)
  <2>1. PICK k \in BOOLEAN : keep' = [keep EXCEPT ![u] = k]
    BY <1>5 DEF CallRelease
  <2>2. Shape(u)'
    BY <1>1, <1>5, <2>1 DEF CallRelease, Call, Goto, Shape
  <2>3. /\ ref[u] # None /\ pc[u] # "kept" /\ new[u] = None /\ UNCHANGED <<heap, ref, new>>
        /\ pc' = [pc EXCEPT ![u] = "release"] /\ call' = [call EXCEPT ![u] = "release"]
        /\ size' = [size EXCEPT ![u] = size[u]]
    BY <1>1, <1>5 DEF CallRelease, Call, Goto, Shape
  <2> QED  BY <1>1, <2>1, <2>2, <2>3, LocalStep DEF Calls, Places
<1>6. CASE EditSole(u)
  <2>1. Shape(u)'
    BY <1>1, <1>6 DEF EditSole, Return, Goto, Shape
  <2>2. /\ ref[u] # None /\ pc[u] # "kept" /\ new[u] = None
        /\ OnlyOwner(ref[u]) /\ UNCHANGED <<heap, ref, new>>
        /\ pc' = [pc EXCEPT ![u] = "write"] /\ call' = [call EXCEPT ![u] = "none"]
        /\ size' = [size EXCEPT ![u] = None] /\ keep' = [keep EXCEPT ![u] = FALSE]
    BY <1>1, <1>6 DEF EditSole, Return, Goto, Shape
  <2> QED  BY <2>1, <2>2, LocalStep DEF Calls, Places
<1>7. CASE EditShared(u)
  <2>1. ref[u] # None /\ heap[ref[u]].size \in Sizes
    BY <1>1, <1>7, HasBuffer DEF EditShared, Shape, Buffer
  <2>2. Shape(u)'
    BY <1>1, <1>7, <2>1 DEF EditShared, Goto, Shape
  <2>3. /\ ref[u] # None /\ pc[u] # "kept" /\ UNCHANGED <<heap, ref, new>>
        /\ pc' = [pc EXCEPT ![u] = "copy"] /\ call' = [call EXCEPT ![u] = call[u]]
        /\ size' = [size EXCEPT ![u] = heap[ref[u]].size] /\ keep' = [keep EXCEPT ![u] = keep[u]]
    BY <1>1, <1>7, <2>1 DEF EditShared, Goto, Shape
  <2> QED  BY <1>1, <2>1, <2>2, <2>3, LocalStep DEF Places
<1>8. CASE AttemptEditFails(u)
  <2>1. Shape(u)'
    BY <1>1, <1>8 DEF AttemptEditFails, Return, Goto, Shape
  <2>2. /\ ref[u] # None /\ pc[u] # "kept" /\ new[u] = None /\ UNCHANGED <<heap, ref, new>>
        /\ pc' = [pc EXCEPT ![u] = "idle"] /\ call' = [call EXCEPT ![u] = "none"]
        /\ size' = [size EXCEPT ![u] = None] /\ keep' = [keep EXCEPT ![u] = FALSE]
    BY <1>1, <1>8 DEF AttemptEditFails, Return, Goto, Shape
  <2> QED  BY <2>1, <2>2, LocalStep DEF Calls, Places
<1>9. CASE SameSize(u)
  <2>1. Shape(u)'
    BY <1>1, <1>9 DEF SameSize, Return, Goto, Shape
  <2>2. /\ ref[u] # None /\ pc[u] # "kept" /\ new[u] = None
        /\ OnlyOwner(ref[u]) /\ UNCHANGED <<heap, ref, new>>
        /\ pc' = [pc EXCEPT ![u] = "write"] /\ call' = [call EXCEPT ![u] = "none"]
        /\ size' = [size EXCEPT ![u] = None] /\ keep' = [keep EXCEPT ![u] = FALSE]
    BY <1>1, <1>9 DEF SameSize, Return, Goto, Shape
  <2> QED  BY <2>1, <2>2, LocalStep DEF Calls, Places
<1>10. CASE OtherSize(u)
  <2>1. Shape(u)'
    BY <1>1, <1>10 DEF OtherSize, Goto, Shape
  <2>2. PICK p \in {"realloc", "copy"} : /\ pc' = [pc EXCEPT ![u] = p]
                                         /\ p = "realloc" => OnlyOwner(ref[u])
    BY <1>10 DEF OtherSize, Goto
  <2>3. /\ ref[u] # None /\ pc[u] # "kept" /\ UNCHANGED <<heap, ref, new>>
        /\ call' = [call EXCEPT ![u] = call[u]]
        /\ size' = [size EXCEPT ![u] = size[u]] /\ keep' = [keep EXCEPT ![u] = keep[u]]
    BY <1>1, <1>10 DEF OtherSize, Shape
  <2> QED  BY <1>1, <2>1, <2>2, <2>3, LocalStep DEF Places
<1>11. CASE ReallocFails(u)
  <2>1. Shape(u)'
    BY <1>1, <1>11 DEF ReallocFails, Goto, Shape
  <2>2. /\ ref[u] # None /\ pc[u] # "kept" /\ UNCHANGED <<heap, ref, new>>
        /\ pc' = [pc EXCEPT ![u] = "copy"] /\ call' = [call EXCEPT ![u] = call[u]]
        /\ size' = [size EXCEPT ![u] = size[u]] /\ keep' = [keep EXCEPT ![u] = keep[u]]
    BY <1>1, <1>11 DEF ReallocFails, Goto, Shape
  <2> QED  BY <1>1, <2>1, <2>2, LocalStep DEF Places
<1>12. CASE CopyFails(u)
  <2>1. Shape(u)'
    BY <1>1, <1>12 DEF CopyFails, Return, Goto, Shape
  <2>2. /\ ref[u] # None /\ pc[u] # "kept" /\ new[u] = None /\ UNCHANGED <<heap, ref, new>>
        /\ pc' = [pc EXCEPT ![u] = "idle"] /\ call' = [call EXCEPT ![u] = "none"]
        /\ size' = [size EXCEPT ![u] = None] /\ keep' = [keep EXCEPT ![u] = FALSE]
    BY <1>1, <1>12 DEF CopyFails, Return, Goto, Shape
  <2> QED  BY <2>1, <2>2, LocalStep DEF Calls, Places
<1>13. CASE Release(u)
  <2>1. Shape(u)'
    BY <1>1, <1>13 DEF Release, Goto, Shape
  <2>2. PICK p \in {"sole", "shared"} : /\ pc' = [pc EXCEPT ![u] = p]
                                        /\ p = "sole" => OnlyOwner(ref[u])
    BY <1>13 DEF Release, Goto
  <2>3. /\ ref[u] # None /\ pc[u] # "kept" /\ UNCHANGED <<heap, ref, new>>
        /\ call' = [call EXCEPT ![u] = call[u]]
        /\ size' = [size EXCEPT ![u] = size[u]] /\ keep' = [keep EXCEPT ![u] = keep[u]]
    BY <1>1, <1>13 DEF Release, Shape
  <2> QED  BY <1>1, <2>1, <2>2, <2>3, LocalStep DEF Places
<1> QED  BY <1>2, <1>3, <1>4, <1>5, <1>6, <1>7, <1>8, <1>9, <1>10, <1>11, <1>12, <1>13

----------------------------------------------------------------------------
(* Steps that change the memory *)

LEMMA AllocInv == ASSUME Inv, NEW u \in Users, Alloc(u) PROVE Inv'
<1>1. PICK n \in Sizes, b \in Free : \E d \in Data(n) :
         heap' = With(heap, b, Fresh(n, d)) /\ ref' = [ref EXCEPT ![u] = b]
  BY DEF Alloc
<1>2. PICK d \in Data(n) : heap' = With(heap, b, Fresh(n, d)) /\ ref' = [ref EXCEPT ![u] = b]
  BY <1>1
<1>3. /\ pc[u] = "idle" /\ ref[u] = None /\ new' = new /\ call' = call /\ pc' = pc
      /\ size' = size /\ keep' = keep
  BY DEF Alloc
<1>4. /\ b # None /\ b \in Blocks /\ b \notin DOMAIN heap /\ Holders(b) = {}
      /\ \A v \in Users : ref[v] # b /\ new[v] # b
  BY FreeIsNobodys
<1>5. /\ DOMAIN heap' = DOMAIN heap \cup {b}
      /\ heap'[b] = [refs |-> 1, size |-> n, data |-> d]
      /\ \A c \in DOMAIN heap : heap'[c] = heap[c]
  BY <1>2, <1>4 DEF With, Fresh
<1>6. /\ ref' \in [Users -> Blocks \cup {None}] /\ ref'[u] = b
      /\ \A v \in Users : v # u => ref'[v] = ref[v]
  BY <1>2, <1>4 DEF Inv, TypeOK
<1>7. TypeOK'
  BY <1>3, <1>4, <1>5, <1>6 DEF Inv, TypeOK, Buffer
<1>8. Holders(b)' = {u} /\ \A c \in DOMAIN heap : Holders(c)' = Holders(c)
  <2>1. Holders(b)' = {u}
    BY <1>3, <1>4, <1>6 DEF Holders
  <2>2. ASSUME NEW c \in DOMAIN heap PROVE Holders(c)' = Holders(c)
    <3>1. c # b /\ c # None
      BY <1>4, SharedBufferAssumption DEF Inv, TypeOK
    <3> QED  BY <1>3, <1>6, <3>1 DEF Holders
  <2> QED  BY <2>1, <2>2
<1>9. Cardinality({u}) = 1
  BY FS_Singleton
<1>10. Counted'
  <2>1. \A v \in Users : ({ref[v], new[v]} \ {None} \subseteq DOMAIN heap)'
    BY <1>3, <1>5, <1>6 DEF Inv, Counted
  <2>2. ASSUME NEW c \in DOMAIN heap'
        PROVE  /\ heap'[c].refs = Cardinality(Holders(c)')
               /\ heap'[c].refs = 0 => \E v \in Users : ref'[v] = c /\ pc'[v] = "kept"
    <3>1. CASE c = b
      BY <1>5, <1>8, <1>9, <3>1
    <3>2. CASE c # b
      BY <1>3, <1>5, <1>6, <1>8, <3>2 DEF Inv, Counted
    <3> QED  BY <3>1, <3>2
  <2> QED  BY <2>1, <2>2 DEF Counted
<1>11. Alone' /\ NewAlone'
  BY <1>3, <1>4, <1>6 DEF Inv, Alone, NewAlone
<1>12. CopyTrue'
  <2>1. \A v \in Users : new[v] # None => v # u /\ ref[v] \in DOMAIN heap /\ new[v] \in DOMAIN heap
    BY <1>3 DEF Inv, Shape, Counted
  <2> QED  BY <1>3, <1>5, <1>6, <2>1 DEF Inv, CopyTrue
<1>13. \A v \in Users : Shape(v)'
  <2>1. ASSUME NEW v \in Users PROVE Shape(v)'
    <3>1. Shape(v) /\ (ref[v] # None => ref[v] \in DOMAIN heap)
      BY DEF Inv, Counted
    <3> QED  BY <1>3, <1>4, <1>5, <1>6, <3>1 DEF Shape
  <2> QED  BY <2>1
<1> QED  BY <1>7, <1>10, <1>11, <1>12, <1>13 DEF Inv

LEMMA AcquireInv == ASSUME Inv, NEW u \in Users, NEW v \in Users, Acquire(u, v) PROVE Inv'
<1>0. PICK b : b = ref[u]
  OBVIOUS
<1>1. /\ pc[u] = "idle" /\ b # None /\ pc[v] = "idle" /\ ref[v] = None /\ v # u
      /\ heap' = [heap EXCEPT ![b].refs = @ + 1] /\ ref' = [ref EXCEPT ![v] = b]
      /\ new' = new /\ call' = call /\ pc' = pc /\ size' = size /\ keep' = keep
  BY <1>0 DEF Acquire
<1>2. /\ b \in DOMAIN heap /\ b \in Blocks /\ heap[b] \in Buffer
      /\ heap[b].data \in Data(heap[b].size) /\ heap[b].refs = Cardinality(Holders(b))
  BY <1>0, <1>1, HasBuffer
<1>3. /\ DOMAIN heap' = DOMAIN heap
      /\ heap'[b] = [refs |-> heap[b].refs + 1, size |-> heap[b].size, data |-> heap[b].data]
      /\ \A c \in DOMAIN heap : c # b => heap'[c] = heap[c]
      /\ \A c \in DOMAIN heap : heap'[c].size = heap[c].size /\ heap'[c].data = heap[c].data
  BY <1>1, <1>2 DEF Buffer
<1>4. /\ ref' \in [Users -> Blocks \cup {None}] /\ ref'[v] = b
      /\ \A w \in Users : w # v => ref'[w] = ref[w]
  BY <1>1, <1>2 DEF Inv, TypeOK
<1>5. TypeOK'
  BY <1>1, <1>2, <1>3, <1>4 DEF Inv, TypeOK, Buffer
<1>6. new[v] = None
  BY <1>1 DEF Inv, Shape
<1>7. /\ Holders(b)' = Holders(b) \cup {v} /\ v \notin Holders(b)
      /\ \A c \in DOMAIN heap : c # b => Holders(c)' = Holders(c)
  <2>1. \A c \in DOMAIN heap : c # None
    BY SharedBufferAssumption DEF Inv, TypeOK
  <2> QED  BY <1>1, <1>2, <1>4, <1>6, <2>1 DEF Holders
<1>8. Cardinality(Holders(b) \cup {v}) = Cardinality(Holders(b)) + 1
  BY <1>7, HoldersFinite, FS_AddElement
<1>9. Counted'
  <2>1. \A w \in Users : ({ref[w], new[w]} \ {None} \subseteq DOMAIN heap)'
    BY <1>1, <1>2, <1>3, <1>4 DEF Inv, Counted
  <2>2. ASSUME NEW c \in DOMAIN heap'
        PROVE  /\ heap'[c].refs = Cardinality(Holders(c)')
               /\ heap'[c].refs = 0 => \E w \in Users : ref'[w] = c /\ pc'[w] = "kept"
    <3>1. CASE c = b
      <4>1. heap'[c].refs = heap[b].refs + 1 /\ heap[b].refs \in Nat
        BY <1>2, <1>3, <3>1 DEF Buffer
      <4>2. Holders(c)' = Holders(b) \cup {v}
        BY <1>7, <3>1
      <4> QED  BY <1>2, <1>8, <4>1, <4>2
    <3>2. CASE c # b
      BY <1>1, <1>3, <1>4, <1>7, <3>2 DEF Inv, Counted
    <3> QED  BY <3>1, <3>2
  <2> QED  BY <2>1, <2>2 DEF Counted
<1>10. Alone' /\ NewAlone'
  BY <1>0, <1>1, <1>4, <1>6 DEF Inv, Alone, NewAlone
<1>11. CopyTrue'
  <2>1. \A w \in Users : new[w] # None => w # v /\ ref[w] \in DOMAIN heap /\ new[w] \in DOMAIN heap
    BY <1>1 DEF Inv, Shape, Counted
  <2> QED  BY <1>1, <1>3, <1>4, <2>1 DEF Inv, CopyTrue
<1>12. \A w \in Users : Shape(w)'
  <2>1. ASSUME NEW w \in Users PROVE Shape(w)'
    <3>1. Shape(w) /\ (ref[w] # None => ref[w] \in DOMAIN heap)
      BY DEF Inv, Counted
    <3> QED  BY <1>1, <1>3, <1>4, <3>1 DEF Shape
  <2> QED  BY <2>1
<1> QED  BY <1>5, <1>9, <1>10, <1>11, <1>12 DEF Inv

LEMMA ReallocInv == ASSUME Inv, NEW u \in Users, Realloc(u) PROVE Inv'
<1>0. PICK a : a = ref[u]
  OBVIOUS
<1>1. PICK b \in Free \cup {a}, d \in Data(size[u]) :
         /\ heap' = With(Without(heap, a), b, Resized(a, size[u], d))
         /\ ref' = [ref EXCEPT ![u] = b]
  BY <1>0 DEF Realloc
<1>2. /\ pc[u] = "realloc" /\ new' = new /\ pc' = [pc EXCEPT ![u] = "write"]
      /\ call' = [call EXCEPT ![u] = "none"] /\ size' = [size EXCEPT ![u] = None]
      /\ keep' = [keep EXCEPT ![u] = FALSE]
  BY DEF Realloc, Return, Goto
<1>3. /\ a # None /\ Holders(a) = {u} /\ heap[a].refs = 1
      /\ new[u] = None /\ size[u] \in Sizes
  BY <1>0, <1>2, StillAlone DEF Inv, Shape
<1>4. /\ a \in DOMAIN heap /\ a \in Blocks /\ heap[a] \in Buffer
      /\ heap[a].data \in Data(heap[a].size)
  BY <1>0, <1>3, HasBuffer
<1>5. \A v \in Users : v # u => ref[v] # a /\ new[v] # a /\ ref[v] # b /\ new[v] # b
  <2>1. \A v \in Users : v # u => ref[v] # a /\ new[v] # a
    BY <1>0, <1>2, <1>3 DEF Inv, Alone, NewAlone
  <2>2. b \in Free => \A v \in Users : ref[v] # b /\ new[v] # b
    BY FreeIsNobodys
  <2> QED  BY <2>1, <2>2
<1>6. b # None /\ b \in Blocks /\ (b # a => b \notin DOMAIN heap)
  BY <1>3, <1>4, FreeIsNobodys
<1>7. Copied(a, size[u], d) \in Data(size[u])
  BY <1>3, <1>4, CopiedType
<1>8. /\ DOMAIN heap' = (DOMAIN heap \ {a}) \cup {b}
      /\ heap'[b] = [refs |-> 1, size |-> size[u], data |-> Copied(a, size[u], d)]
      /\ \A c \in DOMAIN heap : c # a => c # b /\ c \in DOMAIN heap' /\ heap'[c] = heap[c]
  BY <1>1, <1>3, <1>6 DEF With, Without, Resized
<1>9. /\ ref' \in [Users -> Blocks \cup {None}] /\ ref'[u] = b
      /\ \A v \in Users : v # u => ref'[v] = ref[v]
      /\ pc'[u] = "write" /\ \A v \in Users : v # u => pc'[v] = pc[v]
      /\ call'[u] = "none" /\ \A v \in Users : v # u => call'[v] = call[v]
      /\ keep'[u] = FALSE /\ \A v \in Users : v # u => keep'[v] = keep[v]
      /\ \A v \in Users : v # u => size'[v] = size[v]
  BY <1>1, <1>2, <1>6 DEF Inv, TypeOK
<1>10. TypeOK'
  <2>1. heap'[b] \in Buffer /\ heap'[b].data \in Data(heap'[b].size)
    BY <1>3, <1>7, <1>8 DEF Buffer
  <2> QED  BY <1>2, <1>6, <1>8, <1>9, <2>1 DEF Inv, TypeOK, Calls, Places
<1>11. Holders(b)' = {u} /\ \A c \in DOMAIN heap : c # a => Holders(c)' = Holders(c)
  <2>1. Holders(b)' = {u}
    BY <1>2, <1>3, <1>5, <1>6, <1>9 DEF Holders
  <2>2. ASSUME NEW c \in DOMAIN heap, c # a PROVE Holders(c)' = Holders(c)
    <3>1. c # b
      BY <1>8, <2>2
    <3> QED  BY <1>0, <1>2, <1>9, <2>2, <3>1 DEF Holders
  <2> QED  BY <2>1, <2>2
<1>12. Counted'
  <2>1. \A v \in Users : ({ref[v], new[v]} \ {None} \subseteq DOMAIN heap)'
    <3>1. \A v \in Users : {ref[v], new[v]} \ {None} \subseteq DOMAIN heap
      BY DEF Inv, Counted
    <3> QED  BY <1>2, <1>3, <1>5, <1>8, <1>9, <3>1
  <2>2. ASSUME NEW c \in DOMAIN heap'
        PROVE  /\ heap'[c].refs = Cardinality(Holders(c)')
               /\ heap'[c].refs = 0 => \E v \in Users : ref'[v] = c /\ pc'[v] = "kept"
    <3>1. CASE c = b
      BY <1>8, <1>11, <3>1, FS_Singleton
    <3>2. CASE c # b
      <4>1. c \in DOMAIN heap /\ c # a /\ heap'[c] = heap[c] /\ Holders(c)' = Holders(c)
        BY <1>8, <1>11, <3>2
      <4>2. /\ heap[c].refs = Cardinality(Holders(c))
            /\ heap[c].refs = 0 => \E v \in Users : ref[v] = c /\ pc[v] = "kept"
        BY <4>1 DEF Inv, Counted
      <4> QED  BY <1>0, <1>9, <4>1, <4>2
    <3> QED  BY <3>1, <3>2
  <2> QED  BY <2>1, <2>2 DEF Counted
<1>13. Alone' /\ NewAlone'
  BY <1>2, <1>3, <1>5, <1>9 DEF Inv, Alone, NewAlone
<1>14. CopyTrue'
  <2>1. \A v \in Users : new[v] # None =>
           v # u /\ ref[v] \in DOMAIN heap /\ new[v] \in DOMAIN heap /\ ref[v] # a /\ new[v] # a
    BY <1>3, <1>5 DEF Inv, Shape, Counted
  <2> QED  BY <1>2, <1>8, <1>9, <2>1 DEF Inv, CopyTrue
<1>15. \A v \in Users : Shape(v)'
  <2>1. Shape(u)'
    BY <1>2, <1>3, <1>6, <1>9 DEF Shape
  <2>2. ASSUME NEW v \in Users, v # u PROVE Shape(v)'
    <3>1. Shape(v) /\ (ref[v] # None => ref[v] \in DOMAIN heap) /\ ref[v] # a
      BY <1>5, <2>2 DEF Inv, Counted
    <3> QED  BY <1>2, <1>8, <1>9, <2>2, <3>1 DEF Shape
  <2> QED  BY <2>1, <2>2
<1> QED  BY <1>10, <1>12, <1>13, <1>14, <1>15 DEF Inv

LEMMA CopyInv == ASSUME Inv, NEW u \in Users, Copy(u) PROVE Inv'
<1>0. PICK a : a = ref[u]
  OBVIOUS
<1>1. PICK b \in Free, d \in Data(size[u]) :
         /\ heap' = With(heap, b, Fresh(size[u], IF call[u] = "reset" THEN d
                                                  ELSE Copied(a, size[u], d)))
         /\ new' = [new EXCEPT ![u] = b]
  BY <1>0 DEF Copy
<1>2. /\ pc[u] = "copy" /\ ref' = ref /\ call' = call /\ keep' = keep
      /\ pc' = [pc EXCEPT ![u] = "release"] /\ size' = [size EXCEPT ![u] = None]
  BY DEF Copy, Goto
<1>3. /\ a # None /\ new[u] = None /\ size[u] \in Sizes /\ call[u] \in {"edit", "resize", "reset"}
      /\ call[u] = "edit" => size[u] = heap[a].size
  BY <1>0, <1>2 DEF Inv, Shape
<1>4. /\ a \in DOMAIN heap /\ heap[a] \in Buffer /\ heap[a].data \in Data(heap[a].size)
  BY <1>0, <1>3, HasBuffer
<1>5. /\ b # None /\ b \in Blocks /\ b \notin DOMAIN heap /\ Holders(b) = {}
      /\ \A v \in Users : ref[v] # b /\ new[v] # b
  BY FreeIsNobodys
<1>6. PICK e \in Data(size[u]) :
         /\ heap' = With(heap, b, [refs |-> 1, size |-> size[u], data |-> e])
         /\ call[u] # "reset" => e = Copied(a, size[u], d)
  <2>1. Copied(a, size[u], d) \in Data(size[u])
    BY <1>3, <1>4, CopiedType
  <2> QED  BY <1>1, <2>1 DEF Fresh
<1>7. /\ DOMAIN heap' = DOMAIN heap \cup {b}
      /\ heap'[b] = [refs |-> 1, size |-> size[u], data |-> e]
      /\ \A c \in DOMAIN heap : c # b /\ heap'[c] = heap[c]
  BY <1>5, <1>6 DEF With
<1>8. /\ new' \in [Users -> Blocks \cup {None}] /\ new'[u] = b
      /\ \A v \in Users : v # u => new'[v] = new[v]
      /\ pc'[u] = "release" /\ \A v \in Users : v # u => pc'[v] = pc[v]
      /\ \A v \in Users : v # u => size'[v] = size[v]
  BY <1>1, <1>2, <1>5 DEF Inv, TypeOK
<1>9. TypeOK'
  <2>1. heap'[b] \in Buffer /\ heap'[b].data \in Data(heap'[b].size)
    BY <1>3, <1>7 DEF Buffer
  <2> QED  BY <1>2, <1>5, <1>7, <1>8, <2>1 DEF Inv, TypeOK, Places
<1>10. Holders(b)' = {u} /\ \A c \in DOMAIN heap : Holders(c)' = Holders(c)
  <2>1. Holders(b)' = {u}
    BY <1>2, <1>5, <1>8 DEF Holders
  <2>2. ASSUME NEW c \in DOMAIN heap PROVE Holders(c)' = Holders(c)
    <3>1. c # b /\ c # None
      BY <1>7, SharedBufferAssumption DEF Inv, TypeOK
    <3> QED  BY <1>2, <1>3, <1>8, <3>1 DEF Holders
  <2> QED  BY <2>1, <2>2
<1>11. Counted'
  <2>1. \A v \in Users : ({ref[v], new[v]} \ {None} \subseteq DOMAIN heap)'
    <3>1. \A v \in Users : {ref[v], new[v]} \ {None} \subseteq DOMAIN heap
      BY DEF Inv, Counted
    <3> QED  BY <1>2, <1>7, <1>8, <3>1
  <2>2. ASSUME NEW c \in DOMAIN heap'
        PROVE  /\ heap'[c].refs = Cardinality(Holders(c)')
               /\ heap'[c].refs = 0 => \E v \in Users : ref'[v] = c /\ pc'[v] = "kept"
    <3>1. CASE c = b
      <4>1. heap'[c].refs = 1 /\ Holders(c)' = {u}
        BY <1>7, <1>10, <3>1
      <4> QED  BY <4>1, FS_Singleton
    <3>2. CASE c # b
      <4>1. /\ heap[c].refs = Cardinality(Holders(c))
            /\ heap[c].refs = 0 => \E v \in Users : ref[v] = c /\ pc[v] = "kept"
        BY <1>7, <3>2 DEF Inv, Counted
      <4>2. c \in DOMAIN heap /\ heap'[c] = heap[c] /\ Holders(c)' = Holders(c)
        BY <1>7, <1>10, <3>2
      <4>3. \A v \in Users : pc[v] = "kept" => pc'[v] = "kept"
        BY <1>2, <1>8
      <4> QED  BY <1>2, <4>1, <4>2, <4>3
    <3> QED  BY <3>1, <3>2
  <2> QED  BY <2>1, <2>2 DEF Counted
<1>12. Alone' /\ NewAlone'
  BY <1>2, <1>5, <1>8 DEF Inv, Alone, NewAlone
<1>13. CopyTrue'
  <2>1. \A v \in Users : new[v] # None => ref[v] \in DOMAIN heap /\ new[v] \in DOMAIN heap
    BY DEF Inv, Shape, Counted
  <2>2. call[u] = "edit" => heap'[b].size = heap'[a].size
    BY <1>3, <1>4, <1>7
  <2>3. call[u] \in {"edit", "resize"} =>
           \A i \in DOMAIN heap'[b].data \cap DOMAIN heap'[a].data : heap'[b].data[i] = heap'[a].data[i]
    <3>1. heap'[b].data = e /\ heap'[a].data = heap[a].data
      BY <1>4, <1>7
    <3>2. DOMAIN e = 1 .. size[u] /\ DOMAIN heap[a].data = 1 .. heap[a].size
      BY <1>4 DEF Data
    <3>3. call[u] # "reset" => \A i \in 1 .. size[u] : i <= heap[a].size => e[i] = heap[a].data[i]
      BY <1>3, <1>4, <1>6, CopiedType
    <3>4. heap[a].size \in Nat /\ size[u] \in Nat
      BY <1>3, <1>4, SharedBufferAssumption DEF Buffer
    <3> QED  BY <3>1, <3>2, <3>3, <3>4
  <2>4. ASSUME NEW v \in Users, v # u, new[v] # None
        PROVE  /\ call[v] = "edit" => heap'[new[v]].size = heap'[ref[v]].size
               /\ call[v] \in {"edit", "resize"} =>
                     \A i \in DOMAIN heap'[new[v]].data \cap DOMAIN heap'[ref[v]].data :
                        heap'[new[v]].data[i] = heap'[ref[v]].data[i]
    BY <1>7, <2>1, <2>4 DEF Inv, CopyTrue
  <2> QED  BY <1>0, <1>2, <1>8, <2>2, <2>3, <2>4 DEF CopyTrue
<1>14. \A v \in Users : Shape(v)'
  <2>1. Shape(u)'
    BY <1>0, <1>2, <1>3, <1>5, <1>8 DEF Inv, Shape
  <2>2. ASSUME NEW v \in Users, v # u PROVE Shape(v)'
    <3>1. Shape(v) /\ (ref[v] # None => ref[v] \in DOMAIN heap)
      BY DEF Inv, Counted
    <3> QED  BY <1>2, <1>7, <1>8, <2>2, <3>1 DEF Shape
  <2> QED  BY <2>1, <2>2
<1> QED  BY <1>9, <1>11, <1>12, <1>13, <1>14 DEF Inv

LEMMA WriteInv == ASSUME Inv, NEW u \in Users, Write(u) PROVE Inv'
<1>0. PICK a : a = ref[u]
  OBVIOUS
<1>1. PICK d \in Data(heap[a].size) : heap' = [heap EXCEPT ![a].data = d]
  BY <1>0 DEF Write
<1>2. /\ pc[u] = "write" /\ pc' = [pc EXCEPT ![u] = "idle"]
      /\ ref' = ref /\ new' = new /\ call' = call /\ size' = size /\ keep' = keep
  BY DEF Write, Goto
<1>3. a # None /\ a \in DOMAIN heap /\ heap[a] \in Buffer /\ new[u] = None
  BY <1>0, <1>2, HasBuffer DEF Inv, Shape
<1>4. /\ DOMAIN heap' = DOMAIN heap
      /\ heap'[a] = [refs |-> heap[a].refs, size |-> heap[a].size, data |-> d]
      /\ \A c \in DOMAIN heap : heap'[c].refs = heap[c].refs /\ heap'[c].size = heap[c].size
      /\ \A c \in DOMAIN heap : c # a => heap'[c] = heap[c]
  BY <1>1, <1>3 DEF Buffer
<1>5. TypeOK'
  <2>1. heap'[a] \in Buffer /\ heap'[a].data \in Data(heap'[a].size)
    BY <1>3, <1>4 DEF Buffer
  <2> QED  BY <1>2, <1>4, <2>1 DEF Inv, TypeOK, Places
<1>6. \A c : Holders(c)' = Holders(c)
  BY <1>2 DEF Inv, TypeOK, Holders
<1>7. Counted'
  BY <1>2, <1>4, <1>6 DEF Inv, TypeOK, Counted
<1>8. Alone' /\ NewAlone'
  BY <1>2 DEF Inv, TypeOK, Alone, NewAlone
<1>9. CopyTrue'
  <2>1. \A v \in Users : new[v] # None =>
           ref[v] \in DOMAIN heap /\ new[v] \in DOMAIN heap /\ ref[v] # a /\ new[v] # a
    BY <1>0, <1>2, <1>3 DEF Inv, Shape, Counted, Alone, NewAlone
  <2> QED  BY <1>2, <1>4, <2>1 DEF Inv, CopyTrue
<1>10. \A v \in Users : Shape(v)'
  <2>1. Shape(u)'
    BY <1>0, <1>2, <1>3 DEF Inv, TypeOK, Shape
  <2>2. ASSUME NEW v \in Users, v # u PROVE Shape(v)'
    <3>1. Shape(v) /\ (ref[v] # None => ref[v] \in DOMAIN heap) /\ pc'[v] = pc[v]
      BY <1>2, <2>2 DEF Inv, TypeOK, Counted
    <3> QED  BY <1>2, <1>4, <3>1 DEF Shape
  <2> QED  BY <2>1, <2>2
<1> QED  BY <1>5, <1>7, <1>8, <1>9, <1>10 DEF Inv

LEMMA LeaveInv ==
    ASSUME Inv, NEW u \in Users, pc[u] \in {"sole", "shared"}, NEW last \in BOOLEAN,
           last <=> heap[ref[u]].refs = 1, Leave(u, last)
    PROVE  Inv'
<1>0. PICK a : a = ref[u]
  OBVIOUS
<1>1. PICK n : n = new[u]
  OBVIOUS
<1>2. /\ a # None /\ a # n /\ n \in Blocks \cup {None} /\ Shape(u)
      /\ call' = [call EXCEPT ![u] = "none"] /\ size' = [size EXCEPT ![u] = None]
      /\ keep' = [keep EXCEPT ![u] = FALSE]
  BY <1>0, <1>1 DEF Inv, Shape, NewAlone, TypeOK, Leave, Return
<1>3. /\ a \in DOMAIN heap /\ heap[a] \in Buffer /\ heap[a].data \in Data(heap[a].size)
      /\ heap[a].refs = Cardinality(Holders(a)) /\ u \in Holders(a)
  BY <1>0, <1>2, HasBuffer DEF Holders
<1>4. /\ call'[u] = "none" /\ keep'[u] = FALSE
      /\ \A v \in Users : v # u => call'[v] = call[v] /\ keep'[v] = keep[v] /\ size'[v] = size[v]
      /\ call' \in [Users -> Calls] /\ size' \in [Users -> Sizes \cup {None}]
      /\ keep' \in [Users -> BOOLEAN]
  BY <1>2 DEF Inv, TypeOK, Calls
<1>5. \A v \in Users : v # u => /\ new[v] # a
                                /\ n # None => ref[v] # n /\ new[v] # n
                                /\ last => ref[v] # a
  BY <1>0, <1>1, <1>2, SoleOwner DEF Inv, NewAlone
<1>6. CASE last /\ keep[u]
  <2>1. /\ heap' = [heap EXCEPT ![a].refs = 0] /\ pc' = [pc EXCEPT ![u] = "kept"]
        /\ ref' = ref /\ new' = new
    BY <1>0, <1>6 DEF Leave, Return, Goto
  <2>2. n = None
    BY <1>1, <1>2, <1>6 DEF Inv, Shape
  <2>3. /\ DOMAIN heap' = DOMAIN heap
        /\ heap'[a] = [refs |-> 0, size |-> heap[a].size, data |-> heap[a].data]
        /\ \A c \in DOMAIN heap : heap'[c].size = heap[c].size /\ heap'[c].data = heap[c].data
        /\ \A c \in DOMAIN heap : c # a => heap'[c] = heap[c]
    BY <1>3, <2>1 DEF Buffer
  <2>4. pc'[u] = "kept" /\ \A v \in Users : v # u => pc'[v] = pc[v]
    BY <2>1 DEF Inv, TypeOK
  <2>5. TypeOK'
    <3>1. heap'[a] \in Buffer /\ heap'[a].data \in Data(heap'[a].size)
      BY <1>3, <2>3 DEF Buffer
    <3> QED  BY <1>4, <2>1, <2>3, <3>1 DEF Inv, TypeOK, Places
  <2>6. Holders(a)' = {} /\ \A c \in DOMAIN heap : c # a => Holders(c)' = Holders(c)
    <3>1. Holders(a)' = {}
      BY <1>0, <1>1, <1>2, <1>5, <1>6, <2>1, <2>2, <2>4 DEF Holders
    <3> QED  BY <1>0, <2>1, <2>4, <3>1 DEF Holders
  <2>7. Counted'
    <3>1. \A v \in Users : ({ref[v], new[v]} \ {None} \subseteq DOMAIN heap)'
      BY <2>1, <2>3 DEF Inv, Counted
    <3>2. ASSUME NEW c \in DOMAIN heap'
          PROVE  /\ heap'[c].refs = Cardinality(Holders(c)')
                 /\ heap'[c].refs = 0 => \E v \in Users : ref'[v] = c /\ pc'[v] = "kept"
      <4>1. CASE c = a
        <5>1. heap'[c].refs = 0 /\ Holders(c)' = {}
          BY <2>3, <2>6, <4>1
        <5>2. ref'[u] = c /\ pc'[u] = "kept"
          BY <1>0, <2>1, <2>4, <4>1
        <5> QED  BY <5>1, <5>2, FS_EmptySet
      <4>2. CASE c # a
        <5>1. /\ heap[c].refs = Cardinality(Holders(c))
              /\ heap[c].refs = 0 => \E v \in Users : ref[v] = c /\ pc[v] = "kept"
          BY <2>3 DEF Inv, Counted
        <5>2. heap'[c] = heap[c] /\ Holders(c)' = Holders(c)
          BY <2>3, <2>6, <4>2
        <5>3. \A v \in Users : pc[v] = "kept" => pc'[v] = "kept"
          BY <2>4
        <5> QED  BY <2>1, <5>1, <5>2, <5>3
      <4> QED  BY <4>1, <4>2
    <3> QED  BY <3>1, <3>2 DEF Counted
  <2>8. Alone' /\ NewAlone'
    BY <1>0, <1>5, <1>6, <2>1, <2>4 DEF Inv, Alone, NewAlone
  <2>9. CopyTrue'
    <3>1. \A v \in Users : new[v] # None => v # u /\ ref[v] \in DOMAIN heap /\ new[v] \in DOMAIN heap
      BY <1>1, <2>2 DEF Inv, Shape, Counted
    <3> QED  BY <1>4, <2>1, <2>3, <3>1 DEF Inv, CopyTrue
  <2>10. \A v \in Users : Shape(v)'
    <3>1. Shape(u)'
      BY <1>0, <1>1, <1>2, <1>4, <2>1, <2>2, <2>4 DEF Shape
    <3>2. ASSUME NEW v \in Users, v # u PROVE Shape(v)'
      <4>1. Shape(v) /\ (ref[v] # None => ref[v] \in DOMAIN heap)
        BY DEF Inv, Counted
      <4> QED  BY <1>4, <2>1, <2>3, <2>4, <3>2, <4>1 DEF Shape
    <3> QED  BY <3>1, <3>2
  <2> QED  BY <2>5, <2>7, <2>8, <2>9, <2>10 DEF Inv
<1>7. ASSUME ~(last /\ keep[u])
      PROVE  /\ ref' = [ref EXCEPT ![u] = n] /\ new' = [new EXCEPT ![u] = None]
             /\ ref'[u] = n /\ new'[u] = None
             /\ \A v \in Users : v # u => ref'[v] = ref[v] /\ new'[v] = new[v] /\ pc'[v] = pc[v]
             /\ pc'[u] = IF n = None THEN "idle" ELSE "write"
             /\ ref' \in [Users -> Blocks \cup {None}] /\ new' \in [Users -> Blocks \cup {None}]
             /\ pc' \in [Users -> Places]
             /\ \A c \in DOMAIN heap : c # a => Holders(c)' = Holders(c)
             /\ Holders(a)' = Holders(a) \ {u}
             /\ Alone' /\ NewAlone'
  <2>1. /\ ref' = [ref EXCEPT ![u] = n] /\ new' = [new EXCEPT ![u] = None]
        /\ pc' = [pc EXCEPT ![u] = IF n = None THEN "idle" ELSE "write"]
    BY <1>0, <1>1, <1>7 DEF Leave, Return, Goto
  <2>2. /\ ref'[u] = n /\ new'[u] = None /\ pc'[u] = IF n = None THEN "idle" ELSE "write"
        /\ \A v \in Users : v # u => ref'[v] = ref[v] /\ new'[v] = new[v] /\ pc'[v] = pc[v]
        /\ ref' \in [Users -> Blocks \cup {None}] /\ new' \in [Users -> Blocks \cup {None}]
        /\ pc' \in [Users -> Places]
    BY <1>2, <2>1 DEF Inv, TypeOK, Places
  <2>3. Holders(a)' = Holders(a) \ {u}
    BY <1>0, <1>1, <1>2, <2>2 DEF Holders
  <2>4. ASSUME NEW c \in DOMAIN heap, c # a PROVE Holders(c)' = Holders(c)
    <3>1. c # None
      BY SharedBufferAssumption DEF Inv, TypeOK
    <3>2. u \in Holders(c)' <=> u \in Holders(c)
      BY <1>0, <1>1, <2>2, <2>4, <3>1 DEF Holders
    <3> QED  BY <2>2, <3>2 DEF Holders
  <2>5. \A v \in Users : pc[v] # "idle" => ref[v] # None
    BY DEF Inv, Shape
  <2>6. Alone'
    BY <1>0, <1>1, <1>5, <2>2, <2>5 DEF Inv, Alone
  <2>7. NewAlone'
    BY <1>0, <1>1, <1>5, <2>2 DEF Inv, NewAlone
  <2> QED  BY <2>1, <2>2, <2>3, <2>4, <2>6, <2>7
<1>8. ASSUME ~(last /\ keep[u]),
             \A c \in DOMAIN heap : c # a => c \in DOMAIN heap',
             \A c \in DOMAIN heap' : /\ c \in DOMAIN heap
                                     /\ heap'[c].size = heap[c].size /\ heap'[c].data = heap[c].data,
             last \/ a \in DOMAIN heap'
      PROVE  CopyTrue' /\ \A v \in Users : Shape(v)'
  <2>1. \A v \in Users : v # u => /\ new[v] # None => new[v] \in DOMAIN heap'
                                  /\ ref[v] # None => ref[v] \in DOMAIN heap'
    BY <1>5, <1>8 DEF Inv, Counted
  <2>2. \A v \in Users : new[v] # None => ref[v] # None
    BY DEF Inv, Shape
  <2>3. CopyTrue'
    BY <1>4, <1>7, <1>8, <2>1, <2>2 DEF Inv, CopyTrue
  <2>4. Shape(u)'
    BY <1>4, <1>7, <1>8 DEF Shape
  <2>5. ASSUME NEW v \in Users, v # u PROVE Shape(v)'
    <3>1. Shape(v)
      BY DEF Inv
    <3>2. /\ ref'[v] = ref[v] /\ new'[v] = new[v] /\ pc'[v] = pc[v]
          /\ call'[v] = call[v] /\ keep'[v] = keep[v] /\ size'[v] = size[v]
          /\ ref[v] # None => heap'[ref[v]].size = heap[ref[v]].size
      BY <1>4, <1>7, <1>8, <2>1, <2>5
    <3> QED  BY <3>1, <3>2 DEF Shape
  <2> QED  BY <2>3, <2>4, <2>5
<1>9. CASE last /\ ~keep[u]
  <2>1. DOMAIN heap' = DOMAIN heap \ {a} /\ \A c \in DOMAIN heap : c # a => heap'[c] = heap[c]
    BY <1>0, <1>9 DEF Leave, Without
  <2>2. TypeOK'
    BY <1>4, <1>7, <1>9, <2>1 DEF Inv, TypeOK
  <2>3. Counted'
    <3>1. \A v \in Users : ({ref[v], new[v]} \ {None} \subseteq DOMAIN heap)'
      <4>1. \A v \in Users : {ref[v], new[v]} \ {None} \subseteq DOMAIN heap
        BY DEF Inv, Counted
      <4> QED  BY <1>1, <1>2, <1>5, <1>7, <1>9, <2>1, <4>1
    <3>2. ASSUME NEW c \in DOMAIN heap'
          PROVE  /\ heap'[c].refs = Cardinality(Holders(c)')
                 /\ heap'[c].refs = 0 => \E v \in Users : ref'[v] = c /\ pc'[v] = "kept"
      <4>1. c \in DOMAIN heap /\ c # a /\ heap'[c] = heap[c] /\ Holders(c)' = Holders(c)
        BY <1>7, <1>9, <2>1
      <4>2. /\ heap[c].refs = Cardinality(Holders(c))
            /\ heap[c].refs = 0 => \E v \in Users : ref[v] = c /\ pc[v] = "kept"
        BY <4>1 DEF Inv, Counted
      <4>3. \A v \in Users : pc[v] = "kept" => v # u
        OBVIOUS
      <4> QED  BY <1>7, <1>9, <4>1, <4>2, <4>3
    <3> QED  BY <3>1, <3>2 DEF Counted
  <2>4. CopyTrue' /\ \A v \in Users : Shape(v)'
    BY <1>8, <1>9, <2>1
  <2> QED  BY <1>7, <1>9, <2>2, <2>3, <2>4 DEF Inv
<1>10. CASE ~last
  <2>1. heap' = [heap EXCEPT ![a].refs = @ - 1]
    BY <1>0, <1>10 DEF Leave
  <2>2. /\ Cardinality(Holders(a) \ {u}) = heap[a].refs - 1
        /\ heap[a].refs \in Nat /\ heap[a].refs # 0 /\ heap[a].refs # 1
    <3>1. Cardinality(Holders(a) \ {u}) = heap[a].refs - 1
      BY <1>3, HoldersFinite, FS_RemoveElement
    <3>2. heap[a].refs # 0
      BY <1>3, HoldersFinite, FS_EmptySet
    <3> QED  BY <1>0, <1>3, <1>10, <3>1, <3>2 DEF Buffer
  <2>3. /\ DOMAIN heap' = DOMAIN heap
        /\ heap'[a] = [refs |-> heap[a].refs - 1, size |-> heap[a].size, data |-> heap[a].data]
        /\ \A c \in DOMAIN heap : heap'[c].size = heap[c].size /\ heap'[c].data = heap[c].data
        /\ \A c \in DOMAIN heap : c # a => heap'[c] = heap[c]
    BY <1>3, <2>1 DEF Buffer
  <2>4. TypeOK'
    <3>1. heap'[a] \in Buffer /\ heap'[a].data \in Data(heap'[a].size)
      BY <1>3, <2>2, <2>3 DEF Buffer
    <3> QED  BY <1>4, <1>7, <1>10, <2>3, <3>1 DEF Inv, TypeOK
  <2>5. Counted'
    <3>1. \A v \in Users : ({ref[v], new[v]} \ {None} \subseteq DOMAIN heap)'
      <4>1. \A v \in Users : {ref[v], new[v]} \ {None} \subseteq DOMAIN heap
        BY DEF Inv, Counted
      <4> QED  BY <1>1, <1>7, <1>10, <2>3, <4>1
    <3>2. ASSUME NEW c \in DOMAIN heap'
          PROVE  /\ heap'[c].refs = Cardinality(Holders(c)')
                 /\ heap'[c].refs = 0 => \E v \in Users : ref'[v] = c /\ pc'[v] = "kept"
      <4>1. CASE c = a
        <5>1. Holders(c)' = Holders(a) \ {u}
          BY <1>7, <1>10, <4>1
        <5>2. heap'[c].refs = heap[a].refs - 1 /\ heap'[c].refs # 0
          BY <2>2, <2>3, <4>1
        <5> QED  BY <2>2, <5>1, <5>2
      <4>2. CASE c # a
        <5>1. c \in DOMAIN heap /\ heap'[c] = heap[c] /\ Holders(c)' = Holders(c)
          BY <1>7, <1>10, <2>3, <4>2
        <5>2. /\ heap[c].refs = Cardinality(Holders(c))
              /\ heap[c].refs = 0 => \E v \in Users : ref[v] = c /\ pc[v] = "kept"
          BY <5>1 DEF Inv, Counted
        <5>3. \A v \in Users : pc[v] = "kept" => v # u
          OBVIOUS
        <5> QED  BY <1>7, <1>10, <5>1, <5>2, <5>3
      <4> QED  BY <4>1, <4>2
    <3> QED  BY <3>1, <3>2 DEF Counted
  <2>6. CopyTrue' /\ \A v \in Users : Shape(v)'
    BY <1>3, <1>8, <1>10, <2>3
  <2> QED  BY <1>7, <1>10, <2>4, <2>5, <2>6 DEF Inv
<1> QED  BY <1>6, <1>9, <1>10

LEMMA DeallocInv == ASSUME Inv, NEW u \in Users, Dealloc(u) PROVE Inv'
<1>0. PICK a : a = ref[u]
  OBVIOUS
<1>1. /\ pc[u] = "kept" /\ heap' = Without(heap, a) /\ ref' = [ref EXCEPT ![u] = None]
      /\ pc' = [pc EXCEPT ![u] = "idle"]
      /\ new' = new /\ call' = call /\ size' = size /\ keep' = keep
  BY <1>0 DEF Dealloc, Goto
<1>2. Shape(u) /\ a # None /\ new[u] = None
  BY <1>0, <1>1 DEF Inv, Shape
<1>3. \A v \in Users : v # u => ref[v] # a /\ new[v] # a
  BY <1>0, <1>1, <1>2 DEF Inv, Alone, NewAlone
<1>4. DOMAIN heap' = DOMAIN heap \ {a} /\ \A c \in DOMAIN heap : c # a => heap'[c] = heap[c]
  BY <1>1 DEF Without
<1>5. /\ ref'[u] = None /\ pc'[u] = "idle"
      /\ \A v \in Users : v # u => ref'[v] = ref[v] /\ pc'[v] = pc[v]
  BY <1>1 DEF Inv, TypeOK
<1>6. TypeOK'
  BY <1>1, <1>4 DEF Inv, TypeOK, Places
<1>7. \A c \in DOMAIN heap : c # a => Holders(c)' = Holders(c)
  <2>1. \A c \in DOMAIN heap : c # None
    BY SharedBufferAssumption DEF Inv, TypeOK
  <2> QED  BY <1>0, <1>1, <1>2, <1>5, <2>1 DEF Holders
<1>8. Counted'
  <2>1. \A v \in Users : ({ref[v], new[v]} \ {None} \subseteq DOMAIN heap)'
    <3>1. \A v \in Users : {ref[v], new[v]} \ {None} \subseteq DOMAIN heap
      BY DEF Inv, Counted
    <3> QED  BY <1>1, <1>2, <1>3, <1>4, <1>5, <3>1
  <2>2. ASSUME NEW c \in DOMAIN heap'
        PROVE  /\ heap'[c].refs = Cardinality(Holders(c)')
               /\ heap'[c].refs = 0 => \E v \in Users : ref'[v] = c /\ pc'[v] = "kept"
    <3>1. c \in DOMAIN heap /\ c # a /\ heap'[c] = heap[c] /\ Holders(c)' = Holders(c)
      BY <1>4, <1>7
    <3>2. /\ heap[c].refs = Cardinality(Holders(c))
          /\ heap[c].refs = 0 => \E v \in Users : ref[v] = c /\ pc[v] = "kept"
      BY <3>1 DEF Inv, Counted
    <3> QED  BY <1>0, <1>5, <3>1, <3>2
  <2> QED  BY <2>1, <2>2 DEF Counted
<1>9. Alone' /\ NewAlone'
  BY <1>1, <1>2, <1>3, <1>5 DEF Inv, Alone, NewAlone, Shape
<1>10. CopyTrue'
  <2>1. \A v \in Users : new[v] # None =>
           v # u /\ ref[v] \in DOMAIN heap /\ new[v] \in DOMAIN heap /\ ref[v] # a /\ new[v] # a
    BY <1>2, <1>3 DEF Inv, Shape, Counted
  <2> QED  BY <1>1, <1>4, <1>5, <2>1 DEF Inv, CopyTrue
<1>11. \A v \in Users : Shape(v)'
  <2>1. Shape(u)'
    BY <1>1, <1>2, <1>5 DEF Shape
  <2>2. ASSUME NEW v \in Users, v # u PROVE Shape(v)'
    <3>1. Shape(v) /\ (ref[v] # None => ref[v] \in DOMAIN heap) /\ ref[v] # a
      BY <1>3, <2>2 DEF Inv, Counted
    <3> QED  BY <1>1, <1>4, <1>5, <2>2, <3>1 DEF Shape
  <2> QED  BY <2>1, <2>2
<1> QED  BY <1>6, <1>8, <1>9, <1>10, <1>11 DEF Inv

LEMMA NextInv == Inv /\ [Next]_vars => Inv'
<1> SUFFICES ASSUME Inv, [Next]_vars PROVE Inv'
  OBVIOUS
<1>1. ASSUME NEW u \in Users, Step(u) PROVE Inv'
  <2>1. CASE ReleaseSole(u)
    <3>1. pc[u] = "sole" /\ Leave(u, TRUE) /\ heap[ref[u]].refs = 1
      BY <2>1, StillAlone DEF ReleaseSole
    <3> QED  BY <3>1, LeaveInv
  <2>2. CASE ReleaseShared(u)
    <3> DEFINE last == Last(heap[ref[u]].refs)
    <3>1. last \in BOOLEAN /\ (last <=> heap[ref[u]].refs = 1)
      BY DEF Last
    <3>2. pc[u] = "shared" /\ Leave(u, last)
      BY <2>2 DEF ReleaseShared
    <3> HIDE DEF last
    <3> QED  BY <3>1, <3>2, LeaveInv
  <2> QED  BY <1>1, <2>1, <2>2, AllocInv, LocalSteps, ReallocInv, CopyInv, WriteInv,
              DeallocInv DEF Step
<1>2. CASE UNCHANGED vars
  BY <1>2 DEF vars, Inv, TypeOK, Counted, Alone, NewAlone, CopyTrue, Shape, Holders
<1> QED  BY <1>1, <1>2, AcquireInv DEF Next

LEMMA InvHolds == Spec => []Inv
BY InitInv, NextInv, PTL DEF Spec

\* Sizes stay the sizes that were asked for, and what was found is still what is there
\* when it is used.
THEOREM TypeCorrect == Spec => []TypeOK
BY InvHolds, PTL DEF Inv

\* Whatever threads acquire and release, a buffer lives exactly as long as someone has it.
THEOREM CountedHolds == Spec => []Counted
BY InvHolds, PTL DEF Inv

\* A thread that found itself the only owner may go on without atomicity.
THEOREM AloneHolds == Spec => []Alone
BY InvHolds, PTL DEF Inv

----------------------------------------------------------------------------
(* The refinement *)

V(u) == IF ref[u] = None \/ pc[u] = "kept" THEN None ELSE heap[ref[u]].data
C(u) == IF pc[u] = "write" THEN "write" ELSE call[u]

\* The values are values of OwnCopies.
LEMMA ValueType ==
    ASSUME NEW n \in Sizes, NEW d \in Data(n)
    PROVE  d \in Values!Values /\ d # None /\ Len(d) = n /\ DOMAIN d = 1 .. n
<1>1. n \in Nat /\ d \in [1 .. n -> Contents]
  BY SharedBufferAssumption DEF Data
<1>2. d \in Seq(Contents)
  BY <1>1, SeqDef
<1>3. Len(d) = n
  BY <1>1, <1>2, LenProperties
<1> QED  BY <1>1, <1>2, <1>3, SharedBufferAssumption DEF Values!Values

\* Nobody but u sees the step.
Same(u) == \A v \in Users : v # u => V(v)' = V(v) /\ C(v)' = C(v)

\* A step of u is one of OwnCopies if it is one to u.
LEMMA StepOfOne ==
    ASSUME NEW u \in Users, Same(u),
           \/ V(u)' = V(u) /\ C(u)' = C(u)
           \/ V(u) = None /\ V(u)' \in Values!Values /\ C(u) = "none" /\ C(u)' = "none"
           \/ /\ V(u) # None /\ V(u)' = V(u) /\ C(u) = "none"
              /\ C(u)' \in {"edit", "resize", "reset", "release"}
           \/ V(u)' = V(u) /\ C(u) \in {"edit", "resize", "reset"} /\ C(u)' = "none"
           \/ V(u)' = V(u) /\ C(u) = "edit" /\ C(u)' = "write"
           \/ /\ V(u)' \in Values!Values /\ C(u) = "resize" /\ C(u)' = "write"
              /\ \A i \in DOMAIN V(u)' \cap DOMAIN V(u) : V(u)'[i] = V(u)[i]
           \/ V(u)' \in Values!Values /\ C(u) = "reset" /\ C(u)' = "write"
           \/ /\ V(u)' \in Values!Values /\ Len(V(u)') = Len(V(u))
              /\ C(u) = "write" /\ C(u)' = "none"
           \/ V(u)' = None /\ C(u) = "release" /\ C(u)' = "none"
    PROVE  [Values!Next]_(Values!vars)
<1> DEFINE val == [v \in Users |-> V(v)]
           abs == [v \in Users |-> C(v)]
<1>1. /\ val' = [val EXCEPT ![u] = V(u)'] /\ abs' = [abs EXCEPT ![u] = C(u)']
      /\ val[u] = V(u) /\ abs[u] = C(u)
  BY DEF Same
<1>2. /\ V(u)' = V(u) => val' = val
      /\ C(u)' = C(u) => abs' = abs
  BY DEF Same
<1>3. CASE V(u)' = V(u) /\ C(u)' = C(u)
  BY <1>2, <1>3 DEF V, C, Values!vars
<1>4. ASSUME \/ Values!Make(u) \/ Values!Ask(u) \/ Values!Fail(u) \/ Values!Edit(u)
             \/ Values!Resize(u) \/ Values!Reset(u) \/ Values!Write(u) \/ Values!Release(u)
      PROVE  Values!Next
  BY <1>4 DEF Values!Next
<1>5. CASE V(u) = None /\ V(u)' \in Values!Values /\ C(u) = "none" /\ C(u)' = "none"
  <2>1. Values!Make(u)
    BY <1>1, <1>2, <1>5 DEF V, C, Values!Make
  <2> QED  BY <1>4, <2>1
<1>6. CASE /\ V(u) # None /\ V(u)' = V(u) /\ C(u) = "none"
           /\ C(u)' \in {"edit", "resize", "reset", "release"}
  <2>1. Values!Ask(u)
    BY <1>1, <1>2, <1>6 DEF V, C, Values!Ask
  <2> QED  BY <1>4, <2>1
<1>7. CASE V(u)' = V(u) /\ C(u) \in {"edit", "resize", "reset"} /\ C(u)' = "none"
  <2>1. Values!Fail(u)
    BY <1>1, <1>2, <1>7 DEF V, C, Values!Fail
  <2> QED  BY <1>4, <2>1
<1>8. CASE V(u)' = V(u) /\ C(u) = "edit" /\ C(u)' = "write"
  <2>1. Values!Edit(u)
    BY <1>1, <1>2, <1>8 DEF V, C, Values!Edit
  <2> QED  BY <1>4, <2>1
<1>9. CASE /\ V(u)' \in Values!Values /\ C(u) = "resize" /\ C(u)' = "write"
           /\ \A i \in DOMAIN V(u)' \cap DOMAIN V(u) : V(u)'[i] = V(u)[i]
  <2>1. Values!Resize(u)
    BY <1>1, <1>9 DEF V, C, Values!Resize
  <2> QED  BY <1>4, <2>1
<1>10. CASE V(u)' \in Values!Values /\ C(u) = "reset" /\ C(u)' = "write"
  <2>1. Values!Reset(u)
    BY <1>1, <1>10 DEF V, C, Values!Reset
  <2> QED  BY <1>4, <2>1
<1>11. CASE /\ V(u)' \in Values!Values /\ Len(V(u)') = Len(V(u))
            /\ C(u) = "write" /\ C(u)' = "none"
  <2>1. Values!Write(u)
    BY <1>1, <1>11 DEF V, C, Values!Write
  <2> QED  BY <1>4, <2>1
<1>12. CASE V(u)' = None /\ C(u) = "release" /\ C(u)' = "none"
  <2>1. Values!Release(u)
    BY <1>1, <1>12 DEF V, C, Values!Release
  <2> QED  BY <1>4, <2>1
<1> QED  BY <1>3, <1>5, <1>6, <1>7, <1>8, <1>9, <1>10, <1>11, <1>12

\* What keeps a step from being seen by others.
LEMMA Unseen ==
    ASSUME NEW u \in Users,
           \A v \in Users : v # u =>
              /\ ref'[v] = ref[v] /\ pc'[v] = pc[v] /\ call'[v] = call[v]
              /\ ref[v] # None /\ pc[v] # "kept" => heap'[ref[v]].data = heap[ref[v]].data
    PROVE  Same(u)
BY DEF Same, V, C

\* Steps of a call that leave the memory alone.
LEMMA LocalRefines ==
    ASSUME Inv, NEW u \in Users,
           \/ CallEdit(u) \/ CallEditResize(u) \/ CallReset(u) \/ CallRelease(u)
           \/ EditSole(u) \/ EditShared(u) \/ AttemptEditFails(u)
           \/ SameSize(u) \/ OtherSize(u) \/ ReallocFails(u) \/ CopyFails(u) \/ Release(u)
    PROVE  [Values!Next]_(Values!vars)
<1>1. /\ heap' = heap /\ ref' = ref
      /\ \A v \in Users : v # u => pc'[v] = pc[v] /\ call'[v] = call[v]
  BY DEF CallEdit, CallEditResize, CallReset, CallRelease, Call, EditSole, EditShared,
         AttemptEditFails, SameSize, OtherSize, ReallocFails, CopyFails, Release, Return, Goto,
         Inv, TypeOK
<1>2. Same(u)
  BY <1>1, Unseen
<1>3. Shape(u) /\ pc \in [Users -> Places] /\ call \in [Users -> Calls]
  BY DEF Inv, TypeOK
<1>4. ASSUME ref[u] # None, pc[u] # "kept"
      PROVE  V(u) # None /\ V(u) \in Values!Values
  <2>1. heap[ref[u]].size \in Sizes /\ heap[ref[u]].data \in Data(heap[ref[u]].size)
    BY <1>4, HasBuffer DEF Buffer
  <2> QED  BY <1>4, <2>1, ValueType DEF V
<1>5. CASE CallEdit(u) \/ CallEditResize(u) \/ CallReset(u) \/ CallRelease(u)
  <2>1. /\ pc[u] = "idle" /\ ref[u] # None /\ call[u] = "none" /\ pc'[u] \in {"load", "copy", "release"}
        /\ call'[u] \in {"edit", "resize", "reset", "release"}
    BY <1>3, <1>5 DEF CallEdit, CallEditResize, CallReset, CallRelease, Call, Goto, Shape
  <2>2. /\ V(u)' = V(u) /\ V(u) # None
        /\ C(u) = "none" /\ C(u)' \in {"edit", "resize", "reset", "release"}
    BY <1>1, <1>4, <2>1 DEF V, C
  <2> QED  BY <1>2, <2>2, StepOfOne
<1>6. CASE EditSole(u)
  <2>1. pc[u] = "load" /\ call[u] = "edit" /\ pc'[u] = "write"
    BY <1>3, <1>6 DEF EditSole, Return, Goto
  <2>2. V(u)' = V(u) /\ C(u) = "edit" /\ C(u)' = "write"
    BY <1>1, <2>1 DEF V, C
  <2> QED  BY <1>2, <2>2, StepOfOne
<1>7. CASE AttemptEditFails(u) \/ CopyFails(u)
  <2>1. /\ pc[u] \in {"load", "copy"} /\ call[u] \in {"edit", "resize", "reset"}
        /\ pc'[u] = "idle" /\ call'[u] = "none"
    BY <1>3, <1>7 DEF AttemptEditFails, CopyFails, Return, Goto, Shape
  <2>2. V(u)' = V(u) /\ C(u) \in {"edit", "resize", "reset"} /\ C(u)' = "none"
    BY <1>1, <2>1 DEF V, C
  <2> QED  BY <1>2, <2>2, StepOfOne
<1>8. CASE SameSize(u)
  <2>1. pc[u] = "load" /\ call[u] = "resize" /\ pc'[u] = "write" /\ ref[u] # None
    BY <1>3, <1>8 DEF SameSize, Return, Goto, Shape
  <2>2. /\ V(u)' = V(u) /\ V(u)' \in Values!Values /\ C(u) = "resize" /\ C(u)' = "write"
    BY <1>1, <1>4, <2>1 DEF V, C
  <2>3. \A i \in DOMAIN V(u)' \cap DOMAIN V(u) : V(u)'[i] = V(u)[i]
    BY <2>2
  <2> QED  BY <1>2, <2>2, <2>3, StepOfOne
<1>9. CASE EditShared(u) \/ OtherSize(u) \/ ReallocFails(u) \/ Release(u)
  <2>1. /\ pc[u] \in {"load", "realloc", "release"} /\ call' = call
        /\ pc'[u] \in {"realloc", "copy", "sole", "shared"}
    BY <1>3, <1>9 DEF EditShared, OtherSize, ReallocFails, Release, Goto
  <2>2. V(u)' = V(u) /\ C(u)' = C(u)
    BY <1>1, <2>1 DEF V, C
  <2> QED  BY <1>2, <2>2, StepOfOne
<1> QED  BY <1>5, <1>6, <1>7, <1>8, <1>9

LEMMA AllocRefines == ASSUME Inv, NEW u \in Users, Alloc(u) PROVE [Values!Next]_(Values!vars)
<1>1. PICK n \in Sizes, b \in Free : \E d \in Data(n) :
         heap' = With(heap, b, Fresh(n, d)) /\ ref' = [ref EXCEPT ![u] = b]
  BY DEF Alloc
<1>2. PICK d \in Data(n) : heap' = With(heap, b, Fresh(n, d)) /\ ref' = [ref EXCEPT ![u] = b]
  BY <1>1
<1>3. pc[u] = "idle" /\ ref[u] = None /\ call' = call /\ pc' = pc /\ call[u] = "none"
  BY DEF Alloc, Inv, Shape
<1>4. b # None /\ b \notin DOMAIN heap
  BY FreeIsNobodys
<1>5. /\ heap'[b] = [refs |-> 1, size |-> n, data |-> d]
      /\ \A c \in DOMAIN heap : heap'[c] = heap[c]
  BY <1>2, <1>4 DEF With, Fresh
<1>6. ref'[u] = b /\ \A v \in Users : v # u => ref'[v] = ref[v]
  BY <1>2 DEF Inv, TypeOK
<1>7. Same(u)
  BY <1>3, <1>5, <1>6, HasBuffer, Unseen
<1>8. V(u) = None /\ V(u)' = d /\ C(u) = "none" /\ C(u)' = "none"
  BY <1>3, <1>4, <1>5, <1>6 DEF V, C
<1> QED  BY <1>7, <1>8, ValueType, StepOfOne

LEMMA AcquireRefines ==
    ASSUME Inv, NEW u \in Users, NEW w \in Users, Acquire(u, w)
    PROVE  [Values!Next]_(Values!vars)
<1>0. PICK b : b = ref[u]
  OBVIOUS
<1>1. /\ pc[u] = "idle" /\ b # None /\ pc[w] = "idle" /\ ref[w] = None /\ w # u
      /\ heap' = [heap EXCEPT ![b].refs = @ + 1] /\ ref' = [ref EXCEPT ![w] = b]
      /\ call' = call /\ pc' = pc /\ call[u] = "none" /\ call[w] = "none"
  BY <1>0 DEF Acquire, Inv, Shape
<1>2. heap[b].size \in Sizes /\ heap[b].data \in Data(heap[b].size) /\ b \in DOMAIN heap
  BY <1>0, <1>1, HasBuffer DEF Buffer
<1>3. \A c \in DOMAIN heap : heap'[c].data = heap[c].data
  BY <1>1, <1>2, <1>0, HasBuffer DEF Buffer
<1>4. ref'[w] = b /\ \A v \in Users : v # w => ref'[v] = ref[v]
  BY <1>1 DEF Inv, TypeOK
<1>5. Same(w)
  BY <1>1, <1>3, <1>4, HasBuffer, Unseen
<1>6. /\ V(u) # None /\ V(w) = None /\ V(w)' = V(u)
      /\ C(u) = "none" /\ C(w) = "none" /\ C(w)' = "none"
  BY <1>0, <1>1, <1>2, <1>3, <1>4, ValueType DEF V, C
<1> DEFINE val == [v \in Users |-> V(v)]
           abs == [v \in Users |-> C(v)]
<1>7. val' = [val EXCEPT ![w] = V(u)] /\ abs' = abs /\ val[u] = V(u) /\ val[w] = None
      /\ abs[u] = "none" /\ abs[w] = "none"
  BY <1>5, <1>6 DEF Same
<1>8. Values!Give(u, w)
  BY <1>6, <1>7 DEF V, C, Values!Give
<1> QED  BY <1>8 DEF Values!Next

LEMMA ReallocRefines == ASSUME Inv, NEW u \in Users, Realloc(u) PROVE [Values!Next]_(Values!vars)
<1>0. PICK a : a = ref[u]
  OBVIOUS
<1>1. PICK b \in Free \cup {a}, d \in Data(size[u]) :
         /\ heap' = With(Without(heap, a), b, Resized(a, size[u], d))
         /\ ref' = [ref EXCEPT ![u] = b]
  BY <1>0 DEF Realloc
<1>2. PICK e : e = Copied(a, size[u], d)
  OBVIOUS
<1>3. /\ pc[u] = "realloc" /\ call[u] = "resize" /\ size[u] \in Sizes /\ a # None
      /\ pc' = [pc EXCEPT ![u] = "write"] /\ call' = [call EXCEPT ![u] = "none"]
  BY <1>0 DEF Realloc, Return, Goto, Inv, Shape
<1>4. a \in DOMAIN heap /\ heap[a] \in Buffer /\ heap[a].data \in Data(heap[a].size)
  BY <1>0, <1>3, HasBuffer
<1>5. \A v \in Users : v # u => ref[v] # a /\ ref[v] # b
  BY <1>0, <1>3, FreeIsNobodys DEF Inv, Alone
<1>6. b # None
  BY <1>3, FreeIsNobodys
<1>7. heap'[b].data = e /\ \A c \in DOMAIN heap : c # a /\ c # b => heap'[c] = heap[c]
  BY <1>1, <1>2 DEF With, Without, Resized
<1>8. /\ ref'[u] = b /\ pc'[u] = "write" /\ call'[u] = "none"
      /\ \A v \in Users : v # u => ref'[v] = ref[v] /\ pc'[v] = pc[v] /\ call'[v] = call[v]
  BY <1>1, <1>3 DEF Inv, TypeOK
<1>9. Same(u)
  BY <1>5, <1>7, <1>8, HasBuffer, Unseen
<1>10. V(u) = heap[a].data /\ V(u)' = e /\ C(u) = "resize" /\ C(u)' = "write"
  BY <1>0, <1>3, <1>6, <1>7, <1>8 DEF V, C
<1>11. /\ e \in Data(size[u]) /\ e \in Values!Values
       /\ \A i \in DOMAIN e \cap DOMAIN heap[a].data : e[i] = heap[a].data[i]
  <2>1. heap[a].size \in Sizes /\ DOMAIN heap[a].data = 1 .. heap[a].size
    BY <1>4, ValueType DEF Buffer
  <2>2. /\ e \in Data(size[u])
        /\ \A i \in 1 .. size[u] : i <= heap[a].size => e[i] = heap[a].data[i]
    BY <1>2, <1>3, <1>4, CopiedType
  <2>3. e \in Values!Values /\ DOMAIN e = 1 .. size[u]
    BY <1>3, <2>2, ValueType
  <2> QED  BY <2>1, <2>2, <2>3, SharedBufferAssumption
<1>12. V(u)' \in Values!Values /\ \A i \in DOMAIN V(u)' \cap DOMAIN V(u) : V(u)'[i] = V(u)[i]
  BY <1>10, <1>11
<1> QED  BY <1>9, <1>10, <1>12, StepOfOne

LEMMA CopyRefines == ASSUME Inv, NEW u \in Users, Copy(u) PROVE [Values!Next]_(Values!vars)
<1>1. PICK b \in Free : \E r : heap' = With(heap, b, r)
  BY DEF Copy
<1>2. b \notin DOMAIN heap /\ \A c \in DOMAIN heap : heap'[c] = heap[c]
  BY <1>1, FreeIsNobodys DEF With
<1>3. /\ pc[u] = "copy" /\ pc'[u] = "release" /\ ref' = ref /\ call' = call
      /\ \A v \in Users : v # u => pc'[v] = pc[v]
  BY DEF Copy, Goto, Inv, TypeOK
<1>4. Same(u)
  BY <1>2, <1>3, HasBuffer, Unseen
<1>5. V(u)' = V(u) /\ C(u)' = C(u)
  BY <1>2, <1>3, HasBuffer DEF V, C
<1> QED  BY <1>4, <1>5, StepOfOne

LEMMA WriteRefines == ASSUME Inv, NEW u \in Users, Write(u) PROVE [Values!Next]_(Values!vars)
<1>0. PICK a : a = ref[u]
  OBVIOUS
<1>1. PICK d \in Data(heap[a].size) : heap' = [heap EXCEPT ![a].data = d]
  BY <1>0 DEF Write
<1>2. /\ pc[u] = "write" /\ pc'[u] = "idle" /\ ref' = ref /\ call' = call /\ call[u] = "none"
      /\ \A v \in Users : v # u => pc'[v] = pc[v]
  BY DEF Write, Goto, Inv, TypeOK, Shape
<1>3. /\ a # None /\ a \in DOMAIN heap /\ heap[a] \in Buffer /\ heap[a].size \in Sizes
      /\ heap[a].data \in Data(heap[a].size)
  BY <1>0, <1>2, HasBuffer DEF Inv, Shape, Buffer
<1>4. heap'[a].data = d /\ \A c \in DOMAIN heap : c # a => heap'[c] = heap[c]
  BY <1>1, <1>3 DEF Buffer
<1>5. \A v \in Users : v # u => ref[v] # a
  BY <1>0, <1>2 DEF Inv, Alone
<1>6. Same(u)
  BY <1>2, <1>4, <1>5, HasBuffer, Unseen
<1>7. V(u) = heap[a].data /\ V(u)' = d /\ C(u) = "write" /\ C(u)' = "none"
  BY <1>0, <1>2, <1>3, <1>4 DEF V, C
<1>8. V(u)' \in Values!Values /\ Len(V(u)') = Len(V(u))
  BY <1>3, <1>7, ValueType
<1> QED  BY <1>6, <1>7, <1>8, StepOfOne

\* The end of a release, of the old buffer of an edit too.
LEMMA LeaveRefines ==
    ASSUME Inv, NEW u \in Users, pc[u] \in {"sole", "shared"}, NEW last \in BOOLEAN,
           last <=> heap[ref[u]].refs = 1, Leave(u, last)
    PROVE  [Values!Next]_(Values!vars)
<1>0. PICK a, n : a = ref[u] /\ n = new[u]
  OBVIOUS
<1>1. /\ a # None /\ a \in DOMAIN heap /\ heap[a] \in Buffer /\ heap[a].size \in Sizes
      /\ heap[a].data \in Data(heap[a].size)
      /\ Shape(u) /\ call[u] # "none" /\ a # n
  BY <1>0, HasBuffer DEF Inv, Shape, Buffer, NewAlone
<1>2. \A v \in Users : v # u => (last => ref[v] # a) /\ (n # None => ref[v] # n)
  BY <1>0, <1>1, SoleOwner DEF Inv, NewAlone
<1>3. CASE last /\ keep[u]
  <2>1. /\ heap' = [heap EXCEPT ![a].refs = 0] /\ ref' = ref
        /\ pc' = [pc EXCEPT ![u] = "kept"] /\ call' = [call EXCEPT ![u] = "none"]
    BY <1>0, <1>3 DEF Leave, Return, Goto
  <2>2. /\ pc'[u] = "kept" /\ call'[u] = "none"
        /\ \A v \in Users : v # u => pc'[v] = pc[v] /\ call'[v] = call[v]
    BY <2>1 DEF Inv, TypeOK
  <2>3. \A c \in DOMAIN heap : heap'[c].data = heap[c].data
    BY <1>1, <2>1 DEF Buffer
  <2>4. Same(u)
    BY <2>1, <2>2, <2>3, HasBuffer, Unseen
  <2>5. V(u)' = None /\ C(u) = "release" /\ C(u)' = "none"
    BY <1>1, <1>3, <2>2 DEF V, C, Shape
  <2> QED  BY <2>4, <2>5, StepOfOne
<1>4. CASE ~(last /\ keep[u])
  <2>1. /\ heap' = IF last THEN Without(heap, a) ELSE [heap EXCEPT ![a].refs = @ - 1]
        /\ ref' = [ref EXCEPT ![u] = n] /\ call' = [call EXCEPT ![u] = "none"]
        /\ pc' = [pc EXCEPT ![u] = IF n = None THEN "idle" ELSE "write"]
    BY <1>0, <1>4 DEF Leave, Return, Goto
  <2>2. /\ ref'[u] = n /\ call'[u] = "none" /\ pc'[u] = IF n = None THEN "idle" ELSE "write"
        /\ \A v \in Users : v # u => ref'[v] = ref[v] /\ pc'[v] = pc[v] /\ call'[v] = call[v]
    BY <2>1 DEF Inv, TypeOK
  <2>3. \A c \in DOMAIN heap : ~last \/ c # a => heap'[c].data = heap[c].data
    BY <1>1, <2>1 DEF Buffer, Without
  <2>4. Same(u)
    <3>1. \A v \in Users : v # u /\ ref[v] # None => heap'[ref[v]].data = heap[ref[v]].data
      BY <1>2, <2>3, HasBuffer
    <3> QED  BY <2>2, <3>1, Unseen
  <2>5. CASE n = None
    <3>1. V(u)' = None /\ C(u) = "release" /\ C(u)' = "none"
      BY <1>0, <1>1, <2>2, <2>5 DEF V, C, Shape
    <3> QED  BY <2>4, <3>1, StepOfOne
  <2>6. CASE n # None
    <3>1. n \in DOMAIN heap /\ heap'[n].data = heap[n].data
      BY <1>0, <1>1, <2>3, <2>6 DEF Inv, Counted
    <3>2. V(u) = heap[a].data /\ V(u)' = heap[n].data
      BY <1>0, <1>1, <2>2, <2>6, <3>1 DEF V
    <3>3. call[u] \in {"edit", "resize", "reset"} /\ C(u) = call[u] /\ C(u)' = "write"
      BY <1>0, <1>1, <2>2, <2>6 DEF C, Shape, Inv, TypeOK, Calls
    <3>4. heap[n].size \in Sizes /\ heap[n].data \in Data(heap[n].size)
      BY <3>1 DEF Inv, TypeOK, Buffer
    <3>5. V(u)' \in Values!Values
      BY <3>2, <3>4, ValueType
    <3>6. /\ call[u] = "edit" => heap[n].size = heap[a].size
          /\ call[u] \in {"edit", "resize"} =>
                \A i \in DOMAIN heap[n].data \cap DOMAIN heap[a].data :
                   heap[n].data[i] = heap[a].data[i]
      BY <1>0, <2>6 DEF Inv, CopyTrue
    <3>7. CASE call[u] = "edit"
      <4>1. DOMAIN heap[n].data = DOMAIN heap[a].data /\ heap[n].size = heap[a].size
        BY <1>1, <3>4, <3>6, <3>7, ValueType
      <4>2. heap[n].data = heap[a].data
        BY <1>1, <3>4, <3>6, <3>7, <4>1 DEF Data
      <4> QED  BY <2>4, <3>2, <3>3, <3>7, <4>2, StepOfOne
    <3>8. CASE call[u] = "resize"
      <4>1. \A i \in DOMAIN V(u)' \cap DOMAIN V(u) : V(u)'[i] = V(u)[i]
        BY <3>2, <3>6, <3>8
      <4> QED  BY <2>4, <3>3, <3>5, <3>8, <4>1, StepOfOne
    <3>9. CASE call[u] = "reset"
      BY <2>4, <3>3, <3>5, <3>9, StepOfOne
    <3> QED  BY <3>3, <3>7, <3>8, <3>9
  <2> QED  BY <2>5, <2>6
<1> QED  BY <1>3, <1>4

LEMMA DeallocRefines == ASSUME Inv, NEW u \in Users, Dealloc(u) PROVE [Values!Next]_(Values!vars)
<1>1. /\ pc[u] = "kept" /\ pc'[u] = "idle" /\ ref'[u] = None /\ call' = call /\ call[u] = "none"
      /\ \A v \in Users : v # u => ref'[v] = ref[v] /\ pc'[v] = pc[v]
  BY DEF Dealloc, Goto, Inv, TypeOK, Shape
<1>2. \A c \in DOMAIN heap : c # ref[u] => heap'[c] = heap[c]
  BY DEF Dealloc, Without
<1>3. \A v \in Users : v # u => ref[v] # ref[u]
  BY <1>1 DEF Inv, Alone
<1>4. Same(u)
  BY <1>1, <1>2, <1>3, HasBuffer, Unseen
<1>5. V(u)' = V(u) /\ C(u)' = C(u)
  BY <1>1 DEF V, C
<1> QED  BY <1>4, <1>5, StepOfOne

LEMMA StepRefines == Inv /\ [Next]_vars => [Values!Next]_(Values!vars)
<1> SUFFICES ASSUME Inv, [Next]_vars PROVE [Values!Next]_(Values!vars)
  OBVIOUS
<1>1. ASSUME NEW u \in Users, Step(u) PROVE [Values!Next]_(Values!vars)
  <2>1. CASE ReleaseSole(u)
    <3>1. pc[u] = "sole" /\ Leave(u, TRUE) /\ heap[ref[u]].refs = 1
      BY <2>1, StillAlone DEF ReleaseSole
    <3> QED  BY <3>1, LeaveRefines
  <2>2. CASE ReleaseShared(u)
    <3> DEFINE last == Last(heap[ref[u]].refs)
    <3>1. last \in BOOLEAN /\ (last <=> heap[ref[u]].refs = 1)
      BY DEF Last
    <3>2. pc[u] = "shared" /\ Leave(u, last)
      BY <2>2 DEF ReleaseShared
    <3> HIDE DEF last
    <3> QED  BY <3>1, <3>2, LeaveRefines
  <2> QED  BY <1>1, <2>1, <2>2, AllocRefines, LocalRefines, ReallocRefines, CopyRefines,
              WriteRefines, DeallocRefines DEF Step
<1>2. CASE UNCHANGED vars
  BY <1>2 DEF vars, Values!vars
<1> QED  BY <1>1, <1>2, AcquireRefines DEF Next

LEMMA InitRefines == Init => Values!Init
BY DEF Init, Values!Init

\* However buffers are shared and copied on write, every user has a value of its own.
THEOREM Refinement == Spec => ImplementsOwnCopies
BY InvHolds, InitRefines, StepRefines, PTL DEF Spec, ImplementsOwnCopies, Values!Spec
=============================================================================
