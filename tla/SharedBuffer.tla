----------------------------- MODULE SharedBuffer -----------------------------
(***************************************************************************)
(* SharedBuffer: memory with a count of references, shared by threads that *)
(* hold one reference each.  The count is loaded, added to and subtracted  *)
(* from atomically, and every such access is an action of its own; a       *)
(* thread that finds itself the only owner goes on without atomicity.      *)
(***************************************************************************)
EXTENDS Integers, Sequences, FiniteSets

CONSTANTS Users,        \* threads, each with at most one reference
          Blocks,       \* places malloc can hand out
          Contents,     \* what a unit of memory can hold
          Sizes,        \* sizes asked for
          None

ASSUME SharedBufferAssumption ==
    /\ IsFiniteSet(Users)
    /\ Sizes \subseteq Nat
    /\ None \notin Blocks /\ None \notin Sizes /\ None \notin Seq(Contents)

VARIABLES heap,     \* the blocks in use: mRefs, mSize and the data
          ref,      \* the buffer a user has a reference to
          new,      \* sb of edit, editResize and reset, until they return it
          call,     \* the call a user is in, "none" for none
          pc,       \* and where it is in it
          size,     \* the size that is asked for, None when none is
          keep      \* release was asked to keep the storage

vars == <<heap, ref, new, call, pc, size, keep>>

Data(n) == [1 .. n -> Contents]
Buffer  == [refs : Nat, size : Sizes, data : UNION {Data(n) : n \in Sizes}]
Calls   == {"none", "edit", "resize", "reset", "release"}
Places  == {"idle", "load", "realloc", "copy", "release", "sole", "shared", "write", "kept"}

TypeOK == /\ DOMAIN heap \subseteq Blocks
          /\ \A b \in DOMAIN heap : heap[b] \in Buffer /\ heap[b].data \in Data(heap[b].size)
          /\ ref \in [Users -> Blocks \cup {None}]
          /\ new \in [Users -> Blocks \cup {None}]
          /\ call \in [Users -> Calls] /\ pc \in [Users -> Places]
          /\ size \in [Users -> Sizes \cup {None}]
          /\ keep \in [Users -> BOOLEAN]

Init == /\ heap = [b \in {} |-> None]
        /\ ref = [u \in Users |-> None] /\ new = [u \in Users |-> None]
        /\ call = [u \in Users |-> "none"] /\ pc = [u \in Users |-> "idle"]
        /\ size = [u \in Users |-> None]
        /\ keep = [u \in Users |-> FALSE]

----------------------------------------------------------------------------
(* The memory *)

Free == Blocks \ DOMAIN heap
With(h, b, r)   == [c \in DOMAIN h \cup {b} |-> IF c = b THEN r ELSE h[c]]
Without(h, b)   == [c \in DOMAIN h \ {b} |-> h[c]]
Goto(u, place)  == pc' = [pc EXCEPT ![u] = place]
Return(u, place) == /\ Goto(u, place)
                    /\ call' = [call EXCEPT ![u] = "none"]
                    /\ size' = [size EXCEPT ![u] = None]
                    /\ keep' = [keep EXCEPT ![u] = FALSE]

\* onlyOwner.  (A plausible bug: a count of two, one's own and another's.)
OnlyOwnerOrTwo(b) == heap[b].refs <= 2
OnlyOwner(b) == heap[b].refs = 1

\* SharedBuffer::alloc; what is in the data is what the memory held.
Fresh(n, d) == [refs |-> 1, size |-> n, data |-> d]

\* memcpy of the data that both have room for; d is what the rest held.  (A plausible
\* bug: nothing is copied.)
CopiedNothing(b, n, d) == d
Copied(b, n, d) ==
    [i \in 1 .. n |-> IF i <= heap[b].size THEN heap[b].data[i] ELSE d[i]]

\* realloc, then mSize.  (A plausible bug: mSize stays.)
ResizedOnly(b, n, d) == [heap[b] EXCEPT !.data = Copied(b, n, d)]
Resized(b, n, d) == [refs |-> heap[b].refs, size |-> n, data |-> Copied(b, n, d)]

----------------------------------------------------------------------------
(* Calls of a user that holds a reference, or none *)

Alloc(u) ==
    /\ pc[u] = "idle" /\ ref[u] = None
    /\ \E n \in Sizes, b \in Free : \E d \in Data(n) :
          /\ heap' = With(heap, b, Fresh(n, d))
          /\ ref' = [ref EXCEPT ![u] = b]
    /\ UNCHANGED <<new, call, pc, size, keep>>

\* acquire, for a reference that is then given to another user.
Acquire(u, v) ==
    /\ pc[u] = "idle" /\ ref[u] # None
    /\ pc[v] = "idle" /\ ref[v] = None
    /\ heap' = [heap EXCEPT ![ref[u]].refs = @ + 1]
    /\ ref' = [ref EXCEPT ![v] = ref[u]]
    /\ UNCHANGED <<new, call, pc, size, keep>>

Call(u, c, place) ==
    /\ pc[u] = "idle" /\ ref[u] # None
    /\ call' = [call EXCEPT ![u] = c]
    /\ Goto(u, place)
    /\ UNCHANGED <<heap, ref, new>>
CallEdit(u)       == Call(u, "edit", "load") /\ UNCHANGED <<size, keep>>
CallEditResize(u) == /\ Call(u, "resize", "load") /\ UNCHANGED keep
                     /\ \E n \in Sizes : size' = [size EXCEPT ![u] = n]
CallReset(u)      == /\ Call(u, "reset", "copy") /\ UNCHANGED keep
                     /\ \E n \in Sizes : size' = [size EXCEPT ![u] = n]
CallRelease(u)    == /\ Call(u, "release", "release") /\ UNCHANGED size
                     /\ \E k \in BOOLEAN : keep' = [keep EXCEPT ![u] = k]

\* edit: the load.  attemptEdit is the same load, and fails where edit copies.
EditSole(u) ==
    /\ call[u] = "edit" /\ pc[u] = "load" /\ OnlyOwner(ref[u])
    /\ Return(u, "write")
    /\ UNCHANGED <<heap, ref, new>>
EditShared(u) ==
    /\ call[u] = "edit" /\ pc[u] = "load" /\ ~OnlyOwner(ref[u])
    /\ Goto(u, "copy") /\ size' = [size EXCEPT ![u] = heap[ref[u]].size]
    /\ UNCHANGED <<heap, ref, new, call, keep>>
AttemptEditFails(u) ==
    /\ call[u] = "edit" /\ pc[u] = "load" /\ ~OnlyOwner(ref[u])
    /\ Return(u, "idle")
    /\ UNCHANGED <<heap, ref, new>>

\* editResize: the load, and realloc, which may move the buffer and may fail.
SameSize(u) ==
    /\ call[u] = "resize" /\ pc[u] = "load"
    /\ OnlyOwner(ref[u]) /\ heap[ref[u]].size = size[u]
    /\ Return(u, "write")
    /\ UNCHANGED <<heap, ref, new>>
OtherSize(u) ==
    /\ call[u] = "resize" /\ pc[u] = "load"
    /\ OnlyOwner(ref[u]) => heap[ref[u]].size # size[u]
    /\ Goto(u, IF OnlyOwner(ref[u]) THEN "realloc" ELSE "copy")
    /\ UNCHANGED <<heap, ref, new, call, size, keep>>
Realloc(u) ==
    /\ pc[u] = "realloc"
    /\ \E b \in Free \cup {ref[u]}, d \in Data(size[u]) :
          /\ heap' = With(Without(heap, ref[u]), b, Resized(ref[u], size[u], d))
          /\ ref' = [ref EXCEPT ![u] = b]
    /\ Return(u, "write")
    /\ UNCHANGED new
ReallocFails(u) ==
    /\ pc[u] = "realloc"
    /\ Goto(u, "copy")
    /\ UNCHANGED <<heap, ref, new, call, size, keep>>

\* The new buffer of edit and editResize, or of reset, before the old is released;
\* without it the call returns NULL and the reference stays.
Copy(u) ==
    /\ pc[u] = "copy"
    /\ \E b \in Free, d \in Data(size[u]) :
          /\ heap' = With(heap, b, Fresh(size[u], IF call[u] = "reset" THEN d
                                                   ELSE Copied(ref[u], size[u], d)))
          /\ new' = [new EXCEPT ![u] = b]
    /\ Goto(u, "release") /\ size' = [size EXCEPT ![u] = None]
    /\ UNCHANGED <<ref, call, keep>>
CopyFails(u) ==
    /\ pc[u] = "copy"
    /\ Return(u, "idle")
    /\ UNCHANGED <<heap, ref, new>>

\* What an edit was for.
Write(u) ==
    /\ pc[u] = "write"
    /\ \E d \in Data(heap[ref[u]].size) : heap' = [heap EXCEPT ![ref[u]].data = d]
    /\ Goto(u, "idle")
    /\ UNCHANGED <<ref, new, call, size, keep>>

----------------------------------------------------------------------------
(* release *)

\* The load.
Release(u) ==
    /\ pc[u] = "release"
    /\ Goto(u, IF OnlyOwner(ref[u]) THEN "sole" ELSE "shared")
    /\ UNCHANGED <<heap, ref, new, call, size, keep>>

\* What the caller of release has afterwards: the new buffer if there is one, which it
\* may write; the storage, if it is to be kept and none else has it; or nothing.
Leave(u, last) ==
    IF last /\ keep[u]
      THEN /\ heap' = [heap EXCEPT ![ref[u]].refs = 0]
           /\ Return(u, "kept")
           /\ UNCHANGED <<ref, new>>
      ELSE /\ heap' = IF last THEN Without(heap, ref[u])
                              ELSE [heap EXCEPT ![ref[u]].refs = @ - 1]
           /\ ref' = [ref EXCEPT ![u] = new[u]]
           /\ new' = [new EXCEPT ![u] = None]
           /\ Return(u, IF new[u] = None THEN "idle" ELSE "write")

\* The only owner stores 0; others subtract, and who finds that it had the last
\* reference after all frees the buffer.  (A plausible bug: none does.)
LastNever(prev) == prev = 0
Last(prev) == prev = 1
ReleaseSole(u)   == pc[u] = "sole" /\ Leave(u, TRUE)
ReleaseShared(u) == pc[u] = "shared" /\ Leave(u, Last(heap[ref[u]].refs))

\* dealloc of storage that was kept.
Dealloc(u) ==
    /\ pc[u] = "kept"
    /\ heap' = Without(heap, ref[u])
    /\ ref' = [ref EXCEPT ![u] = None]
    /\ Goto(u, "idle")
    /\ UNCHANGED <<new, call, size, keep>>

----------------------------------------------------------------------------
Step(u) == \/ Alloc(u) \/ CallEdit(u) \/ CallEditResize(u) \/ CallReset(u) \/ CallRelease(u)
           \/ EditSole(u) \/ EditShared(u) \/ AttemptEditFails(u)
           \/ SameSize(u) \/ OtherSize(u) \/ Realloc(u) \/ ReallocFails(u)
           \/ Copy(u) \/ CopyFails(u) \/ Write(u)
           \/ Release(u) \/ ReleaseSole(u) \/ ReleaseShared(u) \/ Dealloc(u)

Next == \E u \in Users : Step(u) \/ \E v \in Users : Acquire(u, v)

Spec == Init /\ [][Next]_vars

----------------------------------------------------------------------------
(* Properties *)

Holders(b) == {u \in Users : (ref[u] = b /\ pc[u] # "kept") \/ new[u] = b}

\* COUNTED.  A buffer counts the users that have a reference to it, whatever
\* interleaving of acquires and releases, and is freed when, and only when, nobody
\* has it: no user has a freed one, and none is lost (SharedBuffer.cpp:102-127).
Counted ==
    /\ \A u \in Users : {ref[u], new[u]} \ {None} \subseteq DOMAIN heap
    /\ \A b \in DOMAIN heap : /\ heap[b].refs = Cardinality(Holders(b))
                              /\ heap[b].refs = 0 => \E u \in Users : ref[u] = b /\ pc[u] = "kept"

\* ALONE.  Who found itself the only owner is it until it has written, moved or freed
\* the buffer, although the load that said so is long past (SharedBuffer.cpp:50-127).
Alone ==
    \A u, v \in Users : u # v /\ pc[u] \in {"write", "realloc", "sole", "kept"} => ref[v] # ref[u]

\* OWN COPIES.  Each user's value is its own: sharing and copy on write are not to be
\* seen (SharedBuffer.h:70-89).
Values == INSTANCE OwnCopies
    WITH val <- [u \in Users |-> IF ref[u] = None \/ pc[u] = "kept" THEN None
                                 ELSE heap[ref[u]].data],
         call <- [u \in Users |-> IF pc[u] = "write" THEN "write" ELSE call[u]]
ImplementsOwnCopies == Values!Spec
=============================================================================
