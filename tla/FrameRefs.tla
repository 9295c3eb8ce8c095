------------------------------ MODULE FrameRefs ------------------------------
(***************************************************************************)
(* Reference counts of the frames of a pool, and what MemoryAllocator's    *)
(* operations do to them.  The cache manager calls release and retain once *)
(* per entry of a block table or of a prefix record; the ...Each operators *)
(* give the counts after such a loop, n[f] being the number of calls for   *)
(* frame f.  MemoryAllocatorProofs shows that one more call of the loop is *)
(* one more application of the single operation.                           *)
(***************************************************************************)
EXTENDS Naturals, FiniteSets

CONSTANT Frames   \* the physical frames of the pool (PhysicalBlockId)

(* allocate(): the popped frame gets its first reference. *)
Allocated(rc, f) == [rc EXCEPT ![f] = 1]

(* retain(f): nothing happens to a free frame. *)
Retained(rc, f) == IF rc[f] = 0 THEN rc ELSE [rc EXCEPT ![f] = @ + 1]

(* release(f): nothing happens to a free frame. *)
Released(rc, f) == IF rc[f] = 0 THEN rc ELSE [rc EXCEPT ![f] = @ - 1]

(* swap_out(f) of a frame with one reference. *)
Evicted(rc, f) == [rc EXCEPT ![f] = 0]

-----------------------------------------------------------------------------
FreeFrames(rc) == {f \in Frames : rc[f] = 0}

(* can_allocate(n): the free list holds the unreferenced frames. *)
CanAllocate(rc, n) == Cardinality(FreeFrames(rc)) >= n

AllocateEach(rc, F) == [f \in Frames |-> IF f \in F THEN 1 ELSE rc[f]]

RetainEach(rc, n) == [f \in Frames |-> IF rc[f] = 0 THEN 0 ELSE rc[f] + n[f]]

ReleaseEach(rc, n) == [f \in Frames |-> IF rc[f] <= n[f] THEN 0 ELSE rc[f] - n[f]]

EvictEach(rc, F) == [f \in Frames |-> IF f \in F THEN 0 ELSE rc[f]]
=============================================================================
