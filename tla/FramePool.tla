------------------------------ MODULE FramePool ------------------------------
(***************************************************************************)
(* What the frame pool promises its users, without the mechanism: a fixed  *)
(* set of frames, each with a number of references, and a swap tier of at  *)
(* most MaxSlots slots.  A frame is free exactly when nobody references    *)
(* it, any free frame may be handed out, and only a frame with a single    *)
(* reference can be evicted.  MemoryAllocator implements this module with  *)
(* a LIFO free list and per-frame metadata.                                *)
(***************************************************************************)
EXTENDS Naturals, FiniteSets

CONSTANTS
    Frames,    \* the physical frames of the pool (PhysicalBlockId)
    MaxSlots   \* capacity of the swap backend (HostSwapBackend::max_slots_)

VARIABLES
    ref_count, \* ref_count[f]: references to frame f
    swapped    \* the slots that hold an evicted frame's contents

poolVars == <<ref_count, swapped>>

-----------------------------------------------------------------------------
Init ==
    /\ ref_count = [f \in Frames |-> 0]
    /\ swapped = {}

Acquire(f) ==
    /\ ref_count[f] = 0
    /\ ref_count' = [ref_count EXCEPT ![f] = 1]
    /\ UNCHANGED swapped

Share(f) ==
    /\ ref_count[f] > 0
    /\ ref_count' = [ref_count EXCEPT ![f] = @ + 1]
    /\ UNCHANGED swapped

Drop(f) ==
    /\ ref_count[f] > 0
    /\ ref_count' = [ref_count EXCEPT ![f] = @ - 1]
    /\ UNCHANGED swapped

Evict(f, slot) ==
    /\ ref_count[f] = 1
    /\ slot \notin swapped
    /\ Cardinality(swapped) < MaxSlots
    /\ ref_count' = [ref_count EXCEPT ![f] = 0]
    /\ swapped' = swapped \cup {slot}

Restore(f, slot) ==
    /\ ref_count[f] = 0
    /\ slot \in swapped
    /\ ref_count' = [ref_count EXCEPT ![f] = 1]
    /\ swapped' = swapped \ {slot}

Discard(slot) ==
    /\ slot \in swapped
    /\ swapped' = swapped \ {slot}
    /\ UNCHANGED ref_count

Next ==
    \/ \E f \in Frames : Acquire(f) \/ Share(f) \/ Drop(f)
    \/ \E f \in Frames, slot \in swapped \cup swapped' : Evict(f, slot) \/ Restore(f, slot)
    \/ \E slot \in swapped : Discard(slot)

Spec == Init /\ [][Next]_poolVars
=============================================================================
