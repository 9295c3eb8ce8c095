--------------------------- MODULE MemoryAllocator ---------------------------
(***************************************************************************)
(* The fixed pool of KV cache frames (MemoryAllocator) with the host swap  *)
(* space it evicts to (HostSwapBackend).  Every operation may be called at *)
(* any time with any argument, as the class itself demands nothing of its  *)
(* caller.  An operation that returns without changing anything is not a   *)
(* step.  Frame bytes are left to KVCacheManager, where they matter.       *)
(***************************************************************************)
EXTENDS FrameRefs, Sequences

CONSTANTS
    max_blocks,     \* AllocatorConfig::max_blocks
    MaxSlots,       \* HostSwapBackend::max_slots_
    MaxRefs,        \* bound: references to one frame
    MaxGeneration,  \* bound: recyclings of one frame
    MaxSlotId       \* bound: slots ever handed out

ASSUME AllocatorConfig ==
    /\ max_blocks \in Nat
    /\ Frames = 0 .. (max_blocks - 1)
    /\ MaxSlots \in Nat
    /\ MaxRefs \in Nat
    /\ MaxGeneration \in Nat
    /\ MaxSlotId \in Nat

VARIABLES
    free_list,   \* free_list_: a stack of frame ids
    ref_count,   \* infos_[f].ref_count
    state,       \* infos_[f].state
    generation,  \* infos_[f].generation
    backend,     \* is a swap backend installed (swap_backend_ != nullptr)?
    slots,       \* HostSwapBackend::slots_, the resident slot ids
    next_slot,   \* HostSwapBackend::next_slot_
    leases       \* history: the <<frame, generation>> pairs handed out

vars == <<free_list, ref_count, state, generation, backend, slots, next_slot, leases>>

(* Swapped is a member of the enumeration that no operation assigns. *)
BlockState == {"Free", "Active", "Shared", "Swapped"}

TypeOK ==
    /\ free_list \in Seq(Frames)
    /\ ref_count \in [Frames -> Nat]
    /\ state \in [Frames -> BlockState]
    /\ generation \in [Frames -> Nat]
    /\ backend \in BOOLEAN
    /\ slots \subseteq Nat
    /\ next_slot \in Nat
    /\ leases \subseteq Frames \X Nat

-----------------------------------------------------------------------------
(* bind_frames(): every frame is free, pushed in id order.  No backend is set. *)
Init ==
    /\ free_list = [i \in 1 .. max_blocks |-> i - 1]
    /\ ref_count = [f \in Frames |-> 0]
    /\ state = [f \in Frames |-> "Free"]
    /\ generation = [f \in Frames |-> 0]
    /\ backend = FALSE
    /\ slots = {}
    /\ next_slot = 1
    /\ leases = {}

Back(list) == list[Len(list)]
PopBack(list) == SubSeq(list, 1, Len(list) - 1)

(* allocate() pops the most recently freed frame. *)
TakeFrame(id) ==
    /\ free_list # <<>>
    /\ id = Back(free_list)
    /\ free_list' = PopBack(free_list)
    /\ ref_count' = Allocated(ref_count, id)
    /\ state' = [state EXCEPT ![id] = "Active"]
    /\ leases' = leases \cup {<<id, generation[id]>>}
    /\ UNCHANGED generation

(* Faulty variants of Recycle: the frame is not pushed, or keeps its generation. *)
Recycle_loses_frame(id) ==
    /\ state' = [state EXCEPT ![id] = "Free"]
    /\ generation' = [generation EXCEPT ![id] = @ + 1]
    /\ UNCHANGED free_list

Recycle_same_generation(id) ==
    /\ state' = [state EXCEPT ![id] = "Free"]
    /\ free_list' = Append(free_list, id)
    /\ UNCHANGED generation

Recycle(id) ==
    /\ state' = [state EXCEPT ![id] = "Free"]
    /\ generation' = [generation EXCEPT ![id] = @ + 1]
    /\ free_list' = Append(free_list, id)

allocate ==
    /\ \E id \in Frames : TakeFrame(id)
    /\ UNCHANGED <<backend, slots, next_slot>>

(* Faulty variants of release: a free frame is released again; dropping the  *)
(* second reference leaves Shared.                                           *)
release_unguarded(id) ==
    /\ ref_count' = [ref_count EXCEPT ![id] = @ - 1]
    /\ IF ref_count'[id] = 0 THEN generation[id] < MaxGeneration /\ Recycle(id)
                             ELSE UNCHANGED <<free_list, generation, state>>
    /\ UNCHANGED <<backend, slots, next_slot, leases>>

release_stays_shared(id) ==
    /\ ref_count[id] > 0
    /\ ref_count' = Released(ref_count, id)
    /\ IF ref_count'[id] = 0 THEN generation[id] < MaxGeneration /\ Recycle(id)
                             ELSE UNCHANGED <<free_list, generation, state>>
    /\ UNCHANGED <<backend, slots, next_slot, leases>>

release(id) ==
    /\ ref_count[id] > 0
    /\ ref_count' = Released(ref_count, id)
    /\ \/ /\ ref_count'[id] = 0
          /\ generation[id] < MaxGeneration
          /\ Recycle(id)
       \/ /\ ref_count'[id] = 1
          /\ state' = [state EXCEPT ![id] = "Active"]
          /\ UNCHANGED <<free_list, generation>>
       \/ /\ ref_count'[id] > 1
          /\ UNCHANGED <<free_list, generation, state>>
    /\ UNCHANGED <<backend, slots, next_slot, leases>>

retain(id) ==
    /\ ref_count[id] > 0
    /\ ref_count[id] < MaxRefs
    /\ ref_count' = Retained(ref_count, id)
    /\ state' = [state EXCEPT ![id] = "Shared"]
    /\ UNCHANGED <<free_list, generation, backend, slots, next_slot, leases>>

(* HostSwapBackend::store: refuses when full, never hands out an id twice. *)
store ==
    /\ Cardinality(slots) < MaxSlots
    /\ next_slot <= MaxSlotId
    /\ slots' = slots \cup {next_slot}
    /\ next_slot' = next_slot + 1

(* Faulty variant of swap_out: a shared frame is evicted too. *)
swap_out_shared(id) ==
    /\ backend
    /\ ref_count[id] >= 1
    /\ generation[id] < MaxGeneration
    /\ store
    /\ ref_count' = Evicted(ref_count, id)
    /\ Recycle(id)
    /\ UNCHANGED <<backend, leases>>

swap_out(id) ==
    /\ backend
    /\ ref_count[id] = 1
    /\ generation[id] < MaxGeneration
    /\ store
    /\ ref_count' = Evicted(ref_count, id)
    /\ Recycle(id)
    /\ UNCHANGED <<backend, leases>>

swap_in(slot) ==
    /\ backend
    /\ slot \in slots
    /\ \E id \in Frames : TakeFrame(id)
    /\ slots' = slots \ {slot}
    /\ UNCHANGED <<backend, next_slot>>

(* load() does not know the slot: the frame taken for it is released again, *)
(* which puts it back on top of the free list and advances its generation.  *)
swap_in_fails(slot) ==
    /\ backend
    /\ free_list # <<>>
    /\ slot \notin slots
    /\ LET id == Back(free_list) IN
        /\ generation[id] < MaxGeneration
        /\ free_list' = Append(PopBack(free_list), id)
        /\ ref_count' = Released(Allocated(ref_count, id), id)
        /\ state' = [state EXCEPT ![id] = "Free"]
        /\ generation' = [generation EXCEPT ![id] = @ + 1]
    /\ UNCHANGED <<backend, slots, next_slot, leases>>

discard_swapped(slot) ==
    /\ backend
    /\ slot \in slots
    /\ slots' = slots \ {slot}
    /\ UNCHANGED <<free_list, ref_count, state, generation, backend, next_slot, leases>>

(* set_swap_backend(): the host backend is installed, or taken away with what *)
(* it holds and put back later.                                               *)
set_swap_backend(installed) ==
    /\ installed # backend
    /\ backend' = installed
    /\ UNCHANGED <<free_list, ref_count, state, generation, slots, next_slot, leases>>

Next ==
    \/ allocate
    \/ \E installed \in BOOLEAN : set_swap_backend(installed)
    \/ \E id \in Frames : release(id) \/ retain(id) \/ swap_out(id)
    \/ \E slot \in 1 .. MaxSlotId : swap_in(slot) \/ swap_in_fails(slot) \/ discard_swapped(slot)

Spec == Init /\ [][Next]_vars

-----------------------------------------------------------------------------
(* The free list is a permutation of the unreferenced frames.  It is popped  *)
(* by allocate and pushed by release, swap_out and a failed swap_in, each of *)
(* which also edits the counts: a frame pushed twice would be handed to two  *)
(* owners, a frame pushed never would leak.                                  *)
FreeListSound ==
    /\ \A i, j \in 1 .. Len(free_list) : free_list[i] = free_list[j] => i = j
    /\ \A f \in Frames : ref_count[f] = 0 <=> \E i \in 1 .. Len(free_list) : free_list[i] = f

(* info(f).state names the number of references, whatever the order of retain, *)
(* release, swap_out and swap_in.                                              *)
StateTracksRefs ==
    \A f \in Frames :
        /\ state[f] = "Free" <=> ref_count[f] = 0
        /\ state[f] = "Active" <=> ref_count[f] = 1
        /\ state[f] = "Shared" <=> ref_count[f] > 1

(* stats() counts states while can_allocate() measures the free list.  The    *)
(* scheduler decides on the first and the cache manager on the second, so     *)
(* they have to agree in every reachable state.                               *)
StatsAgree ==
    /\ Cardinality({f \in Frames : state[f] = "Free"}) = Len(free_list)
    /\ StateTracksRefs

(* A frame is never handed out with a generation it was handed out with       *)
(* before, so an observation <<frame, generation>> taken by an earlier owner  *)
(* is recognisably stale (release: "advanced to invalidate stale              *)
(* observations").                                                            *)
LeaseIsFresh ==
    [][\A f \in Frames :
        ref_count[f] = 0 /\ ref_count'[f] > 0 => <<f, generation[f]>> \notin leases]_vars

(* The allocator implements the abstract pool: the frame on top of the free   *)
(* list is free, only a singly referenced frame is evicted, a failed swap_in  *)
(* is invisible, and a slot is resident from swap_out to swap_in or discard.  *)
Pool == INSTANCE FramePool WITH swapped <- slots
ImplementsPool == Pool!Spec

(* The inductive strengthening of the above: no lease of a free frame is      *)
(* current, and slot ids are handed out in increasing order.                  *)
LeasesPast ==
    \A f \in Frames, g \in Nat : <<f, g>> \in leases =>
        /\ g <= generation[f]
        /\ ref_count[f] = 0 => g < generation[f]

SlotsPast == 0 < next_slot /\ \A slot \in slots : 0 < slot /\ slot < next_slot
=============================================================================
