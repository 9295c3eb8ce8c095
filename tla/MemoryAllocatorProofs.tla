------------------------ MODULE MemoryAllocatorProofs ------------------------
(***************************************************************************)
(* Proofs about MemoryAllocator for every pool size, swap capacity and     *)
(* bound.  The inductive invariant is Inv: the free list is exactly the    *)
(* unreferenced frames, states follow the counts, the leases of a free     *)
(* frame are past, and slot ids grow.                                      *)
(*                                                                         *)
(* Before it, about FrameRefs: the loop operators are the loops they stand *)
(* for.  From no call on, each further call of the loop is one application *)
(* of the single operation.                                                *)
(***************************************************************************)
EXTENDS MemoryAllocator, TLAPS, FiniteSetTheorems, SequenceTheorems

-----------------------------------------------------------------------------
(* Zero calls change nothing. *)
LEMMA NoCalls ==
    ASSUME NEW rc \in [Frames -> Nat]
    PROVE  LET none == [f \in Frames |-> 0]
           IN  /\ RetainEach(rc, none) = rc
               /\ ReleaseEach(rc, none) = rc
               /\ AllocateEach(rc, {}) = rc
               /\ EvictEach(rc, {}) = rc
BY DEF RetainEach, ReleaseEach, AllocateEach, EvictEach

(* The loops of fork_sequence, publish_prefix and attach_prefix: one more      *)
(* retain(f) after n[g] calls for every frame g.                              *)
THEOREM RetainLoop ==
    ASSUME NEW rc \in [Frames -> Nat], NEW n \in [Frames -> Nat], NEW f \in Frames
    PROVE  RetainEach(rc, [n EXCEPT ![f] = @ + 1]) = Retained(RetainEach(rc, n), f)
<1> DEFINE m == [n EXCEPT ![f] = @ + 1]
           before == RetainEach(rc, n)
<1>1. m \in [Frames -> Nat] /\ before \in [Frames -> Nat]
  BY DEF RetainEach
<1>2. CASE rc[f] = 0
  <2>1. before[f] = 0
    BY <1>2 DEF RetainEach
  <2>2. \A g \in Frames : RetainEach(rc, m)[g] = before[g]
    BY <1>2 DEF RetainEach
  <2> QED
    BY <1>1, <2>1, <2>2 DEF RetainEach, Retained
<1>3. CASE rc[f] # 0
  <2>1. before[f] = rc[f] + n[f] /\ before[f] # 0
    BY <1>3 DEF RetainEach
  <2>2. \A g \in Frames : RetainEach(rc, m)[g] = IF g = f THEN before[g] + 1 ELSE before[g]
    BY <1>3 DEF RetainEach
  <2> QED
    BY <1>1, <2>1, <2>2 DEF RetainEach, Retained
<1> QED
  BY <1>2, <1>3

(* The loops of release_sequence and drop_prefix_user: one more release(f).   *)
(* Further calls for a frame that became free do nothing, as in the code.     *)
THEOREM ReleaseLoop ==
    ASSUME NEW rc \in [Frames -> Nat], NEW n \in [Frames -> Nat], NEW f \in Frames
    PROVE  ReleaseEach(rc, [n EXCEPT ![f] = @ + 1]) = Released(ReleaseEach(rc, n), f)
<1> DEFINE m == [n EXCEPT ![f] = @ + 1]
           before == ReleaseEach(rc, n)
<1>1. m \in [Frames -> Nat] /\ before \in [Frames -> Nat]
  BY DEF ReleaseEach
<1>2. CASE rc[f] <= n[f]
  <2>1. before[f] = 0
    BY <1>2 DEF ReleaseEach
  <2>2. \A g \in Frames : ReleaseEach(rc, m)[g] = before[g]
    BY <1>2 DEF ReleaseEach
  <2> QED
    BY <1>1, <2>1, <2>2 DEF ReleaseEach, Released
<1>3. CASE ~(rc[f] <= n[f])
  <2>1. before[f] = rc[f] - n[f] /\ before[f] # 0
    BY <1>3 DEF ReleaseEach
  <2>2. \A g \in Frames : ReleaseEach(rc, m)[g] = IF g = f THEN before[g] - 1 ELSE before[g]
    BY <1>3 DEF ReleaseEach
  <2> QED
    BY <1>1, <2>1, <2>2 DEF ReleaseEach, Released
<1> QED
  BY <1>2, <1>3

(* The loops of reserve_tokens and swap_in_sequence (one more allocate() that  *)
(* returns the free frame f) and of swap_out_sequence (one more frame of one  *)
(* reference evicted).                                                        *)
THEOREM AllocateAndEvictLoops ==
    ASSUME NEW rc \in [Frames -> Nat], NEW F \in SUBSET Frames, NEW f \in Frames
    PROVE  /\ AllocateEach(rc, F \cup {f}) = Allocated(AllocateEach(rc, F), f)
           /\ EvictEach(rc, F \cup {f}) = Evicted(EvictEach(rc, F), f)
BY DEF AllocateEach, Allocated, EvictEach, Evicted

-----------------------------------------------------------------------------
Inv ==
    /\ TypeOK
    /\ FreeListSound
    /\ StateTracksRefs
    /\ LeasesPast
    /\ SlotsPast

-----------------------------------------------------------------------------
(* Popping the top of a stack leaves the frames below it. *)
LEMMA PopBackProperties ==
    ASSUME NEW list \in Seq(Frames), list # <<>>
    PROVE  /\ PopBack(list) \in Seq(Frames)
           /\ Len(PopBack(list)) = Len(list) - 1
           /\ \A i \in 1 .. Len(list) - 1 : PopBack(list)[i] = list[i]
           /\ Len(list) \in Nat \ {0}
           /\ Back(list) \in Frames
  <1> DEFINE n == Len(list) - 1
  <1>1. Len(list) \in Nat \ {0} /\ n \in Nat /\ n < Len(list)
    OBVIOUS
  <1>2. Back(list) \in Frames
    BY <1>1 DEF Back
  <1>3. /\ SubSeq(list, 1, n) \in Seq(Frames)
        /\ Len(SubSeq(list, 1, n)) = n
        /\ \A i \in 1 .. n : SubSeq(list, 1, n)[i] = list[i]
    <2> HIDE DEF n
    <2>1. Len(SubSeq(list, 1, n)) = n  BY <1>1
    <2>2. \A i \in 1 .. n : SubSeq(list, 1, n)[i] = list[i]  BY <1>1
    <2>3. SubSeq(list, 1, n) \in Seq(Frames)  BY <1>1
    <2> QED BY <2>1, <2>2, <2>3
  <1> QED BY <1>1, <1>2, <1>3 DEF PopBack

(* A frame that a failed swap_in pops and pushes again leaves the stack as it was. *)
LEMMA PopPush ==
    ASSUME NEW list \in Seq(Frames), list # <<>>
    PROVE  Append(PopBack(list), Back(list)) = list
  <1>1. Len(PopBack(list)) = Len(list) - 1
    BY PopBackProperties
  <1> QED BY <1>1 DEF PopBack, Back

-----------------------------------------------------------------------------
(* The conjuncts of Inv that concern the pool rather than the swap space. *)
PoolTypeOK ==
    /\ free_list \in Seq(Frames)
    /\ ref_count \in [Frames -> Nat]
    /\ state \in [Frames -> BlockState]
    /\ generation \in [Frames -> Nat]
    /\ leases \subseteq Frames \X Nat

PoolInv ==
    /\ PoolTypeOK
    /\ FreeListSound
    /\ StateTracksRefs
    /\ LeasesPast

(* allocate and swap_in take the frame on top of the free list. *)
LEMMA TakeFrameKeepsPool ==
    ASSUME PoolInv, NEW id \in Frames, TakeFrame(id)
    PROVE  PoolInv' /\ ref_count[id] = 0
  <1> USE DEF PoolInv
  <1>1. /\ PopBack(free_list) \in Seq(Frames)
        /\ Len(PopBack(free_list)) = Len(free_list) - 1
        /\ \A i \in 1 .. Len(free_list) - 1 : PopBack(free_list)[i] = free_list[i]
        /\ Len(free_list) \in Nat \ {0}
        /\ free_list[Len(free_list)] = id
    BY PopBackProperties DEF TakeFrame, PoolTypeOK, Back
  <1>2. ref_count[id] = 0
    BY <1>1 DEF FreeListSound
  <1>3. ref_count' = [ref_count EXCEPT ![id] = 1]
    BY DEF TakeFrame, Allocated
  <1>4. PoolTypeOK'
    BY <1>1, <1>3 DEF PoolTypeOK, TakeFrame, BlockState
  <1>5. FreeListSound'
    <2>1. free_list' = PopBack(free_list)
      BY DEF TakeFrame
    <2>2. \A i, j \in 1 .. Len(free_list') : free_list'[i] = free_list'[j] => i = j
      BY <1>1, <2>1 DEF FreeListSound
    <2>3. ASSUME NEW f \in Frames
          PROVE  ref_count'[f] = 0 <=> \E i \in 1 .. Len(free_list') : free_list'[i] = f
      <3>1. CASE f = id
        <4>1. ref_count'[f] = 1
          BY <1>3, <3>1 DEF PoolTypeOK
        <4>2. \A i \in 1 .. Len(free_list) - 1 : free_list[i] # id
          BY <1>1 DEF FreeListSound
        <4> QED BY <1>1, <2>1, <3>1, <4>1, <4>2
      <3>2. CASE f # id
        <4>1. ref_count'[f] = ref_count[f]
          BY <1>3, <3>2 DEF PoolTypeOK
        <4>2. ASSUME NEW i \in 1 .. Len(free_list), free_list[i] = f
              PROVE  i \in 1 .. Len(free_list')
          BY <1>1, <2>1, <3>2, <4>2
        <4>3. ref_count[f] = 0 <=> \E i \in 1 .. Len(free_list) : free_list[i] = f
          BY DEF FreeListSound
        <4>4. \A i \in 1 .. Len(free_list') : i \in 1 .. Len(free_list) /\ free_list'[i] = free_list[i]
          BY <1>1, <2>1
        <4> QED BY <4>1, <4>2, <4>3, <4>4
      <3> QED BY <3>1, <3>2
    <2> QED BY <2>2, <2>3 DEF FreeListSound
  <1>6. StateTracksRefs'
    BY <1>3 DEF StateTracksRefs, PoolTypeOK, TakeFrame
  <1>7. LeasesPast'
    BY <1>2, <1>3 DEF LeasesPast, PoolTypeOK, TakeFrame
  <1> QED BY <1>2, <1>4, <1>5, <1>6, <1>7

(* release of the last reference and swap_out give a frame back. *)
LEMMA RecycleKeepsPool ==
    ASSUME PoolInv, NEW id \in Frames, ref_count[id] > 0,
           ref_count' = [ref_count EXCEPT ![id] = 0], Recycle(id), leases' = leases
    PROVE  PoolInv'
  <1> USE DEF PoolInv
  <1>1. PoolTypeOK'
    BY DEF PoolTypeOK, Recycle, BlockState
  <1>2. FreeListSound'
    <2>1. /\ Len(free_list) \in Nat
          /\ Len(free_list') = Len(free_list) + 1
          /\ \A i \in 1 .. Len(free_list) : free_list'[i] = free_list[i]
          /\ free_list'[Len(free_list) + 1] = id
      BY DEF PoolTypeOK, Recycle
    <2>2. \A i \in 1 .. Len(free_list) : free_list[i] # id
      <3>1. ref_count[id] # 0
        BY DEF PoolTypeOK
      <3> QED BY <3>1 DEF FreeListSound
    <2>3. \A i, j \in 1 .. Len(free_list') : free_list'[i] = free_list'[j] => i = j
      BY <2>1, <2>2 DEF FreeListSound
    <2>4. ASSUME NEW f \in Frames
          PROVE  ref_count'[f] = 0 <=> \E i \in 1 .. Len(free_list') : free_list'[i] = f
      <3>1. CASE f = id
        BY <2>1, <3>1 DEF PoolTypeOK
      <3>2. CASE f # id
        <4>1. ref_count'[f] = ref_count[f]
          BY <3>2 DEF PoolTypeOK
        <4>2. ASSUME NEW i \in 1 .. Len(free_list'), free_list'[i] = f
              PROVE  i \in 1 .. Len(free_list)
          BY <2>1, <3>2, <4>2
        <4>3. ref_count[f] = 0 <=> \E i \in 1 .. Len(free_list) : free_list[i] = f
          BY DEF FreeListSound
        <4>4. \A i \in 1 .. Len(free_list) : i \in 1 .. Len(free_list') /\ free_list'[i] = free_list[i]
          BY <2>1
        <4> QED BY <4>1, <4>2, <4>3, <4>4
      <3> QED BY <3>1, <3>2
    <2> QED BY <2>3, <2>4 DEF FreeListSound
  <1>3. StateTracksRefs'
    BY DEF StateTracksRefs, PoolTypeOK, Recycle
  <1>4. LeasesPast'
    BY DEF LeasesPast, PoolTypeOK, Recycle
  <1> QED BY <1>1, <1>2, <1>3, <1>4

-----------------------------------------------------------------------------
(* The constructor (bind_frames) establishes the inductive invariant: the free *)
(* list holds the frames in id order and nothing was handed out yet.            *)
LEMMA InvInit == Init => Inv
  <1> SUFFICES ASSUME Init PROVE Inv
    OBVIOUS
  <1> USE AllocatorConfig DEF Init
  <1>1. TypeOK
    <2>1. backend \in BOOLEAN
      OBVIOUS
    <2>2. free_list \in Seq(Frames)
      OBVIOUS
    <2> QED BY <2>1, <2>2 DEF TypeOK, BlockState
  <1>2. FreeListSound
    <2>1. Len(free_list) = max_blocks
      OBVIOUS
    <2>2. \A f \in Frames : f + 1 \in 1 .. max_blocks /\ free_list[f + 1] = f
      OBVIOUS
    <2> QED BY <2>1, <2>2 DEF FreeListSound
  <1>3. StateTracksRefs /\ LeasesPast /\ SlotsPast
    BY DEF StateTracksRefs, LeasesPast, SlotsPast
  <1> QED BY <1>1, <1>2, <1>3 DEF Inv

(* Every allocator call, successful or failing, preserves the inductive        *)
(* invariant.                                                                  *)
LEMMA InvNext == Inv /\ [Next]_vars => Inv'
  <1> SUFFICES ASSUME Inv, [Next]_vars PROVE Inv'
    OBVIOUS
  <1>P. PoolInv
    BY DEF Inv, PoolInv, TypeOK, PoolTypeOK
  <1>A. ASSUME PoolInv', SlotsPast', backend' \in BOOLEAN, slots' \subseteq Nat, next_slot' \in Nat
        PROVE  Inv'
    BY <1>A DEF Inv, PoolInv, TypeOK, PoolTypeOK
  <1>S. SlotsPast /\ backend \in BOOLEAN /\ slots \subseteq Nat /\ next_slot \in Nat
    BY DEF Inv, TypeOK
  <1>1. CASE allocate
    <2>1. PICK id \in Frames : TakeFrame(id)
      BY <1>1 DEF allocate
    <2>2. PoolInv'
      BY <1>P, <2>1, TakeFrameKeepsPool
    <2> QED BY <1>1, <1>A, <1>S, <2>2 DEF allocate, SlotsPast
  <1>2. ASSUME NEW id \in Frames, release(id)
        PROVE  Inv'
    <2>1. /\ ref_count[id] > 0
          /\ ref_count' = [ref_count EXCEPT ![id] = @ - 1]
          /\ ref_count[id] \in Nat
          /\ ref_count'[id] = ref_count[id] - 1
          /\ UNCHANGED <<backend, slots, next_slot, leases>>
      BY <1>2, <1>P DEF release, Released, PoolInv, PoolTypeOK
    <2>2. CASE ref_count'[id] = 0
      <3>1. ref_count' = [ref_count EXCEPT ![id] = 0]
        BY <2>1, <2>2
      <3>2. Recycle(id)
        <4>1. ~(ref_count'[id] = 1) /\ ~(ref_count'[id] > 1)
          BY <2>2
        <4> QED BY <1>2, <4>1 DEF release
      <3>3. PoolInv'
        BY <1>P, <2>1, <3>1, <3>2, RecycleKeepsPool
      <3> QED BY <1>A, <1>S, <2>1, <3>3 DEF SlotsPast
    <2>3. CASE ref_count'[id] > 0
      <3>1. /\ UNCHANGED <<free_list, generation>>
            /\ \/ ref_count'[id] = 1 /\ state' = [state EXCEPT ![id] = "Active"]
               \/ ref_count'[id] > 1 /\ state' = state
        BY <1>2, <2>1, <2>3 DEF release
      <3>2. PoolTypeOK'
        BY <1>P, <2>1, <3>1 DEF PoolInv, PoolTypeOK, BlockState
      <3>3. \A f \in Frames : ref_count'[f] = 0 <=> ref_count[f] = 0
        BY <1>P, <2>1, <2>3 DEF PoolInv, PoolTypeOK
      <3>4. FreeListSound' /\ LeasesPast'
        BY <1>P, <2>1, <3>1, <3>3 DEF PoolInv, FreeListSound, LeasesPast
      <3>5. StateTracksRefs'
        BY <1>P, <2>1, <3>1 DEF PoolInv, PoolTypeOK, StateTracksRefs
      <3> QED BY <1>A, <1>S, <2>1, <3>2, <3>4, <3>5 DEF PoolInv, SlotsPast
    <2> QED BY <2>1, <2>2, <2>3
  <1>3. ASSUME NEW id \in Frames, retain(id)
        PROVE  Inv'
    <2>1. /\ ref_count[id] > 0
          /\ ref_count' = [ref_count EXCEPT ![id] = @ + 1]
          /\ state' = [state EXCEPT ![id] = "Shared"]
          /\ UNCHANGED <<free_list, generation, backend, slots, next_slot, leases>>
      BY <1>3, <1>P DEF retain, Retained, PoolInv, PoolTypeOK
    <2>2. PoolTypeOK'
      BY <1>P, <2>1 DEF PoolInv, PoolTypeOK, BlockState
    <2>3. \A f \in Frames : ref_count'[f] = 0 <=> ref_count[f] = 0
      BY <1>P, <2>1 DEF PoolInv, PoolTypeOK
    <2>4. FreeListSound' /\ LeasesPast'
      BY <1>P, <2>1, <2>3 DEF PoolInv, FreeListSound, LeasesPast
    <2>5. StateTracksRefs'
      BY <1>P, <2>1 DEF PoolInv, PoolTypeOK, StateTracksRefs
    <2> QED BY <1>A, <1>S, <2>1, <2>2, <2>4, <2>5 DEF PoolInv, SlotsPast
  <1>4. ASSUME NEW id \in Frames, swap_out(id)
        PROVE  Inv'
    <2>0. /\ ref_count[id] > 0 /\ Recycle(id) /\ leases' = leases
          /\ ref_count' = [ref_count EXCEPT ![id] = 0]
      BY <1>4 DEF swap_out, Evicted
    <2>1. PoolInv'
      BY <1>P, <2>0, RecycleKeepsPool
    <2>2. slots' = slots \cup {next_slot} /\ next_slot' = next_slot + 1
      BY <1>4 DEF swap_out, store
    <2>3. SlotsPast' /\ slots' \subseteq Nat /\ next_slot' \in Nat
      BY <1>S, <2>2 DEF SlotsPast
    <2> QED BY <1>4, <1>A, <1>S, <2>1, <2>3 DEF swap_out
  <1>5. ASSUME NEW slot \in 1 .. MaxSlotId, swap_in(slot)
        PROVE  Inv'
    <2>1. PICK id \in Frames : TakeFrame(id)
      BY <1>5 DEF swap_in
    <2>2. PoolInv'
      BY <1>P, <2>1, TakeFrameKeepsPool
    <2> QED BY <1>5, <1>A, <1>S, <2>2 DEF swap_in, SlotsPast
  <1>6. ASSUME NEW slot \in 1 .. MaxSlotId, swap_in_fails(slot)
        PROVE  Inv'
    <2> DEFINE id == Back(free_list)
    <2>1. /\ id \in Frames
          /\ Len(free_list) \in Nat \ {0}
          /\ free_list' = free_list
      BY <1>6, <1>P, PopBackProperties, PopPush DEF swap_in_fails, PoolInv, PoolTypeOK
    <2>2. ref_count[id] = 0
      BY <1>P, <2>1 DEF PoolInv, FreeListSound, Back
    <2>3. ref_count' = ref_count
      BY <1>6, <1>P, <2>1, <2>2 DEF swap_in_fails, Allocated, Released, PoolInv, PoolTypeOK
    <2>4. /\ state' = [state EXCEPT ![id] = "Free"]
          /\ generation' = [generation EXCEPT ![id] = @ + 1]
          /\ UNCHANGED <<backend, slots, next_slot, leases>>
      BY <1>6 DEF swap_in_fails
    <2> HIDE DEF id
    <2>5. PoolTypeOK'
      BY <1>P, <2>1, <2>3, <2>4, SMTT(30) DEF PoolInv, PoolTypeOK, BlockState
    <2>6. FreeListSound'
      BY <1>P, <2>1, <2>3 DEF PoolInv, FreeListSound
    <2>7. StateTracksRefs'
      BY <1>P, <2>1, <2>2, <2>3, <2>4 DEF PoolInv, PoolTypeOK, StateTracksRefs
    <2>8. LeasesPast'
      BY <1>P, <2>1, <2>3, <2>4 DEF PoolInv, PoolTypeOK, LeasesPast
    <2> QED BY <1>A, <1>S, <2>4, <2>5, <2>6, <2>7, <2>8 DEF PoolInv, SlotsPast
  <1>7. ASSUME NEW slot \in 1 .. MaxSlotId, discard_swapped(slot)
        PROVE  Inv'
    <2>1. PoolInv'
      BY <1>7, <1>P DEF discard_swapped, PoolInv, PoolTypeOK, FreeListSound, StateTracksRefs, LeasesPast
    <2> QED BY <1>7, <1>A, <1>S, <2>1 DEF discard_swapped, SlotsPast
  <1>8. ASSUME NEW installed \in BOOLEAN, set_swap_backend(installed)
        PROVE  Inv'
    <2>1. PoolInv'
      BY <1>8, <1>P DEF set_swap_backend, PoolInv, PoolTypeOK, FreeListSound, StateTracksRefs, LeasesPast
    <2> QED BY <1>8, <1>A, <1>S, <2>1 DEF set_swap_backend, SlotsPast
  <1>9. CASE UNCHANGED vars
    <2>1. PoolInv'
      BY <1>9, <1>P DEF vars, PoolInv, PoolTypeOK, FreeListSound, StateTracksRefs, LeasesPast
    <2> QED BY <1>9, <1>A, <1>S, <2>1 DEF vars, SlotsPast
  <1> QED BY <1>1, <1>2, <1>3, <1>4, <1>5, <1>6, <1>7, <1>8, <1>9 DEF Next

(* Every behaviour of the allocator keeps the inductive invariant. *)
THEOREM Invariance == Spec => []Inv
  BY InvInit, InvNext, PTL DEF Spec

(* allocate, release, retain, swap_out, swap_in, discard_swapped and           *)
(* set_swap_backend keep the allocator's data well-typed, for every pool and   *)
(* swap capacity.                                                              *)
THEOREM TypeCorrect == Spec => []TypeOK
  <1>1. Inv => TypeOK
    BY DEF Inv
  <1> QED BY <1>1, Invariance, PTL

(* The free list always holds every unreferenced frame exactly once.           *)
THEOREM FreeListCorrect == Spec => []FreeListSound
  <1>1. Inv => FreeListSound
    BY DEF Inv
  <1> QED BY <1>1, Invariance, PTL

-----------------------------------------------------------------------------
(* In a state of the invariant the free list enumerates the Free frames. *)
LEMMA FreeListCounts == Inv => StatsAgree
  <1> SUFFICES ASSUME Inv PROVE StatsAgree
    OBVIOUS
  <1> DEFINE Free == {f \in Frames : state[f] = "Free"}
             n == Len(free_list)
  <1>1. n \in Nat /\ free_list \in [1 .. n -> Frames]
    BY DEF Inv, TypeOK
  <1>2. \A f \in Frames : f \in Free <=> \E i \in 1 .. n : free_list[i] = f
    BY DEF Inv, FreeListSound, StateTracksRefs
  <1>3. free_list \in [1 .. n -> Free]
    BY <1>1, <1>2
  <1>4. \A i, j \in 1 .. n : free_list[i] = free_list[j] => i = j
    BY DEF Inv, FreeListSound
  <1>5. \A f \in Free : \E i \in 1 .. n : free_list[i] = f
    BY <1>2
  <1>6. free_list \in Bijection(1 .. n, Free)
    BY <1>3, <1>4, <1>5 DEF Bijection, Injection, Surjection, IsInjective
  <1>7. ExistsBijection(1 .. n, Free)
    BY <1>6 DEF ExistsBijection
  <1> HIDE DEF n, Free
  <1>8. Cardinality(Free) = n
    BY <1>1, <1>7, FS_CountingElements
  <1> QED BY <1>8 DEF n, Free, Inv, StatsAgree

(* The free frames stats() reports are as many as can_allocate() has to give,  *)
(* in every reachable state of every pool.                                     *)
THEOREM StatsCorrect == Spec => []StatsAgree
  BY FreeListCounts, Invariance, PTL

(* No frame is handed out twice with the same generation.                      *)
THEOREM LeasesFresh == Spec => LeaseIsFresh
  <1>1. Inv /\ [Next]_vars =>
            [\A f \in Frames :
                ref_count[f] = 0 /\ ref_count'[f] > 0 => <<f, generation[f]>> \notin leases]_vars
    <2> SUFFICES ASSUME Inv, NEW f \in Frames, ref_count[f] = 0
                 PROVE  <<f, generation[f]>> \notin leases
      OBVIOUS
    <2> QED BY DEF Inv, TypeOK, LeasesPast
  <1> QED BY <1>1, Invariance, PTL DEF Spec, LeaseIsFresh

-----------------------------------------------------------------------------
(* A new allocator is a new abstract pool: no references, no resident slots.   *)
LEMMA PoolInit == Init => Pool!Init
  BY DEF Init, Pool!Init

(* Every allocator call is one operation of the abstract pool, or, for a       *)
(* swap_in whose load fails and for set_swap_backend, none.                    *)
LEMMA PoolStep == Inv /\ [Next]_vars => [Pool!Next]_(Pool!poolVars)
  <1> SUFFICES ASSUME Inv, [Next]_vars
               PROVE  Pool!Next \/ UNCHANGED <<ref_count, slots>>
    BY DEF Pool!poolVars
  <1>P. PoolInv /\ ref_count \in [Frames -> Nat]
    BY DEF Inv, PoolInv, TypeOK, PoolTypeOK
  <1>1. CASE allocate
    <2>1. PICK id \in Frames : TakeFrame(id)
      BY <1>1 DEF allocate
    <2>2. Pool!Acquire(id)
      BY <1>1, <1>P, <2>1, TakeFrameKeepsPool DEF allocate, TakeFrame, Allocated, Pool!Acquire
    <2> QED BY <2>2 DEF Pool!Next
  <1>2. ASSUME NEW id \in Frames, release(id)
        PROVE  Pool!Next
    <2>1. Pool!Drop(id)
      BY <1>2, <1>P DEF release, Released, Pool!Drop
    <2> QED BY <2>1 DEF Pool!Next
  <1>3. ASSUME NEW id \in Frames, retain(id)
        PROVE  Pool!Next
    <2>1. Pool!Share(id)
      BY <1>3, <1>P DEF retain, Retained, Pool!Share
    <2> QED BY <2>1 DEF Pool!Next
  <1>4. ASSUME NEW id \in Frames, swap_out(id)
        PROVE  Pool!Next
    <2>1. next_slot \notin slots
      BY DEF Inv, TypeOK, SlotsPast
    <2>2. Pool!Evict(id, next_slot)
      <3>1. /\ ref_count[id] = 1
            /\ ref_count' = [ref_count EXCEPT ![id] = 0]
            /\ Cardinality(slots) < MaxSlots
            /\ slots' = slots \cup {next_slot}
        BY <1>4 DEF swap_out, store, Evicted
      <3>2. Pool!Cardinality(slots) = Cardinality(slots)
        BY DEF Pool!Cardinality, Cardinality
      <3> QED BY <2>1, <3>1, <3>2 DEF Pool!Evict
    <2>3. next_slot \in slots'
      BY <1>4 DEF swap_out, store
    <2> QED BY <2>2, <2>3 DEF Pool!Next
  <1>5. ASSUME NEW slot \in 1 .. MaxSlotId, swap_in(slot)
        PROVE  Pool!Next
    <2>1. PICK id \in Frames : TakeFrame(id)
      BY <1>5 DEF swap_in
    <2>2. Pool!Restore(id, slot)
      BY <1>5, <1>P, <2>1, TakeFrameKeepsPool DEF swap_in, TakeFrame, Allocated, Pool!Restore
    <2>3. slot \in slots
      BY <1>5 DEF swap_in
    <2> QED BY <2>2, <2>3 DEF Pool!Next
  <1>6. ASSUME NEW slot \in 1 .. MaxSlotId, swap_in_fails(slot)
        PROVE  UNCHANGED <<ref_count, slots>>
    <2>1. Back(free_list) \in Frames /\ ref_count[Back(free_list)] = 0
      BY <1>6, <1>P, PopBackProperties DEF swap_in_fails, PoolInv, PoolTypeOK, FreeListSound, Back
    <2> QED BY <1>6, <1>P, <2>1 DEF swap_in_fails, Allocated, Released
  <1>7. ASSUME NEW slot \in 1 .. MaxSlotId, discard_swapped(slot)
        PROVE  Pool!Next
    <2>1. Pool!Discard(slot) /\ slot \in slots
      BY <1>7 DEF discard_swapped, Pool!Discard
    <2> QED BY <2>1 DEF Pool!Next
  <1>8. ASSUME NEW installed \in BOOLEAN, set_swap_backend(installed)
        PROVE  UNCHANGED <<ref_count, slots>>
    BY <1>8 DEF set_swap_backend
  <1>9. CASE UNCHANGED vars
    BY <1>9 DEF vars
  <1> QED BY <1>1, <1>2, <1>3, <1>4, <1>5, <1>6, <1>7, <1>8, <1>9 DEF Next

(* The LIFO allocator with its swap space implements the abstract frame pool. *)
THEOREM Implementation == Spec => ImplementsPool
  BY PoolInit, PoolStep, Invariance, PTL DEF Spec, ImplementsPool, Pool!Spec
=============================================================================
