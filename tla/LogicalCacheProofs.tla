------------------------- MODULE LogicalCacheProofs -------------------------
(***************************************************************************)
(* KVCacheManager implements LogicalCache: sharing, copy-on-write and      *)
(* swapping are invisible to a sequence.  The invariant needed on top of   *)
(* the one of KVCacheManagerProofs is that a published record's frames     *)
(* still hold the contents it was published with.                          *)
(***************************************************************************)
EXTENDS KVCacheManagerProofs

(* What the frames of a prefix record hold. *)
Snapshot(D, rec) == [l \in Tables |-> [i \in 1 .. Len(rec.ids[l]) |-> D[rec.ids[l][i]]]]

(* A published prefix holds what it held when its contents were hashed. *)
SnapshotsTrue ==
    \A k \in Keys : \A rec \in prefix_index[k] : Snapshot(data, rec) = rec.hash

(* The invariant of the refinement. *)
CacheInv == Structure /\ RefCountsExact /\ SnapshotsTrue

-----------------------------------------------------------------------------
(* The refinement mapping, with the state as parameters. *)
Bytes(T, D, W, s, l, i) == IF T[s][l][i].slot = NoSlot THEN D[T[s][l][i].frame] ELSE W[T[s][l][i].slot]
BlocksOf(T, D, W, s) == [l \in Tables |-> [i \in 1 .. Len(T[s][l]) |-> Bytes(T, D, W, s, l, i)]]
LogicalOf(T, D, W) == [s \in SeqIds |-> BlocksOf(T, D, W, s)]
HashesOf(index) == [k \in Keys |-> {rec.hash : rec \in index[k]}]

LEMMA PlaceCell ==
    ASSUME TypeOK, TablesShaped, NEW s \in SeqIds, NEW l \in Tables, NEW i \in 1 .. Len(tables[s][l])
    PROVE  <<l, i>> \in Cells /\ i <= Len(tables[s][l]) /\ tables[s][l][i] \in Entry
  <1>1. tables[s][l] \in Seq(Entry) /\ Len(tables[s][l]) \in Nat
    BY TablesFacts
  <1>2. Len(tables[s][l]) <= MaxBlocks /\ MaxBlocks \in Nat
    BY ConfigFacts DEF TablesShaped
  <1>3. i \in 1 .. MaxBlocks
    BY <1>1, <1>2
  <1>4. tables[s][l][i] \in Entry
    BY <1>1, ElementOfSeq
  <1> QED BY <1>1, <1>3, <1>4 DEF Cells

LEMMA PlaceBytes ==
    ASSUME TypeOK, TablesShaped, NEW s \in SeqIds, NEW l \in Tables, NEW i \in 1 .. Len(tables[s][l])
    PROVE  BlockContent(s, <<l, i>>) = Bytes(tables, data, swap, s, l, i)
  <1>1. <<l, i>> \in Cells /\ i <= Len(tables[s][l])
    BY PlaceCell
  <1>2. <<l, i>> \in Mapped(s)
    BY <1>1 DEF Mapped
  <1>3. At(s, <<l, i>>) = tables[s][l][i]
    BY DEF At
  <1>4. <<l, i>> \in Resident(s) <=> tables[s][l][i].slot = NoSlot
    BY <1>2, <1>3 DEF Resident
  <1> QED BY <1>3, <1>4 DEF BlockContent, block_bytes, Bytes

LEMMA ContentBlocks ==
    ASSUME TypeOK, TablesShaped, NEW s \in SeqIds
    PROVE  ContentOf(s) = BlocksOf(tables, data, swap, s)
  <1>1. \A l \in Tables : \A i \in 1 .. Len(tables[s][l]) :
            BlockContent(s, <<l, i>>) = Bytes(tables, data, swap, s, l, i)
    BY PlaceBytes
  <1> QED BY <1>1 DEF ContentOf, BlocksOf

LEMMA MappingNow ==
    ASSUME TypeOK, TablesShaped, SnapshotsTrue
    PROVE  /\ [s \in SeqIds |-> ContentOf(s)] = LogicalOf(tables, data, swap)
           /\ [k \in Keys |-> {[l \in Tables |-> [i \in 1 .. Len(rec.ids[l]) |->
                                   data[rec.ids[l][i]]]] : rec \in prefix_index[k]}] = HashesOf(prefix_index)
  <1>1. [s \in SeqIds |-> ContentOf(s)] = LogicalOf(tables, data, swap)
    BY ContentBlocks DEF LogicalOf
  <1>2. \A k \in Keys : {Snapshot(data, rec) : rec \in prefix_index[k]} = {rec.hash : rec \in prefix_index[k]}
    BY DEF SnapshotsTrue
  <1>3. [k \in Keys |-> {Snapshot(data, rec) : rec \in prefix_index[k]}] = HashesOf(prefix_index)
    BY <1>2 DEF HashesOf
  <1> QED BY <1>1, <1>3 DEF Snapshot

(* ... and so it is after a step. *)
LEMMA MappingNext ==
    ASSUME TypeOK', TablesShaped', SnapshotsTrue'
    PROVE  /\ [s \in SeqIds |-> ContentOf(s)]' = LogicalOf(tables', data', swap')
           /\ [k \in Keys |-> {[l \in Tables |-> [i \in 1 .. Len(rec.ids[l]) |->
                                   data[rec.ids[l][i]]]] : rec \in prefix_index[k]}]' = HashesOf(prefix_index')
  <1>1. ASSUME NEW s \in SeqIds PROVE ContentOf(s)' = BlocksOf(tables', data', swap', s)
    <2>1. ASSUME NEW l \in Tables, NEW i \in 1 .. Len(tables'[s][l])
          PROVE  BlockContent(s, <<l, i>>)' = Bytes(tables', data', swap', s, l, i)
      <3>1. tables' \in TableMaps /\ tables'[s][l] \in Seq(Entry) /\ Len(tables'[s][l]) \in Nat
        BY DEF TypeOK, TableMaps
      <3>2. Len(tables'[s][l]) <= MaxBlocks /\ MaxBlocks \in Nat
        BY ConfigFacts DEF TablesShaped
      <3>3. i \in 1 .. MaxBlocks /\ i <= Len(tables'[s][l])
        BY <3>1, <3>2
      <3>4. <<l, i>> \in Mapped(s)'
        BY <3>3 DEF Mapped, Cells
      <3>5. At(s, <<l, i>>)' = tables'[s][l][i]
        BY DEF At
      <3>6. <<l, i>> \in Resident(s)' <=> tables'[s][l][i].slot = NoSlot
        BY <3>4, <3>5 DEF Resident
      <3> QED BY <3>5, <3>6 DEF BlockContent, block_bytes, Bytes
    <2> QED BY <2>1 DEF ContentOf, BlocksOf
  <1>2. \A k \in Keys : \A rec \in prefix_index'[k] : Snapshot(data', rec) = rec.hash
    BY DEF SnapshotsTrue, Snapshot
  <1>3. \A k \in Keys : {Snapshot(data', rec) : rec \in prefix_index'[k]} = {rec.hash : rec \in prefix_index'[k]}
    BY <1>2
  <1>4. [k \in Keys |-> {Snapshot(data', rec) : rec \in prefix_index'[k]}] = HashesOf(prefix_index')
    BY <1>3 DEF HashesOf
  <1>5. [s \in SeqIds |-> ContentOf(s)]' = LogicalOf(tables', data', swap')
    BY <1>1 DEF LogicalOf
  <1> QED BY <1>4, <1>5 DEF Snapshot

-----------------------------------------------------------------------------
(* Frames in use. *)
LEMMA EntryHolds ==
    ASSUME Structure, RefCountsExact, NEW s \in SeqIds, NEW l \in Tables,
           NEW i \in 1 .. Len(tables[s][l]), tables[s][l][i].slot = NoSlot
    PROVE  /\ tables[s][l][i].frame \in Frames
           /\ ref_count[tables[s][l][i].frame] # 0
           /\ <<s, <<l, i>>>> \in EntriesIn(tables, sequences, tables[s][l][i].frame)
  <1> DEFINE f == tables[s][l][i].frame
             p == <<s, <<l, i>>>>
  <1>1. <<l, i>> \in Cells /\ i <= Len(tables[s][l]) /\ tables[s][l][i] \in Entry
    BY PlaceCell DEF Structure
  <1>2. s \in sequences
    <2>1. SUFFICES ASSUME s \notin sequences PROVE FALSE
      OBVIOUS
    <2>2. tables[s] = NoTables
      BY <2>1 DEF Structure, TablesShaped
    <2>3. tables[s][l] = <<>>
      BY <2>2 DEF NoTables
    <2> QED BY <2>3
  <1>3. f \in Frames
    BY <1>1 DEF Entry
  <1>4. p \in EntriesIn(tables, sequences, f)
    BY <1>1, <1>2 DEF EntriesIn, MappedIn, EntryAt
  <1>5. ref_count[f] # 0
    BY <1>3, <1>4, CountFacts
  <1> QED BY <1>3, <1>4, <1>5

LEMMA PinHolds ==
    ASSUME Structure, NEW k \in Keys, NEW rec \in prefix_index[k], NEW l \in Tables,
           NEW i \in 1 .. Len(rec.ids[l])
    PROVE  /\ rec.ids[l][i] \in Frames
           /\ <<<<k, rec>>, <<l, i>>>> \in PinsOn(Records(prefix_index), rec.ids[l][i])
  <1>1. /\ rec \in Record /\ Len(rec.ids[l]) = Len(rec.ids[1]) /\ Len(rec.ids[1]) \in 1 .. MaxBlocks
    BY DEF Structure, TypeOK, RecordsShaped, IndexShaped
  <1>2. rec.ids[l] \in Seq(Frames) /\ Len(rec.ids[l]) \in Nat
    BY <1>1 DEF Record
  <1>3. rec.ids[l][i] \in Frames
    BY <1>2, ElementOfSeq
  <1>4. i \in 1 .. MaxBlocks /\ i <= Len(rec.ids[l])
    BY <1>1, <1>2, ConfigFacts
  <1>5. <<k, rec>> \in Records(prefix_index)
    BY RecordsAre
  <1>6. <<l, i>> \in Cells /\ <<l, i>> \in Pinned(rec)
    BY <1>4 DEF Cells, Pinned
  <1> QED BY <1>3, <1>5, <1>6 DEF PinsOn

(* A step that leaves the bytes of pinned frames alone, and whose records are *)
(* old ones but for their users, leaves the snapshots true.                   *)
PinnedKept ==
    \A f \in Frames : PinsOn(Records(prefix_index), f) # {} => data'[f] = data[f]
OldRecords(index, new) ==
    \A k \in Keys : \A r \in new[k] : \E rec \in index[k] : r.hash = rec.hash /\ r.ids = rec.ids

LEMMA HeldPins ==
    ASSUME Structure, RefCountsExact, HeldKept
    PROVE  PinnedKept
  BY CountFacts DEF HeldKept, PinnedKept

LEMMA SameSnapshot ==
    ASSUME Structure, SnapshotsTrue, PinnedKept, NEW k \in Keys, NEW rec \in prefix_index[k]
    PROVE  Snapshot(data', rec) = rec.hash
  <1>1. \A l \in Tables : \A i \in 1 .. Len(rec.ids[l]) : data'[rec.ids[l][i]] = data[rec.ids[l][i]]
    BY PinHolds DEF PinnedKept
  <1>2. Snapshot(data', rec) = Snapshot(data, rec)
    BY <1>1 DEF Snapshot
  <1> QED BY <1>2 DEF SnapshotsTrue

LEMMA SnapshotsKept ==
    ASSUME Structure, SnapshotsTrue, PinnedKept, OldRecords(prefix_index, prefix_index')
    PROVE  SnapshotsTrue'
  <1>1. ASSUME NEW k \in Keys, NEW r \in prefix_index'[k] PROVE Snapshot(data', r) = r.hash
    <2>1. PICK rec \in prefix_index[k] : r.hash = rec.hash /\ r.ids = rec.ids
      BY DEF OldRecords
    <2>2. Snapshot(data', rec) = rec.hash
      BY SameSnapshot
    <2>3. Snapshot(data', r) = Snapshot(data', rec)
      BY <2>1 DEF Snapshot
    <2> QED BY <2>1, <2>2, <2>3
  <1> QED BY <1>1 DEF SnapshotsTrue, Snapshot

(* Tables with the same lengths and the same bytes hold the same blocks. *)
SameBytes(T, D, W, U, E, V, s) ==
    \A l \in Tables : /\ Len(U[s][l]) = Len(T[s][l])
                      /\ \A i \in 1 .. Len(T[s][l]) : Bytes(U, E, V, s, l, i) = Bytes(T, D, W, s, l, i)

LEMMA SameBlocks ==
    ASSUME NEW T, NEW D, NEW W, NEW U, NEW E, NEW V, NEW s, SameBytes(T, D, W, U, E, V, s)
    PROVE  BlocksOf(U, E, V, s) = BlocksOf(T, D, W, s)
  BY DEF SameBytes, BlocksOf

(* Only a sequence that exists has blocks. *)
LEMMA NoBlocks ==
    ASSUME Structure, NEW s \in SeqIds, s \notin sequences
    PROVE  \A l \in Tables : tables[s][l] = <<>> /\ Len(tables[s][l]) = 0
  <1>1. tables[s] = NoTables
    BY DEF Structure, TablesShaped
  <1> QED BY <1>1 DEF NoTables

-----------------------------------------------------------------------------
(* Steps that LogicalCache does not see. *)
AllSame == \A s \in SeqIds : SameBytes(tables, data, swap, tables', data', swap', s)

LEMMA HiddenBlocks ==
    ASSUME CacheInv, Structure', PinnedKept, AllSame, sequences' = sequences, prefix_index' = prefix_index
    PROVE  SnapshotsTrue' /\ UNCHANGED Logical!logicalVars
  <1> USE DEF CacheInv
  <1>1. SnapshotsTrue'
    <2>1. OldRecords(prefix_index, prefix_index')
      BY DEF OldRecords
    <2> QED BY <2>1, SnapshotsKept
  <1>2. \A s \in SeqIds : BlocksOf(tables', data', swap', s) = BlocksOf(tables, data, swap, s)
    BY SameBlocks DEF AllSame
  <1>3. LogicalOf(tables', data', swap') = LogicalOf(tables, data, swap)
    BY <1>2 DEF LogicalOf
  <1>4. /\ TypeOK /\ TablesShaped /\ SnapshotsTrue /\ TypeOK' /\ TablesShaped' /\ SnapshotsTrue'
        /\ HashesOf(prefix_index') = HashesOf(prefix_index)
    BY <1>1 DEF Structure
  <1>5. UNCHANGED Logical!logicalVars
    BY ONLY <1>3, <1>4, MappingNow, MappingNext, sequences' = sequences DEF Logical!logicalVars
  <1> QED BY <1>1, <1>5

(* swap_out and swap_in *)
LEMMA SwapHidden ==
    ASSUME CacheInv, Structure', Rewritten(tables, tables'), HeldKept, ContentsKept,
           sequences' = sequences, prefix_index' = prefix_index
    PROVE  SnapshotsTrue' /\ UNCHANGED Logical!logicalVars
  <1> USE DEF CacheInv
  <1>1. PinnedKept
    BY HeldPins
  <1>2. /\ tables \in TableMaps /\ Even(tables) /\ sequences \in SUBSET SeqIds
    BY TablesFacts DEF Structure
  <1>3. \A s \in SeqIds, l \in Tables : Len(tables'[s][l]) = Len(tables[s][l])
    BY <1>2, RewrittenTables
  <1>4. ASSUME NEW s \in SeqIds, NEW l \in Tables, NEW i \in 1 .. Len(tables[s][l])
        PROVE  Bytes(tables', data', swap', s, l, i) = Bytes(tables, data, swap, s, l, i)
    <2> DEFINE p == <<s, <<l, i>>>>
    <2>1. s \in sequences
      BY NoBlocks
    <2>2. p \in MappedIn(tables, sequences)
      BY <1>2, <2>1, MappedCells
    <2>3. ContentIn(tables', data', swap', p) = ContentIn(tables, data, swap, p)
      BY <2>2 DEF ContentsKept
    <2> QED BY <2>3 DEF ContentIn, EntryAt, Bytes
  <1>5. AllSame
    BY <1>3, <1>4 DEF AllSame, SameBytes
  <1> QED BY <1>1, <1>5, HiddenBlocks

-----------------------------------------------------------------------------
(* The one holder of a frame with one reference. *)
HeldOnlyAt(s, l, i, f) ==
    /\ f \in Frames /\ PinsOn(Records(prefix_index), f) = {}
    /\ \A t \in SeqIds, m \in Tables : \A j \in 1 .. Len(tables[t][m]) :
          tables[t][m][j].slot = NoSlot /\ tables[t][m][j].frame = f => t = s /\ m = l /\ j = i

LEMMA SoleHolder ==
    ASSUME Structure, RefCountsExact, NEW s \in SeqIds, NEW l \in Tables, NEW i \in 1 .. Len(tables[s][l]),
           tables[s][l][i].slot = NoSlot, ref_count[tables[s][l][i].frame] <= 1
    PROVE  HeldOnlyAt(s, l, i, tables[s][l][i].frame)
  <1> DEFINE f == tables[s][l][i].frame
             A == EntriesIn(tables, sequences, f)
             P == PinsOn(Records(prefix_index), f)
  <1>1. f \in Frames /\ ref_count[f] # 0 /\ <<s, <<l, i>>>> \in A
    BY EntryHolds
  <1>2. /\ IsFiniteSet(A) /\ IsFiniteSet(P) /\ ref_count[f] = Cardinality(A) + Cardinality(P)
    BY <1>1, CountFacts
  <1>3. \A t \in SeqIds, m \in Tables : \A j \in 1 .. Len(tables[t][m]) :
            tables[t][m][j].slot = NoSlot /\ tables[t][m][j].frame = f => <<t, <<m, j>>>> \in A
    BY EntryHolds
  <1> HIDE DEF A, P
  <1>4. /\ Cardinality(A) \in Nat /\ (Cardinality(A) = 0 <=> A = {})
        /\ (Cardinality(A) = 1 => \A x, y \in A : x = y)
        /\ Cardinality(P) \in Nat /\ (Cardinality(P) = 0 <=> P = {})
    BY <1>2, SmallCount
  <1>5. Cardinality(A) = 1 /\ Cardinality(P) = 0
    BY <1>1, <1>2, <1>4
  <1>6. \A x \in A : x = <<s, <<l, i>>>>
    BY <1>1, <1>4, <1>5
  <1>7. \A t \in SeqIds, m \in Tables : \A j \in 1 .. Len(tables[t][m]) :
            tables[t][m][j].slot = NoSlot /\ tables[t][m][j].frame = f => t = s /\ m = l /\ j = i
    BY <1>3, <1>6
  <1>8. P = {}
    BY <1>4, <1>5
  <1> QED BY ONLY <1>1, <1>7, <1>8 DEF P, HeldOnlyAt

(* ensure_token_writable: the frame may change, the bytes do not. *)
LEMMA EnsureHidden ==
    ASSUME CacheInv, NEW s \in SeqIds, NEW pos \in 0 .. MaxTokens - 1, NEW l \in Tables,
           ensure_token_writable(s, pos, l)
    PROVE  SnapshotsTrue' /\ UNCHANGED Logical!logicalVars
  <1> USE DEF CacheInv
  <1> DEFINE c == CellOf(pos, l)
  <1>1. /\ s \in sequences /\ c \in Resident(s)
        /\ swap' = swap /\ sequences' = sequences /\ prefix_index' = prefix_index
    BY DEF ensure_token_writable
  <1>2. \/ /\ tables' = [tables EXCEPT ![s][c[1]][c[2]].writable = TRUE]
           /\ UNCHANGED <<ref_count, data>>
        \/ \E copy \in FreeFrames(ref_count) : CopyOnWrite(s, c, copy)
    BY DEF ensure_token_writable
  <1>3. PICK i \in 1 .. Len(tables[s][l]) :
              /\ c[1] = l /\ c[2] = i /\ At(s, c) = tables[s][l][i]
              /\ tables[s][l][i] \in Entry /\ tables[s][l][i].slot = NoSlot
    BY <1>1, ResidentCell
  <1>4. Structure'
    BY EnsureKeeps
  <1>5. tables \in TableMaps /\ Even(tables) /\ data \in [Frames -> Contents]
    BY TablesFacts DEF Structure, TypeOK
  <1> HIDE DEF c
  <1> DEFINE old == tables[s][l][i].frame
  <1>6. old \in Frames /\ ref_count[old] # 0
    BY <1>3, EntryHolds
  <1>7. ASSUME NEW e \in Entry, e.slot = NoSlot, Replaced(tables, tables', s, l, i, e),
               data'[e.frame] = data[old], HeldKept
        PROVE  AllSame
    <2>1. /\ \A t \in SeqIds, m \in Tables : Len(tables'[t][m]) = Len(tables[t][m])
          /\ tables'[s][l][i] = e
          /\ \A t \in SeqIds, m \in Tables : \A j \in 1 .. Len(tables[t][m]) :
                 <<t, m, j>> # <<s, l, i>> => tables'[t][m][j] = tables[t][m][j]
      <3>1. Touched(tables, tables', s, l, i, e)
        BY <1>5, <1>7, TouchEntry
      <3> QED BY <3>1 DEF Touched
    <2>2. ASSUME NEW t \in SeqIds, NEW m \in Tables, NEW j \in 1 .. Len(tables[t][m])
          PROVE  Bytes(tables', data', swap', t, m, j) = Bytes(tables, data, swap, t, m, j)
      <3>1. CASE t = s /\ m = l /\ j = i
        BY <1>3, <1>7, <2>1, <3>1 DEF Bytes
      <3>2. CASE ~(t = s /\ m = l /\ j = i)
        <4>1. tables'[t][m][j] = tables[t][m][j]
          BY <2>1, <3>2
        <4>2. tables[t][m][j].slot = NoSlot => data'[tables[t][m][j].frame] = data[tables[t][m][j].frame]
          BY <1>7, EntryHolds DEF HeldKept
        <4> QED BY <1>1, <4>1, <4>2 DEF Bytes
      <3> QED BY <3>1, <3>2
    <2> QED BY <2>1, <2>2 DEF AllSame, SameBytes
  <1>8. AllSame /\ HeldKept
    <2>1. CASE /\ tables' = [tables EXCEPT ![s][c[1]][c[2]].writable = TRUE]
               /\ UNCHANGED <<ref_count, data>>
      <3> DEFINE e == [tables[s][l][i] EXCEPT !.writable = TRUE]
      <3>1. e \in Entry /\ e.slot = NoSlot /\ e.frame = old
        BY <1>3 DEF Entry
      <3>2. Replaced(tables, tables', s, l, i, e)
        BY <1>3, <2>1 DEF Replaced
      <3>3. HeldKept /\ data'[e.frame] = data[old]
        BY <2>1, <3>1 DEF HeldKept
      <3> HIDE DEF e
      <3> QED BY <1>7, <3>1, <3>2, <3>3
    <2>2. ASSUME NEW copy \in FreeFrames(ref_count), CopyOnWrite(s, c, copy)
          PROVE  AllSame /\ HeldKept
      <3> DEFINE e == [tables[s][l][i] EXCEPT !.frame = copy, !.writable = TRUE]
      <3>1. copy \in Frames /\ ref_count[copy] = 0
        BY DEF FreeFrames
      <3>2. e \in Entry /\ e.slot = NoSlot /\ e.frame = copy
        BY <1>3, <3>1 DEF Entry
      <3>3. /\ data' = [data EXCEPT ![copy] = data[old]]
            /\ tables' = [tables EXCEPT ![s][c[1]][c[2]] = [@ EXCEPT !.frame = copy, !.writable = TRUE]]
        BY <1>3, <2>2 DEF CopyOnWrite, copy_block
      <3>4. Replaced(tables, tables', s, l, i, e)
        BY <1>3, <3>3 DEF Replaced
      <3>5. HeldKept /\ data'[e.frame] = data[old]
        BY <1>5, <3>1, <3>2, <3>3 DEF HeldKept
      <3> HIDE DEF e
      <3> QED BY <1>7, <3>2, <3>4, <3>5
    <2> QED BY <1>2, <2>1, <2>2
  <1>9. PinnedKept
    BY <1>8, HeldPins
  <1> QED BY <1>1, <1>4, <1>8, <1>9, HiddenBlocks


-----------------------------------------------------------------------------
(* Steps that are steps of LogicalCache.  The mapped state is named by        *)
(* LogicalOf and HashesOf, before and after.                                  *)
LEMMA MappedState ==
    ASSUME CacheInv, Structure', SnapshotsTrue'
    PROVE  /\ [s \in SeqIds |-> ContentOf(s)] = LogicalOf(tables, data, swap)
           /\ [k \in Keys |-> {[l \in Tables |-> [i \in 1 .. Len(rec.ids[l]) |->
                                   data[rec.ids[l][i]]]] : rec \in prefix_index[k]}] = HashesOf(prefix_index)
           /\ [s \in SeqIds |-> ContentOf(s)]' = LogicalOf(tables', data', swap')
           /\ [k \in Keys |-> {[l \in Tables |-> [i \in 1 .. Len(rec.ids[l]) |->
                                   data[rec.ids[l][i]]]] : rec \in prefix_index[k]}]' = HashesOf(prefix_index')
  <1>1. TypeOK /\ TablesShaped /\ SnapshotsTrue /\ TypeOK' /\ TablesShaped' /\ SnapshotsTrue'
    BY DEF CacheInv, Structure
  <1> QED BY ONLY <1>1, MappingNow, MappingNext

(* create_sequence *)
LEMMA CreateRefines ==
    ASSUME CacheInv, NEW s \in SeqIds, NEW r \in Requests, create_sequence(s, r)
    PROVE  SnapshotsTrue' /\ Logical!Create(s)
  <1>1. /\ s \notin sequences /\ sequences' = sequences \cup {s} /\ tables' = tables /\ data' = data
        /\ swap' = swap /\ prefix_index' = prefix_index
    BY DEF create_sequence, Index, poolVars
  <1>2. Structure'
    BY CreateKeeps DEF CacheInv
  <1>3. SnapshotsTrue'
    BY <1>1 DEF CacheInv, SnapshotsTrue, Snapshot
  <1>4. /\ LogicalOf(tables', data', swap') = LogicalOf(tables, data, swap)
        /\ HashesOf(prefix_index') = HashesOf(prefix_index)
    BY <1>1
  <1>5. Logical!Create(s)
    BY <1>1, <1>2, <1>3, <1>4, MappedState DEF Logical!Create
  <1> QED BY <1>3, <1>5

(* fork_sequence: the child's entries name the parent's frames. *)
LEMMA ForkRefines ==
    ASSUME CacheInv, NEW parent \in SeqIds, NEW child \in SeqIds, NEW r \in Requests,
           fork_sequence(parent, child, r)
    PROVE  SnapshotsTrue' /\ Logical!Fork(parent, child)
  <1> USE DEF CacheInv
  <1> DEFINE row == [l \in Tables |-> Forked(tables[parent][l])]
             lg == LogicalOf(tables, data, swap)
             lg2 == LogicalOf(tables', data', swap')
  <1>1. /\ parent \in sequences /\ child \notin sequences /\ sequences' = sequences \cup {child}
        /\ data' = data /\ swap' = swap /\ prefix_index' = prefix_index
        /\ tables' = [tables EXCEPT ![child] = row]
    BY DEF fork_sequence, Index
  <1>2. Structure'
    BY ForkKeeps
  <1>3. SnapshotsTrue'
    BY <1>1 DEF SnapshotsTrue, Snapshot
  <1>4. /\ tables \in TableMaps
        /\ \A s \in SeqIds, l \in Tables : tables[s][l] \in Seq(Entry) /\ Len(tables[s][l]) \in Nat
    BY TablesFacts DEF Structure
  <1>5. \A l \in Tables : /\ Len(row[l]) = Len(tables[parent][l])
                          /\ \A i \in 1 .. Len(tables[parent][l]) :
                                   /\ row[l][i].frame = tables[parent][l][i].frame
                                   /\ row[l][i].slot = tables[parent][l][i].slot
    BY <1>4, ForkedTable
  <1> HIDE DEF row
  <1>6. tables'[child] = row /\ \A t \in SeqIds : t # child => tables'[t] = tables[t]
    BY <1>1, <1>4 DEF TableMaps
  <1>7. lg2[child] = lg[parent]
    <2>1. BlocksOf(tables', data', swap', child) = BlocksOf(tables, data, swap, parent)
      <3>1. ASSUME NEW l \in Tables
            PROVE  /\ Len(tables'[child][l]) = Len(tables[parent][l])
                   /\ \A i \in 1 .. Len(tables[parent][l]) :
                         Bytes(tables', data', swap', child, l, i) = Bytes(tables, data, swap, parent, l, i)
        BY <1>1, <1>5, <1>6 DEF Bytes
      <3> QED BY <3>1 DEF BlocksOf
    <2> QED BY <2>1 DEF LogicalOf
  <1>8. ASSUME NEW t \in SeqIds, t # child PROVE lg2[t] = lg[t]
    <2>1. SameBytes(tables, data, swap, tables', data', swap', t)
      BY <1>1, <1>6, <1>8 DEF SameBytes, Bytes
    <2>2. BlocksOf(tables', data', swap', t) = BlocksOf(tables, data, swap, t)
      BY <2>1, SameBlocks
    <2> QED BY <2>2 DEF LogicalOf
  <1>9. DOMAIN lg = SeqIds /\ DOMAIN lg2 = SeqIds /\ lg2 = [t \in SeqIds |-> lg2[t]] /\ lg = [t \in SeqIds |-> lg[t]]
    BY DEF LogicalOf
  <1> HIDE DEF lg, lg2
  <1>10. lg2 = [lg EXCEPT ![child] = lg[parent]]
    BY <1>7, <1>8, <1>9
  <1>11. HashesOf(prefix_index') = HashesOf(prefix_index)
    BY <1>1
  <1>12. Logical!Fork(parent, child)
    BY <1>1, <1>2, <1>3, <1>10, <1>11, MappedState DEF Logical!Fork, lg, lg2
  <1> QED BY <1>3, <1>12

(* A step that changes the blocks of one sequence only. *)
OthersSame(s) == \A t \in SeqIds : t # s => SameBytes(tables, data, swap, tables', data', swap', t)

LEMMA OneSequence ==
    ASSUME NEW s \in SeqIds, OthersSame(s)
    PROVE  /\ LogicalOf(tables', data', swap')
                = [LogicalOf(tables, data, swap) EXCEPT ![s] = LogicalOf(tables', data', swap')[s]]
           /\ LogicalOf(tables', data', swap')[s] = BlocksOf(tables', data', swap', s)
           /\ LogicalOf(tables, data, swap)[s] = BlocksOf(tables, data, swap, s)
  <1> DEFINE lg == LogicalOf(tables, data, swap)
             lg2 == LogicalOf(tables', data', swap')
  <1>1. ASSUME NEW t \in SeqIds, t # s PROVE lg2[t] = lg[t]
    <2>1. SameBytes(tables, data, swap, tables', data', swap', t)
      BY <1>1 DEF OthersSame
    <2>2. BlocksOf(tables', data', swap', t) = BlocksOf(tables, data, swap, t)
      BY <2>1, SameBlocks
    <2> QED BY <2>2 DEF LogicalOf
  <1>2. lg2 = [t \in SeqIds |-> lg2[t]] /\ lg = [t \in SeqIds |-> lg[t]]
    BY DEF LogicalOf
  <1>3. lg2[s] = BlocksOf(tables', data', swap', s) /\ lg[s] = BlocksOf(tables, data, swap, s)
    BY DEF LogicalOf
  <1> HIDE DEF lg, lg2
  <1>4. lg2 = [lg EXCEPT ![s] = lg2[s]]
    BY <1>1, <1>2
  <1> QED BY <1>3, <1>4 DEF lg, lg2

(* The row f of n blocks is the beginning of the row g of m blocks. *)
Begins(f, n, g, m) ==
    /\ n \in Nat /\ m \in Nat /\ n <= m
    /\ f = [i \in 1 .. n |-> f[i]] /\ g = [i \in 1 .. m |-> g[i]]
    /\ \A i \in 1 .. n : g[i] = f[i]

LEMMA BeginsWith ==
    ASSUME NEW f, NEW n, NEW g, NEW m, Begins(f, n, g, m)
    PROVE  Len(g) >= Len(f) /\ SubSeq(g, 1, Len(f)) = f
  <1> USE DEF Begins
  <1> DEFINE S == {g[i] : i \in 1 .. m}
  <1>1. g \in [1 .. m -> S] /\ f \in [1 .. n -> S]
    <2>1. \A i \in 1 .. n : i \in 1 .. m
      OBVIOUS
    <2> QED BY <2>1
  <1> HIDE DEF S
  <1>2. g \in Seq(S) /\ Len(g) = m /\ f \in Seq(S) /\ Len(f) = n
    BY <1>1, LenProperties, SeqDef
  <1> DEFINE h == SubSeq(g, 1, n)
  <1>3. /\ h \in Seq(S) /\ Len(h) = n /\ \A i \in 1 .. n : h[i] = g[i]
    <2>1. 1 \in 1 .. Len(g) + 1 /\ n \in 1 - 1 .. Len(g)
      BY <1>2
    <2>2. /\ SubSeq(g, 1, n) \in Seq(S) /\ Len(SubSeq(g, 1, n)) = n - 1 + 1
          /\ \A i \in 1 .. n - 1 + 1 : SubSeq(g, 1, n)[i] = g[1 + i - 1]
      BY <1>2, <2>1, SubSeqProperties
    <2> QED BY <2>2
  <1> HIDE DEF h
  <1>4. h = f
    BY <1>2, <1>3, SeqEqual
  <1> QED BY <1>2, <1>4 DEF h

(* reserve_tokens: blocks are added at the end. *)
LEMMA ReserveRefines ==
    ASSUME CacheInv, NEW s \in SeqIds, NEW n \in 1 .. MaxTokens, reserve_tokens(s, n)
    PROVE  SnapshotsTrue' /\ Logical!Reserve(s)
  <1> USE DEF CacheInv
  <1> DEFINE b == blocks_for(n)
             lg == LogicalOf(tables, data, swap)
             lg2 == LogicalOf(tables', data', swap')
  <1>1. PICK g \in Injection(Tables \X (1 .. b), FreeFrames(ref_count)) :
          tables' = [tables EXCEPT ![s] = [l \in Tables |->
                Appended(tables[s][l], [i \in 1 .. b |-> g[<<l, i>>]])]]
    BY DEF reserve_tokens
  <1>2. /\ s \in sequences /\ data' = data /\ swap' = swap /\ sequences' = sequences
        /\ prefix_index' = prefix_index
    BY DEF reserve_tokens
  <1>3. b \in Nat
    <2>1. n \in Nat  BY ConfigFacts
    <2> QED BY <2>1, ConfigFacts
  <1>4. /\ tables \in TableMaps
        /\ \A t \in SeqIds, l \in Tables : tables[t][l] \in Seq(Entry) /\ Len(tables[t][l]) \in Nat
    BY TablesFacts DEF Structure
  <1> HIDE DEF b
  <1>5. \A l \in Tables, i \in 1 .. b : g[<<l, i>>] \in Frames
    BY <1>1 DEF Injection, FreeFrames
  <1>6. /\ \A l \in Tables : tables'[s][l] = Appended(tables[s][l], [i \in 1 .. b |-> g[<<l, i>>]])
        /\ \A t \in SeqIds : t # s => tables'[t] = tables[t]
    BY <1>1, <1>4 DEF TableMaps
  <1>7. ASSUME NEW l \in Tables
        PROVE  /\ Len(tables'[s][l]) = Len(tables[s][l]) + b
               /\ \A i \in 1 .. Len(tables[s][l]) : tables'[s][l][i] = tables[s][l][i]
    <2> DEFINE fr == [i \in 1 .. b |-> g[<<l, i>>]]
               old == tables[s][l]
    <2>1. fr \in [1 .. b -> Frames] /\ old \in Seq(Entry)
      BY <1>4, <1>5
    <2>2. tables'[s][l] = Appended(old, fr)
      BY <1>6
    <2> HIDE DEF fr, old
    <2>3. Len(Appended(old, fr)) = Len(old) + b /\ \A i \in 1 .. Len(old) : Appended(old, fr)[i] = old[i]
      BY <1>3, <2>1, AppendedTable
    <2> QED BY <2>2, <2>3 DEF old
  <1>8. Structure'
    BY ReserveKeeps
  <1>9. SnapshotsTrue'
    BY <1>2 DEF SnapshotsTrue, Snapshot
  <1>10. OthersSame(s)
    BY <1>2, <1>6 DEF OthersSame, SameBytes, Bytes
  <1>11. ASSUME NEW l \in Tables
         PROVE  Len(lg2[s][l]) >= Len(lg[s][l]) /\ SubSeq(lg2[s][l], 1, Len(lg[s][l])) = lg[s][l]
    <2> DEFINE p == lg[s][l]
               q == lg2[s][l]
               x == Len(tables[s][l])
               y == Len(tables'[s][l])
    <2>1. x \in Nat /\ y \in Nat /\ x <= y
      BY <1>3, <1>4, <1>7
    <2>2. p = [i \in 1 .. x |-> Bytes(tables, data, swap, s, l, i)]
          /\ q = [i \in 1 .. y |-> Bytes(tables', data', swap', s, l, i)]
      BY DEF LogicalOf, BlocksOf
    <2>3. \A i \in 1 .. x : Bytes(tables', data', swap', s, l, i) = Bytes(tables, data, swap, s, l, i)
      BY <1>2, <1>7 DEF Bytes
    <2> HIDE DEF p, q, x, y
    <2>4. p = [i \in 1 .. x |-> p[i]] /\ q = [i \in 1 .. y |-> q[i]]
      BY <2>2
    <2>5. \A i \in 1 .. x : q[i] = p[i]
      <3>1. \A i \in 1 .. x : i \in 1 .. y
        BY <2>1
      <3> QED BY <2>2, <2>3, <3>1
    <2>6. Len(q) >= Len(p) /\ SubSeq(q, 1, Len(p)) = p
      <3>1. Begins(p, x, q, y)
        BY <2>1, <2>4, <2>5 DEF Begins
      <3> QED BY <3>1, BeginsWith
    <2> QED BY <2>6 DEF p, q
  <1>12. lg2 = [lg EXCEPT ![s] = lg2[s]]
    BY <1>10, OneSequence
  <1>13. HashesOf(prefix_index') = HashesOf(prefix_index)
    BY <1>2
  <1> HIDE DEF lg, lg2
  <1>14. Logical!Reserve(s)
    BY <1>2, <1>8, <1>9, <1>11, <1>12, <1>13, MappedState DEF Logical!Reserve, lg, lg2
  <1> QED BY <1>9, <1>14

(* write_token: the frame written has no other entry and no pin. *)
LEMMA WriteRefines ==
    ASSUME CacheInv, NEW s \in SeqIds, NEW pos \in 0 .. MaxTokens - 1, NEW l \in Tables,
           NEW v \in Contents, write_token(s, pos, l, v)
    PROVE  SnapshotsTrue' /\ Logical!Write(s)
  <1> USE DEF CacheInv
  <1> DEFINE c == CellOf(pos, l)
             lg == LogicalOf(tables, data, swap)
             lg2 == LogicalOf(tables', data', swap')
  <1>1. /\ s \in sequences /\ c \in Resident(s)
        /\ ref_count[At(s, c).frame] <= 1
        /\ tables' = [tables EXCEPT ![s][c[1]][c[2]].writable = TRUE]
        /\ data' = [data EXCEPT ![At(s, c).frame] = v]
        /\ swap' = swap /\ sequences' = sequences /\ prefix_index' = prefix_index
    BY DEF write_token, Exclusive
  <1>2. PICK i \in 1 .. Len(tables[s][l]) :
              /\ c[1] = l /\ c[2] = i /\ At(s, c) = tables[s][l][i]
              /\ tables[s][l][i] \in Entry /\ tables[s][l][i].slot = NoSlot
    BY <1>1, ResidentCell
  <1>3. Structure'
    BY WriteKeeps
  <1>4. tables \in TableMaps /\ Even(tables) /\ data \in [Frames -> Contents]
    BY TablesFacts DEF Structure, TypeOK
  <1> HIDE DEF c
  <1> DEFINE f == tables[s][l][i].frame
             e == [tables[s][l][i] EXCEPT !.writable = TRUE]
  <1>5. /\ f \in Frames /\ PinsOn(Records(prefix_index), f) = {}
        /\ \A t \in SeqIds, m \in Tables : \A j \in 1 .. Len(tables[t][m]) :
              tables[t][m][j].slot = NoSlot /\ tables[t][m][j].frame = f => t = s /\ m = l /\ j = i
    <2>1. HeldOnlyAt(s, l, i, tables[s][l][i].frame)
      BY <1>1, <1>2, SoleHolder
    <2> QED BY <2>1 DEF HeldOnlyAt
  <1>6. \A g \in Frames : g # f => data'[g] = data[g]
    BY <1>1, <1>2, <1>4
  <1>7. PinnedKept
    BY <1>5, <1>6 DEF PinnedKept
  <1>8. SnapshotsTrue'
    <2>1. OldRecords(prefix_index, prefix_index')
      BY <1>1 DEF OldRecords
    <2> QED BY <1>7, <2>1, SnapshotsKept
  <1>9. e \in Entry /\ e.slot = NoSlot /\ e.frame = f
    BY <1>2 DEF Entry
  <1>10. Replaced(tables, tables', s, l, i, e)
    BY <1>1, <1>2 DEF Replaced
  <1> HIDE DEF e
  <1>11. /\ \A t \in SeqIds, m \in Tables : Len(tables'[t][m]) = Len(tables[t][m])
         /\ \A t \in SeqIds, m \in Tables : \A j \in 1 .. Len(tables[t][m]) :
                 <<t, m, j>> # <<s, l, i>> => tables'[t][m][j] = tables[t][m][j]
    <2>1. Touched(tables, tables', s, l, i, e)
      BY <1>4, <1>9, <1>10, <1>2, TouchEntry
    <2> QED BY <2>1 DEF Touched
  <1>12. ASSUME NEW t \in SeqIds, NEW m \in Tables, NEW j \in 1 .. Len(tables[t][m]), ~(t = s /\ m = l /\ j = i)
         PROVE  Bytes(tables', data', swap', t, m, j) = Bytes(tables, data, swap, t, m, j)
    <2>1. tables'[t][m][j] = tables[t][m][j]
      BY <1>11, <1>12
    <2>2. tables[t][m][j].slot = NoSlot => tables[t][m][j].frame \in Frames /\ tables[t][m][j].frame # f
      BY <1>5, <1>12, EntryHolds
    <2>3. tables[t][m][j].slot = NoSlot => data'[tables[t][m][j].frame] = data[tables[t][m][j].frame]
      <3> HIDE DEF f
      <3> QED BY <1>6, <2>2
    <2>4. swap' = swap
      BY <1>1
    <2> QED BY ONLY <2>1, <2>3, <2>4 DEF Bytes
  <1>13. OthersSame(s)
    BY <1>11, <1>12 DEF OthersSame, SameBytes
  <1>14. /\ lg2 = [lg EXCEPT ![s] = lg2[s]]
         /\ lg2[s] = BlocksOf(tables', data', swap', s)
         /\ lg[s] = BlocksOf(tables, data, swap, s)
    BY <1>13, OneSequence
  <1> DEFINE n(m) == Len(tables[s][m])
             old(m, j) == Bytes(tables, data, swap, s, m, j)
             new(m, j) == Bytes(tables', data', swap', s, m, j)
  <1>15. /\ lg[s] = [m \in Tables |-> [j \in 1 .. n(m) |-> old(m, j)]]
         /\ lg2[s] = [m \in Tables |-> [j \in 1 .. n(m) |-> new(m, j)]]
    BY <1>11, <1>14 DEF BlocksOf
  <1>16. \A m \in Tables : \A j \in 1 .. n(m) : ~(m = l /\ j = i) => new(m, j) = old(m, j)
    BY <1>12
  <1>17. i \in 1 .. n(l)
    BY <1>2
  <1> HIDE DEF n, old, new, lg, lg2
  <1>18. /\ lg2[s] = [lg[s] EXCEPT ![l] = [lg[s][l] EXCEPT ![i] = lg2[s][l][i]]]
         /\ i \in DOMAIN lg[s][l]
    <2>1. /\ lg[s][l] = [j \in 1 .. n(l) |-> old(l, j)] /\ lg2[s][l] = [j \in 1 .. n(l) |-> new(l, j)]
          /\ i \in DOMAIN lg[s][l] /\ lg2[s][l][i] = new(l, i)
      BY <1>15, <1>17
    <2>2. lg2[s][l] = [lg[s][l] EXCEPT ![i] = lg2[s][l][i]]
      BY <1>16, <1>17, <2>1, ZenonT(60)
    <2>3. \A m \in Tables : m # l => lg2[s][m] = lg[s][m]
      BY <1>15, <1>16
    <2> QED BY <1>15, <2>1, <2>2, <2>3
  <1>19. lg2 = [lg EXCEPT ![s][l][i] = lg2[s][l][i]]
    <2>1. lg2 = [lg EXCEPT ![s] = [lg[s] EXCEPT ![l] = [lg[s][l] EXCEPT ![i] = lg2[s][l][i]]]]
      BY <1>14, <1>18
    <2> QED BY <2>1
  <1>20. HashesOf(prefix_index') = HashesOf(prefix_index)
    BY <1>1
  <1>21. Logical!Write(s)
    <2>1. /\ [t \in SeqIds |-> ContentOf(t)] = lg
          /\ [t \in SeqIds |-> ContentOf(t)]' = lg2
          /\ [k \in Keys |-> {[m \in Tables |-> [j \in 1 .. Len(rec.ids[m]) |->
                                   data[rec.ids[m][j]]]] : rec \in prefix_index[k]}]'
               = [k \in Keys |-> {[m \in Tables |-> [j \in 1 .. Len(rec.ids[m]) |->
                                   data[rec.ids[m][j]]]] : rec \in prefix_index[k]}]
      BY <1>3, <1>8, <1>20, MappedState DEF lg, lg2
    <2>2. Logical!OneBlock(lg, lg2, s)
      BY <1>18, <1>19 DEF Logical!OneBlock
    <2>3. s \in sequences /\ sequences' = sequences
      BY <1>1
    <2> QED BY ONLY <2>1, <2>2, <2>3 DEF Logical!Write
  <1> QED BY <1>8, <1>21

(* release_sequence, release_request: the others keep frames and slots. *)
LEMMA ReleaseRefines ==
    ASSUME CacheInv, NEW S \in SUBSET sequences, release(S)
    PROVE  SnapshotsTrue' /\ Logical!Release(S)
  <1> USE DEF CacheInv
  <1> DEFINE lg == LogicalOf(tables, data, swap)
             lg2 == LogicalOf(tables', data', swap')
  <1>1. /\ swap' = SwapWithout(S) /\ prefix_index' = IndexWithout(S) /\ data' = data
        /\ sequences' = sequences \ S
        /\ tables' = [s \in SeqIds |-> IF s \in S THEN NoTables ELSE tables[s]]
    BY DEF release
  <1>2. Structure'
    BY ReleaseKeeps
  <1>3. /\ tables \in TableMaps /\ Even(tables) /\ sequences \in SUBSET SeqIds
        /\ prefix_index \in [Keys -> SUBSET Record]
    BY TablesFacts DEF Structure, TypeOK
  <1>4. OldRecords(prefix_index, prefix_index')
    <2>1. ASSUME NEW k \in Keys, NEW r \in prefix_index'[k]
          PROVE  \E rec \in prefix_index[k] : r.hash = rec.hash /\ r.ids = rec.ids
      <3>1. PICK rec \in prefix_index[k] : r = [rec EXCEPT !.users = @ - Leaving(S, k, rec)]
        BY <1>1 DEF IndexWithout
      <3>2. rec \in Record
        BY <1>3
      <3>3. r.hash = rec.hash /\ r.ids = rec.ids
        BY <3>1, <3>2 DEF Record
      <3> QED BY <3>3
    <2> QED BY <2>1 DEF OldRecords
  <1>5. SnapshotsTrue'
    <2>1. PinnedKept
      BY <1>1 DEF PinnedKept
    <2> QED BY <1>4, <2>1, SnapshotsKept
  <1>6. ASSUME NEW k \in Keys PROVE HashesOf(prefix_index')[k] \subseteq HashesOf(prefix_index)[k]
    BY <1>4 DEF OldRecords, HashesOf
  <1>7. ASSUME NEW s \in S PROVE lg2[s] = [l \in Tables |-> <<>>]
    <2>1. s \in SeqIds /\ tables'[s] = NoTables
      BY <1>1, <1>3
    <2>2. \A l \in Tables : tables'[s][l] = <<>> /\ Len(<<>>) = 0
      BY <2>1 DEF NoTables
    <2>3. \A l \in Tables : [i \in 1 .. Len(tables'[s][l]) |-> Bytes(tables', data', swap', s, l, i)] = <<>>
      BY <2>2
    <2>4. BlocksOf(tables', data', swap', s) = [l \in Tables |-> <<>>]
      BY <2>3 DEF BlocksOf
    <2> QED BY <2>1, <2>4 DEF LogicalOf
  <1>8. ASSUME NEW s \in SeqIds, s \notin S PROVE lg2[s] = lg[s]
    <2>1. tables'[s] = tables[s]
      BY <1>1, <1>8
    <2>2. ASSUME NEW l \in Tables, NEW i \in 1 .. Len(tables[s][l])
          PROVE  Bytes(tables', data', swap', s, l, i) = Bytes(tables, data, swap, s, l, i)
      <3>1. CASE tables[s][l][i].slot = NoSlot
        BY <1>1, <2>1, <3>1 DEF Bytes
      <3>2. CASE tables[s][l][i].slot # NoSlot
        <4> DEFINE p == <<s, <<l, i>>>>
                   k == tables[s][l][i].slot
        <4>1. tables[s][l][i] \in Entry
          BY PlaceCell DEF Structure
        <4>2. k \in Slots
          BY <3>2, <4>1 DEF Entry
        <4>3. s \in sequences
          BY NoBlocks
        <4>4. p \in AbsentIn(tables, sequences) /\ EntryAt(tables, p).slot = k
          <5>1. p \in MappedIn(tables, sequences) /\ EntryAt(tables, p) = tables[s][l][i]
            BY <1>3, <4>3, MappedCells
          <5> QED BY <3>2, <5>1 DEF AbsentIn
        <4>5. \A r \in AbsentIn(tables, sequences) : EntryAt(tables, r).slot = k => r = p
          BY <4>4, Bridges DEF Structure, SlotsHeld
        <4>6. \A r \in AbsentIn(tables, S) : r \in AbsentIn(tables, sequences) /\ r[1] \in S
          BY DEF AbsentIn, MappedIn
        <4>7. ~ \E r \in AbsentIn(tables, S) : EntryAt(tables, r).slot = k
          BY <1>8, <4>5, <4>6
        <4>8. ~ \E r \in Absentees(S) : At(r[1], r[2]).slot = k
          <5>1. Absentees(S) = AbsentIn(tables, S)
            BY Bridges
          <5>2. \A r : At(r[1], r[2]) = EntryAt(tables, r)
            BY DEF At, EntryAt
          <5> HIDE DEF k
          <5> QED BY <4>7, <5>1, <5>2
        <4> HIDE DEF k
        <4>9. swap'[k] = swap[k]
          BY <1>1, <4>2, <4>8 DEF SwapWithout
        <4> QED BY <2>1, <3>2, <4>9 DEF Bytes, k
      <3> QED BY <3>1, <3>2
    <2>3. SameBytes(tables, data, swap, tables', data', swap', s)
      BY <2>1, <2>2 DEF SameBytes
    <2>4. BlocksOf(tables', data', swap', s) = BlocksOf(tables, data, swap, s)
      BY <2>3, SameBlocks
    <2> QED BY <2>4 DEF LogicalOf
  <1>9. lg2 = [s \in SeqIds |-> lg2[s]]
    BY DEF LogicalOf
  <1> HIDE DEF lg, lg2
  <1>10. lg2 = [s \in SeqIds |-> IF s \in S THEN [l \in Tables |-> <<>>] ELSE lg[s]]
    BY <1>7, <1>8, <1>9
  <1>11. Logical!Release(S)
    BY <1>1, <1>2, <1>5, <1>6, <1>10, MappedState DEF Logical!Release, Logical!Empty, lg, lg2
  <1> QED BY <1>5, <1>11

-----------------------------------------------------------------------------
(* publish_prefix: a snapshot of the sequence joins those under the key. *)
LEMMA PublishRefines ==
    ASSUME CacheInv, NEW s \in SeqIds, NEW k \in Keys, publish_prefix(s, k)
    PROVE  SnapshotsTrue' /\ Logical!Publish(s, k)
  <1> USE DEF CacheInv
  <1> DEFINE lg == LogicalOf(tables, data, swap)
             hash == ContentOf(s)
             same == {rec \in prefix_index[k] : rec.hash = hash}
             new == [hash |-> hash, ids |-> Ids(s), users |-> 1]
             H == HashesOf(prefix_index)
             H2 == HashesOf(prefix_index')
  <1>1. /\ s \in sequences /\ SwappedOut(s) = {}
        /\ data' = data /\ swap' = swap /\ sequences' = sequences /\ tables' = tables
    BY DEF publish_prefix
  <1>2. \/ /\ same # {}
           /\ prefix_index' = [prefix_index EXCEPT ![k] = (prefix_index[k] \ same) \cup {Joined(rec) : rec \in same}]
        \/ /\ same = {}
           /\ prefix_index' = [prefix_index EXCEPT ![k] = prefix_index[k] \cup {new}]
    BY DEF publish_prefix
  <1>3. Structure'
    BY PublishKeeps
  <1>4. prefix_index \in [Keys -> SUBSET Record] /\ TypeOK /\ TablesShaped
    BY DEF Structure, TypeOK
  <1>5. lg[s] = hash /\ hash = BlocksOf(tables, data, swap, s)
    BY <1>4, ContentBlocks DEF LogicalOf
  <1>6. new.hash = hash /\ Snapshot(data, new) = hash
    <2>1. /\ \A l \in Tables : \A i \in 1 .. Len(tables[s][l]) : tables[s][l][i].slot = NoSlot
          /\ \A l \in Tables : /\ Len(Ids(s)[l]) = Len(tables[s][l])
                               /\ \A i \in 1 .. Len(tables[s][l]) : Ids(s)[l][i] = tables[s][l][i].frame
      BY <1>1, <1>4, ResidentSequence
    <2>2. \A l \in Tables : \A i \in 1 .. Len(tables[s][l]) : Bytes(tables, data, swap, s, l, i) = data[Ids(s)[l][i]]
      BY <2>1 DEF Bytes
    <2>3. Snapshot(data, new) = BlocksOf(tables, data, swap, s)
      BY <2>1, <2>2 DEF Snapshot, BlocksOf
    <2> QED BY <1>5, <2>3
  <1> HIDE DEF new, lg, hash
  <1>7. \A j \in Keys : j # k => prefix_index'[j] = prefix_index[j]
    BY <1>2, <1>4
  <1>8. ASSUME NEW r \in prefix_index'[k]
        PROVE  \/ \E rec \in prefix_index[k] : r.hash = rec.hash /\ r.ids = rec.ids
               \/ r = new
    <2>1. CASE /\ same = {}
               /\ prefix_index' = [prefix_index EXCEPT ![k] = prefix_index[k] \cup {new}]
      BY <1>4, <2>1
    <2>2. CASE prefix_index' = [prefix_index EXCEPT ![k] = (prefix_index[k] \ same) \cup {Joined(rec) : rec \in same}]
      <3>1. r \in prefix_index[k] \/ \E rec \in prefix_index[k] : r = Joined(rec)
        BY <1>4, <2>2
      <3>2. \A rec \in prefix_index[k] : Joined(rec).hash = rec.hash /\ Joined(rec).ids = rec.ids
        BY <1>4 DEF Joined, Record
      <3> QED BY <3>1, <3>2
    <2> QED BY <1>2, <2>1, <2>2
  <1>9. \A rec \in prefix_index[k] : \E r \in prefix_index'[k] : r.hash = rec.hash
    <2>1. SUFFICES ASSUME NEW rec \in prefix_index[k] PROVE \E r \in prefix_index'[k] : r.hash = rec.hash
      OBVIOUS
    <2>2. CASE /\ same = {}
               /\ prefix_index' = [prefix_index EXCEPT ![k] = prefix_index[k] \cup {new}]
      BY <1>4, <2>2
    <2>3. CASE prefix_index' = [prefix_index EXCEPT ![k] = (prefix_index[k] \ same) \cup {Joined(r) : r \in same}]
      <3>1. rec \in prefix_index'[k] \/ Joined(rec) \in prefix_index'[k]
        BY <1>4, <2>3
      <3>2. Joined(rec).hash = rec.hash
        BY <1>4 DEF Joined, Record
      <3> QED BY <3>1, <3>2
    <2> QED BY <1>2, <2>2, <2>3
  <1>10. \E r \in prefix_index'[k] : r.hash = hash
    <2>1. CASE /\ same = {}
               /\ prefix_index' = [prefix_index EXCEPT ![k] = prefix_index[k] \cup {new}]
      BY <1>4, <1>6, <2>1
    <2>2. CASE same # {}
      <3>1. PICK rec \in prefix_index[k] : rec.hash = hash
        BY <2>2
      <3> QED BY <1>9, <3>1
    <2> QED BY <1>2, <2>1, <2>2
  <1>11. SnapshotsTrue'
    <2>1. ASSUME NEW j \in Keys, NEW r \in prefix_index'[j] PROVE Snapshot(data', r) = r.hash
      <3>1. CASE \E rec \in prefix_index[j] : r.hash = rec.hash /\ r.ids = rec.ids
        <4>1. PICK rec \in prefix_index[j] : r.hash = rec.hash /\ r.ids = rec.ids
          BY <3>1
        <4>2. Snapshot(data, rec) = rec.hash
          BY DEF SnapshotsTrue
        <4>3. Snapshot(data', r) = Snapshot(data, rec)
          BY <1>1, <4>1 DEF Snapshot
        <4> QED BY <4>1, <4>2, <4>3
      <3>2. CASE r = new
        BY <1>1, <1>6, <3>2
      <3> QED BY <1>7, <1>8, <3>1, <3>2
    <2> QED BY <2>1 DEF SnapshotsTrue, Snapshot
  <1>12. H2 = [H EXCEPT ![k] = H[k] \cup {hash}]
    <2>1. \A j \in Keys : j # k => H2[j] = H[j]
      BY <1>7 DEF HashesOf
    <2>2. \A x : x \in H2[k] <=> x \in H[k] \cup {hash}
      <3>1. \A x : x \in H2[k] <=> \E r \in prefix_index'[k] : x = r.hash
        BY DEF HashesOf
      <3>2. \A x : x \in H[k] <=> \E r \in prefix_index[k] : x = r.hash
        BY DEF HashesOf
      <3> HIDE DEF H, H2
      <3>3. ASSUME NEW x \in H2[k] PROVE x \in H[k] \cup {hash}
        BY <1>6, <1>8, <3>1, <3>2
      <3>4. ASSUME NEW x \in H[k] \cup {hash} PROVE x \in H2[k]
        BY <1>9, <1>10, <3>1, <3>2
      <3> QED BY <3>3, <3>4
    <2>3. H2 = [j \in Keys |-> H2[j]] /\ H = [j \in Keys |-> H[j]]
      BY DEF HashesOf
    <2> HIDE DEF H, H2
    <2>4. H2[k] = H[k] \cup {hash}
      BY <2>2
    <2> QED BY <2>1, <2>3, <2>4
  <1>13. LogicalOf(tables', data', swap') = lg
    BY <1>1 DEF lg
  <1> HIDE DEF H, H2
  <1>14. Logical!Publish(s, k)
    BY <1>1, <1>3, <1>5, <1>11, <1>12, <1>13, MappedState DEF Logical!Publish, lg, H, H2
  <1> QED BY <1>11, <1>14

(* attach_prefix: the sequence starts with a copy of the snapshot. *)
LEMMA AttachRefines ==
    ASSUME CacheInv, NEW s \in SeqIds, NEW k \in Keys, attach_prefix(s, k)
    PROVE  SnapshotsTrue' /\ Logical!Attach(s, k)
  <1> USE DEF CacheInv
  <1> DEFINE lg == LogicalOf(tables, data, swap)
             lg2 == LogicalOf(tables', data', swap')
             H == HashesOf(prefix_index)
             H2 == HashesOf(prefix_index')
  <1>1. PICK rec \in prefix_index[k] :
          /\ prefix_index[k] = {rec}
          /\ tables' = [tables EXCEPT ![s] = [l \in Tables |-> [i \in 1 .. Len(rec.ids[l]) |->
                [frame |-> rec.ids[l][i], slot |-> NoSlot, writable |-> FALSE]]]]
          /\ prefix_index' = [prefix_index EXCEPT ![k] = {Joined(rec)}]
    BY DEF attach_prefix
  <1>2. /\ s \in sequences /\ Len(tables[s][1]) = 0
        /\ data' = data /\ swap' = swap /\ sequences' = sequences
    BY DEF attach_prefix
  <1>3. Structure'
    BY AttachKeeps
  <1>4. /\ tables \in TableMaps /\ Even(tables) /\ TypeOK /\ TablesShaped
        /\ prefix_index \in [Keys -> SUBSET Record] /\ rec \in Record /\ RecordsShaped
    BY TablesFacts DEF Structure, TypeOK
  <1>5. Joined(rec).hash = rec.hash /\ Joined(rec).ids = rec.ids
    BY <1>4 DEF Joined, Record
  <1>6. /\ \A j \in Keys : j # k => prefix_index'[j] = prefix_index[j]
        /\ prefix_index'[k] = {Joined(rec)}
    BY <1>1, <1>4
  <1>7. SnapshotsTrue'
    <2>1. OldRecords(prefix_index, prefix_index')
      BY <1>5, <1>6 DEF OldRecords
    <2>2. PinnedKept
      BY <1>2 DEF PinnedKept
    <2> QED BY <2>1, <2>2, SnapshotsKept
  <1>8. H2 = H /\ H[k] = {rec.hash}
    <2>1. \A j \in Keys : H2[j] = H[j]
      BY <1>1, <1>5, <1>6 DEF HashesOf
    <2>2. H2 = [j \in Keys |-> H2[j]] /\ H = [j \in Keys |-> H[j]]
      BY DEF HashesOf
    <2>3. H[k] = {rec.hash}
      BY <1>1 DEF HashesOf
    <2> HIDE DEF H, H2
    <2> QED BY <2>1, <2>2, <2>3
  <1>9. lg[s] = Logical!Empty
    <2>1. \A l \in Tables : Len(tables[s][l]) = 0
      BY <1>2, <1>4 DEF Even
    <2>2. \A l \in Tables : [i \in 1 .. Len(tables[s][l]) |-> Bytes(tables, data, swap, s, l, i)] = <<>>
      BY <2>1
    <2>3. BlocksOf(tables, data, swap, s) = [l \in Tables |-> <<>>]
      BY <2>2 DEF BlocksOf
    <2> QED BY <2>3 DEF LogicalOf, Logical!Empty
  <1> DEFINE row == [l \in Tables |-> [i \in 1 .. Len(rec.ids[l]) |->
                       [frame |-> rec.ids[l][i], slot |-> NoSlot, writable |-> FALSE]]]
  <1>10. /\ tables'[s] = row /\ \A t \in SeqIds : t # s => tables'[t] = tables[t]
    BY <1>1, <1>4 DEF TableMaps
  <1>11. \A l \in Tables : /\ Len(row[l]) = Len(rec.ids[l])
                           /\ \A i \in 1 .. Len(rec.ids[l]) :
                                 row[l][i].slot = NoSlot /\ row[l][i].frame = rec.ids[l][i]
    <2>1. SUFFICES ASSUME NEW l \in Tables
                   PROVE  /\ Len(row[l]) = Len(rec.ids[l])
                          /\ \A i \in 1 .. Len(rec.ids[l]) :
                                 row[l][i].slot = NoSlot /\ row[l][i].frame = rec.ids[l][i]
      OBVIOUS
    <2>2. Len(rec.ids[l]) \in Nat
      BY <1>4 DEF Record
    <2> DEFINE e(i) == [frame |-> rec.ids[l][i], slot |-> NoSlot, writable |-> FALSE]
               n == Len(rec.ids[l])
               E == {e(i) : i \in 1 .. n}
    <2>3. row[l] = [i \in 1 .. n |-> e(i)]
      OBVIOUS
    <2>4. \A i \in 1 .. n : e(i).slot = NoSlot /\ e(i).frame = rec.ids[l][i]
      OBVIOUS
    <2>5. row[l] \in [1 .. n -> E]
      OBVIOUS
    <2> HIDE DEF row, e, n, E
    <2>6. row[l] \in Seq(E) /\ Len(row[l]) = n
      BY <2>2, <2>5, LenProperties, SeqDef DEF n
    <2> QED BY <2>3, <2>4, <2>6 DEF n
  <1> HIDE DEF row
  <1>12. lg2[s] = rec.hash
    <2>1. BlocksOf(tables', data', swap', s) = Snapshot(data, rec)
      <3>1. ASSUME NEW l \in Tables
            PROVE  /\ Len(tables'[s][l]) = Len(rec.ids[l])
                   /\ \A i \in 1 .. Len(rec.ids[l]) : Bytes(tables', data', swap', s, l, i) = data[rec.ids[l][i]]
        BY <1>2, <1>10, <1>11 DEF Bytes
      <3> QED BY <3>1 DEF BlocksOf, Snapshot
    <2>2. Snapshot(data, rec) = rec.hash
      BY DEF SnapshotsTrue
    <2> QED BY <2>1, <2>2 DEF LogicalOf
  <1>13. OthersSame(s)
    BY <1>2, <1>10 DEF OthersSame, SameBytes, Bytes
  <1>14. lg2 = [lg EXCEPT ![s] = lg2[s]]
    BY <1>13, OneSequence
  <1> HIDE DEF lg, lg2, H, H2
  <1>15. lg2 = [lg EXCEPT ![s] = rec.hash]
    BY <1>12, <1>14
  <1>16. Logical!Attach(s, k)
    BY <1>2, <1>3, <1>7, <1>8, <1>9, <1>15, MappedState DEF Logical!Attach, lg, lg2, H, H2
  <1> QED BY <1>7, <1>16

-----------------------------------------------------------------------------
(* What a step of the manager is to LogicalCache: a step of its own, or none. *)
Seen == Logical!Next \/ UNCHANGED Logical!logicalVars

LEMMA NextRefines ==
    ASSUME CacheInv, [Next]_cacheVars
    PROVE  CacheInv' /\ Seen
  <1>1. Structure' /\ RefCountsExact'
    BY NextKeeps DEF CacheInv
  <1>2. CASE UNCHANGED cacheVars
    <2>1. /\ sequences' = sequences /\ tables' = tables /\ data' = data /\ swap' = swap
          /\ prefix_index' = prefix_index
      BY <1>2 DEF cacheVars
    <2>2. PinnedKept /\ AllSame
      BY <2>1 DEF PinnedKept, AllSame, SameBytes, Bytes
    <2> QED BY <1>1, <2>1, <2>2, HiddenBlocks DEF CacheInv, Seen
  <1>3. ASSUME NEW s \in SeqIds, NEW r \in Requests, create_sequence(s, r)
        PROVE  SnapshotsTrue' /\ Seen
    <2>1. SnapshotsTrue' /\ Logical!Create(s)
      BY <1>3, CreateRefines
    <2> QED BY <2>1 DEF Seen, Logical!Next
  <1>4. ASSUME NEW s \in SeqIds, NEW t \in SeqIds, NEW r \in Requests, fork_sequence(s, t, r)
        PROVE  SnapshotsTrue' /\ Seen
    <2>1. SnapshotsTrue' /\ Logical!Fork(s, t)
      BY <1>4, ForkRefines
    <2> QED BY <2>1 DEF Seen, Logical!Next
  <1>5. ASSUME NEW s \in SeqIds, NEW n \in 1 .. MaxTokens, reserve_tokens(s, n)
        PROVE  SnapshotsTrue' /\ Seen
    <2>1. SnapshotsTrue' /\ Logical!Reserve(s)
      BY <1>5, ReserveRefines
    <2> QED BY <2>1 DEF Seen, Logical!Next
  <1>6. ASSUME NEW s \in SeqIds, NEW pos \in 0 .. MaxTokens - 1, NEW l \in Tables,
               ensure_token_writable(s, pos, l)
        PROVE  SnapshotsTrue' /\ Seen
    BY <1>6, EnsureHidden DEF Seen
  <1>7. ASSUME NEW s \in SeqIds, NEW pos \in 0 .. MaxTokens - 1, NEW l \in Tables,
               NEW v \in Contents, write_token(s, pos, l, v)
        PROVE  SnapshotsTrue' /\ Seen
    <2>1. SnapshotsTrue' /\ Logical!Write(s)
      BY <1>7, WriteRefines
    <2> QED BY <2>1 DEF Seen, Logical!Next
  <1>8. ASSUME NEW q \in Seq(SeqIds), IsInjective(q), Range(q) \subseteq sequences, swap_out(q)
        PROVE  SnapshotsTrue' /\ Seen
    <2>1. Rewritten(tables, tables') /\ HeldKept /\ ContentsKept
      BY <1>8, SwapOutKeeps DEF CacheInv
    <2>2. sequences' = sequences /\ prefix_index' = prefix_index
      BY <1>8 DEF swap_out
    <2> QED BY <1>1, <2>1, <2>2, SwapHidden DEF Seen
  <1>9. ASSUME NEW S \in SUBSET sequences, swap_in(S)
        PROVE  SnapshotsTrue' /\ Seen
    <2>1. Rewritten(tables, tables') /\ HeldKept /\ ContentsKept
      BY <1>9, SwapInKeeps DEF CacheInv
    <2>2. sequences' = sequences /\ prefix_index' = prefix_index
      BY <1>9 DEF swap_in
    <2> QED BY <1>1, <2>1, <2>2, SwapHidden DEF Seen
  <1>10. ASSUME NEW S \in SUBSET sequences, release(S)
         PROVE  SnapshotsTrue' /\ Seen
    <2>1. SnapshotsTrue' /\ Logical!Release(S)
      BY <1>10, ReleaseRefines
    <2> QED BY <2>1 DEF Seen, Logical!Next
  <1>11. ASSUME NEW s \in SeqIds, swap_out_sequence(s)
         PROVE  SnapshotsTrue' /\ Seen
    <2> DEFINE q == <<s>>
    <2>1. q \in Seq(SeqIds) /\ IsInjective(q) /\ Range(q) = {s}
      BY DEF IsInjective, Range
    <2>2. s \in sequences /\ swap_out(q)
      BY <1>11 DEF swap_out_sequence
    <2> HIDE DEF q
    <2>3. Range(q) \subseteq sequences
      BY <2>1, <2>2
    <2> QED BY <1>8, <2>1, <2>2, <2>3
  <1>12. ASSUME NEW s \in SeqIds, swap_in_sequence(s)
         PROVE  SnapshotsTrue' /\ Seen
    <2> DEFINE O == {s}
    <2>1. O \in SUBSET sequences /\ swap_in(O)
      BY <1>12 DEF swap_in_sequence
    <2> HIDE DEF O
    <2> QED BY <1>9, <2>1
  <1>13. ASSUME NEW s \in SeqIds, release_sequence(s)
         PROVE  SnapshotsTrue' /\ Seen
    <2> DEFINE O == {s}
    <2>1. O \in SUBSET sequences /\ release(O)
      BY <1>13 DEF release_sequence
    <2> HIDE DEF O
    <2> QED BY <1>10, <2>1
  <1>14. ASSUME NEW r \in Requests, swap_out_request(r)
         PROVE  SnapshotsTrue' /\ Seen
    <2> DEFINE q == sequences_by_request[r]
    <2>1. q \in Seq(SeqIds) /\ IsInjective(q) /\ Range(q) \subseteq sequences
      BY ListedSequences DEF CacheInv
    <2>2. swap_out(q)
      BY <1>14 DEF swap_out_request
    <2> HIDE DEF q
    <2> QED BY <1>8, <2>1, <2>2
  <1>15. ASSUME NEW r \in Requests, swap_in_request(r)
         PROVE  SnapshotsTrue' /\ Seen
    <2> DEFINE S == SequencesFor(r)
    <2>1. S \in SUBSET sequences /\ swap_in(S)
      BY <1>15, ListedSequences DEF swap_in_request, CacheInv
    <2> HIDE DEF S
    <2> QED BY <1>9, <2>1
  <1>16. ASSUME NEW r \in Requests, release_request(r)
         PROVE  SnapshotsTrue' /\ Seen
    <2> DEFINE S == SequencesFor(r)
    <2>1. S \in SUBSET sequences /\ release(S)
      BY <1>16, ListedSequences DEF release_request, CacheInv
    <2> HIDE DEF S
    <2> QED BY <1>10, <2>1
  <1>17. ASSUME NEW s \in SeqIds, NEW k \in Keys, publish_prefix(s, k)
         PROVE  SnapshotsTrue' /\ Seen
    <2>1. SnapshotsTrue' /\ Logical!Publish(s, k)
      BY <1>17, PublishRefines
    <2> QED BY <2>1 DEF Seen, Logical!Next
  <1>18. ASSUME NEW s \in SeqIds, NEW k \in Keys, attach_prefix(s, k)
         PROVE  SnapshotsTrue' /\ Seen
    <2>1. SnapshotsTrue' /\ Logical!Attach(s, k)
      BY <1>18, AttachRefines
    <2> QED BY <2>1 DEF Seen, Logical!Next
  <1>19. CASE Next
    <2>1. SnapshotsTrue' /\ Seen
      BY ONLY <1>3, <1>4, <1>5, <1>6, <1>7, <1>11, <1>12, <1>13, <1>14, <1>15, <1>16, <1>17, <1>18, <1>19
         DEF Next
    <2> QED BY <1>1, <2>1 DEF CacheInv
  <1> QED BY <1>2, <1>19

LEMMA InitRefines ==
    ASSUME Init
    PROVE  CacheInv /\ Logical!Init
  <1>1. Structure /\ RefCountsExact
    BY InitStructure
  <1>2. /\ sequences = {} /\ tables = [s \in SeqIds |-> NoTables]
        /\ prefix_index = [k \in Keys |-> {}]
    BY DEF Init
  <1>3. SnapshotsTrue
    BY <1>2 DEF SnapshotsTrue
  <1>4. \A s \in SeqIds : BlocksOf(tables, data, swap, s) = [l \in Tables |-> <<>>]
    <2>1. SUFFICES ASSUME NEW s \in SeqIds PROVE BlocksOf(tables, data, swap, s) = [l \in Tables |-> <<>>]
      OBVIOUS
    <2>2. \A l \in Tables : tables[s][l] = <<>> /\ Len(tables[s][l]) = 0
      BY <1>2 DEF NoTables
    <2>3. \A l \in Tables : [i \in 1 .. Len(tables[s][l]) |-> Bytes(tables, data, swap, s, l, i)] = <<>>
      BY <2>2
    <2> QED BY <2>3 DEF BlocksOf
  <1>5. LogicalOf(tables, data, swap) = [s \in SeqIds |-> [l \in Tables |-> <<>>]]
    BY <1>4 DEF LogicalOf
  <1>6. HashesOf(prefix_index) = [k \in Keys |-> {}]
    BY <1>2 DEF HashesOf
  <1>7. TypeOK /\ TablesShaped
    BY <1>1 DEF Structure
  <1>8. Logical!Init
    BY ONLY <1>2, <1>3, <1>5, <1>6, <1>7, MappingNow DEF Logical!Init, Logical!Empty
  <1> QED BY <1>1, <1>3, <1>8 DEF CacheInv

(* A published prefix keeps the contents it was published with: while a       *)
(* record is indexed, no write, eviction or copy-on-write reaches its frames. *)
THEOREM SnapshotsHold ==
    Spec => []SnapshotsTrue
  <1>1. Init => CacheInv
    BY InitRefines
  <1>2. CacheInv /\ [Next]_cacheVars => CacheInv'
    BY NextRefines
  <1>3. CacheInv => SnapshotsTrue
    BY DEF CacheInv
  <1> QED BY <1>1, <1>2, <1>3, PTL DEF Spec

(* The cache manager implements LogicalCache: whatever frames are shared,     *)
(* copied on write, evicted or restored, every sequence reads a private array *)
(* of blocks that only its own operations change.                             *)
THEOREM SharingInvisible ==
    Spec => ImplementsLogical
  <1>1. Init => CacheInv /\ Logical!Init
    BY InitRefines
  <1>2. CacheInv /\ [Next]_cacheVars => CacheInv' /\ [Logical!Next]_(Logical!logicalVars)
    BY NextRefines DEF Seen
  <1> QED BY <1>1, <1>2, PTL DEF Spec, ImplementsLogical, Logical!Spec
=============================================================================
