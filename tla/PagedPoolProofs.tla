--------------------------- MODULE PagedPoolProofs ---------------------------
(***************************************************************************)
(* Proofs about the Python pool, for any number of frames, caches, layers  *)
(* and tokens, and every order of forward passes, forks and resets.        *)
(*                                                                         *)
(* PoolShape says where a pass stands and what the pool remembers of the   *)
(* manager's tables: a remembered table agrees with the manager's as far   *)
(* as it goes, a remembered length is exact outside ensure_capacity().  It *)
(* is inductive for any use of reset() and gives the type theorem.         *)
(*                                                                         *)
(* The other two parts need that no cache is reset once forks exist, and   *)
(* no reset cache forked.                                                  *)
(* Exclusiveness: a remembered frame is still the token's own, or the      *)
(* token is behind every position that will be written.  A fork shares     *)
(* the frames of tokens below the length only; a reset of a forked cache   *)
(* would bring such a token back ahead, and the stale entry with it, and a *)
(* fork of a reset cache would share frames of tokens still ahead.         *)
(* TokensTrue: the rows in the frames are the values stored, and those a   *)
(* pass has stored so far.  A store writes rows past them, in a frame that *)
(* by Exclusiveness and the reference counts no other entry names.         *)
(***************************************************************************)
EXTENDS PagedPool, PagedAttentionProofs

(* The block of a token, counted from 1, and the frame the table gives it. *)
BlockOf(t) == t \div TokensPerBlock + 1
FrameOf(s, i) == tables[s][1][i].frame

Running == [pc : {"grow", "resolve", "store", "read"}, seq : SeqIds, layer : Layers, start : Nat, end : Nat,
            pos : Nat, have : Nat, frame : SUBSET Frames, value : Values]
Busy(s) == call # NoCall /\ call.seq = s
Done(l) == l < call.layer \/ (l = call.layer /\ call.pc = "read")

(* Where a forward pass stands. *)
CallShaped ==
    call # NoCall =>
        /\ call \in Running
        /\ call.seq \in sequences
        /\ call.start < call.end /\ call.end <= MaxTokens
        /\ call.start <= call.pos
        /\ call.pc = "grow" => call.pos = call.start /\ call.have = Len(tables[call.seq][1])
        /\ call.pc # "grow" => blocks_for(call.end) <= Len(tables[call.seq][1])
        /\ call.pc \in {"resolve", "store"} => call.pos < call.end
        /\ call.pc = "read" => call.pos = call.end
        /\ call.pc = "store" => \E f \in Frames : call.frame = {f}

(* The layers of a cache have the same length, except that a forward pass has *)
(* moved those it is done with; the table covers them.                        *)
LengthsEven ==
    /\ length \in [SeqIds -> [Layers -> Nat]]
    /\ \A s \in SeqIds, l \in Layers :
          /\ length[s][l] = IF Busy(s) THEN IF Done(l) THEN call.end ELSE call.start ELSE length[s][0]
          /\ blocks_for(length[s][l]) <= Len(tables[s][1])

(* What the pool remembers of a block table is true of it. *)
LensTrue ==
    /\ table_len \in [SeqIds -> SUBSET Nat]
    /\ \A s \in SeqIds :
          table_len[s] = {} \/ table_len[s] = {Len(tables[s][1])} \/ (Busy(s) /\ call.pc = "grow")
Remembers(s, host) ==
    /\ host \in Seq(Frames)
    /\ Len(host) <= Len(tables[s][1])
    /\ \A i \in 1 .. Len(host) : host[i] = FrameOf(s, i)
HostsTrue ==
    /\ host_frames \in [SeqIds -> SUBSET Seq(Frames)]
    /\ \A s \in SeqIds : host_frames[s] = {} \/ \E host \in host_frames[s] : host_frames[s] = {host} /\ Remembers(s, host)
Unborn ==
    \A s \in SeqIds : s \notin sequences => host_frames[s] = {} /\ table_len[s] = {}

WritableShaped ==
    writable \subseteq [seq : SeqIds, token : Nat, frame : Frames]

WrittenShaped ==
    /\ written \in [SeqIds -> [Layers -> Seq(Values)]]
    /\ \A s \in SeqIds, l \in Layers : Len(written[s][l]) = length[s][l]

PoolShape ==
    /\ Structure /\ RefCountsExact
    /\ CallShaped /\ LengthsEven /\ LensTrue /\ HostsTrue /\ Unborn /\ WritableShaped /\ WrittenShaped

(* The frame is the token's, and nobody else has it. *)
Owned(s, t, f) ==
    /\ BlockOf(t) \in 1 .. Len(tables[s][1])
    /\ FrameOf(s, BlockOf(t)) = f
    /\ ref_count[f] = 1
(* The token is behind every position a forward pass will write. *)
Behind(s, t) == t < IF Busy(s) THEN call.start ELSE length[s][0]
Starting == call.layer = 0 /\ call.start = 0 /\ call.pos = 0 /\ call.pc \in {"grow", "resolve"}

WritableTrue ==
    \A w \in writable :
        /\ w.seq \in sequences
        /\ Owned(w.seq, w.token, w.frame) \/ (Behind(w.seq, w.token) /\ sequences # {w.seq})
        /\ IF Busy(w.seq) THEN w.token < call.end \/ Starting
           ELSE w.token < length[w.seq][0] \/ length[w.seq][0] = 0
StoreOwned ==
    call.pc = "store" => \A f \in call.frame : Owned(call.seq, call.pos, f)
OneRemembered == \A w, x \in writable : w = x
Exclusiveness == WritableTrue /\ OneRemembered /\ StoreOwned

Token(s, l, t) == data[FrameOf(s, BlockOf(t))][l][t % TokensPerBlock]
TokensStored ==
    \A s \in sequences, l \in Layers : \A t \in 0 .. length[s][l] - 1 : Token(s, l, t) = written[s][l][t + 1]
TokensStoring ==
    call.pc \in {"resolve", "store"} =>
        \A t \in call.start .. call.pos - 1 : Token(call.seq, call.layer, t) = call.value
TokensTrue == TokensStored /\ TokensStoring

-----------------------------------------------------------------------------
(* The pool's configuration: one table per sequence, no slots, no prefixes. *)
LEMMA PoolFacts ==
    /\ Tables = {1} /\ 1 \in Tables /\ Slots = {} /\ Keys = {} /\ Requests = SeqIds /\ Root \in SeqIds
    /\ TokensPerBlock \in Nat /\ TokensPerBlock > 0 /\ MaxTokens \in Nat
    /\ Shape.num_layers \in Nat /\ 0 \in Layers /\ Layers \subseteq Nat
    /\ Contents = [Layers -> [0 .. TokensPerBlock - 1 -> Values \cup {Zero}]]
  <1>1. Tables = {1}
    <2>1. ~per_layer_frames(Shape)
      BY PoolConfig, ShapeFacts DEF per_layer_frames, frame_layers
    <2>2. NumTables = 1
      BY <2>1, ShapeConfig
    <2> QED BY <2>2 DEF Tables
  <1>2. Shape.num_layers \in Nat
    BY ShapeFacts
  <1>3. ASSUME Shape.num_layers = 0 PROVE FALSE
    <2>1. frame_layers(Shape) = 0
      BY <1>3, PoolConfig DEF frame_layers
    <2> DEFINE n == layer_stride(Shape)
    <2>2. n \in Nat
      BY ShapeFacts, ItemsApart DEF layer_stride, kKVStreamCount, stream_stride, token_stride, head_stride
    <2> HIDE DEF n
    <2>3. 0 * n = 0
      BY <2>2
    <2> QED BY <2>1, <2>3, ShapeConfig DEF element_count, n
  <1> QED BY <1>1, <1>2, <1>3, ConfigFacts, PoolConfig DEF Layers

(* Every entry of a table is resident. *)
LEMMA EntryFacts ==
    ASSUME Structure, NEW s \in SeqIds
    PROVE  /\ tables[s][1] \in Seq(Entry) /\ Len(tables[s][1]) \in Nat
           /\ \A i \in 1 .. Len(tables[s][1]) :
                 /\ tables[s][1][i] \in Entry /\ tables[s][1][i].slot = NoSlot
                 /\ FrameOf(s, i) \in Frames
  <1>1. tables[s][1] \in Seq(Entry) /\ Len(tables[s][1]) \in Nat
    BY PoolFacts, TablesFacts DEF Structure
  <1>2. ASSUME NEW i \in 1 .. Len(tables[s][1])
        PROVE  tables[s][1][i] \in Entry /\ tables[s][1][i].slot = NoSlot /\ FrameOf(s, i) \in Frames
    <2>1. tables[s][1][i] \in Entry
      BY <1>1
    <2> QED BY <2>1, PoolFacts DEF Entry, FrameOf
  <1> QED BY <1>1, <1>2

(* blocks_for: the blocks of the tokens below n. *)
LEMMA BlockNumbers ==
    ASSUME NEW n \in Nat
    PROVE  /\ blocks_for(n) \in Nat
           /\ \A t \in Nat : t < n => BlockOf(t) \in 1 .. blocks_for(n)
           /\ blocks_for(0) = 0 /\ blocks_for(1) = 1 /\ blocks_for(TokensPerBlock) = 1
           /\ blocks_for(n) * TokensPerBlock \in Nat
           /\ blocks_for(blocks_for(n) * TokensPerBlock) = blocks_for(n)
           /\ n <= blocks_for(n) * TokensPerBlock
  <1> DEFINE T == TokensPerBlock
             m == n + T - 1
             q == m \div T
  <1>1. T \in Nat /\ T > 0 /\ m \in Nat /\ blocks_for(n) = q
    BY PoolFacts DEF blocks_for
  <1>2. q \in Nat /\ m % T \in Nat /\ m % T < T /\ m = q * T + (m % T)
    <2> HIDE DEF m, T
    <2> QED BY <1>1, Division
  <1>3. q * T \in Nat
    <2> HIDE DEF q, T
    <2> QED BY <1>1, <1>2, ItemsApart
  <1>4. n <= q * T
    <2> DEFINE r == m % T
               p == q * T
    <2>1. r \in Nat /\ r < T /\ n + T - 1 = p + r /\ p \in Nat
      BY <1>2, <1>3
    <2> HIDE DEF r, p, T
    <2>2. n <= p
      BY <1>1, <2>1
    <2> QED BY <2>2 DEF p
  <1>5. ASSUME NEW t \in Nat, t < n PROVE BlockOf(t) \in 1 .. q
    <2>1. t \div T \in Nat /\ t = (t \div T) * T + (t % T) /\ t % T \in Nat
      BY <1>1, Division
    <2> DEFINE b == t \div T
    <2> HIDE DEF T, q, m, b
    <2>2. b \in Nat /\ t = b * T + (t % T) /\ t % T \in Nat
      BY <2>1 DEF b
    <2>3. b * T <= t
      <3>1. b * T \in Nat
        BY <1>1, <2>2, ItemsApart
      <3> QED BY <2>2, <3>1
    <2>4. b * T < q * T
      <3>1. b * T \in Nat
        BY <1>1, <2>2, ItemsApart
      <3> QED BY <2>3, <3>1, <1>3, <1>4, <1>5
    <2>5. ASSUME q <= b PROVE FALSE
      <3>1. b \in Nat /\ q \in Nat
        BY <1>2, <2>2
      <3>2. q * T <= b * T
        BY <3>1, <2>5, <1>1
      <3>3. b * T \in Nat
        BY <1>1, <2>2, ItemsApart
      <3> QED BY <3>2, <3>3, <2>4, <1>3
    <2>6. b + 1 \in 1 .. q
      BY <2>2, <2>5, <1>2
    <2> QED BY <2>6 DEF BlockOf, b, T
  <1>6. ASSUME NEW k \in Nat PROVE blocks_for(k * T) = k
    <2>1. k * T \in Nat
      BY <1>1, ItemsApart
    <2>2. T - 1 \in Nat /\ T - 1 < T /\ k * T + T - 1 = k * T + (T - 1)
      BY <1>1, <2>1
    <2>3. (k * T + (T - 1)) \div T = k
      <3> HIDE DEF T
      <3> QED BY <1>1, <2>2, DivisionOf
    <2> QED BY <2>2, <2>3 DEF blocks_for
  <1>7. blocks_for(0) = 0 /\ blocks_for(T) = 1
    <2>1. 0 * T = 0 /\ 1 * T = T
      BY <1>1
    <2> QED BY <1>6, <2>1
  <1>8. blocks_for(1) = 1
    <2>1. 1 * T + 0 = 1 + T - 1 /\ 0 < T
      BY <1>1
    <2>2. (1 * T + 0) \div T = 1
      <3> HIDE DEF T
      <3> QED BY <1>1, <2>1, DivisionOf
    <2> QED BY <2>1, <2>2 DEF blocks_for
  <1>9. blocks_for(q * T) = q
    BY <1>2, <1>6
  <1> HIDE DEF q
  <1> QED BY <1>1, <1>2, <1>3, <1>4, <1>5, <1>7, <1>8, <1>9

-----------------------------------------------------------------------------
(* What the calls into the manager do, seen from the pool. *)

(* reserve_tokens(s, tokens_per_block): one more block, from a free frame. *)
LEMMA GrowDoes ==
    ASSUME Structure, RefCountsExact, NEW s \in SeqIds, MaxTokens > 0, reserve_tokens(s, TokensPerBlock)
    PROVE  /\ Structure' /\ RefCountsExact' /\ data' = data /\ sequences' = sequences
           /\ Len(tables'[s][1]) = Len(tables[s][1]) + 1
           /\ \A t \in SeqIds : t # s => tables'[t] = tables[t]
           /\ \A i \in 1 .. Len(tables[s][1]) : tables'[s][1][i] = tables[s][1][i]
           /\ \A f \in Frames : ref_count[f] # 0 => ref_count'[f] = ref_count[f]
  <1>1. blocks_for(TokensPerBlock) = 1 /\ blocks_for(1) = 1 /\ 1 \in 1 .. MaxTokens
    BY PoolFacts, BlockNumbers
  <1>2. reserve_tokens(s, 1)
    <2>1. blocks_for(1) = blocks_for(TokensPerBlock) /\ 1 > 0
      BY <1>1
    <2> QED BY <2>1, Zenon DEF reserve_tokens, CanReserve
  <1>3. Structure' /\ RefCountsExact'
    BY <1>1, <1>2, ReserveKeeps
  <1>4. PICK g \in Injection(Tables \X (1 .. 1), FreeFrames(ref_count)) :
          /\ tables' = [tables EXCEPT ![s] = [l \in Tables |->
                Appended(tables[s][l], [i \in 1 .. 1 |-> g[<<l, i>>]])]]
          /\ ref_count' = AllocateEach(ref_count, Range(g))
    BY <1>1, <1>2 DEF reserve_tokens
  <1>5. data' = data /\ sequences' = sequences
    BY DEF reserve_tokens
  <1>6. g \in [Tables \X (1 .. 1) -> FreeFrames(ref_count)]
    BY DEF Injection
  <1>7. tables \in TableMaps /\ tables[s][1] \in Seq(Entry)
    BY PoolFacts, TablesFacts DEF Structure
  <1>8. /\ tables'[s][1] = Appended(tables[s][1], [i \in 1 .. 1 |-> g[<<1, i>>]])
        /\ \A t \in SeqIds : t # s => tables'[t] = tables[t]
    BY <1>4, <1>7, PoolFacts DEF TableMaps
  <1>9. /\ Len(tables'[s][1]) = Len(tables[s][1]) + 1
        /\ \A i \in 1 .. Len(tables[s][1]) : tables'[s][1][i] = tables[s][1][i]
    <2> DEFINE fr == [i \in 1 .. 1 |-> g[<<1, i>>]]
    <2>1. fr \in [1 .. 1 -> Frames]
      BY <1>6, PoolFacts DEF FreeFrames
    <2> HIDE DEF fr
    <2>2. /\ Len(Appended(tables[s][1], fr)) = Len(tables[s][1]) + 1
          /\ \A i \in 1 .. Len(tables[s][1]) : Appended(tables[s][1], fr)[i] = tables[s][1][i]
      BY <2>1, <1>7, AppendedTable
    <2> QED BY <2>2, <1>8 DEF fr
  <1>10. ASSUME NEW f \in Frames, ref_count[f] # 0 PROVE ref_count'[f] = ref_count[f]
    <2>1. f \notin Range(g)
      BY <1>6, <1>10 DEF Range, FreeFrames
    <2> QED BY <2>1, <1>4 DEF AllocateEach
  <1> QED BY <1>3, <1>5, <1>8, <1>9, <1>10

(* fork_sequence: the child names the parent's frames, whose counts grow. *)
LEMMA ForkDoes ==
    ASSUME Structure, RefCountsExact, NEW parent \in SeqIds, NEW child \in SeqIds,
           fork_sequence(parent, child, child)
    PROVE  /\ Structure' /\ RefCountsExact' /\ data' = data
           /\ parent \in sequences /\ child \notin sequences /\ sequences' = sequences \cup {child}
           /\ \A t \in SeqIds : t # child => tables'[t] = tables[t]
           /\ Len(tables'[child][1]) = Len(tables[parent][1])
           /\ \A i \in 1 .. Len(tables[parent][1]) : FrameOf(child, i)' = FrameOf(parent, i)
           /\ \A f \in Frames : (\A i \in 1 .. Len(tables[parent][1]) : FrameOf(parent, i) # f)
                                    => ref_count'[f] = ref_count[f]
  <1>1. Structure' /\ RefCountsExact'
    BY PoolFacts, ForkKeeps
  <1>2. /\ parent \in sequences /\ child \notin sequences /\ sequences' = sequences \cup {child} /\ data' = data
        /\ tables' = [tables EXCEPT ![child] = [l \in Tables |-> Forked(tables[parent][l])]]
        /\ ref_count' = RetainEach(ref_count, EntryCount({parent}))
    BY DEF fork_sequence, Index, ForkRetains
  <1>3. tables \in TableMaps /\ tables[parent][1] \in Seq(Entry) /\ Even(tables)
    BY PoolFacts, TablesFacts DEF Structure
  <1>4. tables'[child][1] = Forked(tables[parent][1]) /\ \A t \in SeqIds : t # child => tables'[t] = tables[t]
    BY <1>2, <1>3, PoolFacts DEF TableMaps
  <1>5. /\ Len(tables'[child][1]) = Len(tables[parent][1])
        /\ \A i \in 1 .. Len(tables[parent][1]) : FrameOf(child, i)' = FrameOf(parent, i)
    BY <1>3, <1>4, ForkedTable DEF FrameOf
  <1>6. ASSUME NEW f \in Frames, \A i \in 1 .. Len(tables[parent][1]) : FrameOf(parent, i) # f
        PROVE  ref_count'[f] = ref_count[f]
    <2>1. EntriesOn({parent}, f) = {}
      <3>1. SUFFICES ASSUME NEW p \in EntriesIn(tables, {parent}, f) PROVE FALSE
        BY Bridges
      <3>2. /\ p \in MappedIn(tables, {parent}) /\ EntryAt(tables, p).frame = f
        BY DEF EntriesIn
      <3>3. p[1] = parent /\ p[2][1] = 1 /\ p[2][2] \in 1 .. Len(tables[parent][1])
        BY <3>2, <1>3, PoolFacts, MappedCells
      <3> QED BY <3>2, <3>3, <1>6 DEF EntryAt, FrameOf
    <2>2. EntryCount({parent})[f] = 0
      BY <2>1, FS_EmptySet DEF EntryCount
    <2>3. ref_count[f] \in Nat
      BY DEF Structure, TypeOK
    <2> QED BY <1>2, <2>2, <2>3 DEF RetainEach
  <1> QED BY <1>1, <1>2, <1>4, <1>5, <1>6

(* ensure_token_writable: the token's frame is exclusive, the bytes are kept. *)
LEMMA WriteDoes ==
    ASSUME Structure, RefCountsExact, NEW s \in SeqIds, NEW pos \in 0 .. MaxTokens - 1,
           ensure_token_writable(s, pos, 1)
    PROVE  /\ Structure' /\ RefCountsExact' /\ sequences' = sequences
           /\ \A t \in SeqIds : Len(tables'[t][1]) = Len(tables[t][1])
           /\ BlockOf(pos) \in 1 .. Len(tables[s][1])
           /\ ref_count'[FrameOf(s, BlockOf(pos))'] = 1
           /\ \A t \in SeqIds : \A i \in 1 .. Len(tables[t][1]) :
                 /\ data'[FrameOf(t, i)'] = data[FrameOf(t, i)]
                 /\ t # s \/ i # BlockOf(pos) => FrameOf(t, i)' = FrameOf(t, i)
  <1> DEFINE c == CellOf(pos, 1)
  <1>1. s \in sequences /\ c \in Resident(s) /\ sequences' = sequences
    BY DEF ensure_token_writable
  <1>2. Structure' /\ RefCountsExact'
    BY PoolFacts, EnsureKeeps
  <1>3. PICK i \in 1 .. Len(tables[s][1]) :
              /\ c[1] = 1 /\ c[2] = i /\ At(s, c) = tables[s][1][i]
              /\ tables[s][1][i] \in Entry /\ tables[s][1][i].slot = NoSlot
    BY <1>1, ResidentCell
  <1>4. i = BlockOf(pos)
    BY <1>3 DEF CellOf, BlockOf
  <1>5. tables \in TableMaps /\ Even(tables) /\ data \in [Frames -> Contents] /\ ref_count \in [Frames -> Nat]
    BY TablesFacts DEF Structure, TypeOK
  <1> DEFINE old == tables[s][1][i].frame
  <1>6. old \in Frames /\ ref_count[old] # 0
    BY <1>3, PoolFacts, EntryHolds
  <1>7. \/ /\ ref_count[old] <= 1
           /\ tables' = [tables EXCEPT ![s][c[1]][c[2]].writable = TRUE]
           /\ UNCHANGED <<ref_count, data>>
        \/ /\ ref_count[old] > 1
           /\ \E copy \in FreeFrames(ref_count) : CopyOnWrite(s, c, copy)
    BY <1>3, <1>5, <1>6 DEF ensure_token_writable, Exclusive
  <1> HIDE DEF c
  <1>8. ASSUME NEW e \in Entry, Replaced(tables, tables', s, 1, i, e), ref_count'[e.frame] = 1,
               data'[e.frame] = data[old], \A f \in Frames : ref_count[f] # 0 => data'[f] = data[f]
        PROVE  /\ \A t \in SeqIds : Len(tables'[t][1]) = Len(tables[t][1])
               /\ ref_count'[FrameOf(s, i)'] = 1
               /\ \A t \in SeqIds : \A j \in 1 .. Len(tables[t][1]) :
                     /\ data'[FrameOf(t, j)'] = data[FrameOf(t, j)]
                     /\ t # s \/ j # i => FrameOf(t, j)' = FrameOf(t, j)
    <2>1. /\ \A t \in SeqIds : Len(tables'[t][1]) = Len(tables[t][1])
          /\ tables'[s][1][i] = e
          /\ \A t \in SeqIds : \A j \in 1 .. Len(tables[t][1]) :
                 <<t, 1, j>> # <<s, 1, i>> => tables'[t][1][j] = tables[t][1][j]
      <3>1. Touched(tables, tables', s, 1, i, e)
        BY <1>5, <1>8, PoolFacts, TouchEntry
      <3> QED BY <3>1, PoolFacts DEF Touched
    <2>2. \A t \in SeqIds : \A j \in 1 .. Len(tables[t][1]) : t # s \/ j # i => FrameOf(t, j)' = FrameOf(t, j)
      BY <2>1 DEF FrameOf
    <2>3. ASSUME NEW t \in SeqIds, NEW j \in 1 .. Len(tables[t][1])
          PROVE  data'[FrameOf(t, j)'] = data[FrameOf(t, j)]
      <3>1. CASE t = s /\ j = i
        BY <3>1, <1>8, <2>1 DEF FrameOf
      <3>2. CASE t # s \/ j # i
        <4>1. FrameOf(t, j) \in Frames /\ ref_count[FrameOf(t, j)] # 0
          <5>1. tables[t][1][j].slot = NoSlot
            BY EntryFacts
          <5> QED BY <5>1, PoolFacts, EntryHolds DEF FrameOf
        <4> QED BY <4>1, <3>2, <2>2, <1>8
      <3> QED BY <3>1, <3>2
    <2>4. ref_count'[FrameOf(s, i)'] = 1
      BY <2>1, <1>8 DEF FrameOf
    <2> QED BY <2>1, <2>2, <2>3, <2>4
  <1>9. \E e \in Entry : /\ Replaced(tables, tables', s, 1, i, e) /\ ref_count'[e.frame] = 1
                         /\ data'[e.frame] = data[old] /\ \A f \in Frames : ref_count[f] # 0 => data'[f] = data[f]
    <2>1. CASE /\ ref_count[old] <= 1
               /\ tables' = [tables EXCEPT ![s][c[1]][c[2]].writable = TRUE]
               /\ UNCHANGED <<ref_count, data>>
      <3> DEFINE e == [tables[s][1][i] EXCEPT !.writable = TRUE]
      <3>1. e \in Entry /\ e.frame = old
        BY <1>3 DEF Entry
      <3>2. Replaced(tables, tables', s, 1, i, e)
        BY <1>3, <2>1 DEF Replaced
      <3>3. ref_count'[old] = 1
        <4>1. ref_count[old] \in Nat /\ ref_count' = ref_count
          BY <1>5, <1>6, <2>1
        <4> HIDE DEF old
        <4> QED BY <4>1, <1>6, <2>1
      <3> HIDE DEF e
      <3> QED BY <2>1, <3>1, <3>2, <3>3
    <2>2. ASSUME ref_count[old] > 1, NEW copy \in FreeFrames(ref_count), CopyOnWrite(s, c, copy)
          PROVE  \E e \in Entry : /\ Replaced(tables, tables', s, 1, i, e) /\ ref_count'[e.frame] = 1
                                  /\ data'[e.frame] = data[old]
                                  /\ \A f \in Frames : ref_count[f] # 0 => data'[f] = data[f]
      <3> DEFINE e == [tables[s][1][i] EXCEPT !.frame = copy, !.writable = TRUE]
      <3>1. copy \in Frames /\ ref_count[copy] = 0 /\ copy # old
        BY <2>2 DEF FreeFrames
      <3>2. e \in Entry /\ e.frame = copy
        BY <1>3, <3>1 DEF Entry
      <3>3. /\ data' = [data EXCEPT ![copy] = data[old]]
            /\ ref_count' = Released(Allocated(ref_count, copy), old)
            /\ tables' = [tables EXCEPT ![s][c[1]][c[2]] = [@ EXCEPT !.frame = copy, !.writable = TRUE]]
        BY <1>3, <2>2 DEF CopyOnWrite, copy_block, CopyRefs
      <3>4. Replaced(tables, tables', s, 1, i, e)
        BY <1>3, <3>3 DEF Replaced
      <3>5. ref_count'[copy] = 1
        BY <1>5, <1>6, <3>1, <3>3 DEF Released, Allocated
      <3>6. data'[copy] = data[old] /\ \A f \in Frames : ref_count[f] # 0 => data'[f] = data[f]
        BY <1>5, <3>1, <3>3
      <3> HIDE DEF e
      <3> QED BY <3>2, <3>4, <3>5, <3>6
    <2> QED BY <1>7, <2>1, <2>2
  <1> HIDE DEF old
  <1> QED BY <1>1, <1>2, <1>4, <1>8, <1>9

-----------------------------------------------------------------------------
(* PoolShape is an invariant, whatever is reset. *)
LEMMA PoolInitShape ==
    ASSUME PoolInit
    PROVE  PoolShape
  <1> USE DEF PoolInit
  <1>1. NoTables \in [Tables -> Seq(Entry)] /\ NoTables \in Block
        /\ \A l \in Tables : NoTables[l] = <<>> /\ Len(NoTables[l]) = 0
    BY DEF NoTables, Block
  <1>2. NoPrefix \in [key : Keys \cup {NoKey}, hash : Block] /\ NoPrefix.key = NoKey
    BY <1>1 DEF NoPrefix
  <1>3. \A s \in SeqIds : tables[s] = NoTables /\ prefix[s] = NoPrefix /\ Len(tables[s][1]) = 0
    BY <1>1, PoolFacts
  <1>4. TypeOK
    <2>1. tables \in [SeqIds -> [Tables -> Seq(Entry)]]
      <3> HIDE DEF NoTables
      <3> QED BY <1>1
    <2>2. prefix \in [SeqIds -> [key : Keys \cup {NoKey}, hash : Block]]
      <3> HIDE DEF NoPrefix
      <3> QED BY <1>2
    <2>3. <<Root>> \in Seq(SeqIds) /\ <<>> \in Seq(SeqIds)
      BY PoolFacts
    <2>4. sequences_by_request \in [Requests -> Seq(SeqIds)]
      BY <2>3
    <2>5. data \in [Frames -> Contents]
      BY PoolFacts
    <2>6. prefix_index \in [Keys -> SUBSET Record] /\ swap \in [Slots -> Contents \cup {NoContent}]
      OBVIOUS
    <2>7. sequences \subseteq SeqIds /\ request_of \in [SeqIds -> Requests \cup {NoRequest}] /\ ref_count \in [Frames -> Nat]
      BY PoolFacts
    <2> QED BY ONLY <2>1, <2>2, <2>4, <2>5, <2>6, <2>7 DEF TypeOK
  <1>5. TablesShaped
    <2>1. \A s \in SeqIds : s \in sequences => request_of[s] \in Requests
      BY PoolFacts
    <2> HIDE DEF NoTables, NoPrefix, PoolInit
    <2> QED BY <1>1, <1>2, <1>3, <2>1, ConfigFacts, SMTT(40) DEF TablesShaped
  <1>6. Records(prefix_index) = {}
    BY PoolFacts DEF Records
  <1>7. RecordsShaped
    BY <1>6, PoolFacts, FS_EmptySet DEF RecordsShaped, IndexShaped
  <1>8. RequestsListed
    <2>1. ASSUME NEW r \in Requests
          PROVE  /\ IsInjective(sequences_by_request[r])
                 /\ SequencesFor(r) = {s \in sequences : request_of[s] = r}
      <3>1. CASE r = Root
        <4>1. sequences_by_request[r] = <<Root>> /\ sequences = {Root} /\ request_of[Root] = Root
          BY <3>1, PoolFacts
        <4>2. IsInjective(<<Root>>) /\ Range(<<Root>>) = {Root}
          BY DEF IsInjective, Range
        <4> QED BY <3>1, <4>1, <4>2 DEF SequencesFor
      <3>2. CASE r # Root
        <4>1. sequences_by_request[r] = <<>> /\ sequences = {Root} /\ request_of[Root] = Root
          BY <3>2, PoolFacts
        <4>2. IsInjective(<<>>) /\ Range(<<>>) = {}
          BY DEF IsInjective, Range
        <4> QED BY <3>2, <4>1, <4>2 DEF SequencesFor
      <3> QED BY <3>1, <3>2
    <2> QED BY <2>1 DEF RequestsListed
  <1>9. MappedIn(tables, sequences) = {}
    <2>1. SUFFICES ASSUME NEW p \in MappedIn(tables, sequences) PROVE FALSE
      OBVIOUS
    <2>2. /\ p[2][2] \in 1 .. MaxBlocks /\ p[2][1] = 1 /\ p[1] \in SeqIds
          /\ p[2][2] <= Len(tables[p[1]][p[2][1]])
      BY PoolFacts DEF MappedIn, Cells
    <2>3. p[2][2] <= 0
      BY ONLY <2>2, <1>3
    <2> QED BY ONLY <2>2, <2>3, ConfigFacts, SMTT(30)
  <1>10. AbsentIn(tables, sequences) = {} /\ \A f : EntriesIn(tables, sequences, f) = {}
    BY <1>9 DEF AbsentIn, EntriesIn
  <1>11. SlotsHeld
    <2>1. Absentees(sequences) = {}
      BY <1>10, Bridges
    <2> QED BY <2>1, PoolFacts DEF SlotsHeld
  <1>12. RefCountsExact
    <2>1. ASSUME NEW f \in Frames
          PROVE  ref_count[f] = Cardinality(EntriesIn(tables, sequences, f))
                             + Cardinality(PinsOn(Records(prefix_index), f))
      <3>1. PinsOn(Records(prefix_index), f) = {}
        BY <1>6 DEF PinsOn
      <3>2. Cardinality({}) = 0
        BY FS_EmptySet
      <3>3. /\ Cardinality(EntriesIn(tables, sequences, f)) = 0
            /\ Cardinality(PinsOn(Records(prefix_index), f)) = 0
        BY <1>10, <3>1, <3>2, Zenon
      <3>4. ref_count[f] = 0
        OBVIOUS
      <3> QED BY ONLY <3>3, <3>4
    <2> QED BY <2>1, CountsBridge
  <1>13. CallShaped /\ LensTrue /\ HostsTrue /\ Unborn /\ WritableShaped
    BY DEF CallShaped, LensTrue, HostsTrue, Unborn, WritableShaped
  <1>14. LengthsEven /\ WrittenShaped
    <2>1. \A s \in SeqIds, l \in Layers : length[s][l] = 0 /\ written[s][l] = <<>>
      OBVIOUS
    <2>2. ~Busy(Root) /\ \A s \in SeqIds : ~Busy(s)
      BY DEF Busy
    <2>3. length \in [SeqIds -> [Layers -> Nat]] /\ written \in [SeqIds -> [Layers -> Seq(Values)]]
      OBVIOUS
    <2>4. blocks_for(0) = 0
      BY BlockNumbers
    <2> QED BY <2>1, <2>2, <2>3, <2>4, <1>3, PoolFacts DEF LengthsEven, WrittenShaped
  <1> QED BY <1>4, <1>5, <1>7, <1>8, <1>11, <1>12, <1>13, <1>14 DEF PoolShape, Structure

(* Where a layer's update() starts. *)
LEMMA EnteringIs ==
    ASSUME PoolShape, NEW s \in sequences, NEW l \in Layers, NEW end \in Nat, NEW v \in Values,
           ~(Busy(s) /\ call.pc = "grow"), NEW c, c = Entering(s, l, end, v)
    PROVE  /\ c \in Running /\ c # NoCall /\ c.pc = "grow" /\ c.seq = s /\ c.layer = l /\ c.end = end
           /\ c.value = v /\ c.start = length[s][l] /\ c.pos = length[s][l] /\ c.have = Len(tables[s][1])
  <1>1. s \in SeqIds /\ length[s][l] \in Nat
    BY DEF PoolShape, Structure, TypeOK, LengthsEven
  <1>2. Len(block_table(s)) = Len(tables[s][1]) /\ Len(tables[s][1]) \in Nat
    <2>1. Len(tables[s][1]) \in Nat
      BY <1>1, EntryFacts DEF PoolShape
    <2>2. block_table(s) = [i \in 1 .. Len(tables[s][1]) |-> tables[s][1][i].frame]
      BY PoolFacts DEF block_table, Ids
    <2> QED BY <2>1, <2>2
  <1> DEFINE have == IF table_len[s] = {} THEN Len(block_table(s)) ELSE TheOnly(table_len[s])
  <1>3. have = Len(tables[s][1])
    <2>1. table_len[s] = {} \/ table_len[s] = {Len(tables[s][1])}
      BY <1>1 DEF PoolShape, LensTrue
    <2>2. table_len[s] = {Len(tables[s][1])} => TheOnly(table_len[s]) = Len(tables[s][1])
      BY DEF TheOnly
    <2> QED BY <1>2, <2>1, <2>2
  <1>4. c = [pc |-> "grow", seq |-> s, layer |-> l, start |-> length[s][l], end |-> end, pos |-> length[s][l],
             have |-> have, frame |-> {}, value |-> v]
    BY DEF Entering
  <1> HIDE DEF have
  <1>5. c.pc # NoCall.pc
    BY <1>4 DEF NoCall
  <1> QED BY <1>1, <1>2, <1>3, <1>4, <1>5 DEF Running

(* A step that leaves the cache and the tables alone. *)
LEMMA QuietShape ==
    ASSUME PoolShape, UNCHANGED cacheVars
    PROVE  Structure' /\ RefCountsExact' /\ tables' = tables /\ sequences' = sequences
  <1>1. Structure' /\ RefCountsExact'
    BY StutterKeeps DEF PoolShape
  <1> QED BY <1>1 DEF cacheVars

LEMMA ForwardShape ==
    ASSUME PoolShape, NEW s \in SeqIds, NEW n \in 1 .. MaxTokens, NEW v \in Values, forward(s, n, v)
    PROVE  PoolShape'
  <1>1. /\ call = NoCall /\ s \in sequences /\ length[s][0] + n <= MaxTokens
        /\ call' = Entering(s, 0, length[s][0] + n, v) /\ UNCHANGED cacheVars
        /\ host_frames' = host_frames /\ table_len' = table_len /\ writable' = writable
        /\ length' = length /\ written' = written
    BY DEF forward
  <1>2. Structure' /\ RefCountsExact' /\ tables' = tables /\ sequences' = sequences
    BY <1>1, QuietShape
  <1>3. 0 \in Layers /\ length[s][0] \in Nat /\ n \in Nat /\ n > 0
    BY PoolFacts DEF PoolShape, LengthsEven
  <1> DEFINE c == call'
  <1>4. /\ c \in Running /\ c # NoCall /\ c.pc = "grow" /\ c.seq = s /\ c.layer = 0 /\ c.end = length[s][0] + n
        /\ c.start = length[s][0] /\ c.pos = length[s][0] /\ c.have = Len(tables[s][1])
    <2>1. length[s][0] + n \in Nat
      BY <1>3
    <2>2. ~(Busy(s) /\ call.pc = "grow")
      BY <1>1 DEF Busy
    <2> QED BY <1>1, <1>3, <2>1, <2>2, EnteringIs
  <1>5. CallShaped'
    BY <1>1, <1>2, <1>3, <1>4 DEF CallShaped
  <1>6. LengthsEven'
    <2>1. ASSUME NEW t \in SeqIds, NEW l \in Layers
          PROVE  length[t][l] = length[t][0] /\ (Busy(t)' => t = s) /\ ~Done(l)' /\ blocks_for(length[t][l]) <= Len(tables[t][1])
      <3>1. ~Busy(t)
        BY <1>1 DEF Busy
      <3>2. ~Done(l)'
        <4>1. l \in Nat
          BY PoolFacts
        <4> QED BY <1>4, <4>1 DEF Done
      <3> QED BY <3>1, <3>2, <1>4 DEF PoolShape, LengthsEven, Busy
    <2>2. length \in [SeqIds -> [Layers -> Nat]]
      BY DEF PoolShape, LengthsEven
    <2>3. ASSUME NEW t \in SeqIds, NEW l \in Layers
          PROVE  length'[t][l] = IF Busy(t)' THEN IF Done(l)' THEN call.end' ELSE call.start' ELSE length'[t][0]
      BY <2>1, <1>1, <1>4
    <2> QED BY <2>1, <2>2, <2>3, <1>1, <1>2 DEF LengthsEven
  <1>7. LensTrue'
    <2>1. \A t \in SeqIds : ~Busy(t)
      BY <1>1 DEF Busy
    <2> QED BY <1>1, <1>2, <2>1 DEF PoolShape, LensTrue
  <1>8. HostsTrue' /\ Unborn' /\ WritableShaped' /\ WrittenShaped'
    <2>1. HostsTrue'
      BY <1>1, <1>2 DEF PoolShape, HostsTrue, Remembers, FrameOf
    <2> QED BY <2>1, <1>1, <1>2 DEF PoolShape, Unborn, WritableShaped, WrittenShaped
  <1> QED BY <1>2, <1>5, <1>6, <1>7, <1>8 DEF PoolShape

(* Tables that only grow keep what is remembered of them. *)
LEMMA HostsKept ==
    ASSUME HostsTrue, Structure, NEW S \in SUBSET SeqIds,
           \A t \in SeqIds \ S : /\ host_frames'[t] = host_frames[t]
                                 /\ Len(tables'[t][1]) = Len(tables[t][1])
                                 /\ \A i \in 1 .. Len(tables[t][1]) : FrameOf(t, i)' = FrameOf(t, i),
           \A t \in S : host_frames'[t] = {} \/ \E host : host_frames'[t] = {host} /\ Remembers(t, host)',
           host_frames' \in [SeqIds -> SUBSET Seq(Frames)]
    PROVE  HostsTrue'
  <1>1. ASSUME NEW t \in SeqIds \ S, NEW host, Remembers(t, host) PROVE Remembers(t, host)'
    <2>1. host \in Seq(Frames) /\ Len(host) <= Len(tables[t][1]) /\ Len(tables[t][1]) \in Nat
      BY <1>1, EntryFacts DEF Remembers
    <2>2. \A i \in 1 .. Len(host) : i \in 1 .. Len(tables[t][1])
      BY <2>1
    <2> QED BY <1>1, <2>1, <2>2 DEF Remembers
  <1>2. ASSUME NEW t \in SeqIds
        PROVE  host_frames'[t] = {} \/ \E host \in host_frames'[t] : host_frames'[t] = {host} /\ Remembers(t, host)'
    <2>1. CASE t \in S
      BY <2>1
    <2>2. CASE t \notin S
      BY <2>2, <1>1 DEF HostsTrue
    <2> QED BY <2>1, <2>2
  <1> QED BY <1>2 DEF HostsTrue

LEMMA GrowShape ==
    ASSUME PoolShape, ensure_capacity
    PROVE  PoolShape'
  <1>1. /\ call.pc = "grow" /\ writable' = writable /\ length' = length /\ written' = written
    BY DEF ensure_capacity
  <1> DEFINE s == call.seq
  <1>2. call # NoCall
    BY <1>1 DEF NoCall
  <1>3. /\ call \in Running /\ s \in sequences /\ s \in SeqIds
        /\ call.start < call.end /\ call.end <= MaxTokens /\ call.pos = call.start
        /\ call.have = Len(tables[s][1]) /\ call.have \in Nat /\ call.start \in Nat /\ call.end \in Nat
    BY <1>1, <1>2 DEF PoolShape, CallShaped, Running
  <1>4. MaxTokens > 0
    BY <1>3, PoolFacts
  <1>5. \A t \in SeqIds : Len(tables[t][1]) \in Nat
    BY EntryFacts DEF PoolShape
  <1>6. /\ length \in [SeqIds -> [Layers -> Nat]]
        /\ \A t \in SeqIds, l \in Layers : blocks_for(length[t][l]) \in Nat
    <2>1. length \in [SeqIds -> [Layers -> Nat]]
      BY DEF PoolShape, LengthsEven
    <2> QED BY <2>1, ConfigFacts
  <1>7. ASSUME NEW c, call' = c, c \in Running, c.pc \in {"grow", "resolve"}, c.seq = s, c.layer = call.layer,
               c.start = call.start, c.end = call.end, Structure',
               \A t \in SeqIds : Len(tables'[t][1]) >= Len(tables[t][1])
        PROVE  LengthsEven'
    <2>1. \A t : Busy(t)' <=> Busy(t)
      <3>1. c # NoCall
        BY <1>7 DEF NoCall
      <3> QED BY <3>1, <1>2, <1>7 DEF Busy
    <2>2. \A l : Done(l)' <=> Done(l)
      BY <1>1, <1>7 DEF Done
    <2>3. ASSUME NEW t \in SeqIds, NEW l \in Layers
          PROVE  /\ length'[t][l] = IF Busy(t)' THEN IF Done(l)' THEN call.end' ELSE call.start' ELSE length'[t][0]
                 /\ blocks_for(length'[t][l]) <= Len(tables'[t][1])
      <3>1. /\ length[t][l] = IF Busy(t) THEN IF Done(l) THEN call.end ELSE call.start ELSE length[t][0]
            /\ blocks_for(length[t][l]) <= Len(tables[t][1])
        BY DEF PoolShape, LengthsEven
      <3>2. Len(tables'[t][1]) >= Len(tables[t][1]) /\ Len(tables[t][1]) \in Nat /\ blocks_for(length[t][l]) \in Nat
        BY <1>5, <1>6, <1>7
      <3>3. Len(tables'[t][1]) \in Nat
        <4>1. tables'[t][1] \in Seq(Entry)
          BY <1>7, PoolFacts DEF Structure, TypeOK
        <4> QED BY <4>1
      <3>4. blocks_for(length[t][l]) <= Len(tables'[t][1])
        BY <3>1, <3>2, <3>3
      <3> QED BY <3>1, <3>4, <2>1, <2>2, <1>1, <1>7
    <2> QED BY <2>3, <1>1, <1>6 DEF LengthsEven
  <1>8. CASE /\ call.have < Need /\ reserve_tokens(s, TokensPerBlock)
             /\ host_frames' = Invalidated(s) /\ call' = [call EXCEPT !.have = @ + 1] /\ table_len' = table_len
    <2>1. /\ Structure' /\ RefCountsExact' /\ data' = data /\ sequences' = sequences
          /\ Len(tables'[s][1]) = Len(tables[s][1]) + 1
          /\ \A t \in SeqIds : t # s => tables'[t] = tables[t]
          /\ \A i \in 1 .. Len(tables[s][1]) : tables'[s][1][i] = tables[s][1][i]
      BY <1>3, <1>4, <1>8, GrowDoes DEF PoolShape
    <2> DEFINE c == call'
    <2>2. /\ c \in Running /\ c.pc = "grow" /\ c.seq = s /\ c.layer = call.layer /\ c.start = call.start
          /\ c.end = call.end /\ c.pos = call.pos /\ c.have = call.have + 1
      BY <1>1, <1>3, <1>8 DEF Running
    <2>3. c # NoCall
      BY <2>2 DEF NoCall
    <2>4. CallShaped'
      BY <1>3, <2>1, <2>2 DEF CallShaped
    <2>5. LengthsEven'
      <3>1. \A t \in SeqIds : Len(tables'[t][1]) >= Len(tables[t][1])
        BY <1>5, <2>1, <1>3
      <3> QED BY <1>7, <2>1, <2>2, <3>1
    <2>6. LensTrue'
      <3>1. Busy(s)' /\ \A t : t # s => ~Busy(t)
        BY <2>2, <2>3 DEF Busy
      <3> QED BY <1>8, <2>1, <2>2, <3>1 DEF PoolShape, LensTrue
    <2>7. host_frames' = [host_frames EXCEPT ![s] = {}] /\ host_frames \in [SeqIds -> SUBSET Seq(Frames)]
      BY <1>8 DEF Invalidated, PoolShape, HostsTrue
    <2>8. HostsTrue'
      <3>1. host_frames' \in [SeqIds -> SUBSET Seq(Frames)] /\ host_frames'[s] = {}
            /\ \A t \in SeqIds \ {s} : host_frames'[t] = host_frames[t]
        BY <2>7, <1>3
      <3>2. \A t \in SeqIds \ {s} : /\ Len(tables'[t][1]) = Len(tables[t][1])
                                    /\ \A i \in 1 .. Len(tables[t][1]) : FrameOf(t, i)' = FrameOf(t, i)
        BY <2>1 DEF FrameOf
      <3>3. {s} \in SUBSET SeqIds
        BY <1>3
      <3> HIDE DEF s
      <3> QED BY <3>1, <3>2, <3>3, HostsKept DEF PoolShape
    <2>9. Unborn'
      BY <1>3, <1>8, <2>1, <2>7 DEF PoolShape, Unborn
    <2>10. WritableShaped' /\ WrittenShaped'
      BY <1>1 DEF PoolShape, WritableShaped, WrittenShaped
    <2> QED BY <2>1, <2>4, <2>5, <2>6, <2>8, <2>9, <2>10 DEF PoolShape
  <1>9. CASE /\ call.have >= Need /\ table_len' = [table_len EXCEPT ![s] = {call.have}]
             /\ call' = [call EXCEPT !.pc = "resolve"] /\ UNCHANGED <<cacheVars, host_frames>>
    <2>1. Structure' /\ RefCountsExact' /\ tables' = tables /\ sequences' = sequences /\ host_frames' = host_frames
      BY <1>9, QuietShape
    <2> DEFINE c == call'
    <2>2. /\ c \in Running /\ c.pc = "resolve" /\ c.seq = s /\ c.layer = call.layer /\ c.start = call.start
          /\ c.end = call.end /\ c.pos = call.pos
      BY <1>1, <1>3, <1>9 DEF Running
    <2>3. CallShaped'
      <3>1. blocks_for(call.end) <= Len(tables[s][1])
        <4>1. blocks_for(call.end) \in Nat
          BY <1>3, ConfigFacts
        <4> QED BY <4>1, <1>3, <1>9 DEF Need
      <3>2. call.start <= call.start
        BY <1>3
      <3> QED BY <1>3, <2>1, <2>2, <3>1, <3>2 DEF CallShaped
    <2>4. LengthsEven'
      <3>1. \A t \in SeqIds : Len(tables'[t][1]) >= Len(tables[t][1])
        BY <1>5, <2>1
      <3> QED BY <1>7, <2>1, <2>2, <3>1
    <2>5. LensTrue' /\ Unborn'
      <3>1. table_len \in [SeqIds -> SUBSET Nat]
        BY DEF PoolShape, LensTrue
      <3>2. /\ table_len' \in [SeqIds -> SUBSET Nat] /\ table_len'[s] = {Len(tables'[s][1])}
            /\ \A t \in SeqIds : t # s => table_len'[t] = table_len[t]
        BY <3>1, <1>3, <1>9, <2>1
      <3>3. \A t : t # s => ~Busy(t)
        BY DEF Busy
      <3> QED BY <1>3, <2>1, <3>2, <3>3 DEF PoolShape, LensTrue, Unborn
    <2>6. HostsTrue' /\ WritableShaped' /\ WrittenShaped'
      BY <1>1, <2>1, ZenonT(30) DEF PoolShape, HostsTrue, Remembers, FrameOf, WritableShaped, WrittenShaped
    <2> QED BY <2>1, <2>3, <2>4, <2>5, <2>6 DEF PoolShape
  <1> QED BY <1>8, <1>9 DEF ensure_capacity

LEMMA ResolveShape ==
    ASSUME PoolShape, writable_frame
    PROVE  PoolShape'
  <1>1. call.pc = "resolve" /\ table_len' = table_len /\ length' = length /\ written' = written
    BY DEF writable_frame
  <1>2. call # NoCall
    BY <1>1 DEF NoCall
  <1>a. PICK s \in SeqIds, pos \in Nat : s = call.seq /\ pos = call.pos
    BY <1>2 DEF PoolShape, CallShaped, Running
  <1>3. /\ call \in Running /\ s = call.seq /\ pos = call.pos /\ s \in sequences /\ s \in SeqIds
        /\ call.start < call.end /\ call.end <= MaxTokens /\ call.start <= pos /\ pos < call.end
        /\ pos \in Nat /\ call.start \in Nat /\ call.end \in Nat
        /\ blocks_for(call.end) <= Len(tables[s][1])
    BY <1>1, <1>2, <1>a DEF PoolShape, CallShaped, Running
  <1>4. ASSUME NEW f \in Frames, call' = [call EXCEPT !.pc = "store", !.frame = {f}],
               Structure', RefCountsExact', sequences' = sequences,
               \A t \in SeqIds : Len(tables'[t][1]) = Len(tables[t][1]), HostsTrue', WritableShaped',
               \A t \in SeqIds : t \notin sequences => host_frames'[t] = {}
        PROVE  PoolShape'
    <2> DEFINE c == call'
    <2>1. /\ c \in Running /\ c.pc = "store" /\ c.seq = s /\ c.layer = call.layer /\ c.start = call.start
          /\ c.end = call.end /\ c.pos = call.pos /\ c.frame = {f}
      BY <1>3, <1>4 DEF Running
    <2>2. c # NoCall
      BY <2>1 DEF NoCall
    <2>3. CallShaped'
      BY <1>3, <1>4, <2>1 DEF CallShaped
    <2>4. \A t : Busy(t)' <=> Busy(t)
      BY <2>1, <2>2, <1>2, <1>3 DEF Busy
    <2>5. \A l : Done(l)' <=> Done(l)
      BY <1>1, <2>1 DEF Done
    <2>6. LengthsEven'
      BY <1>1, <1>4, <2>1, <2>4, <2>5 DEF PoolShape, LengthsEven
    <2>7. LensTrue' /\ Unborn' /\ WrittenShaped'
      <3>1. WrittenShaped' /\ Unborn'
        BY <1>1, <1>4 DEF PoolShape, Unborn, WrittenShaped
      <3>2. LensTrue'
        BY <1>1, <1>4 DEF PoolShape, LensTrue
      <3> QED BY <3>1, <3>2
    <2> QED BY <1>4, <2>3, <2>6, <2>7 DEF PoolShape
  <1>5. ASSUME NEW w \in Hit, call' = [call EXCEPT !.pc = "store", !.frame = {w.frame}],
               UNCHANGED <<cacheVars, host_frames, writable>>
        PROVE  PoolShape'
    <2>1. w.frame \in Frames
      BY <1>5 DEF Hit, PoolShape, WritableShaped
    <2>2. Structure' /\ RefCountsExact' /\ tables' = tables /\ sequences' = sequences /\ host_frames' = host_frames
      BY <1>5, QuietShape
    <2>3. HostsTrue'
      BY <2>2 DEF PoolShape, HostsTrue, Remembers, FrameOf
    <2>4. WritableShaped' /\ \A t \in SeqIds : t \notin sequences => host_frames'[t] = {}
      BY <1>5, <2>2 DEF PoolShape, WritableShaped, Unborn
    <2> DEFINE f == w.frame
    <2> HIDE DEF f
    <2>5. f \in Frames /\ call' = [call EXCEPT !.pc = "store", !.frame = {f}]
      BY <1>5, <2>1 DEF f
    <2> QED BY <2>2, <2>3, <2>4, <2>5, <1>4
  <1>6. ASSUME NEW f, f = tables'[s][1][BlockOf(pos)].frame, ensure_token_writable(s, pos, 1),
               host_frames' = TableAfterWrite(f),
               writable' = {[seq |-> s, token |-> pos, frame |-> f]},
               call' = [call EXCEPT !.pc = "store", !.frame = {f}]
        PROVE  PoolShape'
    <2>1. pos \in 0 .. MaxTokens - 1
      BY <1>3, PoolFacts
    <2>2. /\ Structure' /\ RefCountsExact' /\ sequences' = sequences
          /\ \A t \in SeqIds : Len(tables'[t][1]) = Len(tables[t][1])
          /\ BlockOf(pos) \in 1 .. Len(tables[s][1])
          /\ \A t \in SeqIds : \A i \in 1 .. Len(tables[t][1]) :
                 t # s \/ i # BlockOf(pos) => FrameOf(t, i)' = FrameOf(t, i)
      BY <1>3, <1>6, <2>1, WriteDoes DEF PoolShape
    <2>3. f \in Frames
      <3>1. tables'[s][1] \in Seq(Entry) /\ Len(tables'[s][1]) = Len(tables[s][1])
        BY <2>2, <1>3, PoolFacts DEF Structure, TypeOK
      <3>2. tables'[s][1][BlockOf(pos)] \in Entry
        BY <3>1, <2>2
      <3> QED BY <3>2, <1>6 DEF Entry
    <2>4. WritableShaped'
      BY <1>3, <1>6, <2>3 DEF WritableShaped
    <2>5. host_frames \in [SeqIds -> SUBSET Seq(Frames)]
      BY DEF PoolShape, HostsTrue
    <2> DEFINE logical == pos \div TokensPerBlock
               remapped == {host \in host_frames[s] : logical >= Len(host) \/ host[logical + 1] # f}
    <2>6. /\ remapped = {} => host_frames' = host_frames
          /\ remapped # {} => host_frames' = [host_frames EXCEPT ![s] = {}]
      BY <1>3, <1>6 DEF TableAfterWrite, Invalidated
    <2>7. /\ host_frames' \in [SeqIds -> SUBSET Seq(Frames)]
          /\ \A t \in SeqIds : t # s => host_frames'[t] = host_frames[t]
          /\ host_frames'[s] = {} \/ (remapped = {} /\ host_frames'[s] = host_frames[s])
      <3>1. CASE remapped = {}
        BY <3>1, <2>5, <2>6
      <3>2. CASE remapped # {}
        BY <3>2, <2>5, <2>6, <1>3
      <3> QED BY <3>1, <3>2
    <2>8. host_frames'[s] = {} \/ \E host : host_frames'[s] = {host} /\ Remembers(s, host)'
      <3>1. SUFFICES ASSUME remapped = {}, host_frames'[s] = host_frames[s], host_frames[s] # {}
                     PROVE  \E host : host_frames[s] = {host} /\ Remembers(s, host)'
        BY <2>7
      <3>2. PICK host \in host_frames[s] : host_frames[s] = {host} /\ Remembers(s, host)
        BY <3>1, <1>3 DEF PoolShape, HostsTrue
      <3>3. host[BlockOf(pos)] = f
        BY <3>1, <3>2 DEF BlockOf
      <3>4. /\ host \in Seq(Frames) /\ Len(host) <= Len(tables[s][1]) /\ Len(tables[s][1]) \in Nat
            /\ \A i \in 1 .. Len(host) : i \in 1 .. Len(tables[s][1]) /\ host[i] = FrameOf(s, i)
        <4>1. host \in Seq(Frames) /\ Len(host) <= Len(tables[s][1]) /\ Len(tables[s][1]) \in Nat
          BY <3>2, <1>3, EntryFacts DEF Remembers, PoolShape
        <4> QED BY <4>1, <3>2 DEF Remembers
      <3>5. \A i \in 1 .. Len(host) : host[i] = FrameOf(s, i)'
        <4>1. FrameOf(s, BlockOf(pos))' = f
          BY <1>6 DEF FrameOf, BlockOf
        <4>2. ASSUME NEW i \in 1 .. Len(host) PROVE host[i] = FrameOf(s, i)'
          <5>1. CASE i = BlockOf(pos)
            BY <5>1, <4>1, <3>3
          <5>2. CASE i # BlockOf(pos)
            BY <5>2, <3>4, <2>2
          <5> QED BY <5>1, <5>2
        <4> QED BY <4>2
      <3>6. Len(host) <= Len(tables'[s][1])
        BY <3>4, <2>2, <1>3
      <3>7. Remembers(s, host)'
        BY <3>4, <3>5, <3>6 DEF Remembers
      <3> QED BY <3>2, <3>7
    <2>9. HostsTrue'
      <3>1. {s} \in SUBSET SeqIds
        BY <1>3
      <3>2. \A t \in SeqIds \ {s} : /\ host_frames'[t] = host_frames[t]
                                    /\ Len(tables'[t][1]) = Len(tables[t][1])
                                    /\ \A i \in 1 .. Len(tables[t][1]) : FrameOf(t, i)' = FrameOf(t, i)
        BY <2>2, <2>7
      <3> HIDE DEF remapped
      <3> QED BY <3>1, <3>2, <2>7, <2>8, HostsKept DEF PoolShape
    <2>10. \A t \in SeqIds : t \notin sequences => host_frames'[t] = {}
      BY <2>7, <1>3 DEF PoolShape, Unborn
    <2> QED BY <1>4, <1>6, <2>2, <2>3, <2>4, <2>9, <2>10
  <1> QED BY <1>3, <1>5, <1>6 DEF writable_frame, BlockOf

(* The rows of one block: how far store() gets, and which rows it writes. *)
LEMMA StoreSpan ==
    ASSUME NEW pos \in Nat, NEW end \in Nat, pos < end,
           NEW count, count = IF TokensPerBlock - (pos % TokensPerBlock) < end - pos
                              THEN TokensPerBlock - (pos % TokensPerBlock) ELSE end - pos
    PROVE  /\ count \in Nat /\ count > 0 /\ pos + count <= end
           /\ \A t \in pos .. pos + count - 1 :
                 /\ BlockOf(t) = BlockOf(pos)
                 /\ t % TokensPerBlock \in (pos % TokensPerBlock) .. (pos % TokensPerBlock) + count - 1
                 /\ t % TokensPerBlock \in 0 .. TokensPerBlock - 1
           /\ \A t \in Nat : t < pos /\ BlockOf(t) = BlockOf(pos) => t % TokensPerBlock < pos % TokensPerBlock
  <1> DEFINE T == TokensPerBlock
             q == pos \div T
             r == pos % T
  <1>1. T \in Nat /\ T > 0
    BY PoolFacts
  <1>2. q \in Nat /\ r \in Nat /\ r < T /\ pos = q * T + r
    <2> HIDE DEF T
    <2> QED BY <1>1, Division
  <1>3. q * T \in Nat
    <2> HIDE DEF q, T
    <2> QED BY <1>1, <1>2, ItemsApart
  <1>4. count = IF T - r < end - pos THEN T - r ELSE end - pos
    OBVIOUS
  <1> HIDE DEF T, q, r
  <1>5. count \in Nat /\ count > 0 /\ pos + count <= end /\ r + count <= T
    BY <1>1, <1>2, <1>4
  <1>6. ASSUME NEW t \in pos .. pos + count - 1
        PROVE  BlockOf(t) = BlockOf(pos) /\ t % T \in r .. r + count - 1 /\ t % T \in 0 .. T - 1
    <2> DEFINE d == t - pos
    <2>1. d \in Nat /\ d < count /\ r + d \in Nat /\ r + d < T /\ t = q * T + (r + d)
      BY <1>1, <1>2, <1>3, <1>5
    <2> HIDE DEF d
    <2>2. t \div T = q /\ t % T = r + d
      BY <1>1, <1>2, <2>1, DivisionOf
    <2>3. r + d \in r .. r + count - 1 /\ r + d \in 0 .. T - 1
      BY <1>1, <1>2, <1>5, <2>1
    <2> QED BY <2>2, <2>3 DEF BlockOf, T, q
  <1>7. ASSUME NEW t \in Nat, t < pos, BlockOf(t) = BlockOf(pos) PROVE t % T < r
    <2>1. t \div T \in Nat /\ t % T \in Nat /\ t = (t \div T) * T + (t % T)
      BY <1>1, Division
    <2>2. t \div T = q
      <3>1. t \div T + 1 = q + 1
        BY <1>7 DEF BlockOf, T, q
      <3> QED BY <3>1, <2>1, <1>2
    <2>3. t = q * T + (t % T)
      BY <2>1, <2>2
    <2> QED BY <2>1, <2>3, <1>2, <1>3, <1>7
  <1> QED BY <1>5, <1>6, <1>7 DEF r, T

(* Only bytes change. *)
LEMMA BytesShape ==
    ASSUME Structure, RefCountsExact, data' \in [Frames -> Contents],
           UNCHANGED <<ref_count, swap, sequences, request_of, tables, prefix, sequences_by_request, prefix_index>>
    PROVE  Structure' /\ RefCountsExact'
  <1>2. TypeOK'
    BY DEF Structure, TypeOK
  <1>3. TablesShaped'
    BY DEF Structure, TablesShaped
  <1>4. RecordsShaped'
    BY DEF Structure, RecordsShaped, IndexShaped, Records
  <1>5. RequestsListed'
    BY SMTT(40) DEF Structure, RequestsListed, SequencesFor
  <1>6. SlotsHeld'
    BY DEF Structure, SlotsHeld, SlotOf, At, Absentees, SwappedOut, Mapped
  <1>7. RefCountsExact'
    BY CountsBridge
  <1> QED BY <1>2, <1>3, <1>4, <1>5, <1>6, <1>7 DEF Structure

(* A store() of count rows at pos, for layer l of sequence s, into frame f. *)
Rows(pos, count) == (pos % TokensPerBlock) .. (pos % TokensPerBlock) + count - 1
StoreFrom(s, l, start, pos, end, v, f) ==
    /\ call \in Running /\ call # NoCall /\ call.pc = "store" /\ call.seq = s /\ call.layer = l
    /\ call.start = start /\ call.pos = pos /\ call.end = end /\ call.value = v /\ call.frame = {f}
    /\ s \in sequences /\ start < end /\ end <= MaxTokens /\ start <= pos /\ pos < end
    /\ blocks_for(end) <= Len(tables[s][1])
StoreTo(s, l, start, pos, end, v, f, count) ==
    /\ call' \in Running /\ call' # NoCall /\ call'.seq = s /\ call'.layer = l
    /\ call'.start = start /\ call'.pos = pos + count /\ call'.end = end /\ call'.value = v
    /\ call'.pc = IF pos + count = end THEN "read" ELSE "resolve"
    /\ data' \in [Frames -> Contents]
    /\ \A g \in Frames, m \in Layers, i \in 0 .. TokensPerBlock - 1 :
          data'[g][m][i] = IF g = f /\ m = l /\ i \in Rows(pos, count) THEN v ELSE data[g][m][i]
    /\ length' \in [SeqIds -> [Layers -> Nat]] /\ written' \in [SeqIds -> [Layers -> Seq(Values)]]
    /\ \A t \in SeqIds, m \in Layers :
          LET here == t = s /\ m = l /\ pos + count = end
          IN  /\ length'[t][m] = IF here THEN end ELSE length[t][m]
              /\ ~here => written'[t][m] = written[t][m]
              /\ here => /\ Len(written'[t][m]) = end
                         /\ \A i \in 1 .. end : written'[t][m][i] = IF i <= start THEN written[t][m][i] ELSE v
    /\ UNCHANGED <<ref_count, swap, sequences, request_of, tables, prefix, sequences_by_request,
                   prefix_index, host_frames, table_len, writable>>

LEMMA StoreDoes ==
    ASSUME PoolShape, store
    PROVE  \E s \in SeqIds, l \in Layers, start, pos, end, count \in Nat, v \in Values, f \in Frames :
              /\ StoreFrom(s, l, start, pos, end, v, f)
              /\ StoreTo(s, l, start, pos, end, v, f, count)
              /\ count = IF TokensPerBlock - (pos % TokensPerBlock) < end - pos
                         THEN TokensPerBlock - (pos % TokensPerBlock) ELSE end - pos
  <1>1. call.pc = "store"
    BY DEF store
  <1>2. call # NoCall
    BY <1>1 DEF NoCall
  <1>3. PICK s \in SeqIds, l \in Layers, start, pos, end \in Nat, v \in Values, f \in Frames :
            StoreFrom(s, l, start, pos, end, v, f)
    <2>1. /\ call \in Running /\ call.seq \in sequences /\ call.start < call.end /\ call.end <= MaxTokens
          /\ call.start <= call.pos /\ call.pos < call.end /\ blocks_for(call.end) <= Len(tables[call.seq][1])
          /\ \E f \in Frames : call.frame = {f}
      BY <1>1, <1>2 DEF PoolShape, CallShaped
    <2>2. PICK f \in Frames : call.frame = {f}
      BY <2>1
    <2>3. /\ call.seq \in SeqIds /\ call.layer \in Layers /\ call.start \in Nat /\ call.pos \in Nat
          /\ call.end \in Nat /\ call.value \in Values
      BY <2>1 DEF Running
    <2> QED BY <1>1, <1>2, <2>1, <2>2, <2>3 DEF StoreFrom
  <1> DEFINE T == TokensPerBlock
             r == pos % T
             count == IF T - r < end - pos THEN T - r ELSE end - pos
             done == pos + count = end
             row(old) == [i \in DOMAIN old |-> IF i \in r .. r + count - 1 THEN v ELSE old[i]]
             text(old) == [t \in 1 .. end |-> IF t <= start THEN old[t] ELSE v]
  <1>4. count \in Nat /\ count > 0 /\ pos + count <= end
    BY <1>3, StoreSpan DEF StoreFrom
  <1>5. TheOnly({f}) = f
    BY DEF TheOnly
  <1>6. /\ data' = [data EXCEPT ![f][l] = row(@)]
        /\ length' = IF done THEN [length EXCEPT ![s][l] = end] ELSE length
        /\ written' = IF done THEN [written EXCEPT ![s][l] = text(@)] ELSE written
        /\ call' = [call EXCEPT !.pc = IF done THEN "read" ELSE "resolve", !.pos = @ + count]
        /\ UNCHANGED <<ref_count, swap, sequences, request_of, tables, prefix, sequences_by_request,
                       prefix_index, host_frames, table_len, writable>>
    BY <1>3, <1>5, Zenon DEF store, StoreFrom
  <1>7. data \in [Frames -> Contents]
    BY DEF PoolShape, Structure, TypeOK
  <1>8. /\ data' \in [Frames -> Contents]
        /\ \A g \in Frames, m \in Layers, i \in 0 .. T - 1 :
              data'[g][m][i] = IF g = f /\ m = l /\ i \in Rows(pos, count) THEN v ELSE data[g][m][i]
    <2> DEFINE old == data[f][l]
    <2>1. data[f] \in [Layers -> [0 .. T - 1 -> Values \cup {Zero}]] /\ old \in [0 .. T - 1 -> Values \cup {Zero}]
      BY <1>7, PoolFacts
    <2> HIDE DEF old, count
    <2>2. /\ row(old) \in [0 .. T - 1 -> Values \cup {Zero}]
          /\ \A i \in 0 .. T - 1 : row(old)[i] = IF i \in Rows(pos, count) THEN v ELSE old[i]
      BY <2>1 DEF Rows
    <2> HIDE DEF row, T
    <2>3. data' = [data EXCEPT ![f] = [data[f] EXCEPT ![l] = row(old)]]
      BY <1>6 DEF old
    <2>4. [data[f] EXCEPT ![l] = row(old)] \in Contents
      BY <2>1, <2>2, PoolFacts DEF T
    <2>5. data' \in [Frames -> Contents] /\ data'[f] = [data[f] EXCEPT ![l] = row(old)]
          /\ \A g \in Frames : g # f => data'[g] = data[g]
      BY <1>7, <2>3, <2>4
    <2>6. data'[f][l] = row(old) /\ \A m \in Layers : m # l => data'[f][m] = data[f][m]
      BY <2>1, <2>5
    <2>7. ASSUME NEW g \in Frames, NEW m \in Layers, NEW i \in 0 .. T - 1
          PROVE  data'[g][m][i] = IF g = f /\ m = l /\ i \in Rows(pos, count) THEN v ELSE data[g][m][i]
      <3>1. CASE g = f /\ m = l
        BY <3>1, <2>2, <2>6 DEF old
      <3>2. CASE g = f /\ m # l
        BY <3>2, <2>6
      <3>3. CASE g # f
        BY <3>3, <2>5
      <3> QED BY <3>1, <3>2, <3>3
    <2> QED BY <2>5, <2>7
  <1>9. /\ length \in [SeqIds -> [Layers -> Nat]] /\ written \in [SeqIds -> [Layers -> Seq(Values)]]
        /\ length[s][l] = start /\ Len(written[s][l]) = start
    <2>1. Busy(s) /\ ~Done(l)
      <3>1. l \in Nat
        BY PoolFacts
      <3> QED BY <1>3, <3>1 DEF StoreFrom, Busy, Done
    <2> QED BY <2>1, <1>3 DEF PoolShape, LengthsEven, WrittenShaped, StoreFrom
  <1>10. /\ text(written[s][l]) \in Seq(Values) /\ Len(text(written[s][l])) = end
         /\ \A i \in 1 .. end : text(written[s][l])[i] = IF i <= start THEN written[s][l][i] ELSE v
    <2> DEFINE old == written[s][l]
    <2>1. old \in Seq(Values) /\ Len(old) = start
      BY <1>9
    <2> HIDE DEF old
    <2>2. text(old) \in [1 .. end -> Values]
      BY <2>1
    <2>3. \A i \in 1 .. end : text(old)[i] = IF i <= start THEN old[i] ELSE v
      OBVIOUS
    <2> HIDE DEF text
    <2>4. text(old) \in Seq(Values) /\ Len(text(old)) = end
      BY <2>2, LenProperties, SeqDef
    <2> QED BY <2>3, <2>4 DEF old
  <1>11. call' \in Running /\ call'.seq = s /\ call'.layer = l
         /\ call'.start = start /\ call'.pos = pos + count /\ call'.end = end /\ call'.value = v
         /\ call'.pc = IF done THEN "read" ELSE "resolve"
    <2> HIDE DEF count
    <2> DEFINE pc == IF done THEN "read" ELSE "resolve"
               next == pos + count
    <2>1. /\ call \in Running /\ call.seq = s /\ call.layer = l /\ call.start = start /\ call.pos = pos
          /\ call.end = end /\ call.value = v
      BY <1>3 DEF StoreFrom
    <2>2. call' = [call EXCEPT !.pc = pc, !.pos = next] /\ pc \in {"read", "resolve"} /\ next \in Nat
      BY <1>4, <1>6, <2>1
    <2> HIDE DEF pc, next
    <2>3. call' \in Running /\ call'.seq = s /\ call'.layer = l /\ call'.start = start /\ call'.pos = next
          /\ call'.end = end /\ call'.value = v /\ call'.pc = pc
      BY ONLY <2>1, <2>2 DEF Running
    <2> QED BY ONLY <2>3 DEF pc, next
  <1>12. call' # NoCall
    BY <1>11 DEF NoCall
  <1>13. /\ length' \in [SeqIds -> [Layers -> Nat]] /\ written' \in [SeqIds -> [Layers -> Seq(Values)]]
         /\ \A t \in SeqIds, m \in Layers :
              LET here == t = s /\ m = l /\ pos + count = end
              IN  /\ length'[t][m] = IF here THEN end ELSE length[t][m]
                  /\ ~here => written'[t][m] = written[t][m]
                  /\ here => /\ Len(written'[t][m]) = end
                             /\ \A i \in 1 .. end : written'[t][m][i] = IF i <= start THEN written[t][m][i] ELSE v
    <2> HIDE DEF text, count
    <2>1. CASE done
      <3> DEFINE new == text(written[s][l])
      <3>1. written' = [written EXCEPT ![s] = [written[s] EXCEPT ![l] = new]]
        BY <2>1, <1>6
      <3>2. length' = [length EXCEPT ![s] = [length[s] EXCEPT ![l] = end]]
        BY <2>1, <1>6
      <3>3. /\ new \in Seq(Values) /\ Len(new) = end
            /\ \A i \in 1 .. end : new[i] = IF i <= start THEN written[s][l][i] ELSE v
        BY <1>10
      <3> HIDE DEF new
      <3>4. length' \in [SeqIds -> [Layers -> Nat]] /\ written' \in [SeqIds -> [Layers -> Seq(Values)]]
        BY <1>9, <3>1, <3>2, <3>3
      <3>5. \A t \in SeqIds, m \in Layers :
               /\ length'[t][m] = IF t = s /\ m = l THEN end ELSE length[t][m]
               /\ written'[t][m] = IF t = s /\ m = l THEN new ELSE written[t][m]
        BY <1>9, <3>1, <3>2
      <3> QED BY <2>1, <3>3, <3>4, <3>5
    <2>2. CASE ~done
      BY <2>2, <1>6, <1>9
    <2> QED BY <2>1, <2>2
  <1>14. StoreTo(s, l, start, pos, end, v, f, count)
    <2> HIDE DEF count
    <2> QED BY ONLY <1>6, <1>8, <1>11, <1>12, <1>13 DEF StoreTo, done, T
  <1> QED BY <1>3, <1>4, <1>14

LEMMA StoreShape ==
    ASSUME PoolShape, store
    PROVE  PoolShape'
  <1>1. PICK s \in SeqIds, l \in Layers, start, pos, end, count \in Nat, v \in Values, f \in Frames :
            /\ StoreFrom(s, l, start, pos, end, v, f)
            /\ StoreTo(s, l, start, pos, end, v, f, count)
            /\ count = IF TokensPerBlock - (pos % TokensPerBlock) < end - pos
                       THEN TokensPerBlock - (pos % TokensPerBlock) ELSE end - pos
    BY StoreDoes
  <1>2. /\ call # NoCall /\ call.pc = "store" /\ call.seq = s /\ call.layer = l /\ call.start = start /\ call.end = end
        /\ s \in sequences /\ start < end /\ end <= MaxTokens /\ start <= pos /\ pos < end
        /\ blocks_for(end) <= Len(tables[s][1])
    BY <1>1 DEF StoreFrom
  <1>3. /\ call' \in Running /\ call' # NoCall /\ call'.seq = s /\ call'.layer = l
        /\ call'.start = start /\ call'.pos = pos + count /\ call'.end = end
        /\ call'.pc = IF pos + count = end THEN "read" ELSE "resolve"
        /\ data' \in [Frames -> Contents]
        /\ length' \in [SeqIds -> [Layers -> Nat]] /\ written' \in [SeqIds -> [Layers -> Seq(Values)]]
        /\ tables' = tables /\ sequences' = sequences /\ host_frames' = host_frames /\ table_len' = table_len
        /\ writable' = writable
        /\ UNCHANGED <<ref_count, swap, sequences, request_of, tables, prefix, sequences_by_request, prefix_index>>
    BY <1>1 DEF StoreTo
  <1>4. \A t \in SeqIds, m \in Layers :
          LET here == t = s /\ m = l /\ pos + count = end
          IN  /\ length'[t][m] = IF here THEN end ELSE length[t][m]
              /\ ~here => written'[t][m] = written[t][m]
              /\ here => Len(written'[t][m]) = end
    BY <1>1 DEF StoreTo
  <1>5. count > 0 /\ pos + count <= end
    BY <1>1, <1>2, StoreSpan
  <1>6. Structure' /\ RefCountsExact'
    BY <1>3, BytesShape DEF PoolShape
  <1>7. CallShaped'
    <2>1. pos + count # end => pos + count < end
      BY <1>5
    <2>2. start <= pos + count
      BY <1>2
    <2> QED BY <1>2, <1>3, <2>1, <2>2 DEF CallShaped
  <1>8. \A t : Busy(t)' <=> Busy(t)
    BY <1>2, <1>3 DEF Busy
  <1>9. LengthsEven'
    <2>1. ASSUME NEW t \in SeqIds, NEW m \in Layers
          PROVE  /\ length'[t][m] = IF Busy(t)' THEN IF Done(m)' THEN end ELSE start ELSE length'[t][0]
                 /\ blocks_for(length'[t][m]) <= Len(tables'[t][1])
      <3>1. /\ length[t][m] = IF Busy(t) THEN IF Done(m) THEN end ELSE start ELSE length[t][0]
            /\ blocks_for(length[t][m]) <= Len(tables[t][1])
        BY <1>2 DEF PoolShape, LengthsEven
      <3>2. m \in Nat /\ l \in Nat /\ 0 \in Layers
        BY PoolFacts
      <3>3. CASE t # s
        BY <3>1, <3>2, <3>3, <1>2, <1>3, <1>4, <1>8 DEF Busy
      <3>4. CASE t = s
        <4>1. Busy(t) /\ (Done(m) <=> m < l)
          BY <3>2, <3>4, <1>2 DEF Busy, Done
        <4>2. Done(m)' <=> m < l \/ (m = l /\ pos + count = end)
          BY <3>2, <1>3 DEF Done
        <4> QED BY <3>1, <3>2, <3>4, <4>1, <4>2, <1>2, <1>3, <1>4, <1>8
      <3> QED BY <3>3, <3>4
    <2> QED BY <2>1, <1>3 DEF LengthsEven
  <1>10. LensTrue' /\ Unborn'
    <2>1. LensTrue'
      BY <1>2, <1>3 DEF PoolShape, LensTrue
    <2> QED BY <2>1, <1>3 DEF PoolShape, Unborn
  <1>11. HostsTrue' /\ WritableShaped'
    <2>0. tables' = tables /\ host_frames' = host_frames /\ HostsTrue
      BY <1>3 DEF PoolShape
    <2>1. HostsTrue'
      BY ONLY <2>0 DEF HostsTrue, Remembers, FrameOf
    <2> QED BY <2>1, <1>3 DEF PoolShape, WritableShaped
  <1>12. WrittenShaped'
    <2>1. ASSUME NEW t \in SeqIds, NEW m \in Layers PROVE Len(written'[t][m]) = length'[t][m]
      <3>1. Len(written[t][m]) = length[t][m]
        BY DEF PoolShape, WrittenShaped
      <3> QED BY <3>1, <1>4
    <2> QED BY <2>1, <1>3 DEF WrittenShaped
  <1> QED BY <1>6, <1>7, <1>9, <1>10, <1>11, <1>12 DEF PoolShape

(* decode_inputs(): remembered or rebuilt, the table is the manager's. *)
LEMMA TableForIs ==
    ASSUME PoolShape, NEW s \in SeqIds, NEW n \in Nat, blocks_for(n) <= Len(tables[s][1])
    PROVE  /\ TableFor(s, n) \in Seq(Frames) /\ Len(TableFor(s, n)) = blocks_for(n)
           /\ \A i \in 1 .. blocks_for(n) : TableFor(s, n)[i] = FrameOf(s, i)
           /\ Remembers(s, TableFor(s, n))
  <1> DEFINE wide == {host \in host_frames[s] : Len(host) = blocks_for(n)}
             b == blocks_for(n)
             m == Len(tables[s][1])
  <1>1. b \in Nat /\ m \in Nat /\ b <= m
    BY EntryFacts, ConfigFacts DEF PoolShape
  <1>2. /\ TableFor(s, n) \in Seq(Frames) /\ Len(TableFor(s, n)) = b
        /\ \A i \in 1 .. b : TableFor(s, n)[i] = FrameOf(s, i)
    <2>1. CASE wide # {}
      <3>1. PICK host \in wide : TRUE
        BY <2>1
      <3>2. host_frames[s] = {host} /\ Remembers(s, host) /\ Len(host) = b
        BY <3>1 DEF PoolShape, HostsTrue
      <3>3. wide = {host}
        BY <3>2
      <3>4. TableFor(s, n) = host
        BY <3>3 DEF TableFor, TheOnly
      <3> QED BY <3>2, <3>4 DEF Remembers
    <2>2. CASE wide = {}
      <3> DEFINE table == [i \in 1 .. m |-> FrameOf(s, i)]
      <3>1. block_table(s) = table
        BY PoolFacts DEF block_table, Ids, FrameOf
      <3>2. table \in [1 .. m -> Frames]
        BY EntryFacts DEF PoolShape
      <3>3. \A i \in 1 .. m : table[i] = FrameOf(s, i)
        OBVIOUS
      <3> HIDE DEF table, m
      <3>4. table \in Seq(Frames) /\ Len(table) = m
        BY <3>2, <1>1, LenProperties, SeqDef
      <3>5. TableFor(s, n) = SubSeq(table, 1, b)
        BY <2>2, <3>1 DEF TableFor
      <3> HIDE DEF b
      <3>6. SubSeq(table, 1, b) \in Seq(Frames) /\ Len(SubSeq(table, 1, b)) = b
            /\ \A i \in 1 .. b : SubSeq(table, 1, b)[i] = table[i]
        <4>1. Len(SubSeq(table, 1, b)) = b
          BY <1>1, <3>4
        <4>2. \A i \in 1 .. b : SubSeq(table, 1, b)[i] = table[i]
          BY <1>1, <3>4
        <4>3. SubSeq(table, 1, b) \in Seq(Frames)
          BY <1>1, <3>4
        <4> QED BY <4>1, <4>2, <4>3
      <3>7. \A i \in 1 .. b : i \in 1 .. m
        BY <1>1
      <3> QED BY <3>3, <3>5, <3>6, <3>7
    <2> QED BY <2>1, <2>2
  <1>3. Remembers(s, TableFor(s, n))
    <2> HIDE DEF b
    <2> QED BY <1>1, <1>2 DEF Remembers
  <1> QED BY <1>2, <1>3

LEMMA ReadShape ==
    ASSUME PoolShape, read
    PROVE  PoolShape'
  <1>1. call.pc = "read" /\ UNCHANGED <<cacheVars, table_len, writable, length, written>>
    BY DEF read
  <1>2. call # NoCall
    BY <1>1 DEF NoCall
  <1>3. PICK s \in SeqIds, l \in Layers, end \in Nat, v \in Values :
            s = call.seq /\ l = call.layer /\ end = call.end /\ v = call.value
    BY <1>2 DEF PoolShape, CallShaped, Running
  <1>4. /\ call \in Running /\ s \in sequences /\ call.start < end /\ end <= MaxTokens /\ call.start \in Nat
        /\ blocks_for(end) <= Len(tables[s][1])
    BY <1>1, <1>2, <1>3 DEF PoolShape, CallShaped, Running
  <1>5. PICK n \in Nat : n = TokensAsked /\ blocks_for(n) = blocks_for(end)
    BY <1>3, BlockNumbers DEF TokensAsked
  <1>6. /\ host_frames' = [host_frames EXCEPT ![s] = {TableFor(s, n)}]
        /\ call' = IF l + 1 \in Layers THEN Entering(s, l + 1, end, v) ELSE NoCall
    BY <1>3, <1>5 DEF read
  <1>7. Structure' /\ RefCountsExact' /\ tables' = tables /\ sequences' = sequences
    BY <1>1, QuietShape
  <1>8. /\ length' = length /\ written' = written /\ table_len' = table_len /\ writable' = writable
    BY <1>1
  <1>9. HostsTrue' /\ Unborn'
    <2> DEFINE table == TableFor(s, n)
    <2>1. table \in Seq(Frames) /\ Remembers(s, table)
      BY <1>4, <1>5, TableForIs
    <2> HIDE DEF table
    <2>2. host_frames \in [SeqIds -> SUBSET Seq(Frames)]
      BY DEF PoolShape, HostsTrue
    <2>3. /\ host_frames' \in [SeqIds -> SUBSET Seq(Frames)] /\ host_frames'[s] = {table}
          /\ \A t \in SeqIds : t # s => host_frames'[t] = host_frames[t]
      BY <1>6, <2>1, <2>2 DEF table
    <2>4. \A t, host : Remembers(t, host) => Remembers(t, host)'
      BY <1>7 DEF Remembers, FrameOf
    <2>5. HostsTrue'
      BY <2>1, <2>3, <2>4 DEF PoolShape, HostsTrue
    <2> QED BY <2>3, <2>5, <1>4, <1>7, <1>8 DEF PoolShape, Unborn
  <1>10. l \in Nat /\ \A m \in Layers : m \in Nat /\ (Done(m) <=> m <= l)
    BY <1>1, <1>3, PoolFacts DEF Done
  <1>11. \A m \in Layers : length[s][m] = IF m <= l THEN end ELSE call.start
    BY <1>2, <1>3, <1>10 DEF PoolShape, LengthsEven, Busy
  <1>12. LensTrue' /\ WritableShaped' /\ WrittenShaped'
    <2>1. LensTrue'
      BY <1>1, <1>7, <1>8 DEF PoolShape, LensTrue
    <2> QED BY <2>1, <1>8 DEF PoolShape, WritableShaped, WrittenShaped
  <1>13. CASE l + 1 \in Layers
    <2> DEFINE c == call'
    <2>1. c = Entering(s, l + 1, end, v)
      BY <1>6, <1>13
    <2>2. /\ c \in Running /\ c # NoCall /\ c.pc = "grow" /\ c.seq = s /\ c.layer = l + 1 /\ c.end = end
          /\ c.start = length[s][l + 1] /\ c.pos = length[s][l + 1] /\ c.have = Len(tables[s][1])
      BY <1>1, <1>4, <1>13, <2>1, EnteringIs
    <2>3. length[s][l + 1] = call.start
      BY <1>10, <1>11, <1>13
    <2> HIDE DEF c
    <2>4. CallShaped'
      <3>1. call.start <= call.start
        BY <1>4
      <3> QED BY <1>4, <1>7, <2>2, <2>3, <3>1 DEF CallShaped, c
    <2>5. LengthsEven'
      <3>1. \A t : Busy(t)' <=> Busy(t)
        BY <1>2, <1>3, <2>2 DEF Busy, c
      <3>2. \A m \in Layers : Done(m)' <=> Done(m)
        BY <1>10, <2>2 DEF Done, c
      <3>3. call'.start = call.start /\ call'.end = call.end
        BY <1>3, <2>2, <2>3 DEF c
      <3> QED BY <3>1, <3>2, <3>3, <1>7, <1>8 DEF PoolShape, LengthsEven
    <2> QED BY <2>4, <2>5, <1>7, <1>9, <1>12 DEF PoolShape
  <1>14. CASE l + 1 \notin Layers
    <2>1. call' = NoCall
      BY <1>6, <1>14
    <2>2. CallShaped' /\ \A t : ~Busy(t)'
      BY <2>1 DEF CallShaped, Busy
    <2>3. \A m \in Layers : m <= l
      <3>1. l = Shape.num_layers - 1
        BY <1>14, PoolFacts DEF Layers
      <3> QED BY <3>1, PoolFacts DEF Layers
    <2>4. ASSUME NEW t \in SeqIds, NEW m \in Layers PROVE length[t][m] = length[t][0]
      <3>1. 0 \in Layers
        BY PoolFacts
      <3>2. CASE t = s
        BY <3>1, <3>2, <2>3, <1>11
      <3>3. CASE t # s
        BY <3>3, <1>3 DEF PoolShape, LengthsEven, Busy
      <3> QED BY <3>2, <3>3
    <2>5. LengthsEven'
      BY <2>2, <2>4, <1>7, <1>8 DEF PoolShape, LengthsEven
    <2> QED BY <2>2, <2>5, <1>7, <1>9, <1>12 DEF PoolShape
  <1> QED BY <1>13, <1>14

LEMMA ForkShape ==
    ASSUME PoolShape, NEW parent \in SeqIds, NEW child \in SeqIds, fork(parent, child)
    PROVE  PoolShape'
  <1>1. /\ call = NoCall /\ fork_sequence(parent, child, child)
        /\ length' = [length EXCEPT ![child] = length[parent]]
        /\ written' = [written EXCEPT ![child] = written[parent]]
        /\ host_frames' = host_frames /\ table_len' = table_len /\ writable' = writable /\ call' = call
    BY DEF fork
  <1>2. /\ Structure' /\ RefCountsExact' /\ data' = data
        /\ parent \in sequences /\ child \notin sequences /\ sequences' = sequences \cup {child}
        /\ \A t \in SeqIds : t # child => tables'[t] = tables[t]
        /\ Len(tables'[child][1]) = Len(tables[parent][1])
    BY <1>1, ForkDoes DEF PoolShape
  <1>3. length \in [SeqIds -> [Layers -> Nat]] /\ written \in [SeqIds -> [Layers -> Seq(Values)]]
    BY DEF PoolShape, LengthsEven, WrittenShaped
  <1>4. /\ length' \in [SeqIds -> [Layers -> Nat]] /\ written' \in [SeqIds -> [Layers -> Seq(Values)]]
        /\ length'[child] = length[parent] /\ written'[child] = written[parent]
        /\ \A t \in SeqIds : t # child => length'[t] = length[t] /\ written'[t] = written[t]
    BY <1>1, <1>3
  <1>5. CallShaped' /\ \A t : ~Busy(t)' /\ ~Busy(t)
    BY <1>1 DEF CallShaped, Busy
  <1>6. LengthsEven'
    <2>1. ASSUME NEW t \in SeqIds, NEW l \in Layers
          PROVE  length'[t][l] = length'[t][0] /\ blocks_for(length'[t][l]) <= Len(tables'[t][1])
      <3>1. \A u \in SeqIds : length[u][l] = length[u][0] /\ blocks_for(length[u][l]) <= Len(tables[u][1])
        BY <1>5 DEF PoolShape, LengthsEven
      <3>2. CASE t = child
        BY <3>1, <3>2, <1>2, <1>4
      <3>3. CASE t # child
        BY <3>1, <3>3, <1>2, <1>4
      <3> QED BY <3>2, <3>3
    <2> QED BY <2>1, <1>4, <1>5 DEF LengthsEven
  <1>7. host_frames[child] = {} /\ table_len[child] = {}
    BY <1>2 DEF PoolShape, Unborn
  <1>8. LensTrue' /\ Unborn'
    <2>1. LensTrue'
      BY <1>1, <1>2, <1>5, <1>7 DEF PoolShape, LensTrue
    <2> QED BY <2>1, <1>1, <1>2 DEF PoolShape, Unborn
  <1>9. HostsTrue'
    <2>1. {child} \in SUBSET SeqIds /\ host_frames' \in [SeqIds -> SUBSET Seq(Frames)]
      BY <1>1 DEF PoolShape, HostsTrue
    <2>2. \A t \in SeqIds \ {child} : /\ host_frames'[t] = host_frames[t]
                                      /\ Len(tables'[t][1]) = Len(tables[t][1])
                                      /\ \A i \in 1 .. Len(tables[t][1]) : FrameOf(t, i)' = FrameOf(t, i)
      BY <1>1, <1>2 DEF FrameOf
    <2>3. \A t \in {child} : host_frames'[t] = {}
      BY <1>1, <1>7
    <2> QED BY <2>1, <2>2, <2>3, HostsKept DEF PoolShape
  <1>10. WritableShaped' /\ WrittenShaped'
    <2>1. ASSUME NEW t \in SeqIds, NEW l \in Layers PROVE Len(written'[t][l]) = length'[t][l]
      <3>1. \A u \in SeqIds : Len(written[u][l]) = length[u][l]
        BY DEF PoolShape, WrittenShaped
      <3>2. CASE t = child
        BY <3>1, <3>2, <1>4
      <3>3. CASE t # child
        BY <3>1, <3>3, <1>4
      <3> QED BY <3>2, <3>3
    <2> QED BY <2>1, <1>1, <1>4 DEF PoolShape, WritableShaped, WrittenShaped
  <1> QED BY <1>2, <1>5, <1>6, <1>8, <1>9, <1>10 DEF PoolShape

LEMMA ResetShape ==
    ASSUME PoolShape, NEW s \in SeqIds, reset(s)
    PROVE  PoolShape'
  <1>1. /\ call = NoCall /\ UNCHANGED cacheVars
        /\ length' = [length EXCEPT ![s] = [l \in Layers |-> 0]]
        /\ written' = [written EXCEPT ![s] = [l \in Layers |-> <<>>]]
        /\ host_frames' = host_frames /\ table_len' = table_len /\ writable' = writable /\ call' = call
    BY DEF reset, LengthAfterReset
  <1>2. Structure' /\ RefCountsExact' /\ tables' = tables /\ sequences' = sequences
    BY <1>1, QuietShape
  <1>3. length \in [SeqIds -> [Layers -> Nat]] /\ written \in [SeqIds -> [Layers -> Seq(Values)]]
    BY DEF PoolShape, LengthsEven, WrittenShaped
  <1>4. /\ length' \in [SeqIds -> [Layers -> Nat]]
        /\ \A t \in SeqIds, l \in Layers : length'[t][l] = IF t = s THEN 0 ELSE length[t][l]
    BY <1>1, <1>3
  <1>5. /\ written' \in [SeqIds -> [Layers -> Seq(Values)]]
        /\ \A t \in SeqIds, l \in Layers : written'[t][l] = IF t = s THEN <<>> ELSE written[t][l]
    BY <1>1, <1>3
  <1>6. CallShaped' /\ \A t : ~Busy(t)' /\ ~Busy(t)
    BY <1>1 DEF CallShaped, Busy
  <1>7. LengthsEven'
    <2>1. ASSUME NEW t \in SeqIds, NEW l \in Layers
          PROVE  length'[t][l] = length'[t][0] /\ blocks_for(length'[t][l]) <= Len(tables'[t][1])
      <3>1. length[t][l] = length[t][0] /\ blocks_for(length[t][l]) <= Len(tables[t][1]) /\ 0 \in Layers
        BY <1>6, PoolFacts DEF PoolShape, LengthsEven
      <3>2. blocks_for(0) = 0 /\ Len(tables[t][1]) \in Nat
        BY BlockNumbers, EntryFacts DEF PoolShape
      <3> QED BY <3>1, <3>2, <1>2, <1>4
    <2> QED BY <2>1, <1>4, <1>6 DEF LengthsEven
  <1>8. LensTrue' /\ Unborn' /\ HostsTrue'
    <2>1. LensTrue'
      BY <1>1, <1>2, <1>6 DEF PoolShape, LensTrue
    <2>2. HostsTrue'
      BY <1>1, <1>2 DEF PoolShape, HostsTrue, Remembers, FrameOf
    <2> QED BY <2>1, <2>2, <1>1, <1>2 DEF PoolShape, Unborn
  <1>9. WritableShaped' /\ WrittenShaped'
    <2>1. ASSUME NEW t \in SeqIds, NEW l \in Layers PROVE Len(written'[t][l]) = length'[t][l]
      <3>1. Len(written[t][l]) = length[t][l] /\ Len(<<>>) = 0
        BY DEF PoolShape, WrittenShaped
      <3> QED BY <3>1, <1>4, <1>5
    <2> QED BY <2>1, <1>1, <1>5 DEF PoolShape, WritableShaped, WrittenShaped
  <1> QED BY <1>2, <1>6, <1>7, <1>8, <1>9 DEF PoolShape

LEMMA PoolStepShape ==
    ASSUME PoolShape, [PoolNext]_poolStateVars
    PROVE  PoolShape'
  <1>1. CASE UNCHANGED poolStateVars
    <2>1. UNCHANGED cacheVars /\ UNCHANGED pythonVars
      BY <1>1 DEF poolStateVars
    <2>2. Structure' /\ RefCountsExact' /\ tables' = tables /\ sequences' = sequences
      BY <2>1, QuietShape
    <2>3. /\ host_frames' = host_frames /\ table_len' = table_len /\ writable' = writable /\ length' = length
          /\ call' = call /\ written' = written
      BY <2>1 DEF pythonVars
    <2>4. CallShaped'
      BY <2>2, <2>3 DEF PoolShape, CallShaped
    <2>5. LengthsEven' /\ LensTrue'
      BY <2>2, <2>3 DEF PoolShape, LengthsEven, LensTrue, Busy, Done
    <2>6. HostsTrue'
      BY <2>2, <2>3 DEF PoolShape, HostsTrue, Remembers, FrameOf
    <2>7. Unborn' /\ WritableShaped' /\ WrittenShaped'
      BY <2>2, <2>3 DEF PoolShape, Unborn, WritableShaped, WrittenShaped
    <2> QED BY <2>2, <2>4, <2>5, <2>6, <2>7 DEF PoolShape
  <1>2. CASE PoolNext
    BY <1>2, ForwardShape, GrowShape, ResolveShape, StoreShape, ReadShape, ForkShape, ResetShape DEF PoolNext
  <1> QED BY <1>1, <1>2

(* The Python objects stay well-formed in every order of forward passes,      *)
(* forks and resets, resets of forked caches included.                        *)
THEOREM PoolTypeCorrect ==
    PoolSpec => []PoolTypeOK
  <1>1. PoolInit => PoolShape
    BY PoolInitShape
  <1>2. PoolShape /\ [PoolNext]_poolStateVars => PoolShape'
    BY PoolStepShape
  <1>3. PoolShape => PoolTypeOK
    <2> SUFFICES ASSUME PoolShape PROVE PoolTypeOK
      OBVIOUS
    <2>1. call # NoCall => call.pc \in {"grow", "resolve", "store", "read"}
      BY DEF PoolShape, CallShaped, Running
    <2> QED BY <2>1 DEF PoolShape, PoolTypeOK, Structure, LengthsEven, LensTrue, HostsTrue, WritableShaped, WrittenShaped
  <1> QED BY <1>1, <1>2, <1>3, PTL DEF PoolSpec

-----------------------------------------------------------------------------
(* Exclusiveness is inductive beside PoolShape when no forked cache is reset  *)
(* and no reset cache forked.                                                 *)
(* Ownership is a matter of the tables and the counts. *)
LEMMA QuietOwned ==
    ASSUME tables' = tables, ref_count' = ref_count
    PROVE  \A s, t, f : Owned(s, t, f) => Owned(s, t, f)'
  BY DEF Owned, FrameOf

LEMMA ForwardOwned ==
    ASSUME PoolShape, Exclusiveness, NEW s \in SeqIds, NEW n \in 1 .. MaxTokens, NEW v \in Values, forward(s, n, v)
    PROVE  Exclusiveness'
  <1>1. /\ call = NoCall /\ s \in sequences /\ call' = Entering(s, 0, length[s][0] + n, v)
        /\ UNCHANGED cacheVars /\ writable' = writable /\ length' = length
    BY DEF forward
  <1>2. tables' = tables /\ ref_count' = ref_count /\ sequences' = sequences
    BY <1>1 DEF cacheVars
  <1>3. 0 \in Layers /\ length[s][0] \in Nat /\ n \in Nat /\ n > 0 /\ length[s][0] + n \in Nat
    BY PoolFacts DEF PoolShape, LengthsEven
  <1> DEFINE c == call'
  <1>4. /\ c # NoCall /\ c.pc = "grow" /\ c.seq = s /\ c.layer = 0 /\ c.end = length[s][0] + n
        /\ c.start = length[s][0] /\ c.pos = length[s][0]
    <2>1. ~(Busy(s) /\ call.pc = "grow")
      BY <1>1 DEF Busy
    <2> QED BY <1>1, <1>3, <2>1, EnteringIs
  <1>5. \A t : ~Busy(t) /\ (Busy(t)' <=> t = s)
    BY <1>1, <1>4 DEF Busy
  <1>6. ASSUME NEW w \in writable
        PROVE  /\ w.seq \in sequences
               /\ Owned(w.seq, w.token, w.frame)' \/ (Behind(w.seq, w.token)' /\ sequences # {w.seq})
               /\ IF Busy(w.seq)' THEN w.token < call'.end \/ Starting'
                  ELSE w.token < length[w.seq][0] \/ length[w.seq][0] = 0
    <2>1. /\ w.seq \in sequences
          /\ Owned(w.seq, w.token, w.frame) \/ (Behind(w.seq, w.token) /\ sequences # {w.seq})
          /\ w.token < length[w.seq][0] \/ length[w.seq][0] = 0
      BY <1>5 DEF Exclusiveness, WritableTrue
    <2>2. w.token \in Nat
      BY DEF PoolShape, WritableShaped
    <2>3. Behind(w.seq, w.token) => Behind(w.seq, w.token)'
      BY <1>1, <1>4, <1>5 DEF Behind
    <2>4. Owned(w.seq, w.token, w.frame) => Owned(w.seq, w.token, w.frame)'
      BY <1>2, QuietOwned
    <2>5. w.seq = s => w.token < call'.end \/ Starting'
      BY <1>3, <1>4, <2>1, <2>2 DEF Starting
    <2> QED BY <2>1, <2>3, <2>4, <2>5, <1>5
  <1> HIDE DEF c
  <1>7. WritableTrue'
    BY <1>1, <1>2, <1>6 DEF WritableTrue
  <1>8. OneRemembered' /\ StoreOwned'
    BY <1>1, <1>4 DEF Exclusiveness, OneRemembered, StoreOwned, c
  <1> QED BY <1>7, <1>8 DEF Exclusiveness

(* A step of the pass: the same tokens are behind it, the same end is ahead. *)
SamePass ==
    /\ call # NoCall /\ call' # NoCall /\ call'.seq = call.seq /\ call'.start = call.start /\ call'.end = call.end
LEMMA PassOwned ==
    ASSUME PoolShape, Exclusiveness, SamePass, writable' = writable, sequences' = sequences,
           \A t \in SeqIds : t # call.seq => length'[t] = length[t],
           Starting => Starting' \/ \A w \in writable : w.seq = call.seq => w.token < call.end,
           \A w \in writable : Owned(w.seq, w.token, w.frame) => Owned(w.seq, w.token, w.frame)'
    PROVE  WritableTrue' /\ OneRemembered'
  <1>1. \A t : Busy(t)' <=> Busy(t)
    BY DEF SamePass, Busy
  <1>2. ASSUME NEW w \in writable
        PROVE  /\ w.seq \in sequences
               /\ Owned(w.seq, w.token, w.frame)' \/ (Behind(w.seq, w.token)' /\ sequences # {w.seq})
               /\ IF Busy(w.seq)' THEN w.token < call'.end \/ Starting'
                  ELSE w.token < length'[w.seq][0] \/ length'[w.seq][0] = 0
    <2>1. /\ w.seq \in sequences
          /\ Owned(w.seq, w.token, w.frame) \/ (Behind(w.seq, w.token) /\ sequences # {w.seq})
          /\ IF Busy(w.seq) THEN w.token < call.end \/ Starting
             ELSE w.token < length[w.seq][0] \/ length[w.seq][0] = 0
      BY DEF Exclusiveness, WritableTrue
    <2>2. w.seq \in SeqIds
      BY DEF PoolShape, WritableShaped
    <2>3. Busy(w.seq) <=> w.seq = call.seq
      BY DEF SamePass, Busy
    <2>4. Behind(w.seq, w.token) => Behind(w.seq, w.token)'
      BY <1>1, <2>2, <2>3 DEF Behind, SamePass
    <2> QED BY <1>1, <2>1, <2>2, <2>3, <2>4 DEF SamePass
  <1>3. WritableTrue'
    BY <1>2 DEF WritableTrue
  <1> QED BY <1>3 DEF Exclusiveness, OneRemembered

LEMMA GrowOwned ==
    ASSUME PoolShape, Exclusiveness, ensure_capacity
    PROVE  Exclusiveness'
  <1>1. call.pc = "grow" /\ writable' = writable /\ length' = length
    BY DEF ensure_capacity
  <1>2. call # NoCall
    BY <1>1 DEF NoCall
  <1>3. PICK s \in SeqIds : s = call.seq
    BY <1>2 DEF PoolShape, CallShaped, Running
  <1>4. call \in Running /\ call.start < call.end /\ call.start \in Nat /\ call.end \in Nat /\ call.end <= MaxTokens
    BY <1>2 DEF PoolShape, CallShaped, Running
  <1>5. ASSUME NEW c, call' = c, c.pc \in {"grow", "resolve"}, c.seq = s, c.layer = call.layer, c.start = call.start,
               c.end = call.end, c.pos = call.pos, sequences' = sequences,
               \A w \in writable : Owned(w.seq, w.token, w.frame) => Owned(w.seq, w.token, w.frame)'
        PROVE  Exclusiveness'
    <2>1. c # NoCall
      BY <1>5 DEF NoCall
    <2>2. SamePass /\ (Starting => Starting')
      BY <1>2, <1>3, <1>5, <2>1 DEF SamePass, Starting
    <2>3. WritableTrue' /\ OneRemembered'
      BY <1>1, <1>5, <2>2, PassOwned
    <2>4. StoreOwned'
      BY <1>5 DEF StoreOwned
    <2> QED BY <2>3, <2>4 DEF Exclusiveness
  <1>6. CASE reserve_tokens(s, TokensPerBlock) /\ call' = [call EXCEPT !.have = @ + 1]
    <2>1. MaxTokens > 0
      BY <1>4, PoolFacts
    <2>2. /\ sequences' = sequences /\ Len(tables'[s][1]) = Len(tables[s][1]) + 1
          /\ \A t \in SeqIds : t # s => tables'[t] = tables[t]
          /\ \A i \in 1 .. Len(tables[s][1]) : tables'[s][1][i] = tables[s][1][i]
          /\ \A f \in Frames : ref_count[f] # 0 => ref_count'[f] = ref_count[f]
      BY <1>6, <2>1, GrowDoes DEF PoolShape
    <2>3. ASSUME NEW w \in writable, Owned(w.seq, w.token, w.frame)
          PROVE  Owned(w.seq, w.token, w.frame)'
      <3>1. w.seq \in SeqIds /\ w.frame \in Frames
        BY DEF PoolShape, WritableShaped
      <3>2. BlockOf(w.token) \in 1 .. Len(tables[w.seq][1]) /\ ref_count[w.frame] = 1
        BY <2>3 DEF Owned
      <3>3. /\ BlockOf(w.token) \in 1 .. Len(tables'[w.seq][1])
            /\ FrameOf(w.seq, BlockOf(w.token))' = FrameOf(w.seq, BlockOf(w.token))
        <4>1. Len(tables[s][1]) \in Nat
          BY EntryFacts DEF PoolShape
        <4>2. CASE w.seq = s
          BY <3>2, <4>1, <4>2, <2>2 DEF FrameOf
        <4>3. CASE w.seq # s
          BY <3>1, <3>2, <4>3, <2>2 DEF FrameOf
        <4> QED BY <4>2, <4>3
      <3>4. ref_count'[w.frame] = ref_count[w.frame]
        BY <3>1, <3>2, <2>2
      <3> QED BY <2>3, <3>3, <3>4 DEF Owned
    <2> DEFINE c == call'
    <2>4. /\ c.pc = "grow" /\ c.seq = s /\ c.layer = call.layer /\ c.start = call.start
          /\ c.end = call.end /\ c.pos = call.pos
      BY <1>1, <1>3, <1>4, <1>6 DEF Running
    <2> QED BY <1>5, <2>2, <2>3, <2>4
  <1>7. CASE call' = [call EXCEPT !.pc = "resolve"] /\ UNCHANGED cacheVars
    <2>1. tables' = tables /\ ref_count' = ref_count /\ sequences' = sequences
      BY <1>7 DEF cacheVars
    <2>2. \A w \in writable : Owned(w.seq, w.token, w.frame) => Owned(w.seq, w.token, w.frame)'
      BY <2>1, QuietOwned
    <2> DEFINE c == call'
    <2>4. /\ c.pc = "resolve" /\ c.seq = s /\ c.layer = call.layer /\ c.start = call.start
          /\ c.end = call.end /\ c.pos = call.pos
      BY <1>1, <1>3, <1>4, <1>7, SMTT(30) DEF Running
    <2> QED BY <1>5, <2>1, <2>2, <2>4
  <1> QED BY <1>3, <1>6, <1>7 DEF ensure_capacity

LEMMA ResolveOwned ==
    ASSUME PoolShape, Exclusiveness, writable_frame
    PROVE  Exclusiveness'
  <1>1. call.pc = "resolve" /\ length' = length
    BY DEF writable_frame
  <1>2. call # NoCall
    BY <1>1 DEF NoCall
  <1>3. PICK s \in SeqIds, pos \in Nat : s = call.seq /\ pos = call.pos
    BY <1>2 DEF PoolShape, CallShaped, Running
  <1>4. /\ call \in Running /\ call.start \in Nat /\ call.end \in Nat /\ s \in sequences
        /\ call.start <= pos /\ pos < call.end /\ call.end <= MaxTokens
    BY <1>1, <1>2, <1>3 DEF PoolShape, CallShaped, Running
  <1>5. ASSUME NEW f, call' = [call EXCEPT !.pc = "store", !.frame = {f}]
        PROVE  /\ call' # NoCall /\ call'.pc = "store" /\ call'.seq = s /\ call'.pos = pos /\ call'.frame = {f}
               /\ call'.start = call.start /\ call'.end = call.end
    <2> DEFINE c == call'
    <2>1. /\ c.pc = "store" /\ c.seq = s /\ c.pos = pos /\ c.frame = {f} /\ c.start = call.start /\ c.end = call.end
      BY <1>3, <1>4, <1>5 DEF Running
    <2>2. c # NoCall
      BY <2>1 DEF NoCall
    <2> QED BY <2>1, <2>2
  <1>6. ASSUME NEW f, call' = [call EXCEPT !.pc = "store", !.frame = {f}], Owned(s, pos, f)'
        PROVE  StoreOwned'
    BY <1>5, <1>6 DEF StoreOwned
  <1>7. ASSUME NEW w \in Hit, call' = [call EXCEPT !.pc = "store", !.frame = {w.frame}],
               UNCHANGED <<cacheVars, writable>>
        PROVE  Exclusiveness'
    <2>1. w \in writable /\ w.seq = s /\ w.token = pos
      BY <1>3 DEF Hit
    <2>2. Busy(s) /\ ~Behind(s, pos)
      BY <1>2, <1>3, <1>4 DEF Busy, Behind
    <2>3. Owned(s, pos, w.frame)
      BY <2>1, <2>2 DEF Exclusiveness, WritableTrue
    <2>4. tables' = tables /\ ref_count' = ref_count /\ sequences' = sequences /\ writable' = writable
      BY <1>7 DEF cacheVars
    <2>5. \A t, u, f : Owned(t, u, f) => Owned(t, u, f)'
      BY <2>4, QuietOwned
    <2>6. \A x \in writable : x.token < call.end
      BY <1>4, <2>1 DEF Exclusiveness, OneRemembered
    <2>7. SamePass
      BY <1>2, <1>3, <1>5, <1>7 DEF SamePass
    <2>8. WritableTrue' /\ OneRemembered'
      BY <1>1, <2>4, <2>5, <2>6, <2>7, PassOwned
    <2> QED BY <1>6, <1>7, <2>3, <2>5, <2>8 DEF Exclusiveness
  <1>8. ASSUME NEW f, f = tables'[s][1][BlockOf(pos)].frame, ensure_token_writable(s, pos, 1),
               writable' = {[seq |-> s, token |-> pos, frame |-> f]},
               call' = [call EXCEPT !.pc = "store", !.frame = {f}]
        PROVE  Exclusiveness'
    <2>1. pos \in 0 .. MaxTokens - 1
      BY <1>4, PoolFacts
    <2>2. /\ sequences' = sequences /\ BlockOf(pos) \in 1 .. Len(tables'[s][1])
          /\ ref_count'[FrameOf(s, BlockOf(pos))'] = 1
      BY <1>8, <2>1, WriteDoes DEF PoolShape
    <2>3. Owned(s, pos, f)'
      <3>1. FrameOf(s, BlockOf(pos))' = f
        BY <1>8 DEF FrameOf, BlockOf
      <3> QED BY <2>2, <3>1 DEF Owned
    <2>4. ASSUME NEW w \in writable' PROVE w.seq = s /\ w.token = pos /\ w.frame = f
      BY <1>8
    <2>5. Busy(s)' /\ pos < call'.end
      BY <1>4, <1>5, <1>8 DEF Busy
    <2>6. WritableTrue'
      BY <1>4, <2>2, <2>3, <2>4, <2>5 DEF WritableTrue
    <2>7. OneRemembered'
      BY <1>8 DEF OneRemembered
    <2> QED BY <1>6, <1>8, <2>3, <2>6, <2>7 DEF Exclusiveness
  <1> QED BY <1>3, <1>7, <1>8, ZenonT(30) DEF writable_frame, BlockOf

LEMMA StoreKeepsOwned ==
    ASSUME PoolShape, Exclusiveness, store
    PROVE  Exclusiveness'
  <1>1. PICK s \in SeqIds, l \in Layers, start, pos, end, count \in Nat, v \in Values, f \in Frames :
              StoreFrom(s, l, start, pos, end, v, f) /\ StoreTo(s, l, start, pos, end, v, f, count)
    BY StoreDoes
  <1>2. /\ call # NoCall /\ call.pc = "store" /\ call.seq = s /\ call.start = start /\ call.end = end
        /\ call' # NoCall /\ call'.seq = s /\ call'.start = start /\ call'.end = end /\ call'.pc # "store"
        /\ tables' = tables /\ ref_count' = ref_count /\ sequences' = sequences /\ writable' = writable
    BY <1>1 DEF StoreFrom, StoreTo
  <1>3. \A t \in SeqIds : t # s => length'[t] = length[t]
    <2>1. /\ length \in [SeqIds -> [Layers -> Nat]] /\ length' \in [SeqIds -> [Layers -> Nat]]
          /\ \A t \in SeqIds, m \in Layers : t # s => length'[t][m] = length[t][m]
      BY <1>1 DEF StoreTo, PoolShape, LengthsEven
    <2> QED BY <2>1
  <1>4. WritableTrue' /\ OneRemembered'
    <2>1. SamePass /\ ~Starting
      BY <1>2 DEF SamePass, Starting
    <2>2. \A w \in writable : Owned(w.seq, w.token, w.frame) => Owned(w.seq, w.token, w.frame)'
      BY <1>2, QuietOwned
    <2> QED BY <1>2, <1>3, <2>1, <2>2, PassOwned
  <1>5. StoreOwned'
    BY <1>2 DEF StoreOwned
  <1> QED BY <1>4, <1>5 DEF Exclusiveness

LEMMA ReadOwned ==
    ASSUME PoolShape, Exclusiveness, read
    PROVE  Exclusiveness'
  <1>1. call.pc = "read" /\ UNCHANGED <<cacheVars, writable, length>>
    BY DEF read
  <1>2. call # NoCall
    BY <1>1 DEF NoCall
  <1>3. PICK s \in SeqIds, l \in Layers, start, end \in Nat, v \in Values :
            s = call.seq /\ l = call.layer /\ start = call.start /\ end = call.end /\ v = call.value
    BY <1>2 DEF PoolShape, CallShaped, Running
  <1>4. s \in sequences /\ start < end /\ call' = IF l + 1 \in Layers THEN Entering(s, l + 1, end, v) ELSE NoCall
    BY <1>2, <1>3 DEF PoolShape, CallShaped, read
  <1>5. tables' = tables /\ ref_count' = ref_count /\ sequences' = sequences /\ writable' = writable /\ length' = length
    BY <1>1 DEF cacheVars
  <1>6. l \in Nat /\ \A m \in Layers : m \in Nat /\ length[s][m] = IF m <= l THEN end ELSE start
    <2>1. l \in Nat /\ \A m \in Layers : m \in Nat /\ (Done(m) <=> m <= l)
      BY <1>1, <1>3, PoolFacts DEF Done
    <2> QED BY <2>1, <1>2, <1>3 DEF PoolShape, LengthsEven, Busy
  <1>7. \A w \in writable : Owned(w.seq, w.token, w.frame) => Owned(w.seq, w.token, w.frame)'
    BY <1>5, QuietOwned
  <1>8. CASE l + 1 \in Layers
    <2> DEFINE c == call'
    <2>1. c = Entering(s, l + 1, end, v)
      BY <1>4, <1>8
    <2>2. c # NoCall /\ c.pc = "grow" /\ c.seq = s /\ c.end = end /\ c.start = length[s][l + 1]
      BY <1>1, <1>4, <1>8, <2>1, EnteringIs
    <2>3. length[s][l + 1] = start
      BY <1>6, <1>8
    <2>4. SamePass /\ ~Starting
      BY <1>1, <1>2, <1>3, <2>2, <2>3 DEF SamePass, Starting
    <2>5. WritableTrue' /\ OneRemembered'
      BY <1>5, <1>7, <2>4, PassOwned
    <2>6. StoreOwned'
      BY <2>2 DEF StoreOwned
    <2> QED BY <2>5, <2>6 DEF Exclusiveness
  <1>9. CASE l + 1 \notin Layers
    <2>1. call' = NoCall /\ \A t : ~Busy(t)'
      BY <1>4, <1>9 DEF Busy
    <2>2. length[s][0] = end
      BY <1>6, PoolFacts
    <2>3. ASSUME NEW w \in writable
          PROVE  /\ w.seq \in sequences
                 /\ Owned(w.seq, w.token, w.frame)' \/ (Behind(w.seq, w.token)' /\ sequences # {w.seq})
                 /\ w.token < length[w.seq][0] \/ length[w.seq][0] = 0
      <3>1. /\ w.seq \in sequences
            /\ Owned(w.seq, w.token, w.frame) \/ (Behind(w.seq, w.token) /\ sequences # {w.seq})
            /\ IF Busy(w.seq) THEN w.token < call.end \/ Starting
               ELSE w.token < length[w.seq][0] \/ length[w.seq][0] = 0
        BY DEF Exclusiveness, WritableTrue
      <3>2. w.token \in Nat /\ ~Starting
        BY <1>1 DEF PoolShape, WritableShaped, Starting
      <3>3. Behind(w.seq, w.token) => Behind(w.seq, w.token)'
        <4>1. CASE w.seq = s
          BY <4>1, <1>2, <1>3, <1>4, <1>5, <2>1, <2>2, <3>2 DEF Behind, Busy
        <4>2. CASE w.seq # s
          BY <4>2, <1>3, <1>5, <2>1 DEF Behind, Busy
        <4> QED BY <4>1, <4>2
      <3>4. Busy(w.seq) => w.seq = s
        BY <1>3 DEF Busy
      <3> QED BY <3>1, <3>2, <3>3, <3>4, <1>3, <1>7, <2>2
    <2>4. WritableTrue'
      BY <1>5, <2>1, <2>3 DEF WritableTrue
    <2>5. OneRemembered' /\ StoreOwned'
      BY <1>5, <2>1 DEF Exclusiveness, OneRemembered, StoreOwned, NoCall
    <2> QED BY <2>4, <2>5 DEF Exclusiveness
  <1> QED BY <1>8, <1>9

LEMMA ForkOwned ==
    ASSUME ~ResetsWithForks, PoolShape, Exclusiveness, NEW parent \in SeqIds, NEW child \in SeqIds,
           fork(parent, child)
    PROVE  Exclusiveness'
  <1>1. /\ call = NoCall /\ call' = NoCall /\ fork_sequence(parent, child, child)
        /\ length[parent][0] > 0 \/ tables[parent][1] = <<>>
        /\ length' = [length EXCEPT ![child] = length[parent]] /\ writable' = writable
    BY DEF fork
  <1>2. /\ parent \in sequences /\ child \notin sequences /\ sequences' = sequences \cup {child}
        /\ \A t \in SeqIds : t # child => tables'[t] = tables[t]
        /\ \A f \in Frames : (\A i \in 1 .. Len(tables[parent][1]) : FrameOf(parent, i) # f)
                                 => ref_count'[f] = ref_count[f]
    BY <1>1, ForkDoes DEF PoolShape
  <1>3. \A t : ~Busy(t) /\ ~Busy(t)'
    BY <1>1 DEF Busy
  <1>4. \A t \in SeqIds : t # child => length'[t] = length[t]
    BY <1>1 DEF PoolShape, LengthsEven
  <1>5. length[parent][0] \in Nat
    BY PoolFacts DEF PoolShape, LengthsEven
  <1>6. ASSUME NEW w \in writable
        PROVE  /\ w.seq \in sequences'
               /\ Owned(w.seq, w.token, w.frame)' \/ (Behind(w.seq, w.token)' /\ sequences' # {w.seq})
               /\ w.token < length'[w.seq][0] \/ length'[w.seq][0] = 0
    <2>1. /\ w.seq \in sequences
          /\ Owned(w.seq, w.token, w.frame) \/ (Behind(w.seq, w.token) /\ sequences # {w.seq})
          /\ w.token < length[w.seq][0] \/ length[w.seq][0] = 0
      BY <1>3 DEF Exclusiveness, WritableTrue
    <2>2. w.seq \in SeqIds /\ w.token \in Nat /\ w.frame \in Frames /\ w.seq # child
      BY <2>1, <1>2 DEF PoolShape, WritableShaped
    <2>3. sequences' # {w.seq} /\ length'[w.seq] = length[w.seq]
      BY <1>2, <1>4, <2>2
    <2>4. Behind(w.seq, w.token)' <=> w.token < length[w.seq][0]
      BY <1>3, <2>3 DEF Behind
    <2>5. CASE w.token < length[w.seq][0]
      BY <2>5, <1>2, <2>1, <2>3, <2>4
    <2>6. CASE ~(w.token < length[w.seq][0])
      <3>1. Owned(w.seq, w.token, w.frame)
        BY <2>1, <2>6, <1>3 DEF Behind
      <3>2. PICK i \in 1 .. Len(tables[w.seq][1]) :
                i = BlockOf(w.token) /\ FrameOf(w.seq, i) = w.frame /\ ref_count[w.frame] = 1
        BY <3>1 DEF Owned
      <3>3. w.seq # parent
        <4>1. length[w.seq][0] = 0
          BY <2>1, <2>6
        <4>2. tables[w.seq][1] # <<>>
          BY <3>2
        <4> QED BY <4>1, <4>2, <1>1, <1>5
      <3>4. HeldOnlyAt(w.seq, 1, i, w.frame)
        <4>1. tables[w.seq][1][i].slot = NoSlot /\ tables[w.seq][1][i].frame = w.frame
          BY <2>2, <3>2, EntryFacts DEF PoolShape, FrameOf
        <4>2. ref_count[tables[w.seq][1][i].frame] <= 1
          BY <3>2, <4>1
        <4>3. HeldOnlyAt(w.seq, 1, i, tables[w.seq][1][i].frame)
          BY <2>2, <4>1, <4>2, PoolFacts, SoleHolder DEF PoolShape
        <4> QED BY <4>1, <4>3
      <3>5. \A j \in 1 .. Len(tables[parent][1]) : FrameOf(parent, j) # w.frame
        BY <3>3, <3>4, PoolFacts, EntryFacts DEF HeldOnlyAt, PoolShape, FrameOf
      <3>6. ref_count'[w.frame] = ref_count[w.frame] /\ tables'[w.seq] = tables[w.seq]
        BY <1>2, <2>2, <3>5
      <3>7. Owned(w.seq, w.token, w.frame)'
        BY <3>1, <3>6 DEF Owned, FrameOf
      <3> QED BY <1>2, <2>1, <2>3, <3>7
    <2> QED BY <2>5, <2>6
  <1>7. WritableTrue'
    BY <1>1, <1>3, <1>6 DEF WritableTrue
  <1>8. OneRemembered' /\ StoreOwned'
    BY <1>1 DEF Exclusiveness, OneRemembered, StoreOwned, NoCall
  <1> QED BY <1>7, <1>8 DEF Exclusiveness

(* A token the reset puts ahead again is owned: no fork shares its frame. *)
LEMMA ResetOwned ==
    ASSUME ~ResetsWithForks, PoolShape, Exclusiveness, NEW s \in SeqIds, reset(s)
    PROVE  Exclusiveness'
  <1>1. /\ call = NoCall /\ call' = NoCall /\ sequences = {s} /\ UNCHANGED cacheVars
        /\ length' = [length EXCEPT ![s] = [l \in Layers |-> 0]] /\ writable' = writable
    BY DEF reset, LengthAfterReset
  <1>2. tables' = tables /\ ref_count' = ref_count /\ sequences' = sequences
    BY <1>1 DEF cacheVars
  <1>3. \A t : ~Busy(t)'
    BY <1>1 DEF Busy
  <1>4. length'[s][0] = 0
    BY <1>1, PoolFacts DEF PoolShape, LengthsEven
  <1>5. ASSUME NEW w \in writable
        PROVE  w.seq \in sequences /\ Owned(w.seq, w.token, w.frame)' /\ length'[w.seq][0] = 0
    <2>1. w.seq = s /\ Owned(w.seq, w.token, w.frame)
      BY <1>1 DEF Exclusiveness, WritableTrue
    <2> QED BY <1>1, <1>2, <1>4, <2>1, QuietOwned
  <1>6. WritableTrue'
    BY <1>1, <1>2, <1>3, <1>5 DEF WritableTrue
  <1>7. OneRemembered' /\ StoreOwned'
    BY <1>1 DEF Exclusiveness, OneRemembered, StoreOwned, NoCall
  <1> QED BY <1>6, <1>7 DEF Exclusiveness

LEMMA PoolStepOwned ==
    ASSUME ~ResetsWithForks, PoolShape, Exclusiveness, [PoolNext]_poolStateVars
    PROVE  Exclusiveness'
  <1>1. CASE UNCHANGED poolStateVars
    <2>1. /\ tables' = tables /\ ref_count' = ref_count /\ sequences' = sequences
          /\ writable' = writable /\ length' = length /\ call' = call
      BY <1>1 DEF poolStateVars, cacheVars, pythonVars
    <2>2. WritableTrue'
      BY <2>1 DEF Exclusiveness, WritableTrue, Owned, FrameOf, Behind, Busy, Starting
    <2>3. OneRemembered' /\ StoreOwned'
      BY <2>1 DEF Exclusiveness, OneRemembered, StoreOwned, Owned, FrameOf
    <2> QED BY <2>2, <2>3 DEF Exclusiveness
  <1>2. CASE PoolNext
    BY <1>2, ForwardOwned, GrowOwned, ResolveOwned, StoreKeepsOwned, ReadOwned, ForkOwned, ResetOwned DEF PoolNext
  <1> QED BY <1>1, <1>2

(* Honoring copy-on-write: in a pool whose forked caches are not reset, and   *)
(* whose reset caches are not forked while they are empty, a store goes to    *)
(* the frame the block table gives the token and to no frame that another     *)
(* sequence reads, however old the remembered frame is.                       *)
THEOREM StoresOwnFrames ==
    ASSUME ~ResetsWithForks
    PROVE  PoolSpec => []StoresExclusive
  <1>1. PoolInit => PoolShape /\ Exclusiveness
    <2>1. PoolInit => Exclusiveness
      BY DEF PoolInit, Exclusiveness, WritableTrue, OneRemembered, StoreOwned, NoCall
    <2> QED BY <2>1, PoolInitShape
  <1>2. PoolShape /\ Exclusiveness /\ [PoolNext]_poolStateVars => PoolShape' /\ Exclusiveness'
    BY PoolStepShape, PoolStepOwned
  <1>3. PoolShape /\ Exclusiveness => StoresExclusive
    <2> SUFFICES ASSUME PoolShape, Exclusiveness, call.pc = "store", NEW f \in call.frame
                 PROVE  ref_count[f] = 1 /\ At(call.seq, CellOf(call.pos, 1)).frame = f
      BY DEF StoresExclusive
    <2>1. Owned(call.seq, call.pos, f)
      BY DEF Exclusiveness, StoreOwned
    <2> QED BY <2>1 DEF Owned, FrameOf, BlockOf, At, CellOf
  <1> QED BY <1>1, <1>2, <1>3, PTL DEF PoolSpec

-----------------------------------------------------------------------------
(* TokensTrue is inductive beside both. *)

(* A token of a cache has a block in its table. *)
LEMMA TokenBlock ==
    ASSUME PoolShape, NEW s \in SeqIds, NEW n \in Nat, blocks_for(n) <= Len(tables[s][1])
    PROVE  \A t \in 0 .. n - 1 : t \in Nat /\ BlockOf(t) \in 1 .. Len(tables[s][1])
  <1>1. Len(tables[s][1]) \in Nat /\ blocks_for(n) \in Nat
    BY EntryFacts, BlockNumbers DEF PoolShape
  <1>2. \A t \in Nat : t < n => BlockOf(t) \in 1 .. blocks_for(n)
    BY BlockNumbers
  <1>3. \A t \in 0 .. n - 1 : t \in Nat /\ t < n
    OBVIOUS
  <1>4. \A b \in 1 .. blocks_for(n) : b \in 1 .. Len(tables[s][1])
    BY <1>1
  <1> QED BY <1>2, <1>3, <1>4

(* Stored tokens stay when their rows do. *)
LEMMA StoredKept ==
    ASSUME PoolShape, TokensStored, sequences' = sequences, length' = length, written' = written,
           \A s \in SeqIds : \A t \in Nat : BlockOf(t) \in 1 .. Len(tables[s][1]) =>
              \A l \in Layers : Token(s, l, t)' = Token(s, l, t)
    PROVE  TokensStored'
  <1>1. ASSUME NEW s \in sequences, NEW l \in Layers, NEW t \in 0 .. length[s][l] - 1
        PROVE  Token(s, l, t)' = written[s][l][t + 1]
    <2>1. s \in SeqIds /\ length[s][l] \in Nat /\ blocks_for(length[s][l]) <= Len(tables[s][1])
      BY DEF PoolShape, Structure, TypeOK, LengthsEven
    <2>2. t \in Nat /\ BlockOf(t) \in 1 .. Len(tables[s][1])
      BY <2>1, TokenBlock
    <2>3. Token(s, l, t) = written[s][l][t + 1]
      BY DEF TokensStored
    <2> QED BY <2>1, <2>2, <2>3
  <1> QED BY <1>1 DEF TokensStored

LEMMA QuietTokens ==
    ASSUME PoolShape, TokensStored, tables' = tables, data' = data, sequences' = sequences,
           length' = length, written' = written
    PROVE  TokensStored' /\ \A s, l, t : Token(s, l, t)' = Token(s, l, t)
  <1>1. \A s, l, t : Token(s, l, t)' = Token(s, l, t)
    BY DEF Token, FrameOf
  <1> QED BY <1>1, StoredKept

LEMMA GrowTokens ==
    ASSUME PoolShape, TokensTrue, ensure_capacity
    PROVE  TokensTrue'
  <1>1. call.pc = "grow" /\ length' = length /\ written' = written
    BY DEF ensure_capacity
  <1>2. call # NoCall
    BY <1>1 DEF NoCall
  <1>3. PICK s \in SeqIds : s = call.seq
    BY <1>2 DEF PoolShape, CallShaped, Running
  <1>4. /\ call \in Running /\ call.start < call.end /\ call.start \in Nat /\ call.end \in Nat /\ call.end <= MaxTokens
        /\ call.pos = call.start
    BY <1>1, <1>2 DEF PoolShape, CallShaped, Running
  <1>5. CASE reserve_tokens(s, TokensPerBlock) /\ call' = [call EXCEPT !.have = @ + 1]
    <2>1. MaxTokens > 0
      BY <1>4, PoolFacts
    <2>2. /\ sequences' = sequences /\ data' = data
          /\ \A t \in SeqIds : t # s => tables'[t] = tables[t]
          /\ \A i \in 1 .. Len(tables[s][1]) : tables'[s][1][i] = tables[s][1][i]
      BY <1>5, <2>1, GrowDoes DEF PoolShape
    <2>3. \A u \in SeqIds : \A i \in 1 .. Len(tables[u][1]) : FrameOf(u, i)' = FrameOf(u, i)
      BY <2>2 DEF FrameOf
    <2>4. TokensStored'
      <3>1. ASSUME NEW u \in SeqIds, NEW t \in Nat, BlockOf(t) \in 1 .. Len(tables[u][1]), NEW l \in Layers
            PROVE  Token(u, l, t)' = Token(u, l, t)
        BY <2>2, <2>3, <3>1 DEF Token
      <3> QED BY <1>1, <2>2, <3>1, StoredKept DEF TokensTrue
    <2>5. call'.pc = "grow"
      BY <1>1, <1>4, <1>5 DEF Running
    <2> QED BY <2>4, <2>5 DEF TokensTrue, TokensStoring
  <1>6. CASE call' = [call EXCEPT !.pc = "resolve"] /\ UNCHANGED cacheVars
    <2>1. TokensStored'
      BY <1>1, <1>6, QuietTokens DEF cacheVars, TokensTrue
    <2>2. call'.start = call.start /\ call'.pos = call.start
      BY <1>4, <1>6 DEF Running
    <2>3. call'.start .. call'.pos - 1 = {}
      BY <1>4, <2>2, SMTT(30)
    <2> QED BY <2>1, <2>3 DEF TokensTrue, TokensStoring
  <1> QED BY <1>3, <1>5, <1>6 DEF ensure_capacity

LEMMA ResolveTokens ==
    ASSUME PoolShape, TokensTrue, writable_frame
    PROVE  TokensTrue'
  <1>1. call.pc = "resolve" /\ length' = length /\ written' = written
    BY DEF writable_frame
  <1>2. call # NoCall
    BY <1>1 DEF NoCall
  <1>3. PICK s \in SeqIds, l \in Layers, start, pos, end \in Nat, v \in Values :
            /\ s = call.seq /\ l = call.layer /\ start = call.start /\ pos = call.pos /\ end = call.end
            /\ v = call.value
    BY <1>2 DEF PoolShape, CallShaped, Running
  <1>4. /\ call \in Running /\ start <= pos /\ pos < end /\ end <= MaxTokens /\ blocks_for(end) <= Len(tables[s][1])
    BY <1>1, <1>2, <1>3 DEF PoolShape, CallShaped
  <1>5. \A t \in start .. pos - 1 : /\ t \in Nat /\ BlockOf(t) \in 1 .. Len(tables[s][1])
                                    /\ Token(s, l, t) = v
    <2>1. \A t \in 0 .. end - 1 : t \in Nat /\ BlockOf(t) \in 1 .. Len(tables[s][1])
      BY <1>4, TokenBlock
    <2>2. \A t \in start .. pos - 1 : t \in 0 .. end - 1
      BY <1>4
    <2> QED BY <2>1, <2>2, <1>1, <1>3 DEF TokensTrue, TokensStoring
  <1>6. ASSUME NEW f, call' = [call EXCEPT !.pc = "store", !.frame = {f}],
               \A t \in start .. pos - 1 : Token(s, l, t)' = v
        PROVE  TokensStoring'
    <2>1. call'.seq = s /\ call'.layer = l /\ call'.start = start /\ call'.pos = pos /\ call'.value = v
      BY <1>3, <1>4, <1>6 DEF Running
    <2> QED BY <1>6, <2>1 DEF TokensStoring
  <1>7. ASSUME NEW w \in Hit, call' = [call EXCEPT !.pc = "store", !.frame = {w.frame}], UNCHANGED cacheVars
        PROVE  TokensTrue'
    <2>1. TokensStored' /\ \A u, m, t : Token(u, m, t)' = Token(u, m, t)
      BY <1>1, <1>7, QuietTokens DEF cacheVars, TokensTrue
    <2> QED BY <1>5, <1>6, <1>7, <2>1 DEF TokensTrue
  <1>8. ASSUME NEW f, ensure_token_writable(s, pos, 1), call' = [call EXCEPT !.pc = "store", !.frame = {f}]
        PROVE  TokensTrue'
    <2>1. pos \in 0 .. MaxTokens - 1
      BY <1>4, PoolFacts
    <2>2. /\ sequences' = sequences
          /\ \A u \in SeqIds : \A i \in 1 .. Len(tables[u][1]) : data'[FrameOf(u, i)'] = data[FrameOf(u, i)]
      BY <1>8, <2>1, WriteDoes DEF PoolShape
    <2>3. ASSUME NEW u \in SeqIds, NEW t \in Nat, BlockOf(t) \in 1 .. Len(tables[u][1]), NEW m \in Layers
          PROVE  Token(u, m, t)' = Token(u, m, t)
      BY <2>2, <2>3 DEF Token
    <2>4. TokensStored'
      BY <1>1, <2>2, <2>3, StoredKept DEF TokensTrue
    <2> QED BY <1>5, <1>6, <1>8, <2>3, <2>4 DEF TokensTrue
  <1> QED BY <1>3, <1>7, <1>8, ZenonT(30) DEF writable_frame

(* The rows written are ahead of every stored token of their layer, and the   *)
(* frame is in no other place of any table.                                   *)
LEMMA StoreTokens ==
    ASSUME PoolShape, Exclusiveness, TokensTrue, store
    PROVE  TokensTrue'
  <1>1. PICK s \in SeqIds, l \in Layers, start, pos, end, count \in Nat, v \in Values, f \in Frames :
              /\ StoreFrom(s, l, start, pos, end, v, f) /\ StoreTo(s, l, start, pos, end, v, f, count)
              /\ count = IF TokensPerBlock - (pos % TokensPerBlock) < end - pos
                         THEN TokensPerBlock - (pos % TokensPerBlock) ELSE end - pos
    BY StoreDoes
  <1>2. /\ call # NoCall /\ call.pc = "store" /\ call.seq = s /\ call.layer = l /\ call.start = start
        /\ call.pos = pos /\ call.end = end /\ call.value = v /\ call.frame = {f}
        /\ s \in sequences /\ start <= pos /\ pos < end /\ blocks_for(end) <= Len(tables[s][1])
    BY <1>1 DEF StoreFrom
  <1>3. /\ call'.seq = s /\ call'.layer = l /\ call'.start = start /\ call'.pos = pos + count
        /\ call'.value = v /\ call'.pc = (IF pos + count = end THEN "read" ELSE "resolve")
        /\ tables' = tables /\ sequences' = sequences
        /\ \A g \in Frames, m \in Layers, i \in 0 .. TokensPerBlock - 1 :
              data'[g][m][i] = IF g = f /\ m = l /\ i \in Rows(pos, count) THEN v ELSE data[g][m][i]
    BY <1>1 DEF StoreTo
  <1>4. \A t \in SeqIds, m \in Layers :
          LET here == t = s /\ m = l /\ pos + count = end
          IN  /\ length'[t][m] = IF here THEN end ELSE length[t][m]
              /\ ~here => written'[t][m] = written[t][m]
              /\ here => \A i \in 1 .. end : written'[t][m][i] = IF i <= start THEN written[t][m][i] ELSE v
    BY <1>1 DEF StoreTo
  <1>5. /\ count > 0 /\ pos + count <= end
        /\ \A t \in pos .. pos + count - 1 : /\ BlockOf(t) = BlockOf(pos)
                                             /\ t % TokensPerBlock \in Rows(pos, count)
                                             /\ t % TokensPerBlock \in 0 .. TokensPerBlock - 1
        /\ \A t \in Nat : t < pos /\ BlockOf(t) = BlockOf(pos) => t % TokensPerBlock < pos % TokensPerBlock
    BY <1>1, <1>2, StoreSpan DEF Rows
  <1>6. PICK b \in 1 .. Len(tables[s][1]) : b = BlockOf(pos) /\ FrameOf(s, b) = f /\ ref_count[f] = 1
    BY <1>2 DEF Exclusiveness, StoreOwned, Owned
  <1>7. \A u \in SeqIds : \A j \in 1 .. Len(tables[u][1]) : FrameOf(u, j) = f => u = s /\ j = b
    <2>1. tables[s][1][b].slot = NoSlot /\ tables[s][1][b].frame = f /\ ref_count[tables[s][1][b].frame] <= 1
      BY <1>6, EntryFacts DEF PoolShape, FrameOf
    <2>2. HeldOnlyAt(s, 1, b, tables[s][1][b].frame)
      BY <2>1, PoolFacts, SoleHolder DEF PoolShape
    <2>3. \A u \in SeqIds : \A j \in 1 .. Len(tables[u][1]) : tables[u][1][j].slot = NoSlot
      BY EntryFacts DEF PoolShape
    <2> QED BY <2>1, <2>2, <2>3, PoolFacts DEF HeldOnlyAt, FrameOf
  <1>8. \A t \in Nat : t % TokensPerBlock \in 0 .. TokensPerBlock - 1
    BY PoolFacts
  <1>9. ASSUME NEW u \in SeqIds, NEW m \in Layers, NEW t \in Nat, BlockOf(t) \in 1 .. Len(tables[u][1]),
               u = s /\ m = l => t < pos
        PROVE  Token(u, m, t)' = Token(u, m, t)
    <2> DEFINE g == FrameOf(u, BlockOf(t))
    <2>1. g \in Frames
      BY <1>9, EntryFacts DEF PoolShape
    <2>2. ~(g = f /\ m = l /\ t % TokensPerBlock \in Rows(pos, count))
      <3>1. SUFFICES ASSUME g = f, m = l, t % TokensPerBlock \in Rows(pos, count) PROVE FALSE
        OBVIOUS
      <3>2. u = s /\ BlockOf(t) = b
        BY <1>7, <1>9, <3>1
      <3>3. t % TokensPerBlock < pos % TokensPerBlock
        BY <1>5, <1>6, <1>9, <3>1, <3>2
      <3>4. pos % TokensPerBlock \in Nat /\ t % TokensPerBlock \in Nat
        BY PoolFacts
      <3> QED BY <3>1, <3>3, <3>4 DEF Rows
    <2>3. g' = g
      BY <1>3 DEF FrameOf
    <2> HIDE DEF g
    <2>4. data'[g][m][t % TokensPerBlock] = data[g][m][t % TokensPerBlock]
      BY <1>3, <1>8, <2>1, <2>2
    <2> QED BY <2>3, <2>4 DEF Token, g
  <1>10. ASSUME NEW t \in pos .. pos + count - 1 PROVE Token(s, l, t)' = v
    <2>1. BlockOf(t) = b /\ FrameOf(s, b)' = f
      BY <1>3, <1>5, <1>6 DEF FrameOf
    <2>2. data'[f][l][t % TokensPerBlock] = v
      BY <1>3, <1>5
    <2> QED BY <2>1, <2>2 DEF Token
  <1>11. \A t \in 0 .. end - 1 : t \in Nat /\ BlockOf(t) \in 1 .. Len(tables[s][1])
    BY <1>2, TokenBlock
  <1>12. ASSUME NEW t \in start .. pos + count - 1 PROVE Token(s, l, t)' = v
    <2>1. CASE t < pos
      <3>1. t \in Nat /\ BlockOf(t) \in 1 .. Len(tables[s][1])
        BY <2>1, <1>2, <1>11
      <3>2. Token(s, l, t) = v
        BY <2>1, <1>2 DEF TokensTrue, TokensStoring
      <3> QED BY <3>1, <3>2, <2>1, <1>9
    <2>2. CASE t >= pos
      BY <2>2, <1>10
    <2> QED BY <2>1, <2>2
  <1>13. TokensStoring'
    BY <1>3, <1>12 DEF TokensStoring
  <1>14. length[s][l] = start
    <2>1. l \in Nat
      BY PoolFacts
    <2> QED BY <2>1, <1>2 DEF PoolShape, LengthsEven, Busy, Done
  <1>15. ASSUME NEW u \in sequences, NEW m \in Layers, NEW t \in 0 .. length[u][m] - 1
         PROVE  Token(u, m, t)' = written[u][m][t + 1]
    <2>1. u \in SeqIds /\ length[u][m] \in Nat /\ blocks_for(length[u][m]) <= Len(tables[u][1])
      BY DEF PoolShape, Structure, TypeOK, LengthsEven
    <2>2. t \in Nat /\ BlockOf(t) \in 1 .. Len(tables[u][1])
      BY <2>1, TokenBlock
    <2>3. u = s /\ m = l => t < pos
      BY <1>2, <1>14
    <2>4. Token(u, m, t) = written[u][m][t + 1]
      BY DEF TokensTrue, TokensStored
    <2> QED BY <2>1, <2>2, <2>3, <2>4, <1>9
  <1>16. ASSUME NEW u \in sequences, NEW m \in Layers, NEW t \in 0 .. length'[u][m] - 1
         PROVE  Token(u, m, t)' = written'[u][m][t + 1]
    <2>1. u \in SeqIds
      BY DEF PoolShape, Structure, TypeOK
    <2>2. CASE u = s /\ m = l /\ pos + count = end
      <3>1. length'[u][m] = end /\ t \in 0 .. end - 1 /\ t + 1 \in 1 .. end
        BY <2>1, <2>2, <1>4
      <3>2. written'[u][m][t + 1] = IF t + 1 <= start THEN written[u][m][t + 1] ELSE v
        BY <2>1, <2>2, <3>1, <1>4
      <3>3. CASE t < start
        BY <3>1, <3>2, <3>3, <2>2, <1>14, <1>15
      <3>4. CASE t >= start
        BY <3>1, <3>2, <3>4, <2>2, <1>12
      <3> QED BY <3>1, <3>3, <3>4
    <2>3. CASE ~(u = s /\ m = l /\ pos + count = end)
      <3>1. length'[u][m] = length[u][m] /\ written'[u][m] = written[u][m]
        BY <2>1, <2>3, <1>4
      <3> QED BY <3>1, <1>15
    <2> QED BY <2>2, <2>3
  <1>17. TokensStored'
    BY <1>3, <1>16 DEF TokensStored
  <1> QED BY <1>13, <1>17 DEF TokensTrue

LEMMA OtherTokens ==
    ASSUME PoolShape, TokensTrue
    PROVE  /\ \A s \in SeqIds, n \in 1 .. MaxTokens, v \in Values : forward(s, n, v) => TokensTrue'
           /\ read => TokensTrue'
           /\ \A parent, child \in SeqIds : fork(parent, child) => TokensTrue'
           /\ \A s \in SeqIds : reset(s) => TokensTrue'
  <1>1. \A s, l, end, v : Entering(s, l, end, v).pc = "grow"
    BY DEF Entering
  <1>2. ASSUME call'.pc \notin {"resolve", "store"} PROVE TokensStoring'
    BY <1>2 DEF TokensStoring
  <1>3. ASSUME NEW s \in SeqIds, NEW n \in 1 .. MaxTokens, NEW v \in Values, forward(s, n, v)
        PROVE  TokensTrue'
    <2>1. TokensStored'
      BY <1>3, QuietTokens DEF forward, cacheVars, TokensTrue
    <2>2. call'.pc = "grow"
      BY <1>1, <1>3 DEF forward
    <2> QED BY <2>1, <2>2, <1>2 DEF TokensTrue
  <1>4. ASSUME read PROVE TokensTrue'
    <2>1. TokensStored'
      BY <1>4, QuietTokens DEF read, cacheVars, TokensTrue
    <2>2. call'.pc \in {"grow", "idle"}
      BY <1>1, <1>4 DEF read, NoCall
    <2> QED BY <2>1, <2>2, <1>2 DEF TokensTrue
  <1>5. ASSUME NEW parent \in SeqIds, NEW child \in SeqIds, fork(parent, child) PROVE TokensTrue'
    <2>1. /\ fork_sequence(parent, child, child) /\ call' = NoCall
          /\ length' = [length EXCEPT ![child] = length[parent]]
          /\ written' = [written EXCEPT ![child] = written[parent]]
      BY <1>5 DEF fork
    <2>2. /\ data' = data /\ parent \in sequences /\ sequences' = sequences \cup {child}
          /\ \A t \in SeqIds : t # child => tables'[t] = tables[t]
          /\ \A i \in 1 .. Len(tables[parent][1]) : FrameOf(child, i)' = FrameOf(parent, i)
      BY <2>1, ForkDoes DEF PoolShape
    <2>3. /\ length'[child] = length[parent] /\ written'[child] = written[parent]
          /\ \A t \in SeqIds : t # child => length'[t] = length[t] /\ written'[t] = written[t]
      BY <2>1 DEF PoolShape, LengthsEven, WrittenShaped
    <2>4. ASSUME NEW s \in sequences', NEW l \in Layers, NEW t \in 0 .. length'[s][l] - 1
          PROVE  Token(s, l, t)' = written'[s][l][t + 1]
      <3>1. sequences \subseteq SeqIds
        BY DEF PoolShape, Structure, TypeOK
      <3>2. CASE s = child
        <4>1. /\ parent \in sequences /\ t \in 0 .. length[parent][l] - 1 /\ written'[s][l] = written[parent][l]
              /\ length[parent][l] \in Nat /\ blocks_for(length[parent][l]) <= Len(tables[parent][1])
          BY <2>2, <2>3, <3>2 DEF PoolShape, LengthsEven
        <4>2. Token(parent, l, t) = written[parent][l][t + 1]
          BY <4>1 DEF TokensTrue, TokensStored
        <4>3. BlockOf(t) \in 1 .. Len(tables[parent][1])
          BY <4>1, TokenBlock
        <4>4. Token(s, l, t)' = Token(parent, l, t)
          BY <2>2, <3>2, <4>3 DEF Token
        <4> QED BY <4>1, <4>2, <4>4
      <3>3. CASE s # child
        <4>1. s \in sequences /\ t \in 0 .. length[s][l] - 1 /\ written'[s][l] = written[s][l] /\ tables'[s] = tables[s]
          BY <2>2, <2>3, <3>1, <3>3
        <4>2. Token(s, l, t) = written[s][l][t + 1]
          BY <4>1 DEF TokensTrue, TokensStored
        <4> QED BY <4>1, <4>2, <2>2 DEF Token, FrameOf
      <3> QED BY <3>2, <3>3
    <2>5. TokensStored'
      BY <2>4 DEF TokensStored
    <2> QED BY <2>1, <2>5, <1>2 DEF TokensTrue, NoCall
  <1>6. ASSUME NEW s \in SeqIds, reset(s) PROVE TokensTrue'
    <2>1. /\ call' = NoCall /\ UNCHANGED cacheVars
          /\ length' = [length EXCEPT ![s] = [l \in Layers |-> 0]]
          /\ written' = [written EXCEPT ![s] = [l \in Layers |-> <<>>]]
      BY <1>6 DEF reset, LengthAfterReset
    <2>2. tables' = tables /\ data' = data /\ sequences' = sequences /\ sequences \subseteq SeqIds
      BY <2>1 DEF cacheVars, PoolShape, Structure, TypeOK
    <2>3. \A u \in SeqIds, l \in Layers :
            /\ u = s => length'[u][l] = 0
            /\ u # s => length'[u][l] = length[u][l] /\ written'[u][l] = written[u][l]
      BY <2>1 DEF PoolShape, LengthsEven, WrittenShaped
    <2>4. ASSUME NEW u \in sequences, NEW l \in Layers, NEW t \in 0 .. length'[u][l] - 1
          PROVE  Token(u, l, t)' = written'[u][l][t + 1]
      <3>1. u # s
        BY <2>2, <2>3
      <3>2. t \in 0 .. length[u][l] - 1 /\ written'[u][l] = written[u][l]
        BY <3>1, <2>2, <2>3
      <3>3. Token(u, l, t) = written[u][l][t + 1]
        BY <3>2 DEF TokensTrue, TokensStored
      <3> QED BY <3>2, <3>3, <2>2 DEF Token, FrameOf
    <2>5. TokensStored'
      BY <2>2, <2>4 DEF TokensStored
    <2> QED BY <2>1, <2>5, <1>2 DEF TokensTrue, NoCall
  <1> QED BY <1>3, <1>4, <1>5, <1>6

LEMMA PoolStepTokens ==
    ASSUME PoolShape, Exclusiveness, TokensTrue, [PoolNext]_poolStateVars
    PROVE  TokensTrue'
  <1>1. CASE UNCHANGED poolStateVars
    <2>1. /\ tables' = tables /\ data' = data /\ sequences' = sequences
          /\ length' = length /\ written' = written /\ call' = call
      BY <1>1 DEF poolStateVars, cacheVars, pythonVars
    <2>2. TokensStored' /\ \A s, l, t : Token(s, l, t)' = Token(s, l, t)
      BY <2>1, QuietTokens DEF TokensTrue
    <2>3. TokensStoring'
      BY <2>1 DEF TokensTrue, TokensStoring, Token, FrameOf
    <2> QED BY <2>2, <2>3 DEF TokensTrue
  <1>2. CASE PoolNext
    BY <1>2, GrowTokens, ResolveTokens, StoreTokens, OtherTokens DEF PoolNext
  <1> QED BY <1>1, <1>2

(* What attention gathers for a layer is the layer's stored tokens, in order. *)
LEMMA GatheredIs ==
    ASSUME PoolShape, TokensStored, NEW s \in sequences, NEW l \in Layers
    PROVE  Gathered(s, l) = written[s][l]
  <1> DEFINE n == length[s][l]
             table == TableFor(s, n)
             text == written[s][l]
             got(t) == data[table[(t - 1) \div TokensPerBlock + 1]][l][(t - 1) % TokensPerBlock]
  <1>1. s \in SeqIds /\ n \in Nat /\ blocks_for(n) <= Len(tables[s][1])
    BY DEF PoolShape, Structure, TypeOK, LengthsEven
  <1>2. \A i \in 1 .. blocks_for(n) : table[i] = FrameOf(s, i)
    BY <1>1, TableForIs
  <1>3. text \in Seq(Values) /\ Len(text) = n
    BY <1>1 DEF PoolShape, WrittenShaped
  <1>4. ASSUME NEW t \in 1 .. n PROVE got(t) = text[t]
    <2> DEFINE u == t - 1
    <2>1. u \in Nat /\ u < n /\ u \in 0 .. n - 1 /\ u + 1 = t
      BY <1>1
    <2>2. BlockOf(u) \in 1 .. blocks_for(n)
      BY <1>1, <2>1, BlockNumbers
    <2>3. table[BlockOf(u)] = FrameOf(s, BlockOf(u))
      BY <1>2, <2>2
    <2>4. Token(s, l, u) = text[u + 1]
      BY <2>1 DEF TokensStored
    <2> HIDE DEF table
    <2> QED BY <2>1, <2>3, <2>4 DEF Token, BlockOf
  <1>5. Gathered(s, l) = [t \in 1 .. n |-> got(t)]
    BY DEF Gathered
  <1> HIDE DEF got, n, text
  <1>6. Gathered(s, l) = [t \in 1 .. n |-> text[t]]
    BY <1>4, <1>5
  <1>7. text = [t \in 1 .. n |-> text[t]]
    BY <1>3
  <1> QED BY <1>6, <1>7 DEF text

(* In a pool whose forked caches are not reset, and whose reset caches are    *)
(* not forked while they are empty, a layer's read returns what               *)
(* was stored through that layer or inherited by the fork, in every order of  *)
(* the passes, forks and resets: no branch sees another's writes and no       *)
(* remembered table is stale.                                                 *)
THEOREM ReadsOwn ==
    ASSUME ~ResetsWithForks
    PROVE  PoolSpec => []ReadsOwnTokens
  <1> DEFINE PoolInv == PoolShape /\ Exclusiveness /\ TokensTrue
  <1>1. PoolInit => PoolInv
    <2>1. PoolInit => Exclusiveness
      BY DEF PoolInit, Exclusiveness, WritableTrue, OneRemembered, StoreOwned, NoCall
    <2>2. PoolInit => TokensTrue
      <3> SUFFICES ASSUME PoolInit PROVE TokensTrue
        OBVIOUS
      <3>1. \A s \in SeqIds, l \in Layers : length[s][l] = 0
        BY DEF PoolInit
      <3>2. sequences \subseteq SeqIds /\ call.pc = "idle"
        BY PoolFacts DEF PoolInit, NoCall
      <3>3. TokensStored
        BY <3>1, <3>2 DEF TokensStored
      <3> QED BY <3>2, <3>3 DEF TokensTrue, TokensStoring
    <2> QED BY <2>1, <2>2, PoolInitShape
  <1>2. PoolInv /\ [PoolNext]_poolStateVars => PoolInv'
    BY PoolStepShape, PoolStepOwned, PoolStepTokens
  <1>3. PoolInv => ReadsOwnTokens
    <2> SUFFICES ASSUME PoolInv PROVE ReadsOwnTokens
      OBVIOUS
    <2>1. \A s \in sequences, l \in Layers : Gathered(s, l) = written[s][l]
      BY GatheredIs DEF TokensTrue
    <2>2. call.pc = "read" => call.seq \in sequences /\ call.layer \in Layers
      <3> SUFFICES ASSUME call.pc = "read" PROVE call.seq \in sequences /\ call.layer \in Layers
        OBVIOUS
      <3>1. call # NoCall
        BY DEF NoCall
      <3> QED BY <3>1 DEF PoolShape, CallShaped, Running
    <2> QED BY <2>1, <2>2 DEF ReadsOwnTokens
  <1> HIDE DEF PoolInv
  <1> QED BY <1>1, <1>2, <1>3, PTL DEF PoolSpec
=============================================================================
