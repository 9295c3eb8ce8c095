--------------------------- MODULE KVCacheManager ---------------------------
(***************************************************************************)
(* The cache manager: sequences, their block tables, sharing by fork and   *)
(* by published prefixes, copy-on-write, and swapping.  It is built on the *)
(* frame pool of FrameRefs, in which any free frame may be handed out (the *)
(* order of the LIFO free list is MemoryAllocator's business) and any slot *)
(* not in use may hold an evicted frame.  A call that returns false, 0 or  *)
(* nullopt leaves the state alone and is not a step.                       *)
(***************************************************************************)
EXTENDS FrameRefs, Sequences, Functions

CONSTANTS
    SeqIds,         \* SequenceId
    Requests,       \* RequestId
    Keys,           \* prefix keys
    NumTables,      \* table_count(): num_layers with per-layer frames, else 1
    TokensPerBlock, \* BlockShape::tokens_per_block
    Slots,          \* the slots of the swap backend; {} when none is installed
    Contents,       \* what the bytes of one block may be
    NoSlot, NoKey, NoRequest, NoContent,   \* "nothing" of each kind
    Rekeying,       \* may a sequence publish under a second key?
    MaxTokens,      \* bound: tokens per sequence
    MaxUsers        \* bound: users of one prefix record

ASSUME ManagerConfig ==
    /\ NumTables \in Nat \ {0}
    /\ TokensPerBlock \in Nat \ {0}
    /\ MaxTokens \in Nat
    /\ MaxUsers \in Nat
    /\ Rekeying \in BOOLEAN
    /\ NoSlot \notin Slots
    /\ NoKey \notin Keys
    /\ NoRequest \notin Requests
    /\ NoContent \notin Contents
    /\ IsFiniteSet(Frames) /\ IsFiniteSet(SeqIds) /\ IsFiniteSet(Slots)

VARIABLES
    ref_count,            \* MemoryAllocator: references to each frame
    data,                 \* the bytes of each frame
    swap,                 \* HostSwapBackend::slots_: the bytes of each slot
    sequences,            \* sequences_: the sequences that exist
    request_of,           \* SequenceState::metadata.request_id
    tables,               \* SequenceState::tables
    prefix,               \* SequenceState::prefix_key and prefix_hash
    sequences_by_request, \* sequences_by_request_
    prefix_index          \* prefix_index_

poolVars == <<ref_count, data, swap>>
cacheVars == <<ref_count, data, swap, sequences, request_of, tables, prefix,
               sequences_by_request, prefix_index>>

-----------------------------------------------------------------------------
Tables == 1 .. NumTables

blocks_for(tokens) == (tokens + TokensPerBlock - 1) \div TokensPerBlock
MaxBlocks == blocks_for(MaxTokens)

(* Where a block of a sequence or of a prefix record lives: <<table, index>>. *)
Cells == Tables \X (1 .. MaxBlocks)

Entry == [frame : Frames, slot : Slots \cup {NoSlot}, writable : BOOLEAN]
Block == [Tables -> Seq(Contents)]   \* the contents of a whole sequence
Record == [hash : Block, ids : [Tables -> Seq(Frames)], users : Nat]

NoTables == [l \in Tables |-> <<>>]
NoPrefix == [key |-> NoKey, hash |-> NoTables]

TypeOK ==
    /\ ref_count \in [Frames -> Nat]
    /\ data \in [Frames -> Contents]
    /\ swap \in [Slots -> Contents \cup {NoContent}]
    /\ sequences \subseteq SeqIds
    /\ request_of \in [SeqIds -> Requests \cup {NoRequest}]
    /\ tables \in [SeqIds -> [Tables -> Seq(Entry)]]
    /\ prefix \in [SeqIds -> [key : Keys \cup {NoKey}, hash : Block]]
    /\ sequences_by_request \in [Requests -> Seq(SeqIds)]
    /\ prefix_index \in [Keys -> SUBSET Record]

-----------------------------------------------------------------------------
(* BlockTable *)

At(s, c) == tables[s][c[1]][c[2]]
Mapped(s) == {c \in Cells : c[2] <= Len(tables[s][c[1]])}
Resident(s) == {c \in Mapped(s) : At(s, c).slot = NoSlot}
SwappedOut(s) == {c \in Mapped(s) : At(s, c).slot # NoSlot}

Pinned(rec) == {c \in Cells : c[2] <= Len(rec.ids[c[1]])}

(* The loops over block tables and records call retain or release once for   *)
(* every entry; these count the calls for each frame.                        *)
EntriesOn(S, f) == {p \in S \X Cells : p[2] \in Resident(p[1]) /\ At(p[1], p[2]).frame = f}
PinsOn(R, f) == {p \in R \X Cells : p[2] \in Pinned(p[1][2]) /\ p[1][2].ids[p[2][1]][p[2][2]] = f}

EntryCount(S) == [f \in Frames |-> Cardinality(EntriesOn(S, f))]
PinCount(R) == [f \in Frames |-> Cardinality(PinsOn(R, f))]

(* A record together with the key it is indexed under. *)
Records(index) == UNION {{<<k, rec>> : rec \in index[k]} : k \in Keys}

(* block_bytes(): a view faults on a swapped-out block. *)
block_bytes(s, c) == IF c \in Resident(s) THEN data[At(s, c).frame] ELSE NoContent

(* What a block holds, wherever it is. *)
BlockContent(s, c) == IF c \in Resident(s) THEN block_bytes(s, c) ELSE swap[At(s, c).slot]
ContentOf(s) == [l \in Tables |-> [i \in 1 .. Len(tables[s][l]) |-> BlockContent(s, <<l, i>>)]]

-----------------------------------------------------------------------------
Init ==
    /\ ref_count = [f \in Frames |-> 0]
    /\ data \in [Frames -> Contents]
    /\ swap = [k \in Slots |-> NoContent]
    /\ sequences = {}
    /\ request_of = [s \in SeqIds |-> NoRequest]
    /\ tables = [s \in SeqIds |-> NoTables]
    /\ prefix = [s \in SeqIds |-> NoPrefix]
    /\ sequences_by_request = [r \in Requests |-> <<>>]
    /\ prefix_index = [k \in Keys |-> {}]

(* index_sequence() *)
Index(s, r) ==
    /\ sequences' = sequences \cup {s}
    /\ request_of' = [request_of EXCEPT ![s] = r]
    /\ sequences_by_request' = [sequences_by_request EXCEPT ![r] = Append(@, s)]

create_sequence(s, r) ==
    /\ s \notin sequences
    /\ Index(s, r)
    /\ UNCHANGED <<poolVars, tables, prefix, prefix_index>>

(* BlockTable::fork(): the child's entries are not writable. *)
Forked(table) == [i \in 1 .. Len(table) |-> [table[i] EXCEPT !.writable = FALSE]]

(* The retain() calls: one per entry.  Faulty variant: the first table only. *)
ForkRetains_first_table(parent) ==
    [f \in Frames |-> Cardinality({p \in EntriesOn({parent}, f) : p[2][1] = 1})]
ForkRetains(parent) == EntryCount({parent})

fork_sequence(parent, child, r) ==
    /\ parent \in sequences
    /\ child \notin sequences
    /\ SwappedOut(parent) = {}
    /\ tables' = [tables EXCEPT ![child] = [l \in Tables |-> Forked(tables[parent][l])]]
    /\ ref_count' = RetainEach(ref_count, ForkRetains(parent))
    /\ Index(child, r)
    /\ UNCHANGED <<data, swap, prefix, prefix_index>>

(* reserve_tokens(): all or nothing, always whole new blocks at the end. *)
CanReserve(n) == CanAllocate(ref_count, blocks_for(n) * NumTables)

Appended(table, frames) ==
    table \o [i \in 1 .. Len(frames) |-> [frame |-> frames[i], slot |-> NoSlot, writable |-> TRUE]]

reserve_tokens(s, n) ==
    /\ s \in sequences
    /\ n > 0
    /\ CanReserve(n)
    /\ Len(tables[s][1]) + blocks_for(n) <= MaxBlocks
    /\ \E g \in Injection(Tables \X (1 .. blocks_for(n)), FreeFrames(ref_count)) :
          /\ tables' = [tables EXCEPT ![s] = [l \in Tables |->
                Appended(tables[s][l], [i \in 1 .. blocks_for(n) |-> g[<<l, i>>]])]]
          /\ ref_count' = AllocateEach(ref_count, Range(g))
    /\ UNCHANGED <<data, swap, sequences, request_of, prefix, sequences_by_request, prefix_index>>

(* The cell of a token, or the absence of one when the table is too short. *)
CellOf(pos, l) == <<l, pos \div TokensPerBlock + 1>>

(* A block may be written in place when its frame has one reference.  Faulty  *)
(* variants: the writable flag is trusted, although fork_sequence and         *)
(* publish_prefix leave it set on frames they share; the first table's frame  *)
(* decides for every table.                                                   *)
Exclusive_by_flag(s, c) == At(s, c).writable
Exclusive_first_table(s, c) == ref_count[At(s, <<1, c[2]>>).frame] <= 1
Exclusive(s, c) == ref_count[At(s, c).frame] <= 1

(* Otherwise ensure_token_writable() copies the frame and releases the old    *)
(* one.  Faulty variant: no release.                                          *)
CopyRefs_keep_old(old, copy) == Allocated(ref_count, copy)
CopyRefs(old, copy) == Released(Allocated(ref_count, copy), old)

copy_block(old, copy) == [data EXCEPT ![copy] = data[old]]

CopyOnWrite(s, c, copy) ==
    /\ data' = copy_block(At(s, c).frame, copy)
    /\ ref_count' = CopyRefs(At(s, c).frame, copy)
    /\ tables' = [tables EXCEPT ![s][c[1]][c[2]] = [@ EXCEPT !.frame = copy, !.writable = TRUE]]

ensure_token_writable(s, pos, l) ==
    LET c == CellOf(pos, l) IN
    /\ s \in sequences
    /\ c \in Resident(s)
    /\ \/ /\ Exclusive(s, c)
          /\ tables' = [tables EXCEPT ![s][c[1]][c[2]].writable = TRUE]
          /\ UNCHANGED <<ref_count, data>>
       \/ /\ ~Exclusive(s, c)
          /\ \E copy \in FreeFrames(ref_count) : CopyOnWrite(s, c, copy)
    /\ UNCHANGED <<swap, sequences, request_of, prefix, sequences_by_request, prefix_index>>

(* The engine stores a token through a frame ensure_token_writable() returned *)
(* without copying (a copying call is followed by one that does not copy).    *)
write_token(s, pos, l, v) ==
    LET c == CellOf(pos, l) IN
    /\ s \in sequences
    /\ c \in Resident(s)
    /\ Exclusive(s, c)
    /\ tables' = [tables EXCEPT ![s][c[1]][c[2]].writable = TRUE]
    /\ data' = [data EXCEPT ![At(s, c).frame] = v]
    /\ UNCHANGED <<ref_count, swap, sequences, request_of, prefix, sequences_by_request, prefix_index>>

-----------------------------------------------------------------------------
(* Swapping.  q is the list of sequences swapped out one after the other;    *)
(* their resident blocks are tried in the order <<sequence, table, index>>.  *)

FreeSlots == {k \in Slots : swap[k] = NoContent}

Evictable(q) == {a \in (1 .. Len(q)) \X Cells :
                    /\ a[2] \in Resident(q[a[1]])
                    /\ ref_count[At(q[a[1]], a[2]).frame] = 1}

Before(a, b) == \/ a[1] < b[1]
                \/ a[1] = b[1] /\ a[2][1] < b[2][1]
                \/ a[1] = b[1] /\ a[2][1] = b[2][1] /\ a[2][2] < b[2][2]

(* The backend takes blocks until it is full. *)
Evictions(q) == {a \in Evictable(q) :
                    Cardinality({b \in Evictable(q) : Before(b, a)}) < Cardinality(FreeSlots)}

swap_out(q) ==
    \E g \in Injection(Evictions(q), FreeSlots) :
        LET slotOf(s, c) == {g[a] : a \in {b \in DOMAIN g : q[b[1]] = s /\ b[2] = c}}
            frameOf(a) == At(q[a[1]], a[2]).frame
        IN  /\ tables' = [s \in SeqIds |-> [l \in Tables |-> [i \in 1 .. Len(tables[s][l]) |->
                    IF slotOf(s, <<l, i>>) = {} THEN tables[s][l][i]
                    ELSE [tables[s][l][i] EXCEPT !.slot = CHOOSE k \in slotOf(s, <<l, i>>) : TRUE]]]]
            /\ swap' = [k \in Slots |-> IF \E a \in DOMAIN g : g[a] = k
                                        THEN data[frameOf(CHOOSE a \in DOMAIN g : g[a] = k)]
                                        ELSE swap[k]]
            /\ ref_count' = EvictEach(ref_count, {frameOf(a) : a \in DOMAIN g})
            /\ UNCHANGED <<data, sequences, request_of, prefix, sequences_by_request, prefix_index>>

swap_out_sequence(s) == s \in sequences /\ swap_out(<<s>>)

swap_out_request(r) == swap_out(sequences_by_request[r])

(* Swapping in restores every swapped-out block of the sequences in S, or,    *)
(* when the pool has too few free frames for all of them, none.               *)
Absentees(S) == {p \in S \X Cells : p[2] \in SwappedOut(p[1])}

CanSwapIn(S) == CanAllocate(ref_count, Cardinality(Absentees(S)))

(* discard(): the slots of the sequences in S are given back.  Faulty         *)
(* variant: they are not.                                                     *)
SwapWithout_kept(S) == swap
SwapWithout(S) == [k \in Slots |-> IF \E p \in Absentees(S) : At(p[1], p[2]).slot = k
                                   THEN NoContent ELSE swap[k]]

(* load(): frame g[p] receives the bytes of swapped-out block p.  Faulty      *)
(* variant: the slot was discarded before.                                    *)
Loaded_late(g) == [f \in Frames |-> IF \E p \in DOMAIN g : g[p] = f THEN NoContent ELSE data[f]]
Loaded(g) == [f \in Frames |->
    IF \E p \in DOMAIN g : g[p] = f
    THEN LET p == CHOOSE p \in DOMAIN g : g[p] = f IN swap[At(p[1], p[2]).slot]
    ELSE data[f]]

swap_in(S) ==
    /\ CanSwapIn(S)
    /\ \E g \in Injection(Absentees(S), FreeFrames(ref_count)) :
          /\ tables' = [s \in SeqIds |-> [l \in Tables |-> [i \in 1 .. Len(tables[s][l]) |->
                IF <<s, <<l, i>>>> \in DOMAIN g
                THEN [tables[s][l][i] EXCEPT !.frame = g[<<s, <<l, i>>>>], !.slot = NoSlot]
                ELSE tables[s][l][i]]]]
          /\ data' = Loaded(g)
          /\ ref_count' = AllocateEach(ref_count, Range(g))
    /\ swap' = SwapWithout(S)
    /\ UNCHANGED <<sequences, request_of, prefix, sequences_by_request, prefix_index>>

SequencesFor(r) == Range(sequences_by_request[r])

swap_in_sequence(s) == s \in sequences /\ swap_in({s})

(* Faulty variant: only the request's first sequence is restored. *)
swap_in_request_first(r) == swap_in({sequences_by_request[r][1]})
swap_in_request(r) == swap_in(SequencesFor(r))

-----------------------------------------------------------------------------
(* Prefix sharing *)

prefix_token_count(k) ==
    IF \E rec \in prefix_index[k] : prefix_index[k] = {rec}
    THEN LET rec == CHOOSE rec \in prefix_index[k] : TRUE IN Len(rec.ids[1]) * TokensPerBlock
    ELSE 0

Ids(s) == [l \in Tables |-> [i \in 1 .. Len(tables[s][l]) |-> tables[s][l][i].frame]]

(* One more user of a record.  Faulty variant: the user is not counted. *)
Joined_uncounted(rec) == rec
Joined(rec) == [rec EXCEPT !.users = @ + 1]

(* publish_prefix(): join the record with the same contents, or pin a new one. *)
publish_prefix(s, k) ==
    LET hash == ContentOf(s)
        same == {rec \in prefix_index[k] : rec.hash = hash}
        new == [hash |-> hash, ids |-> Ids(s), users |-> 1]
    IN
    /\ s \in sequences
    /\ Len(tables[s][1]) > 0
    /\ prefix[s].key # k
    /\ Rekeying \/ prefix[s].key = NoKey
    /\ SwappedOut(s) = {}
    /\ \/ /\ same # {}
          /\ \A rec \in same : rec.users < MaxUsers
          /\ prefix_index' = [prefix_index EXCEPT ![k] =
                (@ \ same) \cup {Joined(rec) : rec \in same}]
          /\ UNCHANGED ref_count
       \/ /\ same = {}
          /\ prefix_index' = [prefix_index EXCEPT ![k] = @ \cup {new}]
          /\ ref_count' = RetainEach(ref_count, PinCount({<<k, new>>}))
    /\ prefix' = [prefix EXCEPT ![s] = [key |-> k, hash |-> hash]]
    /\ UNCHANGED <<data, swap, sequences, request_of, tables, sequences_by_request>>

(* attach_prefix(): only onto an empty sequence, only from an unambiguous key. *)
attach_prefix(s, k) ==
    /\ s \in sequences
    /\ Len(tables[s][1]) = 0
    /\ \E rec \in prefix_index[k] :
          /\ prefix_index[k] = {rec}
          /\ rec.users < MaxUsers
          /\ tables' = [tables EXCEPT ![s] = [l \in Tables |-> [i \in 1 .. Len(rec.ids[l]) |->
                [frame |-> rec.ids[l][i], slot |-> NoSlot, writable |-> FALSE]]]]
          /\ ref_count' = RetainEach(ref_count, PinCount({<<k, rec>>}))
          /\ prefix_index' = [prefix_index EXCEPT ![k] = {Joined(rec)}]
          /\ prefix' = [prefix EXCEPT ![s] = [key |-> k, hash |-> rec.hash]]
    /\ UNCHANGED <<data, swap, sequences, request_of, sequences_by_request>>

(* drop_prefix_user() for every sequence of S: a record whose last user goes  *)
(* is removed and its pins are released.                                      *)
Leaving(S, k, rec) == Cardinality({s \in S : prefix[s] = [key |-> k, hash |-> rec.hash]})

Dropped(S) == {p \in Records(prefix_index) :
                  /\ Leaving(S, p[1], p[2]) > 0
                  /\ p[2].users <= Leaving(S, p[1], p[2])}

IndexWithout(S) ==
    [k \in Keys |-> {[rec EXCEPT !.users = @ - Leaving(S, k, rec)] :
                        rec \in {r \in prefix_index[k] : <<k, r>> \notin Dropped(S)}}]

(* The release() calls: entries and dropped pins.  Faulty variant: no pins.  *)
Releases_entries_only(S) == EntryCount(S)
Releases(S) == LET entries == EntryCount(S)
                   pins == PinCount(Dropped(S))
               IN  [f \in Frames |-> entries[f] + pins[f]]

(* The members of a list that are in a set, in their order. *)
Kept(list, keep) ==
    LET kept[n \in 0 .. Len(list)] ==
            IF n = 0 THEN <<>>
            ELSE IF list[n] \in keep THEN Append(kept[n - 1], list[n]) ELSE kept[n - 1]
    IN  kept[Len(list)]

(* unindex_sequence().  Faulty variant: the request still lists them. *)
Unindexed_not(S) == sequences_by_request
Unindexed(S) == [r \in Requests |-> Kept(sequences_by_request[r], SeqIds \ S)]

release(S) ==
    /\ ref_count' = ReleaseEach(ref_count, Releases(S))
    /\ swap' = SwapWithout(S)
    /\ prefix_index' = IndexWithout(S)
    /\ sequences' = sequences \ S
    /\ tables' = [s \in SeqIds |-> IF s \in S THEN NoTables ELSE tables[s]]
    /\ prefix' = [s \in SeqIds |-> IF s \in S THEN NoPrefix ELSE prefix[s]]
    /\ request_of' = [s \in SeqIds |-> IF s \in S THEN NoRequest ELSE request_of[s]]
    /\ sequences_by_request' = Unindexed(S)
    /\ UNCHANGED data

release_sequence(s) == s \in sequences /\ release({s})

release_request(r) == release(SequencesFor(r))

-----------------------------------------------------------------------------
Next ==
    \/ \E s \in SeqIds, r \in Requests : create_sequence(s, r)
    \/ \E s, t \in SeqIds, r \in Requests : fork_sequence(s, t, r)
    \/ \E s \in SeqIds, n \in 1 .. MaxTokens : reserve_tokens(s, n)
    \/ \E s \in SeqIds, pos \in 0 .. MaxTokens - 1, l \in Tables :
          \/ ensure_token_writable(s, pos, l)
          \/ \E v \in Contents : write_token(s, pos, l, v)
    \/ \E s \in SeqIds : swap_out_sequence(s) \/ swap_in_sequence(s) \/ release_sequence(s)
    \/ \E r \in Requests : swap_out_request(r) \/ swap_in_request(r) \/ release_request(r)
    \/ \E s \in SeqIds, k \in Keys : publish_prefix(s, k) \/ attach_prefix(s, k)

Spec == Init /\ [][Next]_cacheVars

-----------------------------------------------------------------------------
(* Every reference a frame has is one resident block-table entry or one pin   *)
(* of a prefix record, and the other way round: the loops of fork_sequence,   *)
(* attach_prefix, publish_prefix, release_sequence and drop_prefix_user, and  *)
(* the copy-on-write in ensure_token_writable, neither lose nor add one.      *)
RefCountsExact ==
    \A f \in Frames :
        ref_count[f] = Cardinality(EntriesOn(sequences, f))
                        + Cardinality(PinsOn(Records(prefix_index), f))

(* A swap slot in use belongs to exactly one swapped-out entry, and every     *)
(* swapped-out entry's slot is in use: swap_out_sequence, swap_in_sequence    *)
(* and the discard in release_sequence hand slots over without sharing them.  *)
SlotsOwned ==
    LET owners(k) == {p \in Absentees(sequences) : At(p[1], p[2]).slot = k}
    IN  \A k \in Slots : Cardinality(owners(k)) = IF swap[k] = NoContent THEN 0 ELSE 1

(* A record's users are the sequences that published or attached it, and a    *)
(* sequence's prefix always has its record: drop_prefix_user neither frees a  *)
(* prefix in use nor keeps one nobody uses.                                   *)
PrefixUsersExact ==
    /\ \A k \in Keys : \A rec \in prefix_index[k] :
          /\ rec.users = Leaving(sequences, k, rec)
          /\ rec.users > 0
    /\ \A s \in sequences : prefix[s].key # NoKey =>
          \E rec \in prefix_index[prefix[s].key] : rec.hash = prefix[s].hash

(* sequences_by_request_ lists the sequences of a request once each, so that  *)
(* swap_out_request, swap_in_request and release_request reach all of them.   *)
RequestIndexExact ==
    \A r \in Requests :
        /\ SequencesFor(r) = {s \in sequences : request_of[s] = r}
        /\ Len(sequences_by_request[r]) = Cardinality(SequencesFor(r))

(* "Releases all cache blocks owned or referenced by a sequence"              *)
(* (release_sequence): without sequences the pool and the swap tier are empty.*)
NoLeak ==
    sequences = {} => /\ FreeFrames(ref_count) = Frames
                      /\ FreeSlots = Slots

(* Frames, sharing, swapping and copy-on-write are invisible: a sequence      *)
(* reads its own private blocks (through its frames or its swap slots), which *)
(* only its own writes change, and a published prefix keeps the contents it   *)
(* was published with.                                                        *)
Logical == INSTANCE LogicalCache WITH
    live <- sequences,
    logical <- [s \in SeqIds |-> ContentOf(s)],
    published <- [k \in Keys |-> {[l \in Tables |-> [i \in 1 .. Len(rec.ids[l]) |->
                                      data[rec.ids[l][i]]]] : rec \in prefix_index[k]}]
ImplementsLogical == Logical!Spec
=============================================================================
