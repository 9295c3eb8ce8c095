# QwenVL-Paged: specification and verification

TLA+ models of the KV-cache memory subsystem of QwenVL-Paged, model-checked with
TLC on small instances, with theorems about the frame pool, the block layout, the
cache manager, the decode kernels, the Python pool, the scheduler and the contiguous
baseline checked by TLAPS for every instance. Paths below are relative to the repository's root
(`src/MemoryAllocator.cpp` and so on). `PROJECT.json` holds the same facts in
machine-readable form: which lines each definition models, which run checks which
property, which faulty variant of the code each property detects.

## 1. The system

The program manages KV-cache memory as an operating system manages pages. A fixed
pool of frames backs per-sequence block tables; frames are shared by reference
count and copied on write; evicted frames live in a swap tier; a continuous
batcher decides who may use the pool. Everything is single-threaded and calls
downwards:

    trace replay / Python engine
            | schedule_next, complete_step, cancel, preempt, resume
        Scheduler
            | create, attach, reserve, release, swap_out, swap_in
        KVCacheManager  ---- BlockTable (one or num_layers per sequence)
            | allocate, retain, release, copy_block, swap_out, swap_in
        MemoryAllocator ---- SwapBackend (store, load, discard)

| Component | State | Operations that change it | What makes it correct |
| --- | --- | --- | --- |
| `MemoryAllocator` | free list (stack), per frame: reference count, state, generation | allocate, release, retain, swap_out, swap_in, discard_swapped, set_swap_backend | a frame is on the free list once iff nobody references it; state and statistics follow the counts; generations make stale ids detectable |
| `HostSwapBackend` | slot -> bytes, next slot id, capacity | store, load, discard | a slot has one owner and is given back |
| `BlockTable` | entries (frame, swap slot, writable) | map, fork, mutable_entry | a swapped-out entry's frame id is never used |
| `KVCacheManager` | sequences with tables, request index, prefix records with user counts | create, fork, reserve_tokens, ensure_token_writable, swap_out/in of a sequence or a request, publish_prefix, attach_prefix, release of a sequence or a request | references are exactly the entries and pins; sharing, copying and swapping are invisible to a sequence |
| `Scheduler` | pending, active and preempted queues, preemption info, `lifetime_held_`, skip counts | enqueue, schedule_next, complete_step, cancel, preempt, resume | each request in one queue; no sequence left behind; reservations add up; plans contain only runnable requests; nobody starves |
| Trace replay (`tools/trace_replay`) | per-request progress, `live`, `preempted_ids`, `no_progress_steps` | run_paged, run_contiguous | the driver's books follow the scheduler's, committed tokens have blocks, nothing leaks, the loop ends, a reported stall is one |
| `CacheLayout`, `CacheView`, `PagedAttention.h` | none | offset arithmetic, block walk, attention | vectors of distinct coordinates do not overlap and lie in resident frames; all kernels refuse and read the same |
| Python pool (`python/paged_cache.py`) | per layer: length; per sequence: remembered table and its length; the last writable frame | update (ensure_capacity, writable_frame, store, read), fork, reset | remembered frames are exclusive when written, remembered tables are current when read |
| Checks, benchmarks, Triton kernel, trace generator, golden export | none of their own | - | not modelled: pure I/O, timing or floating point |

There is no concurrency between threads and nothing is persisted. What is hard
here is sequences of calls: many operations change reference counts, user counts
and reservations in several places each, operations fail half-way (a full swap
tier, a pool without frames), values are cached across calls (stale frame ids in
swapped-out entries, `writable` flags, the number of requests admitted by a call),
and a request must eventually be served although others may pass it. The list of
hazards in `PROJECT.json` names each at its line.

## 2. The modules

| Module | Models | Relation to the others |
| --- | --- | --- |
| `FramePool` | what the pool promises: reference counts and swap slots, no mechanism | abstract specification |
| `FrameRefs` | what each allocator call does to the counts, and loops of calls | extended by the next three |
| `MemoryAllocator` | `MemoryAllocator.cpp` with `HostSwapBackend` | implements `FramePool` |
| `LogicalCache` | what the cache promises: private arrays of blocks, snapshots per prefix key | abstract specification |
| `KVCacheManager` | `KVCacheManager.cpp` with `BlockTable` and the bytes of frames and slots | extends `FrameRefs`, implements `LogicalCache` |
| `Scheduler` | `Scheduler.cpp`, and an engine that grows and publishes planned requests | extends `KVCacheManager` (its actions are called, not copied) |
| `TraceReplay` | the loop of `run_paged`, driving scheduler and cache | extends `Scheduler` (and calls its actions) |
| `CacheLayout` | `BlockShape` and `KVBlockLayout`: sizes, strides, offsets | operators only |
| `PagedAttention` | `CacheView::slot` and the decode kernels of `PagedAttention.h` | extends `KVCacheManager` and `CacheLayout` |
| `PagedPool` | `python/paged_cache.py` | extends `PagedAttention` (for the manager and the layout) |
| `ContiguousBaseline` | `run_contiguous`, the baseline the trace replay compares with | stands alone |
| `MemoryAllocatorProofs`, `ContiguousBaselineProofs` | theorems about the allocator and the loops of `FrameRefs`, and the baseline | extend the module they are about |
| `KVCacheManagerProofs` | theorems about `KVCacheManager`: counts, slots, prefix users, the request index | extended by the next two |
| `LogicalCacheProofs` | `KVCacheManager` implements `LogicalCache` | extends `KVCacheManagerProofs` |
| `PagedAttentionProofs` | theorems about `CacheLayout` and `PagedAttention`: vectors do not overlap, the kernels agree and read their own | extends `PagedAttention` and `LogicalCacheProofs` |
| `PagedPoolProofs` | theorems about `PagedPool`: stores are exclusive, reads are a cache's own | extends `PagedPool` and `PagedAttentionProofs` |
| `SchedulerProofs` | theorems about `Scheduler` | extends `Scheduler` and `KVCacheManagerProofs` |
| `TraceReplayProofs` | theorems about `TraceReplay` | extends `TraceReplay` and `SchedulerProofs` |
| `MC...` | instances for TLC | extend the module they instantiate |

### State and actions

*`MemoryAllocator`.* Variables carry the names of the fields. `leases` is a
history variable, the `<<frame, generation>>` pairs handed out so far. Each public
call is an action of the same name, enabled for every argument with which it
changes something; a call that returns without effect is no step. A `swap_in`
whose `load` fails is an action of its own (`swap_in_fails`), as it takes a frame,
gives it back and advances its generation. `backend` says whether a swap backend
is installed: none at first, then `set_swap_backend` puts the host backend in or
takes it out with the slots it holds, at any time.

*`KVCacheManager`.* `tables[s][l]` is the block table of layer `l` of sequence
`s`; with one frame for all layers `NumTables` is 1. An entry keeps its frame id
when it is swapped out, as in the code. `data` and `swap` hold the bytes of frames
and slots, abstracted to members of `Contents`; a hash is the contents it hashes,
that is, hashes are assumed not to collide. Any free frame may be handed out and
any slot not in use may be filled: the order of the free list is
`MemoryAllocator`'s concern, and its refinement of `FramePool` is what justifies
leaving it out here. A loop of `retain`, `release`, `allocate` or `swap_out` calls
is one step whose effect on the counts the `...Each` operators of `FrameRefs`
give; that they are the loops is proved in `MemoryAllocatorProofs`. `swap_out` evicts in
the code's order (sequence, table, index) until the backend is full and passes
over shared frames, so that partly evicted sequences arise. `write_token` is the
write of an engine through a frame `ensure_token_writable` made exclusive
(`PagedLayer.update` in `python/paged_cache.py`).

*`Scheduler`.* The queues are sequences of request ids; the mutable fields of a
`Request` are in `request`. `schedule_next` is the one call that is not a single
step: `pc` runs through the admission loop test, `try_admit`, one victim of
`reclaim_for_admission` per step, `create_sequence`, `attach_prefix`,
`reserve_tokens` (or the roll-back), and the batching of waiting prefills and
decode tokens. Every step makes at most one cache call, which is the action of
`KVCacheManager` itself, and the states in between are checked. All other calls
happen at `pc = "idle"`. `grow` and `publish` are cache calls of an engine for a
request it executes. The scheduler demands nothing of an engine between two plans,
so they may happen in any order and number, more freely than in `run_paged`;
`EngineCalls` switches them and the external `preempt` on for a run.

*`TraceReplay`.* The driver's variables are the locals of `run_paged` that outlive a
loop iteration (`progress`, `live`, `preempted_ids`, `next_fork_sequence`,
`no_progress_steps`); those of one iteration are in `at`, with the place in the
loop. Each call into the scheduler or the cache is one step and is that module's
own action: `schedule_next` runs through its own `pc`, then the prefill chunks are
touched, completed, published and forked into samples, the decode requests grow
branch by branch (`GrowBranch`), a failed growth parks the newest planned request
(`reclaim_for_decode`), the tokens are written and committed, parked requests are
noticed (`AccountStep`) and resumed in admission order, and the stall detector
closes the iteration. `touch_position` ignores the answer of `ensure_token_writable`
as the code does. The trace (order, actual lengths, numbers of samples) is chosen
initially and never changes; everything is enqueued up front. Fork ids count up from
the largest request id; `SeqIds` bounds them (a guard of `ForkSample`).

*`CacheLayout` and `PagedAttention`.* Operators, no state: a kernel call does not
change the cache. `paged_attention_decode` resolves every slot into a flat array
indexed by kv head and token, `..._blocked` resolves one frame per logical block and
adds offsets, `..._fused` (the optimised kernel, two-pass or online) walks once per
kv head and serves the query heads of its group. The result of a kernel is, per
query head, the set of key and value addresses with their token; the empty set is
`false`. What is done with the vectors is arithmetic on floating-point numbers and is
left out.

*`PagedPool`.* `call` is the forward pass in progress: for each layer in turn the
table grows block by block, the frame of each block's first token is resolved
(remembered, or by `ensure_token_writable`), the rows are stored, and after the last
one the table is read as `attend_decode` or `_gather` would. `_dev_table` is a copy
of `_host_frames` and is one variable with it. `_table_len`, `_writable` and the
layer lengths keep their names. `data` holds, per layer and token, what was stored
last; `written` is a history variable, what each cache stored or inherited. A failed
`assert` (pool exhausted) ends the program, so that run may stop.

*`ContiguousBaseline`.* `run_contiguous` is deterministic, so the trace is a
variable chosen initially, from all traces of a few sizes with
`1 <= decode_actual <= decode_budget` as `tools/trace_gen` draws them. `pc` separates
the admission loop from the decode loop, whose index is `i`; each iteration is a
step. The scan of `first_fit` is a recursive function over the blocks. `since` is
auxiliary, the step that admitted a reservation.

## 3. The runs

| Run | Checks | Shows |
| --- | --- | --- |
| `allocator` | `TypeOK`, `FreeListSound`, `StatsAgree`, `LeaseIsFresh`, `ImplementsPool` | over every order of calls, failing ones included, the free list is a permutation of the unreferenced frames, `stats()` agrees with `can_allocate()`, no frame is handed out twice with one generation, and the allocator implements `FramePool` |
| `cache_manager` | `TypeOK`, `RefCountsExact`, `SlotsOwned`, `PrefixUsersExact`, `RequestIndexExact`, `ImplementsLogical` | references, slots, prefix users and the request index are exact in every order of calls, and the manager implements `LogicalCache` |
| `attention` | `KernelsAgree`, `DecodeReadsOwnBlocks`, `RefCountsExact`, `ImplementsLogical` | two tables per sequence, whose blocks are shared, copied and evicted independently; on every state reached, every kernel call of a small set is refused by all kernels or reads the same, resident, disjoint vectors in all |
| `scheduler` | `SchedulerTypeOK`, `QueuesAgree`, `NoSequenceLeftBehind`, `AccountingExact`, `PlannedStayActive`, `PlanSound` | watermark and caller-driven preemption with prefix sharing and a swap tier too small for everything |
| `served` | `SkipsBounded`, `ReservationHonoured`, `EventuallyAdmitted`, `EventuallyServed` | without preemption and sharing, decode growth within the budget cannot fail, size-aware admission passes nobody more than `admission_skip_limit` times, everybody who fits is admitted whatever arrives, and everybody is served once arrivals stop |
| `replay` | `ReplayTypeOK`, `DriverAgrees`, `CommittedBacked`, `LeakFree`, `ActiveResident`, `ReplayEnds` | `run_paged` over scheduler and cache: shared prompts, samples, failed growth, parking, resuming, oversized requests |
| `paged_pool` | `PoolTypeOK`, `StoresExclusive`, `ReadsOwnTokens` | the Python pool's remembered tables and frames over forks, copy-on-write and several layers |
| `baseline` | `BaselineTypeOK`, `RunsDisjoint`, `TokensFit`, `OneTokenPerStep`, `FirstFit`, `Completes` | every trace of four small requests runs to completion; reservations are disjoint, are the lowest fit and cover their tokens; erasing by moving the last reservation skips nobody |
| `second_key` | `NoLeak` (violated) | finding 1 |
| `cancel_preempted` | `AdmissionCovered` (violated) | finding 2 |
| `stale_writable` | `StoresExclusive` (violated) | finding 3 |
| `false_stall` | `StallIsReal` (violated) | finding 4 |

Every property of a passing run is paired with a faulty variant of one definition
(a dropped guard, a missing release, one layer instead of all) that TLC rejects
with that property. The variants stand next to the definitions they replace, with
a suffix to the name.

### Bounds, and why they are enough

* `allocator`: 3 frames, 2 slots, 3 references, 2 recyclings per frame. Three
  frames make the free list's order matter; two recyclings suffice for a stale
  generation; three references distinguish Shared from "two". The counters are
  bounded in the guards (`MaxRefs`, `MaxGeneration`, `MaxSlotId`). The theorems hold
  for every value of these bounds.
* `cache_manager`: 2 sequences of 2 blocks, 3 frames, 1 slot. The pool is smaller
  than the two sequences, the swap tier smaller than one of them: reserve, copy and
  swap-in all fail in some states, and eviction stops half-way. Two contents tell a
  corrupted block from an intact one.
* `attention`: per-layer frames for two layers, two kv heads of two elements, blocks
  of two tokens, two sequences of up to two blocks in four frames with one slot: the
  pool holds one sequence, or two that share, and one block of one layer can be out.
  Calls ask for every layer and one more, for a number of query heads that is and
  one that is not a multiple, and for contexts that end before, inside and after the
  last block.
* `MaxTokens` bounds a sequence, `MaxUsers` a record; `MaxUsers` is the number of
  sequences, which a record never exceeds.
* Scheduler runs: a large request and two small ones over a pool that holds the
  large one alone or the small ones together, a batch smaller than the large
  prompt (so prefill is chunked) and, for `scheduler`, a watermark of one frame.
  `served` has blocks of two tokens and odd prompts, so that rounding matters.
  Scheduler runs need one content only: nothing there depends on bytes.
* `replay`: two requests with a common prompt block, three without, one larger than
  the pool of four frames, blocks of two tokens, a batch of three, a watermark of one
  frame and two slots. Traces are all orders of two or three of them with one or two
  samples, using their budgets or stopping early. Prompts of two and three tokens
  leave full and partial tail blocks, so that decode grows and copies at different
  steps; three active requests outgrow the pool. `false_stall` takes the swap tier
  away.
* `paged_pool`: a root and two forks (`stale_writable`: one), two layers, three
  tokens in blocks of two, two values, five frames: forks share a full and a partial
  block, a branch copies its tail while another has a remembered table. A cache is
  reset only while it is the only one, and not forked while it is empty after a reset
  (`ResetsWithForks = FALSE`); `stale_writable` drops both conditions.
* In the cache manager's runs frames, slots, contents, sequences, keys and requests
  are interchangeable and reduced by symmetry; in the scheduler's runs only frames
  and slots are, as requests differ in size. The liveness runs use no symmetry.
* `baseline`: four blocks of two tokens, four requests of one to five blocks, so
  that there are requests too large for the pool or the context, and pools with
  enough free blocks but no run of them. `max_steps` exceeds the longest run.
* `Rekeying` is false in the runs that are expected to pass: with it every exactness
  property of the prefix index fails, which is finding 1.

### Fairness

`FairSpec` assumes weak fairness of the steps of `schedule_next`: `run_paged` calls
it in a loop and each call terminates. It assumes strong fairness, per request, of
`complete_step` with the chunk of the plan and of the cancel that ends decoding:
`run_paged` executes every request of every plan it gets, one after the other, so a
request planned again and again is executed again and again, and after
`decode_actual` decode steps it is cancelled. The assumption is strong fairness
because between two plans the request is not in a plan. Nothing is assumed of
`enqueue`, `preempt` or `resume`. Both liveness properties are checked without
preemption, for requests that fit the pool alone; the code promises nothing to
others. `EventuallyServed` assumes that arrivals stop, as in the closed-loop replay:
admissions and waiting prefills take `max_batch_tokens` before decode does
(`docs/performance.md:653`), so an endless stream of prompts keeps an admitted
request from decoding. `EventuallyAdmitted`, the starvation freedom
`docs/performance.md:668` claims for size-aware admission, holds without that
assumption.
`ContiguousBaseline` and `TraceReplay` are sequential programs: weak fairness of the
next step says that they run. `ReplayEnds` needs nothing else: it does not count on
`max_steps`, which the model leaves out. It is checked for requests with one sample and
no shareable prefix, see the observations below.

### Findings

1. `publish_prefix` (`src/KVCacheManager.cpp:492`) overwrites the prefix key of a
   sequence that already published under another key. Nobody leaves the first
   record any more: its frames stay pinned when all sequences are gone, against
   `KVCacheManager.h:236` and `docs/roadmap-phase2.md:526`. The replay publishes a
   sequence under one key only.
2. `cancel` of a preempted request (`src/Scheduler.cpp:202`) gives back a
   reservation `preempt` gave back before, because `lifetime_blocks` is not cleared;
   the clamp hides it only when `lifetime_held_` is too small. Later admissions
   over-commit the pool, against `Scheduler.h:153-155`. `AccountingExact` is
   therefore checked with cancellation of pending and active requests only
   (`EngineCalls` without "cancel preempted").
3. `writable_frame` (`python/paged_cache.py:226`) trusts the remembered frame when
   sequence and token match. Fork a cache of one block and `reset` the parent, or
   reset it first and then fork it, and run the parent again: its first token hits the
   entry of before the fork and overwrites the frame the fork shares, against line 219
   ("honoring copy-on-write before any write"). None of the scripts resets a forked
   cache or forks a reset one, and `fork_paged_cache` is documented for a filled cache.
4. The stall detector of `run_paged` (`tools/trace_replay/TraceReplay.cpp:537`) gives
   up after two steps without progress. Without a swap tier, a step whose reclaim
   parks a request and frees nothing is one, and the next, whose plan is empty and
   which only resumes, is the other: the run ends with a request that could decode
   its next token, against "Nothing changed and nothing can" (line 538).

### Observations

Behaviour met on the way that has no run of its own:

* A request with an empty prompt is admitted without entering the plan
  (`src/Scheduler.cpp:138`), so `admitted_this_step` is one too small and
  `PlannedStayActive` fails. The trace tools make no such request.
* `lifetime_blocks_for` (`src/Scheduler.cpp:41`) leaves a published prefix out of an
  attached request's reservation, and a publisher's own copy-on-write of a partial
  tail needs a frame nobody reserved: `ReservationHonoured` holds without sharing only.
* With a shareable prefix or several samples, frames that are pinned or shared cannot
  be evicted, each parking frees a little and each resume takes it back, and
  `run_paged` can go on parking and resuming until `max_steps`: `ReplayEnds` is stated
  for plain requests.
* `reclaim_for_decode` parks the newest planned request, which may be one that did
  not need to grow.
* `shared_prompt_tokens` is read after admission (`TraceReplay.cpp:370`): a request
  admitted before, and first planned after, its prefix was published counts a hit it
  did not have.
* `TraceReplay.cpp:335-336` ("Admission checks that a prompt fits, not that the prompt
  plus its decode budget fits") and `README.md:253` ("Prompt-only admission over-commits
  the pool") describe an earlier admission. `lifetime_blocks_for`, `Scheduler.h:153-155`
  and `docs/performance.md` reserve the decode budget too, and the model follows them.

## 4. The proofs

`MemoryAllocatorProofs` proves, for every pool size, swap capacity and bound, that
the type invariant holds (`TypeCorrect`), the free list is sound
(`FreeListCorrect`), statistics agree with the free list (`StatsCorrect`), leases
are fresh (`LeasesFresh`), and the allocator implements `FramePool`
(`Implementation`). The only assumption is `AllocatorConfig`: frames are
`0 .. max_blocks - 1` and the bounds are natural numbers.

None of these is inductive alone. The inductive invariant `Inv` adds to `TypeOK`
and `FreeListSound`

* `StateTracksRefs`: state names the count, needed to count free states by the free
  list;
* `LeasesPast`: no lease has a later generation than its frame, and a free frame's
  leases have an earlier one, which is what `release`'s increment is for;
* `SlotsPast`: resident slots are below `next_slot`, so that a stored slot is new.

The free list changes only by popping a frame (`TakeFrame`) or pushing
one (`Recycle`); `TakeFrameKeepsPool` and `RecycleKeepsPool` prove once that each
preserves the pool's part of `Inv`. A failed `swap_in` pops and pushes the same
frame, which `PopPush` shows to leave the list as it was; in `FramePool` it is a
stutter. `FreeListCounts` turns the bijection between free list and free frames
into the equality of cardinalities.

The same module proves that one more call of a loop is one more application of
the single operation (`RetainLoop`, `ReleaseLoop`, `AllocateAndEvictLoops`), with
`NoCalls` as the base: the link between `MemoryAllocator`'s single calls and the
one-step loops of `KVCacheManager`.

The first part of `PagedAttentionProofs` proves for every `BlockShape` what `DecodeReadsOwnBlocks` checks
for one: every vector lies inside its frame, and the frame's elements are the bytes
`byte_size()` asks for (`OffsetsInFrame`); the vectors of two coordinates never
overlap (`VectorsDisjoint`). The argument reads a coordinate as a number with the
digits layer, stream, token and kv head in mixed base (`Rank`): ranks are below the
number of vectors and determine their digits, and the sum of strides the code
computes is the rank times `head_dim` (`OffsetIsRank`). Nothing is assumed.

### The cache manager

`KVCacheManagerProofs` is about every order of calls, failing ones included, for any
numbers of sequences, frames, slots, keys, requests and tables per sequence. The
assumptions are `ManagerConfig`: `NumTables` and `TokensPerBlock` are positive,
the bounds are natural numbers, frames, slots and sequence ids are finitely many and
the null values are outside their sets. Proved are `TypeOK` (`CacheTypeCorrect`), `RefCountsExact`
(`ReferencesExact`), `SlotsOwned` (`SlotsExact`), `RequestIndexExact`
(`RequestsExact`), and, as long as no sequence publishes under a second key
(`~Rekeying`), `PrefixUsersExact` (`PrefixUsersCounted`) and `NoLeak`
(`NothingLeaks`): once all sequences are gone the pool and the swap tier are empty.
The run `second_key` shows that this last condition is needed. The other theorems do
not need it: reference counts and slots stay exact with rekeying too, only the
records stay behind.

The inductive invariant is `Structure /\ RefCountsExact`. `Structure` adds to `TypeOK`

* `TablesShaped`: the tables of a sequence have the same length and a sequence that
  does not exist has none; forks, attachments and releases go through all tables by
  the length of one;
* `RecordsShaped`: there are finitely many prefix records, those of one key differ in
  their contents, and each pins a block in every table; the first is what makes the
  number of pins of a frame a number, the second what makes "the record a sequence
  uses" unique;
* `RequestsListed`: a request lists its sequences, once each; releasing and swapping a
  request are loops over that list;
* `SlotsHeld`: slots in use and swapped-out entries correspond one to one, so that
  discarding or loading a slot touches one entry only.

The count of a frame is the cardinality of the set of places that name it. Each
action adds or removes a known set of places, and the lemmas turn the union or
difference into a sum, per frame. The step that is easy to get wrong is eviction:
the frame id stays in the entry, so the place leaves the count although the entry
still names the frame.

`PrefixUsersExact` needs that a sequence's prefix names a record that exists and
that its number of users is the number of such sequences. Publishing a second time
under the same key leaves the record alone; attaching a published prefix, or joining
a publication of another sequence, adds a user; a release takes one and erases the
record with the last. A fork does not copy the parent's prefix key and adds none.

`LogicalCacheProofs` proves `SharingInvisible`, the refinement `ImplementsLogical`:
whatever the manager shares, copies, evicts and restores, every sequence reads
private arrays of blocks that only its own operations change. The invariant adds
`SnapshotsTrue` (`SnapshotsHold`): a published prefix still has the contents it was
hashed with. Two arguments carry the proof. A write goes to a frame whose count is 1;
with exact counts the writer's entry is the only place that names the frame, so no
other sequence and no record changes (`SoleHolder`). Eviction and restoring move
bytes between frames and slots; frames given back are named by nobody and slots
filled were empty, so what an entry holds, in a frame or in a slot, is the same
before and after (`ContentsKept`, `HeldKept`).

### The kernels

`PagedAttentionProofs` proves both properties of the run `attention` for every
`BlockShape` in which no block is empty (`ShapeConfig`), per-layer frames or not.

`KernelsEqual` needs no invariant: in any state, and for any layer, number of query
heads and context length, the three kernels have the same result. The reference
resolves slot `i` as token `i % context_len` of kv head `i \div context_len`; the
blocked walk reaches a token as a block and a position in it, the last block cut off;
the fused kernel reaches a query head as a kv head and a place in its group. Each is
a number split into two digits, which `Division` and `DivisionOf` show to be one to
one, so that the same slots are resolved (`WalkVisits`, `Groups`). The refusals agree
because a slot resolves exactly if its block does and the layer lies in the frame
(`SlotResolves`). `KernelsConsistent` is the special case the run checks.

`DecodesReadOwnBlocks` does need one, `FramesApart`: no table of a sequence maps two
resident blocks to one frame, and no record pins one frame twice in a table. Exact reference
counts do not imply it, as a table with a frame twice and a count of 2 would be
counted correctly and would give two tokens one place. It is preserved because a
frame enters a table in two ways only: from the free pool, where its count is 0 and
no entry names it (`ReserveApart`, `ReplacedApart`, `SwapInApart`), or with the
whole of another table or record (`ForkApart`, `AttachApart`). With it, vectors of
different blocks are in different frames, and vectors of one block are kept apart by
`VectorsDisjoint`.

### The Python pool

`PagedPoolProofs` proves all three properties of the run `paged_pool`, for any number
of frames, caches, layers and tokens, with and without the decode kernel.
`PoolConfig` assumes what the constructor sets up: one frame for all layers, no swap
tier, no prefix keys. The invariant has three parts.

* `PoolShape` says where a forward pass stands (`CallShaped`), that the layers of a
  cache have one length except those the pass is done with (`LengthsEven`), that a
  remembered length of a table is exact outside `ensure_capacity` (`LensTrue`) and that
  a remembered table agrees with the manager's as far as it goes (`HostsTrue`). The
  last is why `decode_inputs` may go by the length of the table alone (`TableForIs`):
  growth and copy-on-write are the only changes, and each forgets the table it
  affects. It is inductive whatever is reset and gives `PoolTypeCorrect`.
* `Exclusiveness`: the remembered frame of `writable_frame` is still the token's and has one
  reference, or the token is behind every position that will be written. The second
  case arises by a fork, which shares the frames of tokens below the length; as a pass
  only looks up tokens from its start on, such an entry never hits. It gives
  `StoresOwnFrames`.
* `TokensTrue`: the rows in the frames are the stored values, and those stored so far
  by the pass. A store goes to a frame that by `SoleHolder` no other entry names, and
  to rows past the stored ones of its block (`StoreSpan`). It gives `ReadsOwn`.

The last two assume `~ResetsWithForks`: no cache is reset once there are forks, and a
cache that was reset is not forked before it is filled again (a cache that never had a
block may be). A reset of a forked cache takes a token that was behind to ahead again,
and with it the entry that is no longer exclusive; a fork of a reset cache shares the
frames of tokens that are still ahead. Either is finding 3 and the run
`stale_writable`.

### The scheduler

`SchedulerProofs` is about `SchedulerSpec`, with every step of `schedule_next` a state
of its own and the engine's calls in between, for any requests, pool, batch size,
watermark and skip limit. `SchedulerConfig` assumes finitely many requests with root
sequences of their own, whose tokens fit the bounds of the cache model. `DrivesCache` proves
`SchedulerSpec => Spec`: the scheduler uses the cache through its calls only, so all
theorems about the cache hold under it.

| Theorem | States | Inductive with |
| --- | --- | --- |
| `SchedulerTypeCorrect`, `QueuesConsistent`, `SkippingBounded` | `SchedulerTypeOK`, `QueuesAgree`, `SkipsBounded` | `CoreInv`: the cache's invariant and `QueueInv`, which adds `ScanShaped` |
| `NothingLeftBehind` | `NoSequenceLeftBehind` | `SequencesInv` |
| `ActiveInPool` | `ActiveResident` | `ResidentInv` |
| `ReservationsCounted`, `AdmissionsFit` | `AccountingExact`, `AdmissionCovered` | `ReservedInv` |
| `PlannedNotPreempted` | `PlannedStayActive` | `TailPlanned` |
| `PlansSound` | `PlanSound` | `PlanInv` |
| `BudgetsCovered` | `ReservationHonoured` | `HonouredInv`, with `ReservedInv` |

* `ScanShaped` says where the scan of the pending queue stands: on a waiting request,
  and past the head only if the head may still be skipped. Without it the bound on
  skips does not follow, as the test and the count are steps apart.
* `SequencesInv` adds the candidate that is being admitted: it has its root sequence
  and no other, which is what makes the roll-back complete.
* `ResidentInv` adds the same candidate: the blocks it reserved or attached are
  resident. A record pins only resident frames, and only unshared frames are evicted,
  so eviction of a victim never reaches into another request.
* `ReservedInv` bounds each reservation by the pool, says that a waiting request
  has none, and remembers the capacity test until the candidate is active.
  It assumes `ResumesFirst`: the engine does not cancel a preempted request. With
  that call both theorems are false, which is finding 2 and the run
  `cancel_preempted`.
* `TailPlanned`: while `schedule_next` runs, the planned requests are the newest
  active ones, in order. Victims are taken just before them, which is why a planned
  request is never one. It assumes that no prompt is empty: an empty prompt is
  admitted without entering the plan (see the observations), and the theorem is then
  false. `run_paged` makes no such request.
* `PlanInv`: while `schedule_next` admits, the chunks planned so far are those of
  distinct active requests, of what is left of their prompts, and their tokens are the
  number already scheduled. The tokens of a plan are counted as a set of pairs, so
  that one more chunk is a disjoint union (`PrefixCount`); `BatchPlans` then follows
  the waiting prefills and the decode tokens that are added last. It assumes nonempty
  prompts as well.
* `HonouredInv`: each active request has one sequence, which stays within the budget it
  reserved, no prefix record holds a frame, and the candidate's budget fits beside the
  reservations. Every frame in use is then a place its owner reserved, an injection
  into the reservations of all active requests; these fit the pool, and a request
  below its budget leaves places of its own unused. It assumes `Unpreempted` and
  `Unshared`: no watermark, no external preemption, no prefix keys, as in the run
  `served`. With sharing the property is false (see the observations).

### The replay

`TraceReplayProofs` is about `ReplaySpec`: the driver's loop with every step of
`schedule_next` and of the cache it runs on, for every set of traces, pool and scheduler
configuration. `ReplayConfig` assumes what `run_paged` sets up (one frame for
all layers, the root sequence of a request has its id, every request of a trace once);
the theorems assume `Prompted`: no prompt is empty, without which plans are not sound.
All five safety properties of the run `replay` are proved:

| Theorem | States | From |
| --- | --- | --- |
| `ReplayTypeCorrect` | `ReplayTypeOK` | `DriverInv` |
| `BooksAgree` | `DriverAgrees` | `BooksInv`, `SeenInv`, `LiveInv`, `ParkedInv` |
| `TokensBacked` | `CommittedBacked` | `BooksInv`, `LiveInv` |
| `ReplayActiveInPool` | `ActiveResident` | `ResidentInv`, which the driver's own calls keep too |
| `ReplayLeaksNothing` | `LeakFree`, if `~Rekeying` | `BooksInv`, `SeenInv` and `NothingLeaks` |

`ReplayInvariant` has two halves. `BaseInv` is what `SchedulerProofs` shows of the
scheduler. The driver calls the cache past the scheduler too (growth, forks,
copy-on-write, publication), so its steps are not steps of `SchedulerSpec`; `ReplayKinds`
divides them into steps of the scheduler, parkings, and calls of the cache for
a request whose state allows it, and `ReplayBase` shows that each keeps `BaseInv` and is
a step of the cache manager. This gives `ReplayDrivesCache`: `ReplaySpec => Spec`.

`DriverInv` is about the driver:

* `BooksInv`: for each request, the driver's record, the scheduler's record, the list of
  sequences and the block tables agree (`Book`). What is committed and what is left of
  the prompt make up the prompt and the decoded tokens, all of it has blocks, and a
  finished request is unknown to the scheduler. It carries `DriverAgrees` and
  `CommittedBacked`.
* `SeenInv`: the scheduler admits a request before the driver notices. A request that is
  under way but not noticed is still ahead in the plan, and its books are those of a
  request just admitted.
* `PrefillAhead`, `DecodeAhead`: what is left of the plan can be executed although
  parts of it have been: later chunks are of other requests still in prefill, and
  later decode requests are in decode, or were parked by a reclaim of this step.
* `GrownInv`: in the growth loop the branches before the current one have a block for
  the next token, and when the token is written all have. Without it the token that is
  committed would not have its place.
* `LiveInv`, `ParkedInv`: which requests are in `live`, and that `preempted_ids`
  lacks only requests parked in this step, until `AccountStep`.
* `PhaseInv`: `schedule_next` runs in its own phase only; the indexes are in range.

Every step either leaves a request's sequences, remaining tokens and the lengths of its
tables as they are, or lets its tables grow (`Undisturbed`), and then keeps its book
(`BookKept`); the steps that do more are admission, the end of a chunk, a fork, and a
commit, each for one request. `ReplayLeaksNothing` follows by putting the parts together:
when every request of the trace is finished the scheduler knows none, so no request has a
sequence, the cache has none, and `NothingLeaks` applies, through `ReplayDrivesCache`.
Its condition `~Rekeying` switches off a call `run_paged` never makes: it publishes a
prompt only for a sequence without a prefix.

### The baseline

`ContiguousBaselineProofs` proves, for every pool, context limit and trace,
`BaselineTypeOK`, `RunsDisjoint` (`BlocksAccounted`), `TokensFit` (`NeverOverruns`),
`OneTokenPerStep` (`OneTokenEach`) and the action property `FirstFit`
(`AdmitsFirstFit`). `BaselineInv` adds that a reservation has the
size its request needs, lies in the pool and has tokens left to decode
(`ReservationsSound`), that the requests taken from the trace are completed or active
(`RequestsCounted`), and that a reservation's tokens are the steps since its admission
(`TokensCounted`), with a case for the decode loop under way: the reservation moved
into the place of an erased one has not had its token of this step. Request sizes are
positive (`BaselineConfig`), as the trace generator draws them.

### Recursive definitions

The model's loops over lists are recursive functions, defined by a `LET` over
positions: `Kept` (what remains of a list, in order), `Chunked` (the waiting
prefills of a plan) and the scan of `first_fit`. A library induction rule takes a
predicate as parameter, which the installed provers cannot instantiate. The proofs
use the least counterexample instead: `LeastNumber` (every nonempty set of numbers
has a least element, from `WFMin` and `NatLessThanWellFounded`) is applied to the
set of positions at which the claim fails, and the step from the position before
refutes it.

### Only model-checked

Every invariant and action property of the passing runs is proved. What is left to TLC:

* `EventuallyAdmitted`, `EventuallyServed`, `ReplayEnds` and `Completes`: liveness
  under fairness is beyond the proof system's temporal backend.
* That the loop operators of `FrameRefs` equal the whole loop for any number of calls:
  base and step are proved, not their combination.

## 5. Not modelled

* Frame memory: slabs, alignment, strides; the advisory eviction selector, which
  changes nothing.
* Hash collisions in `content_hash_of`; 32-bit wrap-around in `reserve_tokens` and
  `blocks_for_tokens` (tokens are bounded by `MaxTokens`).
* A swap backend that loses slots: `HostSwapBackend` does not, so in
  `KVCacheManager` a load never fails. In `MemoryAllocator` it can.
* Exchanging one swap backend for another while slots are filled, and
  `set_swap_backend` while a cache manager is in use: the replay installs the backend
  before its first sequence. In `MemoryAllocator` the one backend comes and goes.
* The second roll-back of `try_admit` (`src/Scheduler.cpp:114-117`): with a nonempty
  prompt, nothing attached and nothing still needed exclude each other.
* Requests without any token in the baseline, which the trace generator never draws.
* Request ids used twice, and fork ids that collide with roots: `run_paged` creates
  neither.
* Multimodal spans and positional encodings: carried along, never read.
* Floating-point arithmetic: scores, softmax (two-pass or online), AVX-512 helpers,
  and the Triton kernel as a whole. Sizes and offsets in `std::size_t` are natural
  numbers; wrap-around of a 32-bit `context_len` is out of the model's range.
* In `run_paged`: the metrics, `max_steps`. In the Python pool: the spacer sequence of
  `scatter`, host and device copies, and which cache the attention modules are bound to
  (`bind_paged_layers`).
* Trace parsing, CSV output, golden fixtures, benchmarks, the Python check scripts and
  the trace generator: I/O, timing and random sampling around the modelled parts.

## 6. Plan

Done: all modules and runs above; the theorems about the allocator, the layout, the
cache manager and its refinement of `LogicalCache`, the kernels, the Python pool, the
scheduler, the replay and the baseline.

Next, in this order:

1. `ReservationHonoured` with preemption: the places of a parked request are in the
   swap tier, not in the pool.
2. A failing `load` in `swap_in_sequence` for backends other than the host one.
