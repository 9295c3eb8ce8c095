--------------------------- MODULE PagedAttention ---------------------------
(***************************************************************************)
(* What the CPU decode kernels read through a CacheView.  A kernel call is *)
(* atomic for the cache, so a kernel is an operator from the state: the    *)
(* empty set when it returns false, else the set of its one output, which  *)
(* says for each query head which key and value vectors, at which token,   *)
(* entered its softmax.  The floating-point arithmetic on them is left     *)
(* out, and with it the difference between the two-pass and the online     *)
(* form of the optimised kernel.  An address is <<frame, element offset>>; *)
(* nullptr is the empty set.                                               *)
(***************************************************************************)
EXTENDS KVCacheManager, CacheLayout

CONSTANT Shape    \* the pool's BlockShape

ASSUME ShapeConfig ==
    /\ Shape \in BlockShape
    /\ Shape.tokens_per_block = TokensPerBlock
    /\ element_count(Shape) > 0
    /\ NumTables = IF per_layer_frames(Shape) THEN Shape.num_layers ELSE 1

-----------------------------------------------------------------------------
(* CacheView *)

(* The table and the layer inside a frame where a model layer is found. *)
TableLayer(layer) == IF per_layer_frames(Shape) THEN layer ELSE 0
OffsetLayer(layer) == IF per_layer_frames(Shape) THEN 0 ELSE layer

(* Is there a table for the layer, with an entry for the block? *)
HasEntry(s, logical, layer) == layer + 1 \in Tables /\ logical < Len(tables[s][layer + 1])

(* block_bytes(index, layer): {} for an unmapped or swapped-out block.  Faulty *)
(* variant: a swapped-out block still resolves to the frame it once had.       *)
FrameAt_stale(s, logical, layer) ==
    IF HasEntry(s, logical, layer) THEN {tables[s][layer + 1][logical + 1].frame} ELSE {}
FrameAt(s, logical, layer) ==
    IF HasEntry(s, logical, layer) /\ tables[s][layer + 1][logical + 1].slot = NoSlot
    THEN {tables[s][layer + 1][logical + 1].frame} ELSE {}

slot(s, stream, layer, token, kv_head) ==
    FrameAt(s, token \div TokensPerBlock, TableLayer(layer))
        \X element_offset(Shape, OffsetLayer(layer), stream, token % TokensPerBlock, kv_head)

-----------------------------------------------------------------------------
(* The kernels *)

Inconsistent(params) ==
    \/ params.context_len = 0
    \/ params.layer >= Shape.num_layers
    \/ params.num_query_heads = 0
    \/ params.num_query_heads % Shape.num_kv_heads # 0

group_size(params) == params.num_query_heads \div Shape.num_kv_heads
QueryHeads(params) == 0 .. params.num_query_heads - 1

(* The reference: every slot is resolved into a flat array before any output. *)
paged_attention_decode(s, params) ==
    LET len == params.context_len
        index == 0 .. Shape.num_kv_heads * len - 1
        resolved(stream) == [i \in index |-> slot(s, stream, params.layer, i % len, i \div len)]
        attend(keys, values) ==
            [q \in QueryHeads(params) |->
                LET base == (q \div group_size(params)) * len
                IN  {[token |-> t, Key |-> keys[base + t], Value |-> values[base + t]] : t \in 0 .. len - 1}]
        outcome(keys, values) ==
            IF \E i \in index : keys[i] = {} \/ values[i] = {} THEN {}
            ELSE {attend(keys, values)}
    IN  IF Inconsistent(params) THEN {} ELSE outcome(resolved("Key"), resolved("Value"))

(* The blocked walk: one frame per logical block, then the block's tokens. *)
logical_blocks(params) == (params.context_len + TokensPerBlock - 1) \div TokensPerBlock

(* Faulty variant: the last block is walked to its end. *)
TokensIn_whole(params, logical) == logical * TokensPerBlock .. (logical + 1) * TokensPerBlock - 1
TokensIn(params, logical) ==
    LET begin == logical * TokensPerBlock
        end == IF begin + TokensPerBlock < params.context_len
               THEN begin + TokensPerBlock ELSE params.context_len
    IN  begin .. end - 1

BlockReads(s, params, kv_head) ==
    LET at(stream, logical, t) ==
            FrameAt(s, logical, TableLayer(params.layer))
                \X element_offset(Shape, OffsetLayer(params.layer), stream,
                                  t - logical * TokensPerBlock, kv_head)
    IN  UNION {{[token |-> t, Key |-> at("Key", logical, t), Value |-> at("Value", logical, t)] :
                    t \in TokensIn(params, logical)} : logical \in 0 .. logical_blocks(params) - 1}

(* The frames are resolved first; an offset is refused where it is computed. *)
WalkRefused(s, params) ==
    \/ \E logical \in 0 .. logical_blocks(params) - 1 :
          FrameAt(s, logical, TableLayer(params.layer)) = {}
    \/ OffsetLayer(params.layer) >= frame_layers(Shape)

paged_attention_decode_blocked(s, params) ==
    IF Inconsistent(params) \/ WalkRefused(s, params) THEN {}
    ELSE LET reads == [h \in 0 .. Shape.num_kv_heads - 1 |-> BlockReads(s, params, h)]
         IN  {[q \in QueryHeads(params) |-> reads[q \div group_size(params)]]}

(* The fused kernel walks the blocks once per kv head and serves its group. *)
GroupOf(params, kv_head) == {kv_head * group_size(params) + g : g \in 0 .. group_size(params) - 1}

paged_attention_decode_fused(s, params) ==
    IF Inconsistent(params) \/ WalkRefused(s, params) THEN {}
    ELSE LET reads == [h \in 0 .. Shape.num_kv_heads - 1 |-> BlockReads(s, params, h)]
         IN  {[q \in QueryHeads(params) |->
                 UNION {reads[h] : h \in {k \in DOMAIN reads : q \in GroupOf(params, k)}}]}

-----------------------------------------------------------------------------
(* Calls a model makes: every layer and one past the last, head counts that   *)
(* are and are not multiples of num_kv_heads, contexts from none to one more  *)
(* than any sequence can hold.                                                *)
Calls == [layer : 0 .. Shape.num_layers,
          num_query_heads : {Shape.num_kv_heads + 1, 2 * Shape.num_kv_heads},
          context_len : 0 .. MaxTokens + 1]

(* "Same contract as paged_attention_decode" (decode_blocked) and "the scalar *)
(* reference stays the oracle" (decode_opt): on every cache state the kernels *)
(* refuse the same calls and give each query head the same vectors.           *)
KernelsAgree ==
    \A s \in sequences, params \in Calls :
        LET reference == paged_attention_decode(s, params)
        IN  /\ paged_attention_decode_blocked(s, params) = reference
            /\ paged_attention_decode_fused(s, params) = reference

(* The vectors a successful call reads, each with the coordinate it is read for. *)
Spans(params, out) ==
    UNION {UNION {{[token |-> r.token, stream |-> st, kv_head |-> q \div group_size(params), at |-> a] :
                      a \in r[st]} : r \in out[q], st \in KVStream} : q \in DOMAIN out}

(* A decode that succeeds reads the sequence's own blocks while they are in   *)
(* the pool, never a swapped-out or freed frame, and the vectors of different *)
(* tokens, kv heads and streams never overlap: the block table never maps two *)
(* blocks of a sequence to one frame and the layout separates the rest.       *)
DecodeReadsOwnBlocks ==
    \A s \in sequences, params \in Calls : \A out \in paged_attention_decode(s, params) :
        /\ \A x \in Spans(params, out) :
              /\ ref_count[x.at[1]] > 0
              /\ block_bytes(s, CellOf(x.token, TableLayer(params.layer) + 1)) # NoContent
              /\ x.at[2] + Shape.head_dim <= element_count(Shape)
        /\ \A x, y \in Spans(params, out) :
              x # y /\ x.at[1] = y.at[1] => \/ x.at[2] + Shape.head_dim <= y.at[2]
                                            \/ y.at[2] + Shape.head_dim <= x.at[2]
=============================================================================
