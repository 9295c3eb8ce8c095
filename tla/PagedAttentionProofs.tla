------------------------ MODULE PagedAttentionProofs ------------------------
(***************************************************************************)
(* Proofs about the decode kernels, for every shape of the blocks, every   *)
(* state of the cache and every call.                                      *)
(*                                                                         *)
(* That the kernels agree is arithmetic: the reference numbers its slots   *)
(* by kv head and token, the blocked walk its tokens by block and position *)
(* and the fused kernel its query heads by kv head and place in the group. *)
(* Division and DivisionOf say that each of these numberings is one to     *)
(* one, so the three walks meet the same slots.                            *)
(*                                                                         *)
(* That the vectors a decode reads never overlap needs an invariant of the *)
(* cache manager: FramesApart, no table of a sequence and no prefix record *)
(* names one frame twice.  It is inductive beside Structure and            *)
(* RefCountsExact, because a frame enters a table either from the free     *)
(* pool, where no other entry holds it, or with all of another table.      *)
(***************************************************************************)
EXTENDS PagedAttention, LogicalCacheProofs, Integers

-----------------------------------------------------------------------------
(* The layout of a frame keeps the vectors of different coordinates apart and *)
(* inside the frame.  A coordinate is a number written with the digits layer, *)
(* stream, token, kv_head (Rank), and its vector is the Rank-th piece of      *)
(* head_dim elements.                                                         *)

(* The coordinates of a vector in a frame, and their number. *)
Coordinates(shape) ==
    {x \in [layer : Nat, stream : KVStream, token : Nat, kv_head : Nat] :
        InShape(shape, x.layer, x.token, x.kv_head)}
StreamRank(x) == Number(x.layer, 2, stream_index(x.stream))
TokenRank(shape, x) == Number(StreamRank(x), shape.tokens_per_block, x.token)
Rank(shape, x) == Number(TokenRank(shape, x), shape.num_kv_heads, x.kv_head)
VectorCount(shape) == frame_layers(shape) * 2 * shape.tokens_per_block * shape.num_kv_heads

LEMMA ShapeNats ==
    ASSUME NEW shape \in BlockShape
    PROVE  /\ shape.tokens_per_block \in Nat
           /\ shape.num_kv_heads \in Nat
           /\ shape.head_dim \in Nat
           /\ shape.bytes_per_element \in Nat
           /\ frame_layers(shape) \in Nat
BY DEF BlockShape, frame_layers

LEMMA CoordinateNats ==
    ASSUME NEW shape \in BlockShape, NEW x \in Coordinates(shape)
    PROVE  /\ x.layer \in Nat /\ x.layer < frame_layers(shape)
           /\ x.token \in Nat /\ x.token < shape.tokens_per_block
           /\ x.kv_head \in Nat /\ x.kv_head < shape.num_kv_heads
           /\ x.stream \in KVStream
           /\ stream_index(x.stream) \in Nat /\ stream_index(x.stream) < 2
BY DEF Coordinates, InShape, KVStream, stream_index

(* Ranks are below the number of vectors. *)
LEMMA RankInRange ==
    ASSUME NEW shape \in BlockShape, NEW x \in Coordinates(shape)
    PROVE  /\ StreamRank(x) \in Nat
           /\ TokenRank(shape, x) \in Nat
           /\ Rank(shape, x) \in Nat
           /\ Rank(shape, x) < VectorCount(shape)
<1> USE ShapeNats, CoordinateNats
<1>1. StreamRank(x) \in Nat /\ StreamRank(x) < frame_layers(shape) * 2
  BY DEF StreamRank, Number
<1>2. TokenRank(shape, x) \in Nat
      /\ TokenRank(shape, x) < frame_layers(shape) * 2 * shape.tokens_per_block
  <2>1. frame_layers(shape) * 2 \in Nat
    OBVIOUS
  <2> QED BY <1>1, <2>1, DigitInRange DEF TokenRank
<1>3. Rank(shape, x) \in Nat /\ Rank(shape, x) < VectorCount(shape)
  <2>1. frame_layers(shape) * 2 * shape.tokens_per_block \in Nat
    OBVIOUS
  <2> QED BY <1>2, <2>1, DigitInRange DEF Rank, VectorCount
<1> QED BY <1>1, <1>2, <1>3

(* Different coordinates have different ranks. *)
LEMMA RankInjective ==
    ASSUME NEW shape \in BlockShape, NEW x \in Coordinates(shape), NEW y \in Coordinates(shape),
           Rank(shape, x) = Rank(shape, y)
    PROVE  x = y
<1>1. shape.tokens_per_block \in Nat /\ shape.num_kv_heads \in Nat
  BY ShapeNats
<1>2. /\ x.kv_head \in Nat /\ x.kv_head < shape.num_kv_heads
      /\ y.kv_head \in Nat /\ y.kv_head < shape.num_kv_heads
      /\ x.token \in Nat /\ x.token < shape.tokens_per_block
      /\ y.token \in Nat /\ y.token < shape.tokens_per_block
  BY CoordinateNats
<1>3. TokenRank(shape, x) = TokenRank(shape, y) /\ x.kv_head = y.kv_head
  <2>1. Number(TokenRank(shape, x), shape.num_kv_heads, x.kv_head)
            = Number(TokenRank(shape, y), shape.num_kv_heads, y.kv_head)
    BY DEF Rank
  <2>2. TokenRank(shape, x) \in Nat /\ TokenRank(shape, y) \in Nat
    BY RankInRange
  <2> QED BY <1>1, <1>2, <2>1, <2>2, DigitsUnique
<1>4. StreamRank(x) = StreamRank(y) /\ x.token = y.token
  <2>1. Number(StreamRank(x), shape.tokens_per_block, x.token)
            = Number(StreamRank(y), shape.tokens_per_block, y.token)
    BY <1>3 DEF TokenRank
  <2>2. StreamRank(x) \in Nat /\ StreamRank(y) \in Nat
    BY RankInRange
  <2> QED BY <1>1, <1>2, <2>1, <2>2, DigitsUnique
<1>5. x.layer = y.layer /\ stream_index(x.stream) = stream_index(y.stream)
  BY <1>4, CoordinateNats DEF StreamRank, Number
<1>6. x.stream = y.stream
  BY <1>5, CoordinateNats DEF stream_index, KVStream
<1> QED BY <1>3, <1>4, <1>5, <1>6 DEF Coordinates

OffsetAt(shape, x) == OffsetOf(shape, x.layer, x.stream, x.token, x.kv_head)

(* The offset the code computes from strides is the rank times head_dim. *)
LEMMA OffsetIsRank ==
    ASSUME NEW shape \in BlockShape, NEW x \in Coordinates(shape)
    PROVE  /\ OffsetAt(shape, x) = Rank(shape, x) * shape.head_dim
           /\ element_count(shape) = VectorCount(shape) * shape.head_dim
<1> USE ShapeNats, CoordinateNats
<1>1. OffsetAt(shape, x) = Rank(shape, x) * shape.head_dim
  <2> DEFINE T == shape.tokens_per_block
             H == shape.num_kv_heads
             D == shape.head_dim
             l == x.layer
             s == stream_index(x.stream)
             t == x.token
             h == x.kv_head
  <2>1. OffsetAt(shape, x) = l * (2 * (T * (H * D))) + s * (T * (H * D)) + t * (H * D) + h * D
    BY DEF OffsetAt, OffsetOf, layer_stride, stream_stride, token_stride, head_stride, kKVStreamCount
  <2>2. Rank(shape, x) = ((l * 2 + s) * T + t) * H + h
    BY DEF Rank, TokenRank, StreamRank, Number
  <2>3. T \in Nat /\ H \in Nat /\ D \in Nat /\ l \in Nat /\ s \in Nat /\ t \in Nat /\ h \in Nat
    OBVIOUS
  <2> HIDE DEF T, H, D, l, s, t, h
  <2>4. (((l * 2 + s) * T + t) * H + h) * D
            = l * (2 * (T * (H * D))) + s * (T * (H * D)) + t * (H * D) + h * D
    BY <2>3
  <2> QED BY <2>1, <2>2, <2>4 DEF D
<1>2. element_count(shape) = VectorCount(shape) * shape.head_dim
  BY DEF element_count, VectorCount, layer_stride, stream_stride, token_stride, head_stride, kKVStreamCount
<1> QED BY <1>1, <1>2

(* element_offset() places every vector inside the frame, and the frame's      *)
(* elements are the bytes BlockShape::byte_size() asks the allocator for.      *)
THEOREM OffsetsInFrame ==
    ASSUME NEW shape \in BlockShape
    PROVE  /\ \A x \in Coordinates(shape) :
                 /\ element_offset(shape, x.layer, x.stream, x.token, x.kv_head) = {OffsetAt(shape, x)}
                 /\ OffsetAt(shape, x) \in Nat
                 /\ OffsetAt(shape, x) + shape.head_dim <= element_count(shape)
           /\ element_count(shape) * shape.bytes_per_element = byte_size(shape)
<1> USE ShapeNats
<1>1. ASSUME NEW x \in Coordinates(shape)
      PROVE  element_offset(shape, x.layer, x.stream, x.token, x.kv_head) = {OffsetAt(shape, x)}
  BY DEF Coordinates, element_offset, OffsetAt
<1>2. ASSUME NEW x \in Coordinates(shape)
      PROVE  /\ OffsetAt(shape, x) \in Nat
             /\ OffsetAt(shape, x) + shape.head_dim <= element_count(shape)
  <2>1. VectorCount(shape) \in Nat
    BY DEF VectorCount
  <2>2. /\ Rank(shape, x) * shape.head_dim \in Nat
        /\ Rank(shape, x) * shape.head_dim + shape.head_dim <= VectorCount(shape) * shape.head_dim
    BY <2>1, RankInRange, ItemsApart
  <2> QED BY <2>2, OffsetIsRank
<1>3. element_count(shape) * shape.bytes_per_element = byte_size(shape)
  BY DEF element_count, layer_stride, stream_stride, token_stride, head_stride, kKVStreamCount, byte_size
<1> QED BY <1>1, <1>2, <1>3

(* The vectors of two different coordinates do not overlap: a write of one     *)
(* token, head, stream or layer never reaches another.                         *)
THEOREM VectorsDisjoint ==
    ASSUME NEW shape \in BlockShape, NEW x \in Coordinates(shape), NEW y \in Coordinates(shape), x # y
    PROVE  \/ OffsetAt(shape, x) + shape.head_dim <= OffsetAt(shape, y)
           \/ OffsetAt(shape, y) + shape.head_dim <= OffsetAt(shape, x)
<1> USE ShapeNats, RankInRange
<1>1. Rank(shape, x) < Rank(shape, y) \/ Rank(shape, y) < Rank(shape, x)
  BY RankInjective
<1>2. CASE Rank(shape, x) < Rank(shape, y)
  <2>1. Rank(shape, x) * shape.head_dim + shape.head_dim <= Rank(shape, y) * shape.head_dim
    BY <1>2, ItemsApart
  <2> QED BY <2>1, OffsetIsRank
<1>3. CASE Rank(shape, y) < Rank(shape, x)
  <2>1. Rank(shape, y) * shape.head_dim + shape.head_dim <= Rank(shape, x) * shape.head_dim
    BY <1>3, ItemsApart
  <2> QED BY <2>1, OffsetIsRank
<1> QED BY <1>1, <1>2, <1>3

-----------------------------------------------------------------------------
(* The shape of the pool: no dimension is zero. *)
LEMMA ShapeFacts ==
    /\ Shape \in BlockShape /\ Shape.tokens_per_block = TokensPerBlock
    /\ TokensPerBlock \in Nat /\ TokensPerBlock > 0
    /\ Shape.num_kv_heads \in Nat /\ Shape.num_kv_heads > 0
    /\ Shape.head_dim \in Nat /\ Shape.num_layers \in Nat
    /\ frame_layers(Shape) \in Nat
  <1>1. Shape \in BlockShape /\ Shape.tokens_per_block = TokensPerBlock
    BY ShapeConfig
  <1>2. /\ Shape.num_kv_heads \in Nat /\ Shape.head_dim \in Nat /\ Shape.num_layers \in Nat
        /\ frame_layers(Shape) \in Nat
    BY <1>1, ShapeNats DEF BlockShape
  <1>3. TokensPerBlock \in Nat /\ TokensPerBlock > 0
    BY ConfigFacts
  <1>4. ASSUME Shape.num_kv_heads = 0 PROVE FALSE
    <2>1. token_stride(Shape) = 0
      BY <1>2, <1>4 DEF token_stride, head_stride
    <2>2. stream_stride(Shape) = 0
      BY <2>1, <1>1, <1>3 DEF stream_stride
    <2>3. layer_stride(Shape) = 0
      BY <2>2 DEF layer_stride, kKVStreamCount
    <2>4. element_count(Shape) = 0
      BY <2>3, <1>2 DEF element_count
    <2> QED BY <2>4, ShapeConfig
  <1> QED BY <1>1, <1>2, <1>3, <1>4

(* The parameters of a kernel call. *)
Params == [layer : Nat, num_query_heads : Nat, context_len : Nat]

(* A layer has a table and a place in its frame, unless the frames have room  *)
(* for fewer layers.                                                          *)
LEMMA LayerPlace ==
    ASSUME NEW layer \in Nat, layer < Shape.num_layers
    PROVE  /\ TableLayer(layer) \in Nat /\ TableLayer(layer) + 1 \in Tables
           /\ OffsetLayer(layer) \in Nat
  <1>1. CASE per_layer_frames(Shape)
    <2>1. NumTables = Shape.num_layers /\ TableLayer(layer) = layer /\ OffsetLayer(layer) = 0
      BY <1>1, ShapeConfig DEF TableLayer, OffsetLayer
    <2> QED BY <2>1, ShapeFacts DEF Tables
  <1>2. CASE ~per_layer_frames(Shape)
    <2>1. NumTables = 1 /\ TableLayer(layer) = 0 /\ OffsetLayer(layer) = layer
      BY <1>2, ShapeConfig DEF TableLayer, OffsetLayer
    <2> QED BY <2>1 DEF Tables
  <1> QED BY <1>1, <1>2

(* The blocks a context spans, and the tokens of each. *)
LEMMA BlocksOfTokens ==
    ASSUME NEW params \in Params, params.context_len > 0
    PROVE  /\ logical_blocks(params) \in Nat
           /\ \A t \in 0 .. params.context_len - 1 :
                 /\ t \div TokensPerBlock \in 0 .. logical_blocks(params) - 1
                 /\ t \in TokensIn(params, t \div TokensPerBlock)
           /\ \A b \in 0 .. logical_blocks(params) - 1 :
                 /\ b * TokensPerBlock \in 0 .. params.context_len - 1
                 /\ (b * TokensPerBlock) \div TokensPerBlock = b
                 /\ \A t \in TokensIn(params, b) :
                       /\ t \in 0 .. params.context_len - 1
                       /\ t \div TokensPerBlock = b /\ t - b * TokensPerBlock = t % TokensPerBlock
  <1> DEFINE len == params.context_len
             T == TokensPerBlock
             n == logical_blocks(params)
  <1>1. len \in Nat /\ len > 0 /\ T \in Nat /\ T > 0
    BY ShapeFacts DEF Params
  <1>2. n = (len + T - 1) \div T
    BY DEF logical_blocks
  <1>3. \A b \in Nat : TokensIn(params, b) = b * T .. (IF b * T + T < len THEN b * T + T ELSE len) - 1
    BY DEF TokensIn
  <1> HIDE DEF len, T, n
  <1>4. n \in Nat /\ n * T <= len + T - 1 /\ len + T - 1 < n * T + T
    <2> DEFINE m == len + T - 1
    <2>1. m \in Nat
      BY <1>1
    <2> HIDE DEF m
    <2>2. m \div T \in Nat /\ m % T \in Nat /\ m % T < T /\ m = (m \div T) * T + (m % T)
      BY <1>1, <2>1, Division
    <2>3. (m \div T) * T \in Nat
      BY <1>1, <2>2, ItemsApart
    <2>4. m \div T \in Nat /\ (m \div T) * T <= m /\ m < (m \div T) * T + T
      BY <2>1, <2>2, <2>3, <1>1
    <2> QED BY <2>4, <1>2 DEF m
  <1>5. ASSUME NEW t \in 0 .. len - 1
        PROVE  t \div T \in 0 .. n - 1 /\ t \in TokensIn(params, t \div T)
    <2>1. t \in Nat /\ t < len
      BY <1>1
    <2>2. t \div T \in Nat /\ t % T \in Nat /\ t % T < T /\ t = (t \div T) * T + (t % T)
      BY <1>1, <2>1, Division
    <2> DEFINE b == t \div T
    <2>3. b * T \in Nat /\ b * T <= t /\ t < b * T + T
      <3>1. b * T \in Nat
        BY <1>1, <2>2, ItemsApart
      <3> QED BY <3>1, <2>1, <2>2, <1>1
    <2>4. b < n
      <3>1. SUFFICES ASSUME n <= b PROVE FALSE
        BY <1>4, <2>2
      <3>2. n * T <= b * T /\ n * T \in Nat
        <4>1. CASE n = b
          BY <4>1, <2>3
        <4>2. CASE n < b
          BY <4>2, <1>1, <1>4, <2>2, <2>3, ItemsApart
        <4> QED BY <4>1, <4>2, <3>1, <1>4, <2>2
      <3> HIDE DEF b
      <3> QED BY <3>2, <2>3, <2>1, <1>4, <1>1
    <2>5. TokensIn(params, b) = b * T .. (IF b * T + T < len THEN b * T + T ELSE len) - 1
      BY <1>3, <2>2
    <2>6. b \in Nat
      BY <2>2
    <2> HIDE DEF b
    <2>7. t \in TokensIn(params, b)
      BY <2>5, <2>3, <2>1, <1>1
    <2>8. b \in 0 .. n - 1
      BY <2>4, <2>6, <1>4
    <2> QED BY <2>7, <2>8 DEF b
  <1>6. ASSUME NEW b \in 0 .. n - 1
        PROVE  /\ b * T \in 0 .. len - 1 /\ (b * T) \div T = b
               /\ \A t \in TokensIn(params, b) : t \in 0 .. len - 1 /\ t \div T = b /\ t - b * T = t % T
    <2>1. b \in Nat /\ b < n
      BY <1>4
    <2>2. b * T \in Nat /\ b * T + T <= n * T
      BY <2>1, <1>1, <1>4, ItemsApart
    <2>3. b * T < len
      BY <2>2, <1>1, <1>4
    <2>4. (b * T + 0) \div T = b
      BY <2>1, <1>1, DivisionOf
    <2>5. ASSUME NEW t \in TokensIn(params, b)
          PROVE  t \in 0 .. len - 1 /\ t \div T = b /\ t - b * T = t % T
      <3>1. TokensIn(params, b) = b * T .. (IF b * T + T < len THEN b * T + T ELSE len) - 1
        BY <1>3, <2>1
      <3>2. t \in Int /\ b * T <= t /\ t < len /\ t < b * T + T
        BY <3>1, <2>2, <1>1
      <3> DEFINE r == t - b * T
      <3>3. r \in Nat /\ r < T /\ t = b * T + r
        BY <3>2, <2>2, <1>1
      <3> HIDE DEF r
      <3>4. (b * T + r) \div T = b /\ (b * T + r) % T = r
        BY <3>3, <2>1, <1>1, DivisionOf
      <3> QED BY <3>2, <3>3, <3>4, <2>2, <1>1 DEF r
    <2> QED BY <2>2, <2>3, <2>4, <2>5, <1>1
  <1> QED BY <1>4, <1>5, <1>6 DEF len, T, n

-----------------------------------------------------------------------------
(* What every kernel gives a kv head: all tokens of the context, each with    *)
(* the places of its key and its value.                                       *)
Vectors(s, params, h) ==
    {[token |-> t, Key |-> slot(s, "Key", params.layer, t, h), Value |-> slot(s, "Value", params.layer, t, h)] :
        t \in 0 .. params.context_len - 1}

Heads == 0 .. Shape.num_kv_heads - 1

(* A slot resolves exactly when its block is resident and its layer is in     *)
(* the frame.                                                                 *)
LEMMA SlotResolves ==
    ASSUME NEW s, NEW params \in Params, ~Inconsistent(params), NEW stream,
           NEW t \in 0 .. params.context_len - 1, NEW h \in Heads
    PROVE  slot(s, stream, params.layer, t, h) = {} <=>
              \/ FrameAt(s, t \div TokensPerBlock, TableLayer(params.layer)) = {}
              \/ OffsetLayer(params.layer) >= frame_layers(Shape)
  <1> DEFINE F == FrameAt(s, t \div TokensPerBlock, TableLayer(params.layer))
             O == element_offset(Shape, OffsetLayer(params.layer), stream, t % TokensPerBlock, h)
  <1>1. slot(s, stream, params.layer, t, h) = F \X O
    BY DEF slot
  <1>2. t \in Nat /\ h \in Nat /\ h < Shape.num_kv_heads /\ params.layer \in Nat /\ params.layer < Shape.num_layers
    BY ShapeFacts DEF Params, Heads, Inconsistent
  <1>3. OffsetLayer(params.layer) \in Nat /\ frame_layers(Shape) \in Nat
    BY <1>2, LayerPlace, ShapeFacts
  <1>4. t % TokensPerBlock < Shape.tokens_per_block
    BY <1>2, ShapeFacts, Division
  <1>5. O = {} <=> OffsetLayer(params.layer) >= frame_layers(Shape)
    BY <1>2, <1>3, <1>4 DEF element_offset, InShape
  <1> HIDE DEF F, O
  <1>6. F \X O = {} <=> F = {} \/ O = {}
    <2>1. ASSUME F # {}, O # {} PROVE F \X O # {}
      <3>1. PICK f \in F, o \in O : TRUE
        BY <2>1
      <3>2. <<f, o>> \in F \X O
        BY <3>1
      <3> QED BY <3>2
    <2>2. ASSUME F = {} \/ O = {} PROVE F \X O = {}
      BY <2>2
    <2> QED BY <2>1, <2>2
  <1> QED BY <1>1, <1>5, <1>6 DEF F

(* The blocked walk visits every token once, at the place slot() gives it. *)
LEMMA WalkVisits ==
    ASSUME NEW s, NEW params \in Params, ~Inconsistent(params), NEW h
    PROVE  BlockReads(s, params, h) = Vectors(s, params, h)
  <1> DEFINE At2(stream, b, t) ==
                 FrameAt(s, b, TableLayer(params.layer))
                     \X element_offset(Shape, OffsetLayer(params.layer), stream, t - b * TokensPerBlock, h)
             Row(b, t) == [token |-> t, Key |-> At2("Key", b, t), Value |-> At2("Value", b, t)]
             Rows(b) == {Row(b, t) : t \in TokensIn(params, b)}
             Blocks == 0 .. logical_blocks(params) - 1
             Vector(t) == [token |-> t, Key |-> slot(s, "Key", params.layer, t, h),
                           Value |-> slot(s, "Value", params.layer, t, h)]
  <1>1. BlockReads(s, params, h) = UNION {Rows(b) : b \in Blocks}
    BY DEF BlockReads
  <1>2. Vectors(s, params, h) = {Vector(t) : t \in 0 .. params.context_len - 1}
    BY DEF Vectors
  <1>3. params.context_len > 0
    BY DEF Params, Inconsistent
  <1>4. ASSUME NEW b \in Blocks, NEW t \in TokensIn(params, b) PROVE Row(b, t) = Vector(t) /\ t \in 0 .. params.context_len - 1
    <2>1. t \div TokensPerBlock = b /\ t - b * TokensPerBlock = t % TokensPerBlock
      BY <1>3, BlocksOfTokens
    <2>2. \A stream : At2(stream, b, t) = slot(s, stream, params.layer, t, h)
      BY <2>1 DEF slot
    <2>3. t \in 0 .. params.context_len - 1
      BY <1>3, BlocksOfTokens
    <2> HIDE DEF At2
    <2> QED BY <2>2, <2>3
  <1>5. \A t \in 0 .. params.context_len - 1 : t \div TokensPerBlock \in Blocks /\ t \in TokensIn(params, t \div TokensPerBlock)
    BY <1>3, BlocksOfTokens
  <1> HIDE DEF Row, Vector, Blocks
  <1>6. ASSUME NEW r \in UNION {Rows(b) : b \in Blocks} PROVE r \in {Vector(t) : t \in 0 .. params.context_len - 1}
    <2>1. PICK b \in Blocks : r \in Rows(b)
      OBVIOUS
    <2>2. PICK t \in TokensIn(params, b) : r = Row(b, t)
      BY <2>1
    <2> QED BY <2>2, <1>4
  <1>7. ASSUME NEW r \in {Vector(t) : t \in 0 .. params.context_len - 1} PROVE r \in UNION {Rows(b) : b \in Blocks}
    <2>1. PICK t \in 0 .. params.context_len - 1 : r = Vector(t)
      OBVIOUS
    <2>2. t \div TokensPerBlock \in Blocks /\ t \in TokensIn(params, t \div TokensPerBlock)
      BY <1>5
    <2>3. r = Row(t \div TokensPerBlock, t)
      BY <2>1, <2>2, <1>4
    <2>4. r \in Rows(t \div TokensPerBlock)
      BY <2>2, <2>3
    <2> QED BY <2>2, <2>4
  <1>8. UNION {Rows(b) : b \in Blocks} = {Vector(t) : t \in 0 .. params.context_len - 1}
    BY <1>6, <1>7
  <1> QED BY <1>1, <1>2, <1>8

(* The query heads of a call are split evenly over the kv heads. *)
LEMMA Groups ==
    ASSUME NEW params \in Params, ~Inconsistent(params)
    PROVE  \A q \in QueryHeads(params) :
              /\ q \div group_size(params) \in Heads
              /\ \A h \in Heads : q \in GroupOf(params, h) <=> h = q \div group_size(params)
  <1> DEFINE n == params.num_query_heads
             H == Shape.num_kv_heads
             g == group_size(params)
  <1>1. n \in Nat /\ H \in Nat /\ H > 0 /\ n > 0 /\ n % H = 0
    BY ShapeFacts DEF Params, Inconsistent
  <1>2. g = n \div H
    BY DEF group_size
  <1> HIDE DEF n, H
  <1>3. n \div H \in Nat /\ n = (n \div H) * H + (n % H)
    BY <1>1, Division
  <1>4. g \in Nat
    BY <1>2, <1>3
  <1> HIDE DEF g
  <1>5. g * H \in Nat
    BY <1>1, <1>4, ItemsApart
  <1>6. n = g * H
    BY <1>1, <1>2, <1>3, <1>5
  <1>7. g > 0
    <2>1. ASSUME g = 0 PROVE FALSE
      BY <2>1, <1>6, <1>1
    <2> QED BY <2>1, <1>4
  <1>8. ASSUME NEW q \in 0 .. n - 1
        PROVE  /\ q \div g \in Heads
               /\ \A h \in Heads : q \in GroupOf(params, h) <=> h = q \div g
    <2>1. q \in Nat /\ q < n
      BY <1>1
    <2>2. q \div g \in Nat /\ q % g \in Nat /\ q % g < g /\ q = (q \div g) * g + (q % g)
      BY <2>1, <1>4, <1>7, Division
    <2> DEFINE d == q \div g
               r == q % g
    <2>3. d \in Nat /\ r \in Nat /\ r < g /\ q = d * g + r
      BY <2>2
    <2> HIDE DEF d, r
    <2>4. d < H
      <3>1. SUFFICES ASSUME H <= d PROVE FALSE
        BY <2>3, <1>1
      <3>2. d * g \in Nat /\ H * g <= d * g
        <4>1. CASE H = d
          BY <4>1, <2>3, <1>4, ItemsApart
        <4>2. CASE H < d
          <5>1. H * g \in Nat /\ H * g + g <= d * g
            BY <4>2, <1>1, <1>4, <2>3, ItemsApart
          <5>2. d * g \in Nat
            BY <1>4, <2>3, ItemsApart
          <5> QED BY <5>1, <5>2, <1>4
        <4> QED BY <4>1, <4>2, <3>1, <2>3, <1>1
      <3>3. H * g = n
        BY <1>6, <1>1, <1>4
      <3> QED BY <3>2, <3>3, <2>3, <2>1, <1>1
    <2>5. d \in Heads
      BY <2>3, <2>4, <1>1 DEF Heads, H
    <2>6. ASSUME NEW h \in Heads PROVE q \in GroupOf(params, h) <=> h = d
      <3>1. h \in Nat
        BY ShapeFacts DEF Heads
      <3>2. GroupOf(params, h) = {h * g + k : k \in 0 .. g - 1}
        BY DEF GroupOf, g
      <3>3. ASSUME q \in GroupOf(params, h) PROVE h = d
        <4>1. PICK k \in 0 .. g - 1 : q = h * g + k
          BY <3>2, <3>3
        <4>2. k \in Nat /\ k < g
          BY <1>4
        <4>3. Number(h, g, k) = Number(d, g, r)
          BY <4>1, <2>3 DEF Number
        <4> QED BY <4>2, <4>3, <3>1, <2>3, <1>4, DigitsUnique
      <3>4. ASSUME h = d PROVE q \in GroupOf(params, h)
        <4>1. r \in 0 .. g - 1
          BY <2>3, <1>4
        <4> QED BY <4>1, <3>2, <3>4, <2>3
      <3> QED BY <3>3, <3>4
    <2> QED BY <2>5, <2>6 DEF d
  <1> QED BY <1>8 DEF n, g, QueryHeads

-----------------------------------------------------------------------------
(* What every kernel returns: nothing for a call that is inconsistent or      *)
(* meets a block that is not there, else each query head's vectors.           *)
Output(s, params) ==
    IF Inconsistent(params) \/ WalkRefused(s, params) THEN {}
    ELSE {[q \in QueryHeads(params) |-> Vectors(s, params, q \div group_size(params))]}

LEMMA ReferenceOutput ==
    ASSUME NEW s, NEW params \in Params
    PROVE  paged_attention_decode(s, params) = Output(s, params)
  <1>1. CASE Inconsistent(params)
    BY <1>1 DEF paged_attention_decode, Output
  <1>2. CASE ~Inconsistent(params)
    <2> DEFINE len == params.context_len
               index == 0 .. Shape.num_kv_heads * len - 1
               K == [i \in index |-> slot(s, "Key", params.layer, i % len, i \div len)]
               V == [i \in index |-> slot(s, "Value", params.layer, i % len, i \div len)]
               base(q) == (q \div group_size(params)) * len
               Attended(q) == {[token |-> t, Key |-> K[base(q) + t], Value |-> V[base(q) + t]] : t \in 0 .. len - 1}
    <2>1. paged_attention_decode(s, params) =
              IF \E i \in index : K[i] = {} \/ V[i] = {} THEN {}
              ELSE {[q \in QueryHeads(params) |-> Attended(q)]}
      BY <1>2 DEF paged_attention_decode
    <2>2. len \in Nat /\ len > 0 /\ Shape.num_kv_heads \in Nat /\ Shape.num_kv_heads > 0
      BY <1>2, ShapeFacts DEF Params, Inconsistent
    <2>3. ASSUME NEW t \in 0 .. len - 1, NEW h \in Heads
          PROVE  /\ h * len + t \in index
                 /\ K[h * len + t] = slot(s, "Key", params.layer, t, h)
                 /\ V[h * len + t] = slot(s, "Value", params.layer, t, h)
      <3>1. t \in Nat /\ t < len /\ h \in Nat /\ h < Shape.num_kv_heads
        BY <2>2 DEF Heads
      <3>2. h * len + t \in Nat /\ h * len + t < Shape.num_kv_heads * len
        <4>1. Number(h, len, t) \in Nat /\ Number(h, len, t) < Shape.num_kv_heads * len
          BY <3>1, <2>2, DigitInRange
        <4> QED BY <4>1 DEF Number
      <3>3. Shape.num_kv_heads * len \in Nat
        BY <2>2, ItemsApart
      <3>4. h * len + t \in index
        BY <3>2, <3>3
      <3>5. (h * len + t) % len = t /\ (h * len + t) \div len = h
        BY <3>1, <2>2, DivisionOf
      <3> QED BY <3>4, <3>5
    <2>4. ASSUME NEW i \in index PROVE i % len \in 0 .. len - 1 /\ i \div len \in Heads
      <3>1. Shape.num_kv_heads * len \in Nat
        BY <2>2, ItemsApart
      <3>2. i \in Nat /\ i < Shape.num_kv_heads * len
        BY <3>1
      <3>3. i \div len \in Nat /\ i % len \in Nat /\ i % len < len /\ i = (i \div len) * len + (i % len)
        BY <3>2, <2>2, Division
      <3>4. i \div len < Shape.num_kv_heads
        <4> DEFINE d == i \div len
                   r == i % len
        <4>1. d \in Nat /\ r \in Nat /\ r < len /\ i = d * len + r
          BY <3>3
        <4> HIDE DEF d, r
        <4>2. SUFFICES ASSUME Shape.num_kv_heads <= d PROVE FALSE
          BY <4>1, <2>2 DEF d
        <4>3. d * len \in Nat /\ Shape.num_kv_heads * len <= d * len
          <5>1. CASE Shape.num_kv_heads = d
            BY <5>1, <3>1
          <5>2. CASE Shape.num_kv_heads < d
            <6>1. Shape.num_kv_heads * len + len <= d * len
              BY <5>2, <4>1, <2>2, ItemsApart
            <6>2. d * len \in Nat
              BY <4>1, <2>2, ItemsApart
            <6> QED BY <6>1, <6>2, <3>1, <2>2
          <5> QED BY <5>1, <5>2, <4>1, <4>2, <2>2
        <4> QED BY <4>1, <4>3, <3>2, <3>1, <2>2
      <3>5. \A m, n \in Nat : m < n => m \in 0 .. n - 1
        OBVIOUS
      <3>6. i % len \in 0 .. len - 1
        BY <3>3, <3>5, <2>2
      <3>7. i \div len \in 0 .. Shape.num_kv_heads - 1
        BY <3>3, <3>4, <3>5, <2>2
      <3> QED BY <3>6, <3>7 DEF Heads
    <2>5. \A i \in index : /\ K[i] = slot(s, "Key", params.layer, i % len, i \div len)
                           /\ V[i] = slot(s, "Value", params.layer, i % len, i \div len)
      OBVIOUS
    <2> HIDE DEF index, K, V
    <2>6. (\E i \in index : K[i] = {} \/ V[i] = {}) <=> WalkRefused(s, params)
      <3>1. ASSUME NEW i \in index, K[i] = {} \/ V[i] = {} PROVE WalkRefused(s, params)
        <4> DEFINE t == i % len
        <4>1. t \in 0 .. len - 1 /\ i \div len \in Heads
          BY <2>4
        <4>2. \/ FrameAt(s, t \div TokensPerBlock, TableLayer(params.layer)) = {}
              \/ OffsetLayer(params.layer) >= frame_layers(Shape)
          <5>1. slot(s, "Key", params.layer, t, i \div len) = {} \/ slot(s, "Value", params.layer, t, i \div len) = {}
            BY <3>1, <2>5
          <5> HIDE DEF t
          <5> QED BY <5>1, <4>1, <1>2, SlotResolves DEF len
        <4>3. t \div TokensPerBlock \in 0 .. logical_blocks(params) - 1
          <5> HIDE DEF t
          <5> QED BY <4>1, <2>2, BlocksOfTokens DEF len
        <4> QED BY <4>2, <4>3 DEF WalkRefused
      <3>2. 0 \in Heads
        BY <2>2 DEF Heads
      <3>3. ASSUME NEW t \in 0 .. len - 1,
                   \/ FrameAt(s, t \div TokensPerBlock, TableLayer(params.layer)) = {}
                   \/ OffsetLayer(params.layer) >= frame_layers(Shape)
            PROVE  \E i \in index : K[i] = {}
        <4>1. slot(s, "Key", params.layer, t, 0) = {}
          BY <3>2, <3>3, <1>2, SlotResolves DEF len
        <4> QED BY <4>1, <3>2, <2>3
      <3>4. ASSUME NEW b \in 0 .. logical_blocks(params) - 1, FrameAt(s, b, TableLayer(params.layer)) = {}
            PROVE  \E i \in index : K[i] = {}
        <4>1. b * TokensPerBlock \in 0 .. len - 1 /\ (b * TokensPerBlock) \div TokensPerBlock = b
          BY <2>2, BlocksOfTokens DEF len
        <4> QED BY <4>1, <3>4, <3>3
      <3>5. ASSUME OffsetLayer(params.layer) >= frame_layers(Shape)
            PROVE  \E i \in index : K[i] = {}
        <4>1. 0 \in 0 .. len - 1
          BY <2>2
        <4> QED BY <4>1, <3>5, <3>3
      <3> QED BY <3>1, <3>4, <3>5 DEF WalkRefused
    <2>7. ASSUME NEW q \in QueryHeads(params) PROVE Attended(q) = Vectors(s, params, q \div group_size(params))
      <3>1. q \div group_size(params) \in Heads
        BY <1>2, Groups
      <3>2. \A t \in 0 .. len - 1 :
               /\ K[base(q) + t] = slot(s, "Key", params.layer, t, q \div group_size(params))
               /\ V[base(q) + t] = slot(s, "Value", params.layer, t, q \div group_size(params))
        BY <3>1, <2>3
      <3> QED BY <3>2 DEF Vectors
    <2>8. [q \in QueryHeads(params) |-> Attended(q)]
            = [q \in QueryHeads(params) |-> Vectors(s, params, q \div group_size(params))]
      BY <2>7
    <2> QED BY <2>1, <2>6, <2>8, <1>2 DEF Output
  <1> QED BY <1>1, <1>2

LEMMA BlockedOutput ==
    ASSUME NEW s, NEW params \in Params
    PROVE  /\ paged_attention_decode_blocked(s, params) = Output(s, params)
           /\ paged_attention_decode_fused(s, params) = Output(s, params)
  <1>1. CASE Inconsistent(params) \/ WalkRefused(s, params)
    BY <1>1 DEF paged_attention_decode_blocked, paged_attention_decode_fused, Output
  <1>2. CASE ~(Inconsistent(params) \/ WalkRefused(s, params))
    <2> DEFINE reads == [h \in Heads |-> BlockReads(s, params, h)]
               want == [q \in QueryHeads(params) |-> Vectors(s, params, q \div group_size(params))]
    <2>1. paged_attention_decode_blocked(s, params) = {[q \in QueryHeads(params) |-> reads[q \div group_size(params)]]}
      BY <1>2 DEF paged_attention_decode_blocked, Heads
    <2>2. paged_attention_decode_fused(s, params) =
              {[q \in QueryHeads(params) |-> UNION {reads[h] : h \in {k \in DOMAIN reads : q \in GroupOf(params, k)}}]}
      BY <1>2 DEF paged_attention_decode_fused, Heads
    <2>3. DOMAIN reads = Heads /\ \A h \in Heads : reads[h] = Vectors(s, params, h)
      BY <1>2, WalkVisits
    <2> HIDE DEF reads
    <2>4. ASSUME NEW q \in QueryHeads(params)
          PROVE  /\ reads[q \div group_size(params)] = Vectors(s, params, q \div group_size(params))
                 /\ UNION {reads[h] : h \in {k \in DOMAIN reads : q \in GroupOf(params, k)}}
                      = Vectors(s, params, q \div group_size(params))
      <3> DEFINE own == q \div group_size(params)
      <3>1. own \in Heads /\ \A h \in Heads : q \in GroupOf(params, h) <=> h = own
        BY <1>2, Groups
      <3> HIDE DEF own
      <3>2. {k \in DOMAIN reads : q \in GroupOf(params, k)} = {own}
        BY <3>1, <2>3
      <3>3. UNION {reads[h] : h \in {own}} = reads[own]
        OBVIOUS
      <3> QED BY <3>1, <3>2, <3>3, <2>3 DEF own
    <2>5. [q \in QueryHeads(params) |-> reads[q \div group_size(params)]] = want
      BY <2>4
    <2>6. [q \in QueryHeads(params) |-> UNION {reads[h] : h \in {k \in DOMAIN reads : q \in GroupOf(params, k)}}] = want
      BY <2>4
    <2> QED BY <2>1, <2>2, <2>5, <2>6, <1>2 DEF Output
  <1> QED BY <1>1, <1>2

(* For every shape of the blocks, every state of the cache and every call,    *)
(* the three kernels refuse together or read the same vectors.                *)
THEOREM KernelsEqual ==
    ASSUME NEW s, NEW params \in Params
    PROVE  /\ paged_attention_decode_blocked(s, params) = paged_attention_decode(s, params)
           /\ paged_attention_decode_fused(s, params) = paged_attention_decode(s, params)
  BY ReferenceOutput, BlockedOutput

-----------------------------------------------------------------------------
(* A table never maps two blocks to one frame, and a prefix record pins       *)
(* different frames in every table.                                           *)
Apart(T) ==
    \A s \in SeqIds, l \in Tables : \A i, j \in 1 .. Len(T[s][l]) :
        T[s][l][i].slot = NoSlot /\ T[s][l][j].slot = NoSlot /\ T[s][l][i].frame = T[s][l][j].frame => i = j
PinsApart(index) ==
    \A k \in Keys : \A rec \in index[k] : \A l \in Tables : \A i, j \in 1 .. Len(rec.ids[l]) :
        rec.ids[l][i] = rec.ids[l][j] => i = j
FramesApart == Apart(tables) /\ PinsApart(prefix_index)

(* An entry is kept, or it names a frame that was free and no other entry of  *)
(* its table names.                                                           *)
KeptAt(s, l, i) ==
    /\ i \in 1 .. Len(tables[s][l])
    /\ tables[s][l][i].slot = NoSlot
    /\ tables'[s][l][i].frame = tables[s][l][i].frame
NewAt(s, l, i) ==
    /\ ref_count[tables'[s][l][i].frame] = 0
    /\ \A j \in 1 .. Len(tables'[s][l]) :
          /\ tables'[s][l][j].slot = NoSlot
          /\ tables'[s][l][j].frame = tables'[s][l][i].frame
          => j = i \/ KeptAt(s, l, j)
KeptOrNew ==
    \A s \in SeqIds, l \in Tables : \A i \in 1 .. Len(tables'[s][l]) :
        tables'[s][l][i].slot = NoSlot => KeptAt(s, l, i) \/ NewAt(s, l, i)

LEMMA StaysApart ==
    ASSUME Structure, RefCountsExact, Apart(tables), KeptOrNew
    PROVE  Apart(tables')
  <1>1. SUFFICES ASSUME NEW s \in SeqIds, NEW l \in Tables,
                        NEW i \in 1 .. Len(tables'[s][l]), NEW j \in 1 .. Len(tables'[s][l]),
                        tables'[s][l][i].slot = NoSlot, tables'[s][l][j].slot = NoSlot,
                        tables'[s][l][i].frame = tables'[s][l][j].frame
                 PROVE  i = j
    BY DEF Apart
  <1>2. \A n \in 1 .. Len(tables'[s][l]) : KeptAt(s, l, n) => ref_count[tables'[s][l][n].frame] # 0
    BY EntryHolds DEF KeptAt
  <1>3. CASE KeptAt(s, l, i) /\ KeptAt(s, l, j)
    BY <1>1, <1>3 DEF KeptAt, Apart
  <1>4. CASE NewAt(s, l, i)
    BY <1>1, <1>2, <1>4 DEF NewAt
  <1>5. CASE NewAt(s, l, j)
    BY <1>1, <1>2, <1>5 DEF NewAt
  <1> QED BY <1>1, <1>3, <1>4, <1>5 DEF KeptOrNew

(* Records that are old ones but for their users. *)
LEMMA PinsStayApart ==
    ASSUME PinsApart(prefix_index), OldRecords(prefix_index, prefix_index')
    PROVE  PinsApart(prefix_index')
  BY DEF PinsApart, OldRecords

LEMMA ForkApart ==
    ASSUME Structure, FramesApart, NEW parent \in SeqIds, NEW child \in SeqIds, NEW r \in Requests,
           fork_sequence(parent, child, r)
    PROVE  FramesApart'
  <1>1. /\ prefix_index' = prefix_index
        /\ tables' = [tables EXCEPT ![child] = [l \in Tables |-> Forked(tables[parent][l])]]
    BY DEF fork_sequence
  <1>2. /\ tables \in TableMaps
        /\ \A s \in SeqIds, l \in Tables : tables[s][l] \in Seq(Entry)
    BY TablesFacts DEF Structure
  <1>3. \A t \in SeqIds : t # child => tables'[t] = tables[t]
    BY <1>1, <1>2 DEF TableMaps
  <1>4. \A l \in Tables : tables'[child][l] = Forked(tables[parent][l])
    BY <1>1, <1>2 DEF TableMaps
  <1>5. ASSUME NEW l \in Tables
        PROVE  /\ Len(tables'[child][l]) = Len(tables[parent][l])
               /\ \A i \in 1 .. Len(tables[parent][l]) :
                     /\ tables'[child][l][i].frame = tables[parent][l][i].frame
                     /\ tables'[child][l][i].slot = tables[parent][l][i].slot
    BY <1>2, <1>4, ForkedTable
  <1>6. Apart(tables')
    <2>1. SUFFICES ASSUME NEW s \in SeqIds, NEW l \in Tables,
                          NEW i \in 1 .. Len(tables'[s][l]), NEW j \in 1 .. Len(tables'[s][l]),
                          tables'[s][l][i].slot = NoSlot, tables'[s][l][j].slot = NoSlot,
                          tables'[s][l][i].frame = tables'[s][l][j].frame
                   PROVE  i = j
      BY DEF Apart
    <2>2. CASE s # child
      BY <2>1, <2>2, <1>3 DEF Apart, FramesApart
    <2>3. CASE s = child
      <3>1. i \in 1 .. Len(tables[parent][l]) /\ j \in 1 .. Len(tables[parent][l])
        BY <2>3, <1>5
      <3>2. /\ tables[parent][l][i].slot = NoSlot /\ tables[parent][l][j].slot = NoSlot
            /\ tables[parent][l][i].frame = tables[parent][l][j].frame
        BY <2>1, <2>3, <3>1, <1>5
      <3> QED BY <3>1, <3>2 DEF Apart, FramesApart
    <2> QED BY <2>2, <2>3
  <1> QED BY <1>1, <1>6 DEF FramesApart

LEMMA ReserveApart ==
    ASSUME Structure, RefCountsExact, FramesApart, NEW s \in SeqIds, NEW n \in 1 .. MaxTokens, reserve_tokens(s, n)
    PROVE  FramesApart'
  <1> DEFINE b == blocks_for(n)
  <1>1. PICK g \in Injection(Tables \X (1 .. b), FreeFrames(ref_count)) :
          tables' = [tables EXCEPT ![s] = [l \in Tables |->
                Appended(tables[s][l], [i \in 1 .. b |-> g[<<l, i>>]])]]
    BY DEF reserve_tokens
  <1>2. prefix_index' = prefix_index
    BY DEF reserve_tokens
  <1>3. b \in Nat
    <2>1. n \in Nat  BY ConfigFacts
    <2> QED BY <2>1, ConfigFacts
  <1>4. /\ tables \in TableMaps
        /\ \A t \in SeqIds, l \in Tables : tables[t][l] \in Seq(Entry) /\ Len(tables[t][l]) \in Nat
    BY TablesFacts DEF Structure
  <1> HIDE DEF b
  <1>5. /\ \A l \in Tables, i \in 1 .. b : g[<<l, i>>] \in Frames /\ ref_count[g[<<l, i>>]] = 0
        /\ \A l \in Tables, i, j \in 1 .. b : g[<<l, i>>] = g[<<l, j>>] => i = j
    <2>1. g \in [Tables \X (1 .. b) -> FreeFrames(ref_count)] /\ IsInjective(g)
      BY DEF Injection
    <2>2. \A l \in Tables, i \in 1 .. b : <<l, i>> \in DOMAIN g /\ g[<<l, i>>] \in FreeFrames(ref_count)
      BY <2>1
    <2>3. \A l \in Tables, i, j \in 1 .. b : g[<<l, i>>] = g[<<l, j>>] => <<l, i>> = <<l, j>>
      BY <2>1, <2>2 DEF IsInjective
    <2> QED BY <2>2, <2>3 DEF FreeFrames
  <1>6. /\ \A l \in Tables : tables'[s][l] = Appended(tables[s][l], [i \in 1 .. b |-> g[<<l, i>>]])
        /\ \A t \in SeqIds : t # s => tables'[t] = tables[t]
    BY <1>1, <1>4 DEF TableMaps
  <1>7. ASSUME NEW l \in Tables
        PROVE  /\ Len(tables'[s][l]) = Len(tables[s][l]) + b
               /\ \A i \in 1 .. Len(tables[s][l]) : tables'[s][l][i] = tables[s][l][i]
               /\ \A i \in 1 .. b : tables'[s][l][Len(tables[s][l]) + i].frame = g[<<l, i>>]
    <2> DEFINE fr == [i \in 1 .. b |-> g[<<l, i>>]]
               old == tables[s][l]
    <2>1. fr \in [1 .. b -> Frames] /\ old \in Seq(Entry)
      BY <1>4, <1>5
    <2>2. tables'[s][l] = Appended(old, fr)
      BY <1>6
    <2>3. \A i \in 1 .. b : fr[i] = g[<<l, i>>]
      OBVIOUS
    <2> HIDE DEF fr, old
    <2>4. /\ Len(Appended(old, fr)) = Len(old) + b
          /\ \A i \in 1 .. Len(old) : Appended(old, fr)[i] = old[i]
          /\ \A i \in 1 .. b : Appended(old, fr)[Len(old) + i] = [frame |-> fr[i], slot |-> NoSlot, writable |-> TRUE]
      BY <1>3, <2>1, AppendedTable
    <2>5. ASSUME NEW i \in 1 .. b PROVE Appended(old, fr)[Len(old) + i].frame = g[<<l, i>>]
      <3>1. Appended(old, fr)[Len(old) + i] = [frame |-> fr[i], slot |-> NoSlot, writable |-> TRUE]
        BY <2>4
      <3>2. fr[i] = g[<<l, i>>]
        BY <2>3
      <3> QED BY ONLY <3>1, <3>2
    <2> QED BY <2>2, <2>4, <2>5 DEF old
  <1>8. KeptOrNew
    <2>1. SUFFICES ASSUME NEW t \in SeqIds, NEW l \in Tables, NEW i \in 1 .. Len(tables'[t][l]),
                          tables'[t][l][i].slot = NoSlot
                   PROVE  KeptAt(t, l, i) \/ NewAt(t, l, i)
      BY DEF KeptOrNew
    <2>2. CASE t # s
      BY <2>1, <2>2, <1>6 DEF KeptAt
    <2>3. CASE t = s /\ i <= Len(tables[s][l])
      <3>1. i \in 1 .. Len(tables[s][l])
        BY <2>3, <1>3, <1>4, <1>7
      <3> QED BY <3>1, <2>1, <2>3, <1>7 DEF KeptAt
    <2>4. CASE t = s /\ ~(i <= Len(tables[s][l]))
      <3> DEFINE m == Len(tables[s][l])
      <3>1. m \in Nat /\ Len(tables'[s][l]) = m + b
        BY <1>4, <1>7
      <3>2. \A j \in 1 .. m + b : j <= m \/ j - m \in 1 .. b
        BY <3>1, <1>3
      <3>3. \A j \in 1 .. m + b : j <= m => j \in 1 .. m
        BY <3>1, <1>3
      <3>4. \A j \in 1 .. m + b : j - m \in 1 .. b => tables'[s][l][j].frame = g[<<l, j - m>>]
        <4>1. \A j \in 1 .. m + b : m + (j - m) = j
          BY <3>1, <1>3
        <4> QED BY <4>1, <1>7
      <3>5. i \in 1 .. m + b /\ i - m \in 1 .. b
        BY <2>4, <3>1, <3>2
      <3>6. ref_count[tables'[s][l][i].frame] = 0
        BY <3>4, <3>5, <1>5
      <3>7. ASSUME NEW j \in 1 .. Len(tables'[s][l]), tables'[s][l][j].slot = NoSlot,
                   tables'[s][l][j].frame = tables'[s][l][i].frame
            PROVE  j = i \/ KeptAt(s, l, j)
        <4>1. j \in 1 .. m + b
          BY <3>1
        <4>2. CASE j <= m
          <5>1. j \in 1 .. m
            BY <4>1, <4>2, <3>3
          <5> QED BY <5>1, <3>7, <1>7 DEF KeptAt
        <4>3. CASE j - m \in 1 .. b
          <5>1. g[<<l, j - m>>] = g[<<l, i - m>>]
            BY <4>1, <4>3, <3>4, <3>5, <3>7
          <5>2. j - m = i - m
            BY <5>1, <4>3, <3>5, <1>5
          <5> QED BY <5>2, <4>1, <3>1, <3>5, <1>3
        <4> QED BY <4>1, <4>2, <4>3, <3>2
      <3> QED BY <2>4, <3>6, <3>7 DEF NewAt
    <2> QED BY <2>2, <2>3, <2>4
  <1> QED BY <1>2, <1>8, StaysApart DEF FramesApart


(* Replacing one resident entry by one with the same frame or a free one. *)
LEMMA ReplacedApart ==
    ASSUME Structure, RefCountsExact, FramesApart, NEW s \in SeqIds, NEW l \in Tables,
           NEW i \in 1 .. Len(tables[s][l]), tables[s][l][i].slot = NoSlot,
           NEW e \in Entry, Replaced(tables, tables', s, l, i, e),
           e.frame = tables[s][l][i].frame \/ ref_count[e.frame] = 0,
           prefix_index' = prefix_index
    PROVE  FramesApart'
  <1>1. tables \in TableMaps /\ Even(tables)
    BY TablesFacts DEF Structure
  <1>2. /\ \A t \in SeqIds, m \in Tables : Len(tables'[t][m]) = Len(tables[t][m])
        /\ tables'[s][l][i] = e
        /\ \A t \in SeqIds, m \in Tables : \A j \in 1 .. Len(tables[t][m]) :
               <<t, m, j>> # <<s, l, i>> => tables'[t][m][j] = tables[t][m][j]
    <2>1. Touched(tables, tables', s, l, i, e)
      BY <1>1, TouchEntry
    <2> QED BY <2>1 DEF Touched
  <1>3. ASSUME NEW t \in SeqIds, NEW m \in Tables, NEW j \in 1 .. Len(tables'[t][m]),
               tables'[t][m][j].slot = NoSlot, <<t, m, j>> # <<s, l, i>>
        PROVE  KeptAt(t, m, j)
    BY <1>2, <1>3 DEF KeptAt
  <1>4. KeptAt(s, l, i) \/ NewAt(s, l, i)
    <2>1. CASE e.frame = tables[s][l][i].frame
      BY <2>1, <1>2 DEF KeptAt
    <2>2. CASE ref_count[e.frame] = 0
      <3>1. \A j \in 1 .. Len(tables'[s][l]) : j # i => <<s, l, j>> # <<s, l, i>>
        OBVIOUS
      <3> QED BY <2>2, <3>1, <1>2, <1>3 DEF NewAt
    <2> QED BY <2>1, <2>2
  <1>5. KeptOrNew
    <2>1. SUFFICES ASSUME NEW t \in SeqIds, NEW m \in Tables, NEW j \in 1 .. Len(tables'[t][m]),
                          tables'[t][m][j].slot = NoSlot
                   PROVE  KeptAt(t, m, j) \/ NewAt(t, m, j)
      BY DEF KeptOrNew
    <2>2. CASE <<t, m, j>> = <<s, l, i>>
      <3>1. t = s /\ m = l /\ j = i
        BY <2>2
      <3> QED BY <3>1, <1>4
    <2> QED BY <2>1, <2>2, <1>3
  <1> QED BY <1>5, StaysApart DEF FramesApart

LEMMA EnsureApart ==
    ASSUME Structure, RefCountsExact, FramesApart, NEW s \in SeqIds, NEW pos \in 0 .. MaxTokens - 1,
           NEW l \in Tables, ensure_token_writable(s, pos, l)
    PROVE  FramesApart'
  <1> DEFINE c == CellOf(pos, l)
  <1>1. s \in sequences /\ c \in Resident(s) /\ prefix_index' = prefix_index
    BY DEF ensure_token_writable
  <1>2. \/ tables' = [tables EXCEPT ![s][c[1]][c[2]].writable = TRUE]
        \/ \E copy \in FreeFrames(ref_count) : CopyOnWrite(s, c, copy)
    BY DEF ensure_token_writable
  <1>3. PICK i \in 1 .. Len(tables[s][l]) :
              /\ c[1] = l /\ c[2] = i
              /\ tables[s][l][i] \in Entry /\ tables[s][l][i].slot = NoSlot
    BY <1>1, ResidentCell
  <1> HIDE DEF c
  <1>4. CASE tables' = [tables EXCEPT ![s][c[1]][c[2]].writable = TRUE]
    <2> DEFINE e == [tables[s][l][i] EXCEPT !.writable = TRUE]
    <2>1. e \in Entry /\ e.frame = tables[s][l][i].frame
      BY <1>3 DEF Entry
    <2>2. Replaced(tables, tables', s, l, i, e)
      BY <1>3, <1>4 DEF Replaced
    <2> HIDE DEF e
    <2> QED BY <1>1, <1>3, <2>1, <2>2, ReplacedApart
  <1>5. ASSUME NEW copy \in FreeFrames(ref_count), CopyOnWrite(s, c, copy)
        PROVE  FramesApart'
    <2> DEFINE e == [tables[s][l][i] EXCEPT !.frame = copy, !.writable = TRUE]
    <2>1. copy \in Frames /\ ref_count[copy] = 0
      BY DEF FreeFrames
    <2>2. e \in Entry /\ e.frame = copy
      BY <1>3, <2>1 DEF Entry
    <2>3. tables' = [tables EXCEPT ![s][c[1]][c[2]] = [@ EXCEPT !.frame = copy, !.writable = TRUE]]
      BY <1>5 DEF CopyOnWrite
    <2>4. Replaced(tables, tables', s, l, i, e)
      BY <1>3, <2>3 DEF Replaced
    <2> HIDE DEF e
    <2> QED BY <1>1, <1>3, <2>1, <2>2, <2>4, ReplacedApart
  <1> QED BY <1>2, <1>4, <1>5

LEMMA WriteApart ==
    ASSUME Structure, RefCountsExact, FramesApart, NEW s \in SeqIds, NEW pos \in 0 .. MaxTokens - 1,
           NEW l \in Tables, NEW v \in Contents, write_token(s, pos, l, v)
    PROVE  FramesApart'
  <1> DEFINE c == CellOf(pos, l)
  <1>1. /\ c \in Resident(s) /\ prefix_index' = prefix_index
        /\ tables' = [tables EXCEPT ![s][c[1]][c[2]].writable = TRUE]
    BY DEF write_token
  <1>2. PICK i \in 1 .. Len(tables[s][l]) :
              /\ c[1] = l /\ c[2] = i
              /\ tables[s][l][i] \in Entry /\ tables[s][l][i].slot = NoSlot
    BY <1>1, ResidentCell
  <1> HIDE DEF c
  <1> DEFINE e == [tables[s][l][i] EXCEPT !.writable = TRUE]
  <1>3. e \in Entry /\ e.frame = tables[s][l][i].frame
    BY <1>2 DEF Entry
  <1>4. Replaced(tables, tables', s, l, i, e)
    BY <1>1, <1>2 DEF Replaced
  <1> HIDE DEF e
  <1> QED BY <1>1, <1>2, <1>3, <1>4, ReplacedApart

LEMMA SwapOutApart ==
    ASSUME Structure, RefCountsExact, FramesApart, NEW q \in Seq(SeqIds), IsInjective(q),
           Range(q) \subseteq sequences, swap_out(q)
    PROVE  FramesApart'
  <1> DEFINE slots(g, s, c) == {g[a] : a \in {b \in DOMAIN g : q[b[1]] = s /\ b[2] = c}}
  <1>1. PICK g \in Injection(Evictions(q), FreeSlots) :
            /\ tables' = [s \in SeqIds |-> [l \in Tables |-> [i \in 1 .. Len(tables[s][l]) |->
                    IF slots(g, s, <<l, i>>) = {} THEN tables[s][l][i]
                    ELSE [tables[s][l][i] EXCEPT !.slot = CHOOSE k \in slots(g, s, <<l, i>>) : TRUE]]]]
            /\ prefix_index' = prefix_index
    BY DEF swap_out
  <1>2. /\ tables \in TableMaps /\ Even(tables)
        /\ \A s \in SeqIds, l \in Tables : tables[s][l] \in Seq(Entry) /\ Len(tables[s][l]) \in Nat
    BY TablesFacts DEF Structure
  <1>3. \A s \in SeqIds, l \in Tables : Len(tables'[s][l]) = Len(tables[s][l])
    <2>1. Rewritten(tables, tables')
      BY SwapOutKeeps
    <2> QED BY <1>2, <2>1, RewrittenTables
  <1>4. ASSUME NEW s \in SeqIds, NEW l \in Tables, NEW i \in 1 .. Len(tables[s][l])
        PROVE  \/ tables'[s][l][i] = tables[s][l][i]
               \/ /\ tables'[s][l][i].slot \in slots(g, s, <<l, i>>)
                  /\ tables'[s][l][i].frame = tables[s][l][i].frame
    <2> DEFINE K == slots(g, s, <<l, i>>)
    <2>1. tables'[s][l][i] = IF K = {} THEN tables[s][l][i]
                             ELSE [tables[s][l][i] EXCEPT !.slot = CHOOSE k \in K : TRUE]
      <3> HIDE DEF slots
      <3> QED BY <1>1
    <2>2. tables[s][l][i] \in Entry
      BY <1>2, ElementOfSeq
    <2> HIDE DEF slots, K
    <2>3. CASE K = {}
      BY <2>1, <2>3
    <2>4. CASE K # {}
      <3>1. (CHOOSE k \in K : TRUE) \in K
        BY <2>4
      <3>2. tables'[s][l][i] = [tables[s][l][i] EXCEPT !.slot = CHOOSE k \in K : TRUE]
        BY <2>1, <2>4
      <3> QED BY <2>2, <3>1, <3>2 DEF Entry, K
    <2> QED BY <2>3, <2>4
  <1>5. ASSUME NEW s, NEW c PROVE NoSlot \notin slots(g, s, c)
    <2>1. \A a \in DOMAIN g : g[a] \in Slots
      BY DEF Injection, FreeSlots
    <2> QED BY <2>1, ManagerConfig
  <1> HIDE DEF slots
  <1>6. KeptOrNew
    <2>1. SUFFICES ASSUME NEW s \in SeqIds, NEW l \in Tables, NEW i \in 1 .. Len(tables'[s][l]),
                          tables'[s][l][i].slot = NoSlot
                   PROVE  KeptAt(s, l, i)
      BY DEF KeptOrNew
    <2>2. i \in 1 .. Len(tables[s][l])
      BY <1>3
    <2>3. tables'[s][l][i].slot \notin slots(g, s, <<l, i>>)
      BY <2>1, <1>5
    <2>4. tables'[s][l][i] = tables[s][l][i]
      BY <2>2, <2>3, <1>4
    <2> QED BY <2>1, <2>2, <2>4 DEF KeptAt
  <1> QED BY <1>1, <1>6, StaysApart DEF FramesApart

LEMMA SwapInApart ==
    ASSUME Structure, RefCountsExact, FramesApart, NEW S \in SUBSET sequences, swap_in(S)
    PROVE  FramesApart'
  <1> DEFINE D == Absentees(S)
  <1>1. PICK g \in Injection(D, FreeFrames(ref_count)) :
          tables' = [s \in SeqIds |-> [l \in Tables |-> [i \in 1 .. Len(tables[s][l]) |->
                IF <<s, <<l, i>>>> \in DOMAIN g
                THEN [tables[s][l][i] EXCEPT !.frame = g[<<s, <<l, i>>>>], !.slot = NoSlot]
                ELSE tables[s][l][i]]]]
    BY DEF swap_in
  <1>2. prefix_index' = prefix_index
    BY DEF swap_in
  <1>3. /\ tables \in TableMaps /\ Even(tables)
        /\ \A s \in SeqIds, l \in Tables : tables[s][l] \in Seq(Entry) /\ Len(tables[s][l]) \in Nat
    BY TablesFacts DEF Structure
  <1>4. \A s \in SeqIds, l \in Tables : Len(tables'[s][l]) = Len(tables[s][l])
    <2>1. Rewritten(tables, tables')
      BY SwapInKeeps
    <2> QED BY <1>3, <2>1, RewrittenTables
  <1> HIDE DEF D
  <1>5. /\ DOMAIN g = D /\ \A p \in D : ref_count[g[p]] = 0
        /\ \A p, q \in D : g[p] = g[q] => p = q
    <2>1. g \in [D -> FreeFrames(ref_count)] /\ IsInjective(g)
      BY DEF Injection
    <2> QED BY <2>1 DEF IsInjective, FreeFrames
  <1>6. ASSUME NEW s \in SeqIds, NEW l \in Tables, NEW i \in 1 .. Len(tables[s][l])
        PROVE  /\ <<s, <<l, i>>>> \in D => tables'[s][l][i].frame = g[<<s, <<l, i>>>>]
               /\ <<s, <<l, i>>>> \notin D => tables'[s][l][i] = tables[s][l][i]
    <2>1. tables[s][l][i] \in Entry
      BY <1>3, ElementOfSeq
    <2>2. tables'[s][l][i] = IF <<s, <<l, i>>>> \in D
                             THEN [tables[s][l][i] EXCEPT !.frame = g[<<s, <<l, i>>>>], !.slot = NoSlot]
                             ELSE tables[s][l][i]
      BY <1>1, <1>5
    <2> QED BY <2>1, <2>2 DEF Entry
  <1>7. KeptOrNew
    <2>1. SUFFICES ASSUME NEW s \in SeqIds, NEW l \in Tables, NEW i \in 1 .. Len(tables'[s][l]),
                          tables'[s][l][i].slot = NoSlot
                   PROVE  KeptAt(s, l, i) \/ NewAt(s, l, i)
      BY DEF KeptOrNew
    <2>2. i \in 1 .. Len(tables[s][l])
      BY <1>4
    <2>3. CASE <<s, <<l, i>>>> \notin D
      BY <2>1, <2>2, <2>3, <1>6 DEF KeptAt
    <2>4. CASE <<s, <<l, i>>>> \in D
      <3>1. tables'[s][l][i].frame = g[<<s, <<l, i>>>>] /\ ref_count[g[<<s, <<l, i>>>>]] = 0
        BY <2>2, <2>4, <1>5, <1>6
      <3>2. ASSUME NEW j \in 1 .. Len(tables'[s][l]), tables'[s][l][j].slot = NoSlot,
                   tables'[s][l][j].frame = tables'[s][l][i].frame
            PROVE  j = i \/ KeptAt(s, l, j)
        <4>1. j \in 1 .. Len(tables[s][l])
          BY <1>4
        <4>2. CASE <<s, <<l, j>>>> \in D
          <5>1. g[<<s, <<l, j>>>>] = g[<<s, <<l, i>>>>]
            BY <4>1, <4>2, <3>1, <3>2, <1>6
          <5>2. <<s, <<l, j>>>> = <<s, <<l, i>>>>
            BY <5>1, <4>2, <2>4, <1>5
          <5> QED BY <5>2
        <4>3. CASE <<s, <<l, j>>>> \notin D
          BY <4>1, <4>3, <3>2, <1>6 DEF KeptAt
        <4> QED BY <4>2, <4>3
      <3> QED BY <3>1, <3>2 DEF NewAt
    <2> QED BY <2>3, <2>4
  <1> QED BY <1>2, <1>7, StaysApart DEF FramesApart


LEMMA PublishApart ==
    ASSUME Structure, FramesApart, NEW s \in SeqIds, NEW k \in Keys, publish_prefix(s, k)
    PROVE  FramesApart'
  <1> DEFINE hash == ContentOf(s)
             same == {rec \in prefix_index[k] : rec.hash = hash}
             new == [hash |-> hash, ids |-> Ids(s), users |-> 1]
  <1>1. SwappedOut(s) = {} /\ tables' = tables
    BY DEF publish_prefix
  <1>2. \/ prefix_index' = [prefix_index EXCEPT ![k] = (prefix_index[k] \ same) \cup {Joined(rec) : rec \in same}]
        \/ prefix_index' = [prefix_index EXCEPT ![k] = prefix_index[k] \cup {new}]
    BY DEF publish_prefix
  <1>3. prefix_index \in [Keys -> SUBSET Record] /\ TypeOK /\ TablesShaped
    BY DEF Structure, TypeOK
  <1>4. /\ \A l \in Tables : \A i \in 1 .. Len(tables[s][l]) : tables[s][l][i].slot = NoSlot
        /\ \A l \in Tables : /\ Len(Ids(s)[l]) = Len(tables[s][l])
                             /\ \A i \in 1 .. Len(tables[s][l]) : Ids(s)[l][i] = tables[s][l][i].frame
    BY <1>1, <1>3, ResidentSequence
  <1>5. \A l \in Tables : \A i, j \in 1 .. Len(new.ids[l]) : new.ids[l][i] = new.ids[l][j] => i = j
    <2>1. new.ids = Ids(s)
      OBVIOUS
    <2> HIDE DEF new
    <2> QED BY <2>1, <1>4 DEF FramesApart, Apart
  <1> HIDE DEF new, hash
  <1>6. \A j \in Keys : j # k => prefix_index'[j] = prefix_index[j]
    BY <1>2, <1>3
  <1>7. ASSUME NEW r \in prefix_index'[k]
        PROVE  (\E rec \in prefix_index[k] : r.ids = rec.ids) \/ r = new
    <2>1. CASE prefix_index' = [prefix_index EXCEPT ![k] = prefix_index[k] \cup {new}]
      BY <1>3, <2>1
    <2>2. CASE prefix_index' = [prefix_index EXCEPT ![k] = (prefix_index[k] \ same) \cup {Joined(rec) : rec \in same}]
      <3>1. r \in prefix_index[k] \/ \E rec \in prefix_index[k] : r = Joined(rec)
        BY <1>3, <2>2
      <3>2. \A rec \in prefix_index[k] : Joined(rec).ids = rec.ids
        BY <1>3 DEF Joined, Record
      <3> QED BY <3>1, <3>2
    <2> QED BY <1>2, <2>1, <2>2
  <1>8. PinsApart(prefix_index')
    <2>1. SUFFICES ASSUME NEW m \in Keys, NEW r \in prefix_index'[m]
                   PROVE  \A l \in Tables : \A i, j \in 1 .. Len(r.ids[l]) : r.ids[l][i] = r.ids[l][j] => i = j
      BY DEF PinsApart
    <2>2. CASE r = new /\ m = k
      BY <2>2, <1>5
    <2>3. CASE \E rec \in prefix_index[m] : r.ids = rec.ids
      BY <2>3 DEF FramesApart, PinsApart
    <2> QED BY <2>2, <2>3, <1>6, <1>7
  <1> QED BY <1>1, <1>8 DEF FramesApart

LEMMA AttachApart ==
    ASSUME Structure, FramesApart, NEW s \in SeqIds, NEW k \in Keys, attach_prefix(s, k)
    PROVE  FramesApart'
  <1>1. PICK rec \in prefix_index[k] :
          /\ tables' = [tables EXCEPT ![s] = [l \in Tables |-> [i \in 1 .. Len(rec.ids[l]) |->
                [frame |-> rec.ids[l][i], slot |-> NoSlot, writable |-> FALSE]]]]
          /\ prefix_index' = [prefix_index EXCEPT ![k] = {Joined(rec)}]
    BY DEF attach_prefix
  <1>2. tables \in TableMaps /\ prefix_index \in [Keys -> SUBSET Record] /\ rec \in Record
    BY TablesFacts DEF Structure, TypeOK
  <1>3. Joined(rec).hash = rec.hash /\ Joined(rec).ids = rec.ids
    BY <1>2 DEF Joined, Record
  <1>4. OldRecords(prefix_index, prefix_index')
    BY <1>1, <1>2, <1>3 DEF OldRecords
  <1>5. /\ \A t \in SeqIds : t # s => tables'[t] = tables[t]
        /\ \A l \in Tables : tables'[s][l] = [i \in 1 .. Len(rec.ids[l]) |->
                [frame |-> rec.ids[l][i], slot |-> NoSlot, writable |-> FALSE]]
    BY <1>1, <1>2 DEF TableMaps
  <1>6. ASSUME NEW l \in Tables
        PROVE  /\ Len(tables'[s][l]) = Len(rec.ids[l])
               /\ \A i \in 1 .. Len(rec.ids[l]) : tables'[s][l][i].frame = rec.ids[l][i]
    <2> DEFINE e(i) == [frame |-> rec.ids[l][i], slot |-> NoSlot, writable |-> FALSE]
               n == Len(rec.ids[l])
               row == tables'[s][l]
               E == {e(i) : i \in 1 .. n}
    <2>1. n \in Nat
      BY <1>2 DEF Record
    <2>2. row = [i \in 1 .. n |-> e(i)]
      BY <1>5
    <2>3. \A i \in 1 .. n : e(i).frame = rec.ids[l][i]
      OBVIOUS
    <2>4. row \in [1 .. n -> E]
      BY <2>2
    <2> HIDE DEF row, e, n, E
    <2>5. Len(row) = n
      BY <2>1, <2>4, LenProperties, SeqDef
    <2>6. \A i \in 1 .. n : row[i].frame = rec.ids[l][i]
      BY <2>2, <2>3
    <2> QED BY <2>5, <2>6 DEF row, n
  <1>7. Apart(tables')
    <2>1. SUFFICES ASSUME NEW t \in SeqIds, NEW l \in Tables,
                          NEW i \in 1 .. Len(tables'[t][l]), NEW j \in 1 .. Len(tables'[t][l]),
                          tables'[t][l][i].slot = NoSlot, tables'[t][l][j].slot = NoSlot,
                          tables'[t][l][i].frame = tables'[t][l][j].frame
                   PROVE  i = j
      BY DEF Apart
    <2>2. CASE t # s
      BY <2>1, <2>2, <1>5 DEF Apart, FramesApart
    <2>3. CASE t = s
      <3>1. i \in 1 .. Len(rec.ids[l]) /\ j \in 1 .. Len(rec.ids[l]) /\ rec.ids[l][i] = rec.ids[l][j]
        BY <2>1, <2>3, <1>6
      <3> QED BY <3>1 DEF FramesApart, PinsApart
    <2> QED BY <2>2, <2>3
  <1> QED BY <1>4, <1>7, PinsStayApart DEF FramesApart

LEMMA ReleaseApart ==
    ASSUME Structure, FramesApart, NEW S \in SUBSET sequences, release(S)
    PROVE  FramesApart'
  <1>1. /\ prefix_index' = IndexWithout(S)
        /\ tables' = [s \in SeqIds |-> IF s \in S THEN NoTables ELSE tables[s]]
    BY DEF release
  <1>2. prefix_index \in [Keys -> SUBSET Record]
    BY DEF Structure, TypeOK
  <1>3. OldRecords(prefix_index, prefix_index')
    <2>1. ASSUME NEW k \in Keys, NEW r \in prefix_index'[k]
          PROVE  \E rec \in prefix_index[k] : r.hash = rec.hash /\ r.ids = rec.ids
      <3>1. PICK rec \in prefix_index[k] : r = [rec EXCEPT !.users = @ - Leaving(S, k, rec)]
        BY <1>1 DEF IndexWithout
      <3>2. r.hash = rec.hash /\ r.ids = rec.ids
        BY <1>2, <3>1 DEF Record
      <3> QED BY <3>2
    <2> QED BY <2>1 DEF OldRecords
  <1>4. Apart(tables')
    <2>1. \A s \in SeqIds : tables'[s] = tables[s] \/ \A l \in Tables : tables'[s][l] = <<>>
      BY <1>1 DEF NoTables
    <2>2. 1 .. Len(<<>>) = {}
      OBVIOUS
    <2> QED BY <2>1, <2>2 DEF Apart, FramesApart
  <1> QED BY <1>3, <1>4, PinsStayApart DEF FramesApart

LEMMA NextApart ==
    ASSUME Structure, RefCountsExact, FramesApart, [Next]_cacheVars
    PROVE  FramesApart'
  <1>1. ASSUME tables' = tables, prefix_index' = prefix_index PROVE FramesApart'
    BY <1>1 DEF FramesApart
  <1>2. CASE UNCHANGED cacheVars
    BY <1>1, <1>2 DEF cacheVars
  <1>3. ASSUME NEW s \in SeqIds, NEW r \in Requests, create_sequence(s, r) PROVE FramesApart'
    BY <1>1, <1>3 DEF create_sequence
  <1>4. ASSUME NEW s \in SeqIds, NEW t \in SeqIds, NEW r \in Requests, fork_sequence(s, t, r) PROVE FramesApart'
    BY <1>4, ForkApart
  <1>5. ASSUME NEW s \in SeqIds, NEW n \in 1 .. MaxTokens, reserve_tokens(s, n) PROVE FramesApart'
    BY <1>5, ReserveApart
  <1>6. ASSUME NEW s \in SeqIds, NEW pos \in 0 .. MaxTokens - 1, NEW l \in Tables, ensure_token_writable(s, pos, l)
        PROVE  FramesApart'
    BY <1>6, EnsureApart
  <1>7. ASSUME NEW s \in SeqIds, NEW pos \in 0 .. MaxTokens - 1, NEW l \in Tables, NEW v \in Contents,
               write_token(s, pos, l, v)
        PROVE  FramesApart'
    BY <1>7, WriteApart
  <1>8. ASSUME NEW s \in SeqIds, swap_out_sequence(s) PROVE FramesApart'
    <2> DEFINE q == <<s>>
    <2>1. q \in Seq(SeqIds) /\ IsInjective(q) /\ Range(q) = {s}
      BY DEF IsInjective, Range
    <2>2. s \in sequences /\ swap_out(q)
      BY <1>8 DEF swap_out_sequence
    <2> HIDE DEF q
    <2>3. Range(q) \subseteq sequences
      BY <2>1, <2>2
    <2> QED BY <2>1, <2>2, <2>3, SwapOutApart
  <1>9. ASSUME NEW s \in SeqIds, swap_in_sequence(s) PROVE FramesApart'
    <2> DEFINE O == {s}
    <2>1. O \in SUBSET sequences /\ swap_in(O)
      BY <1>9 DEF swap_in_sequence
    <2> HIDE DEF O
    <2> QED BY <2>1, SwapInApart
  <1>10. ASSUME NEW s \in SeqIds, release_sequence(s) PROVE FramesApart'
    <2> DEFINE O == {s}
    <2>1. O \in SUBSET sequences /\ release(O)
      BY <1>10 DEF release_sequence
    <2> HIDE DEF O
    <2> QED BY <2>1, ReleaseApart
  <1>11. ASSUME NEW r \in Requests, swap_out_request(r) PROVE FramesApart'
    <2> DEFINE q == sequences_by_request[r]
    <2>1. q \in Seq(SeqIds) /\ IsInjective(q) /\ Range(q) \subseteq sequences
      BY ListedSequences
    <2>2. swap_out(q)
      BY <1>11 DEF swap_out_request
    <2> HIDE DEF q
    <2> QED BY <2>1, <2>2, SwapOutApart
  <1>12. ASSUME NEW r \in Requests, swap_in_request(r) PROVE FramesApart'
    <2> DEFINE S == SequencesFor(r)
    <2>1. S \in SUBSET sequences /\ swap_in(S)
      BY <1>12, ListedSequences DEF swap_in_request
    <2> HIDE DEF S
    <2> QED BY <2>1, SwapInApart
  <1>13. ASSUME NEW r \in Requests, release_request(r) PROVE FramesApart'
    <2> DEFINE S == SequencesFor(r)
    <2>1. S \in SUBSET sequences /\ release(S)
      BY <1>13, ListedSequences DEF release_request
    <2> HIDE DEF S
    <2> QED BY <2>1, ReleaseApart
  <1>14. ASSUME NEW s \in SeqIds, NEW k \in Keys, publish_prefix(s, k) PROVE FramesApart'
    BY <1>14, PublishApart
  <1>15. ASSUME NEW s \in SeqIds, NEW k \in Keys, attach_prefix(s, k) PROVE FramesApart'
    BY <1>15, AttachApart
  <1>16. CASE Next
    BY ONLY <1>3, <1>4, <1>5, <1>6, <1>7, <1>8, <1>9, <1>10, <1>11, <1>12, <1>13, <1>14, <1>15, <1>16 DEF Next
  <1> QED BY <1>2, <1>16

-----------------------------------------------------------------------------
(* A vector read by a successful call: token t of kv head h, in the frame the *)
(* block table maps the token to, at the offset of its coordinate.            *)
Spot(t, stream, h, a) == [token |-> t, stream |-> stream, kv_head |-> h, at |-> a]
Place(params, t, stream, h) ==
    [layer |-> OffsetLayer(params.layer), stream |-> stream, token |-> t % TokensPerBlock, kv_head |-> h]
ReadAt(s, params, t, stream, h, a) ==
    LET m == TableLayer(params.layer) + 1
        n == t \div TokensPerBlock + 1
    IN  /\ a = <<tables[s][m][n].frame, OffsetAt(Shape, Place(params, t, stream, h))>>
        /\ m \in Tables /\ n \in 1 .. Len(tables[s][m])
        /\ tables[s][m][n].slot = NoSlot
        /\ Place(params, t, stream, h) \in Coordinates(Shape)

LEMMA SlotPlace ==
    ASSUME Structure, NEW s \in SeqIds, NEW params \in Params, ~Inconsistent(params), NEW stream \in KVStream,
           NEW t \in 0 .. params.context_len - 1, NEW h \in Heads, NEW a \in slot(s, stream, params.layer, t, h)
    PROVE  ReadAt(s, params, t, stream, h, a)
  <1> DEFINE m == TableLayer(params.layer) + 1
             b == t \div TokensPerBlock
             r == t % TokensPerBlock
             p == Place(params, t, stream, h)
  <1>1. t \in Nat /\ h \in Nat /\ params.layer \in Nat /\ params.layer < Shape.num_layers
    BY ShapeFacts DEF Params, Heads, Inconsistent
  <1>2. b \in Nat /\ r \in Nat
    BY <1>1, ShapeFacts, Division
  <1>3. m \in Tables /\ OffsetLayer(params.layer) \in Nat
    BY <1>1, LayerPlace
  <1>4. a \in FrameAt(s, b, TableLayer(params.layer))
                \X element_offset(Shape, OffsetLayer(params.layer), stream, r, h)
    BY DEF slot
  <1>5. PICK f \in FrameAt(s, b, TableLayer(params.layer)),
             o \in element_offset(Shape, OffsetLayer(params.layer), stream, r, h) : a = <<f, o>>
    BY <1>4
  <1>6. b < Len(tables[s][m]) /\ tables[s][m][b + 1].slot = NoSlot /\ f = tables[s][m][b + 1].frame
    BY <1>5 DEF FrameAt, HasEntry
  <1>7. Len(tables[s][m]) \in Nat
    BY <1>3, TablesFacts DEF Structure
  <1>8. b + 1 \in 1 .. Len(tables[s][m])
    <2> HIDE DEF b, m
    <2> QED BY <1>2, <1>6, <1>7
  <1>9. InShape(Shape, OffsetLayer(params.layer), r, h) /\ o = OffsetOf(Shape, OffsetLayer(params.layer), stream, r, h)
    BY <1>5 DEF element_offset
  <1> HIDE DEF b, m, r
  <1>10. p = [layer |-> OffsetLayer(params.layer), stream |-> stream, token |-> r, kv_head |-> h]
    BY DEF Place, r
  <1> HIDE DEF p
  <1>11. p \in Coordinates(Shape) /\ OffsetAt(Shape, p) = o
    BY <1>1, <1>2, <1>3, <1>9, <1>10 DEF Coordinates, OffsetAt
  <1> QED BY <1>3, <1>5, <1>6, <1>8, <1>11 DEF ReadAt, b, m, p

LEMMA SpansAre ==
    ASSUME Structure, NEW s \in SeqIds, NEW params \in Params, NEW out \in paged_attention_decode(s, params),
           NEW x \in Spans(params, out)
    PROVE  \E t \in 0 .. params.context_len - 1, stream \in KVStream, h \in Heads :
              \E a : x = Spot(t, stream, h, a) /\ ReadAt(s, params, t, stream, h, a)
  <1>1. ~Inconsistent(params) /\ out = [q \in QueryHeads(params) |-> Vectors(s, params, q \div group_size(params))]
    BY ReferenceOutput DEF Output
  <1>a. PICK q \in DOMAIN out : \E r \in out[q], stream \in KVStream : \E a \in r[stream] :
            x = [token |-> r.token, stream |-> stream, kv_head |-> q \div group_size(params), at |-> a]
    BY DEF Spans
  <1>b. PICK r \in out[q], stream \in KVStream : \E a \in r[stream] :
            x = [token |-> r.token, stream |-> stream, kv_head |-> q \div group_size(params), at |-> a]
    BY <1>a
  <1>2. PICK a \in r[stream] :
            x = [token |-> r.token, stream |-> stream, kv_head |-> q \div group_size(params), at |-> a]
    BY <1>b
  <1> DEFINE h == q \div group_size(params)
  <1>3. q \in QueryHeads(params) /\ h \in Heads /\ r \in Vectors(s, params, h)
    BY <1>1, <1>2, Groups
  <1> HIDE DEF h
  <1>4. PICK t \in 0 .. params.context_len - 1 :
            r = [token |-> t, Key |-> slot(s, "Key", params.layer, t, h), Value |-> slot(s, "Value", params.layer, t, h)]
    BY <1>3 DEF Vectors
  <1>5. r.token = t /\ r[stream] = slot(s, stream, params.layer, t, h)
    BY <1>4 DEF KVStream
  <1>6. x = Spot(t, stream, h, a) /\ a \in slot(s, stream, params.layer, t, h)
    BY <1>2, <1>5 DEF Spot, h
  <1>7. ReadAt(s, params, t, stream, h, a)
    BY <1>1, <1>3, <1>6, SlotPlace
  <1> QED BY <1>3, <1>6, <1>7

LEMMA ReadsSound ==
    ASSUME Structure, RefCountsExact, FramesApart
    PROVE  DecodeReadsOwnBlocks
  <1>1. SUFFICES ASSUME NEW s \in sequences, NEW params \in Calls, NEW out \in paged_attention_decode(s, params)
        PROVE  /\ \A x \in Spans(params, out) :
                    /\ ref_count[x.at[1]] > 0
                    /\ block_bytes(s, CellOf(x.token, TableLayer(params.layer) + 1)) # NoContent
                    /\ x.at[2] + Shape.head_dim <= element_count(Shape)
               /\ \A x, y \in Spans(params, out) :
                    x # y /\ x.at[1] = y.at[1] => \/ x.at[2] + Shape.head_dim <= y.at[2]
                                                  \/ y.at[2] + Shape.head_dim <= x.at[2]
    BY DEF DecodeReadsOwnBlocks
  <1>2. s \in SeqIds /\ params \in Params
    <2>1. sequences \subseteq SeqIds
      BY DEF Structure, TypeOK
    <2>2. /\ params.layer \in Nat /\ params.num_query_heads \in Nat /\ params.context_len \in Nat
          /\ params = [layer |-> params.layer, num_query_heads |-> params.num_query_heads,
                       context_len |-> params.context_len]
      BY ShapeFacts, ConfigFacts DEF Calls
    <2> QED BY <2>1, <2>2 DEF Params
  <1> DEFINE m == TableLayer(params.layer) + 1
             n(t) == t \div TokensPerBlock + 1
  <1>3. ASSUME NEW x \in Spans(params, out)
        PROVE  /\ ref_count[x.at[1]] > 0
               /\ block_bytes(s, CellOf(x.token, m)) # NoContent
               /\ x.at[2] + Shape.head_dim <= element_count(Shape)
    <2>a. PICK t \in 0 .. params.context_len - 1, stream \in KVStream, h \in Heads :
              \E a : x = Spot(t, stream, h, a) /\ ReadAt(s, params, t, stream, h, a)
      BY <1>2, SpansAre
    <2>1. PICK a : x = Spot(t, stream, h, a) /\ ReadAt(s, params, t, stream, h, a)
      BY <2>a
    <2> DEFINE f == tables[s][m][n(t)].frame
               o == OffsetAt(Shape, Place(params, t, stream, h))
    <2>2. /\ a = <<f, o>> /\ m \in Tables /\ n(t) \in 1 .. Len(tables[s][m]) /\ tables[s][m][n(t)].slot = NoSlot
          /\ Place(params, t, stream, h) \in Coordinates(Shape)
      BY <2>1 DEF ReadAt
    <2>3. x.at = <<f, o>> /\ x.token = t
      BY <2>1, <2>2 DEF Spot
    <2>4. f \in Frames /\ ref_count[f] # 0
      <3> HIDE DEF m, n
      <3> QED BY <1>2, <2>2, EntryHolds
    <2>5. ref_count[f] > 0 /\ data[f] # NoContent
      <3>1. ref_count[f] \in Nat /\ data[f] \in Contents
        BY <2>4 DEF Structure, TypeOK
      <3> QED BY <3>1, <2>4, ManagerConfig
    <2>6. block_bytes(s, CellOf(t, m)) = data[f]
      <3>1. CellOf(t, m) = <<m, n(t)>>
        BY DEF CellOf
      <3> HIDE DEF m, n
      <3>2. <<m, n(t)>> \in Cells /\ n(t) <= Len(tables[s][m])
        BY <1>2, <2>2, PlaceCell DEF Structure
      <3>3. <<m, n(t)>> \in Resident(s) /\ At(s, <<m, n(t)>>).frame = f
        BY <2>2, <3>2 DEF Resident, Mapped, At
      <3> QED BY <3>1, <3>3 DEF block_bytes
    <2>7. o + Shape.head_dim <= element_count(Shape)
      BY <2>2, ShapeFacts, OffsetsInFrame
    <2> HIDE DEF f, o
    <2> QED BY <2>3, <2>5, <2>6, <2>7
  <1>4. ASSUME NEW x \in Spans(params, out), NEW y \in Spans(params, out), x # y, x.at[1] = y.at[1]
        PROVE  \/ x.at[2] + Shape.head_dim <= y.at[2]
               \/ y.at[2] + Shape.head_dim <= x.at[2]
    <2>a. PICK t \in 0 .. params.context_len - 1, stream \in KVStream, h \in Heads :
              \E a : x = Spot(t, stream, h, a) /\ ReadAt(s, params, t, stream, h, a)
      BY <1>2, SpansAre
    <2>1. PICK a : x = Spot(t, stream, h, a) /\ ReadAt(s, params, t, stream, h, a)
      BY <2>a
    <2>b. PICK t2 \in 0 .. params.context_len - 1, stream2 \in KVStream, h2 \in Heads :
              \E a2 : y = Spot(t2, stream2, h2, a2) /\ ReadAt(s, params, t2, stream2, h2, a2)
      BY <1>2, SpansAre
    <2>2. PICK a2 : y = Spot(t2, stream2, h2, a2) /\ ReadAt(s, params, t2, stream2, h2, a2)
      BY <2>b
    <2> DEFINE p == Place(params, t, stream, h)
               p2 == Place(params, t2, stream2, h2)
    <2>3. /\ a = <<tables[s][m][n(t)].frame, OffsetAt(Shape, p)>>
          /\ m \in Tables /\ n(t) \in 1 .. Len(tables[s][m]) /\ tables[s][m][n(t)].slot = NoSlot
          /\ p \in Coordinates(Shape)
      BY <2>1 DEF ReadAt
    <2>4. /\ a2 = <<tables[s][m][n(t2)].frame, OffsetAt(Shape, p2)>>
          /\ n(t2) \in 1 .. Len(tables[s][m]) /\ tables[s][m][n(t2)].slot = NoSlot
          /\ p2 \in Coordinates(Shape)
      BY <2>2 DEF ReadAt
    <2>5. x.at = a /\ y.at = a2
      BY <2>1, <2>2 DEF Spot
    <2>6. n(t) = n(t2)
      <3>1. tables[s][m][n(t)].frame = tables[s][m][n(t2)].frame
        BY <1>4, <2>3, <2>4, <2>5
      <3> HIDE DEF m, n
      <3> QED BY <3>1, <1>2, <2>3, <2>4 DEF FramesApart, Apart
    <2>7. ASSUME p = p2 PROVE FALSE
      <3>1. stream = stream2 /\ t % TokensPerBlock = t2 % TokensPerBlock /\ h = h2
        BY <2>7 DEF Place
      <3>2. t \in Nat /\ t2 \in Nat
        BY <1>2 DEF Params
      <3>3. /\ t \div TokensPerBlock \in Nat /\ t = (t \div TokensPerBlock) * TokensPerBlock + (t % TokensPerBlock)
            /\ t2 \div TokensPerBlock \in Nat /\ t2 = (t2 \div TokensPerBlock) * TokensPerBlock + (t2 % TokensPerBlock)
        BY <3>2, ShapeFacts, Division
      <3>4. t \div TokensPerBlock = t2 \div TokensPerBlock
        <4>1. \A i, j \in Nat : i + 1 = j + 1 => i = j
          OBVIOUS
        <4> QED BY <2>6, <3>3, <4>1
      <3>5. t = t2
        BY ONLY <3>1, <3>3, <3>4
      <3>6. a = a2
        BY <3>5, <2>3, <2>4, <2>7
      <3> QED BY <3>1, <3>5, <3>6, <2>1, <2>2, <1>4
    <2>8. \/ OffsetAt(Shape, p) + Shape.head_dim <= OffsetAt(Shape, p2)
          \/ OffsetAt(Shape, p2) + Shape.head_dim <= OffsetAt(Shape, p)
      <3> HIDE DEF p, p2
      <3> QED BY <2>3, <2>4, <2>7, ShapeFacts, VectorsDisjoint
    <2>9. x.at[2] = OffsetAt(Shape, p) /\ y.at[2] = OffsetAt(Shape, p2)
      <3> HIDE DEF p, p2, m, n
      <3> QED BY <2>3, <2>4, <2>5
    <2> HIDE DEF p, p2
    <2> QED BY <2>8, <2>9
  <1> QED BY <1>3, <1>4

(* In every order of calls of the cache manager, for every shape of the       *)
(* blocks: all kernels accept and refuse the same calls and give each query   *)
(* head the same vectors.                                                     *)
THEOREM KernelsConsistent ==
    Spec => []KernelsAgree
  <1>1. Calls \subseteq Params
    BY ShapeFacts, ConfigFacts DEF Calls, Params
  <1>2. KernelsAgree
    BY <1>1, KernelsEqual DEF KernelsAgree
  <1> QED BY <1>2, PTL

(* A decode reads resident blocks of the sequence only, inside their frames,  *)
(* and different vectors of the context never overlap, after any sequence of  *)
(* forks, publications, copies and swaps: no table of a sequence ever maps    *)
(* two blocks to one frame.                                                   *)
THEOREM DecodesReadOwnBlocks ==
    Spec => []DecodeReadsOwnBlocks
  <1> DEFINE I == Structure /\ RefCountsExact /\ FramesApart
  <1>1. Init => I
    <2>1. ASSUME Init PROVE FramesApart
      <3>1. tables = [s \in SeqIds |-> NoTables] /\ prefix_index = [k \in Keys |-> {}]
        BY <2>1 DEF Init
      <3>2. \A s \in SeqIds, l \in Tables : tables[s][l] = <<>> /\ 1 .. Len(tables[s][l]) = {}
        BY <3>1 DEF NoTables
      <3> QED BY <3>1, <3>2 DEF FramesApart, Apart, PinsApart
    <2> QED BY <2>1, InitStructure
  <1>2. I /\ [Next]_cacheVars => I'
    BY NextKeeps, NextApart
  <1>3. I => DecodeReadsOwnBlocks
    BY ReadsSound
  <1> QED BY <1>1, <1>2, <1>3, PTL DEF Spec
=============================================================================
