----------------------------- MODULE CacheLayout -----------------------------
(***************************************************************************)
(* The shape of a physical block and the place of each element in it.  A   *)
(* frame is laid out [layer][K|V][token][kv_head][dim], dim innermost.     *)
(* Sizes and offsets are std::size_t products of 32-bit fields: for the    *)
(* shapes of the models the code serves they stay far from 2^64, so they   *)
(* are natural numbers here.  nullopt is the empty set.                    *)
(***************************************************************************)
EXTENDS Naturals

BlockShape == [tokens_per_block : Nat, num_layers : Nat, num_kv_heads : Nat, head_dim : Nat,
               bytes_per_element : Nat, layers_per_frame : Nat]

KVStream == {"Key", "Value"}
kKVStreamCount == 2

(* Layers stored in one frame: 0 stands for all of them. *)
frame_layers(shape) == IF shape.layers_per_frame = 0 THEN shape.num_layers ELSE shape.layers_per_frame

per_layer_frames(shape) == frame_layers(shape) = 1 /\ shape.num_layers > 1

byte_size(shape) ==
    shape.tokens_per_block * frame_layers(shape) * shape.num_kv_heads * shape.head_dim
        * shape.bytes_per_element * 2

head_stride(shape) == shape.head_dim
token_stride(shape) == shape.num_kv_heads * head_stride(shape)
stream_stride(shape) == shape.tokens_per_block * token_stride(shape)
layer_stride(shape) == kKVStreamCount * stream_stride(shape)
element_count(shape) == frame_layers(shape) * layer_stride(shape)

stream_index(stream) == IF stream = "Key" THEN 0 ELSE 1

(* Where the vector of one coordinate starts. *)
OffsetOf(shape, layer, stream, token_in_block, kv_head) ==
    layer * layer_stride(shape) + stream_index(stream) * stream_stride(shape)
        + token_in_block * token_stride(shape) + kv_head * head_stride(shape)

InShape(shape, layer, token_in_block, kv_head) ==
    /\ layer < frame_layers(shape)
    /\ token_in_block < shape.tokens_per_block
    /\ kv_head < shape.num_kv_heads

element_offset(shape, layer, stream, token_in_block, kv_head) ==
    IF ~InShape(shape, layer, token_in_block, kv_head) THEN {}
    ELSE {OffsetOf(shape, layer, stream, token_in_block, kv_head)}
=============================================================================
