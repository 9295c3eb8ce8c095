-------------------------- MODULE MCPagedAttention --------------------------
(* The cache manager with per-layer frames, and the kernels that read it. *)
EXTENDS PagedAttention, TLC

(* Two layers in frames of their own, two kv heads. *)
MCShape == [tokens_per_block |-> TokensPerBlock, num_layers |-> 2, num_kv_heads |-> 2, head_dim |-> 2,
            bytes_per_element |-> 4, layers_per_frame |-> 1]

MCSymmetry == Permutations(Frames) \cup Permutations(SeqIds) \cup Permutations(Contents)
                \cup Permutations(Slots)
=============================================================================
