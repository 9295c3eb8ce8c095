----------------------------- MODULE MCPagedPool -----------------------------
(* A pool with two decoder layers in every frame, a root cache and its forks. *)
EXTENDS PagedPool, TLC

MCShape == [tokens_per_block |-> TokensPerBlock, num_layers |-> 2, num_kv_heads |-> 1, head_dim |-> 1,
            bytes_per_element |-> 4, layers_per_frame |-> 0]
MCContents == [0 .. 1 -> [0 .. TokensPerBlock - 1 -> Values \cup {Zero}]]

MCSymmetry == Permutations(Frames) \cup Permutations(Values)
=============================================================================
