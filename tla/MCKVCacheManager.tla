-------------------------- MODULE MCKVCacheManager --------------------------
(* The cache manager on a small pool. *)
EXTENDS KVCacheManager, TLC

MCSymmetry == Permutations(Frames) \cup Permutations(SeqIds) \cup Permutations(Contents)
                \cup Permutations(Slots) \cup Permutations(Keys) \cup Permutations(Requests)
=============================================================================
