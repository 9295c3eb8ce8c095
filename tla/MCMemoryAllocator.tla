--------------------------- MODULE MCMemoryAllocator ---------------------------
(* Three frames, so that the free list is reordered; two swap slots, so that    *)
(* the backend fills; three references, so that a shared frame stays shared.    *)
EXTENDS MemoryAllocator

MCFrames == 0 .. 2
================================================================================
