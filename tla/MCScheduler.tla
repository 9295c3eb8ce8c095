---------------------------- MODULE MCScheduler ----------------------------
(* The scheduler with three requests of different sizes. *)
EXTENDS Scheduler

(* A large request and two small ones. *)
MCRoots == <<1, 2, 3>>
MCPrompts == <<2, 1, 1>>
MCDecodes == <<1, 1, 0>>
MCNoKeys == [r \in Requests |-> NoKey]

(* The same with larger budgets, and prompts that leave a block half full. *)
MCLongDecodes == <<1, 1, 1>>
MCOddPrompts == <<3, 1, 2>>
MCOddDecodes == <<2, 2, 1>>

(* Requests 1 and 2 share a prompt block, request 3 does not. *)
MCFirstTwoShare == [r \in Requests |-> IF r = 3 THEN NoKey ELSE CHOOSE k \in Keys : TRUE]

MCSymmetry == Permutations(Frames) \cup Permutations(Slots)
=============================================================================
