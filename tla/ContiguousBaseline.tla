------------------------- MODULE ContiguousBaseline -------------------------
(***************************************************************************)
(* The baseline of the trace replay, run_contiguous: every request gets    *)
(* one contiguous run of blocks for its prompt and its whole decode        *)
(* budget, first fit, in trace order, and keeps it until it is done.  The  *)
(* program is deterministic; the trace is chosen initially.  Metrics that  *)
(* nothing reads back are left out.                                        *)
(***************************************************************************)
EXTENDS Integers, Sequences, FiniteSets

CONSTANTS
    max_blocks, tokens_per_block, max_active_requests,
    baseline_max_context, max_steps,    \* ReplayConfig
    NumRequests,                        \* bound: length of the trace
    Prompts, Budgets                    \* bounds: the sizes in the trace

ASSUME BaselineConfig ==
    /\ {max_blocks, max_steps, baseline_max_context, NumRequests} \subseteq Nat
    /\ {tokens_per_block, max_active_requests} \cup Prompts \cup Budgets \subseteq Nat \ {0}

VARIABLES
    trace,          \* trace.requests
    used,           \* the blocks marked in used
    blocks_in_use,
    active,         \* the reservations, in the vector's order
    next_pending,   \* index of the next request to admit
    completed,
    steps,          \* metrics.steps
    progress_made,
    pc,             \* "step", "admit", "decode" or "done"
    i               \* the index of the decode loop

baselineVars == <<trace, used, blocks_in_use, active, next_pending, completed, steps,
                  progress_made, pc, i>>

Blocks == 0 .. max_blocks - 1

(* The generator draws 1 <= decode_actual <= decode_budget. *)
TraceRequest == UNION {[prompt : Prompts, budget : {b}, actual : 1 .. b] : b \in Budgets}

(* since is auxiliary: the step that admitted the reservation. *)
Reservation == [index : 1 .. NumRequests, start : Blocks, count : Nat,
                committed : Nat, decoded : Nat, since : Nat]

-----------------------------------------------------------------------------
ceil_div(value) == (value + tokens_per_block - 1) \div tokens_per_block

(* Faulty variant: the last, partly filled block is not reserved. *)
request_blocks_floor(n) == (trace[n].prompt + trace[n].budget) \div tokens_per_block
request_blocks(n) ==
    LET wanted == trace[n].prompt + trace[n].budget
    IN  ceil_div(IF wanted < baseline_max_context THEN wanted ELSE baseline_max_context)

(* Faulty variant: the size of the pool is not considered. *)
servable_in_context(n) == trace[n].prompt + trace[n].budget <= baseline_max_context
servable(n) == /\ trace[n].prompt + trace[n].budget <= baseline_max_context
               /\ request_blocks(n) <= max_blocks

(* run after the scan has looked at block b, and the blocks at which it would *)
(* return.  The scan stops at the first of them.                              *)
Run == LET run[b \in Blocks] ==
               IF b \in used THEN 0 ELSE IF b = 0 THEN 1 ELSE run[b - 1] + 1
       IN  run
Fits(needed) == {b \in Blocks : Run[b] = needed}

(* Faulty variants: the start is one too high; a run goes on across used      *)
(* blocks; the last run is taken.                                             *)
first_fit_off_by_one(needed) ==
    {b + 2 - needed : b \in {c \in Fits(needed) : \A d \in Fits(needed) : c <= d}}

first_fit_no_reset(needed) ==
    LET free(b) == {c \in Blocks : c <= b /\ c \notin used}
    IN  {b + 1 - needed : b \in {c \in Blocks : Cardinality(free(c)) = needed /\ c \notin used}}

first_fit_last(needed) ==
    {b + 1 - needed : b \in {c \in Fits(needed) : \A d \in Fits(needed) : d <= c}}

(* The start of the run found: a singleton, or empty if there is none. *)
first_fit(needed) ==
    {b + 1 - needed : b \in {c \in Fits(needed) : \A d \in Fits(needed) : c <= d}}

RunOf(a) == a.start .. a.start + a.count - 1

-----------------------------------------------------------------------------
Init ==
    /\ trace \in [1 .. NumRequests -> TraceRequest]
    /\ used = {}
    /\ blocks_in_use = 0
    /\ active = <<>>
    /\ next_pending = 1
    /\ completed = 0
    /\ steps = 0
    /\ progress_made = FALSE
    /\ pc = "step"
    /\ i = 0

(* The outer loop's test. *)
BeginStep ==
    /\ pc = "step"
    /\ completed < NumRequests
    /\ steps < max_steps
    /\ steps' = steps + 1
    /\ progress_made' = FALSE
    /\ pc' = "admit"
    /\ UNCHANGED <<trace, used, blocks_in_use, active, next_pending, completed, i>>

Finish ==
    /\ pc = "step"
    /\ completed = NumRequests \/ steps = max_steps
    /\ pc' = "done"
    /\ UNCHANGED <<trace, used, blocks_in_use, active, next_pending, completed, steps, progress_made, i>>

MayAdmit ==
    /\ pc = "admit"
    /\ next_pending <= NumRequests
    /\ Len(active) < max_active_requests

SkipUnservable ==
    /\ MayAdmit
    /\ ~servable(next_pending)
    /\ next_pending' = next_pending + 1
    /\ completed' = completed + 1
    /\ progress_made' = TRUE
    /\ UNCHANGED <<trace, used, blocks_in_use, active, steps, pc, i>>

Admit ==
    LET needed == request_blocks(next_pending) IN
    /\ MayAdmit
    /\ servable(next_pending)
    /\ \E start \in first_fit(needed) :
          /\ used' = used \cup (start .. start + needed - 1)
          /\ active' = Append(active, [index |-> next_pending, start |-> start, count |-> needed,
                                       committed |-> trace[next_pending].prompt, decoded |-> 0,
                                       since |-> steps])
    /\ blocks_in_use' = blocks_in_use + needed
    /\ next_pending' = next_pending + 1
    /\ progress_made' = TRUE
    /\ UNCHANGED <<trace, completed, steps, pc, i>>

(* Nobody left to admit, or the head does not fit: the admission loop ends. *)
EndAdmission ==
    /\ pc = "admit"
    /\ \/ ~MayAdmit
       \/ MayAdmit /\ servable(next_pending) /\ first_fit(request_blocks(next_pending)) = {}
    /\ pc' = "decode"
    /\ i' = 1
    /\ UNCHANGED <<trace, used, blocks_in_use, active, next_pending, completed, steps, progress_made>>

(* The last reservation takes the place of the one that is done, and the loop *)
(* stays where it is.  Faulty variant: it goes on to the next place.          *)
NextIndex_skips(finished) == i + 1
NextIndex(finished) == IF finished THEN i ELSE i + 1

WithBackAt(list, n) == SubSeq([list EXCEPT ![n] = list[Len(list)]], 1, Len(list) - 1)

Decode ==
    LET a == [active[i] EXCEPT !.committed = @ + 1, !.decoded = @ + 1]
        finished == a.decoded >= trace[a.index].actual
    IN
    /\ pc = "decode"
    /\ i <= Len(active)
    /\ \/ /\ finished
          /\ used' = used \ RunOf(a)
          /\ blocks_in_use' = blocks_in_use - a.count
          /\ active' = WithBackAt(active, i)
          /\ completed' = completed + 1
       \/ /\ ~finished
          /\ active' = [active EXCEPT ![i] = a]
          /\ UNCHANGED <<used, blocks_in_use, completed>>
    /\ i' = NextIndex(finished)
    /\ progress_made' = TRUE
    /\ UNCHANGED <<trace, next_pending, steps, pc>>

EndStep ==
    /\ pc = "decode"
    /\ i > Len(active)
    /\ pc' = IF progress_made THEN "step" ELSE "done"
    /\ i' = 0
    /\ UNCHANGED <<trace, used, blocks_in_use, active, next_pending, completed, steps, progress_made>>

Next ==
    \/ BeginStep \/ SkipUnservable \/ Admit \/ EndAdmission \/ Decode \/ EndStep \/ Finish

(* The program runs: it takes a step as long as it has one. *)
Spec == Init /\ [][Next]_baselineVars /\ WF_baselineVars(Next)

-----------------------------------------------------------------------------
BaselineTypeOK ==
    /\ trace \in [1 .. NumRequests -> TraceRequest]
    /\ used \subseteq Blocks
    /\ blocks_in_use \in 0 .. max_blocks
    /\ active \in Seq(Reservation)
    /\ next_pending \in 1 .. NumRequests + 1
    /\ completed \in 0 .. NumRequests
    /\ steps \in 0 .. max_steps
    /\ progress_made \in BOOLEAN
    /\ pc \in {"step", "admit", "decode", "done"}
    /\ i \in Nat

(* The runs of the active reservations are disjoint, and they are exactly the *)
(* blocks marked used and counted in blocks_in_use, which the fragmentation   *)
(* figure and leak_free rest on.                                              *)
RunsDisjoint ==
    /\ \A m, n \in DOMAIN active : m # n => RunOf(active[m]) \cap RunOf(active[n]) = {}
    /\ used = UNION {RunOf(active[n]) : n \in DOMAIN active}
    /\ blocks_in_use = Cardinality(used)

(* A reservation covers every token its request commits, the next one         *)
(* included: the baseline never writes past its run.                          *)
TokensFit ==
    \A n \in DOMAIN active : active[n].committed + 1 <= active[n].count * tokens_per_block

(* Every active request gets exactly one token per step since it was          *)
(* admitted, although the decode loop removes finished reservations by moving *)
(* the last one into their place.                                             *)
OneTokenPerStep ==
    pc = "step" => \A n \in DOMAIN active : active[n].decoded = steps - active[n].since + 1

IsFree(start, count) ==
    start + count <= max_blocks /\ (start .. start + count - 1) \cap used = {}

(* first_fit takes the lowest run of free blocks that is long enough, and     *)
(* finds one whenever there is one.                                           *)
FirstFit ==
    [][/\ Len(active') > Len(active) =>
             LET a == active'[Len(active')]
             IN  IsFree(a.start, a.count) /\ \A b \in 0 .. a.start - 1 : ~IsFree(b, a.count)
       /\ pc = "admit" /\ pc' = "decode" /\ MayAdmit =>
             \A b \in Blocks : ~IsFree(b, request_blocks(next_pending))]_baselineVars

(* "A request that cannot fit even an empty pool can never be served.         *)
(* Skipping it is charity to the baseline: the alternative is a permanent     *)
(* head-of-line stall": with the skipping, every trace runs to completion and *)
(* all blocks come back.                                                      *)
Completes == <>(pc = "done" /\ completed = NumRequests /\ blocks_in_use = 0)
=============================================================================
