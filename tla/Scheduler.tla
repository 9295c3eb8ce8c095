----------------------------- MODULE Scheduler -----------------------------
(***************************************************************************)
(* The continuous batcher on top of the cache manager: admission under     *)
(* lifetime reservations, watermark preemption, chunked prefill, decode    *)
(* batching, cancel, preempt and resume.  The engine is single-threaded:   *)
(* the other calls happen between two calls of schedule_next, which runs   *)
(* in steps (pc), one per loop test or cache call, so that each step is    *)
(* one action of KVCacheManager and the states in between can be checked.  *)
(***************************************************************************)
EXTENDS KVCacheManager, SequencesExt

CONSTANTS
    root_sequence_id,      \* Request: its first sequence
    prompt_tokens,         \* Request: tokens of its prompt
    max_decode_tokens,     \* Request: its decode budget
    prefix_key,            \* Request: its shareable prefix, or NoKey
    max_active_requests, max_batch_tokens, preemption_watermark_blocks,
    size_aware_admission, admission_skip_limit,    \* SchedulerConfig
    EngineCalls            \* what the engine does besides enqueue, step and cancel

ASSUME SchedulerConfig ==
    /\ root_sequence_id \in Injection(Requests, SeqIds)
    /\ prompt_tokens \in [Requests -> Nat]
    /\ max_decode_tokens \in [Requests -> Nat]
    /\ prefix_key \in [Requests -> Keys \cup {NoKey}]
    /\ max_active_requests \in Nat
    /\ max_batch_tokens \in Nat
    /\ preemption_watermark_blocks \in Nat
    /\ size_aware_admission \in BOOLEAN
    /\ admission_skip_limit \in Nat
    /\ EngineCalls \subseteq {"grow", "publish", "preempt", "cancel preempted"}
    /\ IsFiniteSet(Requests)
    /\ \A r \in Requests : prompt_tokens[r] + max_decode_tokens[r] <= MaxTokens
    /\ MaxUsers >= Cardinality(SeqIds)

VARIABLES
    request,          \* the mutable fields of each Request
    pending, active, preempted,    \* the three queues of request ids
    preemption_info,  \* the requests with a PreemptionInfo
    lifetime_held,    \* lifetime_held_
    plan,             \* the BatchPlan under construction or last returned
    pc,               \* where schedule_next is
    cursor,           \* position in pending of the candidate of try_admit
    needed            \* try_admit: lifetime_blocks_for(candidate)

queueVars == <<request, pending, active, preempted, preemption_info, lifetime_held>>
callVars == <<plan, pc, cursor, needed>>
vars == <<cacheVars, queueVars, callVars>>

-----------------------------------------------------------------------------
total_blocks == Cardinality(Frames)
free_blocks == Cardinality(FreeFrames(ref_count))

blocks_for_tokens(n) == blocks_for(n) * NumTables

NoRequestState == [state |-> "Unknown", remaining |-> 0, skips |-> 0, lifetime |-> 0]
NoPlan == [prefill |-> <<>>, tokens |-> <<>>, decode |-> <<>>, scheduled |-> 0]

State(r) == request[r].state

SchedulerTypeOK ==
    /\ request \in [Requests -> [state : {"Unknown", "Pending", "Prefill", "Decode", "Preempted"},
                                 remaining : Nat, skips : Nat, lifetime : Nat]]
    /\ {pending, active, preempted} \subseteq Seq(Requests)
    /\ preemption_info \subseteq Requests
    /\ lifetime_held \in Nat
    /\ plan \in [prefill : Seq(Requests), tokens : Seq(Nat), decode : Seq(Requests), scheduled : Nat]
    /\ pc \in {"idle", "admit", "try", "reclaim", "create", "attach", "reserve", "batch"}
    /\ cursor \in Nat
    /\ needed \in Nat

SchedulerInit ==
    /\ Init
    /\ request = [r \in Requests |-> NoRequestState]
    /\ pending = <<>> /\ active = <<>> /\ preempted = <<>>
    /\ preemption_info = {}
    /\ lifetime_held = 0
    /\ plan = NoPlan
    /\ pc = "idle"
    /\ cursor = 0
    /\ needed = 0

-----------------------------------------------------------------------------
(* Calls of the engine, between two calls of schedule_next. *)

enqueue(r) ==
    /\ pc = "idle"
    /\ State(r) = "Unknown"
    /\ request' = [request EXCEPT ![r] = [state |-> "Pending", remaining |-> prompt_tokens[r],
                                          skips |-> 0, lifetime |-> 0]]
    /\ pending' = Append(pending, r)
    /\ UNCHANGED <<cacheVars, active, preempted, preemption_info, lifetime_held, callVars>>

(* Faulty variant: the subtraction is not clamped at 0. *)
RemainingAfter_unclamped(r, produced) == request[r].remaining - produced
RemainingAfter(r, produced) ==
    IF produced >= request[r].remaining THEN 0 ELSE request[r].remaining - produced

complete_step(r, produced) ==
    /\ pc = "idle"
    /\ r \in Range(active)
    /\ State(r) = "Prefill"
    /\ request' = [request EXCEPT
          ![r].remaining = RemainingAfter(r, produced),
          ![r].state = IF produced >= request[r].remaining THEN "Decode" ELSE @]
    /\ UNCHANGED <<cacheVars, pending, active, preempted, preemption_info, lifetime_held, callVars>>

(* The reservation of a request that leaves the active queue is given back.   *)
(* Faulty variant: it is kept.                                                *)
HeldWithout_kept(r) == lifetime_held
HeldWithout(r) ==
    IF request[r].lifetime > 0 /\ lifetime_held >= request[r].lifetime
    THEN lifetime_held - request[r].lifetime ELSE lifetime_held

(* preemption_info_.erase().  Faulty variant: it is not erased. *)
InfoWithout_kept(r) == preemption_info
InfoWithout(r) == preemption_info \ {r}

cancel(r) ==
    /\ pc = "idle"
    /\ State(r) # "Unknown"
    /\ State(r) = "Preempted" => "cancel preempted" \in EngineCalls
    /\ lifetime_held' = HeldWithout(r)
    /\ release_request(r)
    /\ pending' = RemoveFirst(pending, r)
    /\ active' = RemoveFirst(active, r)
    /\ preempted' = RemoveFirst(preempted, r)
    /\ preemption_info' = InfoWithout(r)
    /\ request' = [request EXCEPT ![r] = NoRequestState]
    /\ UNCHANGED callVars

(* The body of preempt(), which reclaim_for_admission() calls too. *)
Park(r) ==
    /\ active' = RemoveFirst(active, r)
    /\ preempted' = Append(preempted, r)
    /\ request' = [request EXCEPT ![r].state = "Preempted"]
    /\ lifetime_held' = HeldWithout(r)
    /\ swap_out_request(r)
    /\ preemption_info' = preemption_info \cup {r}
    /\ UNCHANGED pending

preempt(r) ==
    /\ pc = "idle"
    /\ "preempt" \in EngineCalls
    /\ r \in Range(active)
    /\ Park(r)
    /\ UNCHANGED callVars

(* resume() fails unless the whole request was swapped in. *)
SwapBack(r) == swap_in_request(r)

resume(r) ==
    /\ pc = "idle"
    /\ r \in Range(preempted)
    /\ SwapBack(r)
    /\ preempted' = RemoveFirst(preempted, r)
    /\ active' = Append(active, r)
    /\ request' = [request EXCEPT ![r].state = IF request[r].remaining > 0 THEN "Prefill" ELSE "Decode"]
    /\ lifetime_held' = lifetime_held + request[r].lifetime
    /\ preemption_info' = InfoWithout(r)
    /\ UNCHANGED <<pending, callVars>>

-----------------------------------------------------------------------------
(* The cache calls of an engine, as TraceReplay makes them for a request in   *)
(* Decode.  An engine owes the scheduler none of them, and none in a          *)
(* particular order, so each may happen at any time between two plans.        *)

Executing(r) == pc = "idle" /\ r \in Range(active) /\ State(r) = "Decode"
JustPrefilled(r) == Len(tables[root_sequence_id[r]][1]) = blocks_for(prompt_tokens[r])
Capacity(s) == Len(tables[s][1]) * TokensPerBlock

(* ensure_capacity(): one more block when the next position has none. *)
grow(r, s) ==
    /\ "grow" \in EngineCalls
    /\ Executing(r)
    /\ Capacity(s) < prompt_tokens[r] + max_decode_tokens[r]
    /\ reserve_tokens(s, 1)
    /\ UNCHANGED <<queueVars, callVars>>

publish(r) ==
    /\ "publish" \in EngineCalls
    /\ Executing(r)
    /\ JustPrefilled(r)
    /\ prefix_key[r] # NoKey
    /\ publish_prefix(root_sequence_id[r], prefix_key[r])
    /\ UNCHANGED <<queueVars, callVars>>

-----------------------------------------------------------------------------
(* schedule_next() *)

(* Faulty variant: the decode budget is not reserved. *)
lifetime_blocks_for_prompt(r) == blocks_for_tokens(prompt_tokens[r])

lifetime_blocks_for(r) ==
    LET cached == IF prefix_key[r] = NoKey THEN 0 ELSE prefix_token_count(prefix_key[r])
        usable == IF cached <= prompt_tokens[r] THEN cached ELSE 0
    IN  blocks_for_tokens(prompt_tokens[r] - usable + max_decode_tokens[r])

(* schedule_prefill_chunk(): as much of the prompt as the batch has room for. *)
(* Faulty variant: all that is left of it.                                    *)
WithChunk_whole(p, r, remaining) ==
    IF remaining = 0 \/ p.scheduled >= max_batch_tokens THEN p
    ELSE [p EXCEPT !.prefill = Append(@, r), !.tokens = Append(@, remaining), !.scheduled = @ + remaining]

WithChunk(p, r, remaining) ==
    LET room == max_batch_tokens - p.scheduled
        chunk == IF remaining < room THEN remaining ELSE room
    IN  IF remaining = 0 \/ p.scheduled >= max_batch_tokens THEN p
        ELSE [p EXCEPT !.prefill = Append(@, r), !.tokens = Append(@, chunk), !.scheduled = @ + chunk]

schedule_next ==
    /\ pc = "idle"
    /\ plan' = NoPlan
    /\ pc' = "admit"
    /\ UNCHANGED <<cacheVars, queueVars, cursor, needed>>

(* The test of the admission loop. *)
AdmitMore ==
    /\ pc = "admit"
    /\ \/ /\ pending # <<>>
          /\ Len(active) < max_active_requests
          /\ cursor' = 1
          /\ pc' = "try"
       \/ /\ pending = <<>> \/ Len(active) >= max_active_requests
          /\ pc' = "batch"
          /\ UNCHANGED cursor
    /\ UNCHANGED <<cacheVars, queueVars, plan, needed>>

candidate == pending[cursor]

(* Faulty variant: one skip too many. *)
must_take_head_late == \/ ~size_aware_admission
                       \/ request[pending[1]].skips > admission_skip_limit

must_take_head == \/ ~size_aware_admission
                  \/ request[pending[1]].skips >= admission_skip_limit

(* try_admit() returned false: scan on, or give up admitting. *)
Refused ==
    /\ IF must_take_head \/ cursor = Len(pending)
       THEN pc' = "batch" /\ UNCHANGED cursor
       ELSE pc' = "try" /\ cursor' = cursor + 1
    /\ UNCHANGED <<queueVars, plan, needed>>

try_admit ==
    /\ pc = "try"
    /\ \/ /\ \/ plan.scheduled >= max_batch_tokens
             \/ lifetime_blocks_for(candidate) > total_blocks
          /\ Refused
       \/ /\ plan.scheduled < max_batch_tokens
          /\ lifetime_blocks_for(candidate) <= total_blocks
          /\ needed' = lifetime_blocks_for(candidate)
          /\ pc' = "reclaim"
          /\ UNCHANGED <<queueVars, plan, cursor>>
    /\ UNCHANGED cacheVars

(* reclaim_for_admission(): one victim per step, the newest that this call did *)
(* not admit.                                                                  *)
UnderPressure ==
    LET demand == blocks_for_tokens(prompt_tokens[candidate] + max_decode_tokens[candidate])
        wanted == demand + preemption_watermark_blocks
        required == IF wanted < total_blocks THEN wanted ELSE total_blocks
    IN  /\ preemption_watermark_blocks > 0
        /\ demand \in 1 .. total_blocks
        /\ Len(active) > Len(plan.prefill)
        /\ free_blocks < required \/ lifetime_held + demand > total_blocks

(* Faulty variant: the newest request, even if this call just planned it. *)
victim_newest == active[Len(active)]
victim == active[Len(active) - Len(plan.prefill)]

reclaim_for_admission ==
    /\ pc = "reclaim"
    /\ \/ /\ UnderPressure
          /\ Park(victim)
          /\ pc' = IF Cardinality(FreeFrames(ref_count')) <= free_blocks THEN "create" ELSE "reclaim"
       \/ /\ ~UnderPressure
          /\ pc' = "create"
          /\ UNCHANGED <<cacheVars, queueVars>>
    /\ UNCHANGED <<plan, cursor, needed>>

create ==
    /\ pc = "create"
    /\ \/ /\ \/ lifetime_held + needed > total_blocks
             \/ root_sequence_id[candidate] \in sequences
          /\ Refused
          /\ UNCHANGED cacheVars
       \/ /\ lifetime_held + needed <= total_blocks
          /\ create_sequence(root_sequence_id[candidate], candidate)
          /\ pc' = "attach"
          /\ UNCHANGED <<queueVars, plan, cursor, needed>>

attach ==
    LET k == prefix_key[candidate]
        usable == k # NoKey /\ prefix_token_count(k) \in 1 .. prompt_tokens[candidate]
    IN
    /\ pc = "attach"
    /\ \/ usable /\ attach_prefix(root_sequence_id[candidate], k)
       \/ ~usable /\ UNCHANGED cacheVars
    /\ pc' = "reserve"
    /\ UNCHANGED <<queueVars, plan, cursor, needed>>

(* The candidate moves to the active queue and the ones it passed are skipped. *)
Admitted ==
    LET r == candidate
        remaining == IF request[r].remaining = 0 THEN prompt_tokens[r] ELSE request[r].remaining
    IN
    /\ request' = [q \in Requests |->
          IF q = r THEN [request[r] EXCEPT !.lifetime = needed, !.state = "Prefill",
                                           !.remaining = remaining]
          ELSE IF \E i \in 1 .. cursor - 1 : pending[i] = q THEN [request[q] EXCEPT !.skips = @ + 1]
          ELSE request[q]]
    /\ lifetime_held' = lifetime_held + needed
    /\ plan' = WithChunk(plan, r, remaining)
    /\ pending' = RemoveAt(pending, cursor)
    /\ active' = Append(active, r)
    /\ pc' = "admit"
    /\ UNCHANGED <<preempted, preemption_info, cursor, needed>>

(* A candidate whose prompt does not fit leaves nothing behind.  Faulty       *)
(* variant: its sequence stays.                                               *)
RollBack_not == UNCHANGED cacheVars
RollBack == release_request(candidate)

(* reserve_tokens() for what the prefix does not cover, or roll back.  The     *)
(* second roll-back of try_admit, for a nonempty prompt of which nothing is    *)
(* attached and nothing is needed, cannot be reached and is left out.          *)
reserve ==
    LET s == root_sequence_id[candidate]
        still_need == IF prompt_tokens[candidate] > Capacity(s)
                      THEN prompt_tokens[candidate] - Capacity(s) ELSE 0
    IN
    /\ pc = "reserve"
    /\ \/ still_need > 0 /\ reserve_tokens(s, still_need) /\ Admitted
       \/ still_need = 0 /\ UNCHANGED cacheVars /\ Admitted
       \/ still_need > 0 /\ ~CanReserve(still_need) /\ RollBack /\ Refused

(* The plan with a chunk for each of the waiting requests, in their order. *)
Chunked(p, waiting) ==
    LET after[n \in 0 .. Len(waiting)] ==
            IF n = 0 THEN p
            ELSE WithChunk(after[n - 1], waiting[n], request[waiting[n]].remaining)
    IN  after[Len(waiting)]

(* The plan with a token for each decoding request the batch has room for. *)
WithDecodes(p) ==
    LET decoding == Kept(active, {r \in Requests : State(r) = "Decode"})
        room == IF p.scheduled < max_batch_tokens THEN max_batch_tokens - p.scheduled ELSE 0
        n == IF Len(decoding) < room THEN Len(decoding) ELSE room
    IN  [p EXCEPT !.decode = SubSeq(decoding, 1, n), !.scheduled = @ + n]

(* The rest of the plan: waiting prefill work, then decode tokens.  Faulty    *)
(* variant: the rest of a prompt that was begun earlier is forgotten.         *)
Batched_no_waiting == WithDecodes(plan)
Batched ==
    WithDecodes(Chunked(plan, Kept(active, {r \in Requests : State(r) = "Prefill"
                                                /\ r \notin Range(plan.prefill)})))

batch ==
    /\ pc = "batch"
    /\ plan' = Batched
    /\ pc' = "idle"
    /\ cursor' = 0
    /\ needed' = 0
    /\ UNCHANGED <<cacheVars, queueVars>>

-----------------------------------------------------------------------------
ScheduleStep == schedule_next \/ AdmitMore \/ try_admit \/ reclaim_for_admission
                    \/ create \/ attach \/ reserve \/ batch

SchedulerNext ==
    \/ ScheduleStep
    \/ \E r \in Requests :
          \/ enqueue(r) \/ cancel(r) \/ preempt(r) \/ resume(r) \/ publish(r)
          \/ \E n \in 0 .. prompt_tokens[r] : complete_step(r, n)
          \/ \E s \in SequencesFor(r) : grow(r, s)

SchedulerSpec == SchedulerInit /\ [][SchedulerNext]_vars

(* The engine loop: schedule_next is called again and again and returns, and  *)
(* a request that keeps being planned makes progress, by the tokens of its    *)
(* chunk or, in Decode, towards the step after which the engine cancels it.   *)
ExecutePrefill(r) == \E i \in DOMAIN plan.prefill :
                        plan.prefill[i] = r /\ complete_step(r, plan.tokens[i])
FinishDecode(r) == r \in Range(plan.decode) /\ State(r) = "Decode" /\ cancel(r)

FairSpec ==
    /\ SchedulerSpec
    /\ WF_vars(ScheduleStep)
    /\ \A r \in Requests : SF_vars(ExecutePrefill(r)) /\ SF_vars(FinishDecode(r))

-----------------------------------------------------------------------------
(* A request is in the one queue its state names, once, and has a             *)
(* PreemptionInfo exactly while it is preempted: the moves of try_admit,      *)
(* cancel, preempt and resume neither lose nor duplicate a request.           *)
QueuesAgree ==
    /\ \A r \in Requests :
          /\ r \in Range(pending) <=> State(r) = "Pending"
          /\ r \in Range(active) <=> State(r) \in {"Prefill", "Decode"}
          /\ r \in Range(preempted) <=> State(r) = "Preempted"
    /\ IsInjective(pending) /\ IsInjective(active) /\ IsInjective(preempted)
    /\ preemption_info = Range(preempted)

(* "No sequence state is left behind" (schedule_next): outside the admission  *)
(* of a candidate, the sequences that exist are those of active and preempted *)
(* requests, and each of these has its first sequence.                        *)
NoSequenceLeftBehind ==
    pc \notin {"attach", "reserve"} =>
        \A r \in Requests :
            IF State(r) \in {"Unknown", "Pending"} THEN SequencesFor(r) = {}
            ELSE root_sequence_id[r] \in SequencesFor(r)

(* Every block of every sequence of an active request is in the pool, so a    *)
(* planned request can be executed: preempt takes a request off the active    *)
(* queue before it swaps, and resume puts it back only after a full swap-in.  *)
ActiveResident ==
    \A r \in Range(active) : \A s \in SequencesFor(r) : SwappedOut(s) = {}

(* lifetime_held_ is the sum of the reservations of the active requests: what *)
(* try_admit and resume add, preempt and cancel take back.                    *)
ReservedBlocks ==
    Cardinality({p \in Range(active) \X (1 .. total_blocks) : p[2] <= request[p[1]].lifetime})
AccountingExact == lifetime_held = ReservedBlocks

(* "A pending request is only admitted when [...] the pool can still cover    *)
(* that prompt plus the request's decode budget" (schedule_next): once a      *)
(* candidate passed the capacity test, its reservation and those of the       *)
(* active requests fit the pool together.                                     *)
AdmissionCovered == pc \in {"attach", "reserve"} => ReservedBlocks + needed <= total_blocks

(* Without preemption and sharing, the reservations are honoured: an active   *)
(* request can always get the next block of its decode budget                 *)
(* (reserve_tokens cannot fail).                                              *)
ReservationHonoured ==
    \A r \in Range(active) :
        Capacity(root_sequence_id[r]) < prompt_tokens[r] + max_decode_tokens[r]
            => CanReserve(1)

(* "How many times a waiting head may be skipped before it blocks again":     *)
(* no waiting request is ever skipped more often, because a request further   *)
(* back has been skipped at most as often as one before it.                   *)
SkipsBounded ==
    /\ \A i \in DOMAIN pending : request[pending[i]].skips <= admission_skip_limit
    /\ \A i, j \in DOMAIN pending : i <= j => request[pending[i]].skips >= request[pending[j]].skips

(* "A batch plan can never contain a request that the same call went on to    *)
(* preempt" (reclaim_for_admission).                                          *)
PlannedStayActive == pc # "idle" => Range(plan.prefill) \subseteq Range(active)

(* The plan schedule_next returns: active requests, none twice, chunks of     *)
(* what is left of their prompts, within max_batch_tokens; and work is left   *)
(* out only when the batch is full.                                           *)
PlannedTokens == UNION {{i} \X (1 .. plan.tokens[i]) : i \in DOMAIN plan.tokens}
PlanOK ==
    /\ IsInjective(plan.prefill \o plan.decode)
    /\ Range(plan.prefill \o plan.decode) \subseteq Range(active)
    /\ \A i \in DOMAIN plan.prefill : plan.tokens[i] \in 1 .. request[plan.prefill[i]].remaining
    /\ plan.scheduled = Cardinality(PlannedTokens) + Len(plan.decode)
    /\ plan.scheduled <= max_batch_tokens
    /\ plan.scheduled < max_batch_tokens =>
          \A r \in Range(active) : /\ State(r) = "Decode" => r \in Range(plan.decode)
                                   /\ State(r) = "Prefill" /\ request[r].remaining > 0
                                         => r \in Range(plan.prefill)
PlanSound == [][pc = "batch" => PlanOK']_vars

(* "Starvation freedom" of admission (docs/performance.md): without           *)
(* preemption, every waiting request that fits the pool is admitted, whatever *)
(* keeps arriving.  It is skipped admission_skip_limit times at most, then it *)
(* blocks the queue until the active requests have made room.                 *)
EventuallyAdmitted == \A r \in Requests : State(r) = "Pending" ~> State(r) # "Pending"

(* Once no new request arrives, every request is served and leaves.  While    *)
(* new ones arrive this is not promised: admissions and waiting prefills take *)
(* their part of max_batch_tokens before decode does.                         *)
ArrivalsStop == <>[][\A r \in Requests : ~enqueue(r)]_vars
EventuallyServed ==
    ArrivalsStop => \A r \in Requests : State(r) # "Unknown" ~> State(r) = "Unknown"
=============================================================================
