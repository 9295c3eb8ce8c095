----------------------------- MODULE TraceReplay -----------------------------
(***************************************************************************)
(* run_paged(): the driver that replays a trace through the scheduler and  *)
(* the cache.  It enqueues the whole trace, then repeats one step: a plan, *)
(* its prefill chunks, its decode tokens, and the resumption of parked     *)
(* requests.  The driver owns what the scheduler does not do: growing the  *)
(* sequences, copy-on-write, forking the samples, parking a request when   *)
(* decode cannot grow, cancelling a finished one, and noticing a stall.    *)
(* Each call into the scheduler or the cache is one step (at.phase).  The  *)
(* metrics it only counts, and max_steps, are left out.                    *)
(***************************************************************************)
EXTENDS Scheduler

CONSTANT Traces   \* [requests, decode_actual, num_parallel_samples] of a trace

ASSUME ReplayConfig ==
    /\ NumTables = 1
    /\ SeqIds \subseteq Nat
    /\ \A r \in Requests : root_sequence_id[r] = r
    /\ \A t \in Traces :
          /\ t.requests \in Seq(Requests) /\ IsInjective(t.requests)
          /\ t.decode_actual \in [Requests -> Nat]
          /\ t.num_parallel_samples \in [Requests -> Nat \ {0}]

VARIABLES
    trace,          \* the trace being replayed
    progress,       \* RequestProgress of each request
    live,           \* admitted and unfinished requests, in admission order
    preempted_ids,  \* the parked requests the driver knows of
    next_fork_sequence,
    no_progress_steps,
    at              \* where the loop is, and the locals of the current step

driverVars == <<trace, progress, live, preempted_ids, next_fork_sequence, no_progress_steps, at>>
replayVars == <<vars, driverVars>>

InTrace == Range(trace.requests)
Completed == \A r \in InTrace : progress[r].finished

NoProgress == [sequences |-> <<>>, committed |-> 0, decoded |-> 0, shared |-> 0,
               admitted |-> FALSE, finished |-> FALSE]

ReplayTypeOK ==
    /\ progress \in [Requests -> [sequences : Seq(SeqIds), committed : Nat, decoded : Nat, shared : Nat,
                                  admitted : BOOLEAN, finished : BOOLEAN]]
    /\ live \in Seq(Requests)
    /\ preempted_ids \subseteq Requests
    /\ next_fork_sequence \in Nat
    /\ no_progress_steps \in 0 .. 2
    /\ at \in [phase : {"loop", "plan", "prefill", "touch", "publish", "fork", "decode", "reclaim",
                        "write", "account", "resume", "close", "done"},
               i : Nat, j : Nat, progress_made : BOOLEAN, growth_failed : BOOLEAN]

(* Every request of the trace is enqueued up front. *)
ReplayInit ==
    /\ Init
    /\ trace \in Traces
    /\ request = [r \in Requests |->
          IF r \in InTrace THEN [NoRequestState EXCEPT !.state = "Pending", !.remaining = prompt_tokens[r]]
          ELSE NoRequestState]
    /\ pending = trace.requests /\ active = <<>> /\ preempted = <<>>
    /\ preemption_info = {}
    /\ lifetime_held = 0
    /\ plan = NoPlan /\ pc = "idle" /\ cursor = 0 /\ needed = 0
    /\ progress = [r \in Requests |-> NoProgress]
    /\ live = <<>>
    /\ preempted_ids = {}
    /\ next_fork_sequence = 1 + Max(InTrace \cup {0})
    /\ no_progress_steps = 0
    /\ at = [phase |-> "loop", i |-> 0, j |-> 0, progress_made |-> FALSE, growth_failed |-> FALSE]

Goto(phase, i, j) == [at EXCEPT !.phase = phase, !.i = i, !.j = j]

-----------------------------------------------------------------------------
(* The head of the loop, and schedule_next(). *)
StartStep ==
    /\ at.phase = "loop"
    /\ \/ /\ Completed
          /\ at' = Goto("done", 0, 0)
          /\ UNCHANGED vars
       \/ /\ ~Completed
          /\ schedule_next
          /\ at' = [Goto("plan", 0, 0) EXCEPT !.progress_made = FALSE, !.growth_failed = FALSE]
    /\ UNCHANGED <<trace, progress, live, preempted_ids, next_fork_sequence, no_progress_steps>>

PlanStep ==
    /\ at.phase = "plan"
    /\ pc # "idle"
    /\ ScheduleStep
    /\ at' = IF pc' = "idle" THEN Goto("prefill", 1, 0) ELSE at
    /\ UNCHANGED <<trace, progress, live, preempted_ids, next_fork_sequence, no_progress_steps>>

in_plan == Range(plan.prefill) \cup Range(plan.decode)

-----------------------------------------------------------------------------
(* The prefill chunks of the plan, in order. *)
Prefilled == plan.prefill[at.i]
Chunk == plan.tokens[at.i]

FirstSeen(r) ==
    [progress[r] EXCEPT !.admitted = TRUE, !.sequences = <<r>>,
                        !.shared = IF prefix_key[r] = NoKey THEN 0 ELSE prefix_token_count(prefix_key[r])]

BeginPrefill ==
    /\ at.phase = "prefill"
    /\ \/ /\ at.i > Len(plan.prefill)
          /\ at' = Goto("decode", 1, 1)
          /\ UNCHANGED <<progress, live>>
       \/ /\ at.i <= Len(plan.prefill)
          /\ progress' = IF progress[Prefilled].admitted THEN progress
                         ELSE [progress EXCEPT ![Prefilled] = FirstSeen(Prefilled)]
          /\ live' = IF progress[Prefilled].admitted THEN live ELSE Append(live, Prefilled)
          /\ at' = Goto("touch", at.i, progress[Prefilled].committed)
    /\ UNCHANGED <<vars, trace, preempted_ids, next_fork_sequence, no_progress_steps>>

(* touch_position(): copy-on-write of the block, if there is a frame for it; *)
(* the answer is not looked at.                                              *)
CanTouch(s, pos) ==
    /\ CellOf(pos, 1) \in Resident(s)
    /\ Exclusive(s, CellOf(pos, 1)) \/ FreeFrames(ref_count) # {}

touch_position(s, pos) ==
    /\ \/ ensure_token_writable(s, pos, 1)
       \/ ~CanTouch(s, pos) /\ UNCHANGED cacheVars
    /\ UNCHANGED <<queueVars, callVars>>

(* The first position of each block of the chunk that no prefix covers. *)
ToTouch == {pos \in at.j .. progress[Prefilled].committed + Chunk - 1 :
               pos >= progress[Prefilled].shared /\ pos % TokensPerBlock = 0}

PrefillChunk ==
    /\ at.phase = "touch"
    /\ \/ /\ ToTouch # {}
          /\ touch_position(Prefilled, Min(ToTouch))
          /\ at' = Goto("touch", at.i, Min(ToTouch) + 1)
          /\ UNCHANGED progress
       \/ /\ ToTouch = {}
          /\ progress' = [progress EXCEPT ![Prefilled].committed = @ + Chunk]
          /\ complete_step(Prefilled, Chunk)
          /\ at' = [Goto(IF request'[Prefilled].state = "Decode" THEN "publish" ELSE "prefill",
                         IF request'[Prefilled].state = "Decode" THEN at.i ELSE at.i + 1, 0)
                        EXCEPT !.progress_made = TRUE]
    /\ UNCHANGED <<trace, live, preempted_ids, next_fork_sequence, no_progress_steps>>

(* A prompt that is complete is published, then its samples are forked. *)
Publishable(r) == prefix_key[r] # NoKey /\ prefix[r].key = NoKey

PublishPrompt ==
    /\ at.phase = "publish"
    /\ \/ Publishable(Prefilled) /\ publish_prefix(Prefilled, prefix_key[Prefilled])
       \/ ~Publishable(Prefilled) /\ UNCHANGED cacheVars
    /\ at' = Goto("fork", at.i, 1)
    /\ UNCHANGED <<queueVars, callVars, trace, progress, live, preempted_ids, next_fork_sequence,
                   no_progress_steps>>

ForkSample ==
    /\ at.phase = "fork"
    /\ \/ /\ at.j < trace.num_parallel_samples[Prefilled]
          /\ next_fork_sequence \in SeqIds   \* bound: the sequence ids
          /\ fork_sequence(Prefilled, next_fork_sequence, Prefilled)
          /\ progress' = [progress EXCEPT ![Prefilled].sequences = Append(@, next_fork_sequence)]
          /\ next_fork_sequence' = next_fork_sequence + 1
          /\ at' = Goto("fork", at.i, at.j + 1)
       \/ /\ at.j >= trace.num_parallel_samples[Prefilled]
          /\ at' = Goto("prefill", at.i + 1, 0)
          /\ UNCHANGED <<cacheVars, progress, next_fork_sequence>>
    /\ UNCHANGED <<queueVars, callVars, trace, live, preempted_ids, no_progress_steps>>

-----------------------------------------------------------------------------
(* The decode tokens of the plan. *)
Decoding == plan.decode[at.i]
Position == progress[Decoding].committed
Branches == progress[Decoding].sequences

(* ensure_capacity(): is there a block for the position?  Faulty variant: the *)
(* block before it is enough.                                                 *)
HasBlock_off_by_one(s, pos) == pos \div TokensPerBlock <= Len(tables[s][1])
HasBlock(s, pos) == pos \div TokensPerBlock < Len(tables[s][1])

GrowBranch ==
    /\ at.phase = "decode"
    /\ at.i <= Len(plan.decode)
    /\ Decoding \notin preemption_info
    /\ at.j <= Len(Branches)
    /\ \/ /\ HasBlock(Branches[at.j], Position)
          /\ at' = Goto("decode", at.i, at.j + 1)
          /\ UNCHANGED cacheVars
       \/ /\ ~HasBlock(Branches[at.j], Position)
          /\ reserve_tokens(Branches[at.j], 1)
          /\ at' = Goto("decode", at.i, at.j + 1)
       \/ /\ ~HasBlock(Branches[at.j], Position)
          /\ ~CanReserve(1)
          /\ at' = [Goto("reclaim", at.i, 0) EXCEPT !.growth_failed = TRUE]
          /\ UNCHANGED cacheVars
    /\ UNCHANGED <<queueVars, callVars, trace, progress, live, preempted_ids, next_fork_sequence,
                   no_progress_steps>>

(* reclaim_for_decode(): the newest live request of the plan that can be      *)
(* preempted; there is one, since the request that could not grow is active.  *)
(* It is progress only if frames came back.  Faulty variant: always.          *)
Victims == {k \in DOMAIN live : /\ ~progress[live[k]].finished
                                /\ live[k] \in in_plan
                                /\ live[k] \in Range(active)}

Reclaimed_always(before, after) == TRUE
Reclaimed(before, after) == Cardinality(FreeFrames(after)) > Cardinality(FreeFrames(before))

reclaim_for_decode ==
    /\ at.phase = "reclaim"
    /\ Victims # {}
    /\ Park(live[Max(Victims)])
    /\ at' = [Goto("decode", at.i + 1, 1) EXCEPT !.progress_made = @ \/ Reclaimed(ref_count, ref_count')]
    /\ UNCHANGED <<callVars, trace, progress, live, preempted_ids, next_fork_sequence, no_progress_steps>>

(* A request parked by an earlier reclaim of this loop is passed over, one    *)
(* that grew is written, and after the last one the step is accounted for.    *)
NextDecode ==
    /\ at.phase = "decode"
    /\ \/ at.i > Len(plan.decode) /\ at' = Goto("account", 0, 0)
       \/ /\ at.i <= Len(plan.decode)
          /\ Decoding \in preemption_info
          /\ at' = Goto("decode", at.i + 1, 1)
       \/ /\ at.i <= Len(plan.decode)
          /\ Decoding \notin preemption_info
          /\ at.j > Len(Branches)
          /\ at' = Goto("write", at.i, 1)
    /\ UNCHANGED <<vars, trace, progress, live, preempted_ids, next_fork_sequence, no_progress_steps>>

WriteBranch ==
    /\ at.phase = "write"
    /\ at.j <= Len(Branches)
    /\ touch_position(Branches[at.j], Position)
    /\ at' = Goto("write", at.i, at.j + 1)
    /\ UNCHANGED <<trace, progress, live, preempted_ids, next_fork_sequence, no_progress_steps>>

(* A request that decoded all its tokens is cancelled. *)
CommitToken ==
    LET last == progress[Decoding].decoded + 1 >= trace.decode_actual[Decoding] IN
    /\ at.phase = "write"
    /\ at.j > Len(Branches)
    /\ progress' = [progress EXCEPT
          ![Decoding].committed = @ + 1,
          ![Decoding].decoded = @ + 1,
          ![Decoding].finished = last,
          ![Decoding].sequences = IF last THEN <<>> ELSE @]
    /\ \/ last /\ cancel(Decoding)
       \/ ~last /\ UNCHANGED vars
    /\ at' = [Goto("decode", at.i + 1, 1) EXCEPT !.progress_made = TRUE]
    /\ UNCHANGED <<trace, live, preempted_ids, next_fork_sequence, no_progress_steps>>

-----------------------------------------------------------------------------
(* The end of the step. *)

(* The presence diff of preemption_info.  Faulty variant: a request that was  *)
(* parked by the scheduler's own policy, outside the plan, is not noticed.    *)
KnownParked_in_plan ==
    (preempted_ids \ Range(live)) \cup {r \in Range(live) : r \in preemption_info /\ r \in in_plan}
KnownParked ==
    {r \in preempted_ids : r \notin Range(live) \/ progress[r].finished}
        \cup {r \in Range(live) : ~progress[r].finished /\ r \in preemption_info}

AccountStep ==
    /\ at.phase = "account"
    /\ preempted_ids' = KnownParked
    /\ at' = Goto(IF at.growth_failed THEN "close" ELSE "resume", 1, 0)
    /\ UNCHANGED <<vars, trace, progress, live, next_fork_sequence, no_progress_steps>>

ResumeNext ==
    /\ at.phase = "resume"
    /\ \/ /\ at.i > Len(live)
          /\ at' = Goto("close", 0, 0)
          /\ UNCHANGED <<vars, preempted_ids>>
       \/ /\ at.i <= Len(live)
          /\ at' = Goto("resume", at.i + 1, 0)
          /\ \/ /\ live[at.i] \in preempted_ids
                /\ resume(live[at.i])
                /\ preempted_ids' = preempted_ids \ {live[at.i]}
             \/ /\ live[at.i] \notin preempted_ids \/ ~CanSwapIn(SequencesFor(live[at.i]))
                /\ UNCHANGED <<vars, preempted_ids>>
    /\ UNCHANGED <<trace, progress, live, next_fork_sequence, no_progress_steps>>

(* Two steps without progress end the replay.  Faulty variant: they do not. *)
Stalled_never == FALSE
Stalled == ~at.progress_made /\ no_progress_steps >= 1

CloseStep ==
    /\ at.phase = "close"
    /\ live' = Kept(live, {r \in Requests : ~progress[r].finished})
    /\ no_progress_steps' = IF at.progress_made THEN 0 ELSE no_progress_steps + 1
    /\ at' = Goto(IF Stalled THEN "done" ELSE "loop", 0, 0)
    /\ UNCHANGED <<vars, trace, progress, preempted_ids, next_fork_sequence>>

Done == at.phase = "done" /\ UNCHANGED replayVars

-----------------------------------------------------------------------------
ReplayNext ==
    \/ StartStep \/ PlanStep
    \/ BeginPrefill \/ PrefillChunk \/ PublishPrompt \/ ForkSample
    \/ GrowBranch \/ reclaim_for_decode \/ NextDecode \/ WriteBranch \/ CommitToken
    \/ AccountStep \/ ResumeNext \/ CloseStep
    \/ Done

(* The driver is one loop: its next step is always taken. *)
ReplaySpec == ReplayInit /\ [][ReplayNext]_replayVars /\ WF_replayVars(ReplayNext)

-----------------------------------------------------------------------------
(* Between two steps the driver's books are the scheduler's: live lists the   *)
(* requests that are active or parked, preempted_ids the parked ones (one     *)
(* that is missing would never be resumed), sequences the branches of each,   *)
(* and committed what has been prefilled and decoded.                         *)
DriverAgrees ==
    at.phase = "loop" =>
        /\ IsInjective(live)
        /\ Range(live) = Range(active) \cup Range(preempted)
        /\ preempted_ids = preemption_info
        /\ \A r \in Range(live) :
              /\ Range(progress[r].sequences) = SequencesFor(r)
              /\ progress[r].committed + request[r].remaining = prompt_tokens[r] + progress[r].decoded
        /\ \A r \in InTrace : progress[r].finished => State(r) = "Unknown"

(* Every committed token of every branch has a block: neither parking and     *)
(* resuming nor a growth that failed for a later branch leaves one without.   *)
CommittedBacked ==
    \A r \in Range(live) : \A k \in DOMAIN progress[r].sequences :
        progress[r].committed <= Capacity(progress[r].sequences[k])

(* "True when every block returned to the pool at the end" (leak_free): a     *)
(* replay that completed has given back every frame, pin and slot.            *)
LeakFree ==
    at.phase = "done" /\ Completed =>
        /\ sequences = {}
        /\ FreeFrames(ref_count) = Frames
        /\ FreeSlots = Slots
        /\ Records(prefix_index) = {}

(* "Nothing changed and nothing can: the trace is permanently stalled"        *)
(* (run_paged): when the driver gives up, no unfinished request has all its   *)
(* blocks and room for its next token.                                        *)
CanStep(r) ==
    LET short == {k \in DOMAIN progress[r].sequences :
                     ~HasBlock(progress[r].sequences[k], progress[r].committed)}
    IN  /\ \A s \in SequencesFor(r) : SwappedOut(s) = {}
        /\ Cardinality(short) <= free_blocks

StallIsReal == at.phase = "done" => \A r \in Range(live) : ~CanStep(r)

(* The loop ends by itself, by completing or by reporting a stall: parking    *)
(* and resuming do not go on for ever.  For requests with one sample and      *)
(* without a shareable prefix, which leave no frame that cannot be evicted.   *)
Plain == \A r \in InTrace : prefix_key[r] = NoKey /\ trace.num_parallel_samples[r] = 1
ReplayEnds == Plain => <>(at.phase = "done")
=============================================================================
