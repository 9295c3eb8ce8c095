--------------------------- MODULE SchedulerProofs ---------------------------
(***************************************************************************)
(* Proofs about Scheduler: that it drives the cache manager only by the    *)
(* manager's own operations, and the invariants of its queues.             *)
(***************************************************************************)
EXTENDS Scheduler, KVCacheManagerProofs

(* Where a candidate is looked at, where one was found to fit the pool, and   *)
(* where its first sequence already exists although it is still pending.      *)
Scanning == {"try", "reclaim", "create", "attach", "reserve"}
Fitting == {"reclaim", "create", "attach", "reserve"}
Entering == {"attach", "reserve"}

(* The scan of the pending queue: the cursor is on a waiting request, it goes *)
(* past the head only while the head may be skipped, and a candidate that     *)
(* fits meets a batch with room.                                              *)
ScanShaped ==
    /\ pc \in Scanning => cursor \in 1 .. Len(pending) /\ (cursor > 1 => ~must_take_head)
    /\ pc \in Fitting => plan.scheduled < max_batch_tokens /\ needed <= total_blocks

QueueInv == SchedulerTypeOK /\ QueuesAgree /\ SkipsBounded /\ ScanShaped

(* A request's sequences exist from the creation of the first one, in         *)
(* try_admit, to its cancellation; while it is being admitted, and still      *)
(* pending, it has its first sequence and no other.                           *)
Waiting(r) == State(r) \in {"Unknown", "Pending"}
Candidate(r) == pc \in Entering /\ r = candidate
SequencesInv ==
    \A r \in Requests :
        /\ Candidate(r) => SequencesFor(r) = {root_sequence_id[r]}
        /\ Waiting(r) /\ ~Candidate(r) => SequencesFor(r) = {}
        /\ ~Waiting(r) => root_sequence_id[r] \in SequencesFor(r)

(* No block of an active request, or of the one being admitted, is swapped    *)
(* out.                                                                       *)
ResidentInv ==
    \A r \in Requests : r \in Range(active) \/ Candidate(r) =>
        \A s \in SequencesFor(r) : SwappedOut(s) = {}

(* A request reserves at most the pool, and nothing before it is admitted;    *)
(* a candidate enters only when its reservation fits beside the others.       *)
ReservedInv ==
    /\ \A r \in Requests : /\ request[r].lifetime <= total_blocks
                           /\ Waiting(r) => request[r].lifetime = 0
    /\ pc \in Entering => lifetime_held + needed <= total_blocks
    /\ AccountingExact

(* While schedule_next runs, the requests it planned are the newest active    *)
(* ones, in the order of the plan.                                            *)
TailPlanned ==
    pc # "idle" =>
        /\ Len(plan.prefill) <= Len(active)
        /\ \A i \in 1 .. Len(plan.prefill) : active[Len(active) - Len(plan.prefill) + i] = plan.prefill[i]

-----------------------------------------------------------------------------
(* Queues: removing and adding a request. *)
LEMMA InRange ==
    ASSUME NEW T, NEW q \in Seq(T)
    PROVE  /\ DOMAIN q = 1 .. Len(q) /\ Len(q) \in Nat
           /\ \A i \in 1 .. Len(q) : q[i] \in T /\ q[i] \in Range(q)
           /\ \A e : e \in Range(q) <=> \E i \in 1 .. Len(q) : q[i] = e
           /\ Range(q) \subseteq T
           /\ IsInjective(q) <=> \A i, j \in 1 .. Len(q) : q[i] = q[j] => i = j
  <1>1. DOMAIN q = 1 .. Len(q) /\ Len(q) \in Nat /\ \A i \in 1 .. Len(q) : q[i] \in T
    BY ElementOfSeq
  <1> QED BY <1>1 DEF Range, IsInjective

(* p is q without its i-th member. *)
Removed(q, i, p) ==
    /\ Len(p) = Len(q) - 1
    /\ \A j \in 1 .. Len(q) - 1 : p[j] = IF j < i THEN q[j] ELSE q[j + 1]

LEMMA RemovedAt ==
    ASSUME NEW T, NEW q \in Seq(T), NEW i \in 1 .. Len(q)
    PROVE  RemoveAt(q, i) \in Seq(T) /\ Removed(q, i, RemoveAt(q, i))
  <1> DEFINE a == SubSeq(q, 1, i - 1)
             b == SubSeq(q, i + 1, Len(q))
             n == Len(q)
  <1>1. n \in Nat /\ i \in Nat /\ 1 <= i /\ i <= n
    BY InRange
  <1>2. a \in Seq(T) /\ Len(a) = i - 1 /\ \A j \in 1 .. i - 1 : a[j] = q[j]
    <2>1. 1 \in 1 .. Len(q) + 1 /\ i - 1 \in 1 - 1 .. Len(q)
      BY <1>1
    <2>2. /\ a \in Seq(T) /\ Len(a) = i - 1 - 1 + 1
          /\ \A j \in 1 .. i - 1 - 1 + 1 : a[j] = q[1 + j - 1]
      BY <2>1, SubSeqProperties
    <2> QED BY <1>1, <2>2
  <1>3. b \in Seq(T) /\ Len(b) = n - i /\ \A j \in 1 .. n - i : b[j] = q[i + j]
    <2>1. i + 1 \in 1 .. Len(q) + 1 /\ n \in (i + 1) - 1 .. Len(q)
      BY <1>1
    <2>2. /\ b \in Seq(T) /\ Len(b) = n - (i + 1) + 1
          /\ \A j \in 1 .. n - (i + 1) + 1 : b[j] = q[(i + 1) + j - 1]
      BY <2>1, SubSeqProperties
    <2> QED BY <1>1, <2>2
  <1>4. RemoveAt(q, i) = a \o b
    BY DEF RemoveAt
  <1> HIDE DEF a, b
  <1>5. /\ a \o b \in Seq(T) /\ Len(a \o b) = Len(a) + Len(b)
        /\ \A j \in 1 .. Len(a) + Len(b) : (a \o b)[j] = IF j <= Len(a) THEN a[j] ELSE b[j - Len(a)]
    BY <1>2, <1>3, ConcatProperties
  <1>6. ASSUME NEW j \in 1 .. n - 1 PROVE (a \o b)[j] = IF j < i THEN q[j] ELSE q[j + 1]
    <2>1. (a \o b)[j] = IF j <= i - 1 THEN a[j] ELSE b[j - (i - 1)]
      BY <1>1, <1>2, <1>3, <1>5
    <2>2. CASE j < i
      BY <1>1, <1>2, <2>1, <2>2
    <2>3. CASE ~(j < i)
      <3>1. j - (i - 1) \in 1 .. n - i /\ i + (j - (i - 1)) = j + 1 /\ ~(j <= i - 1)
        BY <1>1, <2>3
      <3> QED BY <1>3, <2>1, <2>3, <3>1
    <2> QED BY <2>2, <2>3
  <1> QED BY <1>1, <1>2, <1>3, <1>4, <1>5, <1>6 DEF Removed

LEMMA RemovedMembers ==
    ASSUME NEW T, NEW q \in Seq(T), NEW i \in 1 .. Len(q), NEW p \in Seq(T), Removed(q, i, p), IsInjective(q)
    PROVE  Range(p) = Range(q) \ {q[i]} /\ IsInjective(p)
  <1>1. /\ Len(q) \in Nat /\ i \in Nat /\ 1 <= i /\ i <= Len(q) /\ Len(p) = Len(q) - 1
        /\ \A j \in 1 .. Len(p) : p[j] = IF j < i THEN q[j] ELSE q[j + 1]
        /\ \A x, y \in 1 .. Len(q) : q[x] = q[y] => x = y
    BY InRange DEF Removed
  <1>2. \A e : e \in Range(q) <=> \E j \in 1 .. Len(q) : q[j] = e
    BY InRange
  <1>3. \A e : e \in Range(p) <=> \E j \in 1 .. Len(p) : p[j] = e
    BY InRange
  <1>4. ASSUME NEW j \in 1 .. Len(p)
        PROVE  \E k \in 1 .. Len(q) : k # i /\ p[j] = q[k] /\ k = IF j < i THEN j ELSE j + 1
    BY <1>1
  <1>5. ASSUME NEW k \in 1 .. Len(q), k # i PROVE \E j \in 1 .. Len(p) : p[j] = q[k]
    <2>1. CASE k < i
      <3>1. k \in 1 .. Len(p) /\ p[k] = q[k]
        BY <1>1, <2>1
      <3> QED BY <3>1
    <2>2. CASE k > i
      <3>1. k - 1 \in 1 .. Len(p) /\ ~(k - 1 < i) /\ (k - 1) + 1 = k
        BY <1>1, <2>2
      <3>2. p[k - 1] = q[k]
        BY <1>1, <3>1
      <3> QED BY <3>1, <3>2
    <2> QED BY <1>1, <1>5, <2>1, <2>2
  <1>6. \A e : e \in Range(p) <=> e \in Range(q) \ {q[i]}
    <2>1. ASSUME NEW e \in Range(p) PROVE e \in Range(q) \ {q[i]}
      BY <1>1, <1>2, <1>3, <1>4
    <2>2. ASSUME NEW e \in Range(q) \ {q[i]} PROVE e \in Range(p)
      BY <1>2, <1>3, <1>5
    <2> QED BY <2>1, <2>2
  <1>7. ASSUME NEW x \in 1 .. Len(p), NEW y \in 1 .. Len(p), p[x] = p[y] PROVE x = y
    <2>1. PICK k \in 1 .. Len(q) : p[x] = q[k] /\ k = IF x < i THEN x ELSE x + 1
      BY <1>4
    <2>2. PICK m \in 1 .. Len(q) : p[y] = q[m] /\ m = IF y < i THEN y ELSE y + 1
      BY <1>4
    <2>3. k = m
      BY <1>1, <1>7, <2>1, <2>2
    <2> QED BY <1>1, <2>1, <2>2, <2>3
  <1>8. IsInjective(p)
    BY <1>7, InRange
  <1> QED BY <1>6, <1>8

LEMMA RemovedFirst ==
    ASSUME NEW T, NEW q \in Seq(T), NEW e, IsInjective(q)
    PROVE  /\ RemoveFirst(q, e) \in Seq(T)
           /\ Range(RemoveFirst(q, e)) = Range(q) \ {e}
           /\ IsInjective(RemoveFirst(q, e))
           /\ e \notin Range(q) => RemoveFirst(q, e) = q
           /\ \A i \in 1 .. Len(q) : q[i] = e => Removed(q, i, RemoveFirst(q, e))
  <1>1. CASE e \notin Range(q)
    <2>1. RemoveFirst(q, e) = q
      BY <1>1, InRange DEF RemoveFirst
    <2> QED BY <1>1, <2>1, InRange
  <1>2. CASE e \in Range(q)
    <2>1. PICK i \in 1 .. Len(q) : q[i] = e
      BY <1>2, InRange
    <2>2. \A j \in 1 .. Len(q) : q[j] = e => j = i
      BY <2>1, InRange
    <2>3. SelectInSeq(q, LAMBDA v : v = e) = i
      <3>1. {j \in 1 .. Len(q) : q[j] = e} = {i}
        BY <2>1, <2>2
      <3>2. Min({i}) = i
        BY DEF Min
      <3> QED BY <3>1, <3>2 DEF SelectInSeq
    <2>4. RemoveFirst(q, e) = RemoveAt(q, i)
      BY <2>1, <2>3 DEF RemoveFirst
    <2>5. RemoveAt(q, i) \in Seq(T) /\ Removed(q, i, RemoveAt(q, i))
      BY RemovedAt
    <2>6. Range(RemoveAt(q, i)) = Range(q) \ {e} /\ IsInjective(RemoveAt(q, i))
      BY <2>1, <2>5, RemovedMembers
    <2> QED BY <1>2, <2>1, <2>2, <2>4, <2>5, <2>6
  <1> QED BY <1>1, <1>2

LEMMA AppendedQueue ==
    ASSUME NEW T, NEW q \in Seq(T), NEW e \in T
    PROVE  /\ Append(q, e) \in Seq(T) /\ Len(Append(q, e)) = Len(q) + 1
           /\ \A i \in 1 .. Len(q) : Append(q, e)[i] = q[i]
           /\ Append(q, e)[Len(q) + 1] = e
           /\ Range(Append(q, e)) = Range(q) \cup {e}
           /\ IsInjective(q) /\ e \notin Range(q) => IsInjective(Append(q, e))
  <1> DEFINE p == Append(q, e)
  <1>1. /\ p \in Seq(T) /\ Len(p) = Len(q) + 1 /\ Len(q) \in Nat
        /\ \A i \in 1 .. Len(q) : p[i] = q[i]
        /\ p[Len(q) + 1] = e
    BY AppendProperties, InRange
  <1> HIDE DEF p
  <1>2. \A i \in 1 .. Len(p) : i \in 1 .. Len(q) \/ i = Len(q) + 1
    BY <1>1
  <1>3. \A i \in 1 .. Len(q) : i \in 1 .. Len(p)
    BY <1>1
  <1>4. Len(q) + 1 \in 1 .. Len(p)
    BY <1>1
  <1>5. \A x : x \in Range(p) <=> x \in Range(q) \cup {e}
    <2>1. \A x : x \in Range(q) <=> \E j \in 1 .. Len(q) : q[j] = x
      BY InRange
    <2>2. \A x : x \in Range(p) <=> \E j \in 1 .. Len(p) : p[j] = x
      BY <1>1, InRange
    <2> QED BY <1>1, <1>2, <1>3, <1>4, <2>1, <2>2
  <1>6. ASSUME IsInjective(q), e \notin Range(q) PROVE IsInjective(p)
    <2>1. \A i, j \in 1 .. Len(q) : q[i] = q[j] => i = j
      BY <1>6, InRange
    <2>2. \A i \in 1 .. Len(q) : q[i] # e
      BY <1>6, InRange
    <2>3. \A i, j \in 1 .. Len(p) : p[i] = p[j] => i = j
      BY <1>1, <1>2, <2>1, <2>2
    <2> QED BY <1>1, <2>3, InRange
  <1> QED BY <1>1, <1>5, <1>6 DEF p

-----------------------------------------------------------------------------
(* Types. *)
RequestRecord == [state : {"Unknown", "Pending", "Prefill", "Decode", "Preempted"},
                  remaining : Nat, skips : Nat, lifetime : Nat]
Plans == [prefill : Seq(Requests), tokens : Seq(Nat), decode : Seq(Requests), scheduled : Nat]

LEMMA Configured ==
    /\ root_sequence_id \in [Requests -> SeqIds]
    /\ \A r, q \in Requests : root_sequence_id[r] = root_sequence_id[q] => r = q
    /\ prompt_tokens \in [Requests -> Nat] /\ max_decode_tokens \in [Requests -> Nat]
    /\ \A r \in Requests : prompt_tokens[r] + max_decode_tokens[r] <= MaxTokens
    /\ prefix_key \in [Requests -> Keys \cup {NoKey}]
    /\ max_active_requests \in Nat /\ max_batch_tokens \in Nat
    /\ preemption_watermark_blocks \in Nat /\ admission_skip_limit \in Nat
    /\ total_blocks \in Nat /\ NumTables \in Nat /\ TokensPerBlock \in Nat \ {0}
    /\ \A n \in Nat : blocks_for_tokens(n) \in Nat
  <1>1. /\ root_sequence_id \in [Requests -> SeqIds]
        /\ \A r, q \in Requests : root_sequence_id[r] = root_sequence_id[q] => r = q
    BY SchedulerConfig DEF Injection, IsInjective
  <1>2. total_blocks \in Nat
    BY ManagerConfig, FS_CardinalityType DEF total_blocks
  <1>3. NumTables \in Nat /\ TokensPerBlock \in Nat \ {0} /\ \A n \in Nat : blocks_for(n) \in Nat
    BY ConfigFacts
  <1>4. ASSUME NEW n \in Nat PROVE blocks_for_tokens(n) \in Nat
    BY <1>3 DEF blocks_for_tokens
  <1> QED BY <1>1, <1>2, <1>3, <1>4, SchedulerConfig

LEMMA Typed ==
    SchedulerTypeOK <=>
        /\ request \in [Requests -> RequestRecord]
        /\ pending \in Seq(Requests) /\ active \in Seq(Requests) /\ preempted \in Seq(Requests)
        /\ preemption_info \subseteq Requests
        /\ lifetime_held \in Nat
        /\ plan \in Plans
        /\ pc \in {"idle", "admit", "try", "reclaim", "create", "attach", "reserve", "batch"}
        /\ cursor \in Nat
        /\ needed \in Nat
  BY DEF SchedulerTypeOK, RequestRecord, Plans

LEMMA TypedAfter ==
    SchedulerTypeOK' <=>
        /\ request' \in [Requests -> RequestRecord]
        /\ pending' \in Seq(Requests) /\ active' \in Seq(Requests) /\ preempted' \in Seq(Requests)
        /\ preemption_info' \subseteq Requests
        /\ lifetime_held' \in Nat
        /\ plan' \in Plans
        /\ pc' \in {"idle", "admit", "try", "reclaim", "create", "attach", "reserve", "batch"}
        /\ cursor' \in Nat
        /\ needed' \in Nat
  BY DEF SchedulerTypeOK, RequestRecord, Plans

LEMMA PrefixCount ==
    ASSUME Structure, NEW k \in Keys
    PROVE  prefix_token_count(k) \in Nat
  <1>1. CASE \E rec \in prefix_index[k] : prefix_index[k] = {rec}
    <2>1. PICK rec \in prefix_index[k] : rec = CHOOSE x \in prefix_index[k] : TRUE
      BY <1>1
    <2>2. rec \in Record
      BY <2>1 DEF Structure, TypeOK
    <2>3. rec.ids[1] \in Seq(Frames)
      BY <2>2, ConfigFacts DEF Record
    <2>4. Len(rec.ids[1]) \in Nat /\ TokensPerBlock \in Nat
      BY <2>3, Configured, LenProperties
    <2>5. Len(rec.ids[1]) * TokensPerBlock \in Nat
      BY ONLY <2>4
    <2> QED BY <1>1, <2>1, <2>5 DEF prefix_token_count
  <1>2. CASE ~ \E rec \in prefix_index[k] : prefix_index[k] = {rec}
    BY <1>2 DEF prefix_token_count
  <1> QED BY <1>1, <1>2

LEMMA NeedFacts ==
    ASSUME Structure, NEW r \in Requests
    PROVE  lifetime_blocks_for(r) \in Nat
  <1> DEFINE cached == IF prefix_key[r] = NoKey THEN 0 ELSE prefix_token_count(prefix_key[r])
             usable == IF cached <= prompt_tokens[r] THEN cached ELSE 0
  <1>1. cached \in Nat
    BY PrefixCount, Configured
  <1>2. prompt_tokens[r] \in Nat /\ max_decode_tokens[r] \in Nat
    BY Configured
  <1> HIDE DEF cached
  <1>3. prompt_tokens[r] - usable + max_decode_tokens[r] \in Nat
    BY <1>1, <1>2
  <1>4. blocks_for_tokens(prompt_tokens[r] - usable + max_decode_tokens[r]) \in Nat
    BY <1>3, Configured
  <1> QED BY <1>4 DEF lifetime_blocks_for, cached

LEMMA ChunkFacts ==
    ASSUME NEW p \in Plans, NEW r \in Requests, NEW n \in Nat
    PROVE  /\ WithChunk(p, r, n) \in Plans
           /\ n > 0 /\ p.scheduled < max_batch_tokens => WithChunk(p, r, n).prefill = Append(p.prefill, r)
           /\ WithChunk(p, r, n).prefill \in {p.prefill, Append(p.prefill, r)}
  <1> DEFINE room == max_batch_tokens - p.scheduled
             chunk == IF n < room THEN n ELSE room
             q == [p EXCEPT !.prefill = Append(p.prefill, r), !.tokens = Append(p.tokens, chunk),
                            !.scheduled = p.scheduled + chunk]
  <1>1. WithChunk(p, r, n) = IF n = 0 \/ p.scheduled >= max_batch_tokens THEN p ELSE q
    BY DEF WithChunk
  <1>2. /\ p.prefill \in Seq(Requests) /\ p.tokens \in Seq(Nat) /\ p.decode \in Seq(Requests)
        /\ p.scheduled \in Nat /\ max_batch_tokens \in Nat
    BY Configured DEF Plans
  <1>3. CASE n = 0 \/ p.scheduled >= max_batch_tokens
    BY <1>1, <1>2, <1>3
  <1>4. CASE ~(n = 0 \/ p.scheduled >= max_batch_tokens)
    <2>1. chunk \in Nat /\ p.scheduled + chunk \in Nat
      BY <1>2, <1>4
    <2> HIDE DEF chunk
    <2>2. Append(p.prefill, r) \in Seq(Requests) /\ Append(p.tokens, chunk) \in Seq(Nat)
      BY <1>2, <2>1, AppendProperties
    <2>3. q \in Plans /\ q.prefill = Append(p.prefill, r)
      BY <1>2, <2>1, <2>2 DEF Plans
    <2> QED BY <1>1, <1>4, <2>3
  <1> QED BY <1>3, <1>4

(* The recurrence that Chunked solves, for the first m waiting requests. *)
Chunks(p, waiting, m, after) ==
    after = [n \in 0 .. m |->
               IF n = 0 THEN p ELSE WithChunk(after[n - 1], waiting[n], request[waiting[n]].remaining)]

LEMMA ChunksExist ==
    ASSUME NEW p, NEW waiting, NEW m \in Nat
    PROVE  \E after : Chunks(p, waiting, m, after)
  <1> DEFINE T == {n \in Nat : ~ \E after : Chunks(p, waiting, n, after)}
  <1>1. SUFFICES ASSUME T # {} PROVE FALSE
    OBVIOUS
  <1>2. PICK n \in T : \A k \in T : n <= k
    BY <1>1, LeastNumber
  <1>3. CASE n = 0
    <2>1. Chunks(p, waiting, 0, [b \in 0 .. 0 |-> p])
      BY DEF Chunks
    <2> QED BY <1>2, <1>3, <2>1
  <1>4. CASE n # 0
    <2>1. n - 1 \in Nat /\ n - 1 \notin T
      BY <1>2, <1>4
    <2>2. PICK after : Chunks(p, waiting, n - 1, after)
      BY <2>1
    <2> DEFINE last == WithChunk(after[n - 1], waiting[n], request[waiting[n]].remaining)
               next == [b \in 0 .. n |-> IF b = n THEN last ELSE after[b]]
    <2>3. \A b \in 0 .. n - 1 : next[b] = after[b]
      BY <2>1
    <2>4. next[n] = last
      BY <2>1
    <2>5. ASSUME NEW b \in 0 .. n
          PROVE  next[b] = IF b = 0 THEN p
                           ELSE WithChunk(next[b - 1], waiting[b], request[waiting[b]].remaining)
      <3>1. CASE b = n
        BY <1>4, <2>1, <2>3, <2>4, <3>1
      <3>2. CASE b # n
        <4>1. b \in 0 .. n - 1  BY <2>1, <3>2
        <4>2. after[b] = IF b = 0 THEN p
                         ELSE WithChunk(after[b - 1], waiting[b], request[waiting[b]].remaining)
          BY <2>2, <4>1 DEF Chunks
        <4>3. b # 0 => b - 1 \in 0 .. n - 1  BY <2>1, <4>1
        <4> QED BY <2>3, <4>1, <4>2, <4>3
      <3> QED BY <3>1, <3>2
    <2> HIDE DEF last
    <2>6. Chunks(p, waiting, n, next)
      BY <2>5 DEF Chunks
    <2> QED BY <1>2, <2>6
  <1> QED BY <1>3, <1>4

(* Chunked plans the waiting requests one after the other. *)
LEMMA ChunkedSteps ==
    ASSUME NEW p, NEW waiting, Len(waiting) \in Nat
    PROVE  \E after : /\ Chunked(p, waiting) = after[Len(waiting)]
                      /\ after[0] = p
                      /\ \A n \in 1 .. Len(waiting) :
                            after[n] = WithChunk(after[n - 1], waiting[n], request[waiting[n]].remaining)
  <1> DEFINE f == CHOOSE after : Chunks(p, waiting, Len(waiting), after)
  <1>1. Chunked(p, waiting) = f[Len(waiting)]
    BY DEF Chunked, Chunks
  <1>2. Chunks(p, waiting, Len(waiting), f)
    <2>1. \E after : Chunks(p, waiting, Len(waiting), after)  BY ChunksExist
    <2> QED BY <2>1
  <1> HIDE DEF f
  <1>3. f[0] = p
    BY <1>2 DEF Chunks
  <1>4. ASSUME NEW n \in 1 .. Len(waiting)
        PROVE  f[n] = WithChunk(f[n - 1], waiting[n], request[waiting[n]].remaining)
    <2>1. n \in 0 .. Len(waiting) /\ n # 0
      OBVIOUS
    <2> QED BY <1>2, <2>1 DEF Chunks
  <1> QED BY <1>1, <1>3, <1>4

LEMMA ChunkedTyped ==
    ASSUME NEW p \in Plans, NEW waiting \in Seq(Requests), request \in [Requests -> RequestRecord]
    PROVE  Chunked(p, waiting) \in Plans
  <1>1. Len(waiting) \in Nat /\ \A n \in 1 .. Len(waiting) : waiting[n] \in Requests
    BY InRange
  <1>2. PICK after : /\ Chunked(p, waiting) = after[Len(waiting)]
                     /\ after[0] = p
                     /\ \A n \in 1 .. Len(waiting) :
                           after[n] = WithChunk(after[n - 1], waiting[n], request[waiting[n]].remaining)
    BY <1>1, ChunkedSteps
  <1> DEFINE Bad == {n \in 0 .. Len(waiting) : after[n] \notin Plans}
  <1>3. Bad = {}
    <2>1. SUFFICES ASSUME Bad # {} PROVE FALSE
      OBVIOUS
    <2>2. PICK n \in Bad : \A k \in Bad : n <= k
      <3>1. Bad \in SUBSET Nat  OBVIOUS
      <3> HIDE DEF Bad
      <3> QED BY <2>1, <3>1, LeastNumber
    <2>3. n \in 0 .. Len(waiting) /\ after[n] \notin Plans
      OBVIOUS
    <2>4. n # 0
      BY <1>2, <2>3
    <2>5. n \in 1 .. Len(waiting) /\ n - 1 \in 0 .. Len(waiting) /\ ~(n <= n - 1)
      BY <1>1, <2>3, <2>4
    <2>6. after[n - 1] \in Plans
      BY <2>2, <2>5
    <2>7. request[waiting[n]].remaining \in Nat
      BY <1>1, <2>5 DEF RequestRecord
    <2> DEFINE m == request[waiting[n]].remaining
               r == waiting[n]
               before == after[n - 1]
    <2>8. after[n] = WithChunk(before, r, m) /\ r \in Requests /\ m \in Nat /\ before \in Plans
      BY <1>1, <1>2, <2>5, <2>6, <2>7
    <2> HIDE DEF m, r, before
    <2> QED BY <2>3, <2>8, ChunkFacts
  <1>4. Len(waiting) \in 0 .. Len(waiting)
    BY <1>1
  <1> QED BY <1>2, <1>3, <1>4

LEMMA DecodesTyped ==
    ASSUME NEW p \in Plans, active \in Seq(Requests)
    PROVE  WithDecodes(p) \in Plans
  <1> DEFINE decoding == Kept(active, {r \in Requests : State(r) = "Decode"})
             room == IF p.scheduled < max_batch_tokens THEN max_batch_tokens - p.scheduled ELSE 0
             n == IF Len(decoding) < room THEN Len(decoding) ELSE room
  <1>1. decoding \in Seq(Requests) /\ Len(decoding) \in Nat
    BY KeptProperties, LenProperties
  <1>2. p.scheduled \in Nat /\ max_batch_tokens \in Nat
    BY Configured DEF Plans
  <1> HIDE DEF decoding
  <1>3. n \in 0 .. Len(decoding) /\ n \in Nat
    BY <1>1, <1>2
  <1> HIDE DEF n
  <1>4. SubSeq(decoding, 1, n) \in Seq(Requests)
    <2>1. 1 \in 1 .. Len(decoding) + 1 /\ n \in 1 - 1 .. Len(decoding)
      BY <1>1, <1>3
    <2> QED BY <1>1, <2>1, SubSeqProperties
  <1>5. p.scheduled + n \in Nat
    BY <1>2, <1>3
  <1>6. WithDecodes(p) = [p EXCEPT !.decode = SubSeq(decoding, 1, n), !.scheduled = p.scheduled + n]
    BY DEF WithDecodes, decoding, n
  <1> QED BY <1>4, <1>5, <1>6 DEF Plans

LEMMA BatchedTyped ==
    ASSUME SchedulerTypeOK
    PROVE  Batched \in Plans
  <1> DEFINE keep == {r \in Requests : State(r) = "Prefill" /\ r \notin Range(plan.prefill)}
             waiting == Kept(active, keep)
  <1>1. /\ plan \in Plans /\ active \in Seq(Requests) /\ request \in [Requests -> RequestRecord]
    BY Typed
  <1>2. waiting \in Seq(Requests)
    BY <1>1, KeptProperties
  <1>3. Batched = WithDecodes(Chunked(plan, waiting))
    BY DEF Batched
  <1> HIDE DEF waiting
  <1>4. Chunked(plan, waiting) \in Plans
    BY <1>1, <1>2, ChunkedTyped
  <1> QED BY <1>1, <1>3, <1>4, DecodesTyped

-----------------------------------------------------------------------------
(* The queues: a request that moves from one to another.                      *)
Requested == [Requests -> RequestRecord]

Agree(req, pe, ac, pr, info) ==
    /\ \A r \in Requests :
          /\ r \in Range(pe) <=> req[r].state = "Pending"
          /\ r \in Range(ac) <=> req[r].state \in {"Prefill", "Decode"}
          /\ r \in Range(pr) <=> req[r].state = "Preempted"
    /\ IsInjective(pe) /\ IsInjective(ac) /\ IsInjective(pr)
    /\ info = Range(pr)

LEMMA AgreeBridge ==
    /\ QueuesAgree <=> Agree(request, pending, active, preempted, preemption_info)
    /\ QueuesAgree' <=> Agree(request', pending', active', preempted', preemption_info')
  BY DEF QueuesAgree, Agree, State

(* A and B have the same members, r aside. *)
SameBut(A, B, r) == \A q \in Requests : q # r => (q \in A <=> q \in B)

(* Only r changes its state. *)
OneMoves(req, req2, r) == \A q \in Requests : q # r => req2[q].state = req[q].state

(* Only r changes its place, and r's new place is the one its new state names. *)
LEMMA OneMoved ==
    ASSUME NEW req, NEW pe, NEW ac, NEW pr, NEW info,
           NEW req2, NEW pe2, NEW ac2, NEW pr2, NEW info2,
           NEW r \in Requests,
           Agree(req, pe, ac, pr, info), OneMoves(req, req2, r),
           SameBut(Range(pe), Range(pe2), r), SameBut(Range(ac), Range(ac2), r),
           SameBut(Range(pr), Range(pr2), r),
           r \in Range(pe2) <=> req2[r].state = "Pending",
           r \in Range(ac2) <=> req2[r].state \in {"Prefill", "Decode"},
           r \in Range(pr2) <=> req2[r].state = "Preempted",
           IsInjective(pe2), IsInjective(ac2), IsInjective(pr2), info2 = Range(pr2)
    PROVE  Agree(req2, pe2, ac2, pr2, info2)
  <1>1. ASSUME NEW q \in Requests, q # r
        PROVE  /\ q \in Range(pe2) <=> req2[q].state = "Pending"
               /\ q \in Range(ac2) <=> req2[q].state \in {"Prefill", "Decode"}
               /\ q \in Range(pr2) <=> req2[q].state = "Preempted"
    BY <1>1 DEF Agree, OneMoves, SameBut
  <1> QED BY <1>1 DEF Agree

-----------------------------------------------------------------------------
(* The skips of the waiting requests. *)
SkipsIn(pe, req) ==
    /\ \A i \in 1 .. Len(pe) : req[pe[i]].skips <= admission_skip_limit
    /\ \A i, j \in 1 .. Len(pe) : i <= j => req[pe[i]].skips >= req[pe[j]].skips

LEMMA SkipsBridge ==
    ASSUME pending \in Seq(Requests)
    PROVE  SkipsBounded <=> SkipsIn(pending, request)
  BY InRange, ZenonT(60) DEF SkipsBounded, SkipsIn

LEMMA SkipsBridgeAfter ==
    ASSUME pending' \in Seq(Requests)
    PROVE  SkipsBounded' <=> SkipsIn(pending', request')
  BY InRange, ZenonT(60) DEF SkipsBounded, SkipsIn

SameSkips(req, req2, pe) == \A q \in Range(pe) : req2[q].skips = req[q].skips

LEMMA SkipsSame ==
    ASSUME NEW pe \in Seq(Requests), NEW req, NEW req2, SkipsIn(pe, req), SameSkips(req, req2, pe)
    PROVE  SkipsIn(pe, req2)
  <1>1. \A i \in 1 .. Len(pe) : req2[pe[i]].skips = req[pe[i]].skips
    BY InRange DEF SameSkips
  <1> QED BY <1>1 DEF SkipsIn

LEMMA SkipsRemoved ==
    ASSUME NEW pe \in Seq(Requests), NEW p \in Seq(Requests), NEW i \in 1 .. Len(pe),
           NEW req \in Requested, Removed(pe, i, p), SkipsIn(pe, req)
    PROVE  SkipsIn(p, req)
  <1>1. Len(pe) \in Nat /\ Len(p) = Len(pe) - 1 /\ i \in Nat /\ 1 <= i /\ i <= Len(pe)
    BY InRange DEF Removed
  <1>2. \A j \in 1 .. Len(p) : p[j] = IF j < i THEN pe[j] ELSE pe[j + 1]
    BY <1>1 DEF Removed
  <1> DEFINE old(j) == IF j < i THEN j ELSE j + 1
  <1>3. /\ \A j \in 1 .. Len(p) : old(j) \in 1 .. Len(pe) /\ p[j] = pe[old(j)]
        /\ \A j, k \in 1 .. Len(p) : j <= k => old(j) <= old(k)
    BY <1>1, <1>2
  <1> HIDE DEF old
  <1> QED BY <1>3 DEF SkipsIn

LEMMA SkipsAppended ==
    ASSUME NEW pe \in Seq(Requests), NEW req \in Requested, NEW r \in Requests, req[r].skips = 0,
           SkipsIn(pe, req)
    PROVE  SkipsIn(Append(pe, r), req)
  <1> DEFINE p == Append(pe, r)
  <1>1. /\ Len(p) = Len(pe) + 1 /\ Len(pe) \in Nat
        /\ \A i \in 1 .. Len(pe) : p[i] = pe[i]
        /\ p[Len(pe) + 1] = r
    BY AppendedQueue, InRange
  <1> HIDE DEF p
  <1>2. \A i \in 1 .. Len(p) : i \in 1 .. Len(pe) \/ i = Len(pe) + 1
    BY <1>1
  <1>3. \A i \in 1 .. Len(pe) : pe[i] \in Requests /\ req[pe[i]].skips \in Nat
    BY InRange DEF Requested, RequestRecord
  <1>4. admission_skip_limit \in Nat
    BY Configured
  <1>5. ASSUME NEW i \in 1 .. Len(p) PROVE req[p[i]].skips <= admission_skip_limit
    BY <1>1, <1>2, <1>4 DEF SkipsIn
  <1>6. ASSUME NEW i \in 1 .. Len(p), NEW j \in 1 .. Len(p), i <= j
        PROVE  req[p[i]].skips >= req[p[j]].skips
    <2>1. CASE j = Len(pe) + 1
      BY <1>1, <1>2, <1>3, <2>1
    <2>2. CASE j \in 1 .. Len(pe)
      <3>1. i \in 1 .. Len(pe)  BY <1>1, <1>2, <1>6, <2>2
      <3> QED BY <1>1, <1>6, <2>2, <3>1 DEF SkipsIn
    <2> QED BY <1>2, <2>1, <2>2
  <1> QED BY <1>5, <1>6 DEF SkipsIn, p

(* Admission from position i: the ones before it are skipped once more. *)
Skipped(req, req2, pe, i) ==
    \A j \in 1 .. Len(pe) :
        req2[pe[j]].skips = IF j < i THEN req[pe[j]].skips + 1 ELSE req[pe[j]].skips

LEMMA SkipsAdmitted ==
    ASSUME NEW pe \in Seq(Requests), NEW p \in Seq(Requests), NEW i \in 1 .. Len(pe),
           NEW req \in Requested, NEW req2 \in Requested, Removed(pe, i, p), SkipsIn(pe, req),
           Skipped(req, req2, pe, i),
           i > 1 => req[pe[1]].skips < admission_skip_limit
    PROVE  SkipsIn(p, req2)
  <1>1. /\ Len(pe) \in Nat /\ i \in Nat /\ 1 <= i /\ i <= Len(pe) /\ admission_skip_limit \in Nat
        /\ \A j \in 1 .. Len(pe) : req[pe[j]].skips \in Nat
    <2>1. Len(pe) \in Nat /\ i \in Nat /\ 1 <= i /\ i <= Len(pe) /\ admission_skip_limit \in Nat
      BY InRange, Configured
    <2>2. \A j \in 1 .. Len(pe) : pe[j] \in Requests
      BY InRange
    <2> QED BY <2>1, <2>2 DEF Requested, RequestRecord
  <1> DEFINE sk(j) == req[pe[j]].skips
             sk2(j) == req2[pe[j]].skips
  <1>2. /\ \A j \in 1 .. Len(pe) : sk(j) \in Nat /\ sk(j) <= admission_skip_limit
        /\ \A j \in 1 .. Len(pe) : sk2(j) = IF j < i THEN sk(j) + 1 ELSE sk(j)
        /\ \A j, k \in 1 .. Len(pe) : j <= k => sk(j) >= sk(k)
        /\ i > 1 => sk(1) < admission_skip_limit
    BY <1>1 DEF SkipsIn, Skipped
  <1> HIDE DEF sk, sk2
  <1>3. ASSUME NEW j \in 1 .. Len(pe) PROVE sk2(j) <= admission_skip_limit
    <2>1. 1 \in 1 .. Len(pe) /\ 1 <= j  BY <1>1
    <2>2. sk(j) <= sk(1) /\ sk(1) \in Nat  BY <1>2, <2>1
    <2> QED BY <1>1, <1>2, <2>1, <2>2, SMTT(40)
  <1>4. ASSUME NEW j \in 1 .. Len(pe), NEW k \in 1 .. Len(pe), j <= k PROVE sk2(j) >= sk2(k)
    BY <1>1, <1>2, <1>4
  <1>5. SkipsIn(pe, req2)
    BY <1>3, <1>4 DEF SkipsIn, sk2
  <1> QED BY <1>5, SkipsRemoved

-----------------------------------------------------------------------------
(* One lemma per step that changes a queue. *)

(* Nothing is asked of the scan between two calls. *)
LEMMA IdleScan ==
    ASSUME pc' = "idle"
    PROVE  ScanShaped'
  BY DEF ScanShaped, Scanning, Fitting

LEMMA EnqueueQueues ==
    ASSUME QueueInv, NEW r \in Requests, enqueue(r)
    PROVE  QueueInv'
  <1> DEFINE rec == [state |-> "Pending", remaining |-> prompt_tokens[r], skips |-> 0, lifetime |-> 0]
  <1>1. /\ request \in Requested /\ pending \in Seq(Requests) /\ State(r) = "Unknown"
        /\ request' = [request EXCEPT ![r] = rec] /\ pending' = Append(pending, r)
        /\ UNCHANGED <<active, preempted, preemption_info, lifetime_held, callVars>> /\ pc = "idle"
    BY Typed DEF QueueInv, enqueue, Requested
  <1>2. rec \in RequestRecord /\ rec.state = "Pending" /\ rec.skips = 0
    BY Configured DEF RequestRecord
  <1> HIDE DEF rec
  <1>3. /\ request' \in Requested
        /\ request'[r] = rec /\ \A q \in Requests : q # r => request'[q] = request[q]
    BY <1>1, <1>2 DEF Requested
  <1>4. Agree(request, pending, active, preempted, preemption_info)
    BY AgreeBridge DEF QueueInv
  <1>5. r \notin Range(pending) /\ r \notin Range(active) /\ r \notin Range(preempted) /\ IsInjective(pending)
    BY <1>1, <1>4 DEF Agree, State
  <1>6. /\ pending' \in Seq(Requests) /\ Range(pending') = Range(pending) \cup {r} /\ IsInjective(pending')
    BY <1>1, <1>5, AppendedQueue
  <1>7. Agree(request', pending', active', preempted', preemption_info')
    <2>1. OneMoves(request, request', r)
      BY <1>3 DEF OneMoves
    <2>2. /\ SameBut(Range(pending), Range(pending'), r)
          /\ SameBut(Range(active), Range(active'), r)
          /\ SameBut(Range(preempted), Range(preempted'), r)
      BY <1>1, <1>6 DEF SameBut
    <2>3. /\ IsInjective(active') /\ IsInjective(preempted') /\ preemption_info' = Range(preempted')
          /\ r \in Range(pending') /\ r \notin Range(active') /\ r \notin Range(preempted')
      BY <1>1, <1>4, <1>5, <1>6 DEF Agree
    <2>4. request'[r].state = "Pending"
      BY <1>2, <1>3
    <2> QED BY <1>4, <1>6, <2>1, <2>2, <2>3, <2>4, OneMoved
  <1>8. SkipsIn(pending', request')
    <2>1. SkipsIn(pending, request)
      BY <1>1, SkipsBridge DEF QueueInv
    <2>2. SameSkips(request, request', pending)
      BY <1>1, <1>3, <1>5, InRange DEF SameSkips
    <2>3. SkipsIn(pending, request')
      BY <1>1, <2>1, <2>2, SkipsSame
    <2>4. request'[r].skips = 0
      BY <1>2, <1>3
    <2> QED BY <1>1, <1>3, <2>3, <2>4, SkipsAppended
  <1>9. SchedulerTypeOK'
    BY <1>1, <1>3, <1>6, Typed, TypedAfter DEF QueueInv, callVars, Requested
  <1>10. ScanShaped'
    BY <1>1, IdleScan DEF callVars
  <1> QED BY <1>6, <1>7, <1>8, <1>9, <1>10, AgreeBridge, SkipsBridgeAfter DEF QueueInv

LEMMA CompleteQueues ==
    ASSUME QueueInv, NEW r \in Requests, NEW n \in Nat, complete_step(r, n)
    PROVE  QueueInv'
  <1>1. /\ request \in Requested /\ State(r) = "Prefill" /\ pending \in Seq(Requests)
        /\ UNCHANGED <<pending, active, preempted, preemption_info, lifetime_held, callVars>> /\ pc = "idle"
    BY Typed DEF QueueInv, complete_step, Requested
  <1> DEFINE left == RemainingAfter(r, n)
             state == IF n >= request[r].remaining THEN "Decode" ELSE "Prefill"
  <1>2. request[r] \in RequestRecord /\ request[r].remaining \in Nat
    BY <1>1 DEF Requested, RequestRecord
  <1>3. left \in Nat
    BY <1>2 DEF RemainingAfter
  <1>4. request' = [request EXCEPT ![r].remaining = left, ![r].state = state]
    BY <1>1 DEF complete_step, State
  <1>5. state \in {"Prefill", "Decode"}
    OBVIOUS
  <1> HIDE DEF left, state
  <1>6. /\ request' \in Requested
        /\ request'[r].state = state /\ request'[r].skips = request[r].skips
        /\ \A q \in Requests : q # r => request'[q] = request[q]
    BY <1>1, <1>2, <1>3, <1>4, <1>5 DEF Requested, RequestRecord
  <1>7. Agree(request, pending, active, preempted, preemption_info)
    BY AgreeBridge DEF QueueInv
  <1>8. Agree(request', pending', active', preempted', preemption_info')
    <2>1. OneMoves(request, request', r)
      BY <1>6 DEF OneMoves
    <2>2. /\ SameBut(Range(pending), Range(pending'), r)
          /\ SameBut(Range(active), Range(active'), r)
          /\ SameBut(Range(preempted), Range(preempted'), r)
      BY <1>1 DEF SameBut
    <2>3. /\ IsInjective(pending') /\ IsInjective(active') /\ IsInjective(preempted')
          /\ preemption_info' = Range(preempted')
          /\ r \notin Range(pending') /\ r \in Range(active') /\ r \notin Range(preempted')
      BY <1>1, <1>7 DEF Agree, State
    <2> QED BY <1>5, <1>6, <1>7, <2>1, <2>2, <2>3, OneMoved
  <1>9. SkipsIn(pending', request')
    <2>1. SkipsIn(pending, request)
      BY <1>1, SkipsBridge DEF QueueInv
    <2>2. SameSkips(request, request', pending)
      BY <1>1, <1>6, InRange DEF SameSkips
    <2> QED BY <1>1, <2>1, <2>2, SkipsSame
  <1>10. SchedulerTypeOK'
    BY <1>1, <1>6, Typed, TypedAfter DEF QueueInv, callVars, Requested
  <1>11. ScanShaped'
    BY <1>1, IdleScan DEF callVars
  <1> QED BY <1>1, <1>8, <1>9, <1>10, <1>11, AgreeBridge, SkipsBridgeAfter DEF QueueInv

LEMMA HeldTyped ==
    ASSUME SchedulerTypeOK, NEW r \in Requests
    PROVE  HeldWithout(r) \in Nat
  <1>1. lifetime_held \in Nat /\ request[r].lifetime \in Nat
    BY Typed DEF RequestRecord
  <1> QED BY <1>1 DEF HeldWithout

LEMMA SkipsWithout ==
    ASSUME NEW pe \in Seq(Requests), NEW req \in Requested, NEW r, IsInjective(pe), SkipsIn(pe, req)
    PROVE  SkipsIn(RemoveFirst(pe, r), req)
  <1>1. CASE r \notin Range(pe)
    BY <1>1, RemovedFirst
  <1>2. CASE r \in Range(pe)
    <2>1. PICK i \in 1 .. Len(pe) : pe[i] = r
      BY <1>2, InRange
    <2>2. RemoveFirst(pe, r) \in Seq(Requests) /\ Removed(pe, i, RemoveFirst(pe, r))
      BY <2>1, RemovedFirst
    <2> QED BY <2>2, SkipsRemoved
  <1> QED BY <1>1, <1>2

LEMMA CancelQueues ==
    ASSUME QueueInv, NEW r \in Requests, cancel(r)
    PROVE  QueueInv'
  <1>1. /\ request \in Requested /\ pending \in Seq(Requests) /\ active \in Seq(Requests)
        /\ preempted \in Seq(Requests) /\ preemption_info \subseteq Requests
        /\ lifetime_held' = HeldWithout(r)
        /\ pending' = RemoveFirst(pending, r) /\ active' = RemoveFirst(active, r)
        /\ preempted' = RemoveFirst(preempted, r) /\ preemption_info' = preemption_info \ {r}
        /\ request' = [request EXCEPT ![r] = NoRequestState]
        /\ UNCHANGED callVars /\ pc = "idle"
    BY Typed DEF QueueInv, cancel, Requested, InfoWithout
  <1>2. NoRequestState \in RequestRecord /\ NoRequestState.state = "Unknown"
    BY DEF RequestRecord, NoRequestState
  <1>3. /\ request' \in Requested
        /\ request'[r] = NoRequestState /\ \A q \in Requests : q # r => request'[q] = request[q]
    BY <1>1, <1>2 DEF Requested
  <1>4. Agree(request, pending, active, preempted, preemption_info)
    BY AgreeBridge DEF QueueInv
  <1>5. /\ pending' \in Seq(Requests) /\ Range(pending') = Range(pending) \ {r} /\ IsInjective(pending')
        /\ active' \in Seq(Requests) /\ Range(active') = Range(active) \ {r} /\ IsInjective(active')
        /\ preempted' \in Seq(Requests) /\ Range(preempted') = Range(preempted) \ {r} /\ IsInjective(preempted')
    BY <1>1, <1>4, RemovedFirst, ZenonT(60) DEF Agree
  <1>6. Agree(request', pending', active', preempted', preemption_info')
    <2>1. OneMoves(request, request', r)
      BY <1>3 DEF OneMoves
    <2>2. /\ SameBut(Range(pending), Range(pending'), r)
          /\ SameBut(Range(active), Range(active'), r)
          /\ SameBut(Range(preempted), Range(preempted'), r)
      BY <1>5 DEF SameBut
    <2>3. /\ preemption_info' = Range(preempted')
          /\ r \notin Range(pending') /\ r \notin Range(active') /\ r \notin Range(preempted')
      BY <1>1, <1>4, <1>5 DEF Agree
    <2>4. request'[r].state = "Unknown"
      BY <1>2, <1>3
    <2> QED BY <1>4, <1>5, <2>1, <2>2, <2>3, <2>4, OneMoved
  <1>7. SkipsIn(pending', request')
    <2>1. SkipsIn(pending, request)
      BY <1>1, SkipsBridge DEF QueueInv
    <2>2. SkipsIn(pending', request)
      BY <1>1, <1>4, <2>1, SkipsWithout DEF Agree
    <2>3. SameSkips(request, request', pending')
      BY <1>1, <1>3, <1>5, InRange DEF SameSkips
    <2> QED BY <1>5, <2>2, <2>3, SkipsSame
  <1>8. lifetime_held' \in Nat
    BY <1>1, HeldTyped DEF QueueInv
  <1>9. SchedulerTypeOK'
    <2>1. preemption_info' \subseteq Requests  BY <1>1
    <2> QED BY <1>1, <1>3, <1>5, <1>8, <2>1, Typed, TypedAfter DEF QueueInv, callVars, Requested
  <1>10. ScanShaped'
    BY <1>1, IdleScan DEF callVars
  <1> QED BY <1>5, <1>6, <1>7, <1>9, <1>10, AgreeBridge, SkipsBridgeAfter DEF QueueInv

(* preempt() and one round of reclaim_for_admission(). *)
LEMMA ParkQueues ==
    ASSUME QueueInv, NEW r \in Requests, r \in Range(active), Park(r)
    PROVE  /\ request' \in Requested /\ active' \in Seq(Requests) /\ preempted' \in Seq(Requests)
           /\ preemption_info' \subseteq Requests /\ lifetime_held' \in Nat /\ pending' = pending
           /\ QueuesAgree' /\ SkipsBounded'
           /\ \A q \in Requests : request'[q] = IF q = r THEN [request[r] EXCEPT !.state = "Preempted"]
                                                ELSE request[q]
           /\ \A q \in Requests : request'[q].skips = request[q].skips
  <1>1. /\ request \in Requested /\ pending \in Seq(Requests) /\ active \in Seq(Requests)
        /\ preempted \in Seq(Requests) /\ preemption_info \subseteq Requests
        /\ lifetime_held' = HeldWithout(r) /\ pending' = pending
        /\ active' = RemoveFirst(active, r) /\ preempted' = Append(preempted, r)
        /\ preemption_info' = preemption_info \cup {r}
        /\ request' = [request EXCEPT ![r].state = "Preempted"]
    BY Typed DEF QueueInv, Park, Requested
  <1>2. /\ request' \in Requested /\ request'[r].state = "Preempted"
        /\ \A q \in Requests : q # r => request'[q] = request[q]
        /\ \A q \in Requests : request'[q].skips = request[q].skips
        /\ \A q \in Requests : request'[q] = IF q = r THEN [request[r] EXCEPT !.state = "Preempted"]
                                             ELSE request[q]
    BY <1>1 DEF Requested, RequestRecord
  <1>3. Agree(request, pending, active, preempted, preemption_info)
    BY AgreeBridge DEF QueueInv
  <1>4. r \notin Range(pending) /\ r \notin Range(preempted)
    BY <1>3 DEF Agree
  <1>5. /\ active' \in Seq(Requests) /\ Range(active') = Range(active) \ {r} /\ IsInjective(active')
        /\ preempted' \in Seq(Requests) /\ Range(preempted') = Range(preempted) \cup {r} /\ IsInjective(preempted')
    BY <1>1, <1>3, <1>4, RemovedFirst, AppendedQueue DEF Agree
  <1>6. Agree(request', pending', active', preempted', preemption_info')
    <2>1. OneMoves(request, request', r)
      BY <1>2 DEF OneMoves
    <2>2. /\ SameBut(Range(pending), Range(pending'), r)
          /\ SameBut(Range(active), Range(active'), r)
          /\ SameBut(Range(preempted), Range(preempted'), r)
      BY <1>1, <1>5 DEF SameBut
    <2>3. /\ preemption_info' = Range(preempted') /\ IsInjective(pending')
          /\ r \notin Range(pending') /\ r \notin Range(active') /\ r \in Range(preempted')
      BY <1>1, <1>3, <1>4, <1>5 DEF Agree
    <2> QED BY <1>2, <1>3, <1>5, <2>1, <2>2, <2>3, OneMoved
  <1>7. SkipsIn(pending', request')
    <2>1. SkipsIn(pending, request)
      BY <1>1, SkipsBridge DEF QueueInv
    <2>2. SameSkips(request, request', pending)
      BY <1>1, <1>2, InRange DEF SameSkips
    <2> QED BY <1>1, <2>1, <2>2, SkipsSame
  <1>8. lifetime_held' \in Nat /\ preemption_info' \subseteq Requests
    BY <1>1, HeldTyped DEF QueueInv
  <1> QED BY <1>1, <1>2, <1>5, <1>6, <1>7, <1>8, AgreeBridge, SkipsBridgeAfter

LEMMA PreemptQueues ==
    ASSUME QueueInv, pc = "idle", NEW r \in Requests, r \in Range(active), Park(r), UNCHANGED callVars
    PROVE  QueueInv'
  <1>1. r \in Range(active) /\ Park(r) /\ UNCHANGED callVars /\ pc = "idle"
    OBVIOUS
  <1>2. ScanShaped'
    BY <1>1, IdleScan DEF callVars
  <1>3. SchedulerTypeOK'
    <2>1. /\ request' \in Requested /\ active' \in Seq(Requests) /\ preempted' \in Seq(Requests)
          /\ preemption_info' \subseteq Requests /\ lifetime_held' \in Nat /\ pending' = pending
      BY <1>1, ParkQueues
    <2> QED BY <1>1, <2>1, Typed, TypedAfter DEF QueueInv, callVars, Requested
  <1> QED BY <1>1, <1>2, <1>3, ParkQueues DEF QueueInv

LEMMA ResumeQueues ==
    ASSUME QueueInv, NEW r \in Requests, resume(r)
    PROVE  QueueInv'
  <1> DEFINE state == IF request[r].remaining > 0 THEN "Prefill" ELSE "Decode"
  <1>1. /\ request \in Requested /\ pending \in Seq(Requests) /\ active \in Seq(Requests)
        /\ preempted \in Seq(Requests) /\ preemption_info \subseteq Requests /\ lifetime_held \in Nat
        /\ lifetime_held' = lifetime_held + request[r].lifetime /\ pending' = pending
        /\ preempted' = RemoveFirst(preempted, r) /\ active' = Append(active, r)
        /\ preemption_info' = preemption_info \ {r} /\ r \in Range(preempted)
        /\ request' = [request EXCEPT ![r].state = state]
        /\ UNCHANGED callVars /\ pc = "idle"
    BY Typed DEF QueueInv, resume, Requested, InfoWithout
  <1>2. state \in {"Prefill", "Decode"}
    OBVIOUS
  <1> HIDE DEF state
  <1>3. /\ request' \in Requested /\ request'[r].state = state
        /\ \A q \in Requests : q # r => request'[q] = request[q]
        /\ \A q \in Requests : request'[q].skips = request[q].skips
        /\ request[r].lifetime \in Nat
    BY <1>1, <1>2 DEF Requested, RequestRecord
  <1>4. Agree(request, pending, active, preempted, preemption_info)
    BY AgreeBridge DEF QueueInv
  <1>5. r \notin Range(pending) /\ r \notin Range(active)
    BY <1>1, <1>4 DEF Agree
  <1>6. /\ preempted' \in Seq(Requests) /\ Range(preempted') = Range(preempted) \ {r} /\ IsInjective(preempted')
        /\ active' \in Seq(Requests) /\ Range(active') = Range(active) \cup {r} /\ IsInjective(active')
    BY <1>1, <1>4, <1>5, RemovedFirst, AppendedQueue DEF Agree
  <1>7. Agree(request', pending', active', preempted', preemption_info')
    <2>1. OneMoves(request, request', r)
      BY <1>3 DEF OneMoves
    <2>2. /\ SameBut(Range(pending), Range(pending'), r)
          /\ SameBut(Range(active), Range(active'), r)
          /\ SameBut(Range(preempted), Range(preempted'), r)
      BY <1>1, <1>6 DEF SameBut
    <2>3. /\ preemption_info' = Range(preempted') /\ IsInjective(pending')
          /\ r \notin Range(pending') /\ r \in Range(active') /\ r \notin Range(preempted')
      BY <1>1, <1>4, <1>5, <1>6 DEF Agree
    <2> QED BY <1>2, <1>3, <1>4, <1>6, <2>1, <2>2, <2>3, OneMoved
  <1>8. SkipsIn(pending', request')
    <2>1. SkipsIn(pending, request)
      BY <1>1, SkipsBridge DEF QueueInv
    <2>2. SameSkips(request, request', pending)
      BY <1>1, <1>3, InRange DEF SameSkips
    <2> QED BY <1>1, <2>1, <2>2, SkipsSame
  <1>9. lifetime_held' \in Nat
    BY <1>1, <1>3
  <1>10. SchedulerTypeOK'
    <2>1. preemption_info' \subseteq Requests  BY <1>1
    <2> QED BY <1>1, <1>3, <1>6, <1>9, <2>1, Typed, TypedAfter DEF QueueInv, callVars, Requested
  <1>11. ScanShaped'
    BY <1>1, IdleScan DEF callVars
  <1> QED BY <1>1, <1>7, <1>8, <1>10, <1>11, AgreeBridge, SkipsBridgeAfter DEF QueueInv

LEMMA Scanned ==
    ASSUME QueueInv, pc \in Scanning
    PROVE  /\ cursor \in 1 .. Len(pending) /\ Len(pending) \in Nat
           /\ candidate \in Requests /\ candidate \in Range(pending)
           /\ State(candidate) = "Pending"
  <1>1. cursor \in 1 .. Len(pending) /\ pending \in Seq(Requests)
    BY Typed DEF QueueInv, ScanShaped
  <1>2. candidate \in Requests /\ candidate \in Range(pending) /\ Len(pending) \in Nat
    BY <1>1, InRange DEF candidate
  <1> QED BY <1>1, <1>2 DEF QueueInv, QueuesAgree

LEMMA AdmittedQueues ==
    ASSUME QueueInv, pc \in Fitting, Admitted
    PROVE  /\ QueueInv'
           /\ active' = Append(active, candidate)
           /\ Range(pending') = Range(pending) \ {candidate}
           /\ request'[candidate] \in RequestRecord
           /\ request'[candidate].state = "Prefill" /\ request'[candidate].lifetime = needed
           /\ \A q \in Requests : q # candidate =>
                /\ request'[q].state = request[q].state
                /\ request'[q].lifetime = request[q].lifetime
           /\ prompt_tokens[candidate] > 0 => plan'.prefill = Append(plan.prefill, candidate)
           /\ lifetime_held' = lifetime_held + needed /\ pc' = "admit"
  <1> DEFINE r == candidate
             left == IF request[r].remaining = 0 THEN prompt_tokens[r] ELSE request[r].remaining
             rec == [request[r] EXCEPT !.lifetime = needed, !.state = "Prefill", !.remaining = left]
             passed(q) == \E i \in 1 .. cursor - 1 : pending[i] = q
  <1>1. pc \in Scanning
    BY DEF Fitting, Scanning
  <1>2. /\ cursor \in 1 .. Len(pending) /\ Len(pending) \in Nat
        /\ r \in Requests /\ r \in Range(pending) /\ r = pending[cursor]
    BY <1>1, Scanned DEF candidate
  <1>3. /\ request \in Requested /\ pending \in Seq(Requests) /\ active \in Seq(Requests)
        /\ plan \in Plans /\ lifetime_held \in Nat /\ needed \in Nat /\ cursor \in Nat
    BY Typed DEF QueueInv, Requested
  <1>4. /\ request' = [q \in Requests |->
              IF q = r THEN rec ELSE IF passed(q) THEN [request[q] EXCEPT !.skips = @ + 1] ELSE request[q]]
        /\ lifetime_held' = lifetime_held + needed
        /\ plan' = WithChunk(plan, r, left)
        /\ pending' = RemoveAt(pending, cursor)
        /\ active' = Append(active, r)
        /\ pc' = "admit"
        /\ UNCHANGED <<preempted, preemption_info, cursor, needed>>
    BY DEF Admitted
  <1> HIDE DEF r
  <1>5. /\ request[r] \in RequestRecord
        /\ left \in Nat
        /\ prompt_tokens[r] > 0 => left > 0
    <2>1. request[r] \in RequestRecord /\ prompt_tokens[r] \in Nat
      BY <1>2, <1>3, Configured DEF Requested
    <2>2. request[r].remaining \in Nat
      BY <2>1 DEF RequestRecord
    <2> QED BY <2>1, <2>2
  <1> HIDE DEF left
  <1>6. /\ rec \in RequestRecord /\ rec.state = "Prefill" /\ rec.lifetime = needed
        /\ rec.skips = request[r].skips
    BY <1>3, <1>5 DEF RequestRecord
  <1> HIDE DEF rec, passed
  <1>7. ASSUME NEW q \in Requests, q # r
        PROVE  /\ request'[q] \in RequestRecord
               /\ request'[q].state = request[q].state
               /\ request'[q].lifetime = request[q].lifetime
               /\ request'[q].skips = IF passed(q) THEN request[q].skips + 1 ELSE request[q].skips
    <2>1. request[q] \in RequestRecord
      BY <1>3 DEF Requested
    <2>2. request'[q] = IF passed(q) THEN [request[q] EXCEPT !.skips = @ + 1] ELSE request[q]
      BY <1>4, <1>7
    <2> QED BY <2>1, <2>2 DEF RequestRecord
  <1>8. request'[r] = rec
    BY <1>2, <1>4
  <1>9. request' \in Requested
    <2>1. DOMAIN request' = Requests /\ request' = [q \in Requests |-> request'[q]]
      BY <1>4
    <2>2. \A q \in Requests : request'[q] \in RequestRecord
      BY <1>6, <1>7, <1>8
    <2> QED BY <2>1, <2>2 DEF Requested
  <1>10. Agree(request, pending, active, preempted, preemption_info)
    BY AgreeBridge DEF QueueInv
  <1>11. r \notin Range(active) /\ r \notin Range(preempted)
    BY <1>2, <1>10 DEF Agree
  <1>12. pending' \in Seq(Requests) /\ Removed(pending, cursor, pending')
    BY <1>2, <1>3, <1>4, RemovedAt
  <1>13. Range(pending') = Range(pending) \ {r} /\ IsInjective(pending')
    <2>1. IsInjective(pending)  BY <1>10 DEF Agree
    <2> QED BY <1>2, <1>3, <1>12, <2>1, RemovedMembers
  <1>14. active' \in Seq(Requests) /\ Range(active') = Range(active) \cup {r} /\ IsInjective(active')
    BY <1>2, <1>3, <1>4, <1>10, <1>11, AppendedQueue DEF Agree
  <1>15. Agree(request', pending', active', preempted', preemption_info')
    <2>1. OneMoves(request, request', r)
      BY <1>7 DEF OneMoves
    <2>2. /\ SameBut(Range(pending), Range(pending'), r)
          /\ SameBut(Range(active), Range(active'), r)
          /\ SameBut(Range(preempted), Range(preempted'), r)
      BY <1>4, <1>13, <1>14 DEF SameBut
    <2>3. /\ preemption_info' = Range(preempted') /\ IsInjective(preempted')
          /\ r \notin Range(pending') /\ r \in Range(active') /\ r \notin Range(preempted')
      BY <1>4, <1>10, <1>11, <1>13, <1>14 DEF Agree
    <2>4. request'[r].state = "Prefill"
      BY <1>6, <1>8
    <2> QED BY <1>2, <1>10, <1>13, <1>14, <2>1, <2>2, <2>3, <2>4, OneMoved
  <1>16. SkipsIn(pending', request')
    <2>1. SkipsIn(pending, request)
      BY <1>3, SkipsBridge DEF QueueInv
    <2>2. \A i, j \in 1 .. Len(pending) : pending[i] = pending[j] => i = j
      BY <1>3, <1>10, InRange DEF Agree
    <2>3. Skipped(request, request', pending, cursor)
      <3>1. ASSUME NEW j \in 1 .. Len(pending)
            PROVE  request'[pending[j]].skips = IF j < cursor THEN request[pending[j]].skips + 1
                                                ELSE request[pending[j]].skips
        <4>1. pending[j] \in Requests
          BY <1>3, InRange
        <4>2. CASE j = cursor
          BY <1>2, <1>3, <1>6, <1>8, <4>2
        <4>3. CASE j # cursor
          <5>1. pending[j] # r
            BY <1>2, <2>2, <4>3
          <5>2. passed(pending[j]) <=> j < cursor
            <6>1. ASSUME passed(pending[j]) PROVE j < cursor
              <7>1. PICK i \in 1 .. cursor - 1 : pending[i] = pending[j]
                BY <6>1 DEF passed
              <7>2. i \in 1 .. Len(pending) /\ i < cursor
                BY <1>2, <1>3
              <7> QED BY <2>2, <7>1, <7>2
            <6>2. ASSUME j < cursor PROVE passed(pending[j])
              <7>1. j \in 1 .. cursor - 1
                BY <1>2, <1>3, <6>2
              <7> QED BY <7>1 DEF passed
            <6> QED BY <6>1, <6>2
          <5> QED BY <1>7, <4>1, <5>1, <5>2
        <4> QED BY <4>2, <4>3
      <3> QED BY <3>1 DEF Skipped
    <2>4. cursor > 1 => request[pending[1]].skips < admission_skip_limit
      <3>1. request[pending[1]].skips \in Nat /\ admission_skip_limit \in Nat
        <4>1. 1 \in 1 .. Len(pending)  BY <1>2
        <4>2. pending[1] \in Requests  BY <1>3, <4>1, InRange
        <4> QED BY <1>3, <4>2, Configured DEF Requested, RequestRecord
      <3>2. cursor > 1 => ~must_take_head
        BY <1>1 DEF QueueInv, ScanShaped
      <3> QED BY <3>1, <3>2 DEF must_take_head
    <2> QED BY <1>2, <1>3, <1>9, <1>12, <2>1, <2>3, <2>4, SkipsAdmitted
  <1>17. plan' \in Plans
    BY <1>2, <1>3, <1>4, <1>5, ChunkFacts
  <1>18. prompt_tokens[r] > 0 => plan'.prefill = Append(plan.prefill, r)
    <2>1. plan.scheduled < max_batch_tokens
      BY DEF QueueInv, ScanShaped
    <2> QED BY <1>2, <1>3, <1>4, <1>5, <2>1, ChunkFacts
  <1>19. SchedulerTypeOK'
    <2>1. lifetime_held' \in Nat /\ cursor' \in Nat /\ needed' \in Nat
      BY <1>3, <1>4
    <2> QED BY <1>4, <1>9, <1>12, <1>14, <1>17, <2>1, Typed, TypedAfter DEF QueueInv, Requested
  <1>20. ScanShaped'
    BY <1>4 DEF ScanShaped, Scanning, Fitting
  <1>21. QueueInv'
    BY <1>12, <1>15, <1>16, <1>19, <1>20, AgreeBridge, SkipsBridgeAfter DEF QueueInv
  <1> QED BY <1>4, <1>6, <1>7, <1>8, <1>13, <1>18, <1>21 DEF r

-----------------------------------------------------------------------------
(* The other steps of schedule_next leave the queues alone. *)
LEMMA QuietQueues ==
    ASSUME QueueInv, UNCHANGED queueVars, plan' \in Plans, cursor' \in Nat, needed' \in Nat,
           pc' \in {"idle", "admit", "try", "reclaim", "create", "attach", "reserve", "batch"}, ScanShaped'
    PROVE  QueueInv'
  <1>1. SchedulerTypeOK'
    BY Typed, TypedAfter DEF QueueInv, queueVars
  <1>2. QueuesAgree'
    BY AgreeBridge DEF QueueInv, queueVars
  <1>3. SkipsBounded'
    BY Typed, SkipsBridge, SkipsBridgeAfter DEF QueueInv, queueVars
  <1> QED BY <1>1, <1>2, <1>3 DEF QueueInv

(* What the scan relies on is not changed by a step that leaves the waiting   *)
(* requests, their skips, the plan and the candidate alone.                   *)
LEMMA ScanKept ==
    ASSUME QueueInv, pending' = pending, plan' = plan, cursor' = cursor, needed' = needed,
           \A q \in Requests : request'[q].skips = request[q].skips,
           pc \in Fitting, pc' \in Fitting
    PROVE  ScanShaped'
  <1>1. pc \in Scanning
    BY DEF Fitting, Scanning
  <1>2. cursor \in 1 .. Len(pending) /\ (cursor > 1 => ~must_take_head)
    BY <1>1 DEF QueueInv, ScanShaped
  <1>3. pending[1] \in Requests
    <2>1. 1 \in 1 .. Len(pending) /\ pending \in Seq(Requests)
      BY <1>1, Scanned, Typed DEF QueueInv
    <2> QED BY <2>1, InRange
  <1>4. must_take_head' <=> must_take_head
    BY <1>3 DEF must_take_head
  <1> QED BY <1>2, <1>4 DEF QueueInv, ScanShaped

(* try_admit() returned false. *)
LEMMA RefusedQueues ==
    ASSUME QueueInv, pc \in Scanning, Refused
    PROVE  QueueInv'
  <1>1. UNCHANGED queueVars /\ plan' = plan /\ needed' = needed
    BY DEF Refused
  <1>2. /\ plan \in Plans /\ needed \in Nat /\ cursor \in Nat
        /\ cursor \in 1 .. Len(pending) /\ Len(pending) \in Nat
    BY Typed, Scanned DEF QueueInv
  <1>3. must_take_head' <=> must_take_head
    BY <1>1 DEF must_take_head, queueVars
  <1>4. CASE must_take_head \/ cursor = Len(pending)
    <2>1. pc' = "batch" /\ cursor' = cursor
      BY <1>4 DEF Refused
    <2>2. ScanShaped'
      BY <2>1 DEF ScanShaped, Scanning, Fitting
    <2> QED BY <1>1, <1>2, <2>1, <2>2, QuietQueues
  <1>5. CASE ~(must_take_head \/ cursor = Len(pending))
    <2>1. pc' = "try" /\ cursor' = cursor + 1
      BY <1>5 DEF Refused
    <2>2. cursor' \in 1 .. Len(pending') /\ cursor' \in Nat
      BY <1>1, <1>2, <1>5, <2>1 DEF queueVars
    <2>3. ScanShaped'
      BY <1>3, <1>5, <2>1, <2>2 DEF ScanShaped, Scanning, Fitting
    <2> QED BY <1>1, <1>2, <2>1, <2>2, <2>3, QuietQueues
  <1> QED BY <1>4, <1>5

LEMMA VictimActive ==
    ASSUME QueueInv, UnderPressure
    PROVE  /\ Len(active) - Len(plan.prefill) \in 1 .. Len(active)
           /\ victim \in Requests /\ victim \in Range(active)
  <1>1. active \in Seq(Requests) /\ plan.prefill \in Seq(Requests)
    BY Typed DEF QueueInv, Plans
  <1>2. Len(active) \in Nat /\ Len(plan.prefill) \in Nat /\ Len(active) > Len(plan.prefill)
    BY <1>1, InRange DEF UnderPressure
  <1>3. Len(active) - Len(plan.prefill) \in 1 .. Len(active)
    BY <1>2
  <1> QED BY <1>1, <1>3, InRange DEF victim

LEMMA ScheduleQueues ==
    ASSUME Structure, QueueInv, ScheduleStep
    PROVE  QueueInv'
  <1>1. /\ plan \in Plans /\ needed \in Nat /\ cursor \in Nat /\ pending \in Seq(Requests)
        /\ request \in Requested
    BY Typed DEF QueueInv, Requested
  <1>2. CASE schedule_next
    <2>1. NoPlan \in Plans
      BY DEF NoPlan, Plans
    <2>2. ScanShaped'
      BY <1>2 DEF schedule_next, ScanShaped, Scanning, Fitting
    <2> QED BY <1>1, <1>2, <2>1, <2>2, QuietQueues DEF schedule_next
  <1>3. CASE AdmitMore
    <2>1. UNCHANGED queueVars /\ plan' = plan /\ needed' = needed
      BY <1>3 DEF AdmitMore
    <2>2. CASE pending # <<>> /\ cursor' = 1 /\ pc' = "try"
      <3>1. cursor' \in 1 .. Len(pending')
        <4>1. Len(pending) \in Nat /\ Len(pending) # 0
          BY <1>1, <2>2, EmptySeq
        <4> QED BY <2>1, <2>2, <4>1 DEF queueVars
      <3>2. ScanShaped'
        BY <2>2, <3>1 DEF ScanShaped, Scanning, Fitting
      <3> QED BY <1>1, <2>1, <2>2, <3>2, QuietQueues
    <2>3. CASE pc' = "batch" /\ cursor' = cursor
      <3>1. ScanShaped'
        BY <2>3 DEF ScanShaped, Scanning, Fitting
      <3> QED BY <1>1, <2>1, <2>3, <3>1, QuietQueues
    <2> QED BY <1>3, <2>2, <2>3 DEF AdmitMore
  <1>4. CASE try_admit
    <2>1. pc \in Scanning
      BY <1>4 DEF try_admit, Scanning
    <2>2. CASE Refused
      BY <2>1, <2>2, RefusedQueues
    <2>3. CASE /\ plan.scheduled < max_batch_tokens
               /\ lifetime_blocks_for(candidate) <= total_blocks
               /\ needed' = lifetime_blocks_for(candidate)
               /\ pc' = "reclaim"
               /\ UNCHANGED <<queueVars, plan, cursor>>
      <3>1. needed' \in Nat
        BY <2>1, <2>3, Scanned, NeedFacts
      <3>2. must_take_head' <=> must_take_head
        BY <2>3 DEF must_take_head, queueVars
      <3>3. cursor \in 1 .. Len(pending) /\ (cursor > 1 => ~must_take_head)
        BY <2>1 DEF QueueInv, ScanShaped
      <3>4. ScanShaped'
        BY <2>3, <3>2, <3>3 DEF ScanShaped, queueVars, total_blocks
      <3> QED BY <1>1, <2>3, <3>1, <3>4, QuietQueues
    <2> QED BY <1>4, <2>2, <2>3 DEF try_admit
  <1>5. CASE reclaim_for_admission
    <2>1. pc = "reclaim" /\ plan' = plan /\ cursor' = cursor /\ needed' = needed
      BY <1>5 DEF reclaim_for_admission
    <2>2. pc \in Fitting
      BY <2>1 DEF Fitting
    <2>3. CASE UnderPressure /\ Park(victim) /\ pc' \in {"create", "reclaim"}
      <3> DEFINE v == victim
      <3>1. v \in Requests /\ v \in Range(active) /\ Park(v)
        BY <2>3, VictimActive
      <3> HIDE DEF v
      <3>2. /\ request' \in Requested /\ active' \in Seq(Requests) /\ preempted' \in Seq(Requests)
            /\ preemption_info' \subseteq Requests /\ lifetime_held' \in Nat /\ pending' = pending
            /\ QueuesAgree' /\ SkipsBounded'
            /\ \A q \in Requests : request'[q].skips = request[q].skips
        BY <3>1, ParkQueues
      <3>3. ScanShaped'
        BY <2>1, <2>2, <2>3, <3>2, ScanKept DEF Fitting
      <3>4. SchedulerTypeOK'
        BY <1>1, <2>1, <2>3, <3>2, TypedAfter DEF Requested
      <3> QED BY <3>2, <3>3, <3>4 DEF QueueInv
    <2>4. CASE pc' = "create" /\ UNCHANGED <<cacheVars, queueVars>>
      <3>1. UNCHANGED queueVars /\ pending' = pending /\ request' = request
        BY <2>4 DEF queueVars
      <3>2. ScanShaped'
        BY <2>1, <2>2, <2>4, <3>1, ScanKept DEF Fitting
      <3> QED BY <1>1, <2>1, <2>4, <3>1, <3>2, QuietQueues
    <2> QED BY <1>5, <2>3, <2>4 DEF reclaim_for_admission
  <1>6. CASE create
    <2>1. pc \in Scanning /\ pc \in Fitting
      BY <1>6 DEF create, Scanning, Fitting
    <2>2. CASE Refused
      BY <2>1, <2>2, RefusedQueues
    <2>3. CASE pc' = "attach" /\ UNCHANGED <<queueVars, plan, cursor, needed>>
      <3>1. UNCHANGED queueVars /\ pending' = pending /\ request' = request
        BY <2>3 DEF queueVars
      <3>2. ScanShaped'
        BY <2>1, <2>3, <3>1, ScanKept DEF Fitting
      <3> QED BY <1>1, <2>3, <3>1, <3>2, QuietQueues
    <2> QED BY <1>6, <2>2, <2>3 DEF create
  <1>7. CASE attach
    <2>1. pc \in Fitting /\ pc' = "reserve" /\ UNCHANGED <<queueVars, plan, cursor, needed>>
      BY <1>7 DEF attach, Fitting
    <2>2. UNCHANGED queueVars /\ pending' = pending /\ request' = request
      BY <2>1 DEF queueVars
    <2>3. ScanShaped'
      BY <2>1, <2>2, ScanKept DEF Fitting
    <2> QED BY <1>1, <2>1, <2>2, <2>3, QuietQueues
  <1>8. CASE reserve
    <2>1. pc \in Scanning /\ pc \in Fitting
      BY <1>8 DEF reserve, Scanning, Fitting
    <2>2. Admitted \/ Refused
      BY <1>8 DEF reserve
    <2> QED BY <2>1, <2>2, AdmittedQueues, RefusedQueues
  <1>9. CASE batch
    <2>1. /\ UNCHANGED queueVars /\ plan' = Batched /\ pc' = "idle" /\ cursor' = 0 /\ needed' = 0
      BY <1>9 DEF batch
    <2>2. plan' \in Plans
      BY <2>1, BatchedTyped DEF QueueInv
    <2> QED BY <2>1, <2>2, IdleScan, QuietQueues
  <1> QED BY <1>2, <1>3, <1>4, <1>5, <1>6, <1>7, <1>8, <1>9 DEF ScheduleStep

(* The queues are kept in order by every step. *)
LEMMA NextQueues ==
    ASSUME Structure, QueueInv, [SchedulerNext]_vars
    PROVE  QueueInv'
  <1>1. CASE UNCHANGED <<queueVars, callVars>>
    <2>1. UNCHANGED <<request, pending, active, preempted, preemption_info, lifetime_held, plan, pc, cursor, needed>>
      BY <1>1 DEF queueVars, callVars
    <2>2. SchedulerTypeOK'
      BY <2>1, Typed, TypedAfter DEF QueueInv
    <2>3. QueuesAgree'
      BY <2>1, AgreeBridge DEF QueueInv
    <2>4. SkipsBounded'
      BY <2>1, Typed, SkipsBridge, SkipsBridgeAfter DEF QueueInv
    <2>5. ScanShaped'
      BY <2>1 DEF QueueInv, ScanShaped, must_take_head, total_blocks
    <2> QED BY <2>2, <2>3, <2>4, <2>5 DEF QueueInv
  <1>2. CASE ScheduleStep
    BY <1>2, ScheduleQueues
  <1>3. ASSUME NEW r \in Requests, enqueue(r) \/ cancel(r) \/ preempt(r) \/ resume(r)
        PROVE  QueueInv'
    <2>1. preempt(r) => pc = "idle" /\ r \in Range(active) /\ Park(r) /\ UNCHANGED callVars
      BY DEF preempt
    <2> QED BY <1>3, <2>1, EnqueueQueues, CancelQueues, PreemptQueues, ResumeQueues
  <1>4. ASSUME NEW r \in Requests, NEW n \in 0 .. prompt_tokens[r], complete_step(r, n)
        PROVE  QueueInv'
    <2>1. n \in Nat
      BY Configured
    <2> QED BY <1>4, <2>1, CompleteQueues
  <1>5. ASSUME NEW r \in Requests, publish(r) \/ \E s \in SequencesFor(r) : grow(r, s)
        PROVE  QueueInv'
    <2>1. UNCHANGED <<queueVars, callVars>>
      BY <1>5 DEF publish, grow
    <2> QED BY <1>1, <2>1
  <1>6. CASE UNCHANGED vars
    BY <1>1, <1>6 DEF vars
  <1> QED BY <1>2, <1>3, <1>4, <1>5, <1>6 DEF SchedulerNext

-----------------------------------------------------------------------------
(* Every step of the scheduler is a call of the cache manager, or none. *)
LEMMA ScheduleCalls ==
    ASSUME Structure, QueueInv, ScheduleStep
    PROVE  [Next]_cacheVars
  <1>1. CASE schedule_next \/ AdmitMore \/ try_admit \/ batch
    BY <1>1 DEF schedule_next, AdmitMore, try_admit, batch
  <1>2. CASE reclaim_for_admission
    <2>1. CASE UnderPressure /\ Park(victim)
      <3>1. victim \in Requests /\ swap_out_request(victim)
        BY <2>1, VictimActive DEF Park
      <3> QED BY <3>1 DEF Next
    <2>2. CASE UNCHANGED cacheVars
      BY <2>2
    <2> QED BY <1>2, <2>1, <2>2 DEF reclaim_for_admission
  <1>3. CASE create
    <2>1. pc \in Scanning
      BY <1>3 DEF create, Scanning
    <2>2. candidate \in Requests /\ root_sequence_id[candidate] \in SeqIds
      BY <2>1, Scanned, Configured
    <2>3. create_sequence(root_sequence_id[candidate], candidate) => Next
      BY <2>2 DEF Next
    <2> QED BY <1>3, <2>3 DEF create
  <1>4. CASE attach
    <2>1. pc \in Scanning
      BY <1>4 DEF attach, Scanning
    <2>2. candidate \in Requests /\ root_sequence_id[candidate] \in SeqIds
      BY <2>1, Scanned, Configured
    <2> DEFINE k == prefix_key[candidate]
    <2>3. CASE k # NoKey /\ attach_prefix(root_sequence_id[candidate], k)
      <3>1. k \in Keys
        BY <2>2, <2>3, Configured
      <3> QED BY <2>2, <2>3, <3>1 DEF Next
    <2> QED BY <1>4, <2>3 DEF attach
  <1>5. CASE reserve
    <2>1. pc \in Scanning
      BY <1>5 DEF reserve, Scanning
    <2> DEFINE s == root_sequence_id[candidate]
               cap == Capacity(s)
               still_need == IF prompt_tokens[candidate] > cap THEN prompt_tokens[candidate] - cap ELSE 0
    <2>2. candidate \in Requests /\ s \in SeqIds
      BY <2>1, Scanned, Configured
    <2>3. \/ still_need > 0 /\ reserve_tokens(s, still_need)
          \/ UNCHANGED cacheVars
          \/ release_request(candidate)
      BY <1>5 DEF reserve, RollBack
    <2>4. still_need > 0 => still_need \in 1 .. MaxTokens
      <3>1. Len(tables[s][1]) \in Nat /\ TokensPerBlock \in Nat
        BY <2>2, ConfigFacts, Configured, LenProperties DEF Structure, TypeOK
      <3>2. cap \in Nat
        <4>1. Len(tables[s][1]) * TokensPerBlock \in Nat
          BY ONLY <3>1
        <4> QED BY <4>1 DEF Capacity
      <3>3. /\ prompt_tokens[candidate] \in Nat /\ max_decode_tokens[candidate] \in Nat /\ MaxTokens \in Nat
            /\ prompt_tokens[candidate] + max_decode_tokens[candidate] <= MaxTokens
        BY <2>2, Configured, ConfigFacts
      <3> HIDE DEF cap
      <3> QED BY <3>2, <3>3
    <2> HIDE DEF s, still_need
    <2> QED BY <2>2, <2>3, <2>4 DEF Next
  <1> QED BY <1>1, <1>2, <1>3, <1>4, <1>5 DEF ScheduleStep

LEMMA NextCalls ==
    ASSUME Structure, QueueInv, [SchedulerNext]_vars
    PROVE  [Next]_cacheVars
  <1>1. CASE ScheduleStep
    BY <1>1, ScheduleCalls
  <1>2. ASSUME NEW r \in Requests, enqueue(r) \/ \E n \in 0 .. prompt_tokens[r] : complete_step(r, n)
        PROVE  UNCHANGED cacheVars
    BY <1>2 DEF enqueue, complete_step
  <1>3. ASSUME NEW r \in Requests, cancel(r) \/ preempt(r) \/ resume(r)
        PROVE  Next
    <2>1. release_request(r) \/ swap_out_request(r) \/ swap_in_request(r)
      BY <1>3 DEF cancel, preempt, Park, resume, SwapBack
    <2> QED BY <2>1 DEF Next
  <1>4. ASSUME NEW r \in Requests, publish(r)
        PROVE  Next
    <2> DEFINE s == root_sequence_id[r]
               k == prefix_key[r]
    <2>1. s \in SeqIds /\ k \in Keys /\ publish_prefix(s, k)
      BY <1>4, Configured DEF publish
    <2> HIDE DEF s, k
    <2> QED BY <2>1 DEF Next
  <1>5. ASSUME NEW r \in Requests, NEW s \in SequencesFor(r), grow(r, s)
        PROVE  Next
    <2>1. s \in SeqIds /\ reserve_tokens(s, 1) /\ Capacity(s) < prompt_tokens[r] + max_decode_tokens[r]
      BY <1>5, ListedSequences DEF grow, Structure, TypeOK
    <2>2. Capacity(s) \in Nat
      <3>1. Len(tables[s][1]) \in Nat /\ TokensPerBlock \in Nat
        BY <2>1, ConfigFacts, Configured, LenProperties DEF Structure, TypeOK
      <3>2. Len(tables[s][1]) * TokensPerBlock \in Nat
        BY ONLY <3>1
      <3> QED BY <3>2 DEF Capacity
    <2>3. 1 \in 1 .. MaxTokens
      BY <2>1, <2>2, Configured, ConfigFacts
    <2> QED BY <2>1, <2>3 DEF Next
  <1>6. CASE UNCHANGED vars
    BY <1>6 DEF vars
  <1> QED BY <1>1, <1>2, <1>3, <1>4, <1>5, <1>6 DEF SchedulerNext

-----------------------------------------------------------------------------
(* The invariant of the cache and of the queues together. *)
CoreInv == Structure /\ RefCountsExact /\ QueueInv

LEMMA InitQueues ==
    ASSUME SchedulerInit
    PROVE  QueueInv
  <1>1. /\ request = [r \in Requests |-> NoRequestState]
        /\ pending = <<>> /\ active = <<>> /\ preempted = <<>> /\ preemption_info = {}
        /\ lifetime_held = 0 /\ plan = NoPlan /\ pc = "idle" /\ cursor = 0 /\ needed = 0
    BY DEF SchedulerInit
  <1>2. SchedulerTypeOK
    <2>1. NoRequestState \in RequestRecord /\ NoPlan \in Plans
      BY DEF NoRequestState, RequestRecord, NoPlan, Plans
    <2>2. <<>> \in Seq(Requests)
      OBVIOUS
    <2> QED BY <1>1, <2>1, <2>2, Typed
  <1>3. QueuesAgree
    <2>1. Range(<<>>) = {} /\ IsInjective(<<>>)
      BY DEF Range, IsInjective
    <2>2. \A r \in Requests : request[r].state = "Unknown"
      BY <1>1 DEF NoRequestState
    <2> QED BY <1>1, <2>1, <2>2 DEF QueuesAgree, State
  <1>4. SkipsBounded
    BY <1>1 DEF SkipsBounded
  <1>5. ScanShaped
    BY <1>1 DEF ScanShaped, Scanning, Fitting
  <1> QED BY <1>2, <1>3, <1>4, <1>5 DEF QueueInv

LEMMA NextCore ==
    ASSUME CoreInv, [SchedulerNext]_vars
    PROVE  CoreInv' /\ [Next]_cacheVars
  <1>1. QueueInv'
    BY NextQueues DEF CoreInv
  <1>2. [Next]_cacheVars
    BY NextCalls DEF CoreInv
  <1>3. Structure' /\ RefCountsExact'
    BY <1>2, NextKeeps DEF CoreInv
  <1> QED BY <1>1, <1>2, <1>3 DEF CoreInv

(* Whatever the engine does, the queues, the scan of the pending queue and    *)
(* the cache below stay well formed.                                          *)
THEOREM SchedulerInvariant ==
    SchedulerSpec => []CoreInv
  <1>1. SchedulerInit => CoreInv
    <2>1. SchedulerInit => Init
      BY DEF SchedulerInit
    <2> QED BY <2>1, InitQueues, InitStructure DEF CoreInv
  <1>2. CoreInv /\ [SchedulerNext]_vars => CoreInv'
    BY NextCore
  <1> QED BY <1>1, <1>2, PTL DEF SchedulerSpec

(* The scheduler changes the cache by the cache manager's own operations      *)
(* only, one per step, each under the operation's preconditions: what is      *)
(* proved of the manager alone holds of the manager under the scheduler.      *)
THEOREM DrivesCache ==
    SchedulerSpec => Spec
  <1>1. SchedulerInit => Init
    BY DEF SchedulerInit
  <1>2. CoreInv /\ [SchedulerNext]_vars => [Next]_cacheVars
    BY NextCore
  <1> QED BY <1>1, <1>2, SchedulerInvariant, PTL DEF SchedulerSpec, Spec

(* The fields of every request, the queues, the plan under construction and   *)
(* the reservation counter keep their types; the counter is never negative.   *)
THEOREM SchedulerTypeCorrect ==
    SchedulerSpec => []SchedulerTypeOK
  <1>1. CoreInv => SchedulerTypeOK
    BY DEF CoreInv, QueueInv
  <1> QED BY <1>1, SchedulerInvariant, PTL

(* Every request is in the one queue its state names, once, and has a         *)
(* PreemptionInfo exactly while it is preempted, through every interleaving   *)
(* of enqueue, cancel, preempt and resume with the steps of schedule_next.    *)
THEOREM QueuesConsistent ==
    SchedulerSpec => []QueuesAgree
  <1>1. CoreInv => QueuesAgree
    BY DEF CoreInv, QueueInv
  <1> QED BY <1>1, SchedulerInvariant, PTL

(* No waiting request is passed over more than admission_skip_limit times,    *)
(* although every admission from behind it skips it once more and             *)
(* cancellations move the queue up: the scan passes the head only while its   *)
(* skips are below the limit, and nobody behind has been skipped more often.  *)
THEOREM SkippingBounded ==
    SchedulerSpec => []SkipsBounded
  <1>1. CoreInv => SkipsBounded
    BY DEF CoreInv, QueueInv
  <1> QED BY <1>1, SchedulerInvariant, PTL

-----------------------------------------------------------------------------
(* The sequences of the requests. *)
LEMMA ListsApart ==
    ASSUME Structure, NEW r \in Requests, NEW q \in Requests, r # q
    PROVE  SequencesFor(r) \cap SequencesFor(q) = {}
  BY DEF Structure, RequestsListed

LEMMA ListsSame ==
    ASSUME sequences_by_request' = sequences_by_request, NEW r
    PROVE  SequencesFor(r)' = SequencesFor(r)
  BY DEF SequencesFor

LEMMA ListsIndex ==
    ASSUME Structure, NEW s \in SeqIds, NEW r \in Requests, Index(s, r), NEW q \in Requests
    PROVE  SequencesFor(q)' = IF q = r THEN SequencesFor(r) \cup {s} ELSE SequencesFor(q)
  <1>1. sequences_by_request' = [sequences_by_request EXCEPT ![r] = Append(sequences_by_request[r], s)]
    BY DEF Index
  <1>2. sequences_by_request \in [Requests -> Seq(SeqIds)]
    BY DEF Structure, TypeOK
  <1>3. Range(Append(sequences_by_request[r], s)) = Range(sequences_by_request[r]) \cup {s}
    BY <1>2, AppendedQueue
  <1>4. CASE q = r
    <2>1. sequences_by_request'[q] = Append(sequences_by_request[r], s)
      BY <1>1, <1>2, <1>4
    <2> QED BY <1>3, <1>4, <2>1 DEF SequencesFor
  <1>5. CASE q # r
    <2>1. sequences_by_request'[q] = sequences_by_request[q]
      BY <1>1, <1>2, <1>5
    <2> QED BY <1>5, <2>1 DEF SequencesFor
  <1> QED BY <1>4, <1>5

LEMMA ListsRelease ==
    ASSUME Structure, NEW r \in Requests, release_request(r), NEW q \in Requests
    PROVE  SequencesFor(q)' = IF q = r THEN {} ELSE SequencesFor(q)
  <1> DEFINE S == SequencesFor(r)
             list == sequences_by_request[q]
  <1>1. sequences_by_request' = Unindexed(S)
    BY DEF release_request, release
  <1>2. list \in Seq(SeqIds)
    BY DEF Structure, TypeOK
  <1>3. sequences_by_request'[q] = Kept(list, SeqIds \ S)
    BY <1>1 DEF Unindexed
  <1>4. Range(Kept(list, SeqIds \ S)) = Range(list) \cap (SeqIds \ S)
    BY <1>2, KeptProperties
  <1>5. SequencesFor(q)' = SequencesFor(q) \ S
    <2>1. Range(list) \subseteq SeqIds
      BY <1>2, InRange
    <2>2. Range(list) \cap (SeqIds \ S) = Range(list) \ S
      BY <2>1
    <2> QED BY <1>3, <1>4, <2>2 DEF SequencesFor
  <1>6. q # r => SequencesFor(q) \cap S = {}
    BY ListsApart
  <1> QED BY <1>5, <1>6

(* A step that changes no list, and neither who waits nor who is entering. *)
Unmoved(r) == (Waiting(r)' <=> Waiting(r)) /\ (Candidate(r)' <=> Candidate(r))

LEMMA SequencesQuiet ==
    ASSUME SequencesInv, sequences_by_request' = sequences_by_request,
           \A r \in Requests : Unmoved(r)
    PROVE  SequencesInv'
  <1>1. ASSUME NEW r \in Requests
        PROVE  /\ Candidate(r)' => SequencesFor(r)' = {root_sequence_id[r]}
               /\ Waiting(r)' /\ ~Candidate(r)' => SequencesFor(r)' = {}
               /\ ~Waiting(r)' => root_sequence_id[r] \in SequencesFor(r)'
    <2>1. SequencesFor(r)' = SequencesFor(r)
      BY ListsSame
    <2> QED BY <2>1 DEF SequencesInv, Unmoved
  <1> QED BY <1>1 DEF SequencesInv

(* Nobody is entering before and after the step. *)
LEMMA NobodyEnters ==
    ASSUME pc \notin Entering, pc' \notin Entering, NEW r, Waiting(r)' <=> Waiting(r)
    PROVE  Unmoved(r)
  BY DEF Unmoved, Candidate

LEMMA SameRequests ==
    ASSUME request' = request, NEW r
    PROVE  Waiting(r)' <=> Waiting(r)
  BY DEF Waiting, State

LEMMA SchedulePlaces ==
    /\ schedule_next => pc \notin Entering /\ pc' \notin Entering /\ request' = request
    /\ AdmitMore => pc \notin Entering /\ pc' \notin Entering /\ request' = request
    /\ try_admit => pc \notin Entering /\ pc' \notin Entering /\ request' = request
    /\ reclaim_for_admission => pc \notin Entering /\ pc' \notin Entering
    /\ batch => pc \notin Entering /\ pc' \notin Entering /\ request' = request
    /\ Refused => pc' \notin Entering /\ request' = request
    /\ attach => pc \in Entering /\ pc' \in Entering /\ request' = request
  BY DEF schedule_next, AdmitMore, try_admit, reclaim_for_admission, batch, Refused, attach, Entering,
         queueVars

LEMMA ParkWaits ==
    ASSUME QueueInv, NEW v \in Requests, v \in Range(active), Park(v), NEW r \in Requests
    PROVE  (Waiting(r)' <=> Waiting(r)) /\ sequences_by_request' = sequences_by_request
  <1>1. State(v) \in {"Prefill", "Decode"}
    BY DEF QueueInv, QueuesAgree
  <1>2. request[v] \in RequestRecord
    BY Typed DEF QueueInv
  <1>3. request'[r] = IF r = v THEN [request[v] EXCEPT !.state = "Preempted"] ELSE request[r]
    BY ParkQueues
  <1>4. State(r)' = IF r = v THEN "Preempted" ELSE State(r)
    BY <1>2, <1>3 DEF State, RequestRecord
  <1>5. sequences_by_request' = sequences_by_request
    BY DEF Park, swap_out_request, swap_out
  <1> QED BY <1>1, <1>4, <1>5 DEF Waiting

LEMMA ScheduleSequences ==
    ASSUME CoreInv, SequencesInv, ScheduleStep
    PROVE  SequencesInv'
  <1> USE DEF CoreInv
  <1>1. CASE schedule_next \/ AdmitMore \/ try_admit \/ batch
    <2>1. sequences_by_request' = sequences_by_request
      BY <1>1 DEF schedule_next, AdmitMore, try_admit, batch, cacheVars
    <2>2. pc \notin Entering /\ pc' \notin Entering /\ request' = request
      BY <1>1, SchedulePlaces
    <2>3. \A r \in Requests : Unmoved(r)
      BY <2>2, SameRequests, NobodyEnters
    <2> QED BY <2>1, <2>3, SequencesQuiet
  <1>2. CASE reclaim_for_admission
    <2>1. pc \notin Entering /\ pc' \notin Entering
      BY <1>2, SchedulePlaces
    <2>2. CASE UnderPressure /\ Park(victim)
      <3> DEFINE v == victim
      <3>1. v \in Requests /\ v \in Range(active) /\ Park(v)
        BY <2>2, VictimActive
      <3> HIDE DEF v
      <3>2. \A r \in Requests : (Waiting(r)' <=> Waiting(r)) /\ sequences_by_request' = sequences_by_request
        BY <3>1, ParkWaits
      <3>3. \A r \in Requests : Unmoved(r)
        BY <2>1, <3>2, NobodyEnters
      <3> QED BY <3>1, <3>2, <3>3, SequencesQuiet
    <2>3. CASE UNCHANGED <<cacheVars, queueVars>>
      <3>1. sequences_by_request' = sequences_by_request /\ request' = request
        BY <2>3 DEF cacheVars, queueVars
      <3>2. \A r \in Requests : Unmoved(r)
        BY <2>1, <3>1, SameRequests, NobodyEnters
      <3> QED BY <3>1, <3>2, SequencesQuiet
    <2> QED BY <1>2, <2>2, <2>3 DEF reclaim_for_admission
  <1>3. CASE create
    <2>1. pc \notin Entering /\ pc \in Scanning
      BY <1>3 DEF create, Entering, Scanning
    <2>2. CASE Refused /\ UNCHANGED cacheVars
      <3>1. sequences_by_request' = sequences_by_request /\ request' = request /\ pc' \notin Entering
        BY <2>2, SchedulePlaces DEF cacheVars
      <3>2. \A r \in Requests : Unmoved(r)
        BY <2>1, <3>1, SameRequests, NobodyEnters
      <3> QED BY <3>1, <3>2, SequencesQuiet
    <2>3. CASE /\ create_sequence(root_sequence_id[candidate], candidate)
               /\ pc' = "attach" /\ UNCHANGED <<queueVars, plan, cursor, needed>>
      <3> DEFINE c == candidate
      <3>1. c \in Requests /\ State(c) = "Pending" /\ root_sequence_id[c] \in SeqIds
        BY <2>1, Scanned, Configured
      <3>2. \A q : Candidate(q)' <=> q = c
        BY <2>3 DEF Candidate, candidate, queueVars, Entering
      <3>3. create_sequence(root_sequence_id[c], c) /\ request' = request
        BY <2>3 DEF queueVars
      <3> HIDE DEF c
      <3>4. \A q \in Requests : SequencesFor(q)' = IF q = c THEN SequencesFor(c) \cup {root_sequence_id[c]}
                                                   ELSE SequencesFor(q)
        BY <3>1, <3>3, ListsIndex DEF create_sequence
      <3>5. SequencesFor(c) = {}
        BY <2>1, <3>1 DEF SequencesInv, Waiting, Candidate
      <3>6. ASSUME NEW r \in Requests
            PROVE  /\ Candidate(r)' => SequencesFor(r)' = {root_sequence_id[r]}
                   /\ Waiting(r)' /\ ~Candidate(r)' => SequencesFor(r)' = {}
                   /\ ~Waiting(r)' => root_sequence_id[r] \in SequencesFor(r)'
        <4>1. Waiting(r)' <=> Waiting(r)
          BY <3>3, SameRequests
        <4>2. ~Candidate(r)
          BY <2>1 DEF Candidate
        <4>3. Waiting(c)
          BY <3>1 DEF Waiting
        <4>4. CASE r = c
          BY <3>2, <3>4, <3>5, <4>1, <4>3, <4>4
        <4>5. CASE r # c
          BY <3>2, <3>4, <4>1, <4>2, <4>5 DEF SequencesInv
        <4> QED BY <4>4, <4>5
      <3> QED BY <3>6 DEF SequencesInv
    <2> QED BY <1>3, <2>2, <2>3 DEF create
  <1>4. CASE attach
    <2>1. sequences_by_request' = sequences_by_request
      BY <1>4 DEF attach, attach_prefix, cacheVars
    <2>2. pc \in Entering /\ pc' \in Entering /\ request' = request
      BY <1>4, SchedulePlaces
    <2>3. candidate' = candidate
      BY <1>4 DEF attach, candidate, queueVars
    <2>4. \A r \in Requests : Unmoved(r)
      BY <2>2, <2>3, SameRequests DEF Unmoved, Candidate
    <2> QED BY <2>1, <2>4, SequencesQuiet
  <1>5. CASE reserve
    <2> DEFINE c == candidate
    <2>1. pc \in Entering /\ pc \in Scanning /\ pc \in Fitting
      BY <1>5 DEF reserve, Entering, Scanning, Fitting
    <2>2. c \in Requests /\ Waiting(c)
      BY <2>1, Scanned DEF Waiting
    <2>3. \A r : Candidate(r) <=> r = c
      BY <2>1 DEF Candidate
    <2> HIDE DEF c
    <2>4. CASE Admitted /\ sequences_by_request' = sequences_by_request
      <3>1. /\ request'[c].state = "Prefill" /\ pc' = "admit"
            /\ \A q \in Requests : q # c => request'[q].state = request[q].state
        BY <2>1, <2>4, AdmittedQueues DEF c
      <3>2. ASSUME NEW r \in Requests
            PROVE  /\ ~Candidate(r)'
                   /\ Waiting(r)' <=> r # c /\ Waiting(r)
        BY <3>1 DEF Candidate, Entering, Waiting, State
      <3>3. ASSUME NEW r \in Requests
            PROVE  /\ Candidate(r)' => SequencesFor(r)' = {root_sequence_id[r]}
                   /\ Waiting(r)' /\ ~Candidate(r)' => SequencesFor(r)' = {}
                   /\ ~Waiting(r)' => root_sequence_id[r] \in SequencesFor(r)'
        <4>1. SequencesFor(r)' = SequencesFor(r)
          BY <2>4, ListsSame
        <4>2. CASE r = c
          BY <2>2, <2>3, <3>2, <4>1, <4>2 DEF SequencesInv
        <4>3. CASE r # c
          BY <2>3, <3>2, <4>1, <4>3 DEF SequencesInv
        <4> QED BY <4>2, <4>3
      <3> QED BY <3>3 DEF SequencesInv
    <2>5. CASE release_request(c) /\ Refused
      <3>1. pc' \notin Entering /\ request' = request
        BY <2>5, SchedulePlaces
      <3>2. \A q \in Requests : SequencesFor(q)' = IF q = c THEN {} ELSE SequencesFor(q)
        BY <2>2, <2>5, ListsRelease
      <3>3. ASSUME NEW r \in Requests
            PROVE  /\ Candidate(r)' => SequencesFor(r)' = {root_sequence_id[r]}
                   /\ Waiting(r)' /\ ~Candidate(r)' => SequencesFor(r)' = {}
                   /\ ~Waiting(r)' => root_sequence_id[r] \in SequencesFor(r)'
        <4>1. Waiting(r)' <=> Waiting(r)
          BY <3>1, SameRequests
        <4>2. ~Candidate(r)'
          BY <3>1 DEF Candidate
        <4>3. CASE r = c
          BY <2>2, <3>2, <4>1, <4>2, <4>3
        <4>4. CASE r # c
          BY <2>3, <3>2, <4>1, <4>2, <4>4 DEF SequencesInv
        <4> QED BY <4>3, <4>4
      <3> QED BY <3>3 DEF SequencesInv
    <2> QED BY <1>5, <2>4, <2>5 DEF reserve, RollBack, reserve_tokens, cacheVars, c
  <1> QED BY <1>1, <1>2, <1>3, <1>4, <1>5 DEF ScheduleStep

LEMMA IdlePlaces ==
    ASSUME NEW r \in Requests, pc = "idle", pc' = "idle"
    PROVE  pc \notin Entering /\ pc' \notin Entering /\ ~Candidate(r) /\ ~Candidate(r)'
  BY DEF Entering, Candidate

LEMMA NextSequences ==
    ASSUME CoreInv, SequencesInv, [SchedulerNext]_vars
    PROVE  SequencesInv'
  <1> USE DEF CoreInv
  <1>1. CASE ScheduleStep
    BY <1>1, ScheduleSequences
  <1>2. ASSUME NEW r \in Requests, enqueue(r) \/ preempt(r) \/ resume(r)
                                      \/ \E n \in 0 .. prompt_tokens[r] : complete_step(r, n)
        PROVE  SequencesInv'
    <2>1. pc = "idle" /\ pc' = "idle"
      BY <1>2 DEF enqueue, preempt, resume, complete_step, callVars
    <2>2. sequences_by_request' = sequences_by_request
      BY <1>2 DEF enqueue, preempt, Park, resume, SwapBack, complete_step, swap_out_request, swap_out,
                  swap_in_request, swap_in, cacheVars
    <2>3. request \in [Requests -> RequestRecord] /\ QueuesAgree
      BY Typed DEF QueueInv
    <2>4. CASE enqueue(r)
      <3>1. State(r) = "Unknown" /\ request' = [request EXCEPT ![r] =
                [state |-> "Pending", remaining |-> prompt_tokens[r], skips |-> 0, lifetime |-> 0]]
        BY <2>4 DEF enqueue
      <3>2. \A q \in Requests : State(q)' = IF q = r THEN "Pending" ELSE State(q)
        BY <2>3, <3>1 DEF State
      <3>3. \A q \in Requests : Waiting(q)' <=> Waiting(q)
        BY <3>1, <3>2 DEF Waiting
      <3> QED BY <2>1, <2>2, <3>3, IdlePlaces, NobodyEnters, SequencesQuiet
    <2>5. CASE preempt(r)
      <3>1. r \in Range(active) /\ Park(r)
        BY <2>5 DEF preempt
      <3>2. \A q \in Requests : Waiting(q)' <=> Waiting(q)
        BY <3>1, ParkWaits
      <3> QED BY <2>1, <2>2, <3>2, IdlePlaces, NobodyEnters, SequencesQuiet
    <2>6. CASE resume(r)
      <3>1. State(r) = "Preempted"
        BY <2>3, <2>6 DEF resume, QueuesAgree
      <3>2. \A q \in Requests : State(q)' = IF q = r THEN (IF request[r].remaining > 0 THEN "Prefill" ELSE "Decode")
                                            ELSE State(q)
        BY <2>3, <2>6 DEF resume, State, RequestRecord
      <3>3. \A q \in Requests : Waiting(q)' <=> Waiting(q)
        BY <3>1, <3>2 DEF Waiting
      <3> QED BY <2>1, <2>2, <3>3, IdlePlaces, NobodyEnters, SequencesQuiet
    <2>7. ASSUME NEW n \in 0 .. prompt_tokens[r], complete_step(r, n) PROVE SequencesInv'
      <3>1. State(r) = "Prefill"
        BY <2>7 DEF complete_step
      <3>2. \A q \in Requests : q # r => State(q)' = State(q)
        BY <2>3, <2>7 DEF complete_step, State
      <3>3. State(r)' \in {"Prefill", "Decode"}
        BY <2>3, <2>7, <3>1 DEF complete_step, State, RequestRecord
      <3>4. \A q \in Requests : Waiting(q)' <=> Waiting(q)
        BY <3>1, <3>2, <3>3 DEF Waiting
      <3> QED BY <2>1, <2>2, <3>4, IdlePlaces, NobodyEnters, SequencesQuiet
    <2> QED BY <1>2, <2>4, <2>5, <2>6, <2>7
  <1>3. ASSUME NEW r \in Requests, publish(r) \/ \E s \in SequencesFor(r) : grow(r, s)
        PROVE  SequencesInv'
    <2>1. /\ sequences_by_request' = sequences_by_request /\ request' = request
          /\ pc = "idle" /\ pc' = "idle"
      BY <1>3 DEF publish, grow, Executing, publish_prefix, reserve_tokens, queueVars, callVars
    <2> QED BY <2>1, SameRequests, IdlePlaces, NobodyEnters, SequencesQuiet
  <1>4. ASSUME NEW r \in Requests, cancel(r)
        PROVE  SequencesInv'
    <2>1. pc = "idle" /\ pc' = "idle" /\ release_request(r)
      BY <1>4 DEF cancel, callVars
    <2>2. request \in [Requests -> RequestRecord] /\ request' = [request EXCEPT ![r] = NoRequestState]
      BY <1>4, Typed DEF QueueInv, cancel
    <2>3. \A q \in Requests : State(q)' = IF q = r THEN "Unknown" ELSE State(q)
      BY <2>2 DEF State, NoRequestState
    <2>4. \A q \in Requests : Waiting(q)' <=> q = r \/ Waiting(q)
      BY <2>3 DEF Waiting
    <2>5. \A q \in Requests : SequencesFor(q)' = IF q = r THEN {} ELSE SequencesFor(q)
      BY <2>1, ListsRelease
    <2>6. ASSUME NEW q \in Requests
          PROVE  /\ Candidate(q)' => SequencesFor(q)' = {root_sequence_id[q]}
                 /\ Waiting(q)' /\ ~Candidate(q)' => SequencesFor(q)' = {}
                 /\ ~Waiting(q)' => root_sequence_id[q] \in SequencesFor(q)'
      <3>1. ~Candidate(q) /\ ~Candidate(q)'
        BY <2>1, IdlePlaces
      <3> QED BY <2>4, <2>5, <3>1 DEF SequencesInv
    <2> QED BY <2>6 DEF SequencesInv
  <1>5. CASE UNCHANGED vars
    <2>1. sequences_by_request' = sequences_by_request /\ request' = request
          /\ pc' = pc /\ pending' = pending /\ cursor' = cursor
      BY <1>5 DEF vars, cacheVars, queueVars, callVars
    <2>2. \A r \in Requests : Unmoved(r)
      BY <2>1, SameRequests DEF Unmoved, Candidate, candidate
    <2> QED BY <2>1, <2>2, SequencesQuiet
  <1> QED BY <1>1, <1>2, <1>3, <1>4, <1>5 DEF SchedulerNext

LEMMA InitSequences ==
    ASSUME SchedulerInit
    PROVE  SequencesInv
  <1>1. ASSUME NEW r \in Requests
        PROVE  Waiting(r) /\ ~Candidate(r) /\ SequencesFor(r) = {}
    <2>1. sequences_by_request[r] = <<>> /\ pc = "idle" /\ request[r].state = "Unknown"
      BY DEF SchedulerInit, Init, NoRequestState
    <2> QED BY <2>1 DEF Waiting, State, Candidate, Entering, SequencesFor, Range
  <1> QED BY <1>1 DEF SequencesInv

LEMMA SequencesAlways ==
    SchedulerSpec => [](CoreInv /\ SequencesInv)
  <1>1. SchedulerInit => SequencesInv
    BY InitSequences
  <1>2. CoreInv /\ SequencesInv /\ [SchedulerNext]_vars => SequencesInv'
    BY NextSequences
  <1> QED BY <1>1, <1>2, SchedulerInvariant, PTL DEF SchedulerSpec

(* "No sequence state is left behind": a request that waits or is unknown has *)
(* no sequence, whatever refused its admission (the roll-back after a failed  *)
(* reservation) or ended it, and one that is active or preempted has its      *)
(* first sequence.                                                            *)
THEOREM NothingLeftBehind ==
    SchedulerSpec => []NoSequenceLeftBehind
  <1>1. SequencesInv => NoSequenceLeftBehind
    BY DEF SequencesInv, NoSequenceLeftBehind, Waiting, Candidate, Entering
  <1> QED BY <1>1, SequencesAlways, PTL

-----------------------------------------------------------------------------
(* Residency: no entry of sequence s is swapped out. *)
Here(T, s) == \A l \in Tables : \A i \in 1 .. Len(T[s][l]) : T[s][l][i].slot = NoSlot

LEMMA HereBridge ==
    ASSUME Structure, NEW s \in SeqIds
    PROVE  SwappedOut(s) = {} <=> Here(tables, s)
  <1>1. /\ tables[s] \in [Tables -> Seq(Entry)]
        /\ \A l \in Tables : Len(tables[s][l]) <= MaxBlocks /\ Len(tables[s][l]) \in Nat
    <2>1. tables[s] \in [Tables -> Seq(Entry)]
      BY DEF Structure, TypeOK
    <2>2. \A l \in Tables : Len(tables[s][l]) = Len(tables[s][1]) /\ Len(tables[s][1]) <= MaxBlocks
      BY DEF Structure, TablesShaped
    <2> QED BY <2>1, <2>2, LenProperties
  <1>2. ASSUME NEW l \in Tables, NEW i \in 1 .. Len(tables[s][l]), SwappedOut(s) = {}
        PROVE  tables[s][l][i].slot = NoSlot
    <2>1. <<l, i>> \in Mapped(s)
      <3>1. i \in 1 .. MaxBlocks /\ i <= Len(tables[s][l])
        BY <1>1, ConfigFacts
      <3>2. <<l, i>> \in Cells
        BY <3>1 DEF Cells
      <3> QED BY <3>1, <3>2 DEF Mapped
    <2> QED BY <1>2, <2>1 DEF SwappedOut, At
  <1>3. ASSUME NEW c \in SwappedOut(s), Here(tables, s)
        PROVE  FALSE
    <2>1. c \in Cells /\ c[2] <= Len(tables[s][c[1]]) /\ tables[s][c[1]][c[2]].slot # NoSlot
      BY DEF SwappedOut, Mapped, At
    <2>2. c[1] \in Tables /\ c[2] \in 1 .. Len(tables[s][c[1]])
      BY <1>1, <2>1, ConfigFacts DEF Cells
    <2> QED BY <1>3, <2>1, <2>2 DEF Here
  <1> QED BY <1>2, <1>3 DEF Here

LEMMA HereBridgeAfter ==
    ASSUME Structure', NEW s \in SeqIds
    PROVE  SwappedOut(s)' = {} <=> Here(tables', s)
  <1>1. /\ tables'[s] \in [Tables -> Seq(Entry)]
        /\ \A l \in Tables : Len(tables'[s][l]) <= MaxBlocks /\ Len(tables'[s][l]) \in Nat
    <2>1. tables'[s] \in [Tables -> Seq(Entry)]
      BY DEF Structure, TypeOK
    <2>2. \A l \in Tables : Len(tables'[s][l]) = Len(tables'[s][1]) /\ Len(tables'[s][1]) <= MaxBlocks
      BY DEF Structure, TablesShaped
    <2> QED BY <2>1, <2>2, LenProperties
  <1>2. ASSUME NEW l \in Tables, NEW i \in 1 .. Len(tables'[s][l]), SwappedOut(s)' = {}
        PROVE  tables'[s][l][i].slot = NoSlot
    <2>1. <<l, i>> \in Mapped(s)'
      <3>1. i \in 1 .. MaxBlocks /\ i <= Len(tables'[s][l])
        BY <1>1, ConfigFacts
      <3>2. <<l, i>> \in Cells
        BY <3>1 DEF Cells
      <3> QED BY <3>1, <3>2 DEF Mapped
    <2> QED BY <1>2, <2>1 DEF SwappedOut, At
  <1>3. ASSUME NEW c \in SwappedOut(s)', Here(tables', s)
        PROVE  FALSE
    <2>1. c \in Cells /\ c[2] <= Len(tables'[s][c[1]]) /\ tables'[s][c[1]][c[2]].slot # NoSlot
      BY DEF SwappedOut, Mapped, At
    <2>2. c[1] \in Tables /\ c[2] \in 1 .. Len(tables'[s][c[1]])
      BY <1>1, <2>1, ConfigFacts DEF Cells
    <2> QED BY <1>3, <2>1, <2>2 DEF Here
  <1> QED BY <1>2, <1>3 DEF Here

LEMMA HereSame ==
    ASSUME NEW s, tables'[s] = tables[s], Here(tables, s)
    PROVE  Here(tables', s)
  BY DEF Here

(* Swapping a list of sequences out does not touch the others. *)
LEMMA HereSwapOut ==
    ASSUME Structure, NEW q \in Seq(SeqIds), swap_out(q), NEW s \in SeqIds, s \notin Range(q), Here(tables, s)
    PROVE  Here(tables', s)
  <1> DEFINE slotOf(g, c) == {g[a] : a \in {b \in DOMAIN g : q[b[1]] = s /\ b[2] = c}}
  <1>1. PICK g \in Injection(Evictions(q), FreeSlots) :
            tables' = [t \in SeqIds |-> [l \in Tables |-> [i \in 1 .. Len(tables[t][l]) |->
                    IF {g[a] : a \in {b \in DOMAIN g : q[b[1]] = t /\ b[2] = <<l, i>>}} = {} THEN tables[t][l][i]
                    ELSE [tables[t][l][i] EXCEPT !.slot =
                            CHOOSE k \in {g[a] : a \in {b \in DOMAIN g : q[b[1]] = t /\ b[2] = <<l, i>>}} : TRUE]]]]
    BY DEF swap_out
  <1>2. DOMAIN g = Evictions(q)
    BY DEF Injection
  <1>3. \A b \in DOMAIN g : q[b[1]] # s
    <2>1. \A b \in DOMAIN g : b[1] \in 1 .. Len(q)
      BY <1>2 DEF Evictions, Evictable
    <2> QED BY <2>1, InRange
  <1>4. \A c : slotOf(g, c) = {}
    BY <1>3
  <1>5. ASSUME NEW l \in Tables
        PROVE  tables'[s][l] = [i \in 1 .. Len(tables[s][l]) |-> tables[s][l][i]]
    <2>1. tables'[s][l] = [i \in 1 .. Len(tables[s][l]) |->
                    IF slotOf(g, <<l, i>>) = {} THEN tables[s][l][i]
                    ELSE [tables[s][l][i] EXCEPT !.slot = CHOOSE k \in slotOf(g, <<l, i>>) : TRUE]]
      BY <1>1
    <2> HIDE DEF slotOf
    <2> QED BY <1>4, <2>1
  <1>6. ASSUME NEW l \in Tables, NEW i \in 1 .. Len(tables'[s][l])
        PROVE  tables'[s][l][i].slot = NoSlot
    <2>1. Len(tables[s][l]) \in Nat
      BY LenProperties DEF Structure, TypeOK
    <2>2. Len(tables'[s][l]) = Len(tables[s][l])
      <3>1. Len([j \in 1 .. Len(tables[s][l]) |-> tables[s][l][j]]) = Len(tables[s][l])
        BY <2>1
      <3> QED BY <1>5, <3>1
    <2>3. tables'[s][l][i] = tables[s][l][i]
      BY <1>5, <2>2
    <2> QED BY <2>2, <2>3 DEF Here
  <1> QED BY <1>6 DEF Here

(* Swapping in restores all the sequences of a set and touches no other. *)
LEMMA HereSwapIn ==
    ASSUME Structure, NEW S \in SUBSET SeqIds, swap_in(S), NEW s \in SeqIds, s \in S \/ Here(tables, s)
    PROVE  Here(tables', s)
  <1>1. PICK g \in Injection(Absentees(S), FreeFrames(ref_count)) :
            tables' = [t \in SeqIds |-> [l \in Tables |-> [i \in 1 .. Len(tables[t][l]) |->
                IF <<t, <<l, i>>>> \in DOMAIN g
                THEN [tables[t][l][i] EXCEPT !.frame = g[<<t, <<l, i>>>>], !.slot = NoSlot]
                ELSE tables[t][l][i]]]]
    BY DEF swap_in
  <1>2. DOMAIN g = Absentees(S)
    BY DEF Injection
  <1>3. ASSUME NEW l \in Tables, NEW i \in 1 .. Len(tables'[s][l])
        PROVE  tables'[s][l][i].slot = NoSlot
    <2>1. tables[s][l] \in Seq(Entry)
      BY DEF Structure, TypeOK
    <2>2. Len(tables[s][l]) \in Nat
      BY <2>1, LenProperties
    <2>3. tables'[s][l] = [j \in 1 .. Len(tables[s][l]) |->
                IF <<s, <<l, j>>>> \in DOMAIN g
                THEN [tables[s][l][j] EXCEPT !.frame = g[<<s, <<l, j>>>>], !.slot = NoSlot]
                ELSE tables[s][l][j]]
      BY <1>1
    <2>4. i \in 1 .. Len(tables[s][l])
      <3> DEFINE e(j) == IF <<s, <<l, j>>>> \in DOMAIN g
                         THEN [tables[s][l][j] EXCEPT !.frame = g[<<s, <<l, j>>>>], !.slot = NoSlot]
                         ELSE tables[s][l][j]
      <3>1. tables'[s][l] = [j \in 1 .. Len(tables[s][l]) |-> e(j)]
        BY <2>3
      <3> HIDE DEF e
      <3>2. Len([j \in 1 .. Len(tables[s][l]) |-> e(j)]) = Len(tables[s][l])
        BY <2>2
      <3> QED BY <3>1, <3>2
    <2>5. tables[s][l][i] \in Entry
      BY <2>1, <2>4, InRange
    <2>6. CASE <<s, <<l, i>>>> \in DOMAIN g
      <3>1. tables'[s][l][i] = [tables[s][l][i] EXCEPT !.frame = g[<<s, <<l, i>>>>], !.slot = NoSlot]
        BY <2>3, <2>4, <2>6
      <3> QED BY <2>5, <3>1 DEF Entry
    <2>7. CASE <<s, <<l, i>>>> \notin DOMAIN g
      <3>1. tables'[s][l][i] = tables[s][l][i]
        BY <2>3, <2>4, <2>7
      <3>2. CASE Here(tables, s)
        BY <2>4, <3>1, <3>2 DEF Here
      <3>3. CASE s \in S
        <4>1. <<l, i>> \notin SwappedOut(s)
          <5>1. <<l, i>> \in SwappedOut(s) => <<s, <<l, i>>>> \in Absentees(S)
            BY <3>3 DEF Absentees, SwappedOut, Mapped
          <5> QED BY <1>2, <2>7, <5>1
        <4>2. <<l, i>> \in Mapped(s)
          <5>1. Len(tables[s][l]) <= MaxBlocks /\ MaxBlocks \in Nat
            BY ConfigFacts DEF Structure, TablesShaped
          <5>2. i \in 1 .. MaxBlocks /\ i <= Len(tables[s][l])
            BY <2>2, <2>4, <5>1
          <5>3. <<l, i>> \in Cells
            BY <5>2 DEF Cells
          <5> QED BY <5>2, <5>3 DEF Mapped
        <4>3. At(s, <<l, i>>).slot = NoSlot
          BY <4>1, <4>2 DEF SwappedOut
        <4> QED BY <3>1, <4>3 DEF At
      <3> QED BY <3>2, <3>3
    <2> QED BY <2>6, <2>7
  <1> QED BY <1>3 DEF Here

(* New blocks and the blocks of a prefix are resident. *)
LEMMA HereReserve ==
    ASSUME Structure, NEW t \in SeqIds, NEW n \in Nat \ {0}, reserve_tokens(t, n),
           NEW s \in SeqIds, Here(tables, s)
    PROVE  Here(tables', s)
  <1>1. PICK g \in Injection(Tables \X (1 .. blocks_for(n)), FreeFrames(ref_count)) :
            tables' = [tables EXCEPT ![t] = [l \in Tables |->
                Appended(tables[t][l], [i \in 1 .. blocks_for(n) |-> g[<<l, i>>]])]]
    BY DEF reserve_tokens
  <1>2. tables \in [SeqIds -> [Tables -> Seq(Entry)]]
    BY DEF Structure, TypeOK
  <1>3. CASE s # t
    BY <1>1, <1>2, <1>3, HereSame
  <1>4. CASE s = t
    <2>1. ASSUME NEW l \in Tables, NEW i \in 1 .. Len(tables'[s][l])
          PROVE  tables'[s][l][i].slot = NoSlot
      <3> DEFINE old == tables[t][l]
                 m == blocks_for(n)
                 frames == [j \in 1 .. m |-> g[<<l, j>>]]
                 new == [j \in 1 .. m |-> [frame |-> frames[j], slot |-> NoSlot, writable |-> TRUE]]
      <3>1. m \in Nat /\ old \in Seq(Entry)
        BY <1>2, ConfigFacts
      <3>2. Len(old) \in Nat
        BY <3>1, LenProperties
      <3>3. Len(frames) = m
        BY <3>1
      <3>4. tables'[s][l] = old \o new
        BY <1>1, <1>2, <1>4, <3>3 DEF Appended
      <3>5. \A j \in 1 .. m : g[<<l, j>>] \in Frames
        BY DEF Injection, FreeFrames
      <3>6. new \in Seq(Entry) /\ Len(new) = m /\ \A j \in 1 .. m : new[j].slot = NoSlot
        <4>1. \A j \in 1 .. m : new[j] \in Entry /\ new[j].slot = NoSlot
          BY <3>5 DEF Entry
        <4>2. Len(new) = m
          BY <3>1
        <4>3. new \in [1 .. m -> Entry]
          BY <4>1
        <4>4. new \in Seq(Entry)
          <5> HIDE DEF new, m
          <5> QED BY <3>1, <4>3, SeqDef
        <4> QED BY <4>1, <4>2, <4>4
      <3> HIDE DEF old, new, m
      <3>7. /\ Len(old \o new) = Len(old) + m
            /\ \A j \in 1 .. Len(old) + m : (old \o new)[j] = IF j <= Len(old) THEN old[j] ELSE new[j - Len(old)]
        BY <3>1, <3>6, ConcatProperties
      <3>8. i \in 1 .. Len(old) + m
        BY <3>4, <3>7
      <3>9. CASE i <= Len(old)
        <4>1. i \in 1 .. Len(old) /\ (old \o new)[i] = old[i]
          BY <3>2, <3>7, <3>8, <3>9
        <4>2. old[i].slot = NoSlot
          BY <1>4, <4>1 DEF Here, old
        <4> QED BY <3>4, <4>1, <4>2
      <3>10. CASE ~(i <= Len(old))
        <4>1. i - Len(old) \in 1 .. m /\ (old \o new)[i] = new[i - Len(old)]
          BY <3>1, <3>2, <3>7, <3>8, <3>10
        <4> QED BY <3>4, <3>6, <4>1
      <3> QED BY <3>9, <3>10
    <2> QED BY <2>1 DEF Here
  <1> QED BY <1>3, <1>4

LEMMA HereAttach ==
    ASSUME Structure, NEW t \in SeqIds, NEW k \in Keys, attach_prefix(t, k), NEW s \in SeqIds, Here(tables, s)
    PROVE  Here(tables', s)
  <1>1. PICK rec \in prefix_index[k] :
            tables' = [tables EXCEPT ![t] = [l \in Tables |-> [i \in 1 .. Len(rec.ids[l]) |->
                [frame |-> rec.ids[l][i], slot |-> NoSlot, writable |-> FALSE]]]]
    BY DEF attach_prefix
  <1>2. tables \in [SeqIds -> [Tables -> Seq(Entry)]] /\ rec \in Record
    BY DEF Structure, TypeOK
  <1>3. CASE s # t
    BY <1>1, <1>2, <1>3, HereSame
  <1>4. CASE s = t
    <2>1. ASSUME NEW l \in Tables, NEW i \in 1 .. Len(tables'[s][l])
          PROVE  tables'[s][l][i].slot = NoSlot
      <3> DEFINE new == [j \in 1 .. Len(rec.ids[l]) |-> [frame |-> rec.ids[l][j], slot |-> NoSlot, writable |-> FALSE]]
      <3>1. tables'[s][l] = new
        BY <1>1, <1>2, <1>4
      <3>2. Len(rec.ids[l]) \in Nat
        BY <1>2, LenProperties DEF Record
      <3>3. Len(new) = Len(rec.ids[l])
        BY <3>2
      <3>4. new[i].slot = NoSlot
        BY <3>1, <3>3
      <3> QED BY <3>1, <3>4
    <2> QED BY <2>1 DEF Here
  <1> QED BY <1>3, <1>4

LEMMA HereRelease ==
    ASSUME NEW S, release(S), NEW s \in SeqIds, Here(tables, s)
    PROVE  Here(tables', s)
  <1>1. tables'[s] = IF s \in S THEN NoTables ELSE tables[s]
    BY DEF release
  <1>2. CASE s \notin S
    BY <1>1, <1>2, HereSame
  <1>3. CASE s \in S
    <2>1. \A l \in Tables : tables'[s][l] = <<>>
      BY <1>1, <1>3 DEF NoTables
    <2> QED BY <2>1 DEF Here
  <1> QED BY <1>2, <1>3

(* The requests whose blocks are all in the pool. *)
Running(r) == r \in Range(active) \/ Candidate(r)

(* r ran before the step and the step swapped none of its blocks out, or the  *)
(* step left all its blocks in the pool.                                      *)
Carried(r) ==
    \/ /\ Running(r)
       /\ SequencesFor(r)' \subseteq SequencesFor(r)
       /\ \A s \in SequencesFor(r) : Here(tables, s) => Here(tables', s)
    \/ \A s \in SequencesFor(r)' : Here(tables', s)

LEMMA ResidentCarried ==
    ASSUME Structure, Structure', ResidentInv,
           \A r \in Requests : Running(r)' => Carried(r)
    PROVE  ResidentInv'
  <1>1. ASSUME NEW r \in Requests, Running(r)', NEW s \in SequencesFor(r)'
        PROVE  SwappedOut(s)' = {}
    <2>1. s \in SeqIds
      <3>1. s \in sequences' /\ sequences' \subseteq SeqIds
        BY <1>1 DEF Structure, RequestsListed, TypeOK
      <3> QED BY <3>1
    <2>2. Here(tables', s)
      <3>1. CASE \A t \in SequencesFor(r)' : Here(tables', t)
        BY <3>1
      <3>2. CASE /\ Running(r)
                 /\ SequencesFor(r)' \subseteq SequencesFor(r)
                 /\ \A t \in SequencesFor(r) : Here(tables, t) => Here(tables', t)
        <4>1. s \in SequencesFor(r) /\ SwappedOut(s) = {}
          BY <1>1, <3>2 DEF ResidentInv, Running
        <4> QED BY <2>1, <3>2, <4>1, HereBridge
      <3> QED BY <1>1, <3>1, <3>2 DEF Carried
    <2> QED BY <2>1, <2>2, HereBridgeAfter
  <1> QED BY <1>1 DEF ResidentInv, Running

(* A step that leaves the cache alone, where nobody new runs. *)
LEMMA CarriedStill ==
    ASSUME NEW r \in Requests, Running(r), sequences_by_request' = sequences_by_request,
           \A s \in SequencesFor(r) : Here(tables, s) => Here(tables', s)
    PROVE  Carried(r)
  BY ListsSame DEF Carried

(* preempt() and reclaim_for_admission(): who goes on running is not swapped. *)
LEMMA CarriedPark ==
    ASSUME CoreInv, NEW v \in Requests, v \in Range(active), Park(v), pc' \notin Entering,
           NEW r \in Requests, Running(r)'
    PROVE  Carried(r)
  <1>1. active \in Seq(Requests) /\ IsInjective(active) /\ active' = RemoveFirst(active, v)
    BY Typed DEF CoreInv, QueueInv, QueuesAgree, Park
  <1>2. Range(active') = Range(active) \ {v}
    BY <1>1, RemovedFirst
  <1>3. r \in Range(active) /\ r # v
    BY <1>2 DEF Running, Candidate
  <1> DEFINE q == sequences_by_request[v]
  <1>4. q \in Seq(SeqIds) /\ swap_out(q) /\ Range(q) = SequencesFor(v)
    BY ListedSequences DEF CoreInv, Park, swap_out_request, SequencesFor
  <1>5. sequences_by_request' = sequences_by_request
    BY <1>4 DEF swap_out
  <1> HIDE DEF q
  <1>6. ASSUME NEW s \in SequencesFor(r), Here(tables, s) PROVE Here(tables', s)
    <2>1. s \notin Range(q)
      BY <1>3, <1>4, ListsApart DEF CoreInv
    <2>2. s \in SeqIds
      BY ListedSequences DEF CoreInv, Structure, TypeOK
    <2> QED BY <1>4, <1>6, <2>1, <2>2, HereSwapOut DEF CoreInv
  <1> QED BY <1>3, <1>5, <1>6, CarriedStill DEF Running

LEMMA CarriedQuiet ==
    ASSUME tables' = tables, sequences_by_request' = sequences_by_request, active' = active,
           NEW r \in Requests, Running(r)', Candidate(r)' => Candidate(r)
    PROVE  Carried(r)
  <1>1. Running(r)
    BY DEF Running
  <1> QED BY <1>1, CarriedStill

LEMMA ScheduleResident ==
    ASSUME CoreInv, SequencesInv, ScheduleStep, NEW r \in Requests, Running(r)'
    PROVE  Carried(r)
  <1>0. Structure /\ QueueInv
    BY DEF CoreInv
  <1>1. CASE schedule_next \/ AdmitMore \/ try_admit \/ batch
    <2>1. tables' = tables /\ sequences_by_request' = sequences_by_request /\ active' = active
      BY <1>1 DEF schedule_next, AdmitMore, try_admit, batch, cacheVars, queueVars, Refused
    <2>2. pc' \notin Entering
      BY <1>1, SchedulePlaces
    <2> QED BY <2>1, <2>2, CarriedQuiet DEF Candidate
  <1>2. CASE reclaim_for_admission
    <2>1. pc' \notin Entering
      BY <1>2, SchedulePlaces
    <2>2. CASE UnderPressure /\ Park(victim)
      <3> DEFINE v == victim
      <3>1. v \in Requests /\ v \in Range(active) /\ Park(v)
        BY <1>0, <2>2, VictimActive
      <3> HIDE DEF v
      <3> QED BY <2>1, <3>1, CarriedPark
    <2>3. CASE UNCHANGED <<cacheVars, queueVars>>
      BY <2>1, <2>3, CarriedQuiet DEF Candidate, cacheVars, queueVars
    <2> QED BY <1>2, <2>2, <2>3 DEF reclaim_for_admission
  <1>3. CASE create
    <2>1. pc \notin Entering /\ pc \in Scanning
      BY <1>3 DEF create, Entering, Scanning
    <2>2. CASE Refused /\ UNCHANGED cacheVars
      <3>1. pc' \notin Entering
        BY <2>2, SchedulePlaces
      <3> QED BY <2>2, <3>1, CarriedQuiet DEF Candidate, cacheVars, Refused, queueVars
    <2>3. CASE /\ create_sequence(root_sequence_id[candidate], candidate)
               /\ pc' = "attach" /\ UNCHANGED <<queueVars, plan, cursor, needed>>
      <3> DEFINE c == candidate
                 t == root_sequence_id[c]
      <3>1. c \in Requests /\ State(c) = "Pending" /\ t \in SeqIds /\ c \in Range(pending)
        BY <1>0, <2>1, Scanned, Configured
      <3>2. Candidate(r)' <=> r = c
        BY <2>3 DEF Candidate, candidate, queueVars, Entering
      <3>3. create_sequence(t, c) /\ active' = active /\ tables' = tables
        BY <2>3 DEF queueVars, create_sequence
      <3> HIDE DEF c, t
      <3>4. SequencesFor(r)' = IF r = c THEN SequencesFor(c) \cup {t} ELSE SequencesFor(r)
        BY <1>0, <3>1, <3>3, ListsIndex DEF create_sequence
      <3>5. SequencesFor(c) = {}
        BY <2>1, <3>1 DEF SequencesInv, Waiting, Candidate
      <3>6. CASE r = c
        <4>1. SequencesFor(r)' = {t}
          BY <3>4, <3>5, <3>6
        <4>2. t \notin sequences
          BY <3>3 DEF create_sequence
        <4>3. tables[t] = NoTables
          BY <1>0, <3>1, <4>2 DEF Structure, TablesShaped
        <4>4. \A l \in Tables : tables'[t][l] = <<>>
          BY <3>3, <4>3 DEF NoTables
        <4>5. Here(tables', t)
          BY <4>4 DEF Here
        <4> QED BY <4>1, <4>5 DEF Carried
      <3>7. CASE r # c
        <4>1. r \in Range(active)
          BY <3>2, <3>3, <3>7 DEF Running
        <4>2. SequencesFor(r)' = SequencesFor(r)
          BY <3>4, <3>7
        <4> QED BY <3>3, <4>1, <4>2 DEF Carried, Running
      <3> QED BY <3>6, <3>7
    <2> QED BY <1>3, <2>2, <2>3 DEF create
  <1>4. CASE attach
    <2>1. pc \in Scanning /\ pc \in Entering
      BY <1>4 DEF attach, Scanning, Entering
    <2> DEFINE c == candidate
               t == root_sequence_id[c]
               k == prefix_key[c]
    <2>2. c \in Requests /\ t \in SeqIds
      BY <1>0, <2>1, Scanned, Configured
    <2>3. sequences_by_request' = sequences_by_request /\ active' = active /\ candidate' = candidate
      BY <1>4 DEF attach, attach_prefix, cacheVars, queueVars, candidate
    <2>4. Running(r)
      BY <2>1, <2>3 DEF Running, Candidate
    <2>5. (k # NoKey /\ attach_prefix(t, k)) \/ UNCHANGED cacheVars
      BY <1>4 DEF attach
    <2>6. k # NoKey => k \in Keys
      BY <2>2, Configured
    <2> HIDE DEF t, k
    <2>7. ASSUME NEW s \in SequencesFor(r), Here(tables, s) PROVE Here(tables', s)
      <3>1. s \in SeqIds
        BY <1>0, ListedSequences DEF Structure, TypeOK
      <3>2. CASE k # NoKey /\ attach_prefix(t, k)
        BY <1>0, <2>2, <2>6, <2>7, <3>1, <3>2, HereAttach
      <3>3. CASE UNCHANGED cacheVars
        BY <2>7, <3>3 DEF cacheVars
      <3> QED BY <2>5, <3>2, <3>3
    <2> QED BY <2>3, <2>4, <2>7, CarriedStill
  <1>5. CASE reserve
    <2>1. pc \in Entering /\ pc \in Scanning /\ pc \in Fitting
      BY <1>5 DEF reserve, Entering, Scanning, Fitting
    <2> DEFINE c == candidate
               t == root_sequence_id[c]
               cap == Capacity(t)
               still_need == IF prompt_tokens[c] > cap THEN prompt_tokens[c] - cap ELSE 0
    <2>2. c \in Requests /\ t \in SeqIds
      BY <1>0, <2>1, Scanned, Configured
    <2>3. \/ still_need > 0 /\ reserve_tokens(t, still_need) /\ Admitted
          \/ UNCHANGED cacheVars /\ Admitted
          \/ release_request(c) /\ Refused
      BY <1>5 DEF reserve, RollBack
    <2>4. still_need > 0 => still_need \in Nat \ {0}
      <3>1. Len(tables[t][1]) \in Nat /\ TokensPerBlock \in Nat
        BY <1>0, <2>2, ConfigFacts, Configured, LenProperties DEF Structure, TypeOK
      <3>2. cap \in Nat
        <4>1. Len(tables[t][1]) * TokensPerBlock \in Nat
          BY ONLY <3>1
        <4> QED BY <4>1 DEF Capacity
      <3>3. prompt_tokens[c] \in Nat
        BY <2>2, Configured
      <3> HIDE DEF cap
      <3> QED BY <3>2, <3>3
    <2>5. Candidate(c)
      BY <2>1 DEF Candidate
    <2> HIDE DEF still_need, t
    <2>6. CASE Admitted
      <3>1. active' = Append(active, c) /\ pc' = "admit" /\ active \in Seq(Requests)
        BY <1>0, <2>1, <2>6, AdmittedQueues, Typed DEF QueueInv
      <3> HIDE DEF c
      <3>2. Range(active') = Range(active) \cup {c}
        BY <2>2, <3>1, AppendedQueue
      <3>3. Running(r)
        BY <2>5, <3>1, <3>2 DEF Running, Candidate, Entering
      <3>4. CASE still_need > 0 /\ reserve_tokens(t, still_need)
        <4>1. sequences_by_request' = sequences_by_request
          BY <3>4 DEF reserve_tokens
        <4>2. ASSUME NEW s \in SequencesFor(r), Here(tables, s) PROVE Here(tables', s)
          <5>1. s \in SeqIds
            BY <1>0, ListedSequences DEF Structure, TypeOK
          <5> QED BY <1>0, <2>2, <2>4, <3>4, <4>2, <5>1, HereReserve
        <4> QED BY <3>3, <4>1, <4>2, CarriedStill
      <3>5. CASE UNCHANGED cacheVars
        BY <3>3, <3>5, CarriedStill DEF cacheVars
      <3>6. CASE release_request(c) /\ Refused
        BY <2>6, <3>6 DEF Admitted, Refused
      <3> QED BY <2>3, <3>4, <3>5, <3>6
    <2>7. CASE release_request(c) /\ Refused
      <3>1. pc' \notin Entering /\ active' = active
        BY <2>7, SchedulePlaces DEF Refused, queueVars
      <3>2. Running(r)
        BY <3>1 DEF Running, Candidate
      <3> HIDE DEF c
      <3>3. SequencesFor(r)' = IF r = c THEN {} ELSE SequencesFor(r)
        BY <1>0, <2>2, <2>7, ListsRelease
      <3>4. ASSUME NEW s \in SequencesFor(r), Here(tables, s) PROVE Here(tables', s)
        <4>1. s \in SeqIds
          BY <1>0, ListedSequences DEF Structure, TypeOK
        <4>2. release(SequencesFor(c))
          BY <2>7 DEF release_request
        <4> QED BY <3>4, <4>1, <4>2, HereRelease
      <3> QED BY <3>2, <3>3, <3>4 DEF Carried
    <2> QED BY <2>3, <2>6, <2>7
  <1> QED BY <1>1, <1>2, <1>3, <1>4, <1>5 DEF ScheduleStep

LEMMA NextResident ==
    ASSUME CoreInv, Structure', SequencesInv, ResidentInv, [SchedulerNext]_vars
    PROVE  ResidentInv'
  <1>0. Structure /\ QueueInv
    BY DEF CoreInv
  <1>1. CASE ScheduleStep
    <2>1. \A r \in Requests : Running(r)' => Carried(r)
      BY <1>1, ScheduleResident
    <2> QED BY <1>0, <2>1, ResidentCarried
  <1>2. ASSUME NEW q \in Requests, enqueue(q) \/ \E n \in 0 .. prompt_tokens[q] : complete_step(q, n)
        PROVE  ResidentInv'
    <2>1. /\ tables' = tables /\ sequences_by_request' = sequences_by_request /\ active' = active
          /\ pc' = "idle"
      BY <1>2 DEF enqueue, complete_step, cacheVars, callVars
    <2>2. \A r \in Requests : Running(r)' => Carried(r)
      BY <2>1, CarriedQuiet DEF Candidate, Entering
    <2> QED BY <1>0, <2>2, ResidentCarried
  <1>3. ASSUME NEW q \in Requests, preempt(q)
        PROVE  ResidentInv'
    <2>1. q \in Range(active) /\ Park(q) /\ pc' \notin Entering
      BY <1>3 DEF preempt, callVars, Entering
    <2>2. \A r \in Requests : Running(r)' => Carried(r)
      BY <2>1, CarriedPark
    <2> QED BY <1>0, <2>2, ResidentCarried
  <1>4. ASSUME NEW q \in Requests, resume(q)
        PROVE  ResidentInv'
    <2> DEFINE S == SequencesFor(q)
    <2>1. S \in SUBSET SeqIds /\ swap_in(S)
      BY <1>0, <1>4, ListedSequences DEF resume, SwapBack, swap_in_request, Structure, TypeOK
    <2>2. sequences_by_request' = sequences_by_request /\ active' = Append(active, q) /\ pc' = "idle"
      BY <1>4, <2>1 DEF resume, swap_in, callVars
    <2>3. Range(active') = Range(active) \cup {q}
      BY <1>0, <2>2, Typed, AppendedQueue DEF QueueInv
    <2>4. ASSUME NEW r \in Requests, Running(r)' PROVE Carried(r)
      <3>1. CASE r = q
        <4>1. SequencesFor(r)' = S
          BY <2>2, <3>1, ListsSame
        <4> HIDE DEF S
        <4>2. \A s \in S : Here(tables', s)
          BY <1>0, <2>1, HereSwapIn
        <4> QED BY <4>1, <4>2 DEF Carried
      <3>2. CASE r # q
        <4>1. Running(r)
          BY <2>2, <2>3, <2>4, <3>2 DEF Running, Candidate, Entering
        <4>2. ASSUME NEW s \in SequencesFor(r), Here(tables, s) PROVE Here(tables', s)
          <5>1. s \in SeqIds
            BY <1>0, ListedSequences DEF Structure, TypeOK
          <5> HIDE DEF S
          <5> QED BY <1>0, <2>1, <4>2, <5>1, HereSwapIn
        <4> QED BY <2>2, <4>1, <4>2, CarriedStill
      <3> QED BY <3>1, <3>2
    <2> QED BY <1>0, <2>4, ResidentCarried
  <1>5. ASSUME NEW q \in Requests, publish(q)
        PROVE  ResidentInv'
    <2>1. /\ tables' = tables /\ sequences_by_request' = sequences_by_request /\ active' = active
          /\ pc' = "idle"
      BY <1>5 DEF publish, publish_prefix, Executing, queueVars, callVars
    <2>2. \A r \in Requests : Running(r)' => Carried(r)
      BY <2>1, CarriedQuiet DEF Candidate, Entering
    <2> QED BY <1>0, <2>2, ResidentCarried
  <1>6. ASSUME NEW q \in Requests, NEW t \in SequencesFor(q), grow(q, t)
        PROVE  ResidentInv'
    <2>1. /\ t \in SeqIds /\ reserve_tokens(t, 1)
          /\ sequences_by_request' = sequences_by_request /\ active' = active /\ pc' = "idle"
      BY <1>0, <1>6, ListedSequences
         DEF grow, reserve_tokens, Executing, queueVars, callVars, Structure, TypeOK
    <2>2. ASSUME NEW r \in Requests, Running(r)' PROVE Carried(r)
      <3>1. Running(r)
        BY <2>1, <2>2 DEF Running, Candidate, Entering
      <3>2. ASSUME NEW s \in SequencesFor(r), Here(tables, s) PROVE Here(tables', s)
        <4>1. s \in SeqIds
          BY <1>0, ListedSequences DEF Structure, TypeOK
        <4>2. 1 \in Nat \ {0}
          OBVIOUS
        <4> QED BY <1>0, <2>1, <3>2, <4>1, <4>2, HereReserve
      <3> QED BY <2>1, <3>1, <3>2, CarriedStill
    <2> QED BY <1>0, <2>2, ResidentCarried
  <1>7. ASSUME NEW q \in Requests, cancel(q)
        PROVE  ResidentInv'
    <2>1. /\ release_request(q) /\ active' = RemoveFirst(active, q) /\ pc' = "idle"
          /\ active \in Seq(Requests) /\ IsInjective(active)
      BY <1>0, <1>7, Typed DEF cancel, callVars, QueueInv, QueuesAgree
    <2>2. Range(active') = Range(active) \ {q}
      BY <2>1, RemovedFirst
    <2>3. ASSUME NEW r \in Requests, Running(r)' PROVE Carried(r)
      <3>1. Running(r) /\ r # q
        BY <2>1, <2>2, <2>3 DEF Running, Candidate, Entering
      <3>2. SequencesFor(r)' = SequencesFor(r)
        BY <1>0, <2>1, <3>1, ListsRelease
      <3>3. ASSUME NEW s \in SequencesFor(r), Here(tables, s) PROVE Here(tables', s)
        <4>1. s \in SeqIds
          BY <1>0, ListedSequences DEF Structure, TypeOK
        <4>2. release(SequencesFor(q))
          BY <2>1 DEF release_request
        <4> QED BY <3>3, <4>1, <4>2, HereRelease
      <3> QED BY <3>1, <3>2, <3>3 DEF Carried
    <2> QED BY <1>0, <2>3, ResidentCarried
  <1>8. CASE UNCHANGED vars
    <2>1. /\ tables' = tables /\ sequences_by_request' = sequences_by_request /\ active' = active
          /\ pc' = pc /\ pending' = pending /\ cursor' = cursor
      BY <1>8 DEF vars, cacheVars, queueVars, callVars
    <2>2. \A r \in Requests : Candidate(r)' => Candidate(r)
      BY <2>1 DEF Candidate, candidate
    <2>3. \A r \in Requests : Running(r)' => Carried(r)
      BY <2>1, <2>2, CarriedQuiet
    <2> QED BY <1>0, <2>3, ResidentCarried
  <1> QED BY <1>1, <1>2, <1>3, <1>4, <1>5, <1>6, <1>7, <1>8 DEF SchedulerNext

(* Every block of an active request is in the pool between any two steps, so  *)
(* what schedule_next plans can be executed: preemption takes the request off *)
(* the active queue together with its blocks and touches nobody else's, and   *)
(* resume restores all of them or fails.                                      *)
THEOREM ActiveInPool ==
    SchedulerSpec => []ActiveResident
  <1>1. SchedulerInit => ResidentInv
    <2>1. SUFFICES ASSUME SchedulerInit PROVE ResidentInv
      OBVIOUS
    <2>2. active = <<>> /\ pc = "idle"
      BY <2>1 DEF SchedulerInit
    <2>3. Range(active) = {} /\ pc \notin Entering
      BY <2>2 DEF Range, Entering
    <2> QED BY <2>3 DEF ResidentInv, Candidate
  <1>2. CoreInv /\ CoreInv' /\ SequencesInv /\ ResidentInv /\ [SchedulerNext]_vars => ResidentInv'
    BY NextResident DEF CoreInv
  <1>3. CoreInv /\ ResidentInv => ActiveResident
    <2>1. CoreInv => Range(active) \subseteq Requests
      BY Typed, InRange DEF CoreInv, QueueInv
    <2> QED BY <2>1 DEF ResidentInv, ActiveResident
  <1> QED BY <1>1, <1>2, <1>3, SequencesAlways, PTL DEF SchedulerSpec

-----------------------------------------------------------------------------
(* Reservations.  Reserved(req, A) has as many members as the requests of A   *)
(* reserve blocks.                                                            *)
Reserved(req, A) == {p \in A \X (1 .. total_blocks) : p[2] <= req[p[1]].lifetime}

LEMMA AccountingBridge ==
    /\ AccountingExact <=> lifetime_held = Cardinality(Reserved(request, Range(active)))
    /\ AccountingExact' <=> lifetime_held' = Cardinality(Reserved(request', Range(active')))
    /\ ReservedBlocks = Cardinality(Reserved(request, Range(active)))
  BY DEF AccountingExact, ReservedBlocks, Reserved, total_blocks

SameLifetimes(req, req2, A) == \A q \in A : req2[q].lifetime = req[q].lifetime

LEMMA ReservedSame ==
    ASSUME NEW req, NEW req2, NEW A, SameLifetimes(req, req2, A)
    PROVE  Reserved(req2, A) = Reserved(req, A)
  <1>1. \A p : p \in A \X (1 .. total_blocks) => p[1] \in A
    OBVIOUS
  <1>2. \A p : p \in Reserved(req2, A) <=> p \in Reserved(req, A)
    BY <1>1 DEF Reserved, SameLifetimes
  <1> QED BY <1>2

LEMMA ReservedOne ==
    ASSUME NEW req \in Requested, NEW A \in SUBSET Requests, NEW r \in Requests, r \notin A,
           req[r].lifetime <= total_blocks
    PROVE  /\ Cardinality(Reserved(req, A)) \in Nat
           /\ Cardinality(Reserved(req, A \cup {r})) = Cardinality(Reserved(req, A)) + req[r].lifetime
  <1> DEFINE n == req[r].lifetime
             O == {r} \X (1 .. n)
             h == [i \in 1 .. n |-> <<r, i>>]
             B == Reserved(req, A)
             N == 1 .. n
  <1>1. n \in Nat /\ total_blocks \in Nat /\ n <= total_blocks
    BY Configured DEF Requested, RequestRecord
  <1>2. IsFiniteSet(N) /\ Cardinality(N) = n
    <2>1. 1 \in Int /\ n \in Int /\ (IF 1 <= n THEN n - 1 + 1 ELSE 0) = n  BY <1>1
    <2> HIDE DEF n
    <2>2. IsFiniteSet(1 .. n) /\ Cardinality(1 .. n) = IF 1 <= n THEN n - 1 + 1 ELSE 0
      BY <2>1, FS_Interval
    <2> QED BY <2>1, <2>2
  <1>3. IsFiniteSet(O) /\ Cardinality(O) = n
    <2>1. /\ h \in [N -> O]
          /\ \A x, y \in N : h[x] = h[y] => x = y
          /\ \A b \in O : \E x \in N : h[x] = b
      <3> HIDE DEF n
      <3> QED OBVIOUS
    <2> HIDE DEF N, O, h
    <2>2. IsFiniteSet(O) /\ Cardinality(O) = Cardinality(N)
      BY ONLY <1>2, <2>1, SameCount
    <2> QED BY <1>2, <2>2
  <1>4. IsFiniteSet(B)
    <2>1. IsFiniteSet(A)
      BY SchedulerConfig, FS_Subset
    <2>2. IsFiniteSet(1 .. total_blocks)
      BY <1>1, FS_Interval
    <2>3. IsFiniteSet(A \X (1 .. total_blocks))
      BY <2>1, <2>2, FS_Product
    <2>4. B \subseteq A \X (1 .. total_blocks)
      BY DEF Reserved
    <2> HIDE DEF B
    <2> QED BY <2>3, <2>4, FS_Subset
  <1>5. Reserved(req, A \cup {r}) = B \cup O
    <2>1. ASSUME NEW q \in A \cup {r}, NEW i \in 1 .. total_blocks
          PROVE  <<q, i>> \in Reserved(req, A \cup {r}) <=> <<q, i>> \in B \cup O
      <3>1. <<q, i>> \in Reserved(req, A \cup {r}) <=> i <= req[q].lifetime
        BY DEF Reserved
      <3>2. <<q, i>> \in B <=> q \in A /\ i <= req[q].lifetime
        BY DEF Reserved
      <3>3. <<q, i>> \in O <=> q = r /\ i <= n
        BY <1>1
      <3> HIDE DEF B, O
      <3> QED BY <3>1, <3>2, <3>3
    <2>2. ASSUME NEW p \in B \cup O PROVE \E q \in A \cup {r}, i \in 1 .. total_blocks : p = <<q, i>>
      <3>1. CASE p \in B
        BY <3>1 DEF Reserved
      <3>2. CASE p \in O
        <4>1. PICK i \in 1 .. n : p = <<r, i>>
          BY <3>2
        <4>2. i \in 1 .. total_blocks
          BY <1>1
        <4> QED BY <4>1, <4>2
      <3> QED BY <3>1, <3>2
    <2>3. ASSUME NEW p \in Reserved(req, A \cup {r})
          PROVE  \E q \in A \cup {r}, i \in 1 .. total_blocks : p = <<q, i>>
      BY DEF Reserved
    <2> HIDE DEF B, O
    <2>4. \A p : p \in Reserved(req, A \cup {r}) <=> p \in B \cup O
      BY <2>1, <2>2, <2>3
    <2> QED BY <2>4
  <1>6. B \cap O = {}
    BY DEF Reserved
  <1> HIDE DEF B, O
  <1>7. Cardinality(B) \in Nat /\ Cardinality(B \cup O) = Cardinality(B) + Cardinality(O)
    BY <1>3, <1>4, <1>6, DisjointCount
  <1> QED BY <1>3, <1>5, <1>7 DEF B

(* A request that leaves the active queue gives its reservation back. *)
LEMMA LeavesAccount ==
    ASSUME NEW req \in Requested, NEW A \in SUBSET Requests, NEW r \in A, NEW held,
           req[r].lifetime <= total_blocks, held = Cardinality(Reserved(req, A))
    PROVE  /\ held \in Nat /\ req[r].lifetime \in Nat /\ held >= req[r].lifetime
           /\ Cardinality(Reserved(req, A \ {r})) = held - req[r].lifetime
  <1> DEFINE B == A \ {r}
  <1>1. B \in SUBSET Requests /\ r \in Requests /\ r \notin B /\ B \cup {r} = A
    OBVIOUS
  <1>2. req[r].lifetime \in Nat
    BY <1>1 DEF Requested, RequestRecord
  <1> HIDE DEF B
  <1>3. Cardinality(Reserved(req, B)) \in Nat
        /\ Cardinality(Reserved(req, B \cup {r})) = Cardinality(Reserved(req, B)) + req[r].lifetime
    BY <1>1, ReservedOne
  <1>4. held = Cardinality(Reserved(req, B \cup {r}))
    BY <1>1
  <1>5. /\ held \in Nat /\ held >= req[r].lifetime
        /\ Cardinality(Reserved(req, B)) = held - req[r].lifetime
    BY <1>2, <1>3, <1>4
  <1> QED BY <1>2, <1>5 DEF B

LEMMA HeldFacts ==
    ASSUME QueueInv, ReservedInv
    PROVE  /\ request \in Requested /\ active \in Seq(Requests) /\ IsInjective(active)
           /\ Range(active) \in SUBSET Requests
           /\ lifetime_held = Cardinality(Reserved(request, Range(active)))
           /\ \A r \in Requests : request[r].lifetime <= total_blocks /\ request[r].lifetime \in Nat
  <1>1. request \in Requested /\ active \in Seq(Requests) /\ IsInjective(active)
    BY Typed DEF QueueInv, QueuesAgree, Requested
  <1>2. Range(active) \in SUBSET Requests
    BY <1>1, InRange
  <1>3. lifetime_held = Cardinality(Reserved(request, Range(active)))
    BY AccountingBridge DEF ReservedInv
  <1>4. \A r \in Requests : request[r].lifetime <= total_blocks /\ request[r].lifetime \in Nat
    BY <1>1 DEF ReservedInv, Requested, RequestRecord
  <1> QED BY <1>1, <1>2, <1>3, <1>4

(* What a step must show about the lifetimes besides the sum. *)
LifetimesOK == \A r \in Requests : /\ request[r].lifetime <= total_blocks
                                   /\ Waiting(r) => request[r].lifetime = 0

LEMMA ReservedParts ==
    /\ ReservedInv <=> LifetimesOK /\ (pc \in Entering => lifetime_held + needed <= total_blocks) /\ AccountingExact
    /\ ReservedInv' <=> LifetimesOK' /\ (pc' \in Entering => lifetime_held' + needed' <= total_blocks) /\ AccountingExact'
  BY DEF ReservedInv, LifetimesOK, total_blocks

(* A step that changes no lifetime, no membership of the active queue and not *)
(* the counter.                                                               *)
LEMMA ReservedQuiet ==
    ASSUME QueueInv, ReservedInv, lifetime_held' = lifetime_held, Range(active') = Range(active),
           \A q \in Requests : request'[q].lifetime = request[q].lifetime,
           \A q \in Requests : Waiting(q)' => request[q].lifetime = 0,
           pc' \in Entering => lifetime_held + needed' <= total_blocks
    PROVE  ReservedInv'
  <1>1. Range(active) \in SUBSET Requests
    BY HeldFacts
  <1>2. SameLifetimes(request, request', Range(active))
    BY <1>1 DEF SameLifetimes
  <1> DEFINE A == Range(active)
  <1>3. Reserved(request', A) = Reserved(request, A)
    BY <1>2, ReservedSame
  <1>4. AccountingExact'
    BY <1>3, AccountingBridge DEF ReservedInv
  <1>5. LifetimesOK'
    BY DEF ReservedInv, LifetimesOK, total_blocks
  <1> QED BY <1>4, <1>5, ReservedParts

(* r leaves the active queue. *)
LEMMA ReservedLeave ==
    ASSUME QueueInv, ReservedInv, NEW r \in Requests, r \in Range(active),
           lifetime_held' = HeldWithout(r), Range(active') = Range(active) \ {r},
           \A q \in Requests : q # r => request'[q].lifetime = request[q].lifetime
    PROVE  AccountingExact'
  <1> DEFINE A == Range(active)
             B == Range(active')
             n == request[r].lifetime
  <1>1. /\ request \in Requested /\ A \in SUBSET Requests /\ r \in A /\ n <= total_blocks
        /\ lifetime_held = Cardinality(Reserved(request, A)) /\ B = A \ {r}
    BY HeldFacts
  <1> HIDE DEF A, B
  <1>2. /\ lifetime_held \in Nat /\ n \in Nat /\ lifetime_held >= n
        /\ Cardinality(Reserved(request, A \ {r})) = lifetime_held - n
    BY <1>1, LeavesAccount
  <1>3. HeldWithout(r) = lifetime_held - n
    BY <1>2 DEF HeldWithout
  <1>4. SameLifetimes(request, request', B)
    BY <1>1 DEF SameLifetimes
  <1>5. Reserved(request', B) = Reserved(request, B)
    BY <1>4, ReservedSame
  <1> QED BY <1>1, <1>2, <1>3, <1>5, AccountingBridge DEF B

(* r joins the active queue. *)
LEMMA ReservedJoin ==
    ASSUME QueueInv, ReservedInv, request' \in Requested, NEW r \in Requests, r \notin Range(active),
           Range(active') = Range(active) \cup {r},
           request'[r].lifetime <= total_blocks, lifetime_held' = lifetime_held + request'[r].lifetime,
           \A q \in Requests : q # r => request'[q].lifetime = request[q].lifetime
    PROVE  AccountingExact'
  <1> DEFINE A == Range(active)
  <1>1. A \in SUBSET Requests /\ lifetime_held = Cardinality(Reserved(request, A))
    BY HeldFacts
  <1> HIDE DEF A
  <1>2. SameLifetimes(request, request', A)
    BY <1>1 DEF SameLifetimes, A
  <1>3. Reserved(request', A) = Reserved(request, A)
    BY <1>2, ReservedSame
  <1> DEFINE req == request'
  <1>4. req \in Requested /\ r \notin A /\ req[r].lifetime <= total_blocks
    BY DEF A
  <1>5. Cardinality(Reserved(req, A \cup {r})) = Cardinality(Reserved(req, A)) + req[r].lifetime
    <2> HIDE DEF req
    <2> QED BY <1>1, <1>4, ReservedOne
  <1> QED BY <1>1, <1>3, <1>5, AccountingBridge DEF A

LEMMA ReservedPark ==
    ASSUME QueueInv, ReservedInv, NEW v \in Requests, v \in Range(active), Park(v), pc' \notin Entering
    PROVE  ReservedInv'
  <1>1. /\ lifetime_held' = HeldWithout(v) /\ active' = RemoveFirst(active, v)
        /\ active \in Seq(Requests) /\ IsInjective(active)
    BY HeldFacts DEF Park
  <1>2. Range(active') = Range(active) \ {v}
    BY <1>1, RemovedFirst
  <1>3. \A q \in Requests : request'[q] = IF q = v THEN [request[v] EXCEPT !.state = "Preempted"] ELSE request[q]
    BY ParkQueues
  <1>4. request[v] \in RequestRecord
    BY HeldFacts DEF Requested
  <1>5. /\ \A q \in Requests : request'[q].lifetime = request[q].lifetime
        /\ \A q \in Requests : q # v => State(q)' = State(q)
        /\ State(v)' = "Preempted"
    BY <1>3, <1>4 DEF State, RequestRecord
  <1>6. AccountingExact'
    BY <1>1, <1>2, <1>5, ReservedLeave
  <1>7. LifetimesOK'
    BY <1>5 DEF ReservedInv, LifetimesOK, Waiting, total_blocks
  <1> QED BY <1>6, <1>7, ReservedParts

LEMMA ScheduleReserved ==
    ASSUME QueueInv, ReservedInv, ScheduleStep
    PROVE  ReservedInv'
  <1>1. CASE schedule_next \/ AdmitMore \/ try_admit \/ batch
    <2>1. lifetime_held' = lifetime_held /\ active' = active /\ request' = request
      BY <1>1 DEF schedule_next, AdmitMore, try_admit, batch, queueVars, Refused
    <2>2. pc' \notin Entering
      BY <1>1, SchedulePlaces
    <2>3. \A q \in Requests : Waiting(q)' => request[q].lifetime = 0
      BY <2>1, SameRequests DEF ReservedInv
    <2> QED BY <2>1, <2>2, <2>3, ReservedQuiet
  <1>2. CASE reclaim_for_admission
    <2>1. pc' \notin Entering
      BY <1>2, SchedulePlaces
    <2>2. CASE UnderPressure /\ Park(victim)
      <3> DEFINE v == victim
      <3>1. v \in Requests /\ v \in Range(active) /\ Park(v)
        BY <2>2, VictimActive
      <3> HIDE DEF v
      <3> QED BY <2>1, <3>1, ReservedPark
    <2>3. CASE UNCHANGED <<cacheVars, queueVars>>
      <3>1. lifetime_held' = lifetime_held /\ active' = active /\ request' = request
        BY <2>3 DEF queueVars
      <3>2. \A q \in Requests : Waiting(q)' => request[q].lifetime = 0
        BY <3>1, SameRequests DEF ReservedInv
      <3> QED BY <2>1, <3>1, <3>2, ReservedQuiet
    <2> QED BY <1>2, <2>2, <2>3 DEF reclaim_for_admission
  <1>3. CASE create \/ attach
    <2>1. lifetime_held' = lifetime_held /\ active' = active /\ request' = request
      BY <1>3 DEF create, attach, queueVars, Refused
    <2>2. \A q \in Requests : Waiting(q)' => request[q].lifetime = 0
      BY <2>1, SameRequests DEF ReservedInv
    <2>3. pc' \in Entering => lifetime_held + needed' <= total_blocks
      <3>1. CASE create
        BY <3>1, SchedulePlaces DEF create
      <3>2. CASE attach
        <4>1. needed' = needed /\ pc \in Entering
          BY <3>2, SchedulePlaces DEF attach
        <4> QED BY <4>1 DEF ReservedInv
      <3> QED BY <1>3, <3>1, <3>2
    <2> QED BY <2>1, <2>2, <2>3, ReservedQuiet
  <1>4. CASE reserve
    <2>1. pc \in Scanning /\ pc \in Fitting
      BY <1>4 DEF reserve, Scanning, Fitting
    <2>2. CASE Refused
      <3>1. lifetime_held' = lifetime_held /\ active' = active /\ request' = request /\ pc' \notin Entering
        BY <2>2, SchedulePlaces DEF Refused, queueVars
      <3>2. \A q \in Requests : Waiting(q)' => request[q].lifetime = 0
        BY <3>1, SameRequests DEF ReservedInv
      <3> QED BY <3>1, <3>2, ReservedQuiet
    <2>3. CASE Admitted
      <3> DEFINE c == candidate
      <3>1. c \in Requests /\ State(c) = "Pending"
        BY <2>1, Scanned
      <3>2. /\ QueueInv' /\ active' = Append(active, c)
            /\ request'[c].state = "Prefill" /\ request'[c].lifetime = needed
            /\ \A q \in Requests : q # c => /\ request'[q].state = request[q].state
                                            /\ request'[q].lifetime = request[q].lifetime
            /\ lifetime_held' = lifetime_held + needed /\ pc' = "admit"
        BY <2>1, <2>3, AdmittedQueues
      <3> HIDE DEF c
      <3>3. needed <= total_blocks
        BY <2>1 DEF QueueInv, ScanShaped
      <3>4. c \notin Range(active)
        BY <3>1 DEF QueueInv, QueuesAgree
      <3>5. Range(active') = Range(active) \cup {c}
        BY <3>1, <3>2, HeldFacts, AppendedQueue
      <3>6. request' \in Requested
        BY <3>2, TypedAfter DEF QueueInv, Requested
      <3>7. AccountingExact'
        BY <3>1, <3>2, <3>3, <3>4, <3>5, <3>6, ReservedJoin
      <3>8. LifetimesOK'
        <4>1. ASSUME NEW q \in Requests
              PROVE  /\ request'[q].lifetime <= total_blocks
                     /\ Waiting(q)' => request'[q].lifetime = 0
          <5>1. CASE q = c
            BY <3>2, <3>3, <5>1 DEF Waiting, State
          <5>2. CASE q # c
            BY <3>2, <5>2 DEF Waiting, State, ReservedInv
          <5> QED BY <5>1, <5>2
        <4> QED BY <4>1 DEF LifetimesOK, total_blocks
      <3>9. pc' \notin Entering
        BY <3>2 DEF Entering
      <3> QED BY <3>7, <3>8, <3>9, ReservedParts
    <2> QED BY <1>4, <2>2, <2>3 DEF reserve
  <1> QED BY <1>1, <1>2, <1>3, <1>4 DEF ScheduleStep

(* The engine resumes a preempted request before it cancels it. *)
ResumesFirst == "cancel preempted" \notin EngineCalls

(* In either case no preempted request is cancelled. *)
NoneCancelled == ResumesFirst \/ \A r \in Requests : State(r) # "Preempted"

LEMMA CancelsKnown ==
    ASSUME NoneCancelled, NEW r \in Requests, cancel(r)
    PROVE  State(r) # "Preempted"
  BY DEF NoneCancelled, ResumesFirst, cancel

LEMMA NextReserved ==
    ASSUME NoneCancelled, QueueInv, QueueInv', ReservedInv, [SchedulerNext]_vars
    PROVE  ReservedInv'
  <1>0. request \in [Requests -> RequestRecord] /\ QueuesAgree
    BY Typed DEF QueueInv
  <1>1. CASE ScheduleStep
    BY <1>1, ScheduleReserved
  <1>2. ASSUME NEW r \in Requests, enqueue(r)
        PROVE  ReservedInv'
    <2>1. /\ State(r) = "Unknown" /\ active' = active /\ lifetime_held' = lifetime_held /\ pc' = "idle"
          /\ request' = [request EXCEPT ![r] =
                [state |-> "Pending", remaining |-> prompt_tokens[r], skips |-> 0, lifetime |-> 0]]
      BY <1>2 DEF enqueue, callVars
    <2>2. request[r].lifetime = 0
      BY <2>1 DEF ReservedInv, Waiting
    <2>3. /\ \A q \in Requests : request'[q].lifetime = request[q].lifetime
          /\ \A q \in Requests : q # r => State(q)' = State(q)
      BY <1>0, <2>1, <2>2 DEF State
    <2>4. \A q \in Requests : Waiting(q)' => request[q].lifetime = 0
      BY <2>2, <2>3 DEF ReservedInv, Waiting
    <2> QED BY <2>1, <2>3, <2>4, ReservedQuiet DEF Entering
  <1>3. ASSUME NEW r \in Requests, NEW n \in 0 .. prompt_tokens[r], complete_step(r, n)
        PROVE  ReservedInv'
    <2>1. State(r) = "Prefill" /\ active' = active /\ lifetime_held' = lifetime_held /\ pc' = "idle"
      BY <1>3 DEF complete_step, callVars
    <2>2. /\ \A q \in Requests : request'[q].lifetime = request[q].lifetime
          /\ \A q \in Requests : q # r => State(q)' = State(q)
          /\ State(r)' \in {"Prefill", "Decode"}
      BY <1>0, <1>3, <2>1 DEF complete_step, State, RequestRecord
    <2>3. \A q \in Requests : Waiting(q)' => request[q].lifetime = 0
      BY <2>2 DEF ReservedInv, Waiting
    <2> QED BY <2>1, <2>2, <2>3, ReservedQuiet DEF Entering
  <1>4. ASSUME NEW r \in Requests, preempt(r)
        PROVE  ReservedInv'
    <2>1. r \in Range(active) /\ Park(r) /\ pc' \notin Entering
      BY <1>4 DEF preempt, callVars, Entering
    <2> QED BY <2>1, ReservedPark
  <1>5. ASSUME NEW r \in Requests, resume(r)
        PROVE  ReservedInv'
    <2>1. /\ r \in Range(preempted) /\ active' = Append(active, r) /\ pc' = "idle"
          /\ lifetime_held' = lifetime_held + request[r].lifetime
      BY <1>5 DEF resume, callVars
    <2>2. State(r) = "Preempted" /\ r \notin Range(active)
      BY <1>0, <2>1 DEF QueuesAgree
    <2>3. /\ \A q \in Requests : request'[q].lifetime = request[q].lifetime
          /\ \A q \in Requests : q # r => State(q)' = State(q)
          /\ State(r)' \in {"Prefill", "Decode"}
      BY <1>0, <1>5 DEF resume, State, RequestRecord
    <2>4. Range(active') = Range(active) \cup {r} /\ request[r].lifetime <= total_blocks
      <3>1. active \in Seq(Requests) /\ request[r].lifetime <= total_blocks
        BY HeldFacts
      <3> QED BY <2>1, <3>1, AppendedQueue
    <2>5. request' \in Requested
      BY TypedAfter DEF QueueInv, Requested
    <2>6. AccountingExact'
      BY <2>1, <2>2, <2>3, <2>4, <2>5, ReservedJoin
    <2>7. LifetimesOK'
      BY <2>3 DEF ReservedInv, LifetimesOK, Waiting, total_blocks
    <2> QED BY <2>1, <2>6, <2>7, ReservedParts DEF Entering
  <1>6. ASSUME NEW r \in Requests, publish(r) \/ \E s \in SequencesFor(r) : grow(r, s)
        PROVE  ReservedInv'
    <2>1. lifetime_held' = lifetime_held /\ active' = active /\ request' = request /\ pc' = "idle"
      BY <1>6 DEF publish, grow, Executing, queueVars, callVars
    <2>2. \A q \in Requests : Waiting(q)' => request[q].lifetime = 0
      BY <2>1, SameRequests DEF ReservedInv
    <2> QED BY <2>1, <2>2, ReservedQuiet DEF Entering
  <1>7. ASSUME NEW r \in Requests, cancel(r)
        PROVE  ReservedInv'
    <2>1. /\ State(r) # "Unknown" /\ State(r) # "Preempted" /\ lifetime_held' = HeldWithout(r)
          /\ active' = RemoveFirst(active, r) /\ request' = [request EXCEPT ![r] = NoRequestState]
          /\ pc' = "idle"
      BY <1>7, CancelsKnown DEF cancel, callVars
    <2>2. Range(active') = Range(active) \ {r}
      BY <2>1, HeldFacts, RemovedFirst
    <2>3. /\ \A q \in Requests : q # r => request'[q] = request[q]
          /\ request'[r].lifetime = 0
      BY <1>0, <2>1 DEF NoRequestState
    <2>4. LifetimesOK'
      <3>1. 0 <= total_blocks
        BY Configured
      <3> QED BY <2>3, <3>1 DEF ReservedInv, LifetimesOK, Waiting, State, total_blocks
    <2>5. CASE r \in Range(active)
      <3>1. AccountingExact'
        BY <2>1, <2>2, <2>3, <2>5, ReservedLeave
      <3> QED BY <2>1, <2>4, <3>1, ReservedParts DEF Entering
    <2>6. CASE r \notin Range(active)
      <3>1. State(r) \in {"Unknown", "Pending", "Prefill", "Decode", "Preempted"}
        BY <1>0 DEF State, RequestRecord
      <3>2. Waiting(r)
        BY <1>0, <2>1, <2>6, <3>1 DEF QueuesAgree, Waiting
      <3>3. request[r].lifetime = 0
        BY <3>2 DEF ReservedInv
      <3>4. lifetime_held' = lifetime_held
        <4>1. ~(request[r].lifetime > 0)
          BY <3>3
        <4>2. HeldWithout(r) = lifetime_held
          BY <4>1 DEF HeldWithout
        <4> QED BY <2>1, <4>2
      <3>5. Range(active') = Range(active) /\ \A q \in Requests : request'[q].lifetime = request[q].lifetime
        BY <2>2, <2>3, <2>6, <3>3
      <3>6. \A q \in Requests : Waiting(q)' => request[q].lifetime = 0
        BY <2>3, <3>3 DEF ReservedInv, Waiting, State
      <3> QED BY <2>1, <3>4, <3>5, <3>6, ReservedQuiet DEF Entering
    <2> QED BY <2>5, <2>6
  <1>8. CASE UNCHANGED vars
    <2>1. /\ lifetime_held' = lifetime_held /\ active' = active /\ request' = request
          /\ pc' = pc /\ needed' = needed
      BY <1>8 DEF vars, queueVars, callVars
    <2>2. \A q \in Requests : Waiting(q)' => request[q].lifetime = 0
      BY <2>1, SameRequests DEF ReservedInv
    <2>3. pc' \in Entering => lifetime_held + needed' <= total_blocks
      BY <2>1 DEF ReservedInv
    <2> QED BY <2>1, <2>2, <2>3, ReservedQuiet
  <1> QED BY <1>1, <1>2, <1>3, <1>4, <1>5, <1>6, <1>7, <1>8 DEF SchedulerNext

LEMMA InitReserved ==
    ASSUME SchedulerInit
    PROVE  ReservedInv
  <1>1. /\ request = [r \in Requests |-> NoRequestState] /\ active = <<>> /\ lifetime_held = 0
        /\ pc = "idle"
    BY DEF SchedulerInit
  <1>2. Range(active) = {}
    BY <1>1 DEF Range
  <1>3. Reserved(request, Range(active)) = {}
    BY <1>2 DEF Reserved
  <1>4. AccountingExact
    BY <1>1, <1>3, AccountingBridge, FS_EmptySet
  <1>5. LifetimesOK
    BY <1>1, Configured DEF LifetimesOK, NoRequestState
  <1> QED BY <1>1, <1>4, <1>5, ReservedParts DEF Entering

LEMMA ReservedAlways ==
    ASSUME ResumesFirst
    PROVE  SchedulerSpec => []ReservedInv
  <1>1. SchedulerInit => ReservedInv
    BY InitReserved
  <1>2. CoreInv /\ CoreInv' /\ ReservedInv /\ [SchedulerNext]_vars => ReservedInv'
    BY NextReserved DEF CoreInv, NoneCancelled
  <1> QED BY <1>1, <1>2, SchedulerInvariant, PTL DEF SchedulerSpec

(* As long as the engine resumes what it preempted before it cancels it,      *)
(* lifetime_held_ is the sum of the reservations of the active requests after *)
(* any sequence of admissions, preemptions, resumptions and cancellations;    *)
(* MCCancelPreempted shows what cancelling a preempted request does to it.    *)
THEOREM ReservationsCounted ==
    ASSUME ResumesFirst
    PROVE  SchedulerSpec => []AccountingExact
  <1>1. ReservedInv => AccountingExact
    BY DEF ReservedInv
  <1> QED BY <1>1, ReservedAlways, PTL

(* Under the same condition an admitted request's prompt and decode budget    *)
(* fit the pool beside the reservations of all active requests.               *)
THEOREM AdmissionsFit ==
    ASSUME ResumesFirst
    PROVE  SchedulerSpec => []AdmissionCovered
  <1>1. ReservedInv => AdmissionCovered
    BY DEF ReservedInv, AdmissionCovered, AccountingExact, Entering
  <1> QED BY <1>1, ReservedAlways, PTL

-----------------------------------------------------------------------------
(* The lengths of the block tables after a step. *)
Blocks(T, s) == Len(T[s][1])

LEMMA LengthsReserve ==
    ASSUME Structure, NEW s \in SeqIds, NEW n \in Nat \ {0}, reserve_tokens(s, n), NEW t \in SeqIds
    PROVE  /\ Blocks(tables', t) = IF t = s THEN Blocks(tables, s) + blocks_for(n) ELSE Blocks(tables, t)
           /\ Blocks(tables, t) \in Nat
  <1>1. PICK g \in Injection(Tables \X (1 .. blocks_for(n)), FreeFrames(ref_count)) :
            tables' = [tables EXCEPT ![s] = [l \in Tables |->
                Appended(tables[s][l], [i \in 1 .. blocks_for(n) |-> g[<<l, i>>]])]]
    BY DEF reserve_tokens
  <1>2. tables \in [SeqIds -> [Tables -> Seq(Entry)]] /\ 1 \in Tables /\ blocks_for(n) \in Nat
    BY ConfigFacts DEF Structure, TypeOK
  <1>3. Blocks(tables, t) \in Nat
    BY <1>2, LenProperties DEF Blocks
  <1>4. CASE t # s
    BY <1>1, <1>2, <1>3, <1>4 DEF Blocks
  <1>5. CASE t = s
    <2> DEFINE fr == [i \in 1 .. blocks_for(n) |-> g[<<1, i>>]]
    <2>1. fr \in [1 .. blocks_for(n) -> Frames]
      BY <1>2 DEF Injection, FreeFrames
    <2>2. tables'[s][1] = Appended(tables[s][1], fr)
      BY <1>1, <1>2
    <2> HIDE DEF fr
    <2>3. Len(Appended(tables[s][1], fr)) = Len(tables[s][1]) + blocks_for(n)
      BY <1>2, <2>1, AppendedTable, ZenonT(30)
    <2> QED BY <1>3, <1>5, <2>2, <2>3 DEF Blocks
  <1> QED BY <1>3, <1>4, <1>5

LEMMA LengthsRelease ==
    ASSUME NEW S, release(S), NEW t \in SeqIds, t \notin S
    PROVE  tables'[t] = tables[t]
  BY DEF release

-----------------------------------------------------------------------------
(* Blocks and tokens: n tokens do not fit fewer than blocks_for(n) blocks. *)
LEMMA BlocksNeeded ==
    ASSUME NEW n \in Nat, NEW b \in Nat
    PROVE  /\ b * TokensPerBlock \in Nat
           /\ b * TokensPerBlock < n <=> b < blocks_for(n)
  <1> DEFINE T == TokensPerBlock
             m == n + T - 1
             q == m \div T
  <1>1. T \in Nat /\ T > 0
    BY ConfigFacts
  <1> HIDE DEF T
  <1>2. m \in Nat
    BY <1>1
  <1> HIDE DEF m
  <1>3. q \in Nat /\ m % T \in Nat /\ m % T < T /\ m = q * T + (m % T)
    BY <1>1, <1>2, Division
  <1>4. blocks_for(n) = q
    BY DEF blocks_for, q, m, T
  <1> HIDE DEF q
  <1>5. b * T \in Nat /\ q * T \in Nat
    BY <1>1, <1>3
  <1>6. q * T <= n + T - 1 /\ n <= q * T
    BY <1>1, <1>3, <1>5 DEF m
  <1>7. b < q => b * T < n
    <2>1. b < q => b * T + T <= q * T
      BY <1>1, <1>3, ItemsApart
    <2> QED BY <1>1, <1>5, <1>6, <2>1
  <1>8. b * T < n => b < q
    <2>1. q < b => q * T + T <= b * T
      BY <1>1, <1>3, ItemsApart
    <2>2. q = b => q * T = b * T
      OBVIOUS
    <2> QED BY <1>1, <1>3, <1>5, <1>6, <2>1, <2>2
  <1> QED BY <1>4, <1>5, <1>7, <1>8 DEF T

LEMMA BlocksMore ==
    ASSUME NEW n \in Nat, NEW m \in Nat, n <= m
    PROVE  blocks_for(n) <= blocks_for(m) /\ blocks_for(1) = 1
  <1>1. blocks_for(n) \in Nat /\ blocks_for(m) \in Nat /\ blocks_for(1) \in Nat /\ TokensPerBlock \in Nat \ {0}
    BY ConfigFacts
  <1>2. blocks_for(n) <= blocks_for(m)
    <2> DEFINE b == blocks_for(m)
    <2>1. b * TokensPerBlock \in Nat /\ ~(b * TokensPerBlock < m) /\ (b * TokensPerBlock < n <=> b < blocks_for(n))
      BY <1>1, BlocksNeeded
    <2> HIDE DEF b
    <2>2. ~(b < blocks_for(n))
      BY <2>1
    <2> QED BY <1>1, <2>2 DEF b
  <1>3. 0 < blocks_for(1) /\ ~(1 < blocks_for(1))
    <2>1. 0 * TokensPerBlock < 1 <=> 0 < blocks_for(1)
      BY BlocksNeeded
    <2>2. 1 * TokensPerBlock < 1 <=> 1 < blocks_for(1)
      BY BlocksNeeded
    <2> QED BY <1>1, <2>1, <2>2
  <1> QED BY <1>1, <1>2, <1>3

-----------------------------------------------------------------------------
(* Without preemption and sharing: a request has its first sequence only, it  *)
(* reserves its whole budget when it is admitted, its table never grows past  *)
(* the budget, and no prefix record holds a frame.                            *)
Unpreempted == preemption_watermark_blocks = 0 /\ "preempt" \notin EngineCalls
Unshared == \A r \in Requests : prefix_key[r] = NoKey

Budget(r) == blocks_for(prompt_tokens[r] + max_decode_tokens[r])
WithinBudget(r) ==
    /\ request[r].lifetime = Budget(r) * NumTables
    /\ Blocks(tables, root_sequence_id[r]) <= Budget(r)
HonouredInv ==
    /\ lifetime_held <= total_blocks
    /\ \A k \in Keys : prefix_index[k] = {}
    /\ \A r \in Requests : /\ State(r) # "Preempted"
                           /\ SequencesFor(r) \subseteq {root_sequence_id[r]}
                           /\ r \in Range(active) => WithinBudget(r)
    /\ pc \in Fitting => needed = Budget(candidate) * NumTables
    /\ pc \in Entering => Blocks(tables, root_sequence_id[candidate]) = 0

(* The place of a block among the reserved ones of its request. *)
Place(p) == <<request_of[p[1]], Number(p[2][2] - 1, NumTables, p[2][1])>>

LEMMA PlacesReserved ==
    ASSUME CoreInv, SequencesInv, ReservedInv, HonouredInv, NEW p \in MappedIn(tables, sequences)
    PROVE  /\ request_of[p[1]] \in Range(active) /\ p[1] = root_sequence_id[request_of[p[1]]]
           /\ Place(p) \in Reserved(request, Range(active))
           /\ p[2][2] - 1 \in Nat /\ p[2][1] \in 1 .. NumTables /\ p[2][2] <= Blocks(tables, p[1])
           /\ p = <<p[1], <<p[2][1], p[2][2]>>>>
  <1> DEFINE s == p[1]
             l == p[2][1]
             i == p[2][2]
             r == request_of[s]
  <1>1. tables \in TableMaps /\ Even(tables) /\ sequences \in SUBSET SeqIds
    BY TablesFacts DEF CoreInv, Structure, TypeOK
  <1>2. s \in sequences /\ l \in Tables /\ i \in 1 .. Len(tables[s][l]) /\ p = <<s, <<l, i>>>>
    BY <1>1, MappedCells
  <1> HIDE DEF s, l, i
  <1>3. Len(tables[s][l]) = Blocks(tables, s) /\ Blocks(tables, s) \in Nat
    BY <1>1, <1>2, ConfigFacts, LenProperties DEF Even, TableMaps, Blocks
  <1>4. r \in Requests /\ s \in SequencesFor(r)
    BY <1>1, <1>2 DEF CoreInv, Structure, TablesShaped, RequestsListed
  <1>5. s = root_sequence_id[r]
    BY <1>4 DEF HonouredInv
  <1> HIDE DEF r
  <1>6. r \in Range(active)
    <2>1. ~Candidate(r)
      BY <1>2, <1>3, <1>5 DEF HonouredInv, Candidate
    <2>2. ~Waiting(r)
      BY <1>4, <2>1 DEF SequencesInv
    <2>3. request \in [Requests -> RequestRecord]
      BY Typed DEF CoreInv, QueueInv
    <2>4. State(r) \in {"Prefill", "Decode"}
      BY <1>4, <2>2, <2>3 DEF Waiting, State, RequestRecord, HonouredInv
    <2> QED BY <1>4, <2>4 DEF CoreInv, QueueInv, QueuesAgree
  <1>7. WithinBudget(r) /\ Budget(r) \in Nat /\ NumTables \in Nat /\ total_blocks \in Nat
    <2>1. prompt_tokens[r] + max_decode_tokens[r] \in Nat
      BY <1>4, Configured
    <2> QED BY <1>4, <1>6, <2>1, Configured, ConfigFacts DEF HonouredInv, Budget
  <1>8. i - 1 \in Nat /\ i - 1 < Budget(r) /\ l \in 1 .. NumTables /\ i <= Blocks(tables, s)
    BY <1>2, <1>3, <1>5, <1>7 DEF WithinBudget, Tables
  <1> DEFINE x == Number(i - 1, NumTables, l)
  <1>9. x \in 1 .. request[r].lifetime
    <2>1. (i - 1) * NumTables \in Nat /\ (i - 1) * NumTables + NumTables <= Budget(r) * NumTables
      BY <1>7, <1>8, ItemsApart
    <2>2. Budget(r) * NumTables \in Nat
      BY <1>7
    <2>3. (i - 1) * NumTables + l \in 1 .. Budget(r) * NumTables
      BY <1>7, <1>8, <2>1, <2>2
    <2> QED BY <1>7, <2>3 DEF Number, WithinBudget
  <1>10. request[r].lifetime <= total_blocks /\ request[r].lifetime \in Nat
    BY <1>4, HeldFacts DEF CoreInv
  <1>11. x \in 1 .. total_blocks /\ x <= request[r].lifetime
    BY <1>7, <1>9, <1>10
  <1>12. <<r, x>> \in Reserved(request, Range(active))
    <2> HIDE DEF x
    <2> QED BY <1>6, <1>11 DEF Reserved
  <1> QED BY <1>2, <1>5, <1>6, <1>8, <1>12 DEF Place, s, l, i, r

LEMMA PlaceUnique ==
    ASSUME NEW a \in Nat, NEW b \in Nat, NEW l \in 1 .. NumTables, NEW k \in 1 .. NumTables,
           Number(a, NumTables, l) = Number(b, NumTables, k)
    PROVE  a = b /\ l = k
  <1>1. NumTables \in Nat /\ l - 1 \in Nat /\ k - 1 \in Nat /\ l - 1 < NumTables /\ k - 1 < NumTables
    BY ConfigFacts
  <1>2. a * NumTables \in Nat /\ b * NumTables \in Nat
    BY <1>1
  <1>3. Number(a, NumTables, l - 1) = Number(b, NumTables, k - 1)
    BY <1>1, <1>2 DEF Number
  <1>4. a = b /\ l - 1 = k - 1
    BY <1>1, <1>3, DigitsUnique
  <1> QED BY <1>1, <1>4

LEMMA PlacesApart ==
    ASSUME CoreInv, SequencesInv, ReservedInv, HonouredInv,
           NEW p \in MappedIn(tables, sequences), NEW q \in MappedIn(tables, sequences), Place(p) = Place(q)
    PROVE  p = q
  <1>1. /\ p[1] = root_sequence_id[request_of[p[1]]] /\ p[2][2] - 1 \in Nat /\ p[2][1] \in 1 .. NumTables
        /\ p = <<p[1], <<p[2][1], p[2][2]>>>>
    BY PlacesReserved
  <1>2. /\ q[1] = root_sequence_id[request_of[q[1]]] /\ q[2][2] - 1 \in Nat /\ q[2][1] \in 1 .. NumTables
        /\ q = <<q[1], <<q[2][1], q[2][2]>>>>
    BY PlacesReserved
  <1>3. /\ request_of[p[1]] = request_of[q[1]]
        /\ Number(p[2][2] - 1, NumTables, p[2][1]) = Number(q[2][2] - 1, NumTables, q[2][1])
    BY DEF Place
  <1>4. p[2][2] - 1 = q[2][2] - 1 /\ p[2][1] = q[2][1]
    BY <1>1, <1>2, <1>3, PlaceUnique
  <1>5. p[2][2] \in Nat /\ q[2][2] \in Nat
    <2>1. p[2] \in Cells /\ q[2] \in Cells
      BY DEF MappedIn
    <2> QED BY <2>1 DEF Cells
  <1>6. p[2][2] = q[2][2] /\ p[1] = q[1]
    BY <1>1, <1>2, <1>3, <1>4, <1>5
  <1> QED BY <1>1, <1>2, <1>4, <1>6

(* A request that has fewer blocks than its budget leaves as many of its      *)
(* reserved places unused as a block needs frames.                            *)
Unused(r) == {<<r, Number(Blocks(tables, root_sequence_id[r]), NumTables, l)>> : l \in Tables}

LEMMA UnusedPlaces ==
    ASSUME CoreInv, SequencesInv, ReservedInv, HonouredInv, NEW r \in Range(active),
           Blocks(tables, root_sequence_id[r]) < Budget(r)
    PROVE  /\ Unused(r) \subseteq Reserved(request, Range(active))
           /\ IsFiniteSet(Unused(r)) /\ Cardinality(Unused(r)) = NumTables
           /\ \A p \in MappedIn(tables, sequences) : Place(p) \notin Unused(r)
  <1> DEFINE n == Blocks(tables, root_sequence_id[r])
  <1>1. r \in Requests /\ NumTables \in Nat /\ total_blocks \in Nat
    BY HeldFacts, Configured DEF CoreInv
  <1>2. n \in Nat
    BY <1>1, Configured, ConfigFacts, LenProperties DEF Blocks, CoreInv, Structure, TypeOK
  <1>3. Budget(r) \in Nat
    <2>1. prompt_tokens[r] + max_decode_tokens[r] \in Nat
      BY <1>1, Configured
    <2> QED BY <2>1, ConfigFacts DEF Budget
  <1>4. request[r].lifetime = Budget(r) * NumTables /\ request[r].lifetime <= total_blocks /\ request[r].lifetime \in Nat
    BY <1>1, HeldFacts DEF HonouredInv, WithinBudget, CoreInv
  <1> HIDE DEF n
  <1>5. ASSUME NEW l \in Tables PROVE <<r, Number(n, NumTables, l)>> \in Reserved(request, Range(active))
    <2>1. n * NumTables \in Nat /\ n * NumTables + NumTables <= Budget(r) * NumTables
      BY <1>1, <1>2, <1>3, ItemsApart DEF n
    <2>2. n * NumTables + l \in 1 .. total_blocks /\ n * NumTables + l <= request[r].lifetime
      BY <1>1, <1>4, <2>1 DEF Tables
    <2> QED BY <2>2 DEF Number, Reserved
  <1>6. Unused(r) \subseteq Reserved(request, Range(active))
    BY <1>5 DEF Unused, n
  <1>7. IsFiniteSet(Unused(r)) /\ Cardinality(Unused(r)) = NumTables
    <2> DEFINE h == [l \in Tables |-> <<r, Number(n, NumTables, l)>>]
               U == Unused(r)
    <2>1. IsFiniteSet(Tables) /\ Cardinality(Tables) = NumTables
      <3>1. 1 \in Int /\ NumTables \in Int /\ 1 <= NumTables
        BY ConfigFacts
      <3>2. IsFiniteSet(1 .. NumTables) /\ Cardinality(1 .. NumTables) = NumTables
        BY <3>1, FS_Interval
      <3> QED BY <3>2 DEF Tables
    <2>2. h \in [Tables -> U] /\ \A b \in U : \E x \in Tables : h[x] = b
      BY DEF Unused, n
    <2>3. \A x, y \in Tables : h[x] = h[y] => x = y
      BY <1>2, PlaceUnique DEF Tables
    <2> HIDE DEF h, U
    <2>4. IsFiniteSet(U) /\ Cardinality(U) = Cardinality(Tables)
      BY <2>1, <2>2, <2>3, SameCount
    <2> QED BY <2>1, <2>4 DEF U
  <1>8. ASSUME NEW p \in MappedIn(tables, sequences), Place(p) \in Unused(r) PROVE FALSE
    <2>1. PICK l \in Tables : Place(p) = <<r, Number(n, NumTables, l)>>
      BY <1>8 DEF Unused, n
    <2>2. /\ p[1] = root_sequence_id[request_of[p[1]]]
          /\ p[2][2] - 1 \in Nat /\ p[2][1] \in 1 .. NumTables /\ p[2][2] <= Blocks(tables, p[1])
      BY PlacesReserved
    <2>3. request_of[p[1]] = r /\ Number(p[2][2] - 1, NumTables, p[2][1]) = Number(n, NumTables, l)
      BY <2>1 DEF Place
    <2>4. p[2][2] - 1 = n
      BY <1>2, <2>2, <2>3, PlaceUnique DEF Tables
    <2>5. p[2][2] <= n /\ p[2][2] \in Nat
      <3>1. p[2] \in Cells
        BY DEF MappedIn
      <3> QED BY <2>2, <2>3, <3>1 DEF n, Cells
    <2> QED BY <1>2, <2>4, <2>5
  <1> QED BY <1>6, <1>7, <1>8

LEMMA RoomLeft ==
    ASSUME CoreInv, SequencesInv, ReservedInv, HonouredInv, NEW r \in Range(active),
           Blocks(tables, root_sequence_id[r]) < Budget(r)
    PROVE  CanReserve(1)
  <1> DEFINE F == FreeFrames(ref_count)
             U == Frames \ F
             R == Reserved(request, Range(active))
             X == Unused(r)
             own(f) == CHOOSE p \in EntriesIn(tables, sequences, f) : TRUE
             h == [f \in U |-> Place(own(f))]
             I == {h[f] : f \in U}
  <1>1. IsFiniteSet(Frames) /\ F \subseteq Frames
    BY ManagerConfig DEF FreeFrames
  <1>2. /\ IsFiniteSet(U) /\ Cardinality(U) = total_blocks - Cardinality(F)
        /\ total_blocks \in Nat /\ Cardinality(F) \in Nat /\ Cardinality(F) <= total_blocks
    <2> HIDE DEF F
    <2> QED BY <1>1, RestCount DEF total_blocks
  <1>3. ASSUME NEW f \in U
        PROVE  own(f) \in MappedIn(tables, sequences) /\ EntryAt(tables, own(f)).frame = f
    <2>1. f \in Frames /\ ref_count[f] # 0
      BY DEF FreeFrames
    <2>2. ref_count[f] = Cardinality(EntriesIn(tables, sequences, f)) + Cardinality(PinsOn(Records(prefix_index), f))
          /\ IsFiniteSet(EntriesIn(tables, sequences, f)) /\ IsFiniteSet(PinsOn(Records(prefix_index), f))
      BY <2>1, CountFacts DEF CoreInv
    <2>3. PinsOn(Records(prefix_index), f) = {}
      BY DEF HonouredInv, Records, PinsOn
    <2>4. Cardinality(PinsOn(Records(prefix_index), f)) = 0
      BY <2>3, FS_EmptySet
    <2>5. EntriesIn(tables, sequences, f) # {}
      <3>1. EntriesIn(tables, sequences, f) = {} => Cardinality(EntriesIn(tables, sequences, f)) = 0
        BY FS_EmptySet
      <3> QED BY <2>1, <2>2, <2>4, <3>1
    <2>6. own(f) \in EntriesIn(tables, sequences, f)
      BY <2>5
    <2> HIDE DEF own
    <2> QED BY <2>6 DEF EntriesIn
  <1> HIDE DEF U, own
  <1>4. /\ h \in [U -> I] /\ \A b \in I : \E f \in U : h[f] = b
        /\ \A f, g \in U : h[f] = h[g] => f = g
    <2>1. h \in [U -> I] /\ \A b \in I : \E f \in U : h[f] = b
      OBVIOUS
    <2>2. ASSUME NEW f \in U, NEW g \in U, h[f] = h[g] PROVE f = g
      <3>1. Place(own(f)) = Place(own(g))
        BY <2>2
      <3>2. own(f) = own(g)
        BY <1>3, <3>1, PlacesApart
      <3> QED BY <1>3, <3>2
    <2> QED BY <2>1, <2>2
  <1>5. I \subseteq R /\ I \cap X = {} /\ X \subseteq R
        /\ IsFiniteSet(X) /\ Cardinality(X) = NumTables
    <2>1. \A b \in I : b \in R /\ b \notin X
      BY <1>3, PlacesReserved, UnusedPlaces
    <2> HIDE DEF I, R
    <2>2. X \subseteq R /\ IsFiniteSet(X) /\ Cardinality(X) = NumTables
      BY UnusedPlaces DEF R
    <2> QED BY <2>1, <2>2
  <1>6. IsFiniteSet(R) /\ Cardinality(R) = lifetime_held
    <2>1. request \in Requested /\ Range(active) \in SUBSET Requests /\ lifetime_held = Cardinality(R)
      BY HeldFacts DEF CoreInv
    <2>2. IsFiniteSet(Range(active) \X (1 .. total_blocks))
      <3>1. IsFiniteSet(Range(active))
        BY <2>1, SchedulerConfig, FS_Subset
      <3>2. IsFiniteSet(1 .. total_blocks)
        BY <1>2, FS_Interval
      <3> QED BY <3>1, <3>2, FS_Product
    <2>3. R \subseteq Range(active) \X (1 .. total_blocks)
      BY DEF Reserved
    <2> HIDE DEF R
    <2> QED BY <2>1, <2>2, <2>3, FS_Subset
  <1> HIDE DEF h, I, R, X
  <1>7. IsFiniteSet(I) /\ Cardinality(I) = Cardinality(U)
    BY <1>2, <1>4, SameCount
  <1>8. Cardinality(I \cup X) = Cardinality(I) + Cardinality(X) /\ Cardinality(I) \in Nat
    BY <1>5, <1>7, DisjointCount
  <1>9. Cardinality(I \cup X) <= Cardinality(R)
    BY <1>5, <1>6, FS_Subset
  <1>10. lifetime_held <= total_blocks /\ lifetime_held \in Nat /\ NumTables \in Nat
    BY Typed, Configured DEF HonouredInv, CoreInv, QueueInv
  <1>11. Cardinality(F) >= NumTables
    BY <1>2, <1>5, <1>6, <1>7, <1>8, <1>9, <1>10
  <1>12. blocks_for(1) * NumTables = NumTables
    <2>1. blocks_for(1) = 1
      BY BlocksMore
    <2> QED BY <1>10, <2>1
  <1> QED BY <1>11, <1>12 DEF CanReserve, CanAllocate, F

LEMMA BudgetFacts ==
    ASSUME NEW r \in Requests
    PROVE  /\ Budget(r) \in Nat /\ blocks_for(prompt_tokens[r]) <= Budget(r)
           /\ \A b \in Nat : b * TokensPerBlock < prompt_tokens[r] + max_decode_tokens[r] <=> b < Budget(r)
  <1>1. prompt_tokens[r] \in Nat /\ prompt_tokens[r] + max_decode_tokens[r] \in Nat
        /\ prompt_tokens[r] <= prompt_tokens[r] + max_decode_tokens[r]
    BY Configured
  <1> QED BY <1>1, BlocksNeeded, BlocksMore, ConfigFacts DEF Budget

(* The parts of the invariant after a step. *)
LEMMA HonouredParts ==
    HonouredInv' <=>
        /\ lifetime_held' <= total_blocks
        /\ \A k \in Keys : prefix_index'[k] = {}
        /\ \A r \in Requests : /\ request'[r].state # "Preempted"
                               /\ SequencesFor(r)' \subseteq {root_sequence_id[r]}
                               /\ r \in Range(active') => /\ request'[r].lifetime = Budget(r) * NumTables
                                                          /\ Blocks(tables', root_sequence_id[r]) <= Budget(r)
        /\ pc' \in Fitting => needed' = Budget(candidate') * NumTables
        /\ pc' \in Entering => Blocks(tables', root_sequence_id[candidate']) = 0
  BY DEF HonouredInv, WithinBudget, State, Blocks, total_blocks, Budget, candidate

LEMMA HonouredQuiet ==
    ASSUME HonouredInv, UNCHANGED <<cacheVars, queueVars>>,
           pc' \in Fitting => needed' = Budget(candidate') * NumTables,
           pc' \in Entering => Blocks(tables, root_sequence_id[candidate']) = 0
    PROVE  HonouredInv'
  <1>1. /\ lifetime_held' = lifetime_held /\ prefix_index' = prefix_index /\ request' = request
        /\ active' = active /\ tables' = tables /\ sequences_by_request' = sequences_by_request
    BY DEF cacheVars, queueVars
  <1>2. \A r : SequencesFor(r)' = SequencesFor(r)
    BY <1>1, ListsSame
  <1> QED BY <1>1, <1>2, HonouredParts DEF HonouredInv, WithinBudget, State

LEMMA IndexEmpty ==
    ASSUME \A k \in Keys : prefix_index[k] = {}, NEW S, release(S)
    PROVE  \A k \in Keys : prefix_index'[k] = {}
  <1>1. prefix_index' = IndexWithout(S)
    BY DEF release
  <1> QED BY <1>1 DEF IndexWithout

LEMMA ScheduleHonoured ==
    ASSUME Unpreempted, Unshared, CoreInv, SequencesInv, ReservedInv, HonouredInv, ScheduleStep
    PROVE  HonouredInv'
  <1> USE DEF CoreInv
  <1>1. CASE schedule_next \/ AdmitMore \/ batch
    <2>1. UNCHANGED <<cacheVars, queueVars>> /\ pc' \notin Fitting /\ pc' \notin Entering
      BY <1>1 DEF schedule_next, AdmitMore, batch, Fitting, Entering
    <2> QED BY <2>1, HonouredQuiet
  <1>2. CASE try_admit
    <2>1. CASE Refused
      <3>1. UNCHANGED <<cacheVars, queueVars>> /\ pc' \notin Fitting /\ pc' \notin Entering
        BY <1>2, <2>1 DEF try_admit, Refused, Fitting, Entering
      <3> QED BY <3>1, HonouredQuiet
    <2>2. CASE needed' = lifetime_blocks_for(candidate) /\ pc' = "reclaim" /\ UNCHANGED <<queueVars, plan, cursor>>
      <3> DEFINE c == candidate
      <3>1. UNCHANGED <<cacheVars, queueVars>> /\ pc' \notin Entering /\ candidate' = candidate
        BY <1>2, <2>2 DEF try_admit, Entering, candidate, queueVars
      <3>2. c \in Requests /\ pc \in Scanning
        BY <1>2, Scanned DEF try_admit, Scanning
      <3> HIDE DEF c
      <3>3. prefix_key[c] = NoKey /\ prompt_tokens[c] \in Nat /\ max_decode_tokens[c] \in Nat
        BY <3>2, Configured DEF Unshared
      <3>4. lifetime_blocks_for(c) = blocks_for_tokens(prompt_tokens[c] + max_decode_tokens[c])
        BY <3>3 DEF lifetime_blocks_for
      <3>5. needed' = Budget(candidate') * NumTables
        BY <2>2, <3>1, <3>4 DEF blocks_for_tokens, Budget, c
      <3> QED BY <3>1, <3>5, HonouredQuiet
    <2> QED BY <1>2, <2>1, <2>2 DEF try_admit
  <1>3. CASE reclaim_for_admission
    <2>1. ~UnderPressure
      BY Configured DEF UnderPressure, Unpreempted
    <2>2. UNCHANGED <<cacheVars, queueVars>> /\ pc' \notin Entering /\ candidate' = candidate
          /\ needed' = needed /\ pc \in Fitting
      BY <1>3, <2>1 DEF reclaim_for_admission, Entering, Fitting, candidate, queueVars
    <2>3. needed' = Budget(candidate') * NumTables
      BY <2>2 DEF HonouredInv
    <2> QED BY <2>2, <2>3, HonouredQuiet
  <1>4. CASE create
    <2>1. pc \in Fitting /\ pc \in Scanning /\ pc \notin Entering
      BY <1>4 DEF create, Fitting, Scanning, Entering
    <2>2. CASE Refused /\ UNCHANGED cacheVars
      <3>1. UNCHANGED <<cacheVars, queueVars>> /\ pc' \notin Fitting /\ pc' \notin Entering
        BY <2>2 DEF Refused, Fitting, Entering
      <3> QED BY <3>1, HonouredQuiet
    <2>3. CASE /\ create_sequence(root_sequence_id[candidate], candidate)
               /\ pc' = "attach" /\ UNCHANGED <<queueVars, plan, cursor, needed>>
      <3> DEFINE c == candidate
                 s == root_sequence_id[c]
      <3>1. c \in Requests /\ s \in SeqIds
        BY <2>1, Scanned, Configured
      <3>2. /\ lifetime_held' = lifetime_held /\ prefix_index' = prefix_index /\ request' = request
            /\ active' = active /\ tables' = tables /\ candidate' = c /\ needed' = needed
            /\ create_sequence(s, c)
        BY <2>3 DEF queueVars, create_sequence, candidate
      <3>3. needed = Budget(c) * NumTables
        BY <2>1 DEF HonouredInv
      <3> HIDE DEF c, s
      <3>4. Blocks(tables', s) = 0
        <4>1. tables[s] = NoTables /\ 1 \in Tables
          BY <3>1, <3>2, ConfigFacts DEF create_sequence, Structure, TablesShaped
        <4>2. tables[s][1] = <<>>
          BY <4>1 DEF NoTables
        <4> QED BY <3>2, <4>2 DEF Blocks
      <3>5. ASSUME NEW q \in Requests PROVE SequencesFor(q)' \subseteq {root_sequence_id[q]}
        <4>1. SequencesFor(q)' = IF q = c THEN SequencesFor(c) \cup {s} ELSE SequencesFor(q)
          BY <3>1, <3>2, ListsIndex DEF create_sequence
        <4>2. SequencesFor(q) \subseteq {root_sequence_id[q]}
          BY DEF HonouredInv
        <4> QED BY <4>1, <4>2 DEF s
      <3>6. Blocks(tables', root_sequence_id[candidate']) = 0 /\ needed' = Budget(candidate') * NumTables
        BY <3>2, <3>3, <3>4 DEF s
      <3> QED BY <3>2, <3>5, <3>6, HonouredParts DEF HonouredInv, WithinBudget, State
    <2> QED BY <1>4, <2>2, <2>3 DEF create
  <1>5. CASE attach
    <2>1. pc \in Scanning /\ pc \in Fitting /\ pc \in Entering
      BY <1>5 DEF attach, Scanning, Fitting, Entering
    <2>2. prefix_key[candidate] = NoKey
      BY <2>1, Scanned DEF Unshared
    <2>3. UNCHANGED <<cacheVars, queueVars>> /\ candidate' = candidate /\ needed' = needed
      BY <1>5, <2>2 DEF attach, candidate, queueVars
    <2>4. needed' = Budget(candidate') * NumTables /\ Blocks(tables, root_sequence_id[candidate']) = 0
      BY <2>1, <2>3 DEF HonouredInv
    <2> QED BY <2>3, <2>4, HonouredQuiet
  <1>6. CASE reserve
    <2> DEFINE c == candidate
               s == root_sequence_id[c]
               need == IF prompt_tokens[c] > Capacity(s) THEN prompt_tokens[c] - Capacity(s) ELSE 0
    <2>1. pc \in Scanning /\ pc \in Fitting /\ pc \in Entering
      BY <1>6 DEF reserve, Scanning, Fitting, Entering
    <2>2. c \in Requests /\ s \in SeqIds /\ State(c) = "Pending"
      BY <2>1, Scanned, Configured
    <2>3. Blocks(tables, s) = 0 /\ needed = Budget(c) * NumTables
      BY <2>1 DEF HonouredInv
    <2>4. Capacity(s) = 0 /\ prompt_tokens[c] \in Nat
      <3>1. 0 * TokensPerBlock = 0
        BY Configured
      <3> QED BY <2>2, <2>3, <3>1, Configured DEF Capacity, Blocks
    <2>5. need = prompt_tokens[c]
      BY <2>4
    <2>6. CASE Admitted /\ (reserve_tokens(s, need) \/ UNCHANGED cacheVars)
      <3>1. /\ QueueInv' /\ active' = Append(active, c)
            /\ request'[c].state = "Prefill" /\ request'[c].lifetime = needed
            /\ \A q \in Requests : q # c => /\ request'[q].state = request[q].state
                                            /\ request'[q].lifetime = request[q].lifetime
            /\ lifetime_held' = lifetime_held + needed /\ pc' = "admit"
        BY <2>1, <2>6, AdmittedQueues
      <3>2. \A t \in SeqIds : Blocks(tables', t) <= IF t = s THEN Budget(c) ELSE Blocks(tables, t)
        <4>1. CASE UNCHANGED cacheVars
          <5>1. tables' = tables
            BY <4>1 DEF cacheVars
          <5>2. \A t \in SeqIds : Blocks(tables, t) \in Nat
            BY ConfigFacts, LenProperties DEF Blocks, Structure, TypeOK
          <5> QED BY <2>2, <2>3, <5>1, <5>2, BudgetFacts
        <4>2. CASE reserve_tokens(s, need)
          <5>1. reserve_tokens(s, prompt_tokens[c]) /\ prompt_tokens[c] \in Nat \ {0}
            <6> HIDE DEF c, s, need
            <6>1. reserve_tokens(s, prompt_tokens[c])
              BY <2>5, <4>2
            <6>2. prompt_tokens[c] > 0
              BY <6>1 DEF reserve_tokens
            <6> QED BY <2>4, <6>1, <6>2
          <5> HIDE DEF c, s
          <5>2. ASSUME NEW t \in SeqIds PROVE Blocks(tables', t) <= IF t = s THEN Budget(c) ELSE Blocks(tables, t)
            <6>1. /\ Blocks(tables', t) = IF t = s THEN Blocks(tables, s) + blocks_for(prompt_tokens[c]) ELSE Blocks(tables, t)
                  /\ Blocks(tables, t) \in Nat
              BY <2>2, <5>1, LengthsReserve
            <6>2. blocks_for(prompt_tokens[c]) <= Budget(c) /\ blocks_for(prompt_tokens[c]) \in Nat /\ Budget(c) \in Nat
              BY <2>2, <2>4, BudgetFacts, ConfigFacts
            <6> QED BY <2>3, <6>1, <6>2 DEF c, s
          <5> QED BY <5>2
        <4> QED BY <2>6, <4>1, <4>2
      <3>3. prefix_index' = prefix_index /\ sequences_by_request' = sequences_by_request
        BY <2>6 DEF reserve_tokens, cacheVars
      <3>4. lifetime_held' <= total_blocks
        BY <2>1, <3>1 DEF ReservedInv
      <3>5. pc' \notin Fitting /\ pc' \notin Entering
        BY <3>1 DEF Fitting, Entering
      <3> HIDE DEF c, s, need
      <3>6. ASSUME NEW q \in Requests
            PROVE  /\ request'[q].state # "Preempted"
                   /\ SequencesFor(q)' \subseteq {root_sequence_id[q]}
                   /\ q \in Range(active') => /\ request'[q].lifetime = Budget(q) * NumTables
                                              /\ Blocks(tables', root_sequence_id[q]) <= Budget(q)
        <4>1. SequencesFor(q)' = SequencesFor(q)
          BY <3>3, ListsSame
        <4>2. SequencesFor(q) \subseteq {root_sequence_id[q]} /\ request[q].state # "Preempted"
          BY DEF HonouredInv, State
        <4>3. CASE q = c
          BY <2>2, <2>3, <3>1, <3>2, <4>1, <4>2, <4>3 DEF s
        <4>4. CASE q # c
          <5>1. root_sequence_id[q] # s /\ root_sequence_id[q] \in SeqIds
            BY <2>2, <4>4, Configured DEF s
          <5>2. Range(active') = Range(active) \cup {c}
            BY <2>2, <3>1, HeldFacts, AppendedQueue
          <5>3. Blocks(tables', root_sequence_id[q]) <= Blocks(tables, root_sequence_id[q])
            BY <3>2, <5>1
          <5>4. q \in Range(active) => /\ request[q].lifetime = Budget(q) * NumTables
                                       /\ Blocks(tables, root_sequence_id[q]) <= Budget(q)
            BY DEF HonouredInv, WithinBudget
          <5>5. Blocks(tables', root_sequence_id[q]) \in Nat /\ Blocks(tables, root_sequence_id[q]) \in Nat
                /\ Budget(q) \in Nat
            <6>1. TypeOK /\ TypeOK'
              BY NextCore DEF Structure, SchedulerNext
            <6>2. tables[root_sequence_id[q]][1] \in Seq(Entry) /\ tables'[root_sequence_id[q]][1] \in Seq(Entry)
              BY <5>1, <6>1, ConfigFacts DEF TypeOK
            <6> QED BY <6>2, BudgetFacts, LenProperties DEF Blocks
          <5> QED BY <3>1, <4>1, <4>2, <4>4, <5>2, <5>3, <5>4, <5>5
        <4> QED BY <4>3, <4>4
      <3> QED BY <3>3, <3>4, <3>5, <3>6, HonouredParts DEF HonouredInv
    <2>7. CASE release_request(c) /\ Refused
      <3>1. /\ lifetime_held' = lifetime_held /\ request' = request /\ active' = active
            /\ pc' \notin Fitting /\ pc' \notin Entering
        BY <2>7 DEF Refused, queueVars, Fitting, Entering
      <3> HIDE DEF c, s, need
      <3>2. \A k \in Keys : prefix_index'[k] = {}
        BY <2>7, IndexEmpty DEF release_request, HonouredInv
      <3>3. ASSUME NEW q \in Requests
            PROVE  /\ SequencesFor(q)' \subseteq {root_sequence_id[q]}
                   /\ q \in Range(active) => Blocks(tables', root_sequence_id[q]) = Blocks(tables, root_sequence_id[q])
        <4>1. SequencesFor(q)' = IF q = c THEN {} ELSE SequencesFor(q)
          BY <2>2, <2>7, ListsRelease
        <4>2. q \in Range(active) => root_sequence_id[q] \notin SequencesFor(c) /\ root_sequence_id[q] \in SeqIds
          <5>1. SequencesFor(c) \subseteq {s}
            BY <2>2 DEF HonouredInv, s
          <5>2. q \in Range(active) => q # c
            BY <2>2 DEF QueueInv, QueuesAgree
          <5> QED BY <2>2, <5>1, <5>2, Configured DEF s
        <4>3. q \in Range(active) => tables'[root_sequence_id[q]] = tables[root_sequence_id[q]]
          BY <2>7, <4>2, LengthsRelease DEF release_request
        <4> QED BY <4>1, <4>3 DEF HonouredInv, Blocks
      <3> QED BY <3>1, <3>2, <3>3, HonouredParts DEF HonouredInv, WithinBudget, State
    <2> QED BY <1>6, <2>6, <2>7 DEF reserve, RollBack
  <1> QED BY <1>1, <1>2, <1>3, <1>4, <1>5, <1>6 DEF ScheduleStep

LEMMA NextHonoured ==
    ASSUME Unpreempted, Unshared, CoreInv, SequencesInv, ReservedInv, HonouredInv, [SchedulerNext]_vars
    PROVE  HonouredInv'
  <1> USE DEF CoreInv
  <1>0. request \in [Requests -> RequestRecord] /\ QueuesAgree /\ active \in Seq(Requests)
    BY Typed DEF QueueInv
  <1>1. CASE ScheduleStep
    BY <1>1, ScheduleHonoured
  <1>2. ASSUME NEW r \in Requests, preempt(r) \/ resume(r) \/ publish(r)
        PROVE  FALSE
    <2>1. ~preempt(r)
      BY DEF preempt, Unpreempted
    <2>2. ~resume(r)
      BY <1>0 DEF resume, QueuesAgree, HonouredInv
    <2>3. ~publish(r)
      BY DEF publish, Unshared
    <2> QED BY <1>2, <2>1, <2>2, <2>3
  <1>3. ASSUME NEW r \in Requests, enqueue(r) \/ \E n \in 0 .. prompt_tokens[r] : complete_step(r, n)
        PROVE  HonouredInv'
    <2>1. /\ lifetime_held' = lifetime_held /\ prefix_index' = prefix_index /\ active' = active
          /\ tables' = tables /\ sequences_by_request' = sequences_by_request
          /\ pc' \notin Fitting /\ pc' \notin Entering
      BY <1>3 DEF enqueue, complete_step, cacheVars, callVars, Fitting, Entering
    <2>2. \A q \in Requests : SequencesFor(q)' = SequencesFor(q)
      BY <2>1, ListsSame
    <2>3. \A q \in Requests : /\ request'[q].state # "Preempted"
                              /\ q \in Range(active) => request'[q].lifetime = request[q].lifetime
      <3>1. CASE enqueue(r)
        <4>1. request' = [request EXCEPT ![r] = [state |-> "Pending", remaining |-> prompt_tokens[r],
                                                 skips |-> 0, lifetime |-> 0]] /\ State(r) = "Unknown"
          BY <3>1 DEF enqueue
        <4>2. r \notin Range(active)
          BY <1>0, <4>1 DEF QueuesAgree
        <4> QED BY <1>0, <4>1, <4>2 DEF HonouredInv, State
      <3>2. ASSUME NEW n \in 0 .. prompt_tokens[r], complete_step(r, n)
            PROVE  \A q \in Requests : /\ request'[q].state # "Preempted"
                                       /\ q \in Range(active) => request'[q].lifetime = request[q].lifetime
        BY <1>0, <3>2 DEF complete_step, State, RequestRecord, HonouredInv
      <3> QED BY <1>3, <3>1, <3>2
    <2> QED BY <2>1, <2>2, <2>3, HonouredParts DEF HonouredInv, WithinBudget
  <1>4. ASSUME NEW r \in Requests, NEW s \in SequencesFor(r), grow(r, s)
        PROVE  HonouredInv'
    <2>1. /\ lifetime_held' = lifetime_held /\ active' = active /\ request' = request
          /\ pc' \notin Fitting /\ pc' \notin Entering
          /\ Capacity(s) < prompt_tokens[r] + max_decode_tokens[r] /\ reserve_tokens(s, 1)
          /\ r \in Range(active)
      BY <1>4 DEF grow, Executing, queueVars, callVars, Fitting, Entering
    <2>2. prefix_index' = prefix_index /\ sequences_by_request' = sequences_by_request
      BY <2>1 DEF reserve_tokens
    <2>3. s = root_sequence_id[r] /\ s \in SeqIds
      BY Configured DEF HonouredInv
    <2>4. \A t \in SeqIds : /\ Blocks(tables', t) = IF t = s THEN Blocks(tables, s) + blocks_for(1) ELSE Blocks(tables, t)
                            /\ Blocks(tables, t) \in Nat
      BY <2>1, <2>3, LengthsReserve
    <2>5. Blocks(tables, s) < Budget(r) /\ Budget(r) \in Nat
      BY <2>1, <2>3, <2>4, BudgetFacts DEF Capacity, Blocks
    <2>6. Blocks(tables', s) <= Budget(r)
      BY <2>3, <2>4, <2>5, BlocksMore
    <2>7. ASSUME NEW q \in Requests
          PROVE  /\ SequencesFor(q)' = SequencesFor(q)
                 /\ q \in Range(active) => Blocks(tables', root_sequence_id[q]) <= Budget(q)
      <3>1. CASE q = r
        BY <2>2, <2>3, <2>6, <3>1, ListsSame
      <3>2. CASE q # r
        <4>1. root_sequence_id[q] # s /\ root_sequence_id[q] \in SeqIds
          BY <2>3, <3>2, Configured
        <4> QED BY <2>2, <2>4, <4>1, ListsSame DEF HonouredInv, WithinBudget
      <3> QED BY <3>1, <3>2
    <2> QED BY <2>1, <2>2, <2>7, HonouredParts DEF HonouredInv, WithinBudget, State
  <1>5. ASSUME NEW r \in Requests, cancel(r)
        PROVE  HonouredInv'
    <2>1. /\ lifetime_held' = HeldWithout(r) /\ release_request(r) /\ active' = RemoveFirst(active, r)
          /\ request' = [request EXCEPT ![r] = NoRequestState]
          /\ pc' \notin Fitting /\ pc' \notin Entering
      BY <1>5 DEF cancel, callVars, Fitting, Entering
    <2>2. lifetime_held' <= total_blocks
      <3>1. lifetime_held \in Nat /\ request[r].lifetime \in Nat /\ total_blocks \in Nat
        BY Typed, HeldFacts, Configured DEF QueueInv
      <3> QED BY <2>1, <3>1 DEF HeldWithout, HonouredInv
    <2>3. \A k \in Keys : prefix_index'[k] = {}
      BY <2>1, IndexEmpty DEF release_request, HonouredInv
    <2>4. Range(active') = Range(active) \ {r}
      BY <1>0, <2>1, RemovedFirst DEF QueuesAgree
    <2>5. \A q \in Requests : request'[q] = IF q = r THEN NoRequestState ELSE request[q]
      BY <1>0, <2>1
    <2>6. ASSUME NEW q \in Requests
          PROVE  /\ SequencesFor(q)' \subseteq {root_sequence_id[q]}
                 /\ q # r => Blocks(tables', root_sequence_id[q]) = Blocks(tables, root_sequence_id[q])
      <3>1. SequencesFor(q)' = IF q = r THEN {} ELSE SequencesFor(q)
        BY <2>1, ListsRelease
      <3>2. q # r => root_sequence_id[q] \notin SequencesFor(r) /\ root_sequence_id[q] \in SeqIds
        BY Configured DEF HonouredInv
      <3>3. q # r => tables'[root_sequence_id[q]] = tables[root_sequence_id[q]]
        BY <2>1, <3>2, LengthsRelease DEF release_request
      <3> QED BY <3>1, <3>3 DEF HonouredInv, Blocks
    <2> QED BY <2>1, <2>2, <2>3, <2>4, <2>5, <2>6, HonouredParts DEF HonouredInv, WithinBudget, State, NoRequestState
  <1>6. CASE UNCHANGED vars
    <2>1. UNCHANGED <<cacheVars, queueVars>> /\ pc' = pc /\ needed' = needed /\ candidate' = candidate
      BY <1>6 DEF vars, candidate, queueVars, callVars
    <2> QED BY <2>1, HonouredQuiet DEF HonouredInv
  <1> QED BY <1>1, <1>2, <1>3, <1>4, <1>5, <1>6 DEF SchedulerNext

LEMMA InitHonoured ==
    ASSUME SchedulerInit
    PROVE  HonouredInv
  <1>1. /\ request = [r \in Requests |-> NoRequestState] /\ active = <<>> /\ lifetime_held = 0
        /\ pc = "idle" /\ Init
    BY DEF SchedulerInit
  <1>2. Range(active) = {} /\ \A r \in Requests : SequencesFor(r) = {} /\ State(r) = "Unknown"
    BY <1>1 DEF Range, SequencesFor, Init, State, NoRequestState
  <1> QED BY <1>1, <1>2, Configured DEF HonouredInv, Init, Fitting, Entering

(* "The pool can still cover that prompt plus the request's decode budget"    *)
(* holds until the request leaves: without preemption and sharing, a request  *)
(* that has not used up its budget always finds the frames of its next block, *)
(* however the other requests grew meanwhile.  Every frame in use is one of   *)
(* the places its owner reserved, the reservations fit the pool together, and *)
(* this request leaves places of its own unused.                              *)
THEOREM BudgetsCovered ==
    ASSUME Unpreempted, Unshared
    PROVE  SchedulerSpec => []ReservationHonoured
  <1> DEFINE Inv == SequencesInv /\ ReservedInv /\ HonouredInv
  <1>1. SchedulerInit => Inv
    BY InitSequences, InitReserved, InitHonoured
  <1>2. CoreInv /\ CoreInv' /\ Inv /\ [SchedulerNext]_vars => Inv'
    <2>1. HonouredInv => NoneCancelled
      BY DEF HonouredInv, NoneCancelled
    <2> QED BY <2>1, NextSequences, NextReserved, NextHonoured DEF CoreInv
  <1>3. CoreInv /\ Inv => ReservationHonoured
    <2>1. SUFFICES ASSUME CoreInv, Inv, NEW r \in Range(active),
                          Capacity(root_sequence_id[r]) < prompt_tokens[r] + max_decode_tokens[r]
                   PROVE  CanReserve(1)
      BY DEF ReservationHonoured
    <2>2. r \in Requests /\ Blocks(tables, root_sequence_id[r]) \in Nat
      <3>1. r \in Requests /\ tables[root_sequence_id[r]][1] \in Seq(Entry)
        BY <2>1, HeldFacts, Configured, ConfigFacts DEF CoreInv, Structure, TypeOK
      <3> QED BY <3>1, LenProperties DEF Blocks
    <2>3. Blocks(tables, root_sequence_id[r]) < Budget(r)
      BY <2>1, <2>2, BudgetFacts DEF Capacity, Blocks
    <2> QED BY <2>1, <2>3, RoomLeft
  <1> QED BY <1>1, <1>2, <1>3, SchedulerInvariant, PTL DEF SchedulerSpec

-----------------------------------------------------------------------------
(* The requests planned by this call are the newest active ones. *)
NewestAre(ac, pf) ==
    /\ Len(pf) <= Len(ac)
    /\ \A i \in 1 .. Len(pf) : ac[Len(ac) - Len(pf) + i] = pf[i]

LEMMA TailBridge ==
    /\ TailPlanned <=> (pc # "idle" => NewestAre(active, plan.prefill))
    /\ TailPlanned' <=> (pc' # "idle" => NewestAre(active', plan'.prefill))
  BY DEF TailPlanned, NewestAre

LEMMA TailAppended ==
    ASSUME NEW ac \in Seq(Requests), NEW pf \in Seq(Requests), NEW r \in Requests, NewestAre(ac, pf)
    PROVE  NewestAre(Append(ac, r), Append(pf, r))
  <1> DEFINE a == Append(ac, r)
             p == Append(pf, r)
  <1>1. /\ Len(a) = Len(ac) + 1 /\ Len(ac) \in Nat /\ a[Len(ac) + 1] = r
        /\ \A i \in 1 .. Len(ac) : a[i] = ac[i]
    BY AppendedQueue, InRange
  <1>2. /\ Len(p) = Len(pf) + 1 /\ Len(pf) \in Nat /\ p[Len(pf) + 1] = r
        /\ \A i \in 1 .. Len(pf) : p[i] = pf[i]
    BY AppendedQueue, InRange
  <1> HIDE DEF a, p
  <1>3. Len(pf) <= Len(ac) /\ \A i \in 1 .. Len(pf) : ac[Len(ac) - Len(pf) + i] = pf[i]
    BY DEF NewestAre
  <1>4. ASSUME NEW i \in 1 .. Len(p) PROVE a[Len(a) - Len(p) + i] = p[i]
    <2>1. Len(a) - Len(p) + i = Len(ac) - Len(pf) + i
      BY <1>1, <1>2
    <2>2. CASE i \in 1 .. Len(pf)
      <3>1. Len(ac) - Len(pf) + i \in 1 .. Len(ac)
        BY <1>1, <1>2, <1>3, <2>2
      <3> QED BY <1>1, <1>2, <1>3, <2>1, <2>2, <3>1
    <2>3. CASE i = Len(pf) + 1
      <3>1. Len(ac) - Len(pf) + i = Len(ac) + 1
        BY <1>1, <1>2, <2>3
      <3> QED BY <1>1, <1>2, <2>1, <2>3, <3>1
    <2> QED BY <1>2, <2>2, <2>3
  <1>5. Len(p) <= Len(a)
    BY <1>1, <1>2, <1>3
  <1> QED BY <1>4, <1>5 DEF NewestAre, a, p

(* The victim is the newest request before the planned ones. *)
LEMMA TailRemoved ==
    ASSUME NEW ac \in Seq(Requests), NEW pf \in Seq(Requests), NewestAre(ac, pf), Len(ac) > Len(pf),
           NEW a \in Seq(Requests), Removed(ac, Len(ac) - Len(pf), a)
    PROVE  NewestAre(a, pf)
  <1>1. Len(ac) \in Nat /\ Len(pf) \in Nat
    BY InRange
  <1>2. /\ Len(a) = Len(ac) - 1
        /\ \A j \in 1 .. Len(ac) - 1 : a[j] = IF j < Len(ac) - Len(pf) THEN ac[j] ELSE ac[j + 1]
    BY DEF Removed
  <1>3. Len(pf) <= Len(ac) /\ \A i \in 1 .. Len(pf) : ac[Len(ac) - Len(pf) + i] = pf[i]
    BY DEF NewestAre
  <1>4. ASSUME NEW i \in 1 .. Len(pf) PROVE a[Len(a) - Len(pf) + i] = pf[i]
    <2> DEFINE j == Len(a) - Len(pf) + i
    <2>1. /\ j \in 1 .. Len(ac) - 1 /\ ~(j < Len(ac) - Len(pf))
          /\ j + 1 = Len(ac) - Len(pf) + i
      BY <1>1, <1>2
    <2> HIDE DEF j
    <2>2. a[j] = pf[i]
      BY <1>2, <1>3, <2>1
    <2> QED BY <2>2 DEF j
  <1>5. Len(pf) <= Len(a)
    BY <1>1, <1>2
  <1> QED BY <1>4, <1>5 DEF NewestAre

LEMMA ScheduleTail ==
    ASSUME \A r \in Requests : prompt_tokens[r] > 0, QueueInv, TailPlanned, ScheduleStep
    PROVE  TailPlanned'
  <1>1. active \in Seq(Requests) /\ plan.prefill \in Seq(Requests)
    BY Typed DEF QueueInv, Plans
  <1>2. CASE schedule_next
    <2>1. plan'.prefill = <<>> /\ active' = active
      BY <1>2 DEF schedule_next, NoPlan, queueVars
    <2>2. NewestAre(active, <<>>)
      BY <1>1, InRange DEF NewestAre
    <2> QED BY <2>1, <2>2, TailBridge
  <1>3. CASE AdmitMore \/ try_admit \/ create \/ attach \/ (reserve /\ Refused)
    <2>1. plan' = plan /\ active' = active /\ pc # "idle"
      BY <1>3 DEF AdmitMore, try_admit, create, attach, reserve, Refused, queueVars
    <2> QED BY <2>1, TailBridge
  <1>4. CASE reclaim_for_admission
    <2>1. plan' = plan /\ pc # "idle"
      BY <1>4 DEF reclaim_for_admission
    <2>2. CASE UnderPressure /\ Park(victim)
      <3> DEFINE k == Len(active) - Len(plan.prefill)
      <3>1. k \in 1 .. Len(active) /\ Len(active) > Len(plan.prefill)
        BY <2>2, VictimActive DEF UnderPressure
      <3>2. active[k] = victim /\ active' = RemoveFirst(active, victim) /\ IsInjective(active)
        BY <2>2 DEF victim, Park, QueueInv, QueuesAgree
      <3> DEFINE v == victim
      <3> HIDE DEF k, v
      <3>3. active' \in Seq(Requests) /\ Removed(active, k, active')
        <4>1. active[k] = v /\ active' = RemoveFirst(active, v)
          BY <3>2 DEF v
        <4> QED BY <1>1, <3>1, <3>2, <4>1, RemovedFirst
      <3>4. NewestAre(active, plan.prefill)
        BY <2>1, TailBridge
      <3>5. NewestAre(active', plan.prefill)
        BY <1>1, <3>1, <3>3, <3>4, TailRemoved DEF k
      <3> QED BY <2>1, <3>5, TailBridge
    <2>3. CASE UNCHANGED <<cacheVars, queueVars>>
      BY <2>1, <2>3, TailBridge DEF queueVars
    <2> QED BY <1>4, <2>2, <2>3 DEF reclaim_for_admission
  <1>5. CASE reserve /\ Admitted
    <2>1. pc \in Fitting /\ pc \in Scanning /\ pc # "idle"
      BY <1>5 DEF reserve, Fitting, Scanning
    <2> DEFINE c == candidate
    <2>2. c \in Requests
      BY <2>1, Scanned
    <2>3. active' = Append(active, c) /\ plan'.prefill = Append(plan.prefill, c)
      BY <1>5, <2>1, <2>2, AdmittedQueues
    <2> HIDE DEF c
    <2>4. NewestAre(active, plan.prefill)
      BY <2>1, TailBridge
    <2>5. NewestAre(active', plan'.prefill)
      BY <1>1, <2>2, <2>3, <2>4, TailAppended
    <2> QED BY <2>5, TailBridge
  <1>6. CASE batch
    BY <1>6, TailBridge DEF batch
  <1>7. reserve => Admitted \/ Refused
    BY DEF reserve
  <1> QED BY <1>2, <1>3, <1>4, <1>5, <1>6, <1>7 DEF ScheduleStep

LEMMA NextTail ==
    ASSUME \A r \in Requests : prompt_tokens[r] > 0, QueueInv, TailPlanned, [SchedulerNext]_vars
    PROVE  TailPlanned'
  <1>1. CASE ScheduleStep
    BY <1>1, ScheduleTail
  <1>2. CASE pc' = "idle"
    BY <1>2, TailBridge
  <1>3. ASSUME NEW r \in Requests,
               \/ enqueue(r) \/ cancel(r) \/ preempt(r) \/ resume(r) \/ publish(r)
               \/ \E n \in 0 .. prompt_tokens[r] : complete_step(r, n)
               \/ \E s \in SequencesFor(r) : grow(r, s)
        PROVE  pc' = "idle"
    BY <1>3 DEF enqueue, cancel, preempt, resume, publish, complete_step, grow, Executing, callVars
  <1>4. CASE UNCHANGED vars
    BY <1>4, TailBridge DEF vars, queueVars, callVars
  <1> QED BY <1>1, <1>2, <1>3, <1>4 DEF SchedulerNext

LEMMA PlannedActive ==
    ASSUME NEW pf \in Seq(Requests), NEW ac \in Seq(Requests), NewestAre(ac, pf)
    PROVE  Range(pf) \subseteq Range(ac)
  <1>1. Len(ac) \in Nat /\ Len(pf) \in Nat
    BY InRange
  <1>2. ASSUME NEW r \in Range(pf) PROVE r \in Range(ac)
    <2>1. PICK i \in 1 .. Len(pf) : pf[i] = r
      BY InRange
    <2>2. Len(pf) <= Len(ac) /\ ac[Len(ac) - Len(pf) + i] = r
      BY <2>1 DEF NewestAre
    <2>3. Len(ac) - Len(pf) + i \in 1 .. Len(ac)
      BY <1>1, <2>2
    <2> QED BY <2>2, <2>3, InRange, ZenonT(60)
  <1> QED BY <1>2

(* When every prompt has tokens, a plan never names a request that the same   *)
(* call went on to preempt: reclaim_for_admission counts the requests this    *)
(* call admitted by the length of the plan, and they are the newest ones.     *)
THEOREM PlannedNotPreempted ==
    ASSUME \A r \in Requests : prompt_tokens[r] > 0
    PROVE  SchedulerSpec => []PlannedStayActive
  <1>1. SchedulerInit => TailPlanned
    BY TailBridge DEF SchedulerInit
  <1>2. CoreInv /\ TailPlanned /\ [SchedulerNext]_vars => TailPlanned'
    BY NextTail DEF CoreInv
  <1>3. CoreInv /\ TailPlanned => PlannedStayActive
    <2>1. SUFFICES ASSUME CoreInv, TailPlanned, pc # "idle", NEW r \in Range(plan.prefill)
                   PROVE  r \in Range(active)
      BY DEF PlannedStayActive
    <2>2. active \in Seq(Requests) /\ plan.prefill \in Seq(Requests)
      BY <2>1, Typed DEF CoreInv, QueueInv, Plans
    <2> QED BY <2>1, <2>2, TailBridge, PlannedActive
  <1> QED BY <1>1, <1>2, <1>3, SchedulerInvariant, PTL DEF SchedulerSpec

-----------------------------------------------------------------------------
(* The plan.  ChunksPlanned(p, req, A): the prefill part of plan p has chunks *)
(* of what is left of the prompts of requests of A, none twice, and           *)
(* p.scheduled counts their tokens, within the batch.                         *)
TokensOf(t) == UNION {{i} \X (1 .. t[i]) : i \in 1 .. Len(t)}

ChunksPlanned(p, req, A) ==
    /\ p \in Plans
    /\ Len(p.tokens) = Len(p.prefill)
    /\ IsInjective(p.prefill)
    /\ \A i \in 1 .. Len(p.prefill) :
          /\ p.prefill[i] \in A
          /\ req[p.prefill[i]].state = "Prefill"
          /\ p.tokens[i] \in 1 .. req[p.prefill[i]].remaining
    /\ IsFiniteSet(TokensOf(p.tokens))
    /\ p.scheduled = Cardinality(TokensOf(p.tokens))
    /\ p.scheduled <= max_batch_tokens

(* While schedule_next runs, the plan has the chunks of the admitted requests *)
(* and no decode token yet.                                                   *)
PlanInv == pc # "idle" => ChunksPlanned(plan, request, Range(active)) /\ plan.decode = <<>>

LEMMA TokensAppended ==
    ASSUME NEW t \in Seq(Nat), NEW c \in Nat, IsFiniteSet(TokensOf(t))
    PROVE  /\ IsFiniteSet(TokensOf(Append(t, c)))
           /\ Cardinality(TokensOf(t)) \in Nat
           /\ Cardinality(TokensOf(Append(t, c))) = Cardinality(TokensOf(t)) + c
  <1> DEFINE u == Append(t, c)
             k == Len(t) + 1
             A == TokensOf(t)
             B == {k} \X (1 .. c)
             N == 1 .. c
             h == [i \in N |-> <<k, i>>]
  <1>1. Len(t) \in Nat /\ Len(u) = k /\ u[k] = c /\ \A i \in 1 .. Len(t) : u[i] = t[i]
    BY AppendedQueue, InRange
  <1> HIDE DEF u
  <1>2. TokensOf(u) = A \cup B
    <2>1. 1 .. Len(u) = (1 .. Len(t)) \cup {k}
      BY <1>1
    <2>2. ASSUME NEW x PROVE x \in TokensOf(u) <=> x \in A \/ x \in B
      <3>1. x \in TokensOf(u) <=> \E i \in 1 .. Len(u) : x \in {i} \X (1 .. u[i])
        BY DEF TokensOf
      <3>2. x \in A <=> \E i \in 1 .. Len(t) : x \in {i} \X (1 .. t[i])
        BY DEF TokensOf
      <3> HIDE DEF A, k
      <3> QED BY <1>1, <2>1, <3>1, <3>2
    <2> QED BY <2>2
  <1>3. A \cap B = {}
    <2>1. \A x \in A : \E i \in 1 .. Len(t) : x \in {i} \X (1 .. t[i])
      BY DEF TokensOf
    <2>2. \A i \in 1 .. Len(t) : i # k
      BY <1>1
    <2> HIDE DEF A, k
    <2> QED BY <2>1, <2>2
  <1>4. IsFiniteSet(N) /\ Cardinality(N) = c
    <2>1. 1 \in Int /\ c \in Int /\ (IF 1 <= c THEN c - 1 + 1 ELSE 0) = c  OBVIOUS
    <2>2. IsFiniteSet(1 .. c) /\ Cardinality(1 .. c) = IF 1 <= c THEN c - 1 + 1 ELSE 0
      BY <2>1, FS_Interval
    <2> QED BY <2>1, <2>2
  <1>5. IsFiniteSet(B) /\ Cardinality(B) = c
    <2>1. /\ h \in [N -> B]
          /\ \A x, y \in N : h[x] = h[y] => x = y
          /\ \A b \in B : \E x \in N : h[x] = b
      <3> HIDE DEF k
      <3> QED OBVIOUS
    <2> HIDE DEF N, B, h
    <2>2. IsFiniteSet(B) /\ Cardinality(B) = Cardinality(N)
      BY ONLY <1>4, <2>1, SameCount
    <2> QED BY <1>4, <2>2
  <1> HIDE DEF A, B
  <1>6. /\ IsFiniteSet(A \cup B) /\ Cardinality(A) \in Nat
        /\ Cardinality(A \cup B) = Cardinality(A) + Cardinality(B)
    BY <1>3, <1>5, DisjointCount DEF A
  <1> QED BY <1>2, <1>5, <1>6 DEF A, u

(* Plan q is plan p with at most a chunk of the n tokens left to request r,   *)
(* and with one unless the batch is full.                                     *)
OneMoreChunk(p, q, req, A, r, n) ==
    /\ ChunksPlanned(q, req, A) /\ q.decode = p.decode
    /\ q.scheduled >= p.scheduled
    /\ Range(p.prefill) \subseteq Range(q.prefill)
    /\ Range(q.prefill) \subseteq Range(p.prefill) \cup {r}
    /\ n > 0 /\ q.scheduled < max_batch_tokens => r \in Range(q.prefill)

LEMMA ChunkPlanned ==
    ASSUME NEW p, NEW req, NEW A, ChunksPlanned(p, req, A), NEW r \in Requests, r \in A,
           NEW n \in Nat, req[r].state = "Prefill", req[r].remaining = n, r \notin Range(p.prefill)
    PROVE  OneMoreChunk(p, WithChunk(p, r, n), req, A, r, n)
  <1> DEFINE room == max_batch_tokens - p.scheduled
             chunk == IF n < room THEN n ELSE room
             q == [p EXCEPT !.prefill = Append(p.prefill, r), !.tokens = Append(p.tokens, chunk),
                            !.scheduled = p.scheduled + chunk]
  <1>1. WithChunk(p, r, n) = IF n = 0 \/ p.scheduled >= max_batch_tokens THEN p ELSE q
    BY DEF WithChunk
  <1>2. /\ p.prefill \in Seq(Requests) /\ p.tokens \in Seq(Nat) /\ p.decode \in Seq(Requests)
        /\ p.scheduled \in Nat /\ max_batch_tokens \in Nat /\ p \in Plans
    BY Configured DEF Plans, ChunksPlanned
  <1>3. CASE n = 0 \/ p.scheduled >= max_batch_tokens
    <2>1. WithChunk(p, r, n) = p
      BY <1>1, <1>3
    <2>2. ~(n > 0 /\ p.scheduled < max_batch_tokens)
      BY <1>2, <1>3
    <2> QED BY <1>2, <2>1, <2>2 DEF OneMoreChunk
  <1>4. CASE ~(n = 0 \/ p.scheduled >= max_batch_tokens)
    <2>1. chunk \in 1 .. n /\ p.scheduled + chunk \in Nat /\ p.scheduled + chunk <= max_batch_tokens /\ chunk \in Nat
      BY <1>2, <1>4
    <2> HIDE DEF chunk
    <2> DEFINE pf == Append(p.prefill, r)
               tk == Append(p.tokens, chunk)
               k == Len(p.prefill) + 1
    <2>2. /\ q.prefill = pf /\ q.tokens = tk /\ q.scheduled = p.scheduled + chunk /\ q.decode = p.decode
          /\ WithChunk(p, r, n) = q
      BY <1>1, <1>2, <1>4 DEF Plans
    <2>3. /\ pf \in Seq(Requests) /\ Len(pf) = k /\ pf[k] = r /\ Range(pf) = Range(p.prefill) \cup {r}
          /\ \A i \in 1 .. Len(p.prefill) : pf[i] = p.prefill[i]
          /\ IsInjective(pf) /\ Len(p.prefill) \in Nat
      BY <1>2, AppendedQueue, InRange DEF ChunksPlanned
    <2>4. /\ tk \in Seq(Nat) /\ Len(tk) = k /\ tk[k] = chunk
          /\ \A i \in 1 .. Len(p.prefill) : tk[i] = p.tokens[i]
      <3>1. Len(p.tokens) = Len(p.prefill)
        BY DEF ChunksPlanned
      <3>2. /\ tk \in Seq(Nat) /\ Len(tk) = Len(p.tokens) + 1 /\ tk[Len(p.tokens) + 1] = chunk
            /\ \A i \in 1 .. Len(p.tokens) : tk[i] = p.tokens[i]
        BY <1>2, <2>1, AppendedQueue
      <3> HIDE DEF tk
      <3> QED BY ONLY <3>1, <3>2
    <2>5. /\ IsFiniteSet(TokensOf(tk)) /\ Cardinality(TokensOf(tk)) = p.scheduled + chunk
      BY <1>2, <2>1, TokensAppended DEF ChunksPlanned
    <2>6. q \in Plans
      BY <1>2, <2>1, <2>3, <2>4 DEF Plans
    <2> HIDE DEF q, pf, tk
    <2>7. ASSUME NEW i \in 1 .. Len(pf)
          PROVE  pf[i] \in A /\ req[pf[i]].state = "Prefill" /\ tk[i] \in 1 .. req[pf[i]].remaining
      <3>1. CASE i = k
        BY <2>1, <2>3, <2>4, <3>1
      <3>2. CASE i # k
        <4>1. i \in 1 .. Len(p.prefill)
          BY <2>3, <3>2
        <4> QED BY <2>3, <2>4, <4>1 DEF ChunksPlanned
      <3> QED BY <3>1, <3>2
    <2>8. ChunksPlanned(q, req, A)
      BY <2>1, <2>2, <2>3, <2>4, <2>5, <2>6, <2>7 DEF ChunksPlanned
    <2>9. q.scheduled >= p.scheduled
      BY <1>2, <2>1, <2>2
    <2> QED BY <2>2, <2>3, <2>8, <2>9 DEF OneMoreChunk
  <1> QED BY <1>3, <1>4

(* A chunk for each waiting request: what holds after the first m of them. *)
ChunksUpTo(p, q, req, A, w, m) ==
    /\ ChunksPlanned(q, req, A) /\ q.decode = p.decode
    /\ q.scheduled >= p.scheduled
    /\ Range(p.prefill) \subseteq Range(q.prefill)
    /\ Range(q.prefill) \subseteq Range(p.prefill) \cup {w[i] : i \in 1 .. m}
    /\ q.scheduled < max_batch_tokens => \A i \in 1 .. m : req[w[i]].remaining > 0 => w[i] \in Range(q.prefill)

LEMMA ChunksGoOn ==
    ASSUME NEW p, NEW q, NEW req \in Requested, NEW A \in SUBSET Requests, NEW w \in Seq(Requests),
           NEW m \in 1 .. Len(w), ChunksUpTo(p, q, req, A, w, m - 1), p \in Plans,
           IsInjective(w), Range(w) \subseteq A, \A r \in Range(w) : req[r].state = "Prefill" /\ r \notin Range(p.prefill)
    PROVE  ChunksUpTo(p, WithChunk(q, w[m], req[w[m]].remaining), req, A, w, m)
  <1> DEFINE r == w[m]
             n == req[r].remaining
             z == WithChunk(q, r, n)
  <1>1. Len(w) \in Nat /\ r \in Requests /\ r \in Range(w) /\ r \in A /\ DOMAIN w = 1 .. Len(w)
    BY InRange
  <1>2. n \in Nat /\ req[r].state = "Prefill"
    BY <1>1 DEF Requested, RequestRecord
  <1>3. 1 .. m = (1 .. m - 1) \cup {m}
    BY <1>1
  <1>4. r \notin Range(q.prefill)
    <2>1. \A i \in 1 .. m - 1 : w[i] # r
      <3>1. ASSUME NEW i \in 1 .. m - 1, w[i] = r PROVE FALSE
        <4>1. i \in 1 .. Len(w) /\ i # m
          BY <1>1
        <4> QED BY <1>1, <3>1, <4>1 DEF IsInjective
      <3> QED BY <3>1
    <2> HIDE DEF r
    <2>2. r \notin {w[i] : i \in 1 .. m - 1}
      BY <2>1
    <2> QED BY <1>1, <2>2 DEF ChunksUpTo
  <1> HIDE DEF r, n
  <1>5. ChunksPlanned(q, req, A)
    BY DEF ChunksUpTo
  <1>6. /\ ChunksPlanned(z, req, A)
        /\ z.decode = q.decode
        /\ Range(z.prefill) \subseteq Range(q.prefill) \cup {r}
        /\ Range(q.prefill) \subseteq Range(z.prefill)
        /\ z.scheduled >= q.scheduled
        /\ n > 0 /\ z.scheduled < max_batch_tokens => r \in Range(z.prefill)
    <2>1. req[r].state = "Prefill" /\ req[r].remaining = n
      BY <1>2 DEF n
    <2>2. r \in Requests /\ r \in A /\ n \in Nat
      BY <1>1, <1>2
    <2>3. OneMoreChunk(q, WithChunk(q, r, n), req, A, r, n)
      BY ONLY <1>4, <1>5, <2>1, <2>2, ChunkPlanned
    <2> QED BY <2>3 DEF OneMoreChunk
  <1>7. z.scheduled \in Nat /\ q.scheduled \in Nat /\ p.scheduled \in Nat /\ max_batch_tokens \in Nat
    BY <1>5, <1>6, Configured DEF ChunksPlanned, Plans
  <1> HIDE DEF z
  <1>8. z.scheduled >= p.scheduled /\ (z.scheduled < max_batch_tokens => q.scheduled < max_batch_tokens)
    BY <1>6, <1>7 DEF ChunksUpTo
  <1>9. {w[i] : i \in 1 .. m} = {w[i] : i \in 1 .. m - 1} \cup {r}
    BY <1>3 DEF r
  <1>10. Range(z.prefill) \subseteq Range(p.prefill) \cup {w[i] : i \in 1 .. m}
    BY <1>6, <1>9 DEF ChunksUpTo
  <1>11. ASSUME z.scheduled < max_batch_tokens, NEW i \in 1 .. m, req[w[i]].remaining > 0
         PROVE  w[i] \in Range(z.prefill)
    <2>1. CASE i = m
      BY <1>6, <1>11, <2>1 DEF r, n
    <2>2. CASE i # m
      <3>1. i \in 1 .. m - 1
        BY <1>3, <2>2
      <3> QED BY <1>6, <1>8, <1>11, <3>1 DEF ChunksUpTo
    <2> QED BY <2>1, <2>2
  <1>12. z.decode = p.decode /\ Range(p.prefill) \subseteq Range(z.prefill)
    BY <1>6 DEF ChunksUpTo
  <1>13. ChunksUpTo(p, z, req, A, w, m)
    BY <1>6, <1>8, <1>10, <1>11, <1>12 DEF ChunksUpTo
  <1> QED BY <1>13 DEF z, r, n

LEMMA ChunkedPlanned ==
    ASSUME NEW p, request \in Requested, NEW A \in SUBSET Requests, NEW w \in Seq(Requests),
           ChunksPlanned(p, request, A),
           IsInjective(w), Range(w) \subseteq A,
           \A r \in Range(w) : request[r].state = "Prefill" /\ r \notin Range(p.prefill)
    PROVE  ChunksUpTo(p, Chunked(p, w), request, A, w, Len(w))
  <1>1. Len(w) \in Nat /\ \A n \in 1 .. Len(w) : w[n] \in Requests
    BY InRange
  <1>2. PICK after : /\ Chunked(p, w) = after[Len(w)]
                     /\ after[0] = p
                     /\ \A n \in 1 .. Len(w) :
                           after[n] = WithChunk(after[n - 1], w[n], request[w[n]].remaining)
    BY <1>1, ChunkedSteps
  <1> DEFINE Good(n) == ChunksUpTo(p, after[n], request, A, w, n)
             Bad == {n \in 0 .. Len(w) : ~Good(n)}
  <1>3. Bad = {}
    <2>1. SUFFICES ASSUME Bad # {} PROVE FALSE
      OBVIOUS
    <2>2. PICK n \in Bad : \A k \in Bad : n <= k
      <3>1. Bad \in SUBSET Nat  OBVIOUS
      <3> HIDE DEF Bad
      <3> QED BY <2>1, <3>1, LeastNumber
    <2>3. n \in 0 .. Len(w) /\ ~Good(n)
      OBVIOUS
    <2>4. CASE n = 0
      <3>1. p.scheduled \in Nat /\ 1 .. 0 = {}
        BY DEF ChunksPlanned, Plans
      <3>2. ChunksUpTo(p, p, request, A, w, 0)
        BY <3>1 DEF ChunksUpTo
      <3> QED BY <1>2, <2>3, <2>4, <3>2
    <2>5. CASE n # 0
      <3>1. n \in 1 .. Len(w) /\ n - 1 \in 0 .. Len(w) /\ ~(n <= n - 1)
        BY <1>1, <2>3, <2>5
      <3>2. Good(n - 1)
        <4>1. n - 1 \notin Bad
          BY <2>2, <3>1
        <4> QED BY <3>1, <4>1
      <3> HIDE DEF Bad
      <3> DEFINE q == after[n - 1]
      <3>3. ChunksUpTo(p, q, request, A, w, n - 1) /\ p \in Plans
        BY <3>2 DEF ChunksPlanned
      <3>4. after[n] = WithChunk(q, w[n], request[w[n]].remaining)
        BY <1>2, <3>1
      <3> HIDE DEF q
      <3>5. ChunksUpTo(p, WithChunk(q, w[n], request[w[n]].remaining), request, A, w, n)
        BY <3>1, <3>3, ChunksGoOn
      <3> QED BY <2>3, <3>4, <3>5
    <2> QED BY <2>4, <2>5
  <1>4. Good(Len(w))
    <2>1. Len(w) \in 0 .. Len(w)
      BY <1>1
    <2> HIDE DEF Good
    <2> QED BY <1>3, <2>1
  <1> QED BY <1>2, <1>4

LEMMA ChunksCarried ==
    ASSUME NEW p, NEW req, NEW A, ChunksPlanned(p, req, A), NEW req2, NEW B,
           \A r \in Range(p.prefill) : r \in B /\ req2[r].state = req[r].state
                                               /\ req2[r].remaining = req[r].remaining
    PROVE  ChunksPlanned(p, req2, B)
  <1>1. p.prefill \in Seq(Requests)
    BY DEF ChunksPlanned, Plans
  <1>2. \A i \in 1 .. Len(p.prefill) : p.prefill[i] \in Range(p.prefill)
    BY <1>1, InRange
  <1> QED BY <1>2 DEF ChunksPlanned

LEMMA PlanBridge ==
    /\ PlanInv <=> (pc # "idle" => ChunksPlanned(plan, request, Range(active)) /\ plan.decode = <<>>)
    /\ PlanInv' <=> (pc' # "idle" => ChunksPlanned(plan', request', Range(active')) /\ plan'.decode = <<>>)
  BY DEF PlanInv, ChunksPlanned

LEMMA NothingPlanned ==
    ASSUME NEW req, NEW A
    PROVE  ChunksPlanned(NoPlan, req, A)
  <1>1. /\ NoPlan.prefill = <<>> /\ NoPlan.tokens = <<>> /\ NoPlan.scheduled = 0
        /\ NoPlan \in Plans /\ Len(<<>>) = 0 /\ 1 .. 0 = {}
    BY DEF NoPlan, Plans
  <1>2. TokensOf(<<>>) = {}
    BY <1>1 DEF TokensOf
  <1>3. IsFiniteSet({}) /\ Cardinality({}) = 0
    BY FS_EmptySet
  <1>4. IsInjective(<<>>)
    BY DEF IsInjective
  <1>5. 0 <= max_batch_tokens
    BY Configured
  <1> QED BY <1>1, <1>2, <1>3, <1>4, <1>5 DEF ChunksPlanned

(* The chunk of the request just admitted. *)
LEMMA AdmittedPlan ==
    ASSUME QueueInv, TailPlanned, PlanInv, pc \in Fitting, Admitted
    PROVE  PlanInv'
  <1> DEFINE c == candidate
             left == IF request[c].remaining = 0 THEN prompt_tokens[c] ELSE request[c].remaining
             rec == [request[c] EXCEPT !.lifetime = needed, !.state = "Prefill", !.remaining = left]
             passed(q) == \E i \in 1 .. cursor - 1 : pending[i] = q
  <1>1. pc \in Scanning /\ pc # "idle"
    BY DEF Fitting, Scanning
  <1>2. c \in Requests /\ State(c) = "Pending"
    BY <1>1, Scanned
  <1>3. /\ request \in Requested /\ active \in Seq(Requests) /\ plan \in Plans /\ plan.prefill \in Seq(Requests)
    BY Typed DEF QueueInv, Requested, Plans
  <1>4. /\ request' = [q \in Requests |->
              IF q = c THEN rec ELSE IF passed(q) THEN [request[q] EXCEPT !.skips = @ + 1] ELSE request[q]]
        /\ plan' = WithChunk(plan, c, left)
        /\ active' = Append(active, c)
    BY DEF Admitted
  <1> HIDE DEF passed, c
  <1>5. \A q \in Requests : q # c => /\ request'[q].state = request[q].state
                                     /\ request'[q].remaining = request[q].remaining
    BY <1>2, <1>3, <1>4 DEF Requested, RequestRecord
  <1>6. left \in Nat /\ request[c] \in RequestRecord
    BY <1>2, <1>3, Configured DEF Requested, RequestRecord
  <1>7. request'[c].state = "Prefill" /\ request'[c].remaining = left
    <2>1. request'[c] = rec
      BY <1>2, <1>4
    <2> HIDE DEF left
    <2>2. rec.state = "Prefill" /\ rec.remaining = left
      BY <1>6 DEF RequestRecord
    <2> QED BY <2>1, <2>2
  <1>8. Range(active') = Range(active) \cup {c}
    BY <1>2, <1>3, <1>4, AppendedQueue
  <1>9. Range(plan.prefill) \subseteq Range(active)
    BY <1>1, <1>3, TailBridge, PlannedActive
  <1>10. c \notin Range(active)
    BY <1>2 DEF QueueInv, QueuesAgree
  <1>11. ChunksPlanned(plan, request', Range(active'))
    <2>1. ChunksPlanned(plan, request, Range(active))
      BY <1>1, PlanBridge
    <2>2. \A r \in Range(plan.prefill) :
             /\ r \in Range(active') /\ request'[r].state = request[r].state
             /\ request'[r].remaining = request[r].remaining
      <3>1. Range(plan.prefill) \subseteq Requests
        BY <1>3, InRange
      <3> QED BY <1>5, <1>8, <1>9, <1>10, <3>1
    <2> QED BY <2>1, <2>2, ChunksCarried
  <1> HIDE DEF left
  <1>12. c \notin Range(plan.prefill) /\ c \in Range(active')
    BY <1>8, <1>9, <1>10
  <1> DEFINE req == request'
             A == Range(active')
  <1>13. /\ ChunksPlanned(plan, req, A) /\ c \in A /\ req[c].state = "Prefill" /\ req[c].remaining = left
    BY <1>7, <1>11, <1>12
  <1> HIDE DEF req, A
  <1>14. ChunksPlanned(WithChunk(plan, c, left), req, A) /\ WithChunk(plan, c, left).decode = plan.decode
    <2>1. OneMoreChunk(plan, WithChunk(plan, c, left), req, A, c, left)
      BY <1>2, <1>6, <1>12, <1>13, ChunkPlanned
    <2> QED BY <2>1 DEF OneMoreChunk
  <1>15. ChunksPlanned(plan', request', Range(active')) /\ plan'.decode = plan.decode
    BY <1>4, <1>14 DEF req, A
  <1> QED BY <1>1, <1>15, PlanBridge

LEMMA SchedulePlan ==
    ASSUME \A r \in Requests : prompt_tokens[r] > 0, QueueInv, TailPlanned, PlanInv, ScheduleStep
    PROVE  PlanInv'
  <1>1. active \in Seq(Requests) /\ plan.prefill \in Seq(Requests)
    BY Typed DEF QueueInv, Plans
  <1>2. CASE schedule_next
    <2>1. plan' = NoPlan /\ NoPlan.decode = <<>>
      BY <1>2 DEF schedule_next, NoPlan
    <2> QED BY <2>1, NothingPlanned, PlanBridge
  <1>3. CASE AdmitMore \/ try_admit \/ create \/ attach \/ (reserve /\ Refused)
    <2>1. plan' = plan /\ active' = active /\ request' = request /\ pc # "idle"
      BY <1>3 DEF AdmitMore, try_admit, create, attach, reserve, Refused, queueVars
    <2> QED BY <2>1, PlanBridge
  <1>4. CASE reclaim_for_admission
    <2>1. plan' = plan /\ pc # "idle"
      BY <1>4 DEF reclaim_for_admission
    <2>2. CASE UnderPressure /\ Park(victim)
      <3> DEFINE v == victim
      <3>1. v \in Range(active) /\ v \in Requests
        BY <2>2, VictimActive DEF UnderPressure
      <3>2. /\ QueuesAgree' /\ active' \in Seq(Requests)
            /\ \A q \in Requests : request'[q] = IF q = v THEN [request[v] EXCEPT !.state = "Preempted"]
                                                 ELSE request[q]
        BY <2>2, <3>1, ParkQueues
      <3> HIDE DEF v
      <3>3. TailPlanned'
        BY <1>4, ScheduleTail DEF ScheduleStep
      <3>4. NewestAre(active', plan.prefill)
        BY <1>4, <2>1, <3>3, TailBridge DEF reclaim_for_admission
      <3>5. Range(plan.prefill) \subseteq Range(active')
        BY <1>1, <3>2, <3>4, PlannedActive
      <3>6. v \notin Range(active')
        <4>1. request'[v].state = "Preempted"
          BY <3>1, <3>2, Typed DEF QueueInv, RequestRecord
        <4> QED BY <3>1, <3>2, <4>1, AgreeBridge DEF Agree
      <3>7. \A q \in Range(plan.prefill) :
               /\ q \in Range(active') /\ request'[q].state = request[q].state
               /\ request'[q].remaining = request[q].remaining
        <4>1. Range(plan.prefill) \subseteq Requests
          BY <1>1, InRange
        <4> QED BY <3>2, <3>5, <3>6, <4>1
      <3>8. ChunksPlanned(plan, request', Range(active'))
        BY <2>1, <3>7, ChunksCarried, PlanBridge
      <3> QED BY <2>1, <3>8, PlanBridge
    <2>3. CASE UNCHANGED <<cacheVars, queueVars>>
      BY <2>1, <2>3, PlanBridge DEF queueVars
    <2> QED BY <1>4, <2>2, <2>3 DEF reclaim_for_admission
  <1>5. CASE reserve /\ Admitted
    <2>1. pc \in Fitting
      BY <1>5 DEF reserve, Fitting
    <2> QED BY <1>5, <2>1, AdmittedPlan
  <1>6. CASE batch
    BY <1>6, PlanBridge DEF batch
  <1>7. reserve => Admitted \/ Refused
    BY DEF reserve
  <1> QED BY <1>2, <1>3, <1>4, <1>5, <1>6, <1>7 DEF ScheduleStep

LEMMA NextPlan ==
    ASSUME \A r \in Requests : prompt_tokens[r] > 0, QueueInv, TailPlanned, PlanInv, [SchedulerNext]_vars
    PROVE  PlanInv'
  <1>1. CASE ScheduleStep
    BY <1>1, SchedulePlan
  <1>2. CASE pc' = "idle"
    BY <1>2, PlanBridge
  <1>3. ASSUME NEW r \in Requests,
               \/ enqueue(r) \/ cancel(r) \/ preempt(r) \/ resume(r) \/ publish(r)
               \/ \E n \in 0 .. prompt_tokens[r] : complete_step(r, n)
               \/ \E s \in SequencesFor(r) : grow(r, s)
        PROVE  pc' = "idle"
    BY <1>3 DEF enqueue, cancel, preempt, resume, publish, complete_step, grow, Executing, callVars
  <1>4. CASE UNCHANGED vars
    BY <1>4, PlanBridge DEF vars, queueVars, callVars
  <1> QED BY <1>1, <1>2, <1>3, <1>4 DEF SchedulerNext

(* A plan that can be executed: chunks of what is left of the prompts of      *)
(* requests of A in Prefill, and requests of A in Decode, none twice.         *)
Executable(p, req, A) ==
    /\ p \in Plans
    /\ Len(p.tokens) = Len(p.prefill)
    /\ IsInjective(p.prefill) /\ IsInjective(p.decode)
    /\ \A i \in 1 .. Len(p.prefill) :
          /\ p.prefill[i] \in A
          /\ req[p.prefill[i]].state = "Prefill"
          /\ p.tokens[i] \in 1 .. req[p.prefill[i]].remaining
    /\ \A r \in Range(p.decode) : r \in A /\ req[r].state = "Decode"

(* Its tokens are counted, and leave out work of A only when the batch is full. *)
BatchFilled(p, req, A) ==
    /\ p.scheduled = Cardinality(TokensOf(p.tokens)) + Len(p.decode)
    /\ p.scheduled <= max_batch_tokens
    /\ p.scheduled < max_batch_tokens =>
          \A r \in A : /\ req[r].state = "Decode" => r \in Range(p.decode)
                       /\ req[r].state = "Prefill" /\ req[r].remaining > 0 => r \in Range(p.prefill)

(* The decode tokens that a plan with chunks has room for. *)
LEMMA DecodesPlanned ==
    ASSUME NEW q, active \in Seq(Requests), IsInjective(active), ChunksPlanned(q, request, Range(active)),
           q.scheduled < max_batch_tokens =>
               \A r \in Range(active) : State(r) = "Prefill" /\ request[r].remaining > 0 => r \in Range(q.prefill)
    PROVE  /\ Executable(WithDecodes(q), request, Range(active))
           /\ BatchFilled(WithDecodes(q), request, Range(active))
           /\ WithDecodes(q).prefill = q.prefill
  <1> DEFINE keep == {r \in Requests : State(r) = "Decode"}
             decoding == Kept(active, keep)
             room == IF q.scheduled < max_batch_tokens THEN max_batch_tokens - q.scheduled ELSE 0
             n == IF Len(decoding) < room THEN Len(decoding) ELSE room
             some == SubSeq(decoding, 1, n)
             p == [q EXCEPT !.decode = some, !.scheduled = q.scheduled + n]
  <1>1. /\ decoding \in Seq(Requests) /\ IsInjective(decoding)
        /\ Range(decoding) = Range(active) \cap keep
    BY KeptProperties
  <1>2. /\ q \in Plans /\ q.scheduled \in Nat /\ max_batch_tokens \in Nat /\ q.scheduled <= max_batch_tokens
        /\ q.scheduled = Cardinality(TokensOf(q.tokens))
    BY Configured DEF Plans, ChunksPlanned
  <1>3. WithDecodes(q) = p
    BY DEF WithDecodes
  <1> HIDE DEF decoding
  <1>4. Len(decoding) \in Nat /\ \A e : e \in Range(decoding) <=> \E i \in 1 .. Len(decoding) : decoding[i] = e
    BY <1>1, InRange
  <1>5. /\ n \in 0 .. Len(decoding) /\ n \in Nat /\ q.scheduled + n <= max_batch_tokens
        /\ (q.scheduled + n < max_batch_tokens => n = Len(decoding) /\ q.scheduled < max_batch_tokens)
    BY <1>2, <1>4
  <1> HIDE DEF n
  <1>6. some \in Seq(Requests) /\ Len(some) = n /\ \A i \in 1 .. n : some[i] = decoding[i]
    <2>1. 1 \in 1 .. Len(decoding) + 1 /\ n \in 1 - 1 .. Len(decoding)
      BY <1>4, <1>5
    <2>2. /\ some \in Seq(Requests)
          /\ Len(some) = IF 1 <= n THEN n - 1 + 1 ELSE 0
          /\ \A i \in 1 .. n - 1 + 1 : some[i] = decoding[1 + i - 1]
      BY <1>1, <2>1, SubSeqProperties
    <2> HIDE DEF some
    <2>3. \A i \in 1 .. n : i \in 1 .. n - 1 + 1 /\ 1 + i - 1 = i
      BY <1>5
    <2> QED BY <1>5, <2>2, <2>3
  <1> HIDE DEF some
  <1>7. /\ p \in Plans /\ p.prefill = q.prefill /\ p.tokens = q.tokens /\ p.decode = some
        /\ p.scheduled = q.scheduled + n
    <2> DEFINE sum == q.scheduled + n
    <2>1. sum \in Nat
      BY <1>2, <1>5
    <2> HIDE DEF sum
    <2>2. p = [q EXCEPT !.decode = some, !.scheduled = sum]
      BY DEF sum
    <2>3. /\ p \in Plans /\ p.prefill = q.prefill /\ p.tokens = q.tokens /\ p.decode = some
          /\ p.scheduled = sum
      BY ONLY <1>2, <1>6, <2>1, <2>2 DEF Plans
    <2> QED BY <2>3 DEF sum
  <1> HIDE DEF p
  <1>8. \A i \in 1 .. n : i \in 1 .. Len(decoding)
    BY <1>4, <1>5
  <1>9. IsInjective(some)
    <2>1. \A i, j \in 1 .. Len(decoding) : decoding[i] = decoding[j] => i = j
      BY <1>1, InRange
    <2>2. \A i, j \in 1 .. Len(some) : some[i] = some[j] => i = j
      BY <1>6, <1>8, <2>1
    <2> QED BY <1>6, <2>2, InRange
  <1>10. Range(some) \subseteq Range(decoding)
    <2>1. ASSUME NEW e \in Range(some) PROVE e \in Range(decoding)
      <3>1. PICK i \in 1 .. Len(some) : some[i] = e
        BY <1>6, InRange
      <3>2. i \in 1 .. n
        BY <1>6
      <3>3. decoding[i] = e /\ i \in 1 .. Len(decoding)
        BY <1>6, <1>8, <3>1, <3>2
      <3> QED BY <1>4, <3>3
    <2> QED BY <2>1
  <1>11. \A r \in Range(some) : r \in Range(active) /\ request[r].state = "Decode"
    BY <1>1, <1>10 DEF State
  <1>12. Executable(p, request, Range(active))
    BY <1>7, <1>9, <1>11 DEF Executable, ChunksPlanned
  <1>13. ASSUME p.scheduled < max_batch_tokens, NEW r \in Range(active)
         PROVE  /\ request[r].state = "Decode" => r \in Range(p.decode)
                /\ request[r].state = "Prefill" /\ request[r].remaining > 0 => r \in Range(p.prefill)
    <2>1. n = Len(decoding) /\ q.scheduled < max_batch_tokens
      BY <1>5, <1>7, <1>13
    <2>2. r \in Requests
      BY InRange
    <2>3. ASSUME request[r].state = "Decode" PROVE r \in Range(some)
      <3>1. r \in Range(decoding)
        BY <1>1, <2>2, <2>3 DEF State
      <3>2. PICK i \in 1 .. Len(decoding) : decoding[i] = r
        BY <1>4, <3>1
      <3>3. i \in 1 .. Len(some) /\ some[i] = r
        BY <1>6, <2>1, <3>2
      <3> QED BY <1>6, <3>3, InRange
    <2> QED BY <1>7, <2>1, <2>3 DEF State
  <1>14. BatchFilled(p, request, Range(active))
    BY <1>2, <1>5, <1>6, <1>7, <1>13 DEF BatchFilled
  <1> QED BY <1>3, <1>7, <1>12, <1>14

LEMMA BatchPlans ==
    ASSUME QueueInv, PlanInv, pc # "idle"
    PROVE  /\ Executable(Batched, request, Range(active))
           /\ BatchFilled(Batched, request, Range(active))
           /\ Range(plan.prefill) \subseteq Range(Batched.prefill)
  <1> DEFINE keep == {r \in Requests : State(r) = "Prefill" /\ r \notin Range(plan.prefill)}
             w == Kept(active, keep)
             q == Chunked(plan, w)
  <1>1. /\ plan \in Plans /\ active \in Seq(Requests) /\ request \in Requested /\ IsInjective(active)
    BY Typed DEF QueueInv, QueuesAgree, Requested
  <1>2. w \in Seq(Requests) /\ IsInjective(w) /\ Range(w) = Range(active) \cap keep
    BY <1>1, KeptProperties
  <1>3. Batched = WithDecodes(q)
    BY DEF Batched
  <1> HIDE DEF w
  <1>4. ChunksPlanned(plan, request, Range(active)) /\ Range(active) \in SUBSET Requests
    BY <1>1, PlanBridge, InRange
  <1>5. ChunksUpTo(plan, q, request, Range(active), w, Len(w))
    <2>1. \A r \in Range(w) : request[r].state = "Prefill" /\ r \notin Range(plan.prefill)
      BY <1>2 DEF State
    <2>2. Range(w) \subseteq Range(active)
      BY <1>2
    <2> HIDE DEF keep
    <2> QED BY <1>1, <1>2, <1>4, <2>1, <2>2, ChunkedPlanned
  <1> HIDE DEF q
  <1>6. ASSUME q.scheduled < max_batch_tokens, NEW r \in Range(active),
               State(r) = "Prefill", request[r].remaining > 0
        PROVE  r \in Range(q.prefill)
    <2>1. CASE r \in Range(plan.prefill)
      BY <1>5, <2>1 DEF ChunksUpTo
    <2>2. CASE r \notin Range(plan.prefill)
      <3>1. r \in Range(w)
        BY <1>2, <1>4, <1>6, <2>2
      <3>2. PICK i \in 1 .. Len(w) : w[i] = r
        BY <1>2, <3>1, InRange
      <3> QED BY <1>5, <1>6, <3>2 DEF ChunksUpTo
    <2> QED BY <2>1, <2>2
  <1>7. ChunksPlanned(q, request, Range(active)) /\ Range(plan.prefill) \subseteq Range(q.prefill)
    BY <1>5 DEF ChunksUpTo
  <1> QED BY <1>1, <1>3, <1>6, <1>7, DecodesPlanned

LEMMA PlansAppended ==
    ASSUME NEW a \in Seq(Requests), NEW b \in Seq(Requests)
    PROVE  /\ Range(a \o b) = Range(a) \cup Range(b)
           /\ IsInjective(a) /\ IsInjective(b) /\ Range(a) \cap Range(b) = {} => IsInjective(a \o b)
  <1> DEFINE c == a \o b
  <1>1. /\ c \in Seq(Requests) /\ Len(c) = Len(a) + Len(b)
        /\ \A i \in 1 .. Len(a) + Len(b) : c[i] = IF i <= Len(a) THEN a[i] ELSE b[i - Len(a)]
    BY ConcatProperties
  <1>2. Len(a) \in Nat /\ Len(b) \in Nat
    BY InRange
  <1> HIDE DEF c
  <1>3. \A i \in 1 .. Len(c) : \/ i \in 1 .. Len(a) /\ c[i] = a[i]
                               \/ i - Len(a) \in 1 .. Len(b) /\ c[i] = b[i - Len(a)]
    BY <1>1, <1>2
  <1>4. \A i \in 1 .. Len(a) : i \in 1 .. Len(c) /\ c[i] = a[i]
    BY <1>1, <1>2
  <1>5. \A i \in 1 .. Len(b) : i + Len(a) \in 1 .. Len(c) /\ c[i + Len(a)] = b[i]
    BY <1>1, <1>2
  <1>6. Range(c) = Range(a) \cup Range(b)
    <2>1. ASSUME NEW e PROVE e \in Range(c) <=> e \in Range(a) \/ e \in Range(b)
      <3>1. e \in Range(c) <=> \E i \in 1 .. Len(c) : c[i] = e
        BY <1>1, InRange
      <3>2. /\ e \in Range(a) <=> \E i \in 1 .. Len(a) : a[i] = e
            /\ e \in Range(b) <=> \E i \in 1 .. Len(b) : b[i] = e
        BY InRange
      <3> QED BY ONLY <1>3, <1>4, <1>5, <3>1, <3>2
    <2> QED BY <2>1
  <1>7. ASSUME IsInjective(a), IsInjective(b), Range(a) \cap Range(b) = {},
               NEW i \in 1 .. Len(c), NEW j \in 1 .. Len(c), c[i] = c[j]
        PROVE  i = j
    <2>1. /\ \A x, y \in 1 .. Len(a) : a[x] = a[y] => x = y
          /\ \A x, y \in 1 .. Len(b) : b[x] = b[y] => x = y
      BY <1>7, InRange
    <2>2. /\ \A x \in 1 .. Len(a) : a[x] \in Range(a)
          /\ \A x \in 1 .. Len(b) : b[x] \in Range(b)
      BY InRange
    <2>3. ASSUME i - Len(a) = j - Len(a) PROVE i = j
      BY <1>1, <1>2, <2>3
    <2> QED BY <1>3, <1>7, <2>1, <2>2, <2>3
  <1>8. IsInjective(a) /\ IsInjective(b) /\ Range(a) \cap Range(b) = {} => IsInjective(c)
    BY <1>1, <1>7, InRange
  <1> QED BY <1>6, <1>8 DEF c

(* When every prompt has tokens, the plan schedule_next returns can be        *)
(* executed and fills the batch: it has active requests, none twice, chunks   *)
(* of what is left of their prompts, at most max_batch_tokens tokens, and it  *)
(* leaves work out only when there is no room.                                *)
THEOREM PlansSound ==
    ASSUME \A r \in Requests : prompt_tokens[r] > 0
    PROVE  SchedulerSpec => PlanSound
  <1>1. SchedulerInit => TailPlanned /\ PlanInv
    BY TailBridge, PlanBridge DEF SchedulerInit
  <1>2. CoreInv /\ TailPlanned /\ PlanInv /\ [SchedulerNext]_vars => TailPlanned' /\ PlanInv'
    BY NextTail, NextPlan DEF CoreInv
  <1>3. CoreInv /\ TailPlanned /\ PlanInv /\ [SchedulerNext]_vars => [pc = "batch" => PlanOK']_vars
    <2>1. SUFFICES ASSUME CoreInv, PlanInv, SchedulerNext, pc = "batch" PROVE PlanOK'
      OBVIOUS
    <2>2. batch
      BY <2>1 DEF SchedulerNext, ScheduleStep, schedule_next, AdmitMore, try_admit, reclaim_for_admission,
                  create, attach, reserve, enqueue, cancel, preempt, resume, publish, complete_step, grow,
                  Executing
    <2> DEFINE p == Batched
    <2>3. plan' = p /\ request' = request /\ active' = active
      BY <2>2 DEF batch, queueVars
    <2>4. Executable(p, request, Range(active)) /\ BatchFilled(p, request, Range(active))
      BY <2>1, BatchPlans DEF CoreInv
    <2> HIDE DEF p
    <2>5. /\ p.prefill \in Seq(Requests) /\ p.tokens \in Seq(Nat) /\ p.decode \in Seq(Requests)
          /\ DOMAIN p.prefill = 1 .. Len(p.prefill) /\ DOMAIN p.tokens = 1 .. Len(p.tokens)
      <3>1. /\ p.prefill \in Seq(Requests) /\ p.tokens \in Seq(Nat) /\ p.decode \in Seq(Requests)
        BY <2>4 DEF Executable, Plans
      <3> QED BY <3>1, InRange
    <2>6. \A r \in Range(p.prefill) : r \in Range(active) /\ request[r].state = "Prefill"
      BY <2>4, <2>5, InRange DEF Executable
    <2>7. /\ IsInjective(p.prefill \o p.decode)
          /\ Range(p.prefill \o p.decode) \subseteq Range(active)
      <3>1. Range(p.prefill) \cap Range(p.decode) = {}
        BY <2>4, <2>6 DEF Executable
      <3> QED BY <2>4, <2>5, <2>6, <3>1, PlansAppended DEF Executable
    <2>8. PlannedTokens' = TokensOf(p.tokens)
      BY <2>3, <2>5 DEF PlannedTokens, TokensOf
    <2>9. \A i \in DOMAIN p.prefill : p.tokens[i] \in 1 .. request[p.prefill[i]].remaining
      BY <2>4, <2>5 DEF Executable
    <2> QED BY <2>3, <2>4, <2>7, <2>8, <2>9 DEF PlanOK, BatchFilled, State
  <1> QED BY <1>1, <1>2, <1>3, SchedulerInvariant, PTL DEF SchedulerSpec, PlanSound
=============================================================================
