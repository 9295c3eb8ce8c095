-------------------------- MODULE TraceReplayProofs --------------------------
(***************************************************************************)
(* Proofs about TraceReplay, on top of those about the scheduler: the      *)
(* driver changes the cache by the manager's own operations only, its      *)
(* books agree with the scheduler's, every committed token has a block and *)
(* a replay that completes leaves nothing behind.                          *)
(***************************************************************************)
EXTENDS TraceReplay, SchedulerProofs

Underway == {"Prefill", "Decode", "Preempted"}

(* schedule_next runs in phase "plan" only; the locals of the loops are in    *)
(* their ranges, and two steps without progress end the replay.               *)
PhaseInv ==
    /\ at.phase = "plan" <=> pc # "idle"
    /\ at.phase \in {"prefill", "touch", "publish", "fork", "decode", "reclaim", "write", "resume"} => at.i > 0
    /\ at.phase \in {"touch", "publish", "fork"} => at.i <= Len(plan.prefill)
    /\ at.phase = "write" => at.i <= Len(plan.decode)
    /\ at.phase \in {"decode", "write"} => at.j > 0
    /\ at.phase # "done" => no_progress_steps <= 1

(* The driver's record p of request r and the scheduler's record q, where S   *)
(* are r's sequences and T the block tables: what has been committed is what  *)
(* is not left of the prompt and what was decoded, and it has its blocks; a   *)
(* request that was admitted but not seen yet has its first sequence only.    *)
Book(r, p, q, S, T) ==
    /\ ~p.admitted => p = NoProgress
    /\ p.finished => p.admitted /\ p.sequences = <<>> /\ q.state = "Unknown"
    /\ q.state = "Unknown" => p.finished \/ ~p.admitted
    /\ q.state = "Pending" => ~p.admitted /\ q.remaining = prompt_tokens[r]
    /\ q.state = "Decode" => q.remaining = 0
    /\ q.state \in Underway =>
          /\ \A s \in S : prompt_tokens[r] <= Blocks(T, s) * TokensPerBlock
          /\ ~p.admitted => S = {r} /\ q.remaining = prompt_tokens[r]
          /\ p.admitted =>
                /\ Range(p.sequences) = S
                /\ p.committed + q.remaining = prompt_tokens[r] + p.decoded
                /\ p.decoded > 0 => q.remaining = 0
                /\ \A s \in S : p.committed <= Blocks(T, s) * TokensPerBlock
BooksInv == \A r \in Requests : Book(r, progress[r], request[r], SequencesFor(r), tables)

(* The chunks of plan p that were not executed, and those not begun, when the *)
(* loop is at a.                                                              *)
Unexecuted(p, a) == {k \in 1 .. Len(p.prefill) : \/ a.phase \in {"prefill", "touch"} /\ k >= a.i
                                                 \/ a.phase \in {"publish", "fork"} /\ k > a.i}
Unbegun(p, a) == {k \in 1 .. Len(p.prefill) : \/ a.phase = "plan"
                                              \/ a.phase = "prefill" /\ k >= a.i
                                              \/ a.phase \in {"touch", "publish", "fork"} /\ k > a.i}

(* The driver has not seen a request only if it is ahead in the plan; and     *)
(* requests that are not of the trace are unknown.                            *)
SeenInv ==
    /\ \A r \in Requests : State(r) \in Underway /\ ~progress[r].admitted
          => \E k \in Unbegun(plan, at) : plan.prefill[k] = r
    /\ at.phase \in {"touch", "publish", "fork"} => progress[Prefilled].admitted
    /\ \A r \in Requests : r \notin InTrace => State(r) = "Unknown"

(* What is left of the plan can be executed. *)
PrefillAhead ==
    /\ at.phase # "plan" => /\ IsInjective(plan.prefill) /\ IsInjective(plan.decode)
                            /\ Len(plan.tokens) = Len(plan.prefill)
    /\ \A k \in Unexecuted(plan, at) : /\ State(plan.prefill[k]) = "Prefill"
                                       /\ plan.tokens[k] \in 1 .. request[plan.prefill[k]].remaining
    /\ at.phase \in {"publish", "fork"} => State(Prefilled) = "Decode"
DecodeAhead ==
    /\ at.phase \in {"prefill", "touch", "publish", "fork"} => \A r \in Range(plan.decode) : State(r) = "Decode"
    /\ at.phase \in {"decode", "reclaim", "write"} =>
          \A k \in 1 .. Len(plan.decode) : k >= at.i => State(plan.decode[k]) \in {"Decode", "Preempted"}
    /\ at.phase = "write" => State(Decoding) = "Decode"

(* The first n branches of a request have a block for its next token. *)
Grown(p, T, n) == \A k \in 1 .. Len(p.sequences) : k <= n =>
                      p.committed \div TokensPerBlock < Blocks(T, p.sequences[k])
GrownInv ==
    /\ at.phase = "decode" /\ at.i <= Len(plan.decode) =>
          (State(Decoding) = "Decode" => Grown(progress[Decoding], tables, at.j - 1))
    /\ at.phase = "write" => Grown(progress[Decoding], tables, Len(progress[Decoding].sequences))

(* live has the requests that were admitted and are not finished, and until   *)
(* the end of the step those that finished in it.                             *)
LiveInv ==
    /\ IsInjective(live)
    /\ \A r \in Requests : /\ r \in Range(live) => progress[r].admitted
                           /\ progress[r].admitted /\ ~progress[r].finished => r \in Range(live)
    /\ at.phase \notin {"decode", "reclaim", "write", "account", "resume", "close"} =>
          \A r \in Range(live) : ~progress[r].finished

(* preempted_ids may lack the requests that were parked in this step. *)
ParkedInv ==
    /\ preempted_ids \subseteq preemption_info
    /\ at.phase \in {"resume", "close", "loop", "done"} => preempted_ids = preemption_info

BaseInv == CoreInv /\ SequencesInv /\ TailPlanned /\ PlanInv
DriverInv == /\ ReplayTypeOK /\ trace \in Traces /\ PhaseInv
             /\ BooksInv /\ SeenInv /\ PrefillAhead /\ DecodeAhead /\ GrownInv /\ LiveInv /\ ParkedInv

Prompted == \A r \in Requests : prompt_tokens[r] > 0

-----------------------------------------------------------------------------
(* Numbers and blocks. *)
LEMMA ReplayConstants ==
    /\ NumTables = 1 /\ SeqIds \subseteq Nat /\ TokensPerBlock \in Nat \ {0}
    /\ \A r \in Requests : root_sequence_id[r] = r /\ r \in SeqIds /\ r \in Nat
    /\ \A r \in Requests : prompt_tokens[r] \in Nat /\ prompt_tokens[r] <= MaxTokens
    /\ MaxTokens \in Nat
  <1>1. \A r \in Requests : root_sequence_id[r] = r /\ root_sequence_id[r] \in SeqIds
    BY ReplayConfig, Configured
  <1>2. ASSUME NEW r \in Requests PROVE prompt_tokens[r] \in Nat /\ prompt_tokens[r] <= MaxTokens
    <2>1. /\ prompt_tokens[r] \in Nat /\ max_decode_tokens[r] \in Nat /\ MaxTokens \in Nat
          /\ prompt_tokens[r] + max_decode_tokens[r] <= MaxTokens
      BY Configured, ConfigFacts
    <2> QED BY <2>1
  <1> QED BY <1>1, <1>2, ReplayConfig, ConfigFacts

LEMMA LeastMember ==
    ASSUME NEW S \in SUBSET Nat, S # {}
    PROVE  Min(S) \in S
  <1>1. \E x \in S : \A y \in S : x <= y
    BY LeastNumber
  <1> QED BY <1>1 DEF Min

LEMMA GreatestMember ==
    ASSUME NEW S \in SUBSET Nat, S # {}, NEW n \in Nat, \A x \in S : x <= n
    PROVE  Max(S) \in S
  <1> DEFINE U == {n - x : x \in S}
  <1>1. U \in SUBSET Nat /\ U # {}
    <2>1. \A x \in S : n - x \in Nat
      OBVIOUS
    <2> QED BY <2>1
  <1>2. PICK u \in U : \A v \in U : u <= v
    <2> HIDE DEF U
    <2> QED BY <1>1, LeastNumber
  <1>3. PICK x \in S : u = n - x
    OBVIOUS
  <1>4. ASSUME NEW y \in S PROVE x >= y
    <2>1. n - y \in U
      OBVIOUS
    <2>2. x \in Nat /\ y \in Nat /\ u <= n - y
      BY <1>2, <2>1
    <2> HIDE DEF U
    <2> QED BY <1>3, <2>2
  <1> QED BY <1>4 DEF Max

(* The members of a list of numbers have a bound. *)
LEMMA ListBounded ==
    ASSUME NEW q \in Seq(Nat)
    PROVE  \E n \in Nat : \A x \in Range(q) : x <= n
  <1>1. Len(q) \in Nat /\ \A i \in 1 .. Len(q) : q[i] \in Nat
    BY InRange
  <1> DEFINE Bounded(m) == \E n \in Nat : \A i \in 1 .. m : q[i] <= n
             Bad == {m \in 0 .. Len(q) : ~Bounded(m)}
  <1>2. Bad = {}
    <2>1. SUFFICES ASSUME Bad # {} PROVE FALSE
      OBVIOUS
    <2>2. PICK m \in Bad : \A k \in Bad : m <= k
      <3>1. Bad \in SUBSET Nat  OBVIOUS
      <3> HIDE DEF Bad
      <3> QED BY <2>1, <3>1, LeastNumber
    <2>3. m \in 0 .. Len(q) /\ ~Bounded(m)
      OBVIOUS
    <2>4. CASE m = 0
      BY <2>3, <2>4
    <2>5. CASE m # 0
      <3>1. m - 1 \in 0 .. Len(q) /\ ~(m <= m - 1) /\ m \in 1 .. Len(q)
        BY <1>1, <2>3, <2>5
      <3>2. Bounded(m - 1)
        BY <2>2, <3>1
      <3>3. PICK n \in Nat : \A i \in 1 .. m - 1 : q[i] <= n
        BY <3>2
      <3> DEFINE c == q[m]
      <3>4. c \in Nat
        BY <1>1, <3>1
      <3>5. ASSUME NEW i \in 1 .. m PROVE q[i] <= n + c
        <4>1. i \in 1 .. Len(q)
          BY <1>1, <3>1
        <4>2. CASE i = m
          <5> HIDE DEF c
          <5>1. c <= n + c
            BY ONLY <3>4, n \in Nat
          <5> QED BY <4>2, <5>1 DEF c
        <4>3. CASE i # m
          <5>1. i \in 1 .. m - 1
            BY <3>1, <4>3
          <5>2. q[i] <= n /\ q[i] \in Nat
            BY <1>1, <3>3, <4>1, <5>1
          <5> DEFINE x == q[i]
          <5> HIDE DEF c, x
          <5>3. x <= n /\ x \in Nat
            BY <5>2 DEF x
          <5>4. x <= n + c
            BY ONLY <3>4, <5>3, n \in Nat
          <5> QED BY <5>4 DEF x
        <4> QED BY <4>2, <4>3
      <3> HIDE DEF c
      <3>6. n + c \in Nat
        BY <3>4
      <3>7. Bounded(m)
        BY <3>5, <3>6
      <3> QED BY <2>3, <3>7
    <2> QED BY <2>4, <2>5
  <1>3. Bounded(Len(q))
    <2>1. Len(q) \in 0 .. Len(q)
      BY <1>1
    <2> HIDE DEF Bounded
    <2> QED BY <1>2, <2>1
  <1>4. PICK n \in Nat : \A i \in 1 .. Len(q) : q[i] <= n
    BY <1>3
  <1> QED BY <1>4, InRange

(* b blocks have a place for position n exactly when they hold n + 1 tokens,  *)
(* and then b + 1 blocks have one for every position up to n + 1.             *)
LEMMA PlaceOfToken ==
    ASSUME NEW n \in Nat, NEW b \in Nat
    PROVE  /\ b * TokensPerBlock \in Nat /\ n \div TokensPerBlock \in Nat
           /\ n \div TokensPerBlock < b <=> n + 1 <= b * TokensPerBlock
           /\ n <= b * TokensPerBlock => n \div TokensPerBlock < b + 1
  <1> DEFINE T == TokensPerBlock
             q == n \div T
  <1>1. T \in Nat /\ T > 0
    BY ReplayConstants
  <1> HIDE DEF T
  <1>2. q \in Nat /\ n % T \in Nat /\ n % T < T /\ n = q * T + (n % T)
    BY <1>1, Division
  <1> DEFINE rest == n % T
  <1> HIDE DEF q, rest
  <1>3. rest \in Nat /\ rest < T /\ n = q * T + rest /\ q \in Nat
    BY <1>2 DEF rest
  <1>4. b * T \in Nat /\ q * T \in Nat
    BY <1>1, <1>3
  <1>5. q < b => q * T + T <= b * T
    BY <1>1, <1>3, ItemsApart
  <1>6. b < q => b * T + T <= q * T
    BY <1>1, <1>3, ItemsApart
  <1>7. q = b => q * T = b * T
    OBVIOUS
  <1> DEFINE bT == b * T
             qT == q * T
  <1> HIDE DEF bT, qT
  <1>8. /\ bT \in Nat /\ qT \in Nat /\ n = qT + rest
        /\ q < b => qT + T <= bT
        /\ b < q => bT + T <= qT
        /\ q = b => qT = bT
    BY <1>3, <1>4, <1>5, <1>6, <1>7 DEF bT, qT
  <1>9. /\ q < b <=> n + 1 <= bT
        /\ n <= bT => q < b + 1
    BY ONLY <1>1, <1>3, <1>8, n \in Nat, b \in Nat
  <1> QED BY <1>3, <1>4, <1>9 DEF q, T, bT

LEMMA RoomGrows ==
    ASSUME NEW a \in Nat, NEW b \in Nat, a <= b
    PROVE  /\ a * TokensPerBlock \in Nat /\ b * TokensPerBlock \in Nat
           /\ a * TokensPerBlock <= b * TokensPerBlock
  <1> DEFINE T == TokensPerBlock
  <1>1. T \in Nat
    BY ReplayConstants
  <1> HIDE DEF T
  <1>2. a * T \in Nat /\ b * T \in Nat
    BY <1>1
  <1>3. a < b => a * T + T <= b * T
    BY <1>1, ItemsApart
  <1>4. a = b => a * T = b * T
    OBVIOUS
  <1> QED BY <1>1, <1>2, <1>3, <1>4 DEF T

-----------------------------------------------------------------------------
(* The lengths of the block tables after the calls of the driver. *)
LEMMA BlocksTyped ==
    ASSUME Structure, NEW s \in SeqIds
    PROVE  Blocks(tables, s) \in Nat
  BY ConfigFacts, TablesFacts DEF Structure, Blocks

LEMMA LengthsSwapOut ==
    ASSUME Structure, NEW q, swap_out(q), NEW s \in SeqIds
    PROVE  Blocks(tables', s) = Blocks(tables, s)
  <1> DEFINE slotOf(g, l, i) == {g[a] : a \in {b \in DOMAIN g : q[b[1]] = s /\ b[2] = <<l, i>>}}
             n == Len(tables[s][1])
  <1>1. PICK g \in Injection(Evictions(q), FreeSlots) :
            tables' = [t \in SeqIds |-> [l \in Tables |-> [i \in 1 .. Len(tables[t][l]) |->
                    IF {g[a] : a \in {b \in DOMAIN g : q[b[1]] = t /\ b[2] = <<l, i>>}} = {} THEN tables[t][l][i]
                    ELSE [tables[t][l][i] EXCEPT !.slot =
                            CHOOSE k \in {g[a] : a \in {b \in DOMAIN g : q[b[1]] = t /\ b[2] = <<l, i>>}} : TRUE]]]]
    BY DEF swap_out
  <1> DEFINE e == [i \in 1 .. n |-> IF slotOf(g, 1, i) = {} THEN tables[s][1][i]
                                    ELSE [tables[s][1][i] EXCEPT !.slot = CHOOSE k \in slotOf(g, 1, i) : TRUE]]
  <1>2. 1 \in Tables /\ n \in Nat
    BY ConfigFacts, TablesFacts DEF Structure
  <1>3. tables'[s][1] = e
    BY <1>1, <1>2
  <1> HIDE DEF slotOf, n
  <1>4. Len(e) = n
    BY <1>2
  <1> QED BY <1>3, <1>4 DEF Blocks, n

LEMMA LengthsSwapIn ==
    ASSUME Structure, NEW S, swap_in(S), NEW s \in SeqIds
    PROVE  Blocks(tables', s) = Blocks(tables, s)
  <1> DEFINE n == Len(tables[s][1])
  <1>1. PICK g \in Injection(Absentees(S), FreeFrames(ref_count)) :
            tables' = [t \in SeqIds |-> [l \in Tables |-> [i \in 1 .. Len(tables[t][l]) |->
                IF <<t, <<l, i>>>> \in DOMAIN g
                THEN [tables[t][l][i] EXCEPT !.frame = g[<<t, <<l, i>>>>], !.slot = NoSlot]
                ELSE tables[t][l][i]]]]
    BY DEF swap_in
  <1> DEFINE e == [i \in 1 .. n |->
                IF <<s, <<1, i>>>> \in DOMAIN g
                THEN [tables[s][1][i] EXCEPT !.frame = g[<<s, <<1, i>>>>], !.slot = NoSlot]
                ELSE tables[s][1][i]]
  <1>2. 1 \in Tables /\ n \in Nat
    BY ConfigFacts, TablesFacts DEF Structure
  <1>3. tables'[s][1] = e
    BY <1>1, <1>2
  <1> HIDE DEF n
  <1>4. Len(e) = n
    BY <1>2
  <1> QED BY <1>3, <1>4 DEF Blocks, n

LEMMA LengthsEnsure ==
    ASSUME Structure, NEW t \in SeqIds, NEW pos, NEW l, ensure_token_writable(t, pos, l), NEW s \in SeqIds
    PROVE  Blocks(tables', s) = Blocks(tables, s)
  <1> DEFINE c == CellOf(pos, l)
  <1>1. /\ c[1] = l /\ c \in Resident(t)
        /\ \/ tables' = [tables EXCEPT ![t][c[1]][c[2]].writable = TRUE]
           \/ \E copy \in Frames :
                 tables' = [tables EXCEPT ![t][c[1]][c[2]] = [@ EXCEPT !.frame = copy, !.writable = TRUE]]
    BY ZenonT(30) DEF ensure_token_writable, CopyOnWrite, CellOf, FreeFrames
  <1> HIDE DEF c
  <1>2. PICK e : tables' = [tables EXCEPT ![t][c[1]][c[2]] = e]
    BY <1>1
  <1>3. tables \in [SeqIds -> [Tables -> Seq(Entry)]] /\ 1 \in Tables
    BY ConfigFacts DEF Structure, TypeOK
  <1>4. tables'[s] = IF s = t THEN [tables[t] EXCEPT ![c[1]] = [tables[t][c[1]] EXCEPT ![c[2]] = e]] ELSE tables[s]
    BY <1>2, <1>3
  <1>5. tables'[s][1] = IF s = t /\ c[1] = 1 THEN [tables[s][1] EXCEPT ![c[2]] = e] ELSE tables[s][1]
    BY <1>3, <1>4
  <1> DEFINE old == tables[s][1]
  <1>6. old \in Seq(Entry)
    BY <1>3
  <1> HIDE DEF old
  <1>7. Len([old EXCEPT ![c[2]] = e]) = Len(old)
    BY <1>6
  <1> QED BY <1>5, <1>7, SMTT(30) DEF Blocks, old

LEMMA LengthsFork ==
    ASSUME Structure, NEW p \in SeqIds, NEW t \in SeqIds, NEW r, fork_sequence(p, t, r), NEW s \in SeqIds
    PROVE  Blocks(tables', s) = IF s = t THEN Blocks(tables, p) ELSE Blocks(tables, s)
  <1>1. tables' = [tables EXCEPT ![t] = [l \in Tables |-> Forked(tables[p][l])]]
    BY DEF fork_sequence
  <1>2. tables \in [SeqIds -> [Tables -> Seq(Entry)]] /\ 1 \in Tables
    BY ConfigFacts DEF Structure, TypeOK
  <1>3. s = t => tables'[s][1] = Forked(tables[p][1])
    BY <1>1, <1>2
  <1>4. Len(Forked(tables[p][1])) = Len(tables[p][1])
    BY <1>2, ForkedTable
  <1>5. s # t => tables'[s] = tables[s]
    BY <1>1, <1>2
  <1> QED BY <1>3, <1>4, <1>5 DEF Blocks

-----------------------------------------------------------------------------
(* The steps of the driver, as calls of the scheduler and of the cache. *)
ProgressRecord == [sequences : Seq(SeqIds), committed : Nat, decoded : Nat, shared : Nat,
                   admitted : BOOLEAN, finished : BOOLEAN]
Places == [phase : {"loop", "plan", "prefill", "touch", "publish", "fork", "decode", "reclaim",
                    "write", "account", "resume", "close", "done"},
           i : Nat, j : Nat, progress_made : BOOLEAN, growth_failed : BOOLEAN]

LEMMA ReplayTyped ==
    /\ ReplayTypeOK <=> /\ progress \in [Requests -> ProgressRecord] /\ live \in Seq(Requests)
                        /\ preempted_ids \subseteq Requests /\ next_fork_sequence \in Nat
                        /\ no_progress_steps \in 0 .. 2 /\ at \in Places
    /\ ReplayTypeOK' <=> /\ progress' \in [Requests -> ProgressRecord] /\ live' \in Seq(Requests)
                         /\ preempted_ids' \subseteq Requests /\ next_fork_sequence' \in Nat
                         /\ no_progress_steps' \in 0 .. 2 /\ at' \in Places
  BY DEF ReplayTypeOK, ProgressRecord, Places

LEMMA GotoPlace ==
    ASSUME at \in Places, NEW n \in Nat, NEW m \in Nat,
           NEW p \in {"loop", "plan", "prefill", "touch", "publish", "fork", "decode", "reclaim",
                      "write", "account", "resume", "close", "done"}
    PROVE  /\ Goto(p, n, m) \in Places
           /\ Goto(p, n, m).phase = p /\ Goto(p, n, m).i = n /\ Goto(p, n, m).j = m
           /\ Goto(p, n, m).progress_made = at.progress_made
           /\ Goto(p, n, m).growth_failed = at.growth_failed
  BY DEF Goto, Places

(* What the invariants say of the variables a step reads. *)
LEMMA DriverFacts ==
    ASSUME BaseInv, DriverInv
    PROVE  /\ Structure /\ QueueInv /\ QueuesAgree
           /\ plan \in Plans /\ plan.prefill \in Seq(Requests) /\ plan.tokens \in Seq(Nat)
           /\ plan.decode \in Seq(Requests)
           /\ Len(plan.prefill) \in Nat /\ Len(plan.decode) \in Nat
           /\ request \in Requested /\ active \in Seq(Requests)
           /\ progress \in [Requests -> ProgressRecord] /\ live \in Seq(Requests) /\ Len(live) \in Nat
           /\ at \in Places /\ at.i \in Nat /\ at.j \in Nat
           /\ \A k \in 1 .. Len(live) : live[k] \in Requests /\ live[k] \in Range(live)
  <1>1. /\ Structure /\ QueueInv /\ SchedulerTypeOK /\ QueuesAgree /\ ReplayTypeOK
    BY DEF BaseInv, DriverInv, CoreInv, QueueInv
  <1>2. plan \in Plans /\ request \in Requested /\ active \in Seq(Requests)
    BY <1>1, Typed DEF Requested
  <1>3. plan.prefill \in Seq(Requests) /\ plan.tokens \in Seq(Nat) /\ plan.decode \in Seq(Requests)
    BY <1>2 DEF Plans
  <1>4. /\ progress \in [Requests -> ProgressRecord] /\ live \in Seq(Requests) /\ at \in Places
    BY <1>1, ReplayTyped
  <1>5. at.i \in Nat /\ at.j \in Nat
    BY <1>4 DEF Places
  <1> QED BY <1>1, <1>2, <1>3, <1>4, <1>5, InRange

(* The request of the current chunk, and of the current decode token. *)
LEMMA CurrentPrefill ==
    ASSUME BaseInv, DriverInv, at.phase \in {"prefill", "touch", "publish", "fork"}, at.i <= Len(plan.prefill)
    PROVE  at.i \in 1 .. Len(plan.prefill) /\ Prefilled \in Requests /\ Prefilled = plan.prefill[at.i]
  <1>1. at.i \in 1 .. Len(plan.prefill)
    BY DriverFacts DEF DriverInv, PhaseInv
  <1> QED BY <1>1, DriverFacts, InRange DEF Prefilled

LEMMA CurrentDecode ==
    ASSUME BaseInv, DriverInv, at.phase \in {"decode", "write"}, at.i <= Len(plan.decode)
    PROVE  at.i \in 1 .. Len(plan.decode) /\ Decoding \in Requests /\ Decoding = plan.decode[at.i]
  <1>1. at.i \in 1 .. Len(plan.decode)
    BY DriverFacts DEF DriverInv, PhaseInv
  <1> QED BY <1>1, DriverFacts, InRange DEF Decoding

(* What is left of a prompt is at most the prompt. *)
LEMMA ChunkInPrompt ==
    ASSUME BaseInv, DriverInv, at.phase = "touch"
    PROVE  /\ Prefilled \in Requests /\ State(Prefilled) = "Prefill" /\ progress[Prefilled].admitted
           /\ Chunk \in 1 .. request[Prefilled].remaining
           /\ request[Prefilled].remaining \in 0 .. prompt_tokens[Prefilled]
           /\ Chunk \in Nat /\ Chunk > 0
  <1> DEFINE r == Prefilled
  <1>1. at.i \in 1 .. Len(plan.prefill) /\ r \in Requests /\ r = plan.prefill[at.i]
    <2>1. at.i <= Len(plan.prefill)
      BY DEF DriverInv, PhaseInv
    <2> QED BY <2>1, CurrentPrefill
  <1>2. at.i \in Unexecuted(plan, at)
    BY <1>1, DriverFacts DEF Unexecuted
  <1>3. State(r) = "Prefill" /\ Chunk \in 1 .. request[r].remaining
    BY <1>1, <1>2 DEF DriverInv, PrefillAhead, Chunk
  <1>4. progress[r].admitted
    BY DEF DriverInv, SeenInv
  <1> HIDE DEF r
  <1>5. Book(r, progress[r], request[r], SequencesFor(r), tables)
    BY <1>1 DEF DriverInv, BooksInv
  <1>6. /\ progress[r].committed \in Nat /\ progress[r].decoded \in Nat /\ request[r].remaining \in Nat
        /\ prompt_tokens[r] \in Nat
    BY <1>1, DriverFacts, ReplayConstants DEF ProgressRecord, Requested, RequestRecord
  <1>7. /\ progress[r].committed + request[r].remaining = prompt_tokens[r] + progress[r].decoded
        /\ (progress[r].decoded > 0 => request[r].remaining = 0)
    BY <1>3, <1>4, <1>5 DEF Book, State, Underway
  <1>8. request[r].remaining \in 0 .. prompt_tokens[r] /\ Chunk \in Nat /\ Chunk > 0
    BY <1>3, <1>6, <1>7
  <1> QED BY <1>1, <1>3, <1>4, <1>8 DEF r

(* A cache call the driver makes itself. *)
DriverCall ==
    \/ UNCHANGED cacheVars
    \/ \E s \in SeqIds : reserve_tokens(s, 1)
    \/ \E s \in SeqIds, pos \in Nat : ensure_token_writable(s, pos, 1)
    \/ \E r \in Requests, k \in Keys : publish_prefix(r, k)
    \/ \E r \in Requests, t \in SeqIds : fork_sequence(r, t, r) /\ State(r) = "Decode"

(* Every step is one of the scheduler's, the parking of an active request, or *)
(* a cache call that leaves the scheduler alone.                              *)
LEMMA ReplayKinds ==
    ASSUME BaseInv, DriverInv, [ReplayNext]_replayVars
    PROVE  \/ [SchedulerNext]_vars
           \/ pc = "idle" /\ (\E r \in Requests : r \in Range(active) /\ Park(r)) /\ UNCHANGED callVars
           \/ pc = "idle" /\ DriverCall /\ UNCHANGED <<queueVars, callVars>>
  <1>1. CASE UNCHANGED replayVars
    BY <1>1 DEF replayVars
  <1>2. CASE StartStep \/ PlanStep
    BY <1>2 DEF StartStep, PlanStep, SchedulerNext, ScheduleStep
  <1>3. CASE BeginPrefill \/ NextDecode \/ AccountStep \/ CloseStep \/ Done
    BY <1>3 DEF BeginPrefill, NextDecode, AccountStep, CloseStep, Done, replayVars
  <1>4. CASE PrefillChunk
    <2>1. /\ Prefilled \in Requests /\ Prefilled \in SeqIds
          /\ Chunk \in 1 .. request[Prefilled].remaining
          /\ request[Prefilled].remaining \in 0 .. prompt_tokens[Prefilled]
      BY <1>4, ChunkInPrompt, ReplayConstants DEF PrefillChunk
    <2>2. CASE ToTouch # {} /\ touch_position(Prefilled, Min(ToTouch))
      <3>1. ToTouch \in SUBSET Nat
        BY DriverFacts DEF ToTouch
      <3>2. Min(ToTouch) \in Nat
        BY <2>2, <3>1, LeastMember
      <3>3. pc = "idle"
        BY <1>4 DEF PrefillChunk, DriverInv, PhaseInv
      <3> QED BY <2>1, <2>2, <3>2, <3>3 DEF touch_position, DriverCall
    <2>3. CASE complete_step(Prefilled, Chunk)
      <3>1. Chunk \in 0 .. prompt_tokens[Prefilled]
        BY <2>1, ReplayConstants
      <3> QED BY <2>1, <2>3, <3>1 DEF SchedulerNext
    <2> QED BY <1>4, <2>2, <2>3 DEF PrefillChunk
  <1>5. CASE PublishPrompt
    <2>1. Prefilled \in Requests /\ pc = "idle"
      BY <1>5, CurrentPrefill DEF PublishPrompt, DriverInv, PhaseInv
    <2>2. prefix_key[Prefilled] # NoKey => prefix_key[Prefilled] \in Keys
      BY <2>1, Configured
    <2> QED BY <1>5, <2>1, <2>2 DEF PublishPrompt, Publishable, DriverCall
  <1>6. CASE ForkSample
    <2>1. Prefilled \in Requests /\ pc = "idle" /\ State(Prefilled) = "Decode"
      BY <1>6, CurrentPrefill DEF ForkSample, DriverInv, PhaseInv, PrefillAhead
    <2> QED BY <1>6, <2>1 DEF ForkSample, DriverCall
  <1>7. CASE GrowBranch
    <2>1. at.i <= Len(plan.decode) /\ Decoding \in Requests /\ pc = "idle"
      BY <1>7, CurrentDecode DEF GrowBranch, DriverInv, PhaseInv
    <2>2. Branches[at.j] \in SeqIds
      <3>1. progress[Decoding].sequences \in Seq(SeqIds)
        BY <2>1, DriverFacts DEF ProgressRecord
      <3>2. at.j \in 1 .. Len(progress[Decoding].sequences)
        BY <1>7, <3>1, DriverFacts, InRange DEF GrowBranch, Branches, DriverInv, PhaseInv
      <3> QED BY <3>1, <3>2, InRange DEF Branches
    <2> QED BY <1>7, <2>1, <2>2 DEF GrowBranch, DriverCall
  <1>8. CASE reclaim_for_decode
    <2>1. pc = "idle" /\ Park(live[Max(Victims)]) /\ UNCHANGED callVars
      BY <1>8 DEF reclaim_for_decode, DriverInv, PhaseInv
    <2>2. Victims \in SUBSET (1 .. Len(live)) /\ Victims # {}
      BY <1>8, DriverFacts, InRange DEF reclaim_for_decode, Victims
    <2>3. Max(Victims) \in Victims
      <3>1. Victims \in SUBSET Nat /\ \A x \in Victims : x <= Len(live)
        BY <2>2, DriverFacts
      <3> QED BY <2>2, <3>1, DriverFacts, GreatestMember
    <2>4. live[Max(Victims)] \in Requests /\ live[Max(Victims)] \in Range(active)
      BY <2>2, <2>3, DriverFacts DEF Victims
    <2> QED BY <2>1, <2>4
  <1>9. CASE WriteBranch
    <2>1. at.i <= Len(plan.decode) /\ Decoding \in Requests /\ pc = "idle"
      BY <1>9, CurrentDecode DEF WriteBranch, DriverInv, PhaseInv
    <2>2. /\ progress[Decoding].sequences \in Seq(SeqIds) /\ progress[Decoding].committed \in Nat
      BY <2>1, DriverFacts DEF ProgressRecord
    <2>3. Branches[at.j] \in SeqIds /\ Position \in Nat
      <3>1. at.j \in 1 .. Len(progress[Decoding].sequences)
        BY <1>9, <2>2, DriverFacts, InRange DEF WriteBranch, Branches, DriverInv, PhaseInv
      <3> QED BY <2>2, <3>1, InRange DEF Branches, Position
    <2> QED BY <1>9, <2>1, <2>3 DEF WriteBranch, touch_position, DriverCall
  <1>10. CASE CommitToken
    <2>1. Decoding \in Requests
      BY <1>10, CurrentDecode DEF CommitToken, DriverInv, PhaseInv
    <2> QED BY <1>10, <2>1 DEF CommitToken, SchedulerNext
  <1>11. CASE ResumeNext
    <2>1. at.i <= Len(live) => live[at.i] \in Requests
      BY <1>11, DriverFacts DEF ResumeNext, DriverInv, PhaseInv
    <2> QED BY <1>11, <2>1 DEF ResumeNext, SchedulerNext
  <1> QED BY <1>1, <1>2, <1>3, <1>4, <1>5, <1>6, <1>7, <1>8, <1>9, <1>10, <1>11 DEF ReplayNext

-----------------------------------------------------------------------------
(* The driver changes the cache by the manager's operations only. *)
LEMMA EnsureIsCall ==
    ASSUME Structure, NEW s \in SeqIds, NEW pos \in Nat, ensure_token_writable(s, pos, 1)
    PROVE  Next
  <1> DEFINE T == TokensPerBlock
             q == pos \div T
             first == q * T + 0
  <1>1. T \in Nat /\ T > 0 /\ MaxTokens \in Nat /\ 1 \in Tables /\ MaxBlocks \in Nat
    BY ConfigFacts
  <1> HIDE DEF T
  <1>2. q \in Nat
    BY <1>1, Division
  <1> HIDE DEF q
  <1>3. q < blocks_for(MaxTokens)
    <2>1. CellOf(pos, 1) \in Cells /\ CellOf(pos, 1) = <<1, q + 1>>
      BY DEF ensure_token_writable, Resident, Mapped, CellOf, q, T
    <2>2. q + 1 \in 1 .. MaxBlocks
      BY <2>1 DEF Cells
    <2> QED BY <1>1, <1>2, <2>2 DEF MaxBlocks
  <1>4. q * T \in Nat /\ q * T < MaxTokens
    BY <1>1, <1>2, <1>3, BlocksNeeded DEF T
  <1>5. first \in Nat /\ first \div T = q /\ first = q * T
    BY <1>1, <1>2, <1>4, DivisionOf
  <1> HIDE DEF first
  <1>6. first \in 0 .. MaxTokens - 1
    BY <1>1, <1>4, <1>5
  <1>7. CellOf(first, 1) = CellOf(pos, 1)
    BY <1>5 DEF CellOf, q, T
  <1>8. ensure_token_writable(s, first, 1)
    BY <1>7 DEF ensure_token_writable
  <1> QED BY <1>1, <1>6, <1>8 DEF Next

LEMMA DriverCalls ==
    ASSUME Prompted, Structure, DriverCall
    PROVE  [Next]_cacheVars
  <1>1. ASSUME NEW s \in SeqIds, reserve_tokens(s, 1) PROVE Next
    <2>1. s \in sequences
      BY <1>1 DEF reserve_tokens
    <2>2. request_of[s] \in Requests
      BY <2>1 DEF Structure, TablesShaped
    <2>3. prompt_tokens[request_of[s]] > 0 /\ prompt_tokens[request_of[s]] \in Nat
          /\ prompt_tokens[request_of[s]] <= MaxTokens /\ MaxTokens \in Nat
      BY <2>2, ReplayConstants DEF Prompted
    <2>4. 1 \in 1 .. MaxTokens
      BY <2>3
    <2> QED BY <1>1, <2>4 DEF Next
  <1>2. ASSUME NEW s \in SeqIds, NEW pos \in Nat, ensure_token_writable(s, pos, 1) PROVE Next
    BY <1>2, EnsureIsCall
  <1>3. ASSUME NEW r \in Requests, NEW k \in Keys, publish_prefix(r, k) PROVE Next
    BY <1>3, ReplayConstants DEF Next
  <1>4. ASSUME NEW r \in Requests, NEW t \in SeqIds, fork_sequence(r, t, r) PROVE Next
    BY <1>4, ReplayConstants DEF Next
  <1> QED BY <1>1, <1>2, <1>3, <1>4 DEF DriverCall

(* What a call of the driver does to the lists of sequences. *)
LEMMA DriverLists ==
    ASSUME Structure, DriverCall
    PROVE  \/ sequences_by_request' = sequences_by_request
           \/ \E r \in Requests : \E t \in SeqIds : State(r) = "Decode" /\ Index(t, r)
  <1>1. ASSUME NEW s, reserve_tokens(s, 1) PROVE sequences_by_request' = sequences_by_request
    BY <1>1 DEF reserve_tokens
  <1>2. ASSUME NEW s, NEW pos, ensure_token_writable(s, pos, 1) PROVE sequences_by_request' = sequences_by_request
    BY <1>2 DEF ensure_token_writable
  <1>3. ASSUME NEW s, NEW k, publish_prefix(s, k) PROVE sequences_by_request' = sequences_by_request
    BY <1>3 DEF publish_prefix
  <1>4. ASSUME NEW r, NEW t, fork_sequence(r, t, r) PROVE Index(t, r)
    BY <1>4 DEF fork_sequence
  <1> QED BY <1>1, <1>2, <1>3, <1>4 DEF DriverCall, cacheVars

LEMMA ReplayBase ==
    ASSUME Prompted, BaseInv, DriverInv, [ReplayNext]_replayVars
    PROVE  BaseInv' /\ [Next]_cacheVars
  <1> USE DEF Prompted
  <1>1. CoreInv /\ Structure /\ RefCountsExact /\ QueueInv /\ SequencesInv /\ TailPlanned /\ PlanInv
    BY DEF BaseInv, CoreInv
  <1>2. CASE [SchedulerNext]_vars
    <2>1. CoreInv' /\ [Next]_cacheVars
      BY <1>1, <1>2, NextCore
    <2>2. SequencesInv'
      BY <1>1, <1>2, NextSequences
    <2>3. TailPlanned' /\ PlanInv'
      BY <1>1, <1>2, NextTail, NextPlan
    <2> QED BY <2>1, <2>2, <2>3 DEF BaseInv
  <1>3. ASSUME pc = "idle", NEW r \in Requests, r \in Range(active), Park(r), UNCHANGED callVars
        PROVE  BaseInv' /\ [Next]_cacheVars
    <2>1. pc' = "idle"
      BY <1>3 DEF callVars
    <2>2. QueueInv'
      BY <1>1, <1>3, PreemptQueues
    <2>3. Next
      BY <1>3 DEF Park, Next
    <2>4. Structure' /\ RefCountsExact'
      BY <1>1, <2>3, NextKeeps
    <2>5. SequencesInv'
      <3>1. sequences_by_request' = sequences_by_request /\ \A q \in Requests : Waiting(q)' <=> Waiting(q)
        BY <1>1, <1>3, ParkWaits
      <3>2. \A q \in Requests : Unmoved(q)
        BY <1>3, <2>1, <3>1, IdlePlaces, NobodyEnters
      <3> QED BY <1>1, <3>1, <3>2, SequencesQuiet
    <2>6. TailPlanned' /\ PlanInv'
      BY <2>1, TailBridge, PlanBridge
    <2> QED BY <2>2, <2>3, <2>4, <2>5, <2>6 DEF BaseInv, CoreInv
  <1>4. ASSUME pc = "idle", DriverCall, UNCHANGED <<queueVars, callVars>>
        PROVE  BaseInv' /\ [Next]_cacheVars
    <2>1. [Next]_cacheVars
      BY <1>1, <1>4, DriverCalls
    <2>2. Structure' /\ RefCountsExact'
      BY <1>1, <2>1, NextKeeps
    <2>3. pc' = "idle" /\ plan' = plan /\ cursor' = cursor /\ needed' = needed /\ request' = request
      BY <1>4 DEF queueVars, callVars
    <2>4. QueueInv'
      <3>1. plan \in Plans /\ cursor \in Nat /\ needed \in Nat
        BY <1>1, Typed DEF QueueInv
      <3>2. ScanShaped'
        BY <2>3, IdleScan
      <3>3. UNCHANGED queueVars
        BY <1>4
      <3> QED BY <1>1, <2>3, <3>1, <3>2, <3>3, QuietQueues
    <2>5. TailPlanned' /\ PlanInv'
      BY <2>3, TailBridge, PlanBridge
    <2>6. SequencesInv'
      <3>1. \A q \in Requests : Unmoved(q)
        BY <1>4, <2>3, SameRequests, IdlePlaces, NobodyEnters
      <3>2. CASE sequences_by_request' = sequences_by_request
        BY <1>1, <3>1, <3>2, SequencesQuiet
      <3>3. ASSUME NEW r \in Requests, NEW t \in SeqIds, State(r) = "Decode", Index(t, r)
            PROVE  SequencesInv'
        <4>1. \A q \in Requests : SequencesFor(q)' = IF q = r THEN SequencesFor(r) \cup {t} ELSE SequencesFor(q)
          BY <1>1, <3>3, ListsIndex
        <4>2. ~Waiting(r)
          BY <3>3 DEF Waiting
        <4>3. ASSUME NEW q \in Requests
              PROVE  /\ Candidate(q)' => SequencesFor(q)' = {root_sequence_id[q]}
                     /\ Waiting(q)' /\ ~Candidate(q)' => SequencesFor(q)' = {}
                     /\ ~Waiting(q)' => root_sequence_id[q] \in SequencesFor(q)'
          <5>1. ~Candidate(q) /\ ~Candidate(q)' /\ (Waiting(q)' <=> Waiting(q))
            BY <1>4, <2>3, <3>1, IdlePlaces DEF Unmoved
          <5> QED BY <1>1, <4>1, <4>2, <5>1 DEF SequencesInv
        <4> QED BY <4>3 DEF SequencesInv
      <3> QED BY <1>1, <1>4, <3>2, <3>3, DriverLists
    <2> QED BY <2>1, <2>2, <2>4, <2>5, <2>6 DEF BaseInv, CoreInv
  <1> QED BY <1>2, <1>3, <1>4, ReplayKinds

-----------------------------------------------------------------------------
(* A step of schedule_next passes over a request, or parks it, or admits it.  *)
Passed(r) ==
    /\ request'[r].remaining = request[r].remaining
    /\ \/ request'[r].state = request[r].state
       \/ request[r].state \in {"Prefill", "Decode"} /\ request'[r].state = "Preempted"
    /\ request[r].state \in Underway =>
          /\ SequencesFor(r)' = SequencesFor(r)
          /\ \A s \in SequencesFor(r) : Blocks(tables', s) = Blocks(tables, s)
Joins(r) ==
    /\ request[r].state = "Pending" /\ request'[r].state = "Prefill"
    /\ request[r].remaining = prompt_tokens[r] => request'[r].remaining = prompt_tokens[r]
    /\ SequencesFor(r)' = {r}
    /\ prompt_tokens[r] <= Blocks(tables', r) * TokensPerBlock
    /\ r \in Range(plan'.prefill)

LEMMA PassedQuiet ==
    ASSUME request' = request, sequences_by_request' = sequences_by_request, tables' = tables, NEW r
    PROVE  Passed(r)
  <1>1. SequencesFor(r)' = SequencesFor(r)
    BY ListsSame
  <1> QED BY <1>1 DEF Passed

LEMMA PassedPark ==
    ASSUME Structure, QueueInv, NEW v \in Requests, v \in Range(active), Park(v), NEW r \in Requests
    PROVE  Passed(r) /\ request'[r].state = IF r = v THEN "Preempted" ELSE request[r].state
  <1>1. request'[r] = IF r = v THEN [request[v] EXCEPT !.state = "Preempted"] ELSE request[r]
    BY ParkQueues
  <1>2. request[v] \in RequestRecord
    BY Typed DEF QueueInv
  <1>3. request[v].state \in {"Prefill", "Decode"}
    BY DEF QueueInv, QueuesAgree, State
  <1>4. /\ request'[r].remaining = request[r].remaining
        /\ request'[r].state = IF r = v THEN "Preempted" ELSE request[r].state
    BY <1>1, <1>2 DEF RequestRecord
  <1>5. SequencesFor(r)' = SequencesFor(r)
    <2>1. sequences_by_request' = sequences_by_request
      BY ParkWaits
    <2> QED BY <2>1, ListsSame
  <1>6. \A s \in SequencesFor(r) : Blocks(tables', s) = Blocks(tables, s)
    <2>1. swap_out(sequences_by_request[v])
      BY DEF Park, swap_out_request
    <2>2. SequencesFor(r) \subseteq SeqIds
      BY ListedSequences DEF Structure, TypeOK
    <2> QED BY <2>1, <2>2, LengthsSwapOut
  <1> QED BY <1>3, <1>4, <1>5, <1>6 DEF Passed

(* b blocks and as many as the rest of n tokens needs hold n tokens. *)
LEMMA RestFits ==
    ASSUME NEW n \in Nat, NEW b \in Nat, b * TokensPerBlock < n
    PROVE  /\ n - b * TokensPerBlock \in Nat \ {0}
           /\ blocks_for(n - b * TokensPerBlock) \in Nat
           /\ n <= (b + blocks_for(n - b * TokensPerBlock)) * TokensPerBlock
  <1> DEFINE T == TokensPerBlock
             rest == n - b * T
             m == blocks_for(rest)
  <1>1. T \in Nat /\ b * T \in Nat
    BY ConfigFacts, BlocksNeeded
  <1>2. rest \in Nat \ {0}
    BY <1>1
  <1>3. n = b * T + rest
    BY <1>1
  <1> HIDE DEF rest
  <1>4. m \in Nat
    BY <1>2, ConfigFacts
  <1>5. m * T \in Nat /\ ~(m * T < rest)
    <2> HIDE DEF m
    <2>1. m * TokensPerBlock \in Nat /\ (m * TokensPerBlock < rest <=> m < blocks_for(rest))
      BY <1>2, <1>4, BlocksNeeded
    <2>2. ~(m < blocks_for(rest))
      BY <1>4 DEF m
    <2> QED BY <2>1, <2>2
  <1> HIDE DEF m, T
  <1>6. (b + m) * T = b * T + m * T
    BY <1>1, <1>4
  <1>7. n <= (b + m) * T
    BY <1>1, <1>2, <1>3, <1>5, <1>6
  <1> QED BY <1>2, <1>4, <1>7 DEF m, rest, T

(* The candidate enters with its first sequence and blocks for its prompt. *)
LEMMA AdmissionJoins ==
    ASSUME Prompted, BaseInv, reserve, Admitted, NEW r \in Requests
    PROVE  Passed(r) \/ Joins(r)
  <1>1. Structure /\ QueueInv /\ SequencesInv /\ pc = "reserve"
    BY DEF BaseInv, CoreInv, reserve
  <1>2. pc \in Fitting /\ pc \in Scanning /\ pc \in Entering
    BY <1>1 DEF Fitting, Scanning, Entering
  <1> DEFINE c == candidate
             left == IF request[c].remaining = 0 THEN prompt_tokens[c] ELSE request[c].remaining
             rec == [request[c] EXCEPT !.lifetime = needed, !.state = "Prefill", !.remaining = left]
             passed(q) == \E i \in 1 .. cursor - 1 : pending[i] = q
             room == Blocks(tables, c) * TokensPerBlock
             still == prompt_tokens[c] - room
  <1>3. c \in Requests /\ State(c) = "Pending" /\ c \in SeqIds /\ root_sequence_id[c] = c /\ Candidate(c)
        /\ prompt_tokens[c] \in Nat /\ prompt_tokens[c] > 0
    BY <1>1, <1>2, Scanned, ReplayConstants DEF Candidate, Prompted
  <1>4. request \in Requested
    BY <1>1, Typed DEF QueueInv, Requested
  <1>5. request' = [q \in Requests |->
              IF q = c THEN rec ELSE IF passed(q) THEN [request[q] EXCEPT !.skips = @ + 1] ELSE request[q]]
    BY DEF Admitted
  <1>6. plan'.prefill = Append(plan.prefill, c)
    BY <1>1, <1>2, <1>3, AdmittedQueues
  <1>7. /\ room \in Nat
        /\ \/ prompt_tokens[c] > room /\ reserve_tokens(c, still)
           \/ ~(prompt_tokens[c] > room) /\ UNCHANGED cacheVars
    <2>1. Capacity(root_sequence_id[c]) = room
      BY <1>3 DEF Capacity, Blocks
    <2>2. room \in Nat
      <3>1. Blocks(tables, c) \in Nat
        BY <1>1, <1>3, BlocksTyped
      <3> QED BY <3>1, RoomGrows
    <2>3. DEFINE S == root_sequence_id[candidate]
    <2>4. \/ prompt_tokens[c] > Capacity(S) /\ reserve_tokens(S, prompt_tokens[c] - Capacity(S))
          \/ ~(prompt_tokens[c] > Capacity(S)) /\ UNCHANGED cacheVars
      <3>1. pc' = "admit"
        BY DEF Admitted
      <3>2. Refused => pc' # "admit"
        BY DEF Refused
      <3>3. prompt_tokens[c] > Capacity(S) => prompt_tokens[c] - Capacity(S) > 0
        BY <1>3, <2>1, <2>2
      <3> QED BY <1>3, <2>1, <2>2, <3>1, <3>2, <3>3 DEF reserve
    <2> QED BY <1>3, <2>1, <2>2, <2>4
  <1> HIDE DEF c, passed, room
  <1>8. sequences_by_request' = sequences_by_request
    BY <1>7 DEF reserve_tokens, cacheVars
  <1>9. SequencesFor(r)' = SequencesFor(r)
    BY <1>8, ListsSame
  <1>10. CASE r = c
    <2>1. SequencesFor(r)' = {r}
      BY <1>1, <1>3, <1>9, <1>10 DEF SequencesInv
    <2>2. request'[r].state = "Prefill" /\ request'[r].remaining = left
      <3>1. request'[r] = rec
        BY <1>3, <1>5, <1>10
      <3>2. request[c] \in RequestRecord
        BY <1>3, <1>4 DEF Requested
      <3> HIDE DEF left
      <3>3. rec.state = "Prefill" /\ rec.remaining = left
        BY <3>2 DEF RequestRecord
      <3> QED BY <3>1, <3>3
    <2>3. r \in Range(plan'.prefill)
      <3>1. plan.prefill \in Seq(Requests)
        BY <1>1, Typed DEF QueueInv, Plans
      <3> QED BY <1>3, <1>6, <1>10, <3>1, AppendedQueue
    <2>4. prompt_tokens[c] <= Blocks(tables', c) * TokensPerBlock
      <3>1. CASE UNCHANGED cacheVars /\ ~(prompt_tokens[c] > room)
        BY <1>3, <1>7, <3>1 DEF cacheVars, room
      <3>2. CASE prompt_tokens[c] > room /\ reserve_tokens(c, still)
        <4> DEFINE b == Blocks(tables, c)
                   n == prompt_tokens[c]
        <4>1. b \in Nat /\ n \in Nat /\ b * TokensPerBlock < n
          BY <1>1, <1>3, <1>7, <3>2, BlocksTyped DEF room
        <4>2. still = n - b * TokensPerBlock
          BY DEF room
        <4> HIDE DEF b, n
        <4>3. still \in Nat \ {0} /\ n <= (b + blocks_for(still)) * TokensPerBlock
          BY <4>1, <4>2, RestFits
        <4> HIDE DEF still
        <4>4. Blocks(tables', c) = b + blocks_for(still)
          BY <1>1, <1>3, <3>2, <4>3, LengthsReserve DEF b
        <4> QED BY <4>3, <4>4 DEF n
      <3> QED BY <1>7, <3>1, <3>2
    <2>5. request[r].state = "Pending"
      BY <1>3, <1>10 DEF State
    <2>6. request[r].remaining = prompt_tokens[r] => left = prompt_tokens[r]
      BY <1>10
    <2> HIDE DEF left
    <2> QED BY <1>10, <2>1, <2>2, <2>3, <2>4, <2>5, <2>6 DEF Joins
  <1>11. CASE r # c
    <2>1. request'[r].state = request[r].state /\ request'[r].remaining = request[r].remaining
      BY <1>4, <1>5, <1>11 DEF Requested, RequestRecord
    <2>2. ASSUME NEW s \in SequencesFor(r) PROVE Blocks(tables', s) = Blocks(tables, s)
      <3>1. s # c /\ s \in SeqIds
        <4>1. SequencesFor(c) = {c}
          BY <1>1, <1>3 DEF SequencesInv
        <4>2. SequencesFor(r) \cap SequencesFor(c) = {} /\ SequencesFor(r) \subseteq SeqIds
          BY <1>1, <1>3, <1>11, ListsApart, ListedSequences DEF Structure, TypeOK
        <4> QED BY <4>1, <4>2
      <3>2. CASE UNCHANGED cacheVars
        BY <3>2 DEF cacheVars
      <3>3. CASE prompt_tokens[c] > room /\ reserve_tokens(c, still)
        <4>1. still \in Nat \ {0}
          BY <1>3, <1>7, <3>3
        <4> HIDE DEF still
        <4> QED BY <1>1, <1>3, <3>1, <3>3, <4>1, LengthsReserve
      <3> QED BY <1>7, <3>2, <3>3
    <2> QED BY <1>9, <2>1, <2>2 DEF Passed
  <1> QED BY <1>10, <1>11

LEMMA ScheduleKeeps ==
    ASSUME Prompted, BaseInv, ScheduleStep, NEW r \in Requests
    PROVE  Passed(r) \/ Joins(r)
  <1>1. Structure /\ QueueInv /\ SequencesInv
    BY DEF BaseInv, CoreInv
  <1>2. CASE \/ schedule_next \/ AdmitMore \/ try_admit \/ batch
             \/ create /\ Refused
             \/ reclaim_for_admission /\ UNCHANGED <<cacheVars, queueVars>>
    <2>1. request' = request /\ sequences_by_request' = sequences_by_request /\ tables' = tables
      <3>1. Refused => pc' # "attach"
        BY DEF Refused
      <3> QED BY <1>2, <3>1 DEF schedule_next, AdmitMore, try_admit, batch, create, Refused, cacheVars, queueVars
    <2> QED BY <2>1, PassedQuiet
  <1>3. CASE reclaim_for_admission /\ UnderPressure /\ Park(victim)
    <2> DEFINE v == victim
    <2>1. v \in Requests /\ v \in Range(active) /\ Park(v)
      BY <1>1, <1>3, VictimActive
    <2> HIDE DEF v
    <2> QED BY <1>1, <2>1, PassedPark
  <1>4. CASE create /\ create_sequence(root_sequence_id[candidate], candidate) /\ UNCHANGED queueVars
    <2> DEFINE c == candidate
    <2>1. c \in Requests /\ State(c) = "Pending" /\ root_sequence_id[c] \in SeqIds
      <3>1. pc \in Scanning
        BY <1>4 DEF create, Scanning
      <3> QED BY <1>1, <3>1, Scanned, Configured
    <2>2. create_sequence(root_sequence_id[c], c) /\ request' = request
      BY <1>4 DEF queueVars
    <2> HIDE DEF c
    <2>3. Index(root_sequence_id[c], c) /\ tables' = tables
      BY <2>2 DEF create_sequence
    <2>4. r # c => SequencesFor(r)' = SequencesFor(r)
      BY <1>1, <2>1, <2>3, ListsIndex
    <2> QED BY <2>1, <2>2, <2>3, <2>4 DEF Passed, State, Underway
  <1>5. CASE attach
    <2> DEFINE c == candidate
    <2>1. pc \in Scanning /\ pc \in Entering /\ request' = request /\ sequences_by_request' = sequences_by_request
      BY <1>5 DEF attach, Scanning, Entering, queueVars, attach_prefix, cacheVars
    <2>2. c \in Requests /\ State(c) = "Pending" /\ Candidate(c)
      BY <1>1, <2>1, Scanned DEF Candidate
    <2>3. \A s \in SeqIds : s # root_sequence_id[c] => tables'[s] = tables[s]
      <3>1. tables \in [SeqIds -> [Tables -> Seq(Entry)]]
        BY <1>1 DEF Structure, TypeOK
      <3> QED BY <1>5, <3>1 DEF attach, attach_prefix, cacheVars
    <2> HIDE DEF c
    <2>4. SequencesFor(c) = {root_sequence_id[c]}
      BY <1>1, <2>2 DEF SequencesInv
    <2>5. r # c => \A s \in SequencesFor(r) : s \in SeqIds /\ s # root_sequence_id[c]
      BY <1>1, <2>2, <2>4, ListsApart, ListedSequences DEF Structure, TypeOK
    <2>6. SequencesFor(r)' = SequencesFor(r)
      BY <2>1, ListsSame
    <2> QED BY <2>1, <2>2, <2>3, <2>5, <2>6 DEF Passed, State, Underway, Blocks
  <1>6. CASE reserve /\ Admitted
    BY <1>6, AdmissionJoins
  <1>7. CASE reserve /\ RollBack /\ Refused
    <2> DEFINE c == candidate
    <2>1. pc \in Scanning /\ request' = request
      BY <1>7, SchedulePlaces DEF reserve, Scanning
    <2>2. c \in Requests /\ State(c) = "Pending"
      BY <1>1, <2>1, Scanned
    <2>3. release_request(c)
      BY <1>7 DEF RollBack
    <2> HIDE DEF c
    <2>4. r # c => SequencesFor(r)' = SequencesFor(r)
      BY <1>1, <2>2, <2>3, ListsRelease
    <2>5. r # c => \A s \in SequencesFor(r) : s \in SeqIds /\ s \notin SequencesFor(c)
      BY <1>1, <2>2, ListsApart, ListedSequences DEF Structure, TypeOK
    <2>6. \A s \in SeqIds : s \notin SequencesFor(c) => tables'[s] = tables[s]
      BY <2>3, LengthsRelease DEF release_request
    <2> QED BY <2>1, <2>2, <2>4, <2>5, <2>6 DEF Passed, State, Underway, Blocks
  <1>8. reclaim_for_admission => (UnderPressure /\ Park(victim)) \/ UNCHANGED <<cacheVars, queueVars>>
    BY DEF reclaim_for_admission
  <1>9. create => Refused \/ (create_sequence(root_sequence_id[candidate], candidate) /\ UNCHANGED queueVars)
    BY DEF create
  <1>10. reserve => Admitted \/ (RollBack /\ Refused)
    BY DEF reserve
  <1> QED BY <1>2, <1>3, <1>4, <1>5, <1>6, <1>7, <1>8, <1>9, <1>10 DEF ScheduleStep

-----------------------------------------------------------------------------
(* The books of a request that keeps its sequences and what is left of its    *)
(* prompt, while its block tables can only grow.                              *)
Undisturbed(r) ==
    /\ request'[r].remaining = request[r].remaining
    /\ \/ request'[r].state = request[r].state
       \/ /\ request[r].state \in Underway /\ request'[r].state \in Underway
          /\ request'[r].state = "Decode" => request[r].remaining = 0
    /\ request[r].state \in Underway =>
          /\ SequencesFor(r)' = SequencesFor(r)
          /\ \A s \in SequencesFor(r) : Blocks(tables, s) <= Blocks(tables', s)

LEMMA PassedUndisturbed ==
    ASSUME Structure, NEW r \in Requests, Passed(r)
    PROVE  Undisturbed(r)
  <1>1. SequencesFor(r) \subseteq SeqIds
    BY ListedSequences DEF Structure, TypeOK
  <1>2. \A s \in SequencesFor(r) : Blocks(tables, s) \in Nat
    BY <1>1, BlocksTyped
  <1> QED BY <1>2 DEF Passed, Undisturbed, Underway

LEMMA BooksBridge ==
    /\ BooksInv <=> \A r \in Requests : Book(r, progress[r], request[r], SequencesFor(r), tables)
    /\ BooksInv' <=> \A r \in Requests : Book(r, progress'[r], request'[r], SequencesFor(r)', tables')
  BY DEF BooksInv, Book

LEMMA BookKept ==
    ASSUME Structure, Structure', NEW r \in Requests, NEW p \in ProgressRecord,
           Book(r, p, request[r], SequencesFor(r), tables), Undisturbed(r)
    PROVE  Book(r, p, request'[r], SequencesFor(r)', tables')
  <1> DEFINE q == request[r]
             u == request'[r]
             S == SequencesFor(r)
             V == SequencesFor(r)'
  <1>1. CASE q.state \notin Underway
    <2>1. u.state = q.state /\ u.remaining = q.remaining
      BY <1>1 DEF Undisturbed
    <2> HIDE DEF q, u, S, V
    <2> QED BY <1>1, <2>1 DEF Book, q, u, Underway
  <1>2. CASE q.state \in Underway
    <2>1. V = S /\ u.remaining = q.remaining /\ u.state \in Underway /\ (u.state = "Decode" => q.remaining = 0)
      BY <1>2 DEF Undisturbed, Book
    <2>2. S \subseteq SeqIds
      BY ListedSequences DEF Structure, TypeOK
    <2>3. ASSUME NEW s \in S, NEW n \in Nat, n <= Blocks(tables, s) * TokensPerBlock
          PROVE  n <= Blocks(tables', s) * TokensPerBlock
      <3> DEFINE a == Blocks(tables, s)
                 b == Blocks(tables', s)
      <3>1. a \in Nat /\ b \in Nat /\ a <= b
        <4>1. a <= b
          BY <1>2, <2>3 DEF Undisturbed
        <4>2. s \in SeqIds
          BY <2>2, <2>3
        <4>3. a \in Nat
          BY <4>2, BlocksTyped
        <4>4. b \in Nat
          BY <4>2, ConfigFacts DEF Structure, TypeOK, Blocks
        <4> QED BY <4>1, <4>3, <4>4
      <3> HIDE DEF a, b
      <3>2. a * TokensPerBlock \in Nat /\ b * TokensPerBlock \in Nat /\ a * TokensPerBlock <= b * TokensPerBlock
        BY <3>1, RoomGrows
      <3>3. n <= a * TokensPerBlock
        BY <2>3 DEF a
      <3>4. n <= b * TokensPerBlock
        BY <3>2, <3>3
      <3> QED BY <3>4 DEF b
    <2>4. prompt_tokens[r] \in Nat /\ p.committed \in Nat
      BY ReplayConstants DEF ProgressRecord
    <2>5. Book(r, p, q, S, tables)
      OBVIOUS
    <2> HIDE DEF q, u, S, V
    <2>6. /\ \A s \in S : prompt_tokens[r] <= Blocks(tables', s) * TokensPerBlock
          /\ p.admitted => \A s \in S : p.committed <= Blocks(tables', s) * TokensPerBlock
      BY <1>2, <2>3, <2>4, <2>5 DEF Book
    <2> QED BY <1>2, <2>1, <2>5, <2>6 DEF Book, Underway, q, u, S, V
  <1> QED BY <1>1, <1>2

LEMMA BooksKept ==
    ASSUME BaseInv, DriverInv, BaseInv', progress' = progress, \A r \in Requests : Undisturbed(r)
    PROVE  BooksInv'
  <1>1. Structure /\ Structure' /\ BooksInv
    BY DEF BaseInv, CoreInv, DriverInv
  <1>2. ASSUME NEW r \in Requests PROVE Book(r, progress'[r], request'[r], SequencesFor(r)', tables')
    <2>1. progress[r] \in ProgressRecord
      BY DriverFacts
    <2> QED BY <1>1, <2>1, BookKept, BooksBridge
  <1> QED BY <1>2, BooksBridge

(* A call that changes no request, no list and no length of a table. *)
LEMMA QuietUndisturbed ==
    ASSUME Structure, request' = request, sequences_by_request' = sequences_by_request,
           \A s \in SeqIds : Blocks(tables', s) = Blocks(tables, s), NEW r \in Requests
    PROVE  Undisturbed(r)
  <1>1. SequencesFor(r) \subseteq SeqIds
    BY ListedSequences DEF Structure, TypeOK
  <1>2. \A s \in SequencesFor(r) : Blocks(tables, s) <= Blocks(tables', s)
    BY <1>1, BlocksTyped
  <1>3. SequencesFor(r)' = SequencesFor(r)
    BY ListsSame
  <1> QED BY <1>2, <1>3 DEF Undisturbed

LEMMA BooksQuiet ==
    ASSUME BaseInv, DriverInv, BaseInv', progress' = progress, request' = request,
           sequences_by_request' = sequences_by_request, \A s \in SeqIds : Blocks(tables', s) = Blocks(tables, s)
    PROVE  BooksInv'
  <1>1. Structure
    BY DEF BaseInv, CoreInv
  <1> QED BY <1>1, QuietUndisturbed, BooksKept

(* Where the loop goes. *)
MovesTo(p, n, m) == at' \in Places /\ at'.phase = p /\ at'.i = n /\ at'.j = m

LEMMA Moved ==
    ASSUME at \in Places, NEW n \in Nat, NEW m \in Nat, NEW b \in BOOLEAN, NEW g \in BOOLEAN,
           NEW p \in {"loop", "plan", "prefill", "touch", "publish", "fork", "decode", "reclaim",
                      "write", "account", "resume", "close", "done"},
           \/ at' = Goto(p, n, m)
           \/ at' = [Goto(p, n, m) EXCEPT !.progress_made = b]
           \/ at' = [Goto(p, n, m) EXCEPT !.growth_failed = g]
           \/ at' = [Goto(p, n, m) EXCEPT !.progress_made = b, !.growth_failed = g]
    PROVE  MovesTo(p, n, m)
  <1> DEFINE a == Goto(p, n, m)
  <1>1. a \in Places /\ a.phase = p /\ a.i = n /\ a.j = m
    BY GotoPlace
  <1> HIDE DEF a
  <1>2. \/ at' = a \/ at' = [a EXCEPT !.progress_made = b] \/ at' = [a EXCEPT !.growth_failed = g]
        \/ at' = [a EXCEPT !.progress_made = b, !.growth_failed = g]
    BY DEF a
  <1> QED BY <1>1, <1>2 DEF MovesTo, Places

-----------------------------------------------------------------------------
(* The steps of the driver, one by one. *)
LEMMA StartKeeps ==
    ASSUME BaseInv, DriverInv, BaseInv', StartStep
    PROVE  DriverInv'
  <1>1. /\ at.phase = "loop" /\ at \in Places /\ pc = "idle"
        /\ UNCHANGED <<trace, progress, live, preempted_ids, next_fork_sequence, no_progress_steps>>
    BY DriverFacts DEF StartStep, DriverInv, PhaseInv
  <1>2. /\ request' = request /\ tables' = tables /\ sequences_by_request' = sequences_by_request
        /\ preemption_info' = preemption_info
        /\ \/ MovesTo("done", 0, 0) /\ pc' = "idle" /\ plan' = plan
           \/ MovesTo("plan", 0, 0) /\ pc' # "idle"
    <2>1. CASE Completed /\ at' = Goto("done", 0, 0) /\ UNCHANGED vars
      <3>1. MovesTo("done", 0, 0)
        BY <1>1, <2>1, Moved
      <3> QED BY <1>1, <2>1, <3>1 DEF vars, cacheVars, queueVars, callVars
    <2>2. CASE schedule_next /\ at' = [Goto("plan", 0, 0) EXCEPT !.progress_made = FALSE, !.growth_failed = FALSE]
      <3>1. MovesTo("plan", 0, 0)
        BY <1>1, <2>2, Moved
      <3> QED BY <2>2, <3>1 DEF schedule_next, cacheVars, queueVars
    <2> QED BY <2>1, <2>2 DEF StartStep
  <1>3. ReplayTypeOK' /\ PhaseInv' /\ trace' \in Traces
    BY <1>1, <1>2, ReplayTyped DEF DriverInv, PhaseInv, MovesTo
  <1>4. BooksInv'
    BY <1>1, <1>2, BooksQuiet
  <1>5. SeenInv'
    <2>1. Unbegun(plan, at) = {}
      BY <1>1 DEF Unbegun
    <2> QED BY <1>1, <1>2, <2>1 DEF DriverInv, SeenInv, MovesTo, State, InTrace
  <1>6. PrefillAhead'
    <2>1. Unexecuted(plan', at') = {}
      BY <1>2 DEF Unexecuted, MovesTo
    <2>2. at'.phase # "plan" => plan' = plan
      BY <1>2 DEF MovesTo
    <2> QED BY <1>1, <1>2, <2>1, <2>2 DEF DriverInv, PrefillAhead, MovesTo
  <1>7. DecodeAhead' /\ GrownInv'
    BY <1>2 DEF DecodeAhead, GrownInv, MovesTo
  <1>8. LiveInv' /\ ParkedInv'
    BY <1>1, <1>2 DEF DriverInv, LiveInv, ParkedInv, MovesTo
  <1> QED BY <1>3, <1>4, <1>5, <1>6, <1>7, <1>8 DEF DriverInv

(* The plan never loses a chunk while schedule_next runs. *)
LEMMA ScheduleGrowsPlan ==
    ASSUME Prompted, BaseInv, ScheduleStep, pc # "idle"
    PROVE  /\ Range(plan.prefill) \subseteq Range(plan'.prefill)
           /\ pc' = "idle" => Executable(plan', request', Range(active'))
           /\ preemption_info \subseteq preemption_info'
  <1>1. QueueInv /\ PlanInv
    BY DEF BaseInv, CoreInv
  <1>2. CASE AdmitMore \/ try_admit \/ reclaim_for_admission \/ create \/ attach \/ (reserve /\ Refused)
    BY <1>2 DEF AdmitMore, try_admit, reclaim_for_admission, create, attach, reserve, Refused, Park, queueVars
  <1>3. CASE reserve /\ Admitted
    <2>1. pc \in Fitting /\ pc \in Scanning
      BY <1>3 DEF reserve, Fitting, Scanning
    <2>2. candidate \in Requests /\ plan.prefill \in Seq(Requests)
      BY <1>1, <2>1, Scanned, Typed DEF QueueInv, Plans
    <2> DEFINE c == candidate
    <2>3. plan'.prefill = Append(plan.prefill, c) /\ pc' = "admit" /\ preemption_info' = preemption_info
      <3>1. prompt_tokens[candidate] > 0
        BY <2>2 DEF Prompted
      <3> QED BY <1>1, <1>3, <2>1, <3>1, AdmittedQueues DEF Admitted
    <2> HIDE DEF c
    <2> QED BY <2>2, <2>3, AppendedQueue DEF c
  <1>4. CASE batch
    <2>1. plan' = Batched /\ request' = request /\ active' = active /\ preemption_info' = preemption_info
      BY <1>4 DEF batch, queueVars
    <2> QED BY <1>1, <2>1, BatchPlans
  <1>5. reserve => Admitted \/ Refused
    BY DEF reserve
  <1> QED BY <1>2, <1>3, <1>4, <1>5 DEF ScheduleStep, schedule_next

LEMMA PlanKeeps ==
    ASSUME Prompted, BaseInv, DriverInv, BaseInv', PlanStep
    PROVE  DriverInv'
  <1>1. /\ at.phase = "plan" /\ at \in Places /\ pc # "idle" /\ ScheduleStep
        /\ UNCHANGED <<trace, progress, live, preempted_ids, next_fork_sequence, no_progress_steps>>
        /\ progress \in [Requests -> ProgressRecord] /\ Structure /\ Structure'
    BY DriverFacts DEF PlanStep, BaseInv, CoreInv
  <1>2. \/ pc' = "idle" /\ MovesTo("prefill", 1, 0)
        \/ pc' # "idle" /\ at' = at
    <2>1. pc' = "idle" => MovesTo("prefill", 1, 0)
      BY <1>1, Moved DEF PlanStep
    <2> QED BY <2>1 DEF PlanStep
  <1>3. ReplayTypeOK' /\ PhaseInv' /\ trace' \in Traces
    BY <1>1, <1>2, ReplayTyped DEF DriverInv, PhaseInv, MovesTo
  <1>4. \A r \in Requests : Passed(r) \/ Joins(r)
    BY <1>1, ScheduleKeeps
  <1>5. /\ Range(plan.prefill) \subseteq Range(plan'.prefill)
        /\ pc' = "idle" => Executable(plan', request', Range(active'))
        /\ preemption_info \subseteq preemption_info'
    BY <1>1, ScheduleGrowsPlan
  <1>6. BooksInv'
    <2>1. ASSUME NEW r \in Requests PROVE Book(r, progress'[r], request'[r], SequencesFor(r)', tables')
      <3>1. Book(r, progress[r], request[r], SequencesFor(r), tables) /\ progress[r] \in ProgressRecord
        BY <1>1, BooksBridge DEF DriverInv
      <3>2. CASE Passed(r)
        BY <1>1, <3>1, <3>2, PassedUndisturbed, BookKept
      <3>3. CASE Joins(r)
        <4> DEFINE p == progress[r]
                   q == request[r]
                   u == request'[r]
                   V == SequencesFor(r)'
        <4>1. /\ q.state = "Pending" /\ u.state = "Prefill" /\ V = {r}
              /\ q.remaining = prompt_tokens[r] => u.remaining = prompt_tokens[r]
              /\ prompt_tokens[r] <= Blocks(tables', r) * TokensPerBlock
          BY <3>3 DEF Joins
        <4>2. ~p.admitted /\ q.remaining = prompt_tokens[r] /\ (~p.admitted => p = NoProgress)
              /\ (p.finished => p.admitted)
          BY <3>1, <4>1 DEF Book
        <4> HIDE DEF p, q, u, V
        <4>3. Book(r, p, u, V, tables')
          BY <4>1, <4>2 DEF Book, Underway
        <4> QED BY <1>1, <4>3 DEF p, q, u, V
      <3> QED BY <1>4, <3>2, <3>3
    <2> QED BY <2>1, BooksBridge
  <1>7. SeenInv'
    <2>1. plan.prefill \in Seq(Requests) /\ plan'.prefill \in Seq(Requests)
      <3>1. plan \in Plans /\ plan' \in Plans
        BY Typed, TypedAfter DEF BaseInv, CoreInv, QueueInv
      <3> QED BY <3>1 DEF Plans
    <2>2. \A r \in Range(plan'.prefill) : \E k \in Unbegun(plan', at') : plan'.prefill[k] = r
      BY <1>1, <1>2, <2>1, InRange DEF Unbegun, MovesTo
    <2>3. ASSUME NEW r \in Requests, request'[r].state \in Underway, ~progress'[r].admitted
          PROVE  r \in Range(plan'.prefill)
      <3>1. CASE Joins(r)
        BY <3>1 DEF Joins
      <3>2. CASE Passed(r)
        <4>1. State(r) \in Underway /\ ~progress[r].admitted
          BY <1>1, <2>3, <3>2 DEF Passed, Underway, State
        <4>2. \E k \in Unbegun(plan, at) : plan.prefill[k] = r
          BY <4>1 DEF DriverInv, SeenInv
        <4>3. r \in Range(plan.prefill)
          BY <2>1, <4>2, InRange DEF Unbegun
        <4> QED BY <1>5, <4>3
      <3> QED BY <1>4, <3>1, <3>2
    <2>4. ASSUME NEW r \in Requests, r \notin InTrace' PROVE request'[r].state = "Unknown"
      <3>1. request[r].state = "Unknown"
        BY <1>1, <2>4 DEF DriverInv, SeenInv, InTrace, State
      <3> QED BY <1>4, <3>1 DEF Passed, Joins
    <2> QED BY <1>1, <1>2, <2>2, <2>3, <2>4 DEF SeenInv, MovesTo, State
  <1>8. PrefillAhead' /\ DecodeAhead' /\ GrownInv'
    <2>1. CASE at'.phase = "plan"
      <3>1. Unexecuted(plan', at') = {}
        BY <2>1 DEF Unexecuted
      <3> QED BY <2>1, <3>1 DEF PrefillAhead, DecodeAhead, GrownInv
    <2>2. CASE at'.phase # "plan"
      <3>1. MovesTo("prefill", 1, 0) /\ Executable(plan', request', Range(active'))
        BY <1>1, <1>2, <1>5, <2>2
      <3>2. Unexecuted(plan', at') \subseteq 1 .. Len(plan'.prefill)
        BY DEF Unexecuted
      <3>3. PrefillAhead'
        BY <3>1, <3>2 DEF PrefillAhead, Executable, MovesTo, State
      <3>4. DecodeAhead' /\ GrownInv'
        BY <3>1 DEF DecodeAhead, GrownInv, Executable, MovesTo, State
      <3> QED BY <3>3, <3>4
    <2> QED BY <2>1, <2>2
  <1>9. LiveInv' /\ ParkedInv'
    BY <1>1, <1>2, <1>5 DEF DriverInv, LiveInv, ParkedInv, MovesTo
  <1> QED BY <1>3, <1>6, <1>7, <1>8, <1>9 DEF DriverInv

(* Before the first branch of a request was looked at. *)
LEMMA NothingGrown ==
    ASSUME BaseInv', ReplayTypeOK', at'.phase = "decode", at'.i > 0, at'.j = 1
    PROVE  GrownInv'
  <1>1. SUFFICES ASSUME at'.i <= Len(plan'.decode) PROVE Grown(progress'[Decoding'], tables', at'.j - 1)
    BY DEF GrownInv, Grown
  <1>2. plan'.decode \in Seq(Requests) /\ progress' \in [Requests -> ProgressRecord] /\ at'.i \in Nat
    <2>1. plan' \in Plans
      BY TypedAfter DEF BaseInv, CoreInv, QueueInv
    <2> QED BY <2>1, ReplayTyped DEF Plans, Places
  <1>3. Decoding' \in Requests
    <2>1. at'.i \in 1 .. Len(plan'.decode)
      BY <1>1, <1>2, InRange
    <2> QED BY <1>2, <2>1, InRange DEF Decoding
  <1>4. progress'[Decoding'].sequences \in Seq(SeqIds)
    BY <1>2, <1>3 DEF ProgressRecord
  <1>5. Len(progress'[Decoding'].sequences) \in Nat
    BY <1>4, InRange
  <1>6. at'.j - 1 = 0 /\ \A n \in Nat : \A k \in 1 .. n : ~(k <= 0)
    OBVIOUS
  <1> QED BY <1>5, <1>6 DEF Grown

LEMMA BeginKeeps ==
    ASSUME BaseInv, DriverInv, BaseInv', BeginPrefill
    PROVE  DriverInv'
  <1>1. /\ at.phase = "prefill" /\ at \in Places /\ pc = "idle" /\ at.i \in Nat /\ at.i > 0
        /\ Len(plan.prefill) \in Nat
        /\ UNCHANGED <<trace, preempted_ids, next_fork_sequence, no_progress_steps>>
        /\ progress \in [Requests -> ProgressRecord] /\ live \in Seq(Requests)
    BY DriverFacts DEF BeginPrefill, DriverInv, PhaseInv
  <1>2. /\ request' = request /\ tables' = tables /\ sequences_by_request' = sequences_by_request
        /\ preemption_info' = preemption_info /\ plan' = plan /\ pc' = pc
    BY DEF BeginPrefill, vars, cacheVars, queueVars, callVars
  <1>3. CASE at.i > Len(plan.prefill) /\ at' = Goto("decode", 1, 1) /\ UNCHANGED <<progress, live>>
    <2>1. MovesTo("decode", 1, 1)
      BY <1>1, <1>3, Moved
    <2>2. ReplayTypeOK' /\ PhaseInv' /\ trace' \in Traces
      BY <1>1, <1>2, <1>3, <2>1, ReplayTyped DEF DriverInv, PhaseInv, MovesTo
    <2>3. BooksInv'
      BY <1>2, <1>3, BooksQuiet
    <2>4. Unbegun(plan, at) = {} /\ Unexecuted(plan', at') = {}
      BY <1>1, <1>3, <2>1 DEF Unbegun, Unexecuted, MovesTo
    <2>5. SeenInv'
      BY <1>1, <1>2, <1>3, <2>1, <2>4 DEF DriverInv, SeenInv, MovesTo, State, InTrace
    <2>6. PrefillAhead'
      BY <1>1, <1>2, <2>1, <2>4 DEF DriverInv, PrefillAhead, MovesTo
    <2>7. DecodeAhead'
      <3>1. plan.decode \in Seq(Requests)
        BY DriverFacts
      <3>2. \A r \in Range(plan.decode) : State(r) = "Decode"
        BY <1>1 DEF DriverInv, DecodeAhead
      <3>3. \A k \in 1 .. Len(plan.decode) : State(plan.decode[k]) = "Decode"
        BY <3>1, <3>2, InRange
      <3> QED BY <1>2, <2>1, <3>3 DEF DecodeAhead, MovesTo, State
    <2>8. GrownInv'
      BY <2>1, <2>2, NothingGrown DEF MovesTo
    <2>9. LiveInv' /\ ParkedInv'
      BY <1>1, <1>2, <1>3, <2>1 DEF DriverInv, LiveInv, ParkedInv, MovesTo
    <2> QED BY <2>2, <2>3, <2>5, <2>6, <2>7, <2>8, <2>9 DEF DriverInv
  <1>4. CASE /\ at.i <= Len(plan.prefill)
             /\ progress' = (IF progress[Prefilled].admitted THEN progress
                             ELSE [progress EXCEPT ![Prefilled] = FirstSeen(Prefilled)])
             /\ live' = (IF progress[Prefilled].admitted THEN live ELSE Append(live, Prefilled))
             /\ at' = Goto("touch", at.i, progress[Prefilled].committed)
    <2> DEFINE r == Prefilled
               p == progress[r]
               q == request[r]
               u == progress'[r]
               S == SequencesFor(r)
    <2>1. at.i \in 1 .. Len(plan.prefill) /\ r \in Requests /\ r = plan.prefill[at.i] /\ r \in SeqIds
      BY <1>1, <1>4, CurrentPrefill, ReplayConstants
    <2>2. p \in ProgressRecord /\ p.committed \in Nat
      BY <1>1, <2>1 DEF ProgressRecord
    <2>3. MovesTo("touch", at.i, p.committed)
      BY <1>1, <1>4, <2>2, Moved
    <2>4. State(r) = "Prefill"
      <3>1. at.i \in Unexecuted(plan, at)
        BY <1>1, <2>1 DEF Unexecuted
      <3> QED BY <2>1, <3>1 DEF DriverInv, PrefillAhead
    <2>5. Book(r, p, q, S, tables) /\ Structure
      BY <2>1, BooksBridge DEF DriverInv, BaseInv, CoreInv
    <2>6. \A x \in Requests : x # r => progress'[x] = progress[x]
      BY <1>1, <1>4
    <2>7. p.admitted => u = p /\ live' = live
      BY <1>4
    <2>8. ~p.admitted => /\ u = [p EXCEPT !.admitted = TRUE, !.sequences = <<r>>, !.shared = u.shared]
                         /\ u.shared \in Nat /\ live' = Append(live, r)
      <3>1. SUFFICES ASSUME ~p.admitted
                     PROVE  /\ u = [p EXCEPT !.admitted = TRUE, !.sequences = <<r>>, !.shared = u.shared]
                            /\ u.shared \in Nat /\ live' = Append(live, r)
        OBVIOUS
      <3> DEFINE n == IF prefix_key[r] = NoKey THEN 0 ELSE prefix_token_count(prefix_key[r])
      <3>2. n \in Nat
        <4>1. prefix_key[r] = NoKey \/ prefix_key[r] \in Keys
          BY <2>1, Configured
        <4> QED BY <2>5, <4>1, PrefixCount
      <3>3. u = [p EXCEPT !.admitted = TRUE, !.sequences = <<r>>, !.shared = n]
        BY <1>1, <1>4, <2>1, <3>1 DEF FirstSeen
      <3> HIDE DEF n
      <3>4. u.shared = n
        BY <2>2, <3>3 DEF ProgressRecord
      <3> QED BY <1>4, <3>1, <3>2, <3>3, <3>4
    <2> HIDE DEF r, p, q, u, S
    <2>9. u \in ProgressRecord /\ u.admitted /\ u.finished = p.finished
      <3>1. p.admitted => u \in ProgressRecord /\ u.admitted /\ u.finished = p.finished
        BY <2>2, <2>7
      <3>2. <<r>> \in Seq(SeqIds)
        BY <2>1
      <3> DEFINE v == u.shared
      <3> HIDE DEF v
      <3>3. ~p.admitted => u \in ProgressRecord /\ u.admitted /\ u.finished = p.finished
        <4>1. SUFFICES ASSUME ~p.admitted PROVE u \in ProgressRecord /\ u.admitted /\ u.finished = p.finished
          OBVIOUS
        <4>2. u = [p EXCEPT !.admitted = TRUE, !.sequences = <<r>>, !.shared = v] /\ v \in Nat
          BY <2>8, <4>1 DEF v
        <4> QED BY ONLY <2>2, <3>2, <4>2 DEF ProgressRecord
      <3> QED BY <3>1, <3>3
    <2>10. \A x \in Requests : progress'[x] \in ProgressRecord
      BY <1>1, <2>6, <2>9 DEF u
    <2>11. ~p.admitted => r \notin Range(live)
      BY <2>1 DEF DriverInv, LiveInv, p
    <2>12. /\ live' \in Seq(Requests) /\ Range(live') = Range(live) \cup {r} /\ IsInjective(live')
      <3>1. IsInjective(live)
        BY DEF DriverInv, LiveInv
      <3>2. CASE p.admitted
        <4>1. q.state # "Unknown"
          BY <2>4 DEF State, q
        <4>2. ~p.finished
          BY <2>5, <4>1 DEF Book
        <4>3. r \in Range(live)
          BY <2>1, <3>2, <4>2 DEF DriverInv, LiveInv, p
        <4> QED BY <1>1, <2>7, <3>1, <3>2, <4>3
      <3>3. CASE ~p.admitted
        <4>1. live' = Append(live, r)
          BY <2>8, <3>3
        <4> QED BY <1>1, <2>1, <2>11, <3>1, <3>3, <4>1, AppendedQueue
      <3> QED BY <3>2, <3>3
    <2>13. ReplayTypeOK'
      <3>1. progress' \in [Requests -> ProgressRecord]
        <4>1. progress' = [x \in Requests |-> progress'[x]]
          BY <1>1, <1>4
        <4> QED BY <2>10, <4>1
      <3> QED BY <1>1, <2>3, <2>12, <3>1, ReplayTyped DEF DriverInv, MovesTo
    <2>14. PhaseInv' /\ trace' \in Traces
      BY <1>1, <1>2, <1>4, <2>3 DEF DriverInv, PhaseInv, MovesTo
    <2>15. BooksInv'
      <3>1. ASSUME NEW x \in Requests PROVE Book(x, progress'[x], request'[x], SequencesFor(x)', tables')
        <4>1. SequencesFor(x)' = SequencesFor(x)
          BY <1>2, ListsSame
        <4>2. CASE x # r \/ p.admitted
          <5>1. progress'[x] = progress[x]
            BY <2>6, <2>7, <4>2 DEF u, p
          <5> QED BY <1>2, <4>1, <5>1, BooksBridge DEF DriverInv
        <4>3. CASE x = r /\ ~p.admitted
          <5>1. q.state = "Prefill"
            BY <2>4 DEF State, q
          <5>2. /\ p = NoProgress /\ S = {r} /\ q.remaining = prompt_tokens[r]
                /\ \A s \in S : prompt_tokens[r] <= Blocks(tables, s) * TokensPerBlock
            BY <2>5, <4>3, <5>1 DEF Book, Underway
          <5>3. /\ u.admitted /\ ~u.finished /\ u.committed = 0 /\ u.decoded = 0 /\ u.sequences = <<r>>
            <6> DEFINE v == u.shared
            <6>1. u = [NoProgress EXCEPT !.admitted = TRUE, !.sequences = <<r>>, !.shared = v]
              BY <2>8, <4>3, <5>2
            <6> HIDE DEF v
            <6> QED BY ONLY <6>1 DEF NoProgress
          <5>4. Range(<<r>>) = {r}
            BY DEF Range
          <5>5. prompt_tokens[r] \in Nat
            BY <2>1, ReplayConstants
          <5>6. \A s \in S : 0 <= Blocks(tables, s) * TokensPerBlock
            <6>1. Blocks(tables, r) \in Nat
              BY <2>1, <2>5, BlocksTyped
            <6>2. Blocks(tables, r) * TokensPerBlock \in Nat
              BY <6>1, RoomGrows
            <6> QED BY <5>2, <6>2
          <5>7. Book(r, u, q, S, tables)
            BY <5>1, <5>2, <5>3, <5>4, <5>5, <5>6 DEF Book, Underway
          <5> QED BY <1>2, <4>1, <4>3, <5>7 DEF u, q, S
        <4> QED BY <4>2, <4>3
      <3> QED BY <3>1, BooksBridge
    <2>16. SeenInv'
      <3>1. ASSUME NEW x \in Requests, request'[x].state \in Underway, ~progress'[x].admitted
            PROVE  \E k \in Unbegun(plan', at') : plan'.prefill[k] = x
        <4>1. x # r
          BY <2>9, <3>1 DEF u
        <4>2. PICK k \in Unbegun(plan, at) : plan.prefill[k] = x
          BY <1>2, <2>6, <3>1, <4>1 DEF DriverInv, SeenInv, State
        <4>3. k # at.i
          BY <2>1, <4>1, <4>2
        <4>4. k \in Unbegun(plan', at')
          BY <1>1, <1>2, <2>3, <4>2, <4>3 DEF Unbegun, MovesTo
        <4> QED BY <1>2, <4>2, <4>4
      <3>2. progress'[Prefilled'].admitted
        <4>1. Prefilled' = r
          BY <1>2, <2>1, <2>3 DEF Prefilled, MovesTo
        <4> QED BY <2>9, <4>1 DEF u
      <3> QED BY <1>1, <1>2, <3>1, <3>2 DEF DriverInv, SeenInv, State, InTrace
    <2>17. PrefillAhead' /\ DecodeAhead' /\ GrownInv'
      <3>1. Unexecuted(plan', at') = Unexecuted(plan, at)
        BY <1>1, <1>2, <2>3 DEF Unexecuted, MovesTo
      <3>2. PrefillAhead'
        BY <1>1, <1>2, <2>3, <3>1 DEF DriverInv, PrefillAhead, MovesTo, State
      <3>3. DecodeAhead' /\ GrownInv'
        BY <1>1, <1>2, <2>3 DEF DriverInv, DecodeAhead, GrownInv, MovesTo, State
      <3> QED BY <3>2, <3>3
    <2>18. LiveInv'
      <3>1. ASSUME NEW x \in Requests
            PROVE  /\ x \in Range(live') => progress'[x].admitted /\ ~progress'[x].finished
                   /\ progress'[x].admitted /\ ~progress'[x].finished => x \in Range(live')
        <4>1. CASE x = r
          <5>1. ~p.finished
            <6>1. q.state # "Unknown"
              BY <2>4 DEF State, q
            <6> QED BY <2>5, <6>1 DEF Book
          <5> QED BY <2>9, <2>12, <4>1, <5>1 DEF u
        <4>2. CASE x # r
          BY <1>1, <2>6, <2>12, <4>2 DEF DriverInv, LiveInv
        <4> QED BY <4>1, <4>2
      <3>2. Range(live') \subseteq Requests
        BY <2>12, InRange
      <3> QED BY <2>12, <3>1, <3>2 DEF LiveInv
    <2>19. ParkedInv'
      BY <1>1, <1>2, <2>3 DEF DriverInv, ParkedInv, MovesTo
    <2> QED BY <2>13, <2>14, <2>15, <2>16, <2>17, <2>18, <2>19 DEF DriverInv
  <1> QED BY <1>3, <1>4 DEF BeginPrefill

(* What touching a position leaves alone. *)
LEMMA TouchQuiet ==
    ASSUME Structure, NEW s \in SeqIds, NEW pos, touch_position(s, pos)
    PROVE  /\ request' = request /\ sequences_by_request' = sequences_by_request
           /\ preemption_info' = preemption_info /\ plan' = plan /\ pc' = pc
           /\ \A t \in SeqIds : Blocks(tables', t) = Blocks(tables, t)
  <1>1. request' = request /\ preemption_info' = preemption_info /\ plan' = plan /\ pc' = pc
    BY DEF touch_position, queueVars, callVars
  <1>2. CASE ensure_token_writable(s, pos, 1)
    <2>1. sequences_by_request' = sequences_by_request
      BY <1>2 DEF ensure_token_writable
    <2> QED BY <1>1, <1>2, <2>1, LengthsEnsure
  <1>3. CASE UNCHANGED cacheVars
    BY <1>1, <1>3 DEF cacheVars
  <1> QED BY <1>2, <1>3 DEF touch_position

LEMMA TouchKeeps ==
    ASSUME BaseInv, DriverInv, BaseInv', PrefillChunk, ToTouch # {}
    PROVE  DriverInv'
  <1>1. /\ at.phase = "touch" /\ at \in Places /\ at.i \in Nat
        /\ touch_position(Prefilled, Min(ToTouch))
        /\ at' = Goto("touch", at.i, Min(ToTouch) + 1)
        /\ UNCHANGED <<trace, progress, live, preempted_ids, next_fork_sequence, no_progress_steps>>
        /\ Structure /\ ToTouch \in SUBSET Nat
    BY DriverFacts DEF PrefillChunk, ToTouch
  <1>2. Prefilled \in Requests /\ Prefilled \in SeqIds
    BY <1>1, ChunkInPrompt, ReplayConstants
  <1>3. /\ request' = request /\ sequences_by_request' = sequences_by_request
        /\ preemption_info' = preemption_info /\ plan' = plan /\ pc' = pc
        /\ \A t \in SeqIds : Blocks(tables', t) = Blocks(tables, t)
    BY <1>1, <1>2, TouchQuiet
  <1>4. at' \in Places /\ at'.phase = at.phase /\ at'.i = at.i
    <2>1. Min(ToTouch) \in Nat
      BY <1>1, LeastMember
    <2>2. Min(ToTouch) + 1 \in Nat
      BY <2>1
    <2>3. MovesTo("touch", at.i, Min(ToTouch) + 1)
      BY <1>1, <2>2, Moved
    <2> QED BY <1>1, <2>3 DEF MovesTo
  <1>5. ReplayTypeOK' /\ PhaseInv' /\ trace' \in Traces
    BY <1>1, <1>3, <1>4, ReplayTyped DEF DriverInv, PhaseInv
  <1>6. BooksInv'
    BY <1>1, <1>3, BooksQuiet
  <1>7. Unbegun(plan', at') = Unbegun(plan, at) /\ Unexecuted(plan', at') = Unexecuted(plan, at)
    BY <1>3, <1>4 DEF Unbegun, Unexecuted
  <1>8. SeenInv'
    BY <1>1, <1>3, <1>4, <1>7 DEF DriverInv, SeenInv, State, InTrace, Prefilled
  <1>9. PrefillAhead'
    BY <1>1, <1>3, <1>4, <1>7 DEF DriverInv, PrefillAhead, State, Prefilled
  <1>10. DecodeAhead' /\ GrownInv'
    BY <1>1, <1>3, <1>4 DEF DriverInv, DecodeAhead, GrownInv, State
  <1>11. LiveInv' /\ ParkedInv'
    BY <1>1, <1>3, <1>4 DEF DriverInv, LiveInv, ParkedInv
  <1> QED BY <1>5, <1>6, <1>8, <1>9, <1>10, <1>11 DEF DriverInv

(* What complete_step does to the record of the request, and to its books. *)
LEMMA ChunkBook ==
    ASSUME NEW r \in Requests, NEW p \in ProgressRecord, NEW q \in RequestRecord, NEW S, NEW T,
           Book(r, p, q, S, T), q.state = "Prefill", p.admitted, NEW n \in 1 .. q.remaining,
           NEW v, v = [p EXCEPT !.committed = @ + n],
           NEW u, u.remaining = q.remaining - n, u.state \in {"Prefill", "Decode"},
           u.state = "Decode" => u.remaining = 0,
           \A s \in S : Blocks(T, s) * TokensPerBlock \in Nat
    PROVE  Book(r, v, u, S, T) /\ v \in ProgressRecord
           /\ v.admitted = p.admitted /\ v.finished = p.finished
  <1>1. /\ prompt_tokens[r] \in Nat /\ p.committed \in Nat /\ p.decoded \in Nat /\ q.remaining \in Nat
        /\ n \in Nat /\ n > 0 /\ n <= q.remaining
    BY ReplayConstants DEF ProgressRecord, RequestRecord
  <1>2. /\ v \in ProgressRecord /\ v.admitted = p.admitted /\ v.finished = p.finished
        /\ v.sequences = p.sequences /\ v.committed = p.committed + n /\ v.decoded = p.decoded
    <2>1. p.committed + n \in Nat
      BY <1>1
    <2> QED BY <2>1 DEF ProgressRecord
  <1>3. /\ Range(p.sequences) = S
        /\ p.committed + q.remaining = prompt_tokens[r] + p.decoded
        /\ p.decoded > 0 => q.remaining = 0
        /\ ~p.finished
        /\ \A s \in S : prompt_tokens[r] <= Blocks(T, s) * TokensPerBlock
    BY DEF Book, Underway
  <1>4. /\ v.committed + u.remaining = prompt_tokens[r] + v.decoded
        /\ v.decoded = 0 /\ v.committed <= prompt_tokens[r] /\ v.committed \in Nat
    BY <1>1, <1>2, <1>3
  <1>5. ASSUME NEW s \in S PROVE v.committed <= Blocks(T, s) * TokensPerBlock
    <2> DEFINE b == Blocks(T, s) * TokensPerBlock
    <2>1. b \in Nat /\ prompt_tokens[r] <= b
      BY <1>3
    <2> HIDE DEF b
    <2>2. v.committed <= b
      BY <1>1, <1>4, <2>1
    <2> QED BY <2>2 DEF b
  <1>6. Book(r, v, u, S, T)
    BY <1>2, <1>3, <1>4, <1>5 DEF Book, Underway
  <1> QED BY <1>2, <1>6

LEMMA ChunkKeeps ==
    ASSUME BaseInv, DriverInv, BaseInv', PrefillChunk, ToTouch = {}
    PROVE  DriverInv'
  <1> DEFINE r == Prefilled
             n == Chunk
             p == progress[r]
             q == request[r]
             v == progress'[r]
             u == request'[r]
             S == SequencesFor(r)
  <1>1. /\ at.phase = "touch" /\ at \in Places /\ pc = "idle" /\ at.i \in Nat /\ at.i > 0
        /\ Len(plan.prefill) \in Nat /\ at.i \in 1 .. Len(plan.prefill) /\ r = plan.prefill[at.i]
        /\ UNCHANGED <<trace, live, preempted_ids, next_fork_sequence, no_progress_steps>>
        /\ progress \in [Requests -> ProgressRecord] /\ request \in Requested /\ Structure
    <2>1. at.phase = "touch" /\ at.i <= Len(plan.prefill)
      BY DEF PrefillChunk, DriverInv, PhaseInv
    <2> QED BY <2>1, CurrentPrefill, DriverFacts DEF PrefillChunk, DriverInv, PhaseInv
  <1>2. /\ progress' = [progress EXCEPT ![r] = [progress[r] EXCEPT !.committed = @ + n]]
        /\ complete_step(r, n)
        /\ at' = [Goto(IF u.state = "Decode" THEN "publish" ELSE "prefill",
                       IF u.state = "Decode" THEN at.i ELSE at.i + 1, 0) EXCEPT !.progress_made = TRUE]
    BY DEF PrefillChunk
  <1>3. /\ r \in Requests /\ q.state = "Prefill" /\ p.admitted /\ n \in 1 .. q.remaining /\ n \in Nat
        /\ p \in ProgressRecord /\ q \in RequestRecord /\ q.remaining \in Nat
    BY <1>1, ChunkInPrompt DEF Requested, RequestRecord, State
  <1>4. /\ pc' = pc /\ plan' = plan /\ preemption_info' = preemption_info /\ tables' = tables
        /\ sequences_by_request' = sequences_by_request
        /\ request' = [request EXCEPT ![r] = [request[r] EXCEPT
               !.remaining = RemainingAfter(r, n),
               !.state = IF n >= request[r].remaining THEN "Decode" ELSE @]]
    BY <1>2 DEF complete_step, cacheVars, callVars
  <1>5. u.remaining = q.remaining - n /\ u.state \in {"Prefill", "Decode"}
        /\ (u.state = "Decode" => u.remaining = 0)
    <2> DEFINE left == RemainingAfter(r, n)
               state == IF n >= q.remaining THEN "Decode" ELSE "Prefill"
    <2>1. left = q.remaining - n
      BY <1>3 DEF RemainingAfter
    <2>2. state = "Decode" => q.remaining - n = 0
      BY <1>3
    <2>3. u = [q EXCEPT !.remaining = left, !.state = state]
      BY <1>1, <1>3, <1>4 DEF Requested
    <2>4. state \in {"Prefill", "Decode"}
      OBVIOUS
    <2> HIDE DEF left, state, q, u
    <2>5. u.remaining = left /\ u.state = state
      BY <1>3, <2>3 DEF RequestRecord
    <2> QED BY <2>1, <2>2, <2>4, <2>5
  <1>6. \A x \in Requests : x # r => request'[x] = request[x] /\ progress'[x] = progress[x]
    BY <1>1, <1>2, <1>4, ZenonT(30) DEF Requested
  <1>7. v = [p EXCEPT !.committed = @ + n]
    BY <1>1, <1>2, <1>3
  <1> HIDE DEF r, n, p, q, v, u, S
  <1>8. Book(r, v, u, S, tables) /\ v \in ProgressRecord /\ v.admitted /\ v.finished = p.finished
    <2>1. Book(r, p, q, S, tables)
      BY <1>3, BooksBridge DEF DriverInv, p, q, S
    <2>2. \A s \in S : Blocks(tables, s) * TokensPerBlock \in Nat
      <3>1. S \subseteq SeqIds
        BY <1>1, <1>3, ListedSequences DEF Structure, TypeOK, S
      <3> QED BY <1>1, <3>1, BlocksTyped, RoomGrows
    <2> QED BY <1>3, <1>5, <1>7, <2>1, <2>2, ChunkBook
  <1>9. \/ u.state = "Decode" /\ MovesTo("publish", at.i, 0)
        \/ u.state = "Prefill" /\ MovesTo("prefill", at.i + 1, 0)
    <2>1. CASE u.state = "Decode"
      BY <1>1, <1>2, <2>1, Moved
    <2>2. CASE u.state = "Prefill"
      <3>1. at.i + 1 \in Nat
        BY <1>1
      <3> QED BY <1>1, <1>2, <2>2, <3>1, Moved
    <2> QED BY <1>5, <2>1, <2>2
  <1>10. ReplayTypeOK' /\ PhaseInv' /\ trace' \in Traces
    <2>1. progress' \in [Requests -> ProgressRecord]
      BY <1>1, <1>2, <1>7, <1>8 DEF v, p
    <2> QED BY <1>1, <1>4, <1>9, <2>1, ReplayTyped DEF DriverInv, PhaseInv, MovesTo
  <1>11. BooksInv'
    <2>1. ASSUME NEW x \in Requests PROVE Book(x, progress'[x], request'[x], SequencesFor(x)', tables')
      <3>1. SequencesFor(x)' = SequencesFor(x)
        BY <1>4, ListsSame
      <3>2. CASE x = r
        BY <1>4, <1>8, <3>1, <3>2 DEF v, u, S
      <3>3. CASE x # r
        BY <1>4, <1>6, <3>1, <3>3, BooksBridge DEF DriverInv
      <3> QED BY <3>2, <3>3
    <2> QED BY <2>1, BooksBridge
  <1>12. SeenInv'
    <2>1. Unbegun(plan', at') = Unbegun(plan, at)
      BY <1>1, <1>4, <1>9 DEF Unbegun, MovesTo
    <2>2. \A x \in Requests : /\ ~progress'[x].admitted => ~progress[x].admitted /\ x # r
                              /\ request'[x].state = "Unknown" <=> request[x].state = "Unknown"
      BY <1>3, <1>5, <1>6, <1>8 DEF v, p, q, u
    <2>3. at'.phase \in {"touch", "publish", "fork"} => progress'[Prefilled'].admitted
      BY <1>1, <1>4, <1>8, <1>9 DEF MovesTo, Prefilled, v
    <2>4. \A x \in Requests : x # r => request'[x] = request[x]
      BY <1>6
    <2> QED BY <1>1, <1>4, <2>1, <2>2, <2>3, <2>4 DEF DriverInv, SeenInv, State, InTrace
  <1>13. PrefillAhead'
    <2>1. ASSUME NEW k \in Unexecuted(plan', at')
          PROVE  /\ request'[plan'.prefill[k]].state = "Prefill"
                 /\ plan'.tokens[k] \in 1 .. request'[plan'.prefill[k]].remaining
      <3>1. k \in Unexecuted(plan, at) /\ k # at.i /\ k \in 1 .. Len(plan.prefill)
        BY <1>1, <1>4, <1>9 DEF Unexecuted, MovesTo
      <3>2. plan.prefill[k] # r /\ plan.prefill[k] \in Requests
        <4>1. IsInjective(plan.prefill) /\ plan.prefill \in Seq(Requests)
          BY <1>1, DriverFacts DEF DriverInv, PrefillAhead
        <4> QED BY <1>1, <3>1, <4>1, InRange
      <3>3. State(plan.prefill[k]) = "Prefill" /\ plan.tokens[k] \in 1 .. request[plan.prefill[k]].remaining
        BY <3>1 DEF DriverInv, PrefillAhead
      <3> QED BY <1>4, <1>6, <3>2, <3>3 DEF State
    <2>2. at'.phase \in {"publish", "fork"} => State(Prefilled)' = "Decode"
      BY <1>1, <1>4, <1>9 DEF MovesTo, Prefilled, State, u
    <2> QED BY <1>1, <1>4, <2>1, <2>2 DEF DriverInv, PrefillAhead, State
  <1>14. DecodeAhead' /\ GrownInv'
    <2>1. ASSUME NEW x \in Range(plan'.decode) PROVE State(x)' = "Decode"
      <3>1. State(x) = "Decode" /\ x \in Requests
        BY <1>1, <1>4, <2>1, DriverFacts, InRange DEF DriverInv, DecodeAhead
      <3>2. x # r
        BY <1>3, <3>1 DEF State, q
      <3> QED BY <1>6, <3>1, <3>2 DEF State
    <2> QED BY <1>9, <2>1 DEF DecodeAhead, GrownInv, MovesTo
  <1>15. LiveInv'
    <2>1. \A x \in Requests : /\ progress'[x].admitted <=> progress[x].admitted
                              /\ progress'[x].finished <=> progress[x].finished
      BY <1>3, <1>6, <1>8 DEF v, p
    <2>2. Range(live) \subseteq Requests
      BY DriverFacts, InRange
    <2> QED BY <1>1, <1>9, <2>1, <2>2 DEF DriverInv, LiveInv, MovesTo
  <1>16. ParkedInv'
    BY <1>1, <1>4, <1>9 DEF DriverInv, ParkedInv, MovesTo
  <1> QED BY <1>10, <1>11, <1>12, <1>13, <1>14, <1>15, <1>16 DEF DriverInv

LEMMA PublishStepKeeps ==
    ASSUME BaseInv, DriverInv, BaseInv', PublishPrompt
    PROVE  DriverInv'
  <1>1. /\ at.phase = "publish" /\ at \in Places /\ at.i \in Nat
        /\ UNCHANGED <<trace, progress, live, preempted_ids, next_fork_sequence, no_progress_steps>>
    BY DriverFacts DEF PublishPrompt
  <1>2. /\ request' = request /\ sequences_by_request' = sequences_by_request /\ tables' = tables
        /\ preemption_info' = preemption_info /\ plan' = plan /\ pc' = pc
    BY DEF PublishPrompt, publish_prefix, cacheVars, queueVars, callVars
  <1>3. MovesTo("fork", at.i, 1)
    BY <1>1, Moved DEF PublishPrompt
  <1>4. ReplayTypeOK' /\ PhaseInv' /\ trace' \in Traces
    BY <1>1, <1>2, <1>3, ReplayTyped DEF DriverInv, PhaseInv, MovesTo
  <1>5. BooksInv'
    BY <1>1, <1>2, BooksQuiet
  <1>6. Unbegun(plan', at') = Unbegun(plan, at) /\ Unexecuted(plan', at') = Unexecuted(plan, at)
    BY <1>1, <1>2, <1>3 DEF Unbegun, Unexecuted, MovesTo
  <1>7. SeenInv'
    BY <1>1, <1>2, <1>3, <1>6 DEF DriverInv, SeenInv, State, InTrace, Prefilled, MovesTo
  <1>8. PrefillAhead'
    BY <1>1, <1>2, <1>3, <1>6 DEF DriverInv, PrefillAhead, State, Prefilled, MovesTo
  <1>9. DecodeAhead' /\ GrownInv'
    BY <1>1, <1>2, <1>3 DEF DriverInv, DecodeAhead, GrownInv, State, MovesTo
  <1>10. LiveInv' /\ ParkedInv'
    BY <1>1, <1>2, <1>3 DEF DriverInv, LiveInv, ParkedInv, MovesTo
  <1> QED BY <1>4, <1>5, <1>7, <1>8, <1>9, <1>10 DEF DriverInv

LEMMA ForkStepKeeps ==
    ASSUME BaseInv, DriverInv, BaseInv', ForkSample
    PROVE  DriverInv'
  <1> DEFINE r == Prefilled
             t == next_fork_sequence
             p == progress[r]
             v == progress'[r]
             S == SequencesFor(r)
  <1>1. /\ at.phase = "fork" /\ at \in Places /\ pc = "idle" /\ at.i \in Nat /\ at.j \in Nat
        /\ UNCHANGED <<trace, live, preempted_ids, no_progress_steps>>
        /\ progress \in [Requests -> ProgressRecord] /\ Structure /\ t \in Nat
    BY DriverFacts, ReplayTyped DEF ForkSample, DriverInv, PhaseInv
  <1>2. /\ request' = request /\ preemption_info' = preemption_info /\ plan' = plan /\ pc' = pc
    BY DEF ForkSample, queueVars, callVars
  <1>3. /\ at.i \in 1 .. Len(plan.prefill) /\ r \in Requests /\ r \in SeqIds /\ State(r) = "Decode" /\ p.admitted
        /\ r = plan.prefill[at.i]
    <2>1. at.i <= Len(plan.prefill)
      BY <1>1 DEF DriverInv, PhaseInv
    <2> QED BY <1>1, <2>1, CurrentPrefill, ReplayConstants DEF DriverInv, PrefillAhead, SeenInv
  <1>4. CASE /\ t \in SeqIds /\ fork_sequence(r, t, r)
             /\ progress' = [progress EXCEPT ![r] = [progress[r] EXCEPT !.sequences = Append(@, t)]]
             /\ next_fork_sequence' = t + 1
             /\ at' = Goto("fork", at.i, at.j + 1)
    <2>1. at' \in Places /\ at'.phase = at.phase /\ at'.i = at.i
      <3>1. at.j + 1 \in Nat
        BY <1>1
      <3>2. MovesTo("fork", at.i, at.j + 1)
        BY <1>1, <1>4, <3>1, Moved
      <3> QED BY <1>1, <3>2 DEF MovesTo
    <2>2. p \in ProgressRecord /\ p.sequences \in Seq(SeqIds)
      BY <1>1, <1>3 DEF ProgressRecord
    <2>3. v = [p EXCEPT !.sequences = Append(p.sequences, t)]
      BY <1>1, <1>3, <1>4
    <2>4. \A x \in Requests : x # r => progress'[x] = progress[x]
      BY <1>1, <1>4
    <2>5. /\ Append(p.sequences, t) \in Seq(SeqIds)
          /\ Range(Append(p.sequences, t)) = Range(p.sequences) \cup {t}
      BY <1>4, <2>2, AppendedQueue
    <2>6. /\ \A x \in Requests : SequencesFor(x)' = IF x = r THEN S \cup {t} ELSE SequencesFor(x)
          /\ \A s \in SeqIds : Blocks(tables', s) = IF s = t THEN Blocks(tables, r) ELSE Blocks(tables, s)
          /\ t \notin sequences
      <3> HIDE DEF t, r, S
      <3>1. Index(t, r) /\ t \notin sequences
        BY <1>4 DEF fork_sequence
      <3>2. \A x \in Requests : SequencesFor(x)' = IF x = r THEN SequencesFor(r) \cup {t} ELSE SequencesFor(x)
        BY <1>1, <1>3, <1>4, <3>1, ListsIndex
      <3>3. \A s \in SeqIds : Blocks(tables', s) = IF s = t THEN Blocks(tables, r) ELSE Blocks(tables, s)
        BY <1>1, <1>3, <1>4, LengthsFork
      <3> QED BY <3>1, <3>2, <3>3 DEF S
    <2>7. Book(r, p, request[r], S, tables) /\ r \in S
      <3>1. ~Waiting(r) /\ root_sequence_id[r] = r
        BY <1>3, ReplayConstants DEF Waiting
      <3> QED BY <1>3, <3>1, BooksBridge DEF DriverInv, BaseInv, SequencesInv
    <2> HIDE DEF t, r, p, v, S
    <2>8. /\ v \in ProgressRecord /\ v.admitted = p.admitted /\ v.finished = p.finished
          /\ v.sequences = Append(p.sequences, t) /\ v.committed = p.committed /\ v.decoded = p.decoded
      BY <2>2, <2>3, <2>5 DEF ProgressRecord
    <2>9. ReplayTypeOK' /\ PhaseInv' /\ trace' \in Traces
      <3>1. progress' \in [Requests -> ProgressRecord]
        BY <1>1, <1>4, <2>3, <2>8 DEF v, p
      <3>2. next_fork_sequence' \in Nat
        BY <1>1, <1>4
      <3> QED BY <1>1, <1>2, <2>1, <3>1, <3>2, ReplayTyped DEF DriverInv, PhaseInv
    <2>10. BooksInv'
      <3>1. ASSUME NEW x \in Requests PROVE Book(x, progress'[x], request'[x], SequencesFor(x)', tables')
        <4>1. CASE x = r
          <5>1. request[r].state = "Decode"
            BY <1>3 DEF State
          <5>2. /\ Range(p.sequences) = S
                /\ p.committed + request[r].remaining = prompt_tokens[r] + p.decoded
                /\ p.decoded > 0 => request[r].remaining = 0
                /\ request[r].remaining = 0 /\ ~p.finished
                /\ \A s \in S : /\ prompt_tokens[r] <= Blocks(tables, s) * TokensPerBlock
                                /\ p.committed <= Blocks(tables, s) * TokensPerBlock
            BY <1>3, <2>7, <5>1 DEF Book, Underway
          <5>3. S \subseteq SeqIds
            BY <1>1, <1>3, ListedSequences DEF Structure, TypeOK, S
          <5>4. \A s \in S \cup {t} : /\ prompt_tokens[r] <= Blocks(tables', s) * TokensPerBlock
                                      /\ p.committed <= Blocks(tables', s) * TokensPerBlock
            BY <1>4, <2>6, <2>7, <5>2, <5>3
          <5>5. Range(v.sequences) = S \cup {t}
            BY <2>5, <2>8, <5>2
          <5>6. Book(r, v, request[r], S \cup {t}, tables')
            BY <1>3, <2>8, <5>1, <5>2, <5>4, <5>5 DEF Book, Underway
          <5> QED BY <1>2, <2>6, <4>1, <5>6 DEF v
        <4>2. CASE x # r
          <5>1. SequencesFor(x) \subseteq SeqIds /\ t \notin SequencesFor(x)
            BY <1>1, <2>6, ListedSequences DEF Structure, TypeOK
          <5>2. \A s \in SequencesFor(x) : Blocks(tables', s) = Blocks(tables, s)
            BY <2>6, <5>1
          <5>3. Passed(x)
            BY <1>2, <2>6, <4>2, <5>2 DEF Passed
          <5>4. progress[x] \in ProgressRecord /\ Book(x, progress[x], request[x], SequencesFor(x), tables)
            BY <1>1, BooksBridge DEF DriverInv
          <5>5. Structure'
            BY DEF BaseInv, CoreInv
          <5> QED BY <1>1, <2>4, <4>2, <5>3, <5>4, <5>5, PassedUndisturbed, BookKept
        <4> QED BY <4>1, <4>2
      <3> QED BY <3>1, BooksBridge
    <2>11. Unbegun(plan', at') = Unbegun(plan, at) /\ Unexecuted(plan', at') = Unexecuted(plan, at)
      BY <1>1, <1>2, <2>1 DEF Unbegun, Unexecuted
    <2>12. \A x \in Requests : /\ progress'[x].admitted <=> progress[x].admitted
                               /\ progress'[x].finished <=> progress[x].finished
      BY <2>4, <2>8 DEF v, p
    <2>13. SeenInv'
      <3>1. Prefilled' = r /\ progress'[r].admitted
        BY <1>2, <1>3, <2>1, <2>8 DEF Prefilled, v, r
      <3> QED BY <1>1, <1>2, <2>1, <2>11, <2>12, <3>1 DEF DriverInv, SeenInv, State, InTrace
    <2>14. PrefillAhead'
      BY <1>1, <1>2, <2>1, <2>11 DEF DriverInv, PrefillAhead, State, Prefilled
    <2>15. DecodeAhead' /\ GrownInv'
      BY <1>1, <1>2, <2>1 DEF DriverInv, DecodeAhead, GrownInv, State
    <2>16. LiveInv' /\ ParkedInv'
      <3>1. Range(live) \subseteq Requests
        BY DriverFacts, InRange
      <3> QED BY <1>1, <1>2, <2>1, <2>12, <3>1 DEF DriverInv, LiveInv, ParkedInv
    <2> QED BY <2>9, <2>10, <2>13, <2>14, <2>15, <2>16 DEF DriverInv
  <1>5. CASE /\ at' = Goto("prefill", at.i + 1, 0)
             /\ UNCHANGED <<cacheVars, progress, next_fork_sequence>>
    <2>1. MovesTo("prefill", at.i + 1, 0)
      <3>1. at.i + 1 \in Nat
        BY <1>1
      <3> QED BY <1>1, <1>5, <3>1, Moved
    <2>2. sequences_by_request' = sequences_by_request /\ tables' = tables
      BY <1>5 DEF cacheVars
    <2>3. ReplayTypeOK' /\ PhaseInv' /\ trace' \in Traces
      BY <1>1, <1>2, <1>5, <2>1, ReplayTyped DEF DriverInv, PhaseInv, MovesTo
    <2>4. BooksInv'
      BY <1>2, <1>5, <2>2, BooksQuiet
    <2>5. Unbegun(plan', at') = Unbegun(plan, at) /\ Unexecuted(plan', at') = Unexecuted(plan, at)
      BY <1>1, <1>2, <2>1 DEF Unbegun, Unexecuted, MovesTo
    <2>6. SeenInv'
      BY <1>1, <1>2, <1>5, <2>1, <2>5 DEF DriverInv, SeenInv, State, InTrace, MovesTo
    <2>7. PrefillAhead'
      BY <1>1, <1>2, <2>1, <2>5 DEF DriverInv, PrefillAhead, State, MovesTo
    <2>8. DecodeAhead' /\ GrownInv'
      BY <1>1, <1>2, <2>1 DEF DriverInv, DecodeAhead, GrownInv, State, MovesTo
    <2>9. LiveInv' /\ ParkedInv'
      BY <1>1, <1>2, <1>5, <2>1 DEF DriverInv, LiveInv, ParkedInv, MovesTo
    <2> QED BY <2>3, <2>4, <2>6, <2>7, <2>8, <2>9 DEF DriverInv
  <1> QED BY <1>4, <1>5 DEF ForkSample

(* The request of the current decode token, unless it was parked. *)
LEMMA DecodingBook ==
    ASSUME BaseInv, DriverInv, at.phase \in {"decode", "write"}, at.i <= Len(plan.decode),
           at.phase = "decode" => Decoding \notin preemption_info
    PROVE  /\ at.i \in 1 .. Len(plan.decode) /\ Decoding \in Requests /\ Decoding = plan.decode[at.i]
           /\ State(Decoding) = "Decode" /\ progress[Decoding] \in ProgressRecord
           /\ progress[Decoding].admitted /\ ~progress[Decoding].finished
           /\ request[Decoding].remaining = 0
           /\ Range(progress[Decoding].sequences) = SequencesFor(Decoding)
           /\ progress[Decoding].sequences \in Seq(SeqIds)
           /\ progress[Decoding].committed \in Nat
           /\ progress[Decoding].committed = prompt_tokens[Decoding] + progress[Decoding].decoded
           /\ \A s \in SequencesFor(Decoding) :
                 progress[Decoding].committed <= Blocks(tables, s) * TokensPerBlock
  <1> DEFINE r == Decoding
             p == progress[r]
             q == request[r]
  <1>1. at.i \in 1 .. Len(plan.decode) /\ r \in Requests /\ r = plan.decode[at.i]
    BY CurrentDecode
  <1>2. q.state = "Decode"
    <2>1. CASE at.phase = "write"
      BY <2>1 DEF DriverInv, DecodeAhead, State
    <2>2. CASE at.phase = "decode"
      <3>1. State(r) \in {"Decode", "Preempted"}
        <4>1. at.i >= at.i
          BY DriverFacts
        <4>2. \A k \in 1 .. Len(plan.decode) : k >= at.i => State(plan.decode[k]) \in {"Decode", "Preempted"}
          BY <2>2 DEF DriverInv, DecodeAhead
        <4> QED BY <1>1, <4>1, <4>2
      <3>2. State(r) # "Preempted"
        <4>1. preemption_info = Range(preempted) /\ (r \in Range(preempted) <=> State(r) = "Preempted")
          BY <1>1, DriverFacts DEF QueuesAgree
        <4> QED BY <2>2, <4>1
      <3> QED BY <3>1, <3>2 DEF State
    <2> QED BY <2>1, <2>2
  <1>3. p \in ProgressRecord /\ p.sequences \in Seq(SeqIds) /\ p.committed \in Nat /\ p.decoded \in Nat
        /\ prompt_tokens[r] \in Nat
    BY <1>1, DriverFacts, ReplayConstants DEF ProgressRecord
  <1>4. p.admitted
    <2>1. Unbegun(plan, at) = {}
      BY DEF Unbegun
    <2> QED BY <1>1, <1>2, <2>1 DEF DriverInv, SeenInv, State, Underway
  <1>5. Book(r, p, q, SequencesFor(r), tables)
    BY <1>1, BooksBridge DEF DriverInv
  <1> HIDE DEF r, p, q
  <1>6. /\ q.remaining = 0 /\ Range(p.sequences) = SequencesFor(r) /\ ~p.finished
        /\ p.committed + q.remaining = prompt_tokens[r] + p.decoded
        /\ \A s \in SequencesFor(r) : p.committed <= Blocks(tables, s) * TokensPerBlock
    BY <1>2, <1>4, <1>5 DEF Book, Underway
  <1>7. p.committed = prompt_tokens[r] + p.decoded
    BY <1>3, <1>6
  <1> QED BY <1>1, <1>2, <1>3, <1>4, <1>6, <1>7 DEF r, p, q, State

(* A step from "decode" onwards that changes no request and no plan. *)
LEMMA LateSteps ==
    ASSUME BaseInv, DriverInv, BaseInv', at' \in Places,
           at.phase \in {"decode", "reclaim", "write", "account", "resume", "close"},
           at'.phase \in {"decode", "reclaim", "write", "account", "resume", "close", "loop", "done"},
           trace' = trace, plan' = plan,
           \A x \in Requests : /\ request[x].state = "Unknown" => request'[x].state = "Unknown"
                               /\ request'[x].state \in Underway => request[x].state \in Underway
                               /\ progress[x].admitted => progress'[x].admitted
    PROVE  SeenInv' /\ PrefillAhead'
  <1>1. Unbegun(plan, at) = {} /\ Unexecuted(plan', at') = {}
    BY DEF Unbegun, Unexecuted
  <1>2. SeenInv'
    BY <1>1 DEF DriverInv, SeenInv, State, InTrace
  <1>3. PrefillAhead'
    BY <1>1 DEF DriverInv, PrefillAhead
  <1> QED BY <1>2, <1>3

LEMMA GrowKeeps ==
    ASSUME BaseInv, DriverInv, BaseInv', GrowBranch
    PROVE  DriverInv'
  <1> DEFINE r == Decoding
             p == progress[r]
             s == p.sequences[at.j]
             n == p.committed
             b == Blocks(tables, s)
  <1>1. /\ at.phase = "decode" /\ at \in Places /\ pc = "idle" /\ at.i \in Nat /\ at.i > 0
        /\ at.j \in Nat /\ at.j > 0 /\ at.j <= Len(p.sequences)
        /\ at.i <= Len(plan.decode) /\ r \notin preemption_info
        /\ UNCHANGED <<trace, progress, live, preempted_ids, next_fork_sequence, no_progress_steps>>
        /\ Structure /\ Structure'
    BY DriverFacts DEF GrowBranch, DriverInv, PhaseInv, Branches, BaseInv, CoreInv
  <1>2. /\ request' = request /\ preemption_info' = preemption_info /\ plan' = plan /\ pc' = pc
        /\ sequences_by_request' = sequences_by_request
    BY DEF GrowBranch, reserve_tokens, cacheVars, queueVars, callVars
  <1>3. /\ r \in Requests /\ State(r) = "Decode" /\ p.sequences \in Seq(SeqIds) /\ n \in Nat
        /\ Range(p.sequences) = SequencesFor(r)
        /\ \A t \in SequencesFor(r) : n <= Blocks(tables, t) * TokensPerBlock
    BY <1>1, DecodingBook
  <1>4. /\ at.j \in 1 .. Len(p.sequences) /\ s \in SeqIds /\ s \in SequencesFor(r) /\ b \in Nat
        /\ n <= b * TokensPerBlock
    <2>1. at.j \in 1 .. Len(p.sequences)
      BY <1>1, <1>3, InRange
    <2>2. s \in SeqIds /\ s \in SequencesFor(r)
      BY <1>3, <2>1, InRange
    <2> QED BY <1>1, <1>3, <2>1, <2>2, BlocksTyped
  <1>5. at.j + 1 \in Nat /\ n \div TokensPerBlock \in Nat
    <2>1. at.j + 1 \in Nat
      BY <1>1
    <2> HIDE DEF n, b
    <2>2. n \in Nat /\ b \in Nat
      BY <1>3, <1>4
    <2>3. n \div TokensPerBlock \in Nat
      BY ONLY <2>2, PlaceOfToken
    <2> QED BY <2>1, <2>3
  <1>6. \/ MovesTo("reclaim", at.i, 0) /\ UNCHANGED cacheVars
        \/ MovesTo("decode", at.i, at.j + 1) /\ n \div TokensPerBlock < b /\ UNCHANGED cacheVars
        \/ MovesTo("decode", at.i, at.j + 1) /\ reserve_tokens(s, 1)
    <2>1. HasBlock(Branches[at.j], Position) <=> n \div TokensPerBlock < b
      BY DEF HasBlock, Branches, Position, Blocks
    <2>2. at' = Goto("decode", at.i, at.j + 1) => MovesTo("decode", at.i, at.j + 1)
      BY <1>1, <1>5, Moved
    <2>3. at' = [Goto("reclaim", at.i, 0) EXCEPT !.growth_failed = TRUE] => MovesTo("reclaim", at.i, 0)
      BY <1>1, Moved
    <2>4. \/ at' = [Goto("reclaim", at.i, 0) EXCEPT !.growth_failed = TRUE] /\ UNCHANGED cacheVars
          \/ at' = Goto("decode", at.i, at.j + 1) /\ HasBlock(Branches[at.j], Position) /\ UNCHANGED cacheVars
          \/ at' = Goto("decode", at.i, at.j + 1) /\ reserve_tokens(Branches[at.j], 1)
      BY DEF GrowBranch
    <2> QED BY <2>1, <2>2, <2>3, <2>4 DEF Branches
  <1> HIDE DEF r, p, s, n, b
  <1>7. /\ \A t \in SeqIds : /\ Blocks(tables, t) <= Blocks(tables', t)
                             /\ Blocks(tables, t) \in Nat /\ Blocks(tables', t) \in Nat
        /\ reserve_tokens(s, 1) => Blocks(tables', s) = b + 1
    <2>1. \A t \in SeqIds : Blocks(tables, t) \in Nat /\ Blocks(tables', t) \in Nat
      <3>1. tables' \in [SeqIds -> [Tables -> Seq(Entry)]] /\ 1 \in Tables
        BY <1>1, ConfigFacts DEF Structure, TypeOK
      <3>2. \A t \in SeqIds : Blocks(tables', t) \in Nat
        BY <3>1, InRange DEF Blocks
      <3> QED BY <1>1, <3>2, BlocksTyped
    <2>2. CASE UNCHANGED cacheVars /\ ~reserve_tokens(s, 1)
      BY <2>1, <2>2 DEF cacheVars
    <2>3. CASE reserve_tokens(s, 1)
      <3>1. blocks_for(1) = 1
        BY BlocksMore
      <3>2. \A t \in SeqIds : Blocks(tables', t) = IF t = s THEN Blocks(tables, s) + 1 ELSE Blocks(tables, t)
        BY <1>1, <1>4, <2>3, <3>1, LengthsReserve
      <3> QED BY <1>4, <2>1, <3>2 DEF b
    <2> QED BY <1>6, <2>2, <2>3
  <1>8. ReplayTypeOK' /\ PhaseInv' /\ trace' \in Traces
    BY <1>1, <1>2, <1>5, <1>6, ReplayTyped DEF DriverInv, PhaseInv, MovesTo
  <1>9. BooksInv'
    <2>1. ASSUME NEW x \in Requests PROVE Undisturbed(x)
      <3>1. SequencesFor(x)' = SequencesFor(x)
        BY <1>2, ListsSame
      <3>2. SequencesFor(x) \subseteq SeqIds
        BY <1>1, ListedSequences DEF Structure, TypeOK
      <3> QED BY <1>2, <1>7, <3>1, <3>2 DEF Undisturbed
    <2> QED BY <1>1, <2>1, BooksKept
  <1>10. SeenInv' /\ PrefillAhead'
    BY <1>1, <1>2, <1>6, LateSteps DEF MovesTo
  <1>11. DecodeAhead'
    BY <1>1, <1>2, <1>6 DEF DriverInv, DecodeAhead, MovesTo, State
  <1>12. GrownInv'
    <2>1. CASE at'.phase = "reclaim"
      BY <2>1 DEF GrownInv
    <2>2. CASE MovesTo("decode", at.i, at.j + 1)
      <3>1. Grown(p, tables, at.j - 1)
        BY <1>1, <1>3 DEF DriverInv, GrownInv, r, p
      <3>2. n \div TokensPerBlock < Blocks(tables', s)
        <4>1. CASE n \div TokensPerBlock < b
          <5>1. b <= Blocks(tables', s) /\ Blocks(tables', s) \in Nat
            BY <1>4, <1>7 DEF b
          <5> QED BY <1>4, <1>5, <4>1, <5>1
        <4>2. CASE reserve_tokens(s, 1)
          <5>1. n \div TokensPerBlock < b + 1
            BY <1>3, <1>4, PlaceOfToken
          <5> QED BY <1>7, <4>2, <5>1
        <4> QED BY <1>6, <2>2, <4>1, <4>2 DEF MovesTo
      <3>3. ASSUME NEW k \in 1 .. Len(p.sequences), k <= at.j
            PROVE  p.committed \div TokensPerBlock < Blocks(tables', p.sequences[k])
        <4>1. CASE k = at.j
          BY <3>2, <4>1 DEF n, s
        <4>2. CASE k # at.j
          <5>1. k <= at.j - 1
            BY <1>1, <3>3, <4>2
          <5>2. p.committed \div TokensPerBlock < Blocks(tables, p.sequences[k])
            BY <3>1, <5>1 DEF Grown
          <5>3. p.sequences[k] \in SeqIds
            BY <1>3, InRange
          <5> DEFINE x == Blocks(tables, p.sequences[k])
                     y == Blocks(tables', p.sequences[k])
                     m == p.committed \div TokensPerBlock
          <5>4. x \in Nat /\ y \in Nat /\ x <= y /\ m < x /\ m \in Nat
            BY <1>5, <1>7, <5>2, <5>3 DEF n
          <5> HIDE DEF x, y, m
          <5>5. m < y
            BY <5>4
          <5> QED BY <5>5 DEF m, y
        <4> QED BY <4>1, <4>2
      <3>4. at'.j - 1 = at.j /\ at'.phase = "decode" /\ at'.i = at.i
        BY <1>1, <2>2 DEF MovesTo
      <3>5. Decoding' = r /\ progress'[r] = p
        BY <1>1, <1>2, <3>4 DEF Decoding, r, p
      <3>6. Grown(p, tables', at.j)
        BY <3>3 DEF Grown
      <3>7. Grown(progress'[Decoding'], tables', at'.j - 1)
        BY <3>4, <3>5, <3>6
      <3> QED BY <3>4, <3>7 DEF GrownInv, Grown
    <2> QED BY <1>6, <2>1, <2>2 DEF MovesTo
  <1>13. LiveInv' /\ ParkedInv'
    BY <1>1, <1>2, <1>6 DEF DriverInv, LiveInv, ParkedInv, MovesTo
  <1> QED BY <1>8, <1>9, <1>10, <1>11, <1>12, <1>13 DEF DriverInv

LEMMA ReclaimKeeps ==
    ASSUME BaseInv, DriverInv, BaseInv', reclaim_for_decode
    PROVE  DriverInv'
  <1> DEFINE v == live[Max(Victims)]
  <1>1. /\ at.phase = "reclaim" /\ at \in Places /\ pc = "idle" /\ at.i \in Nat /\ at.i > 0
        /\ Victims # {} /\ Park(v)
        /\ UNCHANGED <<callVars, trace, progress, live, preempted_ids, next_fork_sequence, no_progress_steps>>
        /\ Structure /\ QueueInv
    BY DriverFacts DEF reclaim_for_decode, DriverInv, PhaseInv
  <1>2. v \in Requests /\ v \in Range(active)
    <2>1. Victims \in SUBSET (1 .. Len(live)) /\ Len(live) \in Nat
      BY DriverFacts, InRange DEF Victims
    <2>2. Victims \in SUBSET Nat /\ \A x \in Victims : x <= Len(live)
      BY <2>1
    <2>3. Max(Victims) \in Victims
      BY <1>1, <2>1, <2>2, GreatestMember
    <2> QED BY <2>1, <2>3, DriverFacts DEF Victims
  <1>3. MovesTo("decode", at.i + 1, 1)
    <2>1. at.i + 1 \in Nat
      BY <1>1
    <2> DEFINE b == at.progress_made \/ Reclaimed(ref_count, ref_count')
    <2>2. b \in BOOLEAN /\ Goto("decode", at.i + 1, 1).progress_made = at.progress_made
      BY <1>1, <2>1, GotoPlace
    <2>3. at' = [Goto("decode", at.i + 1, 1) EXCEPT !.progress_made = b]
      BY <2>2 DEF reclaim_for_decode
    <2> HIDE DEF b
    <2> QED BY <1>1, <2>1, <2>2, <2>3, Moved
  <1> HIDE DEF v
  <1>4. plan' = plan /\ pc' = pc /\ preemption_info' = preemption_info \cup {v}
    BY <1>1 DEF callVars, Park
  <1>5. ASSUME NEW x \in Requests
        PROVE  Undisturbed(x) /\ request'[x].state = IF x = v THEN "Preempted" ELSE request[x].state
    BY <1>1, <1>2, PassedPark, PassedUndisturbed
  <1>6. request[v].state \in {"Prefill", "Decode"}
    BY <1>1, <1>2 DEF QueueInv, QueuesAgree, State
  <1>7. ReplayTypeOK' /\ PhaseInv' /\ trace' \in Traces
    BY <1>1, <1>3, <1>4, ReplayTyped DEF DriverInv, PhaseInv, MovesTo
  <1>8. BooksInv'
    BY <1>1, <1>5, BooksKept
  <1>9. SeenInv' /\ PrefillAhead'
    BY <1>1, <1>3, <1>4, <1>5, <1>6, LateSteps DEF MovesTo, Underway
  <1>10. DecodeAhead'
    <2>1. ASSUME NEW k \in 1 .. Len(plan.decode), k >= at.i + 1
          PROVE  request'[plan.decode[k]].state \in {"Decode", "Preempted"}
      <3>1. k >= at.i /\ plan.decode[k] \in Requests
        BY <1>1, <2>1, DriverFacts, InRange
      <3>2. request[plan.decode[k]].state \in {"Decode", "Preempted"}
        BY <1>1, <3>1 DEF DriverInv, DecodeAhead, State
      <3> QED BY <1>5, <3>1, <3>2
    <2> QED BY <1>3, <1>4, <2>1 DEF DecodeAhead, MovesTo, State
  <1>11. GrownInv'
    <2>1. at'.i > 0
      BY <1>1, <1>3 DEF MovesTo
    <2> QED BY <1>3, <1>7, <2>1, NothingGrown DEF MovesTo
  <1>12. LiveInv' /\ ParkedInv'
    BY <1>1, <1>3, <1>4 DEF DriverInv, LiveInv, ParkedInv, MovesTo
  <1> QED BY <1>7, <1>8, <1>9, <1>10, <1>11, <1>12 DEF DriverInv

LEMMA NextDecodeKeeps ==
    ASSUME BaseInv, DriverInv, BaseInv', NextDecode
    PROVE  DriverInv'
  <1>1. /\ at.phase = "decode" /\ at \in Places /\ pc = "idle" /\ at.i \in Nat /\ at.i > 0
        /\ at.j \in Nat /\ at.j > 0
        /\ UNCHANGED <<trace, progress, live, preempted_ids, next_fork_sequence, no_progress_steps>>
    BY DriverFacts DEF NextDecode, DriverInv, PhaseInv
  <1>2. /\ request' = request /\ sequences_by_request' = sequences_by_request /\ tables' = tables
        /\ preemption_info' = preemption_info /\ plan' = plan /\ pc' = pc
    BY DEF NextDecode, vars, cacheVars, queueVars, callVars
  <1>3. \/ MovesTo("account", 0, 0)
        \/ MovesTo("decode", at.i + 1, 1)
        \/ /\ MovesTo("write", at.i, 1) /\ at.i <= Len(plan.decode) /\ Decoding \notin preemption_info
           /\ at.j > Len(Branches)
    <2>1. at.i + 1 \in Nat
      BY <1>1
    <2>2. /\ at' = Goto("account", 0, 0) => MovesTo("account", 0, 0)
          /\ at' = Goto("decode", at.i + 1, 1) => MovesTo("decode", at.i + 1, 1)
          /\ at' = Goto("write", at.i, 1) => MovesTo("write", at.i, 1)
      BY <1>1, <2>1, Moved
    <2> QED BY <2>2 DEF NextDecode
  <1>4. ReplayTypeOK' /\ PhaseInv' /\ trace' \in Traces
    BY <1>1, <1>2, <1>3, ReplayTyped DEF DriverInv, PhaseInv, MovesTo
  <1>5. BooksInv'
    BY <1>1, <1>2, BooksQuiet
  <1>6. SeenInv' /\ PrefillAhead'
    BY <1>1, <1>2, <1>3, LateSteps DEF MovesTo
  <1>7. DecodeAhead' /\ GrownInv'
    <2>1. CASE MovesTo("account", 0, 0)
      BY <2>1 DEF MovesTo, DecodeAhead, GrownInv
    <2>2. CASE MovesTo("decode", at.i + 1, 1)
      <3>1. ASSUME NEW k \in 1 .. Len(plan.decode), k >= at.i + 1
            PROVE  State(plan.decode[k]) \in {"Decode", "Preempted"}
        <4>1. k >= at.i
          BY <1>1, <3>1
        <4> QED BY <1>1, <4>1 DEF DriverInv, DecodeAhead
      <3>2. DecodeAhead'
        BY <1>2, <2>2, <3>1 DEF MovesTo, DecodeAhead, State
      <3>3. at'.i > 0
        BY <1>1, <2>2 DEF MovesTo
      <3> QED BY <1>4, <2>2, <3>2, <3>3, NothingGrown DEF MovesTo
    <2>3. CASE /\ MovesTo("write", at.i, 1) /\ at.i <= Len(plan.decode) /\ Decoding \notin preemption_info
               /\ at.j > Len(Branches)
      <3> DEFINE r == Decoding
                 p == progress[r]
      <3>1. r \in Requests /\ State(r) = "Decode" /\ p.sequences \in Seq(SeqIds)
        BY <1>1, <2>3, DecodingBook
      <3>2. Grown(p, tables, at.j - 1)
        BY <1>1, <2>3, <3>1 DEF DriverInv, GrownInv
      <3>3. Decoding' = r /\ progress'[r] = p
        BY <1>1, <1>2, <2>3 DEF Decoding, MovesTo
      <3>4. at.j > Len(p.sequences)
        BY <2>3 DEF Branches
      <3> HIDE DEF r, p
      <3>5. Grown(p, tables, Len(p.sequences))
        <4>1. Len(p.sequences) \in Nat
          BY <3>1, InRange
        <4>2. Len(p.sequences) <= at.j - 1
          BY <1>1, <3>4, <4>1
        <4>3. \A k \in 1 .. Len(p.sequences) : k <= at.j - 1
          BY <1>1, <4>1, <4>2
        <4> QED BY <3>2, <4>3 DEF Grown
      <3>6. Grown(progress'[Decoding'], tables', Len(progress'[Decoding'].sequences))
        BY <1>2, <3>3, <3>5
      <3>7. GrownInv'
        BY <2>3, <3>6 DEF GrownInv, Grown, MovesTo
      <3>8. DecodeAhead'
        <4>1. State(Decoding)' = "Decode"
          BY <1>2, <3>1, <3>3 DEF State
        <4> QED BY <1>1, <1>2, <2>3, <4>1 DEF DriverInv, DecodeAhead, MovesTo, State
      <3> QED BY <3>7, <3>8
    <2> QED BY <1>3, <2>1, <2>2, <2>3
  <1>8. LiveInv' /\ ParkedInv'
    BY <1>1, <1>2, <1>3 DEF DriverInv, LiveInv, ParkedInv, MovesTo
  <1> QED BY <1>4, <1>5, <1>6, <1>7, <1>8 DEF DriverInv

LEMMA WriteStepKeeps ==
    ASSUME BaseInv, DriverInv, BaseInv', WriteBranch
    PROVE  DriverInv'
  <1> DEFINE r == Decoding
             p == progress[r]
  <1>1. /\ at.phase = "write" /\ at \in Places /\ pc = "idle" /\ at.i \in Nat /\ at.i <= Len(plan.decode)
        /\ at.j \in Nat /\ at.j > 0 /\ at.j <= Len(p.sequences)
        /\ touch_position(p.sequences[at.j], Position)
        /\ UNCHANGED <<trace, progress, live, preempted_ids, next_fork_sequence, no_progress_steps>>
        /\ Structure
    BY DriverFacts DEF WriteBranch, DriverInv, PhaseInv, Branches
  <1>2. r \in Requests /\ State(r) = "Decode" /\ p.sequences \in Seq(SeqIds)
    BY <1>1, DecodingBook
  <1>3. /\ request' = request /\ sequences_by_request' = sequences_by_request
        /\ preemption_info' = preemption_info /\ plan' = plan /\ pc' = pc
        /\ \A t \in SeqIds : Blocks(tables', t) = Blocks(tables, t)
    <2>1. at.j \in 1 .. Len(p.sequences)
      BY <1>1, <1>2, InRange
    <2>2. p.sequences[at.j] \in SeqIds
      BY <1>2, <2>1, InRange
    <2> QED BY <1>1, <2>2, TouchQuiet
  <1>4. at' \in Places /\ at'.phase = at.phase /\ at'.i = at.i /\ at'.j = at.j + 1 /\ at.j + 1 \in Nat
    <2>1. at.j + 1 \in Nat
      BY <1>1
    <2>2. MovesTo("write", at.i, at.j + 1)
      BY <1>1, <2>1, Moved DEF WriteBranch
    <2> QED BY <1>1, <2>1, <2>2 DEF MovesTo
  <1>5. ReplayTypeOK' /\ PhaseInv' /\ trace' \in Traces
    BY <1>1, <1>3, <1>4, ReplayTyped DEF DriverInv, PhaseInv
  <1>6. BooksInv'
    BY <1>1, <1>3, BooksQuiet
  <1>7. SeenInv' /\ PrefillAhead'
    BY <1>1, <1>3, <1>4, LateSteps
  <1>8. DecodeAhead'
    BY <1>1, <1>3, <1>4 DEF DriverInv, DecodeAhead, State, Decoding
  <1>9. GrownInv'
    <2>1. Grown(p, tables, Len(p.sequences))
      BY <1>1 DEF DriverInv, GrownInv
    <2>2. Decoding' = r /\ progress'[r] = p
      BY <1>1, <1>3, <1>4 DEF Decoding
    <2>3. \A k \in 1 .. Len(p.sequences) : p.sequences[k] \in SeqIds
      BY <1>2, InRange
    <2> HIDE DEF r, p
    <2>4. Grown(p, tables', Len(p.sequences))
      BY <1>3, <2>1, <2>3 DEF Grown
    <2>5. Grown(progress'[Decoding'], tables', Len(progress'[Decoding'].sequences))
      BY <2>2, <2>4
    <2> QED BY <1>1, <1>4, <2>5 DEF GrownInv, Grown
  <1>10. LiveInv' /\ ParkedInv'
    BY <1>1, <1>3, <1>4 DEF DriverInv, LiveInv, ParkedInv
  <1> QED BY <1>5, <1>6, <1>7, <1>8, <1>9, <1>10 DEF DriverInv

(* The token of the request was written: it is counted, and the request may   *)
(* be finished.                                                               *)
LEMMA CommitKeeps ==
    ASSUME BaseInv, DriverInv, BaseInv', CommitToken
    PROVE  DriverInv'
  <1>a. /\ at.phase = "write" /\ Decoding \in Requests /\ at.i > 0 /\ at.i <= Len(plan.decode) /\ at.i \in Nat
    <2>1. at.phase = "write" /\ at.i > 0 /\ at.i <= Len(plan.decode) /\ at.i \in Nat
      BY DriverFacts DEF CommitToken, DriverInv, PhaseInv
    <2> QED BY <2>1, DecodingBook
  <1>b. PICK r \in Requests : r = Decoding
    BY <1>a
  <1> DEFINE p == progress[r]
             v == progress'[r]
             S == SequencesFor(r)
             last == progress[Decoding].decoded + 1 >= trace.decode_actual[Decoding]
  <1>1. /\ at.phase = "write" /\ at \in Places /\ pc = "idle" /\ at.i \in Nat /\ at.i > 0
        /\ at.i <= Len(plan.decode)
        /\ UNCHANGED <<trace, live, preempted_ids, next_fork_sequence, no_progress_steps>>
        /\ progress \in [Requests -> ProgressRecord] /\ Structure /\ Structure' /\ QueuesAgree
        /\ request \in Requested
    BY DriverFacts DEF CommitToken, DriverInv, PhaseInv, BaseInv, CoreInv
  <1>2. /\ at.i \in 1 .. Len(plan.decode) /\ r \in Requests /\ r = plan.decode[at.i] /\ State(r) = "Decode"
        /\ p \in ProgressRecord /\ p.admitted /\ ~p.finished /\ request[r].remaining = 0
        /\ Range(p.sequences) = S /\ p.sequences \in Seq(SeqIds) /\ p.committed \in Nat
        /\ p.committed = prompt_tokens[r] + p.decoded
        /\ \A s \in S : p.committed <= Blocks(tables, s) * TokensPerBlock
    BY <1>1, <1>b, DecodingBook
  <1>3. /\ progress' = [progress EXCEPT ![r] = [progress[r] EXCEPT
                !.committed = @ + 1, !.decoded = @ + 1, !.finished = last,
                !.sequences = IF last THEN <<>> ELSE @]]
        /\ \/ last /\ cancel(r)
           \/ ~last /\ UNCHANGED vars
        /\ at' = [Goto("decode", at.i + 1, 1) EXCEPT !.progress_made = TRUE]
    BY <1>b DEF CommitToken
  <1>4. MovesTo("decode", at.i + 1, 1)
    <2>1. at.i + 1 \in Nat
      BY <1>1
    <2> QED BY <1>1, <1>3, <2>1, Moved
  <1>5. /\ p.decoded \in Nat /\ prompt_tokens[r] \in Nat /\ last \in BOOLEAN
    BY <1>2, ReplayConstants DEF ProgressRecord
  <1>6. v = [p EXCEPT !.committed = p.committed + 1, !.decoded = p.decoded + 1, !.finished = last,
                      !.sequences = IF last THEN <<>> ELSE p.sequences]
    BY <1>1, <1>2, <1>3
  <1>7. \A x \in Requests : x # r => progress'[x] = progress[x]
    BY <1>1, <1>3
  <1> HIDE DEF p, v, S, last
  <1>8. /\ v \in ProgressRecord /\ v.admitted = p.admitted /\ v.finished = last
        /\ v.committed = p.committed + 1 /\ v.decoded = p.decoded + 1
        /\ v.sequences = IF last THEN <<>> ELSE p.sequences
    <2> DEFINE e == IF last THEN <<>> ELSE p.sequences
    <2>1. p.committed + 1 \in Nat /\ p.decoded + 1 \in Nat /\ e \in Seq(SeqIds)
      BY <1>2, <1>5
    <2>2. v = [p EXCEPT !.committed = p.committed + 1, !.decoded = p.decoded + 1, !.finished = last,
                        !.sequences = e]
      BY <1>6
    <2> HIDE DEF e
    <2>3. /\ v \in ProgressRecord /\ v.admitted = p.admitted /\ v.finished = last
          /\ v.committed = p.committed + 1 /\ v.decoded = p.decoded + 1 /\ v.sequences = e
      BY ONLY <1>2, <1>5, <2>1, <2>2 DEF ProgressRecord
    <2> QED BY <2>3 DEF e
  <1>9. \A x \in Requests : x # r => Passed(x)
    <2>1. CASE UNCHANGED vars
      BY <2>1, PassedQuiet DEF vars, cacheVars, queueVars
    <2>2. CASE cancel(r)
      <3>1. release_request(r) /\ request' = [request EXCEPT ![r] = NoRequestState]
        BY <2>2 DEF cancel
      <3>2. ASSUME NEW x \in Requests, x # r PROVE Passed(x)
        <4>1. SequencesFor(x)' = SequencesFor(x)
          BY <1>1, <1>2, <3>1, <3>2, ListsRelease
        <4>2. \A s \in SequencesFor(x) : s \in SeqIds /\ s \notin SequencesFor(r)
          BY <1>1, <1>2, <3>2, ListsApart, ListedSequences DEF Structure, TypeOK
        <4>3. \A s \in SeqIds : s \notin SequencesFor(r) => tables'[s] = tables[s]
          BY <3>1, LengthsRelease DEF release_request
        <4>4. request'[x] = request[x]
          BY <1>1, <3>1, <3>2 DEF Requested
        <4> QED BY <4>1, <4>2, <4>3, <4>4 DEF Passed, Blocks
      <3> QED BY <3>2
    <2> QED BY <1>3, <2>1, <2>2
  <1>10. last => request'[r].state = "Unknown" /\ request'[r].remaining = 0
    BY <1>1, <1>2, <1>3 DEF cancel, Requested, NoRequestState
  <1>11. ~last => request' = request /\ tables' = tables /\ sequences_by_request' = sequences_by_request
    BY <1>3 DEF vars, cacheVars, queueVars
  <1>12. \A x \in Requests : x # r => request'[x].state \in {request[x].state, "Preempted"}
                                      /\ (request'[x].state \in Underway => request[x].state \in Underway)
                                      /\ (request[x].state = "Unknown" => request'[x].state = "Unknown")
    BY <1>9 DEF Passed, Underway
  <1>13. preemption_info' = preemption_info /\ plan' = plan /\ pc' = pc
    <2>1. r \notin preemption_info
      BY <1>1, <1>2 DEF QueuesAgree
    <2>2. CASE cancel(r)
      BY <2>1, <2>2 DEF cancel, InfoWithout, callVars
    <2>3. CASE UNCHANGED vars
      BY <2>3 DEF vars, queueVars, callVars
    <2> QED BY <1>3, <2>2, <2>3
  <1>14. ReplayTypeOK' /\ PhaseInv' /\ trace' \in Traces
    <2>1. progress' \in [Requests -> ProgressRecord]
      <3>1. progress' = [x \in Requests |-> progress'[x]]
        BY <1>1, <1>3
      <3>2. \A x \in Requests : progress'[x] \in ProgressRecord
        BY <1>1, <1>7, <1>8 DEF v
      <3> QED BY <3>1, <3>2
    <2> QED BY <1>1, <1>4, <1>13, <2>1, ReplayTyped DEF DriverInv, PhaseInv, MovesTo
  <1>15. Book(r, v, request'[r], SequencesFor(r)', tables')
    <2>1. CASE last
      <3> DEFINE q == request'[r]
                 V == SequencesFor(r)'
      <3>1. q.state = "Unknown" /\ v.finished /\ v.admitted /\ v.sequences = <<>>
        BY <1>2, <1>8, <1>10, <2>1
      <3> HIDE DEF q, V
      <3>2. Book(r, v, q, V, tables')
        BY <3>1 DEF Book, Underway
      <3> QED BY <3>2 DEF q, V
    <2>2. CASE ~last
      <3> DEFINE q == request[r]
      <3>1. q.state = "Decode" /\ q.remaining = 0
        BY <1>2 DEF State
      <3>2. Book(r, p, q, S, tables)
        BY <1>2, BooksBridge DEF DriverInv, p, S
      <3>3. v.admitted /\ ~v.finished /\ v.sequences = p.sequences
        BY <1>2, <1>8, <2>2
      <3>4. v.committed + q.remaining = prompt_tokens[r] + v.decoded
        BY <1>2, <1>5, <1>8, <3>1
      <3>5. ASSUME NEW s \in S PROVE v.committed <= Blocks(tables, s) * TokensPerBlock
        <4>1. PICK k \in 1 .. Len(p.sequences) : p.sequences[k] = s
          BY <1>2, <3>5, InRange
        <4>2. Grown(p, tables, Len(p.sequences))
          BY <1>1, <1>b DEF DriverInv, GrownInv, p
        <4>3. k <= Len(p.sequences) /\ s \in SeqIds
          BY <1>2, <4>1, InRange
        <4>4. p.committed \div TokensPerBlock < Blocks(tables, s)
          BY <4>1, <4>2, <4>3 DEF Grown
        <4> DEFINE n == p.committed
                   b == Blocks(tables, s)
        <4>5. n \in Nat /\ b \in Nat /\ n \div TokensPerBlock < b
          BY <1>1, <1>2, <4>3, <4>4, BlocksTyped
        <4> HIDE DEF n, b
        <4>6. n + 1 <= b * TokensPerBlock
          BY ONLY <4>5, PlaceOfToken
        <4> QED BY <1>8, <4>6 DEF n, b
      <3>6. \A s \in S : prompt_tokens[r] <= Blocks(tables, s) * TokensPerBlock
        BY <3>1, <3>2 DEF Book, Underway
      <3> HIDE DEF q
      <3>7. Book(r, v, q, S, tables)
        BY <1>2, <3>1, <3>3, <3>4, <3>5, <3>6 DEF Book, Underway
      <3>8. SequencesFor(r)' = SequencesFor(r)
        BY <1>11, <2>2 DEF SequencesFor
      <3>9. SequencesFor(r)' = S
        BY <3>8 DEF S
      <3> QED BY <1>11, <2>2, <3>7, <3>9 DEF q
    <2> QED BY <2>1, <2>2
  <1>16. BooksInv'
    <2>1. ASSUME NEW x \in Requests, x # r
          PROVE  Book(x, progress'[x], request'[x], SequencesFor(x)', tables')
      <3>1. Book(x, progress[x], request[x], SequencesFor(x), tables) /\ progress[x] \in ProgressRecord
        BY <1>1, BooksBridge DEF DriverInv
      <3> QED BY <1>1, <1>7, <1>9, <2>1, <3>1, PassedUndisturbed, BookKept
    <2>2. ASSUME NEW x \in Requests
          PROVE  Book(x, progress'[x], request'[x], SequencesFor(x)', tables')
      <3>1. CASE x = r
        <4>1. v = progress'[x] /\ SequencesFor(x)' = SequencesFor(r)' /\ request'[x] = request'[r]
          BY <3>1 DEF v
        <4> QED BY <1>15, <3>1, <4>1
      <3> QED BY <2>1, <3>1
    <2> QED BY <2>2, BooksBridge
  <1>17. SeenInv' /\ PrefillAhead'
    <2>1. \A x \in Requests : /\ request[x].state = "Unknown" => request'[x].state = "Unknown"
                              /\ request'[x].state \in Underway => request[x].state \in Underway
                              /\ progress[x].admitted => progress'[x].admitted
      <3>1. ASSUME NEW x \in Requests
            PROVE  /\ request[x].state = "Unknown" => request'[x].state = "Unknown"
                   /\ request'[x].state \in Underway => request[x].state \in Underway
                   /\ progress[x].admitted => progress'[x].admitted
        <4>1. CASE x = r
          BY <1>2, <1>8, <4>1 DEF State, Underway, v, p
        <4>2. CASE x # r
          BY <1>7, <1>12, <4>2
        <4> QED BY <4>1, <4>2
      <3> QED BY <3>1
    <2> QED BY <1>1, <1>4, <1>13, <2>1, LateSteps DEF MovesTo
  <1>18. DecodeAhead'
    <2>1. ASSUME NEW k \in 1 .. Len(plan.decode), k >= at.i + 1
          PROVE  request'[plan.decode[k]].state \in {"Decode", "Preempted"}
      <3>1. plan.decode \in Seq(Requests) /\ IsInjective(plan.decode)
        BY <1>1, DriverFacts DEF DriverInv, PrefillAhead
      <3>2. k >= at.i /\ k # at.i
        BY <1>1, <2>1
      <3>3. plan.decode[k] # r /\ plan.decode[k] \in Requests
        BY <1>2, <2>1, <3>1, <3>2, InRange
      <3>4. request[plan.decode[k]].state \in {"Decode", "Preempted"}
        BY <1>1, <3>2 DEF DriverInv, DecodeAhead, State
      <3> QED BY <1>12, <3>3, <3>4
    <2> QED BY <1>4, <1>13, <2>1 DEF DecodeAhead, MovesTo, State
  <1>19. GrownInv'
    <2>1. at'.i > 0
      BY <1>1, <1>4 DEF MovesTo
    <2> QED BY <1>4, <1>14, <2>1, NothingGrown DEF MovesTo
  <1>20. LiveInv'
    <2>1. ASSUME NEW x \in Requests
          PROVE  /\ x \in Range(live') => progress'[x].admitted
                 /\ progress'[x].admitted /\ ~progress'[x].finished => x \in Range(live')
      <3>1. CASE x = r
        <4>1. r \in Range(live)
          BY <1>2 DEF DriverInv, LiveInv, p
        <4> QED BY <1>1, <1>2, <1>8, <3>1, <4>1 DEF v
      <3>2. CASE x # r
        BY <1>1, <1>7, <3>2 DEF DriverInv, LiveInv
      <3> QED BY <3>1, <3>2
    <2> QED BY <1>1, <1>4, <2>1 DEF DriverInv, LiveInv, MovesTo
  <1>21. ParkedInv'
    BY <1>1, <1>4, <1>13 DEF DriverInv, ParkedInv, MovesTo
  <1> QED BY <1>14, <1>16, <1>17, <1>18, <1>19, <1>20, <1>21 DEF DriverInv

(* From "account" on, a parked request was admitted and is in live. *)
LEMMA ParkedLive ==
    ASSUME BaseInv, DriverInv, at.phase = "account"
    PROVE  preemption_info \subseteq Requests /\ KnownParked = preemption_info
  <1>1. QueuesAgree /\ preempted \in Seq(Requests) /\ request \in Requested
    BY Typed DEF BaseInv, CoreInv, QueueInv, Requested
  <1>2. preemption_info \subseteq Requests /\ \A r \in preemption_info : State(r) = "Preempted"
    BY <1>1, InRange DEF QueuesAgree
  <1>3. Unbegun(plan, at) = {}
    BY DEF Unbegun
  <1>4. ASSUME NEW r \in preemption_info PROVE r \in Range(live) /\ ~progress[r].finished
    <2>1. r \in Requests /\ State(r) = "Preempted"
      BY <1>2
    <2>2. progress[r].admitted
      BY <1>3, <2>1 DEF DriverInv, SeenInv, Underway
    <2>3. ~progress[r].finished
      <3>1. Book(r, progress[r], request[r], SequencesFor(r), tables)
        BY <2>1, BooksBridge DEF DriverInv
      <3> QED BY <2>1, <3>1 DEF Book, State
    <2> QED BY <2>1, <2>2, <2>3 DEF DriverInv, LiveInv
  <1>5. preempted_ids \subseteq preemption_info
    BY DEF DriverInv, ParkedInv
  <1> QED BY <1>2, <1>4, <1>5 DEF KnownParked

LEMMA AccountKeeps ==
    ASSUME BaseInv, DriverInv, BaseInv', AccountStep
    PROVE  DriverInv'
  <1>1. /\ at.phase = "account" /\ at \in Places /\ pc = "idle"
        /\ UNCHANGED <<trace, progress, live, next_fork_sequence, no_progress_steps>>
    BY DriverFacts DEF AccountStep, DriverInv, PhaseInv
  <1>2. /\ preemption_info \subseteq Requests /\ preempted_ids' = preemption_info
    BY <1>1, ParkedLive DEF AccountStep
  <1>3. /\ request' = request /\ tables' = tables /\ sequences_by_request' = sequences_by_request
        /\ preemption_info' = preemption_info /\ plan' = plan /\ pc' = pc
    BY DEF AccountStep, vars, cacheVars, queueVars, callVars
  <1>4. MovesTo("close", 1, 0) \/ MovesTo("resume", 1, 0)
    <2>1. at' = Goto("close", 1, 0) \/ at' = Goto("resume", 1, 0)
      BY DEF AccountStep
    <2> QED BY <1>1, <2>1, Moved
  <1>5. ReplayTypeOK' /\ PhaseInv' /\ trace' \in Traces
    BY <1>1, <1>2, <1>3, <1>4, ReplayTyped DEF DriverInv, PhaseInv, MovesTo
  <1>6. BooksInv'
    BY <1>1, <1>3, BooksQuiet
  <1>7. SeenInv' /\ PrefillAhead'
    BY <1>1, <1>3, <1>4, LateSteps DEF MovesTo
  <1>8. DecodeAhead' /\ GrownInv'
    BY <1>4 DEF DecodeAhead, GrownInv, MovesTo
  <1>9. LiveInv' /\ ParkedInv'
    BY <1>1, <1>2, <1>3, <1>4 DEF DriverInv, LiveInv, ParkedInv, MovesTo
  <1> QED BY <1>5, <1>6, <1>7, <1>8, <1>9 DEF DriverInv

(* A parked request that is resumed keeps its sequences and its books. *)
LEMMA ResumedUndisturbed ==
    ASSUME BaseInv, DriverInv, NEW r \in Requests, resume(r), NEW x \in Requests
    PROVE  /\ Undisturbed(x)
           /\ x # r => request'[x] = request[x]
           /\ request[r].state = "Preempted" /\ request'[r].state \in Underway
           /\ plan' = plan /\ pc' = pc /\ preemption_info' = preemption_info \ {r}
  <1>1. /\ Structure /\ QueuesAgree /\ request \in Requested
        /\ swap_in(SequencesFor(r)) /\ r \in Range(preempted)
    BY DriverFacts DEF resume, SwapBack, swap_in_request
  <1>2. request' = [request EXCEPT ![r].state = IF request[r].remaining > 0 THEN "Prefill" ELSE "Decode"]
    BY DEF resume
  <1>3. request[r].state = "Preempted" /\ request[r].remaining \in Nat
    BY <1>1 DEF QueuesAgree, State, Requested, RequestRecord
  <1>4. /\ x # r => request'[x] = request[x]
        /\ request'[r].remaining = request[r].remaining
        /\ request'[r].state = IF request[r].remaining > 0 THEN "Prefill" ELSE "Decode"
    BY <1>1, <1>2 DEF Requested, RequestRecord
  <1>5. SequencesFor(x)' = SequencesFor(x)
    BY <1>1, ListsSame DEF swap_in
  <1>6. SequencesFor(x) \subseteq SeqIds
    BY <1>1, ListedSequences DEF Structure, TypeOK
  <1>7. \A s \in SequencesFor(x) : Blocks(tables, s) <= Blocks(tables', s)
    BY <1>1, <1>6, LengthsSwapIn, BlocksTyped
  <1>8. Undisturbed(x)
    <2>1. CASE x = r
      BY <1>3, <1>4, <1>5, <1>7, <2>1 DEF Undisturbed, Underway
    <2>2. CASE x # r
      BY <1>4, <1>5, <1>7, <2>2 DEF Undisturbed
    <2> QED BY <2>1, <2>2
  <1> QED BY <1>3, <1>4, <1>8 DEF Underway, resume, InfoWithout, callVars

LEMMA ResumeKeeps ==
    ASSUME BaseInv, DriverInv, BaseInv', ResumeNext
    PROVE  DriverInv'
  <1>1. /\ at.phase = "resume" /\ at \in Places /\ pc = "idle" /\ at.i \in Nat /\ at.i > 0
        /\ UNCHANGED <<trace, progress, live, next_fork_sequence, no_progress_steps>>
        /\ preempted_ids \subseteq Requests /\ preempted_ids = preemption_info
    BY DriverFacts, ReplayTyped DEF ResumeNext, DriverInv, PhaseInv, ParkedInv
  <1>2. MovesTo("close", 0, 0) \/ MovesTo("resume", at.i + 1, 0)
    <2>1. at' = Goto("close", 0, 0) \/ at' = Goto("resume", at.i + 1, 0)
      BY DEF ResumeNext
    <2>2. at.i + 1 \in Nat
      BY <1>1
    <2> QED BY <1>1, <2>1, <2>2, Moved
  <1>3. /\ \A x \in Requests :
              /\ Undisturbed(x)
              /\ request[x].state = "Unknown" => request'[x].state = "Unknown"
              /\ request'[x].state \in Underway => request[x].state \in Underway
        /\ plan' = plan /\ pc' = pc
        /\ preempted_ids' \subseteq preempted_ids /\ preempted_ids' = preemption_info'
    <2>1. CASE UNCHANGED <<vars, preempted_ids>>
      <3>1. /\ request' = request /\ tables' = tables /\ sequences_by_request' = sequences_by_request
            /\ preemption_info' = preemption_info /\ plan' = plan /\ pc' = pc /\ preempted_ids' = preempted_ids
        BY <2>1 DEF vars, cacheVars, queueVars, callVars
      <3>2. \A x \in Requests : Undisturbed(x)
        BY <3>1, DriverFacts, QuietUndisturbed
      <3> QED BY <1>1, <3>1, <3>2
    <2>2. CASE at.i <= Len(live) /\ resume(live[at.i]) /\ preempted_ids' = preempted_ids \ {live[at.i]}
      <3>1. at.i \in 1 .. Len(live)
        BY <1>1, <2>2, DriverFacts
      <3>2. PICK r \in Requests : r = live[at.i]
        BY <3>1, DriverFacts
      <3>3. resume(r) /\ preempted_ids' = preempted_ids \ {r}
        BY <2>2, <3>2
      <3> QED BY <1>1, <3>3, ResumedUndisturbed DEF Underway
    <2> QED BY <2>1, <2>2 DEF ResumeNext
  <1>4. ReplayTypeOK' /\ PhaseInv' /\ trace' \in Traces
    BY <1>1, <1>2, <1>3, ReplayTyped DEF DriverInv, PhaseInv, MovesTo
  <1>5. BooksInv'
    BY <1>1, <1>3, BooksKept
  <1>6. SeenInv' /\ PrefillAhead'
    BY <1>1, <1>2, <1>3, LateSteps DEF MovesTo
  <1>7. DecodeAhead' /\ GrownInv'
    BY <1>2 DEF DecodeAhead, GrownInv, MovesTo
  <1>8. LiveInv' /\ ParkedInv'
    BY <1>1, <1>2, <1>3 DEF DriverInv, LiveInv, ParkedInv, MovesTo
  <1> QED BY <1>4, <1>5, <1>6, <1>7, <1>8 DEF DriverInv

(* The requests that finished leave live. *)
LEMMA CloseKeeps ==
    ASSUME BaseInv, DriverInv, BaseInv', CloseStep
    PROVE  DriverInv'
  <1> DEFINE running == {r \in Requests : ~progress[r].finished}
  <1>1. /\ at.phase = "close" /\ at \in Places /\ pc = "idle" /\ live \in Seq(Requests)
        /\ UNCHANGED <<trace, progress, preempted_ids, next_fork_sequence>>
        /\ no_progress_steps \in Nat /\ no_progress_steps <= 1 /\ at.progress_made \in BOOLEAN
        /\ preempted_ids = preemption_info
    BY DriverFacts, ReplayTyped DEF CloseStep, DriverInv, PhaseInv, ParkedInv, Places
  <1>2. /\ request' = request /\ tables' = tables /\ sequences_by_request' = sequences_by_request
        /\ preemption_info' = preemption_info /\ plan' = plan /\ pc' = pc
    BY DEF CloseStep, vars, cacheVars, queueVars, callVars
  <1>3. \/ Stalled /\ MovesTo("done", 0, 0)
        \/ ~Stalled /\ MovesTo("loop", 0, 0)
    <2>1. \/ Stalled /\ at' = Goto("done", 0, 0)
          \/ ~Stalled /\ at' = Goto("loop", 0, 0)
      BY DEF CloseStep
    <2> QED BY <1>1, <2>1, Moved
  <1>4. /\ no_progress_steps' \in 0 .. 2
        /\ ~Stalled => no_progress_steps' <= 1
    <2>1. no_progress_steps' = IF at.progress_made THEN 0 ELSE no_progress_steps + 1
      BY DEF CloseStep
    <2> QED BY <1>1, <2>1 DEF Stalled
  <1>5. /\ live' \in Seq(Requests) /\ Range(live') = Range(live) \cap running
        /\ IsInjective(live')
    <2>1. IsInjective(live) /\ live' = Kept(live, running)
      BY DEF DriverInv, LiveInv, CloseStep
    <2> HIDE DEF running
    <2> QED BY <1>1, <2>1, KeptProperties
  <1>6. ReplayTypeOK' /\ PhaseInv' /\ trace' \in Traces
    BY <1>1, <1>2, <1>3, <1>4, <1>5, ReplayTyped DEF DriverInv, PhaseInv, MovesTo
  <1>7. BooksInv'
    BY <1>1, <1>2, BooksQuiet
  <1>8. SeenInv' /\ PrefillAhead'
    BY <1>1, <1>2, <1>3, LateSteps DEF MovesTo
  <1>9. DecodeAhead' /\ GrownInv'
    BY <1>3 DEF DecodeAhead, GrownInv, MovesTo
  <1>10. LiveInv' /\ ParkedInv'
    BY <1>1, <1>2, <1>3, <1>5 DEF DriverInv, LiveInv, ParkedInv, MovesTo
  <1> QED BY <1>6, <1>7, <1>8, <1>9, <1>10 DEF DriverInv

LEMMA IdleKeeps ==
    ASSUME DriverInv, UNCHANGED replayVars
    PROVE  DriverInv'
  <1>1. /\ request' = request /\ tables' = tables /\ sequences_by_request' = sequences_by_request
        /\ preemption_info' = preemption_info /\ plan' = plan /\ pc' = pc
        /\ UNCHANGED <<trace, progress, live, preempted_ids, next_fork_sequence, no_progress_steps, at>>
    BY DEF replayVars, driverVars, vars, cacheVars, queueVars, callVars
  <1>2. ReplayTypeOK' /\ PhaseInv' /\ trace' \in Traces
    BY <1>1, ReplayTyped DEF DriverInv, PhaseInv
  <1>3. BooksInv'
    <2>1. \A r \in Requests : SequencesFor(r)' = SequencesFor(r)
      BY <1>1, ListsSame
    <2> QED BY <1>1, <2>1, BooksBridge DEF DriverInv
  <1>4. SeenInv' /\ PrefillAhead'
    BY <1>1, SMTT(30) DEF DriverInv, SeenInv, PrefillAhead, State, Prefilled, InTrace, Unbegun, Unexecuted
  <1>5. DecodeAhead' /\ GrownInv'
    BY <1>1 DEF DriverInv, DecodeAhead, GrownInv, Grown, State, Decoding, Blocks
  <1>6. LiveInv' /\ ParkedInv'
    BY <1>1 DEF DriverInv, LiveInv, ParkedInv
  <1> QED BY <1>2, <1>3, <1>4, <1>5, <1>6 DEF DriverInv

LEMMA ReplayKeeps ==
    ASSUME Prompted, BaseInv, DriverInv, [ReplayNext]_replayVars
    PROVE  BaseInv' /\ DriverInv' /\ [Next]_cacheVars
  <1>1. BaseInv' /\ [Next]_cacheVars
    BY ReplayBase
  <1>2. CASE StartStep
    BY <1>1, <1>2, StartKeeps
  <1>3. CASE PlanStep
    BY <1>1, <1>3, PlanKeeps
  <1>4. CASE BeginPrefill
    BY <1>1, <1>4, BeginKeeps
  <1>5. CASE PrefillChunk
    BY <1>1, <1>5, TouchKeeps, ChunkKeeps
  <1>6. CASE PublishPrompt
    BY <1>1, <1>6, PublishStepKeeps
  <1>7. CASE ForkSample
    BY <1>1, <1>7, ForkStepKeeps
  <1>8. CASE GrowBranch
    BY <1>1, <1>8, GrowKeeps
  <1>9. CASE reclaim_for_decode
    BY <1>1, <1>9, ReclaimKeeps
  <1>10. CASE NextDecode
    BY <1>1, <1>10, NextDecodeKeeps
  <1>11. CASE WriteBranch
    BY <1>1, <1>11, WriteStepKeeps
  <1>12. CASE CommitToken
    BY <1>1, <1>12, CommitKeeps
  <1>13. CASE AccountStep
    BY <1>1, <1>13, AccountKeeps
  <1>14. CASE ResumeNext
    BY <1>1, <1>14, ResumeKeeps
  <1>15. CASE CloseStep
    BY <1>1, <1>15, CloseKeeps
  <1>16. CASE UNCHANGED replayVars
    BY <1>1, <1>16, IdleKeeps
  <1>17. Done => UNCHANGED replayVars
    BY DEF Done
  <1> QED BY <1>1, <1>2, <1>3, <1>4, <1>5, <1>6, <1>7, <1>8, <1>9, <1>10, <1>11, <1>12, <1>13,
             <1>14, <1>15, <1>16, <1>17 DEF ReplayNext

-----------------------------------------------------------------------------
(* The start of a replay: every request of the trace waits. *)
LEMMA ReplayStarts ==
    ASSUME ReplayInit
    PROVE  BaseInv /\ DriverInv
  <1> DEFINE todo == trace.requests
  <1>1. /\ Init /\ trace \in Traces /\ pending = todo /\ active = <<>> /\ preempted = <<>>
        /\ preemption_info = {} /\ lifetime_held = 0 /\ plan = NoPlan /\ pc = "idle"
        /\ cursor = 0 /\ needed = 0 /\ progress = [r \in Requests |-> NoProgress]
        /\ live = <<>> /\ preempted_ids = {} /\ next_fork_sequence = 1 + Max(InTrace \cup {0})
        /\ no_progress_steps = 0
        /\ at = [phase |-> "loop", i |-> 0, j |-> 0, progress_made |-> FALSE, growth_failed |-> FALSE]
    BY DEF ReplayInit
  <1>2. todo \in Seq(Requests) /\ IsInjective(todo) /\ InTrace = Range(todo)
    BY <1>1, ReplayConfig DEF InTrace
  <1>3. request \in Requested
        /\ \A r \in Requests :
              /\ request[r].skips = 0
              /\ r \in InTrace => request[r].state = "Pending" /\ request[r].remaining = prompt_tokens[r]
              /\ r \notin InTrace => request[r].state = "Unknown"
    <2> DEFINE q(r) == IF r \in InTrace
                       THEN [NoRequestState EXCEPT !.state = "Pending", !.remaining = prompt_tokens[r]]
                       ELSE NoRequestState
    <2>1. request = [r \in Requests |-> q(r)]
      BY DEF ReplayInit
    <2>2. ASSUME NEW r \in Requests
          PROVE  /\ q(r) \in RequestRecord /\ q(r).skips = 0
                 /\ r \in InTrace => q(r).state = "Pending" /\ q(r).remaining = prompt_tokens[r]
                 /\ r \notin InTrace => q(r).state = "Unknown"
      <3>1. prompt_tokens[r] \in Nat
        BY ReplayConstants
      <3> QED BY <3>1 DEF NoRequestState, RequestRecord
    <2> HIDE DEF q
    <2> QED BY <2>1, <2>2 DEF Requested
  <1>4. Range(<<>>) = {} /\ IsInjective(<<>>) /\ <<>> \in Seq(Requests) /\ <<>> \in Seq(SeqIds) /\ Len(<<>>) = 0
    BY DEF Range, IsInjective
  <1>5. NoPlan \in Plans /\ NoPlan.prefill = <<>> /\ NoPlan.decode = <<>> /\ NoPlan.tokens = <<>>
    BY DEF NoPlan, Plans
  <1>6. CoreInv
    <2>1. Structure /\ RefCountsExact
      BY <1>1, InitStructure
    <2>2. SchedulerTypeOK
      BY <1>1, <1>2, <1>3, <1>4, <1>5, Typed DEF Requested
    <2>3. QueuesAgree
      BY <1>1, <1>2, <1>3, <1>4 DEF QueuesAgree, State
    <2>4. SkipsBounded
      <3>1. \A i \in DOMAIN pending : pending[i] \in Requests
        BY <1>1, <1>2, InRange
      <3>2. \A i \in DOMAIN pending : request[pending[i]].skips = 0
        BY <1>3, <3>1
      <3>3. admission_skip_limit \in Nat
        BY Configured
      <3> QED BY <3>2, <3>3 DEF SkipsBounded
    <2>5. ScanShaped
      BY <1>1 DEF ScanShaped, Scanning, Fitting
    <2> QED BY <2>1, <2>2, <2>3, <2>4, <2>5 DEF CoreInv, QueueInv
  <1>7. \A r \in Requests : SequencesFor(r) = {}
    BY <1>1, <1>4 DEF Init, SequencesFor
  <1>8. BaseInv
    <2>1. SequencesInv
      BY <1>1, <1>3, <1>7 DEF SequencesInv, Waiting, Candidate, Entering, State
    <2> QED BY <1>1, <1>6, <2>1, TailBridge, PlanBridge DEF BaseInv
  <1>9. /\ NoProgress \in ProgressRecord /\ ~NoProgress.admitted /\ ~NoProgress.finished
        /\ \A r \in Requests : progress[r] = NoProgress
    BY <1>1, <1>4 DEF NoProgress, ProgressRecord
  <1>10. at \in Places /\ at.phase = "loop" /\ at.i = 0
    BY <1>1 DEF Places
  <1>11. next_fork_sequence \in Nat
    <2> DEFINE I == InTrace \cup {0}
    <2>1. todo \in Seq(Nat)
      <3>1. Len(todo) \in Nat /\ \A i \in 1 .. Len(todo) : todo[i] \in Nat
        BY <1>2, ReplayConstants, InRange
      <3>2. todo = [i \in 1 .. Len(todo) |-> todo[i]]
        BY <1>2
      <3> HIDE DEF todo
      <3> QED BY <3>1, <3>2, IsASeq
    <2>2. PICK n \in Nat : \A x \in InTrace : x <= n
      <3> HIDE DEF todo
      <3> QED BY <1>2, <2>1, ListBounded
    <2>3. I \in SUBSET Nat /\ I # {} /\ \A x \in I : x <= n
      <3>1. InTrace \subseteq Nat
        <4> HIDE DEF todo
        <4> QED BY <1>2, <2>1, InRange
      <3> QED BY <2>2, <3>1
    <2>4. Max(I) \in Nat
      <3> HIDE DEF I
      <3> QED BY <2>3, GreatestMember
    <2> QED BY <1>1, <2>4
  <1>12. ReplayTypeOK /\ PhaseInv
    BY <1>1, <1>4, <1>9, <1>10, <1>11, ReplayTyped DEF PhaseInv
  <1>13. BooksInv
    <2>1. ASSUME NEW r \in Requests PROVE Book(r, progress[r], request[r], SequencesFor(r), tables)
      BY <1>3, <1>9 DEF Book, Underway
    <2> QED BY <2>1, BooksBridge
  <1>14. SeenInv /\ PrefillAhead
    <2>1. Unbegun(plan, at) = {} /\ Unexecuted(plan, at) = {}
      BY <1>1, <1>4, <1>5, <1>10 DEF Unbegun, Unexecuted
    <2>2. SeenInv
      BY <1>3, <1>10, <2>1 DEF SeenInv, State, Underway
    <2> QED BY <1>1, <1>4, <1>5, <1>10, <2>1, <2>2 DEF PrefillAhead
  <1>15. DecodeAhead /\ GrownInv
    BY <1>10 DEF DecodeAhead, GrownInv
  <1>16. LiveInv /\ ParkedInv
    BY <1>1, <1>4, <1>9 DEF LiveInv, ParkedInv
  <1> QED BY <1>1, <1>8, <1>12, <1>13, <1>14, <1>15, <1>16 DEF DriverInv

(* The books of the driver, the queues of the scheduler and the tables of the *)
(* cache stay related as BaseInv and DriverInv say, through every step of     *)
(* every replay of requests with a prompt.                                    *)
THEOREM ReplayInvariant ==
    ASSUME Prompted
    PROVE  ReplaySpec => [](BaseInv /\ DriverInv)
  <1>1. ReplayInit => BaseInv /\ DriverInv
    BY ReplayStarts
  <1>2. (BaseInv /\ DriverInv) /\ [ReplayNext]_replayVars => (BaseInv /\ DriverInv)'
    BY ReplayKeeps
  <1> QED BY <1>1, <1>2, PTL DEF ReplaySpec

(* run_paged changes the cache by the manager's own operations only, one per  *)
(* step and each under its preconditions: what is proved of the manager holds *)
(* of it under the driver.                                                    *)
THEOREM ReplayDrivesCache ==
    ASSUME Prompted
    PROVE  ReplaySpec => Spec
  <1>1. ReplayInit => Init
    BY DEF ReplayInit
  <1>2. BaseInv /\ DriverInv /\ [ReplayNext]_replayVars => [Next]_cacheVars
    BY ReplayKeeps
  <1> QED BY <1>1, <1>2, ReplayInvariant, PTL DEF ReplaySpec, Spec

(* The driver's own variables keep their types: a request's branches are      *)
(* sequence ids, and no_progress_steps ends at two.                           *)
THEOREM ReplayTypeCorrect ==
    ASSUME Prompted
    PROVE  ReplaySpec => []ReplayTypeOK
  <1>1. DriverInv => ReplayTypeOK
    BY DEF DriverInv
  <1> QED BY <1>1, ReplayInvariant, PTL

(* A request that was admitted and is not finished is under way. *)
LEMMA LiveUnderway ==
    ASSUME BaseInv, DriverInv, NEW r \in Requests, progress[r].admitted, ~progress[r].finished
    PROVE  /\ State(r) \in Underway /\ Range(progress[r].sequences) = SequencesFor(r)
           /\ progress[r].committed + request[r].remaining = prompt_tokens[r] + progress[r].decoded
           /\ \A s \in SequencesFor(r) : progress[r].committed <= Blocks(tables, s) * TokensPerBlock
  <1>1. Book(r, progress[r], request[r], SequencesFor(r), tables)
    BY BooksBridge DEF DriverInv
  <1>2. request \in Requested
    BY DriverFacts
  <1>3. request[r].state \in Underway
    BY <1>1, <1>2 DEF Book, Underway, Requested, RequestRecord
  <1> QED BY <1>1, <1>3 DEF Book, State

(* Between two steps the driver's books are the scheduler's: live lists the   *)
(* requests that are active or parked, preempted_ids the parked ones, and     *)
(* each record the sequences and the tokens of its request, although run_paged *)
(* learns of the scheduler's own preemptions only at the end of a step.       *)
THEOREM BooksAgree ==
    ASSUME Prompted
    PROVE  ReplaySpec => []DriverAgrees
  <1>1. BaseInv /\ DriverInv => DriverAgrees
    <2>1. SUFFICES ASSUME BaseInv, DriverInv, at.phase = "loop" PROVE DriverAgrees
      BY DEF DriverAgrees
    <2>2. QueuesAgree /\ request \in Requested /\ live \in Seq(Requests) /\ Range(live) \subseteq Requests
          /\ Range(active) \subseteq Requests /\ Range(preempted) \subseteq Requests
      <3>1. active \in Seq(Requests) /\ preempted \in Seq(Requests)
        BY <2>1, Typed DEF BaseInv, CoreInv, QueueInv
      <3> QED BY <2>1, <3>1, DriverFacts, InRange
    <2>3. IsInjective(live) /\ preempted_ids = preemption_info
          /\ \A r \in Range(live) : progress[r].admitted /\ ~progress[r].finished
      BY <2>1, <2>2 DEF DriverInv, LiveInv, ParkedInv
    <2>4. Unbegun(plan, at) = {}
      BY <2>1 DEF Unbegun
    <2>5. ASSUME NEW r \in Requests, State(r) \in Underway PROVE r \in Range(live)
      <3>1. progress[r].admitted
        BY <2>1, <2>4, <2>5 DEF DriverInv, SeenInv
      <3>2. Book(r, progress[r], request[r], SequencesFor(r), tables)
        BY <2>1, BooksBridge DEF DriverInv
      <3>3. ~progress[r].finished
        BY <2>5, <3>2 DEF Book, State, Underway
      <3> QED BY <2>1, <3>1, <3>3 DEF DriverInv, LiveInv
    <2>6. Range(live) = Range(active) \cup Range(preempted)
      <3>1. \A r \in Range(live) : State(r) \in Underway
        BY <2>1, <2>2, <2>3, LiveUnderway
      <3>2. \A r \in Requests : State(r) \in Underway <=> r \in Range(active) \cup Range(preempted)
        BY <2>2 DEF QueuesAgree, Underway
      <3> QED BY <2>2, <2>5, <3>1, <3>2
    <2>7. \A r \in Range(live) :
              /\ Range(progress[r].sequences) = SequencesFor(r)
              /\ progress[r].committed + request[r].remaining = prompt_tokens[r] + progress[r].decoded
      BY <2>1, <2>2, <2>3, LiveUnderway
    <2>8. ASSUME NEW r \in InTrace, progress[r].finished PROVE State(r) = "Unknown"
      <3>1. r \in Requests
        BY <2>1, ReplayConfig, InRange DEF DriverInv, InTrace
      <3>2. Book(r, progress[r], request[r], SequencesFor(r), tables)
        BY <2>1, <3>1, BooksBridge DEF DriverInv
      <3> QED BY <2>8, <3>2 DEF Book, State
    <2> QED BY <2>3, <2>6, <2>7, <2>8 DEF DriverAgrees
  <1> QED BY <1>1, ReplayInvariant, PTL

(* Every token run_paged counts as committed has a block in every branch of   *)
(* its request: neither parking and resuming, nor a fork, nor a growth that   *)
(* failed for a later branch leaves a token without one.                      *)
THEOREM TokensBacked ==
    ASSUME Prompted
    PROVE  ReplaySpec => []CommittedBacked
  <1>1. BaseInv /\ DriverInv => CommittedBacked
    <2>1. SUFFICES ASSUME BaseInv, DriverInv, NEW r \in Range(live), NEW k \in DOMAIN progress[r].sequences
                   PROVE  progress[r].committed <= Capacity(progress[r].sequences[k])
      BY DEF CommittedBacked
    <2>2. r \in Requests /\ progress[r] \in ProgressRecord
      BY <2>1, DriverFacts, InRange
    <2>3. progress[r].sequences \in Seq(SeqIds)
      BY <2>2 DEF ProgressRecord
    <2>4. progress[r].sequences[k] \in Range(progress[r].sequences)
      BY <2>1, <2>3, InRange
    <2>5. progress[r].admitted /\ ~progress[r].finished
      <3>1. progress[r].admitted
        BY <2>1, <2>2 DEF DriverInv, LiveInv
      <3>2. Book(r, progress[r], request[r], SequencesFor(r), tables)
        BY <2>1, <2>2, BooksBridge DEF DriverInv
      <3>3. progress[r].sequences # <<>>
        BY <2>1
      <3> QED BY <3>1, <3>2, <3>3 DEF Book
    <2>6. progress[r].committed <= Blocks(tables, progress[r].sequences[k]) * TokensPerBlock
      BY <2>1, <2>2, <2>4, <2>5, LiveUnderway
    <2> QED BY <2>6 DEF Capacity, Blocks
  <1> QED BY <1>1, ReplayInvariant, PTL

(* leak_free: a replay that completed has given back every frame, every pin   *)
(* and every slot.  The driver publishes a prompt only for a sequence that    *)
(* has no prefix yet, so a manager without re-publication is the one it uses. *)
THEOREM ReplayLeaksNothing ==
    ASSUME Prompted, ~Rekeying
    PROVE  ReplaySpec => []LeakFree
  <1>1. BaseInv /\ DriverInv /\ PrefixUsersExact /\ NoLeak => LeakFree
    <2>1. SUFFICES ASSUME BaseInv, DriverInv, PrefixUsersExact, NoLeak, at.phase = "done", Completed
                   PROVE  LeakFree
      BY DEF LeakFree
    <2>2. Structure /\ SequencesInv /\ pc = "idle"
      BY <2>1 DEF BaseInv, CoreInv, DriverInv, PhaseInv
    <2>3. ASSUME NEW r \in Requests PROVE SequencesFor(r) = {}
      <3>1. State(r) = "Unknown"
        <4>1. CASE r \notin InTrace
          BY <2>1, <4>1 DEF DriverInv, SeenInv
        <4>2. CASE r \in InTrace
          <5>1. Book(r, progress[r], request[r], SequencesFor(r), tables)
            BY <2>1, BooksBridge DEF DriverInv
          <5> QED BY <2>1, <4>2, <5>1 DEF Completed, Book, State
        <4> QED BY <4>1, <4>2
      <3> QED BY <2>2, <3>1 DEF SequencesInv, Waiting, Candidate, Entering
    <2>4. sequences = {}
      <3>1. ASSUME NEW s \in sequences PROVE FALSE
        <4>1. s \in SeqIds /\ request_of[s] \in Requests
          BY <2>2 DEF Structure, TypeOK, TablesShaped
        <4>2. s \in SequencesFor(request_of[s])
          BY <2>2, <4>1 DEF Structure, RequestsListed
        <4> QED BY <2>3, <4>1, <4>2
      <3> QED BY <3>1
    <2>5. Records(prefix_index) = {}
      <3>1. ASSUME NEW k \in Keys, NEW rec \in prefix_index[k] PROVE FALSE
        <4>1. rec.users = Leaving(sequences, k, rec) /\ rec.users > 0
          BY <2>1 DEF PrefixUsersExact
        <4>2. Leaving(sequences, k, rec) = Cardinality({})
          BY <2>4 DEF Leaving
        <4>3. Cardinality({}) = 0
          BY FS_EmptySet
        <4> QED BY <4>1, <4>2, <4>3
      <3> QED BY <3>1, RecordsAre
    <2> QED BY <2>1, <2>4, <2>5 DEF LeakFree, NoLeak
  <1>2. ReplaySpec => Spec
    BY ReplayDrivesCache
  <1>3. Spec => []PrefixUsersExact /\ []NoLeak
    <2>1. Spec => []PrefixUsersExact
      BY PrefixUsersCounted
    <2>2. Spec => []NoLeak
      BY NothingLeaks
    <2> QED BY <2>1, <2>2
  <1> QED BY <1>1, <1>2, <1>3, ReplayInvariant, PTL

-----------------------------------------------------------------------------
(* Residency under the driver's own cache calls. *)
LEMMA HereEnsure ==
    ASSUME Structure, NEW t \in SeqIds, NEW pos, ensure_token_writable(t, pos, 1), NEW s \in SeqIds, Here(tables, s)
    PROVE  Here(tables', s)
  <1> DEFINE c == CellOf(pos, 1)
             old == tables[t][c[1]][c[2]]
  <1>1. /\ c[1] = 1 /\ c \in Resident(t)
        /\ \/ tables' = [tables EXCEPT ![t][c[1]][c[2]].writable = TRUE]
           \/ \E copy \in Frames :
                 tables' = [tables EXCEPT ![t][c[1]][c[2]] = [@ EXCEPT !.frame = copy, !.writable = TRUE]]
    BY DEF ensure_token_writable, CopyOnWrite, CellOf, FreeFrames
  <1>2. tables \in [SeqIds -> [Tables -> Seq(Entry)]] /\ 1 \in Tables
    BY ConfigFacts DEF Structure, TypeOK
  <1>3. old.slot = NoSlot
    BY <1>1 DEF Resident, At
  <1>4. PICK e : tables' = [tables EXCEPT ![t][c[1]][c[2]] = e] /\ e.slot = NoSlot
    <2>1. old \in Entry
      <3>1. c[2] \in 1 .. Len(tables[t][c[1]])
        <4>1. c \in Cells /\ c[2] <= Len(tables[t][c[1]])
          BY <1>1 DEF Resident, Mapped
        <4>2. tables[t][c[1]] \in Seq(Entry)
          BY <1>1, <1>2
        <4> QED BY <4>1, <4>2, ConfigFacts DEF Cells
      <3>2. tables[t][c[1]] \in Seq(Entry)
        BY <1>1, <1>2
      <3> QED BY <3>1, <3>2, InRange
    <2> HIDE DEF c
    <2>2. CASE tables' = [tables EXCEPT ![t][c[1]][c[2]].writable = TRUE]
      <3>1. tables' = [tables EXCEPT ![t][c[1]][c[2]] = [old EXCEPT !.writable = TRUE]]
        BY <2>2
      <3>2. [old EXCEPT !.writable = TRUE].slot = NoSlot
        <4> HIDE DEF old
        <4> QED BY <1>3, <2>1 DEF Entry
      <3> QED BY <3>1, <3>2
    <2>3. ASSUME NEW f \in Frames,
                 tables' = [tables EXCEPT ![t][c[1]][c[2]] = [@ EXCEPT !.frame = f, !.writable = TRUE]]
          PROVE  \E e : tables' = [tables EXCEPT ![t][c[1]][c[2]] = e] /\ e.slot = NoSlot
      <3>1. tables' = [tables EXCEPT ![t][c[1]][c[2]] = [old EXCEPT !.frame = f, !.writable = TRUE]]
        BY <2>3
      <3>2. [old EXCEPT !.frame = f, !.writable = TRUE].slot = NoSlot
        <4> HIDE DEF old
        <4> QED BY <1>3, <2>1 DEF Entry
      <3> QED BY <3>1, <3>2
    <2> QED BY <1>1, <2>2, <2>3
  <1> HIDE DEF c, old
  <1>5. ASSUME NEW l \in Tables, NEW i \in 1 .. Len(tables'[s][l])
        PROVE  tables'[s][l][i].slot = NoSlot
    <2> DEFINE b == tables[s][l]
    <2>1. b \in Seq(Entry)
      BY <1>2
    <2>2. tables'[s][l] = IF s = t /\ l = c[1] THEN [b EXCEPT ![c[2]] = e] ELSE b
      BY <1>2, <1>4
    <2>3. \A k \in 1 .. Len(b) : b[k].slot = NoSlot
      BY DEF Here
    <2> HIDE DEF b
    <2>4. Len([b EXCEPT ![c[2]] = e]) = Len(b)
      BY <2>1
    <2>5. i \in 1 .. Len(b)
      BY <2>2, <2>4
    <2>6. [b EXCEPT ![c[2]] = e][i] = IF i = c[2] THEN e ELSE b[i]
      BY <2>1, <2>5
    <2> QED BY <1>4, <2>2, <2>3, <2>5, <2>6
  <1> QED BY <1>5 DEF Here

LEMMA HereFork ==
    ASSUME Structure, NEW p \in SeqIds, NEW t \in SeqIds, NEW r, fork_sequence(p, t, r), NEW s \in SeqIds,
           Here(tables, s) \/ s = t
    PROVE  Here(tables', s)
  <1>1. tables' = [tables EXCEPT ![t] = [l \in Tables |-> Forked(tables[p][l])]] /\ Here(tables, p)
    BY HereBridge DEF fork_sequence
  <1>2. tables \in [SeqIds -> [Tables -> Seq(Entry)]]
    BY DEF Structure, TypeOK
  <1>3. CASE s # t
    BY <1>1, <1>2, <1>3, HereSame
  <1>4. CASE s = t
    <2>1. ASSUME NEW l \in Tables, NEW i \in 1 .. Len(tables'[s][l])
          PROVE  tables'[s][l][i].slot = NoSlot
      <3> DEFINE b == tables[p][l]
      <3>1. b \in Seq(Entry) /\ tables'[s][l] = Forked(b)
        BY <1>1, <1>2, <1>4
      <3>2. \A k \in 1 .. Len(b) : b[k].slot = NoSlot
        BY <1>1 DEF Here
      <3> HIDE DEF b
      <3> QED BY <3>1, <3>2, ForkedTable
    <2> QED BY <2>1 DEF Here
  <1> QED BY <1>3, <1>4

LEMMA ReplayResident ==
    ASSUME BaseInv, DriverInv, BaseInv', ResidentInv, [ReplayNext]_replayVars
    PROVE  ResidentInv'
  <1>1. /\ CoreInv /\ Structure /\ Structure' /\ SequencesInv /\ QueuesAgree
    BY DEF BaseInv, CoreInv, QueueInv
  <1>2. CASE [SchedulerNext]_vars
    BY <1>1, <1>2, NextResident
  <1>3. ASSUME pc = "idle", NEW v \in Requests, v \in Range(active), Park(v), UNCHANGED callVars
        PROVE  ResidentInv'
    <2>1. pc' \notin Entering
      BY <1>3 DEF callVars, Entering
    <2>2. \A r \in Requests : Running(r)' => Carried(r)
      BY <1>1, <1>3, <2>1, CarriedPark
    <2> QED BY <1>1, <2>2, ResidentCarried
  <1>4. ASSUME pc = "idle", DriverCall, UNCHANGED <<queueVars, callVars>>
        PROVE  ResidentInv'
    <2>1. pc' = "idle" /\ active' = active
      BY <1>4 DEF queueVars, callVars
    <2>2. ASSUME NEW r \in Requests, Running(r)' PROVE Carried(r)
      <3>1. Running(r) /\ r \in Range(active)
        BY <2>1, <2>2 DEF Running, Candidate, Entering
      <3>2. SequencesFor(r) \subseteq SeqIds
        BY <1>1, ListedSequences DEF Structure, TypeOK
      <3>3. CASE UNCHANGED cacheVars
        <4>1. tables' = tables /\ sequences_by_request' = sequences_by_request
          BY <3>3 DEF cacheVars
        <4> QED BY <3>1, <4>1, CarriedStill
      <3>4. ASSUME NEW s \in SeqIds, reserve_tokens(s, 1) PROVE Carried(r)
        <4>1. sequences_by_request' = sequences_by_request /\ 1 \in Nat \ {0}
          BY <3>4 DEF reserve_tokens
        <4>2. \A t \in SequencesFor(r) : Here(tables, t) => Here(tables', t)
          BY <1>1, <3>2, <3>4, <4>1, HereReserve
        <4> QED BY <3>1, <4>1, <4>2, CarriedStill
      <3>5. ASSUME NEW s \in SeqIds, NEW pos \in Nat, ensure_token_writable(s, pos, 1) PROVE Carried(r)
        <4>1. sequences_by_request' = sequences_by_request
          BY <3>5 DEF ensure_token_writable
        <4>2. \A t \in SequencesFor(r) : Here(tables, t) => Here(tables', t)
          BY <1>1, <3>2, <3>5, HereEnsure
        <4> QED BY <3>1, <4>1, <4>2, CarriedStill
      <3>6. ASSUME NEW p \in Requests, NEW k \in Keys, publish_prefix(p, k) PROVE Carried(r)
        <4>1. tables' = tables /\ sequences_by_request' = sequences_by_request
          BY <3>6 DEF publish_prefix
        <4> QED BY <3>1, <4>1, CarriedStill
      <3>7. ASSUME NEW p \in Requests, NEW t \in SeqIds, fork_sequence(p, t, p) PROVE Carried(r)
        <4>1. p \in SeqIds /\ Index(t, p)
          BY <3>7, ReplayConstants DEF fork_sequence
        <4>2. SequencesFor(r)' \subseteq SequencesFor(r) \cup {t}
          BY <1>1, <3>7, <4>1, ListsIndex
        <4>3. ASSUME NEW s \in SequencesFor(r) \cup {t} PROVE Here(tables', s)
          <5>1. s \in SeqIds
            BY <3>2, <4>3
          <5>2. s # t => Here(tables, s)
            BY <1>1, <3>1, <4>3, <5>1, HereBridge DEF ResidentInv
          <5> QED BY <1>1, <3>7, <4>1, <5>1, <5>2, HereFork
        <4> QED BY <4>2, <4>3 DEF Carried
      <3> QED BY <1>4, <3>3, <3>4, <3>5, <3>6, <3>7 DEF DriverCall
    <2> QED BY <1>1, <2>2, ResidentCarried
  <1> QED BY <1>2, <1>3, <1>4, ReplayKinds

(* No block of a request that run_paged will execute is swapped out: the      *)
(* forks of a resumed request are restored with it, and growth, forks and     *)
(* copies of one request never evict a block of another.                      *)
THEOREM ReplayActiveInPool ==
    ASSUME Prompted
    PROVE  ReplaySpec => []ActiveResident
  <1>1. ReplayInit => ResidentInv
    <2>1. SUFFICES ASSUME ReplayInit PROVE ResidentInv
      OBVIOUS
    <2>2. active = <<>> /\ pc = "idle"
      BY <2>1 DEF ReplayInit
    <2>3. Range(active) = {} /\ pc \notin Entering
      BY <2>2 DEF Range, Entering
    <2> QED BY <2>3 DEF ResidentInv, Candidate
  <1>2. /\ BaseInv /\ DriverInv /\ (BaseInv /\ DriverInv)' /\ ResidentInv /\ [ReplayNext]_replayVars
        => ResidentInv'
    BY ReplayResident
  <1>3. BaseInv /\ DriverInv /\ ResidentInv => ActiveResident
    <2>1. BaseInv => Range(active) \subseteq Requests
      BY Typed, InRange DEF BaseInv, CoreInv, QueueInv
    <2> QED BY <2>1 DEF ResidentInv, ActiveResident
  <1> QED BY <1>1, <1>2, <1>3, ReplayInvariant, PTL DEF ReplaySpec
=============================================================================
