---------------------- MODULE ContiguousBaselineProofs ----------------------
(***************************************************************************)
(* Proofs about ContiguousBaseline for every pool, trace length and set of *)
(* request sizes.  The inductive invariant is BaselineInv.  What the       *)
(* recursive scan of first_fit computes is shown by taking the least       *)
(* counterexample (LeastNumber), in place of an induction rule.            *)
(***************************************************************************)
EXTENDS ContiguousBaseline, TLAPS, FiniteSetTheorems, SequenceTheorems, WellFoundedInduction

(* Every reservation is that of a servable request already taken from the     *)
(* trace, has the size the request needs, lies in the pool and has tokens     *)
(* left to decode.                                                            *)
Reserved(a) ==
    /\ a.index < next_pending
    /\ servable(a.index)
    /\ a.count = request_blocks(a.index)
    /\ a.start + a.count <= max_blocks
    /\ a.committed = trace[a.index].prompt + a.decoded
    /\ a.decoded < trace[a.index].actual

ReservationsSound == \A n \in DOMAIN active : Reserved(active[n])

(* A request taken from the trace is completed or active. *)
RequestsCounted == completed + Len(active) = next_pending - 1

(* Where the step stands: the reservations before i have their token, and so  *)
(* have all of them between two steps.                                        *)
Served(n) == pc \in {"step", "done"} \/ (pc = "decode" /\ n < i)
TokensCounted ==
    /\ pc = "decode" => i \in 1 .. Len(active) + 1
    /\ pc = "admit" => steps > 0
    /\ \A n \in DOMAIN active :
          active[n].decoded = steps - active[n].since + (IF Served(n) THEN 1 ELSE 0)

BaselineInv ==
    /\ BaselineTypeOK
    /\ ReservationsSound
    /\ RequestsCounted
    /\ TokensCounted
    /\ RunsDisjoint

-----------------------------------------------------------------------------
(* Every nonempty set of numbers has a least element. *)
LEMMA LeastNumber ==
    ASSUME NEW T \in SUBSET Nat, T # {}
    PROVE  \E x \in T : \A y \in T : x <= y
  <1>1. PICK x \in T : \A y \in T : ~ (<<y, x>> \in OpToRel(<, Nat))
    BY NatLessThanWellFounded, WFMin, Zenon
  <1>2. \A y \in T : ~(y < x)
    BY <1>1 DEF OpToRel
  <1> QED BY <1>2

(* The recurrence that Run solves, on the blocks up to a bound. *)
Scan(S, run) ==
    run = [b \in S |-> IF b \in used THEN 0 ELSE IF b = 0 THEN 1 ELSE run[b - 1] + 1]

(* The recurrence has a solution on every initial segment. *)
LEMMA ScanExists ==
    ASSUME NEW m \in Nat
    PROVE  \E run : Scan(0 .. m - 1, run)
  <1> DEFINE T == {n \in Nat : ~ \E run : Scan(0 .. n - 1, run)}
  <1>1. SUFFICES ASSUME T # {} PROVE FALSE
    OBVIOUS
  <1>2. PICK n \in T : \A k \in T : n <= k
    BY <1>1, LeastNumber
  <1>3. CASE n = 0
    <2>1. Scan(0 .. n - 1, [b \in {} |-> 0])
      <3>1. 0 .. n - 1 = {}  BY <1>3
      <3> QED BY <3>1 DEF Scan
    <2> QED BY <1>2, <2>1
  <1>4. CASE n # 0
    <2>1. n - 1 \in Nat /\ n - 1 \notin T
      BY <1>2, <1>4
    <2>2. PICK run : Scan(0 .. (n - 1) - 1, run)
      BY <2>1
    <2> DEFINE last == IF n - 1 \in used THEN 0 ELSE IF n - 1 = 0 THEN 1 ELSE run[(n - 1) - 1] + 1
               next == [b \in 0 .. n - 1 |-> IF b = n - 1 THEN last ELSE run[b]]
    <2>3. \A b \in 0 .. (n - 1) - 1 : next[b] = run[b]
      BY <2>1
    <2>4. next[n - 1] = last
      BY <2>1
    <2>5. ASSUME NEW b \in 0 .. n - 1
          PROVE  next[b] = IF b \in used THEN 0 ELSE IF b = 0 THEN 1 ELSE next[b - 1] + 1
      <3>1. CASE b = n - 1
        BY <2>3, <2>4, <3>1
      <3>2. CASE b # n - 1
        <4>1. b \in 0 .. (n - 1) - 1  BY <2>1, <3>2
        <4>2. run[b] = IF b \in used THEN 0 ELSE IF b = 0 THEN 1 ELSE run[b - 1] + 1
          BY <2>2, <4>1 DEF Scan
        <4>3. b # 0 => b - 1 \in 0 .. (n - 1) - 1  BY <2>1, <4>1
        <4> QED BY <2>3, <4>1, <4>2, <4>3
      <3> QED BY <3>1, <3>2
    <2> HIDE DEF last
    <2>6. Scan(0 .. n - 1, next)
      BY <2>5 DEF Scan
    <2> QED BY <1>2, <2>6
  <1> QED BY <1>3, <1>4

(* Run is a solution of the recurrence. *)
LEMMA RunUnfolds ==
    Scan(Blocks, Run)
  <1>1. max_blocks \in Nat  BY BaselineConfig
  <1>2. \E run : Scan(Blocks, run)  BY <1>1, ScanExists DEF Blocks
  <1> QED BY <1>2 DEF Run, Scan

(* What the scan computes: Run[b] is the length of the longest free run that  *)
(* ends at block b.                                                           *)
LongestRun(b, n) ==
    /\ n \in 0 .. b + 1
    /\ \A c \in b + 1 - n .. b : c \notin used
    /\ n # b + 1 => b - n \in used

LEMMA RunIsLongest ==
    ASSUME NEW b \in Blocks
    PROVE  LongestRun(b, Run[b])
  <1>0. max_blocks \in Nat  BY BaselineConfig
  <1> DEFINE T == {c \in Blocks : ~ LongestRun(c, Run[c])}
  <1>1. SUFFICES ASSUME T # {} PROVE FALSE
    OBVIOUS
  <1>2. PICK n \in T : \A k \in T : n <= k
    <2>1. T \in SUBSET Nat  BY <1>0 DEF Blocks
    <2> HIDE DEF T
    <2> QED BY <1>1, <2>1, LeastNumber
  <1>3. /\ n \in Blocks /\ n \in Nat
        /\ Run[n] = IF n \in used THEN 0 ELSE IF n = 0 THEN 1 ELSE Run[n - 1] + 1
    BY <1>0, <1>2, RunUnfolds DEF Scan, Blocks
  <1>4. CASE n \in used
    BY <1>2, <1>3, <1>4 DEF LongestRun
  <1>5. CASE n \notin used /\ n = 0
    BY <1>2, <1>3, <1>5 DEF LongestRun
  <1>6. CASE n \notin used /\ n # 0
    <2>1. n - 1 \in Blocks /\ n - 1 \notin T
      BY <1>0, <1>2, <1>3, <1>6 DEF Blocks
    <2>2. LongestRun(n - 1, Run[n - 1])
      BY <2>1
    <2>3. LongestRun(n, Run[n - 1] + 1)
      BY <1>3, <1>6, <2>2 DEF LongestRun
    <2> QED BY <1>2, <1>3, <1>6, <2>3
  <1> QED BY <1>4, <1>5, <1>6

-----------------------------------------------------------------------------
(* A free run of the right size that starts below some block makes the scan   *)
(* stop at or before that run's end.                                          *)
LEMMA FreeRunIsFound ==
    ASSUME NEW needed \in Nat \ {0}, NEW s \in Nat, IsFree(s, needed)
    PROVE  \E d \in Fits(needed) : d <= s + needed - 1
  <1> DEFINE e == s + needed - 1
             r == Run[e]
             d == e - (r - needed)
  <1>0. max_blocks \in Nat  BY BaselineConfig
  <1>1. e \in Blocks /\ (\A c \in s .. e : c \notin used)
    BY <1>0 DEF IsFree, Blocks
  <1>2. LongestRun(e, r)
    BY <1>1, RunIsLongest
  <1>3. r \in Nat /\ r >= needed /\ r <= e + 1
    <2> HIDE DEF r
    <2> QED BY <1>0, <1>1, <1>2 DEF LongestRun, Blocks
  <1>4. d \in Blocks /\ d <= e
    <2> HIDE DEF r
    <2> QED BY <1>0, <1>1, <1>3 DEF Blocks
  <1>5. LongestRun(d, Run[d])
    <2> HIDE DEF d
    <2> QED BY <1>4, RunIsLongest
  <1>6. Run[d] = needed
    <2> DEFINE q == Run[d]
    <2>1. LongestRun(d, q)  BY <1>5
    <2> HIDE DEF r, q
    <2>2. \A c \in e + 1 - r .. d : c \notin used
      BY <1>0, <1>1, <1>2, <1>3 DEF LongestRun, Blocks
    <2>3. q \in Nat /\ q <= d + 1
      BY <1>0, <1>4, <2>1 DEF LongestRun, Blocks
    <2>4. ~ (q > needed)
      BY <1>0, <1>1, <1>2, <1>3, <1>4, <2>1, <2>3 DEF LongestRun, Blocks
    <2>5. ~ (q < needed)
      BY <1>0, <1>1, <1>3, <1>4, <2>1, <2>2, <2>3 DEF LongestRun, Blocks
    <2> QED BY <2>3, <2>4, <2>5 DEF q
  <1>7. d \in Fits(needed)
    <2> HIDE DEF d
    <2> QED BY <1>4, <1>6 DEF Fits
  <1> HIDE DEF d
  <1> QED BY <1>4, <1>7

(* first_fit returns the lowest free run that is long enough, ... *)
LEMMA FirstFitIsLowest ==
    ASSUME NEW needed \in Nat \ {0}, NEW start \in first_fit(needed)
    PROVE  /\ start \in Blocks
           /\ IsFree(start, needed)
           /\ \A s \in 0 .. start - 1 : ~IsFree(s, needed)
  <1>0. max_blocks \in Nat  BY BaselineConfig
  <1>1. PICK b \in Fits(needed) : start = b + 1 - needed /\ \A d \in Fits(needed) : b <= d
    BY DEF first_fit
  <1>2. b \in Blocks /\ b \in Nat /\ b < max_blocks /\ LongestRun(b, needed)
    BY <1>0, RunIsLongest DEF Fits, Blocks
  <1>3. start \in Blocks /\ IsFree(start, needed)
    BY <1>0, <1>1, <1>2 DEF LongestRun, IsFree, Blocks
  <1>4. ASSUME NEW s \in 0 .. start - 1, IsFree(s, needed)
        PROVE  FALSE
    <2>1. PICK d \in Fits(needed) : d <= s + needed - 1
      BY <1>0, <1>3, <1>4, FreeRunIsFound DEF Blocks
    <2>2. d \in Int /\ s < start /\ start \in Int
      BY <1>0, <1>3 DEF Fits, Blocks
    <2> QED BY <1>1, <1>2, <2>1, <2>2
  <1> QED BY <1>3, <1>4

(* ... and returns nothing only if there is no such run. *)
LEMMA FirstFitIsComplete ==
    ASSUME NEW needed \in Nat \ {0}, first_fit(needed) = {}, NEW s \in Nat
    PROVE  ~ IsFree(s, needed)
  <1>0. max_blocks \in Nat  BY BaselineConfig
  <1>1. SUFFICES ASSUME IsFree(s, needed) PROVE FALSE
    OBVIOUS
  <1>2. Fits(needed) # {}
    BY <1>1, FreeRunIsFound
  <1>3. Fits(needed) \in SUBSET Nat
    BY <1>0 DEF Fits, Blocks
  <1>4. PICK b \in Fits(needed) : \A d \in Fits(needed) : b <= d
    BY <1>2, <1>3, LeastNumber
  <1>5. b + 1 - needed \in first_fit(needed)
    BY <1>4 DEF first_fit
  <1> QED BY <1>5

-----------------------------------------------------------------------------
(* A servable request needs at least one block and as many as hold its prompt *)
(* and its whole budget.                                                      *)
LEMMA RequestSize ==
    ASSUME BaselineTypeOK, NEW n \in 1 .. NumRequests
    PROVE  /\ {trace[n].prompt, trace[n].budget, trace[n].actual} \subseteq Nat \ {0}
           /\ trace[n].actual <= trace[n].budget
           /\ servable(n) => /\ request_blocks(n) \in 1 .. max_blocks
                             /\ trace[n].prompt + trace[n].budget <= request_blocks(n) * tokens_per_block
  <1>1. trace[n] \in TraceRequest
    BY DEF BaselineTypeOK
  <1>2. PICK b \in Budgets : trace[n] \in [prompt : Prompts, budget : {b}, actual : 1 .. b]
    BY <1>1 DEF TraceRequest
  <1>3. /\ b \in Nat \ {0} /\ trace[n].budget = b
        /\ trace[n].prompt \in Nat \ {0} /\ trace[n].actual \in 1 .. b
    BY <1>2, BaselineConfig
  <1>4. ASSUME servable(n)
        PROVE  /\ request_blocks(n) \in 1 .. max_blocks
               /\ trace[n].prompt + trace[n].budget <= request_blocks(n) * tokens_per_block
    <2> DEFINE wanted == trace[n].prompt + trace[n].budget
    <2>1. wanted \in Nat \ {0} /\ tokens_per_block \in Nat \ {0}
          /\ max_blocks \in Nat /\ baseline_max_context \in Nat
      BY <1>3, BaselineConfig
    <2>2. request_blocks(n) = (wanted + tokens_per_block - 1) \div tokens_per_block
      <3>1. wanted <= baseline_max_context
        BY <1>4 DEF servable
      <3> QED BY <2>1, <3>1 DEF request_blocks, ceil_div
    <2> HIDE DEF wanted
    <2> DEFINE q == (wanted + tokens_per_block - 1) \div tokens_per_block
    <2>3. q \in Int /\ wanted <= q * tokens_per_block
      BY <2>1
    <2>4. q >= 1
      BY <2>1, <2>3
    <2>5. request_blocks(n) <= max_blocks
      BY <1>4 DEF servable
    <2> QED BY <2>1, <2>2, <2>3, <2>4, <2>5 DEF wanted
  <1> QED BY <1>3, <1>4

(* Removing a reservation moves the last one into its place. *)
LEMMA WithBackAtProperties ==
    ASSUME NEW S, NEW list \in Seq(S), NEW n \in 1 .. Len(list)
    PROVE  /\ WithBackAt(list, n) \in Seq(S)
           /\ Len(WithBackAt(list, n)) = Len(list) - 1
           /\ \A k \in 1 .. Len(list) - 1 :
                 WithBackAt(list, n)[k] = IF k = n THEN list[Len(list)] ELSE list[k]
  <1> DEFINE moved == [list EXCEPT ![n] = list[Len(list)]]
             m == Len(list) - 1
  <1>1. Len(list) \in Nat \ {0} /\ m \in Nat /\ m <= Len(list)
    OBVIOUS
  <1>2. /\ moved \in Seq(S) /\ Len(moved) = Len(list)
        /\ \A k \in 1 .. Len(list) : moved[k] = IF k = n THEN list[Len(list)] ELSE list[k]
    BY <1>1
  <1>3. WithBackAt(list, n) = SubSeq(moved, 1, m)
    BY DEF WithBackAt
  <1> HIDE DEF moved, m
  <1>4. /\ SubSeq(moved, 1, m) \in Seq(S)
        /\ Len(SubSeq(moved, 1, m)) = m
        /\ \A k \in 1 .. m : SubSeq(moved, 1, m)[k] = moved[k]
    <2>1. Len(SubSeq(moved, 1, m)) = m  BY <1>1, <1>2
    <2>2. \A k \in 1 .. m : SubSeq(moved, 1, m)[k] = moved[k]  BY <1>1, <1>2
    <2>3. SubSeq(moved, 1, m) \in Seq(S)  BY <1>1, <1>2
    <2> QED BY <2>1, <2>2, <2>3
  <1>5. \A k \in 1 .. m : k \in 1 .. Len(list)
    BY <1>1
  <1> QED BY <1>2, <1>3, <1>4, <1>5 DEF m

(* Where the reservation that ends up at place n was before place k of len was removed. *)
PlaceBefore(n, k, len) == IF n = k THEN len ELSE n

LEMMA PlacesMove ==
    ASSUME NEW len \in Nat, NEW k \in 1 .. len
    PROVE  /\ len - 1 \in Nat
           /\ \A n \in 1 .. len - 1 : PlaceBefore(n, k, len) \in 1 .. len /\ PlaceBefore(n, k, len) # k
           /\ \A m, n \in 1 .. len - 1 : m # n => PlaceBefore(m, k, len) # PlaceBefore(n, k, len)
           /\ \A n \in 1 .. len : n # k => \E m \in 1 .. len - 1 : PlaceBefore(m, k, len) = n
  <1> USE DEF PlaceBefore
  <1>1. ASSUME NEW n \in 1 .. len, n # k
        PROVE  \E m \in 1 .. len - 1 : PlaceBefore(m, k, len) = n
    <2>1. CASE n = len
      <3>1. k \in 1 .. len - 1 /\ PlaceBefore(k, k, len) = n  BY <1>1, <2>1
      <3> QED BY <3>1
    <2>2. CASE n # len
      <3>1. n \in 1 .. len - 1 /\ PlaceBefore(n, k, len) = n  BY <1>1, <2>2
      <3> QED BY <3>1
    <2> QED BY <2>1, <2>2
  <1> QED BY <1>1

(* The blocks of a reservation, their number, and the pool they lie in. *)
LEMMA RunSize ==
    ASSUME NEW a \in Reservation, a.start + a.count <= max_blocks
    PROVE  /\ IsFiniteSet(RunOf(a)) /\ Cardinality(RunOf(a)) = a.count
           /\ RunOf(a) \subseteq Blocks
  <1>1. a.start \in Nat /\ a.count \in Nat /\ max_blocks \in Nat
    BY BaselineConfig DEF Reservation, Blocks
  <1>2. /\ IsFiniteSet(a.start .. a.start + a.count - 1)
        /\ Cardinality(a.start .. a.start + a.count - 1) = a.count
    <2> DEFINE last == a.start + a.count - 1
    <2>1. a.start \in Int /\ last \in Int  BY <1>1
    <2>2. (IF a.start > last THEN 0 ELSE last - a.start + 1) = a.count  BY <1>1
    <2> HIDE DEF last
    <2>3. IsFiniteSet(a.start .. last) /\ Cardinality(a.start .. last) = a.count
      BY <2>1, <2>2, FS_Interval
    <2> QED BY <2>3 DEF last
  <1> QED BY <1>1, <1>2 DEF RunOf, Blocks

LEMMA BlocksFinite ==
    IsFiniteSet(Blocks) /\ Cardinality(Blocks) = max_blocks
  <1>1. max_blocks \in Nat  BY BaselineConfig
  <1> QED BY <1>1, FS_Interval DEF Blocks

(* The constants, one by one. *)
LEMMA Constants ==
    /\ max_blocks \in Nat /\ max_steps \in Nat /\ NumRequests \in Nat
    /\ tokens_per_block \in Nat \ {0} /\ max_active_requests \in Nat \ {0}
  BY BaselineConfig

-----------------------------------------------------------------------------
LEMMA InitBaselineInv == Init => BaselineInv
  <1> SUFFICES ASSUME Init PROVE BaselineInv
    OBVIOUS
  <1> USE DEF Init
  <1>1. active \in Seq(Reservation) /\ Len(active) = 0 /\ DOMAIN active = {}
    OBVIOUS
  <1>2. BaselineTypeOK
    <2>1. /\ blocks_in_use \in 0 .. max_blocks /\ next_pending \in 1 .. NumRequests + 1
          /\ completed \in 0 .. NumRequests /\ steps \in 0 .. max_steps /\ i \in Nat
      BY Constants
    <2>2. progress_made \in BOOLEAN /\ pc \in {"step", "admit", "decode", "done"}
      OBVIOUS
    <2>3. used \subseteq Blocks
      OBVIOUS
    <2> QED BY <1>1, <2>1, <2>2, <2>3 DEF BaselineTypeOK
  <1>3. ReservationsSound /\ RequestsCounted /\ TokensCounted
    BY <1>1 DEF ReservationsSound, RequestsCounted, TokensCounted
  <1>4. RunsDisjoint
    BY <1>1, FS_EmptySet DEF RunsDisjoint
  <1> QED BY <1>2, <1>3, <1>4 DEF BaselineInv

(* The steps that leave the reservations alone. *)
LEMMA ControlKeepsInv ==
    ASSUME BaselineInv, BeginStep \/ Finish \/ EndAdmission \/ EndStep \/ SkipUnservable
    PROVE  BaselineInv'
  <1> USE DEF BaselineInv
  <1>1. /\ Len(active) \in Nat
        /\ next_pending \in Nat /\ completed \in Nat /\ steps \in Nat /\ i \in Nat
    BY Constants DEF BaselineTypeOK
  <1>2. /\ UNCHANGED <<trace, used, blocks_in_use, active>>
        /\ next_pending' = next_pending \/ next_pending' = next_pending + 1
    BY DEF BeginStep, Finish, EndAdmission, EndStep, SkipUnservable
  <1>3. RequestsCounted'
    BY <1>1 DEF BeginStep, Finish, EndAdmission, EndStep, SkipUnservable, RequestsCounted
  <1>4. BaselineTypeOK'
    <2>1. next_pending' \in 1 .. NumRequests + 1
      BY <1>1, Constants DEF BaselineTypeOK, BeginStep, Finish, EndAdmission, EndStep, SkipUnservable, MayAdmit
    <2>2. completed' \in 0 .. NumRequests
      BY <1>1, <1>2, <1>3, <2>1, Constants, SMTT(40)
         DEF BaselineTypeOK, RequestsCounted, BeginStep, Finish, EndAdmission, EndStep, SkipUnservable
    <2>3. steps' \in 0 .. max_steps
      BY Constants DEF BaselineTypeOK, BeginStep, Finish, EndAdmission, EndStep, SkipUnservable
    <2>4. pc' \in {"step", "admit", "decode", "done"} /\ i' \in Nat
      BY <1>1 DEF BaselineTypeOK, BeginStep, Finish, EndAdmission, EndStep, SkipUnservable
    <2>5. progress_made' \in BOOLEAN
      BY Zenon DEF BaselineTypeOK, BeginStep, Finish, EndAdmission, EndStep, SkipUnservable
    <2> QED BY <1>2, <2>1, <2>2, <2>3, <2>4, <2>5 DEF BaselineTypeOK
  <1>5. ReservationsSound'
    <2>1. ASSUME NEW n \in DOMAIN active PROVE Reserved(active[n])'
      <3>1. Reserved(active[n]) /\ active[n] \in Reservation
        BY DEF ReservationsSound, BaselineTypeOK
      <3>2. active[n].index \in Nat
        BY <3>1, Constants DEF Reservation
      <3> QED BY <1>1, <1>2, <3>1, <3>2 DEF Reserved, servable, request_blocks
    <2> QED BY <1>2, <2>1 DEF ReservationsSound
  <1>6. TokensCounted'
    <2>1. \A n \in DOMAIN active : active[n].decoded \in Nat /\ active[n].since \in Nat
      <3>1. active \in Seq(Reservation)  BY DEF BaselineTypeOK
      <3>2. \A n \in DOMAIN active : active[n] \in Reservation  BY <3>1
      <3> QED BY <3>2 DEF Reservation
    <2>2. \A n \in DOMAIN active : n \in 1 .. Len(active)
      BY DEF BaselineTypeOK
    <2>3. CASE BeginStep
      BY <1>1, <2>1, <2>3 DEF TokensCounted, Served, BeginStep
    <2>4. CASE Finish
      BY <1>1, <2>1, <2>4 DEF TokensCounted, Served, Finish
    <2>5. CASE EndAdmission
      BY <1>1, <2>1, <2>2, <2>5 DEF TokensCounted, Served, EndAdmission
    <2>6. CASE EndStep
      BY <1>1, <2>1, <2>2, <2>6 DEF TokensCounted, Served, EndStep
    <2>7. CASE SkipUnservable
      BY <1>1, <2>1, <2>7 DEF TokensCounted, Served, SkipUnservable, MayAdmit
    <2> QED BY <2>3, <2>4, <2>5, <2>6, <2>7
  <1>7. RunsDisjoint'
    BY <1>2 DEF RunsDisjoint, RunOf
  <1> QED BY <1>3, <1>4, <1>5, <1>6, <1>7

LEMMA AdmitKeepsInv ==
    ASSUME BaselineInv, Admit
    PROVE  BaselineInv'
  <1> USE DEF BaselineInv
  <1> DEFINE needed == request_blocks(next_pending)
  <1>1. /\ Len(active) \in Nat /\ steps \in Nat /\ completed \in Nat
        /\ next_pending \in 1 .. NumRequests /\ servable(next_pending) /\ pc = "admit"
    BY Constants DEF BaselineTypeOK, Admit, MayAdmit
  <1>2. needed \in Nat \ {0} /\ needed <= max_blocks
    BY <1>1, RequestSize, Constants
  <1>3. PICK start \in first_fit(needed) :
           /\ used' = used \cup (start .. start + needed - 1)
           /\ active' = Append(active, [index |-> next_pending, start |-> start, count |-> needed,
                                        committed |-> trace[next_pending].prompt, decoded |-> 0,
                                        since |-> steps])
    BY DEF Admit
  <1>4. /\ blocks_in_use' = blocks_in_use + needed
        /\ next_pending' = next_pending + 1
        /\ progress_made' = TRUE
        /\ UNCHANGED <<trace, completed, steps, pc, i>>
    BY DEF Admit
  <1> HIDE DEF needed
  <1>5. start \in Blocks /\ IsFree(start, needed)
    BY <1>2, FirstFitIsLowest
  <1> DEFINE a == [index |-> next_pending, start |-> start, count |-> needed,
                   committed |-> trace[next_pending].prompt, decoded |-> 0, since |-> steps]
             m == Len(active) + 1
  <1>6. a \in Reservation /\ trace[next_pending].prompt \in Nat /\ trace[next_pending].actual \in Nat \ {0}
    BY <1>1, <1>2, <1>5, RequestSize DEF Reservation
  <1>7. /\ a.start = start /\ a.count = needed /\ a.decoded = 0 /\ a.since = steps
        /\ a.index = next_pending /\ a.committed = trace[next_pending].prompt
    OBVIOUS
  <1>8. active' = Append(active, a)
    BY <1>3
  <1> HIDE DEF a
  <1>9. /\ active' \in Seq(Reservation) /\ Len(active') = m /\ m \in Nat
        /\ DOMAIN active = 1 .. Len(active) /\ DOMAIN active' = 1 .. m
        /\ \A n \in 1 .. Len(active) : active'[n] = active[n]
        /\ active'[m] = a
    BY <1>1, <1>6, <1>8 DEF BaselineTypeOK
  <1>10. \A n \in 1 .. m : n \in 1 .. Len(active) \/ n = m
    BY <1>1
  <1> HIDE DEF m
  <1>11. RunOf(a) = start .. start + needed - 1
    BY <1>7 DEF RunOf
  <1>12. start + needed <= max_blocks /\ RunOf(a) \cap used = {}
    BY <1>5, <1>11 DEF IsFree
  <1>13. /\ IsFiniteSet(RunOf(a)) /\ Cardinality(RunOf(a)) = needed
         /\ RunOf(a) \subseteq Blocks
    BY <1>6, <1>7, <1>12, RunSize
  <1>14. RunsDisjoint'
    <2>1. used' = used \cup RunOf(a)
      BY <1>3, <1>11
    <2>2. \A n \in 1 .. Len(active) : RunOf(active[n]) \subseteq used
      BY <1>9 DEF RunsDisjoint
    <2>3. \A n \in 1 .. Len(active) : RunOf(active'[n]) = RunOf(active[n])
      BY <1>9
    <2>4. ASSUME NEW k \in 1 .. m, NEW n \in 1 .. m, k # n
          PROVE  RunOf(active'[k]) \cap RunOf(active'[n]) = {}
      BY <1>9, <1>10, <1>12, <2>2, <2>3, <2>4 DEF RunsDisjoint
    <2>5. used' = UNION {RunOf(active'[n]) : n \in 1 .. m}
      <3>1. used = UNION {RunOf(active[n]) : n \in 1 .. Len(active)}
        BY <1>9 DEF RunsDisjoint
      <3>2. m \in 1 .. m /\ \A n \in 1 .. Len(active) : n \in 1 .. m
        BY <1>1, <1>9 DEF m
      <3> QED BY <1>9, <1>10, <2>1, <2>3, <3>1, <3>2
    <2>6. blocks_in_use' = Cardinality(used')
      <3>1. IsFiniteSet(used) /\ Cardinality(used) \in Nat
        BY BlocksFinite, FS_Subset, FS_CardinalityType DEF BaselineTypeOK
      <3>2. Cardinality(used \cup RunOf(a)) = Cardinality(used) + needed - Cardinality(used \cap RunOf(a))
        BY <1>13, <3>1, FS_Union
      <3>3. Cardinality(used \cap RunOf(a)) = 0
        BY <1>12, FS_EmptySet
      <3> QED BY <1>2, <1>4, <2>1, <3>1, <3>2, <3>3 DEF RunsDisjoint
    <2> QED BY <1>9, <2>4, <2>5, <2>6 DEF RunsDisjoint, RunOf
  <1>15. RequestsCounted'
    BY <1>1, <1>4, <1>9 DEF RequestsCounted, m
  <1>16. BaselineTypeOK'
    <2>1. used' \subseteq Blocks
      BY <1>3, <1>11, <1>13 DEF BaselineTypeOK
    <2>2. blocks_in_use' \in 0 .. max_blocks
      <3>1. Cardinality(used') \in Nat /\ Cardinality(used') <= max_blocks
        BY <2>1, BlocksFinite, FS_Subset, FS_CardinalityType
      <3> QED BY <1>14, <3>1, Constants DEF RunsDisjoint
    <2>3. next_pending' \in 1 .. NumRequests + 1
      BY <1>1, <1>4, Constants
    <2> QED BY <1>4, <1>9, <2>1, <2>2, <2>3 DEF BaselineTypeOK
  <1>17. ReservationsSound'
    <2>1. ASSUME NEW n \in 1 .. Len(active) PROVE Reserved(active[n])'
      <3>1. Reserved(active[n]) /\ active[n] \in Reservation
        BY <1>9, <2>1 DEF ReservationsSound, BaselineTypeOK
      <3>2. active[n].index \in Nat
        BY <3>1, Constants DEF Reservation
      <3>3. active'[n] = active[n]
        BY <1>9
      <3> QED BY <1>1, <1>4, <3>1, <3>2, <3>3 DEF Reserved, servable, request_blocks
    <2>2. ASSUME NEW n \in 1 .. m, n = m PROVE Reserved(active[n])'
      BY <2>2, <1>1, <1>4, <1>6, <1>7, <1>9, <1>12 DEF Reserved, servable, request_blocks, needed
    <2> QED BY <1>9, <1>10, <2>1, <2>2 DEF ReservationsSound
  <1>18. TokensCounted'
    <2>1. \A n \in 1 .. Len(active) : active[n].decoded = steps - active[n].since + 0
      BY <1>1, <1>9 DEF TokensCounted, Served
    <2> QED BY <1>1, <1>4, <1>7, <1>9, <1>10, <2>1 DEF TokensCounted, Served
  <1> QED BY <1>14, <1>15, <1>16, <1>17, <1>18

(* Decode of a request that goes on: its reservation has one token more. *)
LEMMA DecodeOnKeepsInv ==
    ASSUME BaselineInv, pc = "decode", i <= Len(active),
           NEW a, a = [active[i] EXCEPT !.committed = @ + 1, !.decoded = @ + 1],
           ~ (a.decoded >= trace[a.index].actual),
           active' = [active EXCEPT ![i] = a], i' = i + 1, progress_made' = TRUE,
           UNCHANGED <<used, blocks_in_use, completed, trace, next_pending, steps, pc>>
    PROVE  BaselineInv'
  <1> USE DEF BaselineInv
  <1>1. /\ Len(active) \in Nat /\ active \in Seq(Reservation) /\ steps \in Nat
        /\ i \in 1 .. Len(active) /\ DOMAIN active = 1 .. Len(active)
    BY Constants DEF BaselineTypeOK, TokensCounted
  <1>2. active[i] \in Reservation /\ Reserved(active[i])
    BY <1>1 DEF ReservationsSound
  <1>3. /\ a \in Reservation
        /\ a.committed = active[i].committed + 1 /\ a.decoded = active[i].decoded + 1
        /\ a.index = active[i].index /\ a.start = active[i].start
        /\ a.count = active[i].count /\ a.since = active[i].since
    <2> DEFINE r == active[i]
    <2>1. r \in Reservation /\ a = [r EXCEPT !.committed = r.committed + 1, !.decoded = r.decoded + 1]
      BY <1>2
    <2> HIDE DEF r
    <2>2. r.committed + 1 \in Nat /\ r.decoded + 1 \in Nat
      BY <2>1 DEF Reservation
    <2> QED BY <2>1, <2>2 DEF Reservation, r
  <1>4. /\ active' \in Seq(Reservation) /\ Len(active') = Len(active)
        /\ DOMAIN active' = 1 .. Len(active)
        /\ active'[i] = a
        /\ \A n \in 1 .. Len(active) : n # i => active'[n] = active[n]
    BY <1>1, <1>3
  <1>5. trace[a.index].actual \in Nat /\ a.index \in 1 .. NumRequests
    BY <1>2, <1>3, RequestSize DEF Reservation
  <1>6. BaselineTypeOK'
    BY <1>1, <1>4 DEF BaselineTypeOK
  <1>7. ReservationsSound'
    <2>1. ASSUME NEW n \in 1 .. Len(active) PROVE Reserved(active[n])'
      <3>1. CASE n = i
        <4>1. active'[n] = a  BY <1>4, <3>1
        <4>2. /\ a.committed = trace[a.index].prompt + a.decoded
              /\ a.decoded < trace[a.index].actual
          <5>1. active[i].decoded \in Nat /\ active[i].committed \in Nat
            BY <1>2 DEF Reservation
          <5>2. trace[a.index].prompt \in Nat
            BY <1>5, RequestSize
          <5>3. active[i].committed = trace[a.index].prompt + active[i].decoded
            BY <1>2, <1>3 DEF Reserved
          <5>4. a.decoded \in Nat /\ a.decoded < trace[a.index].actual
            BY <1>3, <1>5, <5>1, SMTT(40)
          <5> QED BY ONLY <1>3, <5>1, <5>2, <5>3, <5>4
        <4> QED BY <1>2, <1>3, <4>1, <4>2 DEF Reserved, servable, request_blocks
      <3>2. CASE n # i
        <4>1. active'[n] = active[n] /\ Reserved(active[n])
          BY <1>1, <1>4, <3>2 DEF ReservationsSound
        <4> QED BY <4>1 DEF Reserved, servable, request_blocks
      <3> QED BY <3>1, <3>2
    <2> QED BY <1>4, <2>1 DEF ReservationsSound
  <1>8. RequestsCounted'
    BY <1>4 DEF RequestsCounted
  <1>9. TokensCounted'
    <2>1. i' \in 1 .. Len(active') + 1
      BY <1>1, <1>4
    <2>2. ASSUME NEW n \in 1 .. Len(active)
          PROVE  active'[n].decoded = steps - active'[n].since + (IF n < i + 1 THEN 1 ELSE 0)
      <3>1. active[n].decoded = steps - active[n].since + (IF n < i THEN 1 ELSE 0)
        BY <1>1 DEF TokensCounted, Served
      <3>2. active[n].since \in Nat
        <4>1. active[n] \in Reservation  BY <1>1
        <4> QED BY <4>1 DEF Reservation
      <3>3. CASE n = i
        BY <1>1, <1>3, <1>4, <3>1, <3>2, <3>3
      <3>4. CASE n # i
        BY <1>1, <1>4, <3>1, <3>4
      <3> QED BY <3>3, <3>4
    <2> QED BY <1>4, <2>1, <2>2 DEF TokensCounted, Served
  <1>10. RunsDisjoint'
    <2>1. \A n \in 1 .. Len(active) :
             active'[n].start = active[n].start /\ active'[n].count = active[n].count
      BY <1>3, <1>4
    <2>2. \A n \in 1 .. Len(active) : RunOf(active'[n]) = RunOf(active[n])
      BY <2>1 DEF RunOf
    <2>3. {RunOf(active'[n]) : n \in 1 .. Len(active)} = {RunOf(active[n]) : n \in 1 .. Len(active)}
      BY <2>2
    <2>4. \A k, n \in 1 .. Len(active) : k # n => RunOf(active'[k]) \cap RunOf(active'[n]) = {}
      BY <1>1, <2>2 DEF RunsDisjoint
    <2> QED BY <1>1, <1>4, <2>3, <2>4 DEF RunsDisjoint, RunOf
  <1> QED BY <1>6, <1>7, <1>8, <1>9, <1>10

(* Decode of a request that is done: its run goes back and the last           *)
(* reservation takes its place.                                               *)
LEMMA DecodeDoneKeepsInv ==
    ASSUME BaselineInv, pc = "decode", i <= Len(active), NEW a,
           a.start = active[i].start, a.count = active[i].count,
           used' = used \ RunOf(a), blocks_in_use' = blocks_in_use - a.count,
           active' = WithBackAt(active, i), completed' = completed + 1,
           i' = i, progress_made' = TRUE,
           UNCHANGED <<trace, next_pending, steps, pc>>
    PROVE  BaselineInv'
  <1> USE DEF BaselineInv
  <1> DEFINE m == Len(active) - 1
             Old(n) == PlaceBefore(n, i, Len(active))
  <1>1. /\ Len(active) \in Nat /\ active \in Seq(Reservation) /\ steps \in Nat
        /\ i \in 1 .. Len(active) /\ DOMAIN active = 1 .. Len(active)
    BY Constants DEF BaselineTypeOK, TokensCounted
  <1>2. /\ active' \in Seq(Reservation) /\ Len(active') = m /\ DOMAIN active' = 1 .. m
        /\ \A n \in 1 .. m : active'[n] = active[Old(n)]
    <2>1. /\ active' \in Seq(Reservation) /\ Len(active') = m
          /\ \A n \in 1 .. m : active'[n] = IF n = i THEN active[Len(active)] ELSE active[n]
      BY <1>1, WithBackAtProperties, ZenonT(60)
    <2>2. DOMAIN active' = 1 .. m
      BY <2>1
    <2> QED BY <2>1, <2>2, SMTT(40) DEF PlaceBefore
  <1>3. /\ m \in Nat
        /\ \A n \in 1 .. m : Old(n) \in 1 .. Len(active) /\ Old(n) # i
        /\ \A k, n \in 1 .. m : k # n => Old(k) # Old(n)
        /\ \A n \in 1 .. Len(active) : n # i => \E k \in 1 .. m : Old(k) = n
    BY <1>1, PlacesMove DEF PlaceBefore
  <1>4. active[i] \in Reservation /\ Reserved(active[i])
    BY <1>1 DEF ReservationsSound
  <1>5. /\ RunOf(a) = RunOf(active[i]) /\ RunOf(a) \subseteq used
        /\ IsFiniteSet(RunOf(a)) /\ Cardinality(RunOf(a)) = a.count /\ a.count \in Nat
    <2>1. RunOf(a) = RunOf(active[i])
      BY DEF RunOf
    <2>2. RunOf(active[i]) \subseteq used
      BY <1>1 DEF RunsDisjoint
    <2>3. active[i].start + active[i].count <= max_blocks /\ active[i].count \in Nat
      BY <1>4 DEF Reserved, Reservation
    <2>4. IsFiniteSet(RunOf(active[i])) /\ Cardinality(RunOf(active[i])) = active[i].count
      BY <1>4, <2>3, RunSize
    <2> QED BY <2>1, <2>2, <2>3, <2>4
  <1>6. RunsDisjoint'
    <2> HIDE DEF m, Old
    <2>1. \A n \in 1 .. m : RunOf(active'[n]) = RunOf(active[Old(n)])
      BY <1>2
    <2>2. \A k, n \in 1 .. m : k # n => RunOf(active'[k]) \cap RunOf(active'[n]) = {}
      <3>1. SUFFICES ASSUME NEW k \in 1 .. m, NEW n \in 1 .. m, k # n
                     PROVE  RunOf(active'[k]) \cap RunOf(active'[n]) = {}
        OBVIOUS
      <3>2. RunOf(active[Old(k)]) \cap RunOf(active[Old(n)]) = {}
        BY <1>1, <1>3, <3>1 DEF RunsDisjoint
      <3> QED BY <2>1, <3>2
    <2>3. used' = UNION {RunOf(active'[n]) : n \in 1 .. m}
      <3>1. used = UNION {RunOf(active[n]) : n \in 1 .. Len(active)}
        BY <1>1 DEF RunsDisjoint
      <3>2. \A n \in 1 .. Len(active) : n # i => RunOf(active[n]) \cap RunOf(active[i]) = {}
        BY <1>1 DEF RunsDisjoint
      <3>3. ASSUME NEW b \in used' PROVE \E n \in 1 .. m : b \in RunOf(active'[n])
        <4>1. b \in used /\ b \notin RunOf(active[i])  BY <1>5, <3>3
        <4>2. PICK n \in 1 .. Len(active) : b \in RunOf(active[n])  BY <3>1, <4>1
        <4>3. PICK k \in 1 .. m : Old(k) = n  BY <1>3, <4>1, <4>2
        <4> QED BY <2>1, <4>2, <4>3
      <3>4. ASSUME NEW n \in 1 .. m, NEW b \in RunOf(active'[n]) PROVE b \in used'
        <4>1. b \in RunOf(active[Old(n)]) /\ Old(n) \in 1 .. Len(active) /\ Old(n) # i
          BY <1>3, <2>1, <3>4
        <4>2. b \in used /\ b \notin RunOf(active[i])
          BY <3>1, <3>2, <4>1
        <4> QED BY <1>5, <4>2
      <3> QED BY <3>3, <3>4
    <2>4. blocks_in_use' = Cardinality(used')
      <3>1. IsFiniteSet(used) /\ Cardinality(used) \in Nat
        BY BlocksFinite, FS_Subset, FS_CardinalityType DEF BaselineTypeOK
      <3>2. Cardinality(used \ RunOf(a)) = Cardinality(used) - Cardinality(used \cap RunOf(a))
        BY <3>1, FS_Difference
      <3>3. used \cap RunOf(a) = RunOf(a)
        BY <1>5
      <3> QED BY <1>5, <3>1, <3>2, <3>3 DEF RunsDisjoint
    <2> QED BY ONLY <1>2, <2>2, <2>3, <2>4 DEF RunsDisjoint
  <1>7. RequestsCounted'
    BY <1>1, <1>2, Constants DEF RequestsCounted, BaselineTypeOK
  <1>8. BaselineTypeOK'
    <2>1. used' \subseteq Blocks
      BY DEF BaselineTypeOK
    <2>2. blocks_in_use' \in 0 .. max_blocks
      <3>1. Cardinality(used') \in Nat /\ Cardinality(used') <= max_blocks
        BY <2>1, BlocksFinite, FS_Subset, FS_CardinalityType
      <3> QED BY <1>6, <3>1, Constants DEF RunsDisjoint
    <2>3. completed' \in 0 .. NumRequests
      <3>1. next_pending \in 1 .. NumRequests + 1 /\ completed \in 0 .. NumRequests
        BY DEF BaselineTypeOK
      <3> QED BY <1>1, <3>1, Constants, SMTT(40) DEF RequestsCounted
    <2> QED BY <1>2, <2>1, <2>2, <2>3 DEF BaselineTypeOK
  <1>9. ReservationsSound'
    <2> HIDE DEF m, Old
    <2>1. ASSUME NEW n \in 1 .. m PROVE Reserved(active[n])'
      <3>1. active'[n] = active[Old(n)] /\ Reserved(active[Old(n)])
        BY <1>1, <1>2, <1>3 DEF ReservationsSound
      <3> QED BY <3>1 DEF Reserved, servable, request_blocks
    <2> QED BY <1>2, <2>1 DEF ReservationsSound
  <1>10. TokensCounted'
    <2>1. i \in 1 .. m + 1
      BY <1>1
    <2>2. ASSUME NEW n \in 1 .. m
          PROVE  active'[n].decoded = steps - active'[n].since + (IF n < i THEN 1 ELSE 0)
      <3>1. active'[n] = active[Old(n)] /\ Old(n) \in 1 .. Len(active)
        BY <1>2, <1>3
      <3>2. Old(n) < i <=> n < i
        BY <1>1 DEF PlaceBefore
      <3> HIDE DEF Old
      <3>3. active[Old(n)].decoded = steps - active[Old(n)].since + (IF Old(n) < i THEN 1 ELSE 0)
        BY <1>1, <3>1 DEF TokensCounted, Served
      <3> QED BY <3>1, <3>2, <3>3
    <2> QED BY <1>2, <2>1, <2>2 DEF TokensCounted, Served
  <1> QED BY <1>6, <1>7, <1>8, <1>9, <1>10

LEMMA DecodeKeepsInv ==
    ASSUME BaselineInv, Decode
    PROVE  BaselineInv'
  <1> DEFINE a == [active[i] EXCEPT !.committed = @ + 1, !.decoded = @ + 1]
  <1>1. /\ pc = "decode" /\ i <= Len(active) /\ progress_made' = TRUE
        /\ UNCHANGED <<trace, next_pending, steps, pc>>
    BY DEF Decode
  <1>2. CASE a.decoded >= trace[a.index].actual
    <2>1. /\ used' = used \ RunOf(a) /\ blocks_in_use' = blocks_in_use - a.count
          /\ active' = WithBackAt(active, i) /\ completed' = completed + 1 /\ i' = i
      BY <1>2 DEF Decode, NextIndex
    <2>2. a.start = active[i].start /\ a.count = active[i].count
      <3>1. active[i] \in Reservation
        BY <1>1 DEF BaselineInv, BaselineTypeOK, TokensCounted
      <3> QED BY <3>1 DEF Reservation
    <2> HIDE DEF a
    <2> QED BY <1>1, <2>1, <2>2, DecodeDoneKeepsInv
  <1>3. CASE ~ (a.decoded >= trace[a.index].actual)
    <2>1. /\ active' = [active EXCEPT ![i] = a] /\ i' = i + 1
          /\ UNCHANGED <<used, blocks_in_use, completed>>
      BY <1>3 DEF Decode, NextIndex
    <2> QED BY <1>1, <1>3, <2>1, DecodeOnKeepsInv
  <1> QED BY <1>2, <1>3

(* The loop of run_contiguous keeps the invariant, whatever the trace. *)
THEOREM BaselineInvariant == Spec => []BaselineInv
  <1>1. BaselineInv /\ [Next]_baselineVars => BaselineInv'
    <2> SUFFICES ASSUME BaselineInv, [Next]_baselineVars PROVE BaselineInv'
      OBVIOUS
    <2>1. CASE UNCHANGED baselineVars
      BY <2>1 DEF baselineVars, BaselineInv, BaselineTypeOK, ReservationsSound, Reserved, servable,
                  request_blocks, RequestsCounted, TokensCounted, Served, RunsDisjoint, RunOf
    <2>2. CASE Next
      BY <2>2, ControlKeepsInv, AdmitKeepsInv, DecodeKeepsInv DEF Next
    <2> QED BY <2>1, <2>2
  <1> QED BY <1>1, InitBaselineInv, PTL DEF Spec

-----------------------------------------------------------------------------
(* The variables keep their types; in particular blocks_in_use never exceeds  *)
(* the pool and completed never exceeds the trace.                            *)
THEOREM BaselineTypeCorrect == Spec => []BaselineTypeOK
  BY BaselineInvariant, PTL DEF BaselineInv

(* used is the disjoint union of the active runs, and blocks_in_use is its    *)
(* size: run_contiguous neither hands a block out twice nor loses one.        *)
THEOREM BlocksAccounted == Spec => []RunsDisjoint
  BY BaselineInvariant, PTL DEF BaselineInv

(* No request is ever decoded past the end of its run. *)
THEOREM NeverOverruns == Spec => []TokensFit
  <1>1. BaselineInv => TokensFit
    <2> SUFFICES ASSUME BaselineInv, NEW n \in DOMAIN active
                 PROVE  active[n].committed + 1 <= active[n].count * tokens_per_block
      BY DEF TokensFit
    <2> DEFINE r == active[n]
    <2>1. r \in Reservation /\ Reserved(r)
      BY DEF BaselineInv, BaselineTypeOK, ReservationsSound
    <2> HIDE DEF r
    <2>2. r.index \in 1 .. NumRequests /\ r.decoded \in Nat
      BY <2>1 DEF Reservation
    <2> DEFINE request == trace[r.index]
    <2>3. /\ {request.prompt, request.budget, request.actual} \subseteq Nat \ {0}
          /\ request.actual <= request.budget
          /\ request.prompt + request.budget <= request_blocks(r.index) * tokens_per_block
          /\ request_blocks(r.index) \in 1 .. max_blocks
      BY <2>1, <2>2, RequestSize DEF BaselineInv, Reserved
    <2>4. /\ r.count = request_blocks(r.index)
          /\ r.committed = request.prompt + r.decoded
          /\ r.decoded < request.actual
      BY <2>1 DEF Reserved
    <2>5. r.count * tokens_per_block \in Nat
      BY <2>3, <2>4, Constants
    <2> HIDE DEF request
    <2>6. r.committed + 1 <= r.count * tokens_per_block
      BY <2>2, <2>3, <2>4, <2>5
    <2> QED BY <2>6 DEF r
  <1> QED BY <1>1, BaselineInvariant, PTL

(* Although Decode removes reservations by moving the last one forward, every *)
(* active request gets one token in every step.                               *)
THEOREM OneTokenEach == Spec => []OneTokenPerStep
  <1>1. BaselineInv => OneTokenPerStep
    BY DEF BaselineInv, TokensCounted, Served, OneTokenPerStep
  <1> QED BY <1>1, BaselineInvariant, PTL

(* An admission takes the lowest free run that is long enough, and admission  *)
(* only stops at a request for which no free run is long enough.              *)
THEOREM AdmitsFirstFit == Spec => FirstFit
  <1> DEFINE A == /\ Len(active') > Len(active) =>
                        LET a == active'[Len(active')]
                        IN  IsFree(a.start, a.count) /\ \A b \in 0 .. a.start - 1 : ~IsFree(b, a.count)
                  /\ pc = "admit" /\ pc' = "decode" /\ MayAdmit =>
                        \A b \in Blocks : ~IsFree(b, request_blocks(next_pending))
  <1>1. BaselineInv /\ [Next]_baselineVars => [A]_baselineVars
    <2> SUFFICES ASSUME BaselineInv, Next PROVE A
      OBVIOUS
    <2>1. Len(active) \in Nat /\ active \in Seq(Reservation)
      BY DEF BaselineInv, BaselineTypeOK
    <2>2. CASE Admit
      <3> DEFINE needed == request_blocks(next_pending)
      <3>1. next_pending \in 1 .. NumRequests /\ servable(next_pending)
        BY <2>2, Constants DEF Admit, MayAdmit, BaselineInv, BaselineTypeOK
      <3>2. needed \in Nat \ {0}
        BY <3>1, RequestSize, Constants DEF BaselineInv
      <3>3. PICK start \in first_fit(needed) :
               active' = Append(active, [index |-> next_pending, start |-> start, count |-> needed,
                                         committed |-> trace[next_pending].prompt, decoded |-> 0,
                                         since |-> steps])
        BY <2>2 DEF Admit
      <3>4. pc' = pc
        BY <2>2 DEF Admit
      <3> HIDE DEF needed
      <3>5. IsFree(start, needed) /\ \A s \in 0 .. start - 1 : ~IsFree(s, needed)
        BY <3>2, FirstFitIsLowest
      <3>6. active'[Len(active')].start = start /\ active'[Len(active')].count = needed
        BY <2>1, <3>3
      <3> QED BY <3>4, <3>5, <3>6
    <2>3. CASE EndAdmission
      <3>1. active' = active
        BY <2>3 DEF EndAdmission
      <3>2. ASSUME MayAdmit, NEW b \in Blocks
            PROVE  ~IsFree(b, request_blocks(next_pending))
        <4>1. /\ next_pending \in 1 .. NumRequests /\ servable(next_pending)
              /\ first_fit(request_blocks(next_pending)) = {}
          BY <2>3, <3>2, Constants DEF EndAdmission, MayAdmit, BaselineInv, BaselineTypeOK
        <4>2. request_blocks(next_pending) \in Nat \ {0}
          BY <4>1, RequestSize, Constants DEF BaselineInv
        <4>3. b \in Nat
          BY Constants DEF Blocks
        <4> QED BY <4>1, <4>2, <4>3, FirstFitIsComplete
      <3> QED BY <2>1, <3>1, <3>2
    <2>4. CASE Decode
      <3>1. i \in 1 .. Len(active) /\ pc' = pc
        BY <2>1, <2>4 DEF Decode, BaselineInv, BaselineTypeOK, TokensCounted
      <3>2. Len(active') <= Len(active)
        <4>1. Len(WithBackAt(active, i)) = Len(active) - 1
          BY <2>1, <3>1, WithBackAtProperties
        <4>2. active' = WithBackAt(active, i) \/ \E a : active' = [active EXCEPT ![i] = a]
          BY <2>4 DEF Decode
        <4> QED BY <2>1, <4>1, <4>2
      <3>3. Len(active') \in Nat /\ ~ (Len(active') > Len(active))
        <4>1. BaselineInv'
          BY <2>4, DecodeKeepsInv
        <4>2. active' \in Seq(Reservation)
          BY <4>1 DEF BaselineInv, BaselineTypeOK
        <4>3. Len(active') \in Nat
          BY <4>2
        <4> QED BY <2>1, <3>2, <4>3
      <3> QED BY <2>4, <3>1, <3>3 DEF Decode
    <2>5. CASE BeginStep \/ SkipUnservable \/ EndStep \/ Finish
      BY <2>1, <2>5 DEF BeginStep, SkipUnservable, EndStep, Finish, MayAdmit
    <2> QED BY <2>2, <2>3, <2>4, <2>5 DEF Next
  <1> QED BY <1>1, BaselineInvariant, PTL DEF Spec, FirstFit
=============================================================================
