------------------------ MODULE KVCacheManagerProofs ------------------------
(***************************************************************************)
(* Proofs about KVCacheManager for every pool, number of tables, sequences *)
(* and slots.  Structure is the invariant about the shape of the data      *)
(* structures; the reference counts (RefCountsExact) and the users of      *)
(* prefix records (PrefixUsersExact) are shown on top of it.               *)
(***************************************************************************)
EXTENDS KVCacheManager, TLAPS, FiniteSetTheorems, SequenceTheorems

(* All tables of a sequence have the same length, within the bound; only a    *)
(* sequence that exists has blocks, a prefix or a request, and one with a     *)
(* prefix has blocks.                                                         *)
TablesShaped ==
    \A s \in SeqIds :
        /\ \A l \in Tables : Len(tables[s][l]) = Len(tables[s][1])
        /\ Len(tables[s][1]) <= MaxBlocks
        /\ s \notin sequences => tables[s] = NoTables /\ prefix[s] = NoPrefix
        /\ s \in sequences => request_of[s] \in Requests
        /\ prefix[s].key # NoKey => Len(tables[s][1]) > 0

(* There are finitely many prefix records; the records of a key differ in     *)
(* their contents, and each pins at least one block in every table.           *)
IndexShaped(index) ==
    /\ IsFiniteSet(Records(index))
    /\ \A k \in Keys : \A rec \in index[k] :
          /\ \A l \in Tables : Len(rec.ids[l]) = Len(rec.ids[1])
          /\ Len(rec.ids[1]) \in 1 .. MaxBlocks
          /\ \A other \in index[k] : other.hash = rec.hash => other = rec
RecordsShaped == IndexShaped(prefix_index)

(* A request lists exactly its sequences, none of them twice. *)
RequestsListed ==
    \A r \in Requests :
        /\ IsInjective(sequences_by_request[r])
        /\ SequencesFor(r) = {s \in sequences : request_of[s] = r}

(* The slots in use are the slots of the swapped-out entries, and no two      *)
(* entries have the same one.                                                 *)
SlotOf(p) == At(p[1], p[2]).slot
SlotsHeld ==
    /\ \A k \in Slots : swap[k] # NoContent <=> \E p \in Absentees(sequences) : SlotOf(p) = k
    /\ \A p, q \in Absentees(sequences) : SlotOf(p) = SlotOf(q) => p = q

Structure ==
    /\ TypeOK
    /\ TablesShaped
    /\ RecordsShaped
    /\ RequestsListed
    /\ SlotsHeld

-----------------------------------------------------------------------------
(* Arithmetic. *)

(* Of items of one size laid side by side, a later one starts past an earlier. *)
LEMMA ItemsApart ==
    ASSUME NEW i \in Nat, NEW j \in Nat, NEW m \in Nat, i < j
    PROVE  /\ i * m \in Nat
           /\ i * m + m <= j * m
  <1>1. PICK d \in Nat : j = i + 1 + d
    <2>1. j - i - 1 \in Nat /\ j = i + 1 + (j - i - 1)
      OBVIOUS
    <2> QED BY <2>1
  <1>2. j * m = i * m + m + d * m /\ i * m \in Nat /\ d * m \in Nat
    BY <1>1
  <1> QED BY <1>2

(* The number with last digit b and the rest a. *)
Number(a, base, b) == a * base + b

(* A digit below the base and a rest below n make a number below n * base. *)
LEMMA DigitInRange ==
    ASSUME NEW a \in Nat, NEW b \in Nat, NEW base \in Nat, NEW n \in Nat, a < n, b < base
    PROVE  Number(a, base, b) \in Nat /\ Number(a, base, b) < n * base
  <1>1. a * base \in Nat /\ a * base + base <= n * base
    BY ItemsApart
  <1>2. n * base \in Nat
    OBVIOUS
  <1> QED BY <1>1, <1>2 DEF Number

(* A number has its digits in one way only. *)
LEMMA DigitsUnique ==
    ASSUME NEW a \in Nat, NEW b \in Nat, NEW c \in Nat, NEW d \in Nat, NEW base \in Nat,
           b < base, d < base, Number(a, base, b) = Number(c, base, d)
    PROVE  a = c /\ b = d
  <1>1. a * base \in Nat /\ c * base \in Nat /\ a * base + b = c * base + d
    BY DEF Number
  <1>2. ~(a < c)
    <2> SUFFICES ASSUME a < c PROVE FALSE
      OBVIOUS
    <2>1. a * base + base <= c * base
      BY ItemsApart
    <2> QED BY <2>1, <1>1
  <1>3. ~(c < a)
    <2> SUFFICES ASSUME c < a PROVE FALSE
      OBVIOUS
    <2>1. c * base + base <= a * base
      BY ItemsApart
    <2> QED BY <2>1, <1>1
  <1>4. a = c
    BY <1>2, <1>3
  <1> QED BY <1>1, <1>4

(* Quotient and remainder are the two digits of a number. *)
LEMMA Division ==
    ASSUME NEW n \in Nat, NEW b \in Nat, b > 0
    PROVE  /\ n \div b \in Nat /\ n % b \in Nat /\ n % b < b
           /\ n = (n \div b) * b + (n % b)
  OBVIOUS

LEMMA DivisionOf ==
    ASSUME NEW q \in Nat, NEW r \in Nat, NEW b \in Nat, r < b
    PROVE  /\ q * b + r \in Nat
           /\ (q * b + r) \div b = q
           /\ (q * b + r) % b = r
  <1>1. q * b \in Nat
    BY ItemsApart
  <1>2. b > 0 /\ q * b + r \in Nat
    BY <1>1
  <1> DEFINE n == q * b + r
  <1>3. n \in Nat
    BY <1>2
  <1> HIDE DEF n
  <1>4. /\ n \div b \in Nat /\ n % b \in Nat /\ n % b < b
        /\ n = (n \div b) * b + (n % b)
    BY <1>2, <1>3, Division
  <1>5. Number(n \div b, b, n % b) = Number(q, b, r)
    BY <1>4 DEF Number, n
  <1>6. n \div b = q /\ n % b = r
    BY <1>4, <1>5, DigitsUnique
  <1> QED BY <1>2, <1>6 DEF n

(* Every nonempty set of numbers has a least element. *)
LEMMA LeastNumber ==
    ASSUME NEW T \in SUBSET Nat, T # {}
    PROVE  \E x \in T : \A y \in T : x <= y
  <1>1. PICK x \in T : \A y \in T : ~ (<<y, x>> \in OpToRel(<, Nat))
    BY NatLessThanWellFounded, WFMin, Zenon
  <1>2. \A y \in T : ~(y < x)
    BY <1>1 DEF OpToRel
  <1> QED BY <1>2

(* The recurrence that Kept solves, for the first places of the list. *)
Filter(list, keep, m, kept) ==
    kept = [n \in 0 .. m |->
              IF n = 0 THEN <<>>
              ELSE IF list[n] \in keep THEN Append(kept[n - 1], list[n]) ELSE kept[n - 1]]

LEMMA FilterExists ==
    ASSUME NEW list, NEW keep, NEW m \in Nat
    PROVE  \E kept : Filter(list, keep, m, kept)
  <1> DEFINE T == {n \in Nat : ~ \E kept : Filter(list, keep, n, kept)}
  <1>1. SUFFICES ASSUME T # {} PROVE FALSE
    OBVIOUS
  <1>2. PICK n \in T : \A k \in T : n <= k
    BY <1>1, LeastNumber
  <1>3. CASE n = 0
    <2>1. Filter(list, keep, 0, [b \in 0 .. 0 |-> <<>>])
      BY DEF Filter
    <2> QED BY <1>2, <1>3, <2>1
  <1>4. CASE n # 0
    <2>1. n - 1 \in Nat /\ n - 1 \notin T
      BY <1>2, <1>4
    <2>2. PICK kept : Filter(list, keep, n - 1, kept)
      BY <2>1
    <2> DEFINE last == IF list[n] \in keep THEN Append(kept[n - 1], list[n]) ELSE kept[n - 1]
               next == [b \in 0 .. n |-> IF b = n THEN last ELSE kept[b]]
    <2>3. \A b \in 0 .. n - 1 : next[b] = kept[b]
      BY <2>1
    <2>4. next[n] = last
      BY <2>1
    <2>5. ASSUME NEW b \in 0 .. n
          PROVE  next[b] = IF b = 0 THEN <<>>
                           ELSE IF list[b] \in keep THEN Append(next[b - 1], list[b]) ELSE next[b - 1]
      <3>1. CASE b = n
        BY <1>4, <2>1, <2>3, <2>4, <3>1
      <3>2. CASE b # n
        <4>1. b \in 0 .. n - 1  BY <2>1, <3>2
        <4>2. kept[b] = IF b = 0 THEN <<>>
                        ELSE IF list[b] \in keep THEN Append(kept[b - 1], list[b]) ELSE kept[b - 1]
          BY <2>2, <4>1 DEF Filter
        <4>3. b # 0 => b - 1 \in 0 .. n - 1  BY <2>1, <4>1
        <4> QED BY <2>3, <4>1, <4>2, <4>3
      <3> QED BY <3>1, <3>2
    <2> HIDE DEF last
    <2>6. Filter(list, keep, n, next)
      BY <2>5 DEF Filter
    <2> QED BY <1>2, <2>6
  <1> QED BY <1>3, <1>4

(* Kept filters: what is left is what was there and is to be kept, and a list *)
(* without repetitions has none afterwards.                                   *)
LEMMA KeptProperties ==
    ASSUME NEW T, NEW list \in Seq(T), NEW keep
    PROVE  /\ Kept(list, keep) \in Seq(T)
           /\ Range(Kept(list, keep)) = Range(list) \cap keep
           /\ IsInjective(list) => IsInjective(Kept(list, keep))
  <1>1. PICK kept : Filter(list, keep, Len(list), kept) /\ Kept(list, keep) = kept[Len(list)]
    <2> DEFINE f == CHOOSE kept : Filter(list, keep, Len(list), kept)
    <2>1. Kept(list, keep) = f[Len(list)]
      BY DEF Kept, Filter
    <2>2. Filter(list, keep, Len(list), f)
      <3>1. Len(list) \in Nat  OBVIOUS
      <3>2. \E kept : Filter(list, keep, Len(list), kept)  BY <3>1, FilterExists
      <3> QED BY <3>2
    <2> QED BY <2>1, <2>2
  <1> DEFINE First(n) == {list[i] : i \in 1 .. n}
             Good(n) == /\ kept[n] \in Seq(T)
                        /\ Range(kept[n]) = First(n) \cap keep
                        /\ IsInjective(list) => IsInjective(kept[n])
             Bad == {n \in 0 .. Len(list) : ~ Good(n)}
  <1>2. Bad = {}
    <2>1. SUFFICES ASSUME Bad # {} PROVE FALSE
      OBVIOUS
    <2>2. PICK n \in Bad : \A k \in Bad : n <= k
      <3>1. Bad \in SUBSET Nat  OBVIOUS
      <3> HIDE DEF Bad
      <3> QED BY <2>1, <3>1, LeastNumber
    <2>3. n \in 0 .. Len(list)
      OBVIOUS
    <2>4. kept[n] = IF n = 0 THEN <<>>
                    ELSE IF list[n] \in keep THEN Append(kept[n - 1], list[n]) ELSE kept[n - 1]
      BY <1>1, <2>3 DEF Filter
    <2>5. CASE n = 0
      <3>1. kept[n] = <<>> /\ First(n) = {}
        BY <2>4, <2>5
      <3>2. Range(kept[n]) = {} /\ IsInjective(kept[n]) /\ kept[n] \in Seq(T)
        BY <3>1 DEF Range, IsInjective
      <3> QED BY <2>2, <3>1, <3>2
    <2>6. CASE n # 0
      <3>1. n - 1 \in 0 .. Len(list) /\ n - 1 \notin Bad /\ n \in 1 .. Len(list)
        <4> HIDE DEF Bad
        <4>1. n - 1 \in 0 .. Len(list) /\ n \in 1 .. Len(list) /\ ~(n <= n - 1)
          BY <2>3, <2>6
        <4> QED BY <2>2, <4>1
      <3>2. Good(n - 1)
        BY <3>1
      <3> DEFINE before == kept[n - 1]
                 x == list[n]
      <3>3. First(n) = First(n - 1) \cup {x} /\ x \in T
        <4>1. \A i \in 1 .. n : i \in 1 .. n - 1 \/ i = n  BY <3>1
        <4>2. n \in 1 .. n /\ \A i \in 1 .. n - 1 : i \in 1 .. n  BY <3>1
        <4> QED BY <3>1, <4>1, <4>2
      <3>4. CASE x \notin keep
        <4>1. kept[n] = before
          BY <2>4, <2>6, <3>4
        <4>2. First(n) \cap keep = First(n - 1) \cap keep
          BY <3>3, <3>4
        <4> QED BY <2>2, <3>2, <4>1, <4>2
      <3>5. CASE x \in keep
        <4>1. kept[n] = Append(before, x)
          BY <2>4, <2>6, <3>5
        <4>2. /\ before \in Seq(T) /\ Range(before) = First(n - 1) \cap keep
              /\ IsInjective(list) => IsInjective(before)
          BY <3>2
        <4> DEFINE len == Len(before)
        <4>3. /\ len \in Nat /\ DOMAIN before = 1 .. len
              /\ Append(before, x) \in Seq(T) /\ DOMAIN Append(before, x) = 1 .. len + 1
              /\ \A i \in 1 .. len : Append(before, x)[i] = before[i]
              /\ Append(before, x)[len + 1] = x
          BY <3>3, <4>2
        <4>4. \A i \in 1 .. len + 1 : i \in 1 .. len \/ i = len + 1
          BY <4>3
        <4>5. Range(Append(before, x)) = Range(before) \cup {x}
          <5>1. len + 1 \in 1 .. len + 1 /\ \A i \in 1 .. len : i \in 1 .. len + 1
            BY <4>3
          <5> HIDE DEF before, x, len
          <5> QED BY <4>3, <4>4, <5>1 DEF Range
        <4>6. Range(kept[n]) = First(n) \cap keep
          <5>1. Range(Append(before, x)) = (First(n - 1) \cap keep) \cup {x}
            BY <4>2, <4>5
          <5> HIDE DEF First, before, x
          <5> QED BY <3>3, <3>5, <4>1, <5>1
        <4>7. IsInjective(list) => IsInjective(kept[n])
          <5>1. SUFFICES ASSUME IsInjective(list) PROVE IsInjective(Append(before, x))
            BY <4>1
          <5>2. \A i \in 1 .. n - 1 : list[i] # x
            BY <3>1, <5>1 DEF IsInjective
          <5>3. x \notin Range(before)
            BY <4>2, <5>2
          <5>4. \A i \in 1 .. len : before[i] # x
            BY <4>3, <5>3 DEF Range
          <5>5. \A i, j \in 1 .. len : before[i] = before[j] => i = j
            BY <4>2, <4>3, <5>1 DEF IsInjective
          <5> HIDE DEF before, x, len
          <5> QED BY <4>3, <4>4, <5>4, <5>5 DEF IsInjective
        <4> QED BY <2>2, <4>1, <4>3, <4>6, <4>7
      <3> QED BY <3>4, <3>5
    <2> QED BY <2>5, <2>6
  <1>3. Good(Len(list))
    <2>1. Len(list) \in 0 .. Len(list)  OBVIOUS
    <2> HIDE DEF Good
    <2> QED BY <1>2, <2>1
  <1>4. First(Len(list)) = Range(list)
    BY DEF Range
  <1> QED BY <1>1, <1>3, <1>4

-----------------------------------------------------------------------------
(* The entries of block tables as sets of cells, with the tables a parameter, *)
(* so that the same facts serve before and after a step.                      *)
TableMaps == [SeqIds -> [Tables -> Seq(Entry)]]
EntryAt(T, p) == T[p[1]][p[2][1]][p[2][2]]
MappedIn(T, S) == {p \in S \X Cells : p[2][2] <= Len(T[p[1]][p[2][1]])}
EntriesIn(T, S, f) == {p \in MappedIn(T, S) : EntryAt(T, p).slot = NoSlot /\ EntryAt(T, p).frame = f}
AbsentIn(T, S) == {p \in MappedIn(T, S) : EntryAt(T, p).slot # NoSlot}

(* The tables of T have one length per sequence, within the bound. *)
Even(T) == \A s \in SeqIds : /\ \A l \in Tables : Len(T[s][l]) = Len(T[s][1])
                             /\ Len(T[s][1]) <= MaxBlocks

LEMMA ConfigFacts ==
    /\ NumTables \in Nat \ {0} /\ TokensPerBlock \in Nat \ {0}
    /\ MaxTokens \in Nat /\ MaxBlocks \in Nat /\ 1 \in Tables
    /\ \A n \in Nat : blocks_for(n) \in Nat
    /\ \A n \in Nat \ {0} : blocks_for(n) \in Nat \ {0}
  <1>1. NumTables \in Nat \ {0} /\ TokensPerBlock \in Nat \ {0} /\ MaxTokens \in Nat
    BY ManagerConfig
  <1>2. ASSUME NEW n \in Nat PROVE blocks_for(n) \in Nat
    <2>1. (n + TokensPerBlock - 1) \div TokensPerBlock \in Int
      BY <1>1
    <2>2. (n + TokensPerBlock - 1) \div TokensPerBlock >= 0
      BY <1>1
    <2> QED BY <2>1, <2>2 DEF blocks_for
  <1>3. ASSUME NEW n \in Nat \ {0} PROVE blocks_for(n) # 0
    <2>1. (n + TokensPerBlock - 1) \div TokensPerBlock >= 1
      BY <1>1
    <2> QED BY <2>1 DEF blocks_for
  <1>4. MaxBlocks \in Nat
    BY <1>1, <1>2 DEF MaxBlocks
  <1>5. 1 \in Tables
    BY <1>1 DEF Tables
  <1> QED BY <1>1, <1>2, <1>3, <1>4, <1>5

LEMMA CellsFinite ==
    IsFiniteSet(Cells)
  <1>1. IsFiniteSet(1 .. NumTables) /\ IsFiniteSet(1 .. MaxBlocks)
    <2>1. 1 \in Int /\ NumTables \in Int /\ MaxBlocks \in Int
      BY ConfigFacts
    <2> QED BY <2>1, FS_Interval
  <1> QED BY <1>1, FS_Product DEF Cells, Tables

(* A cell of a table is a place in it, and every place is a cell. *)
LEMMA MappedCells ==
    ASSUME NEW T \in TableMaps, Even(T), NEW S \in SUBSET SeqIds
    PROVE  /\ \A p \in MappedIn(T, S) :
                 /\ p[1] \in S /\ p[2][1] \in Tables /\ p[2][2] \in 1 .. Len(T[p[1]][p[2][1]])
                 /\ p = <<p[1], <<p[2][1], p[2][2]>>>>
                 /\ p = <<p[1], p[2]>> /\ p[2] = <<p[2][1], p[2][2]>> /\ p[2] \in Cells
                 /\ EntryAt(T, p) \in Entry
           /\ \A s \in S, l \in Tables : \A i \in 1 .. Len(T[s][l]) :
                 /\ <<s, <<l, i>>>> \in MappedIn(T, S)
                 /\ EntryAt(T, <<s, <<l, i>>>>) = T[s][l][i]
                 /\ T[s][l][i] \in Entry
                 /\ <<l, i>> \in Cells
  <1>1. \A s \in SeqIds, l \in Tables : T[s][l] \in Seq(Entry)
    BY DEF TableMaps
  <1>2. ASSUME NEW p \in MappedIn(T, S)
        PROVE  /\ p[1] \in S /\ p[2][1] \in Tables /\ p[2][2] \in 1 .. Len(T[p[1]][p[2][1]])
               /\ p = <<p[1], <<p[2][1], p[2][2]>>>>
               /\ p = <<p[1], p[2]>> /\ p[2] = <<p[2][1], p[2][2]>> /\ p[2] \in Cells
               /\ EntryAt(T, p) \in Entry
    <2>1. p[1] \in S /\ p[2] \in Cells /\ p = <<p[1], p[2]>> /\ p[2][2] <= Len(T[p[1]][p[2][1]])
      BY DEF MappedIn
    <2>2. p[2][1] \in Tables /\ p[2][2] \in 1 .. MaxBlocks /\ p[2] = <<p[2][1], p[2][2]>>
      BY <2>1 DEF Cells
    <2>3. T[p[1]][p[2][1]] \in Seq(Entry)
      BY <1>1, <2>1, <2>2
    <2>4. p[2][2] \in 1 .. Len(T[p[1]][p[2][1]])
      BY <2>1, <2>2, <2>3, ConfigFacts
    <2>5. EntryAt(T, p) \in Entry
      BY <2>3, <2>4, ElementOfSeq DEF EntryAt
    <2> QED BY <2>1, <2>2, <2>4, <2>5
  <1>3. ASSUME NEW s \in S, NEW l \in Tables, NEW i \in 1 .. Len(T[s][l])
        PROVE  /\ <<s, <<l, i>>>> \in MappedIn(T, S)
               /\ EntryAt(T, <<s, <<l, i>>>>) = T[s][l][i]
               /\ T[s][l][i] \in Entry
               /\ <<l, i>> \in Cells
    <2>1. T[s][l] \in Seq(Entry) /\ Len(T[s][l]) \in Nat
      BY <1>1
    <2>2. Len(T[s][l]) <= MaxBlocks
      BY DEF Even
    <2>3. <<l, i>> \in Cells
      <3>1. i \in 1 .. MaxBlocks
        BY <2>1, <2>2, ConfigFacts
      <3> QED BY <3>1 DEF Cells
    <2>4. T[s][l][i] \in Entry
      BY <2>1, ElementOfSeq
    <2> QED BY <2>1, <2>3, <2>4 DEF MappedIn, EntryAt
  <1> QED BY <1>2, <1>3

(* The sets of the model are the parameterised ones. *)
LEMMA Bridges ==
    ASSUME NEW S
    PROVE  /\ \A f : EntriesOn(S, f) = EntriesIn(tables, S, f)
           /\ Absentees(S) = AbsentIn(tables, S)
           /\ \A p : SlotOf(p) = EntryAt(tables, p).slot
           /\ \A s, c : At(s, c) = EntryAt(tables, <<s, c>>)
  <1> USE DEF MappedIn, EntryAt, At, Mapped
  <1>1. \A f : EntriesOn(S, f) = EntriesIn(tables, S, f)
    BY DEF EntriesOn, EntriesIn, Resident
  <1>2. Absentees(S) = AbsentIn(tables, S)
    BY DEF Absentees, AbsentIn, SwappedOut
  <1> QED BY <1>1, <1>2 DEF SlotOf

(* ... and so they are after a step. *)
LEMMA BridgesAfter ==
    /\ \A f : (EntriesOn(sequences, f))' = EntriesIn(tables', sequences', f)
    /\ (Absentees(sequences))' = AbsentIn(tables', sequences')
    /\ \A p : SlotOf(p)' = EntryAt(tables', p).slot
  <1> USE DEF MappedIn, EntryAt, At, Mapped
  <1>1. \A f : (EntriesOn(sequences, f))' = EntriesIn(tables', sequences', f)
    BY DEF EntriesOn, EntriesIn, Resident
  <1>2. (Absentees(sequences))' = AbsentIn(tables', sequences')
    BY DEF Absentees, AbsentIn, SwappedOut
  <1> QED BY <1>1, <1>2 DEF SlotOf

-----------------------------------------------------------------------------
(* Counting. *)
LEMMA SameCount ==
    ASSUME NEW A, NEW B, IsFiniteSet(A), NEW h \in [A -> B],
           \A x, y \in A : h[x] = h[y] => x = y,
           \A b \in B : \E x \in A : h[x] = b
    PROVE  IsFiniteSet(B) /\ Cardinality(B) = Cardinality(A)
  <1>1. h \in Bijection(A, B)
    BY DEF Bijection, Injection, Surjection, IsInjective
  <1>2. ExistsBijection(A, B)
    BY <1>1 DEF ExistsBijection
  <1> QED BY <1>2, FS_Bijection

LEMMA DisjointCount ==
    ASSUME NEW A, NEW B, IsFiniteSet(A), IsFiniteSet(B), A \cap B = {}
    PROVE  /\ IsFiniteSet(A \cup B) /\ Cardinality(A) \in Nat /\ Cardinality(B) \in Nat
           /\ Cardinality(A \cup B) = Cardinality(A) + Cardinality(B)
  <1>1. Cardinality(A) \in Nat /\ Cardinality(B) \in Nat
    BY FS_CardinalityType
  <1>2. IsFiniteSet(A \cup B) /\ Cardinality(A \cup B) = Cardinality(A) + Cardinality(B) - Cardinality(A \cap B)
    BY FS_Union
  <1>3. Cardinality(A \cap B) = 0
    BY FS_EmptySet
  <1> QED BY <1>1, <1>2, <1>3

LEMMA RestCount ==
    ASSUME NEW A, NEW B, IsFiniteSet(A), B \subseteq A
    PROVE  /\ IsFiniteSet(B) /\ IsFiniteSet(A \ B)
           /\ Cardinality(A) \in Nat /\ Cardinality(B) \in Nat /\ Cardinality(B) <= Cardinality(A)
           /\ Cardinality(A \ B) = Cardinality(A) - Cardinality(B)
  <1>1. IsFiniteSet(B) /\ Cardinality(B) <= Cardinality(A)
    BY FS_Subset
  <1>2. Cardinality(A) \in Nat /\ Cardinality(B) \in Nat
    BY <1>1, FS_CardinalityType
  <1>3. IsFiniteSet(A \ B) /\ Cardinality(A \ B) = Cardinality(A) - Cardinality(A \cap B)
    BY FS_Difference
  <1>4. A \cap B = B
    OBVIOUS
  <1> QED BY <1>1, <1>2, <1>3, <1>4

LEMMA SmallCount ==
    ASSUME NEW A, IsFiniteSet(A)
    PROVE  /\ Cardinality(A) \in Nat
           /\ Cardinality(A) = 0 <=> A = {}
           /\ Cardinality(A) = 1 => \A x, y \in A : x = y
  <1>1. Cardinality(A) \in Nat
    BY FS_CardinalityType
  <1>2. Cardinality(A) = 0 <=> A = {}
    BY FS_EmptySet
  <1>3. ASSUME Cardinality(A) = 1 PROVE \E x : A = {x}
    BY <1>3, FS_Singleton
  <1> QED BY <1>1, <1>2, <1>3

LEMMA SingletonCount ==
    ASSUME NEW x
    PROVE  IsFiniteSet({x}) /\ Cardinality({x}) = 1
  BY FS_Singleton

LEMMA EntriesFinite ==
    ASSUME NEW T, NEW S \in SUBSET SeqIds
    PROVE  /\ IsFiniteSet(MappedIn(T, S))
           /\ IsFiniteSet(AbsentIn(T, S))
           /\ \A f : IsFiniteSet(EntriesIn(T, S, f))
  <1>1. IsFiniteSet(S)
    BY ManagerConfig, FS_Subset
  <1>2. IsFiniteSet(S \X Cells)
    BY <1>1, CellsFinite, FS_Product
  <1>3. MappedIn(T, S) \in SUBSET (S \X Cells) /\ AbsentIn(T, S) \in SUBSET (S \X Cells)
    BY DEF MappedIn, AbsentIn
  <1>4. \A f : EntriesIn(T, S, f) \in SUBSET (S \X Cells)
    BY DEF MappedIn, EntriesIn
  <1> QED BY <1>2, <1>3, <1>4, FS_Subset

LEMMA PinsFinite ==
    ASSUME NEW R, IsFiniteSet(R), NEW f
    PROVE  IsFiniteSet(PinsOn(R, f))
  <1>1. IsFiniteSet(R \X Cells)
    BY CellsFinite, FS_Product
  <1>2. PinsOn(R, f) \in SUBSET (R \X Cells)
    BY DEF PinsOn
  <1> QED BY <1>1, <1>2, FS_Subset

(* Records that change without changing their pins keep the number of pins. *)
Carries(R, Q, h) ==
    /\ h \in [R -> Q]
    /\ \A x, y \in R : h[x] = h[y] => x = y
    /\ \A q \in Q : \E x \in R : h[x] = q
    /\ \A x \in R : h[x][2].ids = x[2].ids

LEMMA PinsMove ==
    ASSUME NEW R, IsFiniteSet(R), NEW Q, NEW h, Carries(R, Q, h), NEW f
    PROVE  IsFiniteSet(Q) /\ Cardinality(PinsOn(Q, f)) = Cardinality(PinsOn(R, f))
  <1> DEFINE A == PinsOn(R, f)
             B == PinsOn(Q, f)
             m == [p \in A |-> <<h[p[1]], p[2]>>]
  <1> USE DEF Carries
  <1>1. IsFiniteSet(Q)
    BY SameCount
  <1>2. IsFiniteSet(A)
    BY PinsFinite
  <1>3. \A p \in A : p = <<p[1], p[2]>> /\ p[1] \in R /\ p[2] \in Cells
    BY DEF PinsOn
  <1>4. m \in [A -> B]
    <2>1. ASSUME NEW p \in A PROVE <<h[p[1]], p[2]>> \in B
      <3>1. p[1] \in R /\ p[2] \in Cells /\ h[p[1]] \in Q /\ h[p[1]][2].ids = p[1][2].ids
        BY <1>3
      <3>2. p[2] \in Pinned(p[1][2]) /\ p[1][2].ids[p[2][1]][p[2][2]] = f
        BY DEF PinsOn
      <3>3. p[2] \in Pinned(h[p[1]][2]) /\ h[p[1]][2].ids[p[2][1]][p[2][2]] = f
        BY <3>1, <3>2 DEF Pinned
      <3> QED BY <3>1, <3>3 DEF PinsOn
    <2> QED BY <2>1
  <1>5. \A x, y \in A : m[x] = m[y] => x = y
    <2>1. SUFFICES ASSUME NEW x \in A, NEW y \in A, m[x] = m[y] PROVE x = y
      OBVIOUS
    <2>2. h[x[1]] = h[y[1]] /\ x[2] = y[2]
      BY <2>1
    <2> HIDE DEF A
    <2> QED BY <1>3, <2>2
  <1>6. \A b \in B : \E x \in A : m[x] = b
    <2>1. SUFFICES ASSUME NEW b \in B PROVE \E x \in A : m[x] = b
      OBVIOUS
    <2>2. /\ b = <<b[1], b[2]>> /\ b[1] \in Q /\ b[2] \in Cells
          /\ b[2] \in Pinned(b[1][2]) /\ b[1][2].ids[b[2][1]][b[2][2]] = f
      BY DEF PinsOn
    <2>3. PICK r \in R : h[r] = b[1]
      BY <2>2
    <2>4. r[2].ids = b[1][2].ids
      BY <2>3
    <2>5. <<r, b[2]>> \in A
      BY <2>2, <2>4 DEF PinsOn, Pinned
    <2>6. m[<<r, b[2]>>] = b
      BY <2>2, <2>3, <2>5
    <2> QED BY <2>5, <2>6
  <1> HIDE DEF A, B, m
  <1>7. Cardinality(B) = Cardinality(A)
    BY <1>2, <1>4, <1>5, <1>6, SameCount, ZenonT(60)
  <1> QED BY <1>1, <1>7 DEF A, B

-----------------------------------------------------------------------------
(* Replacing one entry of one table. *)
Replaced(T, U, s, l, i, e) ==
    U = [T EXCEPT ![s] = [T[s] EXCEPT ![l] = [T[s][l] EXCEPT ![i] = e]]]

(* What that leaves as it was. *)
Touched(T, U, s, l, i, e) ==
    /\ U \in TableMaps /\ Even(U)
    /\ \A t \in SeqIds, m \in Tables : Len(U[t][m]) = Len(T[t][m])
    /\ U[s][l][i] = e
    /\ \A t \in SeqIds, m \in Tables : \A j \in 1 .. Len(T[t][m]) :
          <<t, m, j>> # <<s, l, i>> => U[t][m][j] = T[t][m][j]
    /\ \A S \in SUBSET SeqIds : MappedIn(U, S) = MappedIn(T, S)

LEMMA TouchEntry ==
    ASSUME NEW T \in TableMaps, Even(T), NEW s \in SeqIds, NEW l \in Tables,
           NEW i \in 1 .. Len(T[s][l]), NEW e \in Entry,
           NEW U, Replaced(T, U, s, l, i, e)
    PROVE  Touched(T, U, s, l, i, e)
  <1> DEFINE row == [T[s][l] EXCEPT ![i] = e]
             rows == [T[s] EXCEPT ![l] = row]
  <1>1. T[s] \in [Tables -> Seq(Entry)] /\ T[s][l] \in Seq(Entry)
    BY DEF TableMaps
  <1>2. /\ row \in Seq(Entry) /\ Len(row) = Len(T[s][l]) /\ row[i] = e
        /\ \A j \in 1 .. Len(T[s][l]) : j # i => row[j] = T[s][l][j]
    BY <1>1, ExceptSeq
  <1> HIDE DEF row
  <1>3. /\ rows \in [Tables -> Seq(Entry)] /\ rows[l] = row
        /\ \A m \in Tables : m # l => rows[m] = T[s][m]
    BY <1>1, <1>2
  <1>4. U = [T EXCEPT ![s] = rows]
    BY DEF row, Replaced
  <1> HIDE DEF rows
  <1>5. /\ U \in TableMaps /\ U[s] = rows
        /\ \A t \in SeqIds : t # s => U[t] = T[t]
    BY <1>3, <1>4 DEF TableMaps
  <1>6. \A t \in SeqIds, m \in Tables : Len(U[t][m]) = Len(T[t][m])
    BY <1>2, <1>3, <1>5
  <1>7. U[s][l][i] = e
    BY <1>2, <1>3, <1>5
  <1>8. \A t \in SeqIds, m \in Tables : \A j \in 1 .. Len(T[t][m]) :
                 <<t, m, j>> # <<s, l, i>> => U[t][m][j] = T[t][m][j]
    BY <1>2, <1>3, <1>5
  <1>9. Even(U)
    BY <1>6, ConfigFacts DEF Even
  <1>10. \A S \in SUBSET SeqIds : MappedIn(U, S) = MappedIn(T, S)
    BY <1>6 DEF MappedIn, Cells
  <1> QED BY <1>5, <1>6, <1>7, <1>8, <1>9, <1>10 DEF Touched

-----------------------------------------------------------------------------
(* Structure, step by step. *)
LEMMA TablesFacts ==
    ASSUME TypeOK, TablesShaped
    PROVE  /\ tables \in TableMaps /\ Even(tables) /\ sequences \in SUBSET SeqIds
           /\ \A s \in SeqIds, l \in Tables : tables[s][l] \in Seq(Entry) /\ Len(tables[s][l]) \in Nat
  <1>1. tables \in TableMaps /\ sequences \in SUBSET SeqIds
    BY DEF TypeOK, TableMaps
  <1>2. \A s \in SeqIds, l \in Tables : tables[s][l] \in Seq(Entry) /\ Len(tables[s][l]) \in Nat
    BY <1>1 DEF TableMaps
  <1> QED BY <1>1, <1>2 DEF TablesShaped, Even

(* The entry of sequence s in table l at place i is swapped out. *)
SwappedAt(T, S, s, l, i) ==
    s \in S /\ i \in 1 .. Len(T[s][l]) /\ T[s][l][i].slot # NoSlot

(* The same entries are swapped out, into the same slots. *)
SlotsAgree(T, S, U, R) ==
    \A s \in SeqIds, l \in Tables, i \in Nat :
        /\ SwappedAt(T, S, s, l, i) <=> SwappedAt(U, R, s, l, i)
        /\ SwappedAt(T, S, s, l, i) => T[s][l][i].slot = U[s][l][i].slot

LEMMA AbsentSame ==
    ASSUME NEW T \in TableMaps, Even(T), NEW S \in SUBSET SeqIds,
           NEW U \in TableMaps, Even(U), NEW R \in SUBSET SeqIds,
           SlotsAgree(T, S, U, R)
    PROVE  /\ AbsentIn(U, R) = AbsentIn(T, S)
           /\ \A p \in AbsentIn(T, S) : EntryAt(U, p).slot = EntryAt(T, p).slot
  <1> USE DEF SlotsAgree
  <1>1. ASSUME NEW p \in AbsentIn(T, S)
        PROVE  p \in AbsentIn(U, R) /\ EntryAt(U, p).slot = EntryAt(T, p).slot
    <2>1. /\ p[1] \in S /\ p[2][1] \in Tables /\ p[2][2] \in 1 .. Len(T[p[1]][p[2][1]])
          /\ p = <<p[1], <<p[2][1], p[2][2]>>>> /\ EntryAt(T, p).slot # NoSlot
      BY MappedCells DEF AbsentIn
    <2>2. SwappedAt(T, S, p[1], p[2][1], p[2][2]) /\ p[1] \in SeqIds /\ p[2][2] \in Nat
      <3>1. T[p[1]][p[2][1]] \in Seq(Entry)
        BY <2>1 DEF TableMaps
      <3> QED BY <2>1, <3>1 DEF SwappedAt, EntryAt
    <2>3. SwappedAt(U, R, p[1], p[2][1], p[2][2])
      BY <2>1, <2>2
    <2>4. p \in MappedIn(U, R)
      <3>1. p[1] \in R /\ p[2][2] \in 1 .. Len(U[p[1]][p[2][1]])
        BY <2>3 DEF SwappedAt
      <3>2. <<p[1], <<p[2][1], p[2][2]>>>> \in MappedIn(U, R)
        BY <2>1, <3>1, MappedCells
      <3> QED BY <2>1, <3>2, Zenon
    <2> QED BY <2>1, <2>2, <2>3, <2>4 DEF SwappedAt, AbsentIn, EntryAt
  <1>2. ASSUME NEW p \in AbsentIn(U, R)
        PROVE  p \in AbsentIn(T, S)
    <2>1. /\ p[1] \in R /\ p[2][1] \in Tables /\ p[2][2] \in 1 .. Len(U[p[1]][p[2][1]])
          /\ p = <<p[1], <<p[2][1], p[2][2]>>>> /\ EntryAt(U, p).slot # NoSlot
      BY MappedCells DEF AbsentIn
    <2>2. SwappedAt(U, R, p[1], p[2][1], p[2][2]) /\ p[1] \in SeqIds /\ p[2][2] \in Nat
      <3>1. U[p[1]][p[2][1]] \in Seq(Entry)
        BY <2>1 DEF TableMaps
      <3> QED BY <2>1, <3>1 DEF SwappedAt, EntryAt
    <2>3. SwappedAt(T, S, p[1], p[2][1], p[2][2])
      BY <2>1, <2>2
    <2>4. p \in MappedIn(T, S)
      <3>1. p[1] \in S /\ p[2][2] \in 1 .. Len(T[p[1]][p[2][1]])
        BY <2>3 DEF SwappedAt
      <3>2. <<p[1], <<p[2][1], p[2][2]>>>> \in MappedIn(T, S)
        BY <2>1, <3>1, MappedCells
      <3> QED BY <2>1, <3>2, Zenon
    <2> QED BY <2>1, <2>3, <2>4 DEF SwappedAt, AbsentIn, EntryAt
  <1> QED BY <1>1, <1>2, SMTT(40)

(* A step that moves no entry to or from a slot leaves the slots alone. *)
LEMMA SlotsKept ==
    ASSUME SlotsHeld, swap' = swap,
           AbsentIn(tables', sequences') = AbsentIn(tables, sequences),
           \A p \in AbsentIn(tables, sequences) : EntryAt(tables', p).slot = EntryAt(tables, p).slot
    PROVE  SlotsHeld'
  <1> DEFINE A == AbsentIn(tables, sequences)
             Old(p) == EntryAt(tables, p).slot
             New(p) == EntryAt(tables', p).slot
  <1>1. /\ \A k \in Slots : swap[k] # NoContent <=> \E p \in A : Old(p) = k
        /\ \A p, q \in A : Old(p) = Old(q) => p = q
    BY Bridges DEF SlotsHeld
  <1>2. \A p \in A : New(p) = Old(p)
    OBVIOUS
  <1>3. /\ \A k \in Slots : swap'[k] # NoContent <=> \E p \in A : New(p) = k
        /\ \A p, q \in A : New(p) = New(q) => p = q
    <2> HIDE DEF A, Old, New
    <2> QED BY <1>1, <1>2
  <1>4. (Absentees(sequences))' = A
    BY BridgesAfter
  <1>5. \A p : SlotOf(p)' = New(p)
    BY BridgesAfter
  <1> HIDE DEF A, New
  <1> QED BY <1>3, <1>4, <1>5 DEF SlotsHeld

(* create_sequence and fork_sequence enter a new sequence under its request. *)
LEMMA IndexKeepsLists ==
    ASSUME TypeOK, RequestsListed, NEW s \in SeqIds, s \notin sequences, NEW r \in Requests, Index(s, r)
    PROVE  /\ RequestsListed' /\ sequences' = sequences \cup {s} /\ sequences' \subseteq SeqIds
           /\ request_of' \in [SeqIds -> Requests \cup {NoRequest}]
           /\ sequences_by_request' \in [Requests -> Seq(SeqIds)]
           /\ request_of'[s] = r /\ \A t \in SeqIds : t # s => request_of'[t] = request_of[t]
  <1> DEFINE old == sequences_by_request[r]
             new == Append(old, s)
  <1>1. /\ sequences' = sequences \cup {s} /\ request_of' = [request_of EXCEPT ![s] = r]
        /\ sequences_by_request' = [sequences_by_request EXCEPT ![r] = new]
    BY DEF Index
  <1>2. /\ sequences \subseteq SeqIds
        /\ request_of \in [SeqIds -> Requests \cup {NoRequest}]
        /\ sequences_by_request \in [Requests -> Seq(SeqIds)]
    BY DEF TypeOK
  <1>3. /\ old \in Seq(SeqIds) /\ Len(old) \in Nat /\ new \in Seq(SeqIds)
        /\ DOMAIN old = 1 .. Len(old) /\ DOMAIN new = 1 .. Len(old) + 1
        /\ \A j \in 1 .. Len(old) : new[j] = old[j]
        /\ new[Len(old) + 1] = s
    BY <1>2
  <1>4. /\ request_of' \in [SeqIds -> Requests \cup {NoRequest}]
        /\ request_of'[s] = r /\ \A t \in SeqIds : t # s => request_of'[t] = request_of[t]
    BY <1>1, <1>2
  <1> HIDE DEF new
  <1>5. /\ sequences_by_request' \in [Requests -> Seq(SeqIds)]
        /\ sequences_by_request'[r] = new
        /\ \A q \in Requests : q # r => sequences_by_request'[q] = sequences_by_request[q]
    BY <1>1, <1>2, <1>3
  <1>6. IsInjective(old) /\ Range(old) = {t \in sequences : request_of[t] = r}
    BY DEF RequestsListed, SequencesFor
  <1> DEFINE len == Len(old)
  <1> HIDE DEF old
  <1>7. \A j \in 1 .. len : old[j] # s
    <2>1. s \notin Range(old)  BY <1>6
    <2> QED BY <1>3, <2>1 DEF Range
  <1>8. \A j \in 1 .. len + 1 : j \in 1 .. len \/ j = len + 1
    BY <1>3
  <1>9. IsInjective(new)
    BY <1>3, <1>6, <1>7, <1>8 DEF IsInjective
  <1>10. Range(new) = Range(old) \cup {s}
    <2>1. len + 1 \in 1 .. len + 1 /\ \A j \in 1 .. len : j \in 1 .. len + 1
      BY <1>3
    <2> HIDE DEF len
    <2> QED BY <1>3, <1>8, <2>1 DEF Range, len
  <1>11. RequestsListed'
    <2>1. SUFFICES ASSUME NEW q \in Requests
                   PROVE  /\ IsInjective(sequences_by_request'[q])
                          /\ Range(sequences_by_request'[q]) = {t \in sequences' : request_of'[t] = q}
      BY DEF RequestsListed, SequencesFor, IsInjective, Range
    <2>2. CASE q = r
      BY <1>1, <1>2, <1>4, <1>5, <1>6, <1>9, <1>10, <2>2
    <2>3. CASE q # r
      <3>1. sequences_by_request'[q] = sequences_by_request[q]
        BY <1>5, <2>3
      <3>2. IsInjective(sequences_by_request[q])
            /\ Range(sequences_by_request[q]) = {t \in sequences : request_of[t] = q}
        BY DEF RequestsListed, SequencesFor
      <3>3. {t \in sequences' : request_of'[t] = q} = {t \in sequences : request_of[t] = q}
        BY <1>1, <1>2, <1>4, <2>3
      <3> QED BY <3>1, <3>2, <3>3
    <2> QED BY <2>2, <2>3
  <1> QED BY <1>1, <1>2, <1>4, <1>5, <1>11

(* The sequences of S have the same tables in T and in U. *)
SameTables(T, U, S) == \A s \in S : U[s] = T[s]

LEMMA EntriesAgree ==
    ASSUME NEW T, NEW U, NEW S, SameTables(T, U, S)
    PROVE  /\ MappedIn(U, S) = MappedIn(T, S)
           /\ \A f : EntriesIn(U, S, f) = EntriesIn(T, S, f)
           /\ AbsentIn(U, S) = AbsentIn(T, S)
           /\ \A p \in MappedIn(T, S) : EntryAt(U, p) = EntryAt(T, p)
  <1> USE DEF SameTables
  <1>1. MappedIn(U, S) = MappedIn(T, S)
    BY DEF MappedIn
  <1>2. \A p \in MappedIn(T, S) : EntryAt(U, p) = EntryAt(T, p)
    BY DEF MappedIn, EntryAt
  <1> QED BY <1>1, <1>2 DEF EntriesIn, AbsentIn

LEMMA NoEntries ==
    ASSUME NEW T, NEW s, T[s] = NoTables, NEW O, O = {s}
    PROVE  /\ MappedIn(T, O) = {}
           /\ \A f : EntriesIn(T, O, f) = {}
           /\ AbsentIn(T, O) = {}
  <1>1. ASSUME NEW p \in MappedIn(T, O) PROVE FALSE
    <2>1. p[1] = s /\ p[2] \in Cells /\ p[2][2] <= Len(T[p[1]][p[2][1]])
      BY DEF MappedIn
    <2>2. p[2][1] \in Tables /\ p[2][2] \in 1 .. MaxBlocks
      BY <2>1 DEF Cells
    <2>3. T[p[1]][p[2][1]] = <<>>
      BY <2>1, <2>2 DEF NoTables
    <2>4. Len(<<>>) = 0
      OBVIOUS
    <2>5. p[2][2] <= 0
      BY <2>1, <2>3, <2>4
    <2> QED BY <2>2, <2>5, ConfigFacts
  <1> QED BY <1>1 DEF EntriesIn, AbsentIn

(* The step from T to U changes the tables of one sequence, O = {s}; S are    *)
(* the sequences before, and Q after.                                         *)
OneChanged(T, U, S, Q, s, O) ==
    /\ S \in SUBSET SeqIds /\ s \in SeqIds /\ (s \in S \/ T[s] = NoTables)
    /\ Q = S \cup {s} /\ O = {s} /\ SameTables(T, U, SeqIds \ O)

LEMMA EntriesOfOne ==
    ASSUME NEW T, NEW U, NEW S, NEW Q, NEW s, NEW O, OneChanged(T, U, S, Q, s, O), NEW f
    PROVE  /\ Cardinality(EntriesIn(U, Q, f)) \in Nat
           /\ Cardinality(EntriesIn(T, O, f)) \in Nat
           /\ Cardinality(EntriesIn(T, S, f)) \in Nat
           /\ Cardinality(EntriesIn(U, O, f)) \in Nat
           /\ Cardinality(EntriesIn(U, Q, f)) + Cardinality(EntriesIn(T, O, f))
                = Cardinality(EntriesIn(T, S, f)) + Cardinality(EntriesIn(U, O, f))
  <1> USE DEF OneChanged
  <1> DEFINE R == S \ O
  <1>1. Q = R \cup O /\ R \cap O = {} /\ R \in SUBSET SeqIds /\ O \in SUBSET SeqIds /\ Q = S \cup O
    OBVIOUS
  <1>2. EntriesIn(U, R, f) = EntriesIn(T, R, f)
    <2>1. SameTables(T, U, R)  BY DEF SameTables
    <2> HIDE DEF R
    <2> QED BY <2>1, EntriesAgree
  <1>3. EntriesIn(T, Q, f) = EntriesIn(T, S, f)
    <2>1. CASE s \in S
      <3>1. Q = S  BY <2>1
      <3> QED BY <3>1
    <2>2. CASE T[s] = NoTables
      <3>1. EntriesIn(T, O, f) = {}  BY <2>2, NoEntries
      <3>2. EntriesIn(T, Q, f) = EntriesIn(T, S, f) \cup EntriesIn(T, O, f)
        BY <1>1 DEF EntriesIn, MappedIn
      <3> QED BY <3>1, <3>2
    <2> QED BY <2>1, <2>2
  <1> HIDE DEF R
  <1>4. /\ IsFiniteSet(EntriesIn(T, R, f)) /\ IsFiniteSet(EntriesIn(U, R, f))
        /\ IsFiniteSet(EntriesIn(T, O, f)) /\ IsFiniteSet(EntriesIn(U, O, f))
    BY <1>1, EntriesFinite
  <1>5. /\ EntriesIn(T, Q, f) = EntriesIn(T, R, f) \cup EntriesIn(T, O, f)
        /\ EntriesIn(U, Q, f) = EntriesIn(U, R, f) \cup EntriesIn(U, O, f)
        /\ EntriesIn(T, R, f) \cap EntriesIn(T, O, f) = {}
        /\ EntriesIn(U, R, f) \cap EntriesIn(U, O, f) = {}
    BY <1>1 DEF EntriesIn, MappedIn
  <1>6. /\ Cardinality(EntriesIn(T, Q, f))
              = Cardinality(EntriesIn(T, R, f)) + Cardinality(EntriesIn(T, O, f))
        /\ Cardinality(EntriesIn(T, R, f)) \in Nat /\ Cardinality(EntriesIn(T, O, f)) \in Nat
    BY <1>4, <1>5, DisjointCount
  <1>7. /\ Cardinality(EntriesIn(U, Q, f))
              = Cardinality(EntriesIn(U, R, f)) + Cardinality(EntriesIn(U, O, f))
        /\ Cardinality(EntriesIn(U, O, f)) \in Nat
    BY <1>4, <1>5, DisjointCount
  <1>8. Cardinality(EntriesIn(T, S, f)) = Cardinality(EntriesIn(T, Q, f))
        /\ Cardinality(EntriesIn(U, R, f)) = Cardinality(EntriesIn(T, R, f))
    BY <1>2, <1>3
  <1> QED BY ONLY <1>6, <1>7, <1>8

(* RefCountsExact in terms of the parameterised sets, now and after a step. *)
LEMMA CountsBridge ==
    /\ RefCountsExact <=> \A f \in Frames : ref_count[f] = Cardinality(EntriesIn(tables, sequences, f))
                             + Cardinality(PinsOn(Records(prefix_index), f))
    /\ RefCountsExact' <=> \A f \in Frames : ref_count'[f] = Cardinality(EntriesIn(tables', sequences', f))
                             + Cardinality(PinsOn(Records(prefix_index'), f))
  <1>1. \A f : EntriesOn(sequences, f) = EntriesIn(tables, sequences, f)
    BY Bridges
  <1>2. \A f : (EntriesOn(sequences, f))' = EntriesIn(tables', sequences', f)
    BY BridgesAfter
  <1>3. \A f : PinsOn(Records(prefix_index), f)' = PinsOn(Records(prefix_index'), f)
    BY DEF PinsOn, Records, Pinned
  <1> QED BY <1>1, <1>2, <1>3 DEF RefCountsExact

(* The counts are numbers, and a free frame has neither entries nor pins. *)
LEMMA CountFacts ==
    ASSUME Structure, RefCountsExact, NEW f \in Frames
    PROVE  /\ Cardinality(EntriesIn(tables, sequences, f)) \in Nat
           /\ Cardinality(PinsOn(Records(prefix_index), f)) \in Nat
           /\ IsFiniteSet(EntriesIn(tables, sequences, f))
           /\ IsFiniteSet(PinsOn(Records(prefix_index), f))
           /\ ref_count[f] = Cardinality(EntriesIn(tables, sequences, f))
                             + Cardinality(PinsOn(Records(prefix_index), f))
           /\ ref_count[f] = 0 => /\ EntriesIn(tables, sequences, f) = {}
                                  /\ PinsOn(Records(prefix_index), f) = {}
  <1>1. IsFiniteSet(EntriesIn(tables, sequences, f))
    <2>1. sequences \in SUBSET SeqIds  BY DEF Structure, TypeOK
    <2> QED BY <2>1, EntriesFinite
  <1>2. IsFiniteSet(PinsOn(Records(prefix_index), f))
    <2>1. IsFiniteSet(Records(prefix_index))  BY DEF Structure, RecordsShaped, IndexShaped
    <2> QED BY <2>1, PinsFinite
  <1>3. ref_count[f] = Cardinality(EntriesIn(tables, sequences, f))
                             + Cardinality(PinsOn(Records(prefix_index), f))
    BY CountsBridge
  <1> DEFINE A == EntriesIn(tables, sequences, f)
             B == PinsOn(Records(prefix_index), f)
  <1> HIDE DEF A, B
  <1>4. /\ Cardinality(A) \in Nat /\ (Cardinality(A) = 0 <=> A = {})
        /\ Cardinality(B) \in Nat /\ (Cardinality(B) = 0 <=> B = {})
    BY <1>1, <1>2, SmallCount DEF A, B
  <1>5. ref_count[f] = Cardinality(A) + Cardinality(B)
    BY <1>3 DEF A, B
  <1>6. ref_count[f] = 0 => A = {} /\ B = {}
    BY <1>4, <1>5
  <1> QED BY <1>1, <1>2, <1>3, <1>4, <1>6 DEF A, B

-----------------------------------------------------------------------------
(* create_sequence *)
LEMMA CreateKeeps ==
    ASSUME Structure, NEW s \in SeqIds, NEW r \in Requests, create_sequence(s, r)
    PROVE  /\ Structure'
           /\ RefCountsExact => RefCountsExact'
  <1> USE DEF Structure
  <1>1. /\ s \notin sequences /\ Index(s, r) /\ ref_count' = ref_count /\ data' = data /\ swap' = swap
        /\ tables' = tables /\ prefix' = prefix /\ prefix_index' = prefix_index
    BY DEF create_sequence, poolVars
  <1>2. /\ RequestsListed' /\ sequences' = sequences \cup {s} /\ sequences' \subseteq SeqIds
        /\ request_of' \in [SeqIds -> Requests \cup {NoRequest}]
        /\ sequences_by_request' \in [Requests -> Seq(SeqIds)]
        /\ request_of'[s] = r /\ \A t \in SeqIds : t # s => request_of'[t] = request_of[t]
    BY <1>1, IndexKeepsLists
  <1>3. TypeOK'
    BY <1>1, <1>2 DEF TypeOK
  <1>4. TablesShaped'
    BY <1>1, <1>2 DEF TablesShaped
  <1>5. RecordsShaped'
    BY <1>1 DEF RecordsShaped, IndexShaped, Records
  <1> DEFINE O == {s}
  <1>6. tables[s] = NoTables /\ sequences' = sequences \cup O
    BY <1>1, <1>2 DEF TablesShaped
  <1>7. /\ AbsentIn(tables, sequences') = AbsentIn(tables, sequences)
        /\ \A f : EntriesIn(tables, sequences', f) = EntriesIn(tables, sequences, f)
    <2>1. AbsentIn(tables, O) = {} /\ \A f : EntriesIn(tables, O, f) = {}
      BY <1>6, NoEntries
    <2> HIDE DEF O
    <2>2. /\ AbsentIn(tables, sequences') = AbsentIn(tables, sequences) \cup AbsentIn(tables, O)
          /\ \A f : EntriesIn(tables, sequences', f) = EntriesIn(tables, sequences, f) \cup EntriesIn(tables, O, f)
      BY <1>6 DEF EntriesIn, AbsentIn, MappedIn
    <2> QED BY <2>1, <2>2
  <1>8. SlotsHeld'
    BY <1>1, <1>7, SlotsKept
  <1>9. ASSUME RefCountsExact PROVE RefCountsExact'
    BY <1>1, <1>7, <1>9, CountsBridge
  <1> QED BY <1>2, <1>3, <1>4, <1>5, <1>8, <1>9
-----------------------------------------------------------------------------
(* fork_sequence *)
LEMMA ForkedTable ==
    ASSUME NEW table \in Seq(Entry)
    PROVE  /\ Forked(table) \in Seq(Entry) /\ Len(Forked(table)) = Len(table)
           /\ \A i \in 1 .. Len(table) : /\ Forked(table)[i].frame = table[i].frame
                                         /\ Forked(table)[i].slot = table[i].slot
  <1>1. Len(table) \in Nat /\ \A i \in 1 .. Len(table) : table[i] \in Entry
    OBVIOUS
  <1>2. \A i \in 1 .. Len(table) : /\ [table[i] EXCEPT !.writable = FALSE] \in Entry
                                   /\ [table[i] EXCEPT !.writable = FALSE].frame = table[i].frame
                                   /\ [table[i] EXCEPT !.writable = FALSE].slot = table[i].slot
    BY <1>1 DEF Entry
  <1>3. /\ \A i \in 1 .. Len(table) : Forked(table)[i] = [table[i] EXCEPT !.writable = FALSE]
        /\ DOMAIN Forked(table) = 1 .. Len(table)
    BY DEF Forked
  <1>4. Forked(table) \in [1 .. Len(table) -> Entry]
    BY <1>2, <1>3 DEF Forked
  <1>5. Forked(table) \in Seq(Entry) /\ Len(Forked(table)) = Len(table)
    BY <1>1, <1>4, LenProperties, SeqDef
  <1> QED BY <1>2, <1>3, <1>5

LEMMA ForkKeeps ==
    ASSUME Structure, NEW parent \in SeqIds, NEW child \in SeqIds, NEW r \in Requests,
           fork_sequence(parent, child, r)
    PROVE  /\ Structure'
           /\ RefCountsExact => RefCountsExact'
  <1> USE DEF Structure
  <1> DEFINE row == [l \in Tables |-> Forked(tables[parent][l])]
  <1>1. /\ parent \in sequences /\ child \notin sequences /\ Index(child, r)
        /\ data' = data /\ swap' = swap /\ prefix' = prefix /\ prefix_index' = prefix_index
        /\ tables' = [tables EXCEPT ![child] = row]
        /\ ref_count' = RetainEach(ref_count, ForkRetains(parent))
        /\ SwappedOut(parent) = {}
    BY DEF fork_sequence
  <1>2. /\ RequestsListed' /\ sequences' = sequences \cup {child} /\ sequences' \subseteq SeqIds
        /\ request_of' \in [SeqIds -> Requests \cup {NoRequest}]
        /\ sequences_by_request' \in [Requests -> Seq(SeqIds)]
        /\ request_of'[child] = r /\ \A t \in SeqIds : t # child => request_of'[t] = request_of[t]
    BY <1>1, IndexKeepsLists
  <1>3. /\ tables \in TableMaps /\ Even(tables) /\ sequences \in SUBSET SeqIds
        /\ \A s \in SeqIds, l \in Tables : tables[s][l] \in Seq(Entry) /\ Len(tables[s][l]) \in Nat
    BY TablesFacts
  <1>4. /\ row \in [Tables -> Seq(Entry)]
        /\ \A l \in Tables : /\ Len(row[l]) = Len(tables[parent][l])
                             /\ \A i \in 1 .. Len(tables[parent][l]) :
                                   /\ row[l][i].frame = tables[parent][l][i].frame
                                   /\ row[l][i].slot = tables[parent][l][i].slot
    BY <1>3, ForkedTable
  <1> HIDE DEF row
  <1>5. /\ tables' \in TableMaps /\ tables'[child] = row
        /\ \A t \in SeqIds : t # child => tables'[t] = tables[t]
    BY <1>1, <1>3, <1>4 DEF TableMaps
  <1>6. Even(tables')
    <2>1. SUFFICES ASSUME NEW s \in SeqIds
                   PROVE  /\ \A l \in Tables : Len(tables'[s][l]) = Len(tables'[s][1])
                          /\ Len(tables'[s][1]) <= MaxBlocks
      BY DEF Even
    <2>2. CASE s = child
      BY <1>3, <1>4, <1>5, <2>2, ConfigFacts, ZenonT(60) DEF Even
    <2>3. CASE s # child
      BY <1>3, <1>5, <2>3 DEF Even
    <2> QED BY <2>2, <2>3
  <1>7. ref_count' \in [Frames -> Nat]
    <2> DEFINE O == {parent}
    <2>1. \A f \in Frames : ForkRetains(parent)[f] = Cardinality(EntriesIn(tables, O, f))
      BY Bridges DEF ForkRetains, EntryCount
    <2>2. \A f \in Frames : Cardinality(EntriesIn(tables, O, f)) \in Nat
      <3>1. O \in SUBSET SeqIds  OBVIOUS
      <3> HIDE DEF O
      <3>2. \A f : IsFiniteSet(EntriesIn(tables, O, f))  BY <3>1, EntriesFinite
      <3> QED BY <3>2, FS_CardinalityType
    <2> HIDE DEF O
    <2>3. ref_count \in [Frames -> Nat]
      BY DEF TypeOK
    <2>4. \A f \in Frames : ref_count[f] + ForkRetains(parent)[f] \in Nat
      BY <2>1, <2>2, <2>3
    <2> QED BY <1>1, <2>4 DEF RetainEach
  <1>8. TypeOK'
    BY <1>1, <1>2, <1>5, <1>7 DEF TypeOK, TableMaps
  <1>9. TablesShaped'
    <2>1. SUFFICES ASSUME NEW s \in SeqIds
                   PROVE  /\ s \notin sequences' => tables'[s] = NoTables /\ prefix'[s] = NoPrefix
                          /\ s \in sequences' => request_of'[s] \in Requests
                          /\ prefix'[s].key # NoKey => Len(tables'[s][1]) > 0
      BY <1>6 DEF TablesShaped, Even
    <2>2. CASE s # child
      BY <1>1, <1>2, <1>5, <2>2 DEF TablesShaped
    <2>3. CASE s = child
      BY <1>1, <1>2, <2>3 DEF TablesShaped, NoPrefix
    <2> QED BY <2>2, <2>3
  <1>10. RecordsShaped'
    BY <1>1 DEF RecordsShaped, IndexShaped, Records
  <1>11. \A l \in Tables : \A i \in 1 .. Len(tables[parent][l]) : tables[parent][l][i].slot = NoSlot
    <2>1. SUFFICES ASSUME NEW l \in Tables, NEW i \in 1 .. Len(tables[parent][l])
                   PROVE  <<l, i>> \in SwappedOut(parent) \/ tables[parent][l][i].slot = NoSlot
      BY <1>1
    <2>2. <<l, i>> \in Cells /\ At(parent, <<l, i>>) = tables[parent][l][i]
      BY <1>1, <1>3, MappedCells DEF At
    <2>3. i <= Len(tables[parent][l])
      BY <1>3
    <2> QED BY <2>2, <2>3 DEF SwappedOut, Mapped
  <1>12. tables[child] = NoTables
    BY <1>1 DEF TablesShaped
  <1>13. SlotsHeld'
    <2>1. SlotsAgree(tables, sequences, tables', sequences')
      <3>0. SUFFICES ASSUME NEW s \in SeqIds, NEW l \in Tables, NEW i \in Nat
                     PROVE  /\ SwappedAt(tables, sequences, s, l, i) <=> SwappedAt(tables', sequences', s, l, i)
                            /\ SwappedAt(tables, sequences, s, l, i) => tables[s][l][i].slot = tables'[s][l][i].slot
        BY DEF SlotsAgree
      <3>1. CASE s # child
        BY <1>2, <1>5, <3>1 DEF SwappedAt
      <3>2. CASE s = child
        <4>1. ~ SwappedAt(tables, sequences, s, l, i)
          BY <1>1, <3>2 DEF SwappedAt
        <4>2. ~ SwappedAt(tables', sequences', s, l, i)
          <5>1. SUFFICES ASSUME i \in 1 .. Len(row[l]) PROVE row[l][i].slot = NoSlot
            BY <1>5, <3>2 DEF SwappedAt
          <5> QED BY <1>4, <1>11, <5>1
        <4> QED BY <4>1, <4>2
      <3> QED BY <3>1, <3>2
    <2>2. /\ AbsentIn(tables', sequences') = AbsentIn(tables, sequences)
          /\ \A p \in AbsentIn(tables, sequences) : EntryAt(tables', p).slot = EntryAt(tables, p).slot
      BY <1>2, <1>3, <1>5, <1>6, <2>1, AbsentSame
    <2> QED BY <1>1, <2>2, SlotsKept
  <1>14. ASSUME RefCountsExact PROVE RefCountsExact'
    <2> DEFINE O == {child}
               P == {parent}
    <2>1. SUFFICES ASSUME NEW f \in Frames
                   PROVE  ref_count'[f] = Cardinality(EntriesIn(tables', sequences', f))
                                          + Cardinality(PinsOn(Records(prefix_index), f))
      BY <1>1, CountsBridge
    <2>2. /\ P \in SUBSET SeqIds /\ P \subseteq sequences /\ sequences' = sequences \cup {child}
          /\ O \in SUBSET SeqIds
      BY <1>1, <1>2
    <2>3. EntriesIn(tables, O, f) = {}
      BY <1>12, NoEntries
    <2> DEFINE A == EntriesIn(tables, P, f)
               B == EntriesIn(tables', O, f)
               h == [p \in A |-> <<child, p[2]>>]
    <2>4. IsFiniteSet(A) /\ Cardinality(B) = Cardinality(A)
      <3>1. IsFiniteSet(A)
        <4> HIDE DEF P
        <4> QED BY <2>2, EntriesFinite
      <3>2. \A p \in A : /\ p[1] = parent /\ p[2][1] \in Tables
                         /\ p[2][2] \in 1 .. Len(tables[parent][p[2][1]])
                         /\ p = <<p[1], p[2]>> /\ p[2] = <<p[2][1], p[2][2]>>
                         /\ tables[parent][p[2][1]][p[2][2]].frame = f
        <4>1. \A p \in A : p \in MappedIn(tables, P) /\ EntryAt(tables, p).frame = f
          BY DEF EntriesIn
        <4>2. \A p \in MappedIn(tables, P) :
                 /\ p[1] \in P /\ p[2][1] \in Tables /\ p[2][2] \in 1 .. Len(tables[p[1]][p[2][1]])
                 /\ p = <<p[1], p[2]>> /\ p[2] = <<p[2][1], p[2][2]>>
          <5> HIDE DEF P
          <5> QED BY <1>3, <2>2, MappedCells
        <4> QED BY <4>1, <4>2 DEF EntryAt
      <3>3. \A l \in Tables : \A i \in 1 .. Len(tables[parent][l]) :
              /\ tables[parent][l][i].frame = f => <<child, <<l, i>>>> \in B /\ <<parent, <<l, i>>>> \in A
        <4>1. SUFFICES ASSUME NEW l \in Tables, NEW i \in 1 .. Len(tables[parent][l]), tables[parent][l][i].frame = f
                       PROVE  <<child, <<l, i>>>> \in B /\ <<parent, <<l, i>>>> \in A
          OBVIOUS
        <4>2. <<l, i>> \in Cells
          BY <1>1, <1>3, MappedCells
        <4>3. i <= Len(tables[parent][l]) /\ i <= Len(tables'[child][l])
          BY <1>3, <1>4, <1>5
        <4>4. /\ tables[parent][l][i].slot = NoSlot
              /\ tables'[child][l][i].slot = NoSlot /\ tables'[child][l][i].frame = f
          BY <1>4, <1>5, <1>11, <4>1
        <4> QED BY <4>1, <4>2, <4>3, <4>4 DEF EntriesIn, MappedIn, EntryAt
      <3>4. h \in [A -> B]
        <4>1. ASSUME NEW p \in A PROVE <<child, p[2]>> \in B
          <5>1. p[2] = <<p[2][1], p[2][2]>>
            <6> HIDE DEF A
            <6> QED BY <3>2
          <5>2. <<child, <<p[2][1], p[2][2]>>>> \in B
            <6> HIDE DEF A, B
            <6> QED BY <3>2, <3>3
          <5> QED BY <5>1, <5>2
        <4> QED BY <4>1
      <3>5. \A x, y \in A : h[x] = h[y] => x = y
        <4>1. \A x \in A : h[x] = <<child, x[2]>> /\ x = <<parent, x[2]>>
          <5> HIDE DEF A
          <5> QED BY <3>2
        <4> HIDE DEF A, h
        <4> QED BY <4>1
      <3>6. \A b \in B : \E x \in A : h[x] = b
        <4>1. SUFFICES ASSUME NEW b \in B PROVE \E x \in A : h[x] = b
          OBVIOUS
        <4>2. b \in MappedIn(tables', O) /\ EntryAt(tables', b).frame = f
          BY DEF EntriesIn
        <4>3. /\ b[1] \in O /\ b[2][1] \in Tables /\ b[2][2] \in 1 .. Len(tables'[b[1]][b[2][1]])
              /\ b = <<b[1], <<b[2][1], b[2][2]>>>>
          <5> HIDE DEF O
          <5> QED BY <1>5, <1>6, <2>2, <4>2, MappedCells
        <4>4. b[2][2] \in 1 .. Len(tables[parent][b[2][1]]) /\ b[1] = child
          BY <1>4, <1>5, <4>3
        <4>5. tables[parent][b[2][1]][b[2][2]].frame = f
          BY <1>4, <1>5, <4>2, <4>3, <4>4 DEF EntryAt
        <4>6. <<parent, <<b[2][1], b[2][2]>>>> \in A
          <5> HIDE DEF A, B
          <5> QED BY <3>3, <4>3, <4>4, <4>5
        <4>7. h[<<parent, <<b[2][1], b[2][2]>>>>] = b
          <5> HIDE DEF A
          <5> QED BY <4>3, <4>4, <4>6
        <4> QED BY <4>6, <4>7
      <3> HIDE DEF A, B, h
      <3> QED BY <3>1, <3>4, <3>5, <3>6, SameCount
    <2>5. ForkRetains(parent)[f] = Cardinality(A)
      BY Bridges DEF ForkRetains, EntryCount
    <2>6. A \subseteq EntriesIn(tables, sequences, f)
      BY <2>2 DEF EntriesIn, MappedIn
    <2> HIDE DEF A, B, O, P
    <2>7. /\ Cardinality(EntriesIn(tables', sequences', f)) \in Nat
          /\ Cardinality(EntriesIn(tables', sequences', f)) + Cardinality(EntriesIn(tables, O, f))
                = Cardinality(EntriesIn(tables, sequences, f)) + Cardinality(B)
      <3>1. SameTables(tables, tables', SeqIds \ O)
        BY <1>5 DEF SameTables, O
      <3>2. O = {child}
        BY DEF O
      <3>3. OneChanged(tables, tables', sequences, sequences', child, O)
        BY <1>3, <1>12, <2>2, <3>1, <3>2 DEF OneChanged
      <3> QED BY <3>3, EntriesOfOne DEF B
    <2>8. Cardinality(EntriesIn(tables, O, f)) = 0
      BY <2>3, FS_EmptySet
    <2>9. /\ Cardinality(EntriesIn(tables, sequences, f)) \in Nat
          /\ Cardinality(PinsOn(Records(prefix_index), f)) \in Nat
          /\ ref_count[f] = Cardinality(EntriesIn(tables, sequences, f))
                             + Cardinality(PinsOn(Records(prefix_index), f))
          /\ ref_count[f] = 0 => /\ EntriesIn(tables, sequences, f) = {}
                                 /\ PinsOn(Records(prefix_index), f) = {}
      BY <1>14, CountFacts
    <2>10. ref_count[f] = 0 => Cardinality(A) = 0
      BY <2>6, <2>9, FS_EmptySet
    <2>11. Cardinality(A) \in Nat
      BY <2>4, FS_CardinalityType
    <2>12. ref_count'[f] = IF ref_count[f] = 0 THEN 0 ELSE ref_count[f] + ForkRetains(parent)[f]
      BY <1>1 DEF RetainEach
    <2> QED BY ONLY <2>4, <2>5, <2>7, <2>8, <2>9, <2>10, <2>11, <2>12
  <1> QED BY <1>2, <1>8, <1>9, <1>10, <1>13, <1>14
-----------------------------------------------------------------------------
(* reserve_tokens *)
LEMMA AppendedTable ==
    ASSUME NEW table \in Seq(Entry), NEW n \in Nat, NEW frames \in [1 .. n -> Frames]
    PROVE  /\ Appended(table, frames) \in Seq(Entry)
           /\ Len(Appended(table, frames)) = Len(table) + n
           /\ \A i \in 1 .. Len(table) : Appended(table, frames)[i] = table[i]
           /\ \A i \in 1 .. n : Appended(table, frames)[Len(table) + i]
                                   = [frame |-> frames[i], slot |-> NoSlot, writable |-> TRUE]
  <1> DEFINE new == [i \in 1 .. n |-> [frame |-> frames[i], slot |-> NoSlot, writable |-> TRUE]]
  <1>1. frames \in Seq(Frames) /\ Len(frames) = n
    BY LenProperties, SeqDef
  <1>2. Appended(table, frames) = table \o new
    BY <1>1 DEF Appended
  <1>3. new \in [1 .. n -> Entry]
    BY DEF Entry
  <1>4. \A i \in 1 .. n : new[i] = [frame |-> frames[i], slot |-> NoSlot, writable |-> TRUE]
    OBVIOUS
  <1> HIDE DEF new
  <1>5. new \in Seq(Entry) /\ Len(new) = n
    BY <1>3, LenProperties, SeqDef
  <1>6. Len(table) \in Nat /\ Len(table \o new) = Len(table) + n /\ table \o new \in Seq(Entry)
    BY <1>5
  <1>7. \A i \in 1 .. Len(table) : (table \o new)[i] = table[i]
    BY <1>5, <1>6
  <1>8. \A i \in 1 .. n : (table \o new)[Len(table) + i] = new[i]
    BY <1>5, <1>6
  <1> QED BY <1>2, <1>4, <1>6, <1>7, <1>8

LEMMA ReserveKeeps ==
    ASSUME Structure, NEW s \in SeqIds, NEW n \in 1 .. MaxTokens, reserve_tokens(s, n)
    PROVE  /\ Structure'
           /\ RefCountsExact => RefCountsExact'
  <1> USE DEF Structure
  <1> DEFINE b == blocks_for(n)
             T == tables
             len == Len(tables[s][1])
  <1>1. PICK g \in Injection(Tables \X (1 .. b), FreeFrames(ref_count)) :
          /\ tables' = [tables EXCEPT ![s] = [l \in Tables |->
                Appended(tables[s][l], [i \in 1 .. b |-> g[<<l, i>>]])]]
          /\ ref_count' = AllocateEach(ref_count, Range(g))
    BY DEF reserve_tokens
  <1>2. /\ s \in sequences /\ len + b <= MaxBlocks
        /\ data' = data /\ swap' = swap /\ sequences' = sequences /\ request_of' = request_of
        /\ prefix' = prefix /\ sequences_by_request' = sequences_by_request /\ prefix_index' = prefix_index
    BY DEF reserve_tokens
  <1>3. b \in Nat
    <2>1. n \in Nat  BY ConfigFacts
    <2> QED BY <2>1, ConfigFacts
  <1>4. /\ tables \in TableMaps /\ Even(tables) /\ sequences \in SUBSET SeqIds
        /\ \A t \in SeqIds, l \in Tables : tables[t][l] \in Seq(Entry) /\ Len(tables[t][l]) \in Nat
    BY TablesFacts
  <1>5. len \in Nat /\ \A l \in Tables : Len(tables[s][l]) = len
    BY <1>4, ConfigFacts DEF Even
  <1> HIDE DEF b, len
  <1>6. /\ g \in [Tables \X (1 .. b) -> FreeFrames(ref_count)] /\ DOMAIN g = Tables \X (1 .. b)
        /\ \A x, y \in Tables \X (1 .. b) : g[x] = g[y] => x = y
        /\ \A l \in Tables, i \in 1 .. b : g[<<l, i>>] \in Frames /\ ref_count[g[<<l, i>>]] = 0
    BY <1>1 DEF Injection, IsInjective, FreeFrames
  <1> DEFINE row == [l \in Tables |-> Appended(tables[s][l], [i \in 1 .. b |-> g[<<l, i>>]])]
  <1>7. ASSUME NEW l \in Tables
        PROVE  /\ row[l] \in Seq(Entry) /\ Len(row[l]) = len + b
               /\ \A i \in 1 .. len : row[l][i] = tables[s][l][i]
               /\ \A i \in 1 .. b : row[l][len + i] = [frame |-> g[<<l, i>>], slot |-> NoSlot, writable |-> TRUE]
    <2> DEFINE fr == [i \in 1 .. b |-> g[<<l, i>>]]
    <2>1. fr \in [1 .. b -> Frames] /\ \A i \in 1 .. b : fr[i] = g[<<l, i>>]
      BY <1>6
    <2>2. row[l] = Appended(tables[s][l], fr)
      OBVIOUS
    <2>3. tables[s][l] \in Seq(Entry) /\ Len(tables[s][l]) = len
      BY <1>4, <1>5
    <2> DEFINE old == tables[s][l]
               new == Appended(old, fr)
    <2> HIDE DEF fr, old
    <2>4. old \in Seq(Entry) /\ Len(old) = len /\ row[l] = new
      BY <2>2, <2>3 DEF old
    <2>5. /\ new \in Seq(Entry) /\ Len(new) = Len(old) + b
          /\ \A i \in 1 .. Len(old) : new[i] = old[i]
          /\ \A i \in 1 .. b : new[Len(old) + i] = [frame |-> fr[i], slot |-> NoSlot, writable |-> TRUE]
      BY <1>3, <2>1, <2>4, AppendedTable
    <2> HIDE DEF new, row
    <2> QED BY <2>1, <2>4, <2>5 DEF old
  <1>8. row \in [Tables -> Seq(Entry)] /\ tables' = [tables EXCEPT ![s] = row]
    BY <1>1, <1>7
  <1> HIDE DEF row
  <1>9. /\ tables' \in TableMaps /\ tables'[s] = row
        /\ \A t \in SeqIds : t # s => tables'[t] = tables[t]
    BY <1>4, <1>8 DEF TableMaps
  <1>10. Even(tables')
    <2>1. SUFFICES ASSUME NEW t \in SeqIds
                   PROVE  /\ \A l \in Tables : Len(tables'[t][l]) = Len(tables'[t][1])
                          /\ Len(tables'[t][1]) <= MaxBlocks
      BY DEF Even
    <2>2. CASE t = s
      BY <1>2, <1>7, <1>9, <2>2, ConfigFacts
    <2>3. CASE t # s
      BY <1>4, <1>9, <2>3 DEF Even
    <2> QED BY <2>2, <2>3
  <1>11. ref_count \in [Frames -> Nat] /\ ref_count' \in [Frames -> Nat]
    <2>1. ref_count \in [Frames -> Nat]
      BY DEF TypeOK
    <2> QED BY <1>1, <2>1 DEF AllocateEach
  <1>12. TypeOK'
    BY <1>2, <1>9, <1>11 DEF TypeOK, TableMaps
  <1>13. TablesShaped'
    <2>1. SUFFICES ASSUME NEW t \in SeqIds
                   PROVE  /\ t \notin sequences' => tables'[t] = NoTables /\ prefix'[t] = NoPrefix
                          /\ t \in sequences' => request_of'[t] \in Requests
                          /\ prefix'[t].key # NoKey => Len(tables'[t][1]) > 0
      BY <1>10 DEF TablesShaped, Even
    <2>2. CASE t # s
      BY <1>2, <1>9, <2>2 DEF TablesShaped
    <2>3. CASE t = s
      <3>1. prefix[s].key # NoKey => len > 0
        BY DEF TablesShaped, len
      <3>2. Len(tables'[s][1]) = len + b
        BY <1>7, <1>9, ConfigFacts
      <3>3. request_of[s] \in Requests
        BY <1>2 DEF TablesShaped
      <3> QED BY <1>2, <1>3, <1>5, <2>3, <3>1, <3>2, <3>3
    <2> QED BY <2>2, <2>3
  <1>14. RecordsShaped' /\ RequestsListed'
    BY <1>2 DEF RecordsShaped, IndexShaped, Records, RequestsListed, SequencesFor
  <1>15. \A i \in 1 .. len + b : i \in 1 .. len \/ (i - len \in 1 .. b /\ i = len + (i - len))
    BY <1>3, <1>5
  <1>16. ASSUME NEW l \in Tables, NEW i \in 1 .. len + b, i \notin 1 .. len
         PROVE  /\ i - len \in 1 .. b /\ i = len + (i - len)
                /\ tables'[s][l][i].slot = NoSlot /\ tables'[s][l][i].frame = g[<<l, i - len>>]
    <2>1. i - len \in 1 .. b /\ i = len + (i - len)
      BY <1>15, <1>16
    <2>2. row[l][len + (i - len)] = [frame |-> g[<<l, i - len>>], slot |-> NoSlot, writable |-> TRUE]
      BY <1>7, <2>1
    <2>3. tables'[s][l][i] = [frame |-> g[<<l, i - len>>], slot |-> NoSlot, writable |-> TRUE]
      BY <1>9, <2>1, <2>2
    <2> QED BY <2>1, <2>3
  <1>17. SlotsHeld'
    <2>1. SlotsAgree(tables, sequences, tables', sequences')
      <3>1. SUFFICES ASSUME NEW t \in SeqIds, NEW l \in Tables, NEW i \in Nat
                     PROVE  /\ SwappedAt(tables, sequences, t, l, i) <=> SwappedAt(tables', sequences', t, l, i)
                            /\ SwappedAt(tables, sequences, t, l, i) => tables[t][l][i].slot = tables'[t][l][i].slot
        BY DEF SlotsAgree
      <3>2. CASE t # s
        BY <1>2, <1>9, <3>2 DEF SwappedAt
      <3>3. CASE t = s
        <4>1. Len(tables[s][l]) = len /\ Len(tables'[s][l]) = len + b
          BY <1>5, <1>7, <1>9
        <4>2. CASE i \in 1 .. len
          <5>1. tables'[s][l][i] = tables[s][l][i] /\ i \in 1 .. len + b
            BY <1>3, <1>5, <1>7, <1>9, <4>2
          <5> QED BY <1>2, <3>3, <4>1, <4>2, <5>1 DEF SwappedAt
        <4>3. CASE i \notin 1 .. len
          <5>1. i \in 1 .. len + b => tables'[s][l][i].slot = NoSlot
            BY <1>16, <4>3
          <5> QED BY <3>3, <4>1, <4>3, <5>1 DEF SwappedAt
        <4> QED BY <4>2, <4>3
      <3> QED BY <3>2, <3>3
    <2>2. /\ AbsentIn(tables', sequences') = AbsentIn(tables, sequences)
          /\ \A p \in AbsentIn(tables, sequences) : EntryAt(tables', p).slot = EntryAt(tables, p).slot
      BY <1>2, <1>4, <1>9, <1>10, <2>1, AbsentSame
    <2> QED BY <1>2, <2>2, SlotsKept
  <1>18. ASSUME RefCountsExact PROVE RefCountsExact'
    <2> DEFINE O == {s}
    <2>1. SUFFICES ASSUME NEW f \in Frames
                   PROVE  ref_count'[f] = Cardinality(EntriesIn(tables', sequences', f))
                                          + Cardinality(PinsOn(Records(prefix_index), f))
      BY <1>2, CountsBridge
    <2>2. O \in SUBSET SeqIds /\ O \subseteq sequences /\ sequences = sequences \cup {s} /\ O = {s} /\ s \in O
      BY <1>2
    <2>3. SameTables(tables, tables', SeqIds \ O)
      BY <1>9 DEF SameTables
    <2> HIDE DEF O
    <2>4. /\ Cardinality(EntriesIn(tables', sequences, f)) \in Nat
          /\ Cardinality(EntriesIn(tables, O, f)) \in Nat
          /\ Cardinality(EntriesIn(tables', O, f)) \in Nat
          /\ Cardinality(EntriesIn(tables', sequences, f)) + Cardinality(EntriesIn(tables, O, f))
                = Cardinality(EntriesIn(tables, sequences, f)) + Cardinality(EntriesIn(tables', O, f))
      <3>1. OneChanged(tables, tables', sequences, sequences, s, O)
        BY <1>2, <1>4, <2>2, <2>3 DEF OneChanged
      <3> QED BY <3>1, EntriesOfOne
    <2>5. /\ Cardinality(EntriesIn(tables, sequences, f)) \in Nat
          /\ Cardinality(PinsOn(Records(prefix_index), f)) \in Nat
          /\ ref_count[f] = Cardinality(EntriesIn(tables, sequences, f))
                             + Cardinality(PinsOn(Records(prefix_index), f))
          /\ ref_count[f] = 0 => /\ EntriesIn(tables, sequences, f) = {}
                                 /\ PinsOn(Records(prefix_index), f) = {}
      BY <1>18, CountFacts
    <2>6. \A p \in MappedIn(tables', O) :
             /\ p = <<p[1], p[2]>> /\ p[2] = <<p[2][1], p[2][2]>> /\ p[2] \in Cells
             /\ p[1] = s /\ p[2][1] \in Tables /\ p[2][2] \in 1 .. len + b
      <3>1. \A p \in MappedIn(tables', O) :
             /\ p = <<p[1], p[2]>> /\ p[2] = <<p[2][1], p[2][2]>> /\ p[2] \in Cells
             /\ p[1] \in O /\ p[2][1] \in Tables /\ p[2][2] \in 1 .. Len(tables'[p[1]][p[2][1]])
        BY <1>9, <1>10, <2>2, MappedCells
      <3> QED BY <1>7, <1>9, <2>2, <3>1
    <2>7. CASE f \notin Range(g)
      <3>1. EntriesIn(tables', O, f) = EntriesIn(tables, O, f)
        <4>1. ASSUME NEW p \in EntriesIn(tables', O, f) PROVE p \in EntriesIn(tables, O, f)
          <5>1. p \in MappedIn(tables', O) /\ EntryAt(tables', p).slot = NoSlot /\ EntryAt(tables', p).frame = f
            BY DEF EntriesIn
          <5>2. p[2][2] \in 1 .. len
            <6>1. SUFFICES ASSUME p[2][2] \notin 1 .. len PROVE FALSE
              OBVIOUS
            <6>2. tables'[s][p[2][1]][p[2][2]].frame = g[<<p[2][1], p[2][2] - len>>] /\ p[2][2] - len \in 1 .. b
              BY <1>16, <2>6, <5>1, <6>1
            <6>3. <<p[2][1], p[2][2] - len>> \in DOMAIN g
              BY <1>6, <2>6, <5>1, <6>2
            <6> QED BY <2>6, <2>7, <5>1, <6>2, <6>3 DEF Range, EntryAt
          <5>3. tables'[s][p[2][1]][p[2][2]] = tables[s][p[2][1]][p[2][2]]
            BY <1>7, <1>9, <2>6, <5>1, <5>2
          <5>4. p[2][2] <= Len(tables[s][p[2][1]])
            BY <1>5, <2>6, <5>1, <5>2, SMTT(40)
          <5> QED BY <2>2, <2>6, <5>1, <5>3, <5>4 DEF EntriesIn, MappedIn, EntryAt
        <4>2. ASSUME NEW p \in EntriesIn(tables, O, f) PROVE p \in EntriesIn(tables', O, f)
          <5>1. p \in MappedIn(tables, O) /\ EntryAt(tables, p).slot = NoSlot /\ EntryAt(tables, p).frame = f
            BY DEF EntriesIn
          <5>2. /\ p = <<p[1], p[2]>> /\ p[2] = <<p[2][1], p[2][2]>> /\ p[2] \in Cells
                /\ p[1] \in O /\ p[2][1] \in Tables /\ p[2][2] \in 1 .. Len(tables[p[1]][p[2][1]])
            BY <1>4, <2>2, <5>1, MappedCells
          <5>3. p[1] = s /\ p[2][2] \in 1 .. len
            BY <1>5, <2>2, <5>2
          <5>4. tables'[s][p[2][1]][p[2][2]] = tables[s][p[2][1]][p[2][2]]
            BY <1>7, <1>9, <5>2, <5>3
          <5>5. p[2][2] <= Len(tables'[s][p[2][1]])
            BY <1>3, <1>5, <1>7, <1>9, <5>2, <5>3
          <5> QED BY <5>1, <5>2, <5>3, <5>4, <5>5 DEF EntriesIn, MappedIn, EntryAt
        <4> QED BY <4>1, <4>2, SMTT(40)
      <3>2. ref_count'[f] = ref_count[f]
        BY <1>1, <2>7 DEF AllocateEach
      <3> QED BY <1>2, <2>4, <2>5, <3>1, <3>2
    <2>8. CASE f \in Range(g)
      <3>1. PICK l \in Tables, i \in 1 .. b : g[<<l, i>>] = f
        BY <1>6, <2>8 DEF Range
      <3>2. ref_count[f] = 0 /\ ref_count'[f] = 1
        BY <1>1, <1>6, <2>8, <3>1 DEF AllocateEach
      <3>3. EntriesIn(tables, O, f) = {} /\ EntriesIn(tables, sequences, f) = {}
            /\ PinsOn(Records(prefix_index), f) = {}
        <4>1. EntriesIn(tables, O, f) \subseteq EntriesIn(tables, sequences, f)
          BY <2>2 DEF EntriesIn, MappedIn
        <4> QED BY <2>5, <3>2, <4>1
      <3> DEFINE x == <<s, <<l, len + i>>>>
      <3>4. /\ len + i \in 1 .. len + b /\ len + i \notin 1 .. len /\ (len + i) - len = i
            /\ len + i \in 1 .. MaxBlocks
        BY <1>2, <1>3, <1>5, ConfigFacts
      <3>5. x \in EntriesIn(tables', O, f)
        <4>1. tables'[s][l][len + i].slot = NoSlot /\ tables'[s][l][len + i].frame = f
          BY <1>16, <3>1, <3>4
        <4>2. <<l, len + i>> \in Cells
          BY <3>4 DEF Cells
        <4>3. len + i <= Len(tables'[s][l])
          BY <1>3, <1>5, <1>7, <1>9, <3>4
        <4> QED BY <2>2, <4>1, <4>2, <4>3 DEF EntriesIn, MappedIn, EntryAt
      <3>6. ASSUME NEW p \in EntriesIn(tables', O, f) PROVE p = x
        <4>1. p \in MappedIn(tables', O) /\ EntryAt(tables', p).slot = NoSlot /\ EntryAt(tables', p).frame = f
          BY DEF EntriesIn
        <4>2. /\ p = <<p[1], p[2]>> /\ p[2] = <<p[2][1], p[2][2]>> /\ p[2] \in Cells
              /\ p[1] = s /\ p[2][1] \in Tables /\ p[2][2] \in 1 .. len + b
          BY <2>6, <4>1, SMTT(40)
        <4>3. p[2][2] \notin 1 .. len
          <5>1. SUFFICES ASSUME p[2][2] \in 1 .. len PROVE p \in EntriesIn(tables, O, f)
            BY <3>3
          <5>2. tables'[s][p[2][1]][p[2][2]] = tables[s][p[2][1]][p[2][2]]
            BY <1>7, <1>9, <4>2, <5>1
          <5>3. p[2][2] <= Len(tables[s][p[2][1]])
            BY <1>5, <4>2, <5>1
          <5> QED BY <2>2, <4>1, <4>2, <5>2, <5>3 DEF EntriesIn, MappedIn, EntryAt
        <4>4. /\ p[2][2] - len \in 1 .. b /\ p[2][2] = len + (p[2][2] - len)
              /\ tables'[s][p[2][1]][p[2][2]].frame = g[<<p[2][1], p[2][2] - len>>]
          BY <1>16, <4>2, <4>3
        <4>5. g[<<p[2][1], p[2][2] - len>>] = g[<<l, i>>]
          BY <3>1, <4>1, <4>2, <4>4 DEF EntryAt
        <4>6. <<p[2][1], p[2][2] - len>> = <<l, i>>
          <5>1. <<p[2][1], p[2][2] - len>> \in Tables \X (1 .. b) /\ <<l, i>> \in Tables \X (1 .. b)
            BY <4>2, <4>4
          <5> QED BY <1>6, <4>5, <5>1
        <4>7. p[2] = <<l, len + i>>
          BY <4>2, <4>4, <4>6
        <4> QED BY <4>2, <4>7
      <3>7. Cardinality(EntriesIn(tables', O, f)) = 1
        <4>1. EntriesIn(tables', O, f) = {x}
          BY <3>5, <3>6
        <4> HIDE DEF x
        <4> QED BY <4>1, SingletonCount
      <3>8. Cardinality(EntriesIn(tables, O, f)) = 0 /\ Cardinality(EntriesIn(tables, sequences, f)) = 0
            /\ Cardinality(PinsOn(Records(prefix_index), f)) = 0
        BY <3>3, FS_EmptySet
      <3> QED BY <1>2, <2>4, <2>5, <3>2, <3>7, <3>8
    <2> QED BY <2>7, <2>8
  <1> QED BY <1>12, <1>13, <1>14, <1>17, <1>18
-----------------------------------------------------------------------------
(* Prefix records. *)
LEMMA RecordsAre ==
    ASSUME NEW index
    PROVE  /\ \A k \in Keys : \A rec \in index[k] : <<k, rec>> \in Records(index)
           /\ \A x \in Records(index) : x = <<x[1], x[2]>> /\ x[1] \in Keys /\ x[2] \in index[x[1]]
  BY DEF Records

LEMMA RecordFields ==
    ASSUME NEW rec \in Record, NEW n \in Nat
    PROVE  /\ [rec EXCEPT !.users = n] \in Record
           /\ [rec EXCEPT !.users = n].hash = rec.hash
           /\ [rec EXCEPT !.users = n].ids = rec.ids
           /\ [rec EXCEPT !.users = n].users = n
           /\ n = rec.users => [rec EXCEPT !.users = n] = rec
           /\ rec.ids \in [Tables -> Seq(Frames)]
           /\ rec.hash \in Block
           /\ rec.users \in Nat
  BY DEF Record

(* The index after a step that keeps the records of R, with new user counts. *)
Remade(index, new, R, u) ==
    new = [k \in Keys |-> {[rec EXCEPT !.users = u[<<k, rec>>]] : rec \in {r \in index[k] : <<k, r>> \in R}}]

LEMMA RemadeIndex ==
    ASSUME NEW index \in [Keys -> SUBSET Record], IndexShaped(index), NEW R \in SUBSET Records(index),
           NEW u \in [R -> Nat], NEW new, Remade(index, new, R, u)
    PROVE  /\ new \in [Keys -> SUBSET Record]
           /\ IndexShaped(new)
           /\ IsFiniteSet(R)
           /\ \A f : Cardinality(PinsOn(Records(new), f)) = Cardinality(PinsOn(R, f))
  <1> DEFINE upd(x) == [x[2] EXCEPT !.users = u[x]]
             Q == Records(new)
             h == [x \in R |-> <<x[1], upd(x)>>]
  <1>1. \A x \in R : /\ x = <<x[1], x[2]>> /\ x[1] \in Keys /\ x[2] \in index[x[1]] /\ x[2] \in Record
                     /\ u[x] \in Nat
    BY RecordsAre
  <1>2. \A x \in R : /\ upd(x) \in Record /\ upd(x).hash = x[2].hash /\ upd(x).ids = x[2].ids
    BY <1>1, RecordFields
  <1>3. \A k \in Keys : /\ \A x \in R : x[1] = k => upd(x) \in new[k]
                        /\ \A n \in new[k] : \E x \in R : x[1] = k /\ n = upd(x)
    <2>1. SUFFICES ASSUME NEW k \in Keys
                   PROVE  /\ \A x \in R : x[1] = k => upd(x) \in new[k]
                          /\ \A n \in new[k] : \E x \in R : x[1] = k /\ n = upd(x)
      OBVIOUS
    <2>2. new[k] = {[rec EXCEPT !.users = u[<<k, rec>>]] : rec \in {r \in index[k] : <<k, r>> \in R}}
      BY DEF Remade
    <2>3. ASSUME NEW x \in R, x[1] = k PROVE upd(x) \in new[k]
      <3>1. x = <<k, x[2]>> /\ x[2] \in index[k]
        BY <1>1, <2>3
      <3> QED BY <2>2, <3>1
    <2>4. ASSUME NEW n \in new[k] PROVE \E x \in R : x[1] = k /\ n = upd(x)
      <3>1. PICK rec \in index[k] : <<k, rec>> \in R /\ n = [rec EXCEPT !.users = u[<<k, rec>>]]
        BY <2>2, <2>4
      <3> QED BY <3>1
    <2> QED BY <2>3, <2>4
  <1> HIDE DEF upd
  <1>4. new \in [Keys -> SUBSET Record]
    <2>1. new = [k \in Keys |-> new[k]]
      BY DEF Remade
    <2>2. \A k \in Keys : new[k] \in SUBSET Record
      BY <1>2, <1>3
    <2> QED BY <2>1, <2>2
  <1>5. \A k \in Keys : \A a, b \in index[k] : a.hash = b.hash => a = b
    BY DEF IndexShaped
  <1>6. h \in [R -> Q]
    <2>1. \A x \in R : <<x[1], upd(x)>> \in Q
      BY <1>1, <1>3, RecordsAre
    <2> QED BY <2>1
  <1>7. \A x, y \in R : h[x] = h[y] => x = y
    <2>1. SUFFICES ASSUME NEW x \in R, NEW y \in R, <<x[1], upd(x)>> = <<y[1], upd(y)>> PROVE x = y
      OBVIOUS
    <2>2. x[1] = y[1] /\ upd(x) = upd(y)
      BY <2>1
    <2>3. x[2] = y[2]
      BY <1>1, <1>2, <1>5, <2>2
    <2> QED BY <1>1, <2>2, <2>3
  <1>8. \A q \in Q : \E x \in R : h[x] = q
    <2>1. SUFFICES ASSUME NEW q \in Q PROVE \E x \in R : <<x[1], upd(x)>> = q
      OBVIOUS
    <2>2. q = <<q[1], q[2]>> /\ q[1] \in Keys /\ q[2] \in new[q[1]]
      BY RecordsAre
    <2>3. PICK x \in R : x[1] = q[1] /\ q[2] = upd(x)
      BY <1>3, <2>2
    <2> QED BY <2>2, <2>3
  <1>9. \A x \in R : h[x][2].ids = x[2].ids
    BY <1>2
  <1>10. IsFiniteSet(R)
    BY FS_Subset DEF IndexShaped
  <1> HIDE DEF h, Q
  <1>11. \A f : IsFiniteSet(Q) /\ Cardinality(PinsOn(Q, f)) = Cardinality(PinsOn(R, f))
    <2>1. Carries(R, Q, h)
      BY <1>6, <1>7, <1>8, <1>9 DEF Carries
    <2> QED BY <1>10, <2>1, PinsMove
  <1>12. IndexShaped(new)
    <2>1. SUFFICES ASSUME NEW k \in Keys, NEW rec \in new[k]
                   PROVE  /\ \A l \in Tables : Len(rec.ids[l]) = Len(rec.ids[1])
                          /\ Len(rec.ids[1]) \in 1 .. MaxBlocks
                          /\ \A other \in new[k] : other.hash = rec.hash => other = rec
      BY <1>11 DEF IndexShaped, Q
    <2>2. PICK x \in R : x[1] = k /\ rec = upd(x)
      BY <1>3
    <2>3. x[2] \in index[k] /\ rec.ids = x[2].ids /\ rec.hash = x[2].hash
      BY <1>1, <1>2, <2>2
    <2>4. ASSUME NEW other \in new[k], other.hash = rec.hash PROVE other = rec
      <3>1. PICK y \in R : y[1] = k /\ other = upd(y)
        BY <1>3
      <3>2. y[2] \in index[k] /\ y[2].hash = x[2].hash
        BY <1>1, <1>2, <2>3, <2>4, <3>1
      <3>3. y = x
        BY <1>1, <1>5, <2>2, <2>3, <3>1, <3>2
      <3> QED BY <2>2, <3>1, <3>3
    <2> QED BY <2>3, <2>4 DEF IndexShaped
  <1> QED BY <1>4, <1>10, <1>11, <1>12 DEF Q

(* One more user for the record rec of key k, and every other as it was. *)
OneJoined(index, new, k, rec) ==
    /\ k \in Keys /\ rec \in index[k]
    /\ new = [index EXCEPT ![k] = (index[k] \ {rec}) \cup {Joined(rec)}]

LEMMA JoinedIndex ==
    ASSUME NEW index \in [Keys -> SUBSET Record], IndexShaped(index),
           NEW k, NEW rec, NEW new, OneJoined(index, new, k, rec)
    PROVE  /\ new \in [Keys -> SUBSET Record]
           /\ IndexShaped(new)
           /\ \A f : Cardinality(PinsOn(Records(new), f)) = Cardinality(PinsOn(Records(index), f))
  <1> DEFINE R == Records(index)
             u == [x \in R |-> IF x = <<k, rec>> THEN x[2].users + 1 ELSE x[2].users]
  <1> USE DEF OneJoined
  <1>1. \A x \in R : x = <<x[1], x[2]>> /\ x[1] \in Keys /\ x[2] \in index[x[1]] /\ x[2] \in Record
    BY RecordsAre
  <1>2. u \in [R -> Nat]
    <2>1. \A x \in R : x[2].users \in Nat
      BY <1>1 DEF Record
    <2> HIDE DEF R
    <2> QED BY <2>1
  <1>3. Remade(index, new, R, u)
    <2> DEFINE v(j, r) == [r EXCEPT !.users = u[<<j, r>>]]
               Row(j) == {v(j, r) : r \in {r \in index[j] : <<j, r>> \in R}}
    <2>1. ASSUME NEW j \in Keys, NEW r \in index[j]
          PROVE  /\ <<j, r>> \in R /\ r \in Record
                 /\ v(j, r) = IF j = k /\ r = rec THEN Joined(rec) ELSE r
      <3>1. <<j, r>> \in R /\ r \in Record /\ r.users \in Nat
        BY RecordsAre DEF Record
      <3>2. CASE j = k /\ r = rec
        <4>1. u[<<j, r>>] = rec.users + 1
          BY <3>1, <3>2
        <4> QED BY <3>1, <3>2, <4>1 DEF Joined
      <3>3. CASE ~(j = k /\ r = rec)
        <4>1. u[<<j, r>>] = r.users
          BY <3>1, <3>3
        <4> HIDE DEF u, R
        <4> QED BY <3>1, <3>3, <4>1, RecordFields
      <3> QED BY <3>1, <3>2, <3>3
    <2> HIDE DEF u, R, v
    <2>2. ASSUME NEW j \in Keys PROVE new[j] = Row(j)
      <3>1. CASE j # k
        <4>1. new[j] = index[j]
          BY <3>1
        <4>2. \A r \in index[j] : <<j, r>> \in R /\ v(j, r) = r
          BY <2>1, <3>1
        <4> QED BY <4>1, <4>2
      <3>2. CASE j = k
        <4>1. new[j] = (index[j] \ {rec}) \cup {Joined(rec)} /\ rec \in index[j]
          BY <3>2
        <4>2. \A r \in index[j] : <<j, r>> \in R /\ v(j, r) = IF r = rec THEN Joined(rec) ELSE r
          BY <2>1, <3>2
        <4> QED BY ONLY <4>1, <4>2
      <3> QED BY <3>1, <3>2
    <2>3. new = [j \in Keys |-> new[j]]
      OBVIOUS
    <2> QED BY <2>2, <2>3 DEF Remade, v
  <1> HIDE DEF u
  <1>4. R \in SUBSET Records(index) /\ index \in [Keys -> SUBSET Record] /\ IndexShaped(index)
    OBVIOUS
  <1> HIDE DEF R
  <1>5. /\ new \in [Keys -> SUBSET Record] /\ IndexShaped(new)
        /\ \A f : Cardinality(PinsOn(Records(new), f)) = Cardinality(PinsOn(R, f))
    BY ONLY <1>2, <1>3, <1>4, RemadeIndex
  <1> QED BY <1>5 DEF R
-----------------------------------------------------------------------------
(* attach_prefix *)
LEMMA AttachKeeps ==
    ASSUME Structure, NEW s \in SeqIds, NEW k \in Keys, attach_prefix(s, k)
    PROVE  /\ Structure'
           /\ RefCountsExact => RefCountsExact'
  <1> USE DEF Structure
  <1>1. PICK rec \in prefix_index[k] :
          /\ prefix_index[k] = {rec}
          /\ tables' = [tables EXCEPT ![s] = [l \in Tables |-> [i \in 1 .. Len(rec.ids[l]) |->
                [frame |-> rec.ids[l][i], slot |-> NoSlot, writable |-> FALSE]]]]
          /\ ref_count' = RetainEach(ref_count, PinCount({<<k, rec>>}))
          /\ prefix_index' = [prefix_index EXCEPT ![k] = {Joined(rec)}]
          /\ prefix' = [prefix EXCEPT ![s] = [key |-> k, hash |-> rec.hash]]
    BY DEF attach_prefix
  <1>2. /\ s \in sequences /\ Len(tables[s][1]) = 0
        /\ data' = data /\ swap' = swap /\ sequences' = sequences /\ request_of' = request_of
        /\ sequences_by_request' = sequences_by_request
    BY DEF attach_prefix
  <1>3. /\ tables \in TableMaps /\ Even(tables) /\ sequences \in SUBSET SeqIds
        /\ \A t \in SeqIds, l \in Tables : tables[t][l] \in Seq(Entry) /\ Len(tables[t][l]) \in Nat
    BY TablesFacts
  <1>4. /\ prefix_index \in [Keys -> SUBSET Record] /\ rec \in Record /\ IndexShaped(prefix_index)
        /\ prefix \in [SeqIds -> [key : Keys \cup {NoKey}, hash : Block]]
        /\ ref_count \in [Frames -> Nat]
    BY DEF TypeOK, RecordsShaped
  <1>5. /\ rec.ids \in [Tables -> Seq(Frames)] /\ rec.hash \in Block
        /\ Len(rec.ids[1]) \in 1 .. MaxBlocks /\ \A l \in Tables : Len(rec.ids[l]) = Len(rec.ids[1])
    BY <1>4 DEF Record, IndexShaped
  <1> DEFINE ids == rec.ids
             len == Len(ids[1])
             row == [l \in Tables |-> [i \in 1 .. Len(ids[l]) |->
                       [frame |-> ids[l][i], slot |-> NoSlot, writable |-> FALSE]]]
  <1>6. /\ len \in 1 .. MaxBlocks /\ len \in Nat /\ len <= MaxBlocks /\ len > 0
        /\ \A l \in Tables : ids[l] \in Seq(Frames) /\ Len(ids[l]) = len
        /\ \A l \in Tables : \A i \in 1 .. len : ids[l][i] \in Frames
    <2>1. len \in 1 .. MaxBlocks /\ \A l \in Tables : Len(ids[l]) = len
      BY <1>5
    <2>2. \A l \in Tables : ids[l] \in Seq(Frames)
      BY <1>5
    <2>3. len \in Nat /\ len <= MaxBlocks /\ len > 0
      <3> HIDE DEF len
      <3>1. MaxBlocks \in Nat  BY ConfigFacts
      <3> QED BY <2>1, <3>1
    <2> HIDE DEF len, ids
    <2>4. ASSUME NEW l \in Tables, NEW i \in 1 .. len PROVE ids[l][i] \in Frames
      <3>1. i \in 1 .. Len(ids[l]) /\ ids[l] \in Seq(Frames)
        BY <2>1, <2>2
      <3> QED BY <3>1, ElementOfSeq
    <2> QED BY <2>1, <2>2, <2>3, <2>4
  <1>7. ASSUME NEW l \in Tables
        PROVE  /\ row[l] \in Seq(Entry) /\ Len(row[l]) = len
               /\ \A i \in 1 .. len : row[l][i].frame = ids[l][i] /\ row[l][i].slot = NoSlot
    <2> DEFINE e(i) == [frame |-> ids[l][i], slot |-> NoSlot, writable |-> FALSE]
    <2>1. row[l] = [i \in 1 .. len |-> e(i)]
      BY <1>6
    <2>2. \A i \in 1 .. len : e(i) \in Entry /\ e(i).frame = ids[l][i] /\ e(i).slot = NoSlot
      BY <1>6 DEF Entry
    <2> HIDE DEF e, row
    <2>3. row[l] \in [1 .. len -> Entry] /\ \A i \in 1 .. len : row[l][i] = e(i)
      BY <2>1, <2>2
    <2>4. row[l] \in Seq(Entry) /\ Len(row[l]) = len
      BY <1>6, <2>3, LenProperties, SeqDef, SMTT(40)
    <2> QED BY <2>2, <2>3, <2>4
  <1>8. row \in [Tables -> Seq(Entry)] /\ tables' = [tables EXCEPT ![s] = row]
    BY <1>1, <1>7
  <1> HIDE DEF row, len, ids
  <1>9. /\ tables' \in TableMaps /\ tables'[s] = row
        /\ \A t \in SeqIds : t # s => tables'[t] = tables[t]
    BY <1>3, <1>8 DEF TableMaps
  <1>10. Even(tables')
    <2>1. SUFFICES ASSUME NEW t \in SeqIds
                   PROVE  /\ \A l \in Tables : Len(tables'[t][l]) = Len(tables'[t][1])
                          /\ Len(tables'[t][1]) <= MaxBlocks
      BY DEF Even
    <2>2. CASE t = s
      <3>1. \A l \in Tables : Len(tables'[s][l]) = len
        BY <1>7, <1>9
      <3>2. 1 \in Tables
        BY ConfigFacts
      <3> QED BY <1>6, <2>2, <3>1, <3>2
    <2>3. CASE t # s
      BY <1>3, <1>9, <2>3 DEF Even
    <2> QED BY <2>2, <2>3
  <1> DEFINE X == {<<k, rec>>}
  <1>11. /\ X \subseteq Records(prefix_index) /\ <<k, rec>> \in X
         /\ \A x \in X : x = <<k, rec>>
    BY RecordsAre
  <1>12. ref_count' = RetainEach(ref_count, PinCount(X))
    BY <1>1
  <1> HIDE DEF X
  <1>13. \A f : IsFiniteSet(PinsOn(X, f)) /\ Cardinality(PinsOn(X, f)) \in Nat
    <2>1. IsFiniteSet(X)
      <3>1. IsFiniteSet({<<k, rec>>})  BY FS_Singleton
      <3> QED BY <3>1 DEF X
    <2>2. \A f : IsFiniteSet(PinsOn(X, f))  BY <2>1, PinsFinite
    <2> QED BY <2>2, FS_CardinalityType
  <1>14. \A f \in Frames : ref_count'[f] = IF ref_count[f] = 0 THEN 0 ELSE ref_count[f] + Cardinality(PinsOn(X, f))
    BY <1>12 DEF RetainEach, PinCount
  <1>15. ref_count' \in [Frames -> Nat]
    <2>1. \A f \in Frames : ref_count'[f] \in Nat
      BY <1>4, <1>13, <1>14
    <2>2. ref_count' = [f \in Frames |-> ref_count'[f]]
      BY <1>12 DEF RetainEach
    <2> QED BY <2>1, <2>2
  <1>16. /\ prefix_index' \in [Keys -> SUBSET Record] /\ IndexShaped(prefix_index')
         /\ \A f : Cardinality(PinsOn(Records(prefix_index'), f)) = Cardinality(PinsOn(Records(prefix_index), f))
    <2>1. prefix_index' = [prefix_index EXCEPT ![k] = (prefix_index[k] \ {rec}) \cup {Joined(rec)}]
      <3>1. {Joined(rec)} = (prefix_index[k] \ {rec}) \cup {Joined(rec)}
        BY <1>1
      <3> QED BY <1>1, <3>1
    <2>2. k \in Keys /\ rec \in prefix_index[k]
      OBVIOUS
    <2>3. OneJoined(prefix_index, prefix_index', k, rec)
      BY <2>1, <2>2 DEF OneJoined
    <2> QED BY <1>4, <2>3, JoinedIndex
  <1>17. /\ prefix' \in [SeqIds -> [key : Keys \cup {NoKey}, hash : Block]]
         /\ \A t \in SeqIds : t # s => prefix'[t] = prefix[t]
    BY <1>1, <1>4, <1>5
  <1>18. TypeOK'
    BY <1>2, <1>9, <1>15, <1>16, <1>17 DEF TypeOK, TableMaps
  <1>19. TablesShaped'
    <2>1. SUFFICES ASSUME NEW t \in SeqIds
                   PROVE  /\ t \notin sequences' => tables'[t] = NoTables /\ prefix'[t] = NoPrefix
                          /\ t \in sequences' => request_of'[t] \in Requests
                          /\ prefix'[t].key # NoKey => Len(tables'[t][1]) > 0
      BY <1>10 DEF TablesShaped, Even
    <2>2. CASE t # s
      BY <1>2, <1>9, <1>17, <2>2 DEF TablesShaped
    <2>3. CASE t = s
      <3>1. Len(tables'[s][1]) = len /\ len > 0
        BY <1>6, <1>7, <1>9, ConfigFacts
      <3>2. request_of[s] \in Requests
        BY <1>2 DEF TablesShaped
      <3> QED BY <1>2, <2>3, <3>1, <3>2
    <2> QED BY <2>2, <2>3
  <1>20. RecordsShaped' /\ RequestsListed'
    BY <1>2, <1>16 DEF RecordsShaped, IndexShaped, Records, RequestsListed, SequencesFor
  <1>21. \A l \in Tables : Len(tables[s][l]) = 0
    BY <1>2, <1>3 DEF Even
  <1>22. SlotsHeld'
    <2>1. SlotsAgree(tables, sequences, tables', sequences')
      <3>1. SUFFICES ASSUME NEW t \in SeqIds, NEW l \in Tables, NEW i \in Nat
                     PROVE  /\ SwappedAt(tables, sequences, t, l, i) <=> SwappedAt(tables', sequences', t, l, i)
                            /\ SwappedAt(tables, sequences, t, l, i) => tables[t][l][i].slot = tables'[t][l][i].slot
        BY DEF SlotsAgree
      <3>2. CASE t # s
        BY <1>2, <1>9, <3>2 DEF SwappedAt
      <3>3. CASE t = s
        <4>1. ~ SwappedAt(tables, sequences, t, l, i)
          BY <1>21, <3>3 DEF SwappedAt
        <4>2. ~ SwappedAt(tables', sequences', t, l, i)
          BY <1>7, <1>9, <3>3 DEF SwappedAt
        <4> QED BY <4>1, <4>2
      <3> QED BY <3>2, <3>3
    <2>2. /\ AbsentIn(tables', sequences') = AbsentIn(tables, sequences)
          /\ \A p \in AbsentIn(tables, sequences) : EntryAt(tables', p).slot = EntryAt(tables, p).slot
      BY <1>2, <1>3, <1>9, <1>10, <2>1, AbsentSame
    <2> QED BY <1>2, <2>2, SlotsKept
  <1>23. ASSUME RefCountsExact PROVE RefCountsExact'
    <2> DEFINE O == {s}
    <2>1. SUFFICES ASSUME NEW f \in Frames
                   PROVE  ref_count'[f] = Cardinality(EntriesIn(tables', sequences', f))
                                          + Cardinality(PinsOn(Records(prefix_index'), f))
      BY CountsBridge
    <2>2. O \in SUBSET SeqIds /\ O \subseteq sequences /\ sequences = sequences \cup {s} /\ O = {s} /\ s \in O
      BY <1>2
    <2>3. SameTables(tables, tables', SeqIds \ O)
      BY <1>9 DEF SameTables
    <2> HIDE DEF O
    <2>4. /\ Cardinality(EntriesIn(tables', sequences, f)) \in Nat
          /\ Cardinality(EntriesIn(tables, O, f)) \in Nat
          /\ Cardinality(EntriesIn(tables', O, f)) \in Nat
          /\ Cardinality(EntriesIn(tables', sequences, f)) + Cardinality(EntriesIn(tables, O, f))
                = Cardinality(EntriesIn(tables, sequences, f)) + Cardinality(EntriesIn(tables', O, f))
      <3>1. OneChanged(tables, tables', sequences, sequences, s, O)
        BY <1>2, <1>3, <2>2, <2>3 DEF OneChanged
      <3> QED BY <3>1, EntriesOfOne
    <2>5. /\ Cardinality(EntriesIn(tables, sequences, f)) \in Nat
          /\ Cardinality(PinsOn(Records(prefix_index), f)) \in Nat
          /\ ref_count[f] = Cardinality(EntriesIn(tables, sequences, f))
                             + Cardinality(PinsOn(Records(prefix_index), f))
          /\ ref_count[f] = 0 => /\ EntriesIn(tables, sequences, f) = {}
                                 /\ PinsOn(Records(prefix_index), f) = {}
      BY <1>23, CountFacts
    <2>6. Cardinality(EntriesIn(tables, O, f)) = 0
      <3>1. ASSUME NEW p \in EntriesIn(tables, O, f) PROVE FALSE
        <4>1. p \in MappedIn(tables, O)
          BY DEF EntriesIn
        <4>2. p[1] \in O /\ p[2][1] \in Tables /\ p[2][2] \in 1 .. Len(tables[p[1]][p[2][1]])
          BY <1>3, <2>2, <4>1, MappedCells
        <4> QED BY <1>21, <2>2, <4>2
      <3>2. EntriesIn(tables, O, f) = {}
        BY <3>1
      <3> QED BY <3>2, FS_EmptySet
    <2> DEFINE A == PinsOn(X, f)
               B == EntriesIn(tables', O, f)
               h == [p \in A |-> <<s, p[2]>>]
    <2>7. Cardinality(B) = Cardinality(A)
      <3>1. IsFiniteSet(A)
        BY <1>13
      <3>2. ASSUME NEW p \in A
            PROVE  /\ p = <<<<k, rec>>, p[2]>> /\ p[2] \in Cells /\ p[2] = <<p[2][1], p[2][2]>>
                   /\ p[2][1] \in Tables /\ p[2][2] \in 1 .. len /\ ids[p[2][1]][p[2][2]] = f
        <4>1. /\ p = <<p[1], p[2]>> /\ p[1] \in X /\ p[2] \in Cells /\ p[2] \in Pinned(p[1][2])
              /\ p[1][2].ids[p[2][1]][p[2][2]] = f
          BY DEF PinsOn
        <4>2. p[1] = <<k, rec>> /\ p[1][2] = rec
          BY <1>11, <4>1
        <4>3. p[2] = <<p[2][1], p[2][2]>> /\ p[2][1] \in Tables /\ p[2][2] \in 1 .. MaxBlocks
          BY <4>1 DEF Cells
        <4>4. p[2][2] <= Len(ids[p[2][1]]) /\ ids[p[2][1]][p[2][2]] = f
          BY <4>1, <4>2 DEF Pinned, ids
        <4>5. p[2][2] \in 1 .. len
          <5>1. p[2][2] <= len
            BY <1>6, <4>3, <4>4
          <5>2. MaxBlocks \in Nat /\ len \in Nat
            BY <1>6, ConfigFacts
          <5> QED BY <4>3, <5>1, <5>2
        <4> QED BY <4>1, <4>2, <4>3, <4>4, <4>5
      <3>3. ASSUME NEW l \in Tables, NEW i \in 1 .. len, ids[l][i] = f
            PROVE  <<s, <<l, i>>>> \in B /\ <<<<k, rec>>, <<l, i>>>> \in A
        <4>1. i \in 1 .. MaxBlocks
          BY <1>6, ConfigFacts
        <4>2. <<l, i>> \in Cells
          BY <4>1 DEF Cells
        <4>3. i <= Len(tables'[s][l]) /\ tables'[s][l][i].frame = f /\ tables'[s][l][i].slot = NoSlot
          BY <1>6, <1>7, <1>9, <3>3
        <4>4. <<s, <<l, i>>>> \in B
          BY <2>2, <4>2, <4>3 DEF EntriesIn, MappedIn, EntryAt
        <4>5. i <= Len(rec.ids[l]) /\ rec.ids[l][i] = f
          BY <1>6, <3>3 DEF ids
        <4>6. <<<<k, rec>>, <<l, i>>>> \in A
          BY <1>11, <4>2, <4>5 DEF PinsOn, Pinned
        <4> QED BY <4>4, <4>6
      <3>4. h \in [A -> B]
        <4>1. ASSUME NEW p \in A PROVE <<s, p[2]>> \in B
          <5>1. /\ p[2] = <<p[2][1], p[2][2]>>
                /\ p[2][1] \in Tables /\ p[2][2] \in 1 .. len /\ ids[p[2][1]][p[2][2]] = f
            BY <3>2
          <5>2. <<s, <<p[2][1], p[2][2]>>>> \in B
            BY <3>3, <5>1
          <5> QED BY <5>1, <5>2
        <4> QED BY <4>1
      <3>5. \A x, y \in A : h[x] = h[y] => x = y
        <4>1. \A x \in A : h[x] = <<s, x[2]>> /\ x = <<<<k, rec>>, x[2]>>
          <5> HIDE DEF A
          <5> QED BY <3>2
        <4> HIDE DEF A, h
        <4> QED BY <4>1
      <3>6. \A b \in B : \E x \in A : h[x] = b
        <4>1. SUFFICES ASSUME NEW b \in B PROVE \E x \in A : h[x] = b
          OBVIOUS
        <4>2. b \in MappedIn(tables', O) /\ EntryAt(tables', b).frame = f
          BY DEF EntriesIn
        <4>3. /\ b[1] \in O /\ b[2][1] \in Tables /\ b[2][2] \in 1 .. Len(tables'[b[1]][b[2][1]])
              /\ b = <<b[1], <<b[2][1], b[2][2]>>>>
          BY <1>9, <1>10, <2>2, <4>2, MappedCells
        <4>4. b[2][2] \in 1 .. len /\ b[1] = s
          BY <1>7, <1>9, <2>2, <4>3
        <4>5. ids[b[2][1]][b[2][2]] = f
          BY <1>7, <1>9, <4>2, <4>3, <4>4 DEF EntryAt
        <4>6. <<<<k, rec>>, <<b[2][1], b[2][2]>>>> \in A
          BY <3>3, <4>3, <4>4, <4>5
        <4>7. h[<<<<k, rec>>, <<b[2][1], b[2][2]>>>>] = b
          <5> HIDE DEF A
          <5> QED BY <4>3, <4>4, <4>6
        <4> QED BY <4>6, <4>7
      <3> HIDE DEF A, B, h
      <3> QED BY <3>1, <3>4, <3>5, <3>6, SameCount
    <2>8. A \subseteq PinsOn(Records(prefix_index), f)
      BY <1>11 DEF PinsOn
    <2>9. ref_count[f] = 0 => Cardinality(A) = 0
      <3> HIDE DEF A
      <3> QED BY <2>5, <2>8, FS_EmptySet
    <2>10. Cardinality(A) \in Nat /\ ref_count'[f] = IF ref_count[f] = 0 THEN 0 ELSE ref_count[f] + Cardinality(A)
      BY <1>13, <1>14
    <2>11. Cardinality(PinsOn(Records(prefix_index'), f)) = Cardinality(PinsOn(Records(prefix_index), f))
      BY <1>16
    <2>12. sequences' = sequences
      BY <1>2
    <2> HIDE DEF A
    <2> QED BY ONLY <2>4, <2>5, <2>6, <2>7, <2>9, <2>10, <2>11, <2>12
  <1> QED BY <1>18, <1>19, <1>20, <1>22, <1>23
-----------------------------------------------------------------------------
(* publish_prefix *)
NewRecord(index, new, k, rec, X) ==
    /\ k \in Keys /\ rec \in Record /\ X = {<<k, rec>>}
    /\ \A r \in index[k] : r.hash # rec.hash
    /\ \A l \in Tables : Len(rec.ids[l]) = Len(rec.ids[1])
    /\ Len(rec.ids[1]) \in 1 .. MaxBlocks
    /\ new = [index EXCEPT ![k] = index[k] \cup {rec}]

LEMMA NewRecordIndex ==
    ASSUME NEW index \in [Keys -> SUBSET Record], IndexShaped(index),
           NEW k, NEW rec, NEW new, NEW X, NewRecord(index, new, k, rec, X)
    PROVE  /\ new \in [Keys -> SUBSET Record]
           /\ IndexShaped(new)
           /\ \A f : /\ Cardinality(PinsOn(X, f)) \in Nat
                     /\ Cardinality(PinsOn(Records(new), f))
                          = Cardinality(PinsOn(Records(index), f)) + Cardinality(PinsOn(X, f))
  <1> USE DEF NewRecord
  <1>1. /\ new \in [Keys -> SUBSET Record] /\ new[k] = index[k] \cup {rec}
        /\ \A j \in Keys : j # k => new[j] = index[j]
    OBVIOUS
  <1> DEFINE R == Records(index)
             Q == Records(new)
  <1>2. rec \notin index[k]
    OBVIOUS
  <1>3. Q = R \cup X /\ R \cap X = {}
    <2>1. ASSUME NEW x \in Q PROVE x \in R \cup X
      <3>1. x = <<x[1], x[2]>> /\ x[1] \in Keys /\ x[2] \in new[x[1]]
        BY RecordsAre
      <3>2. CASE x[2] \in index[x[1]]
        <4>1. <<x[1], x[2]>> \in Records(index)
          BY ONLY <3>1, <3>2, RecordsAre
        <4> QED BY <3>1, <4>1
      <3>3. CASE x[2] \notin index[x[1]]
        <4>1. x[1] = k /\ x[2] = rec
          BY <1>1, <3>1, <3>3
        <4> QED BY <3>1, <4>1
      <3> QED BY <3>2, <3>3
    <2>2. ASSUME NEW x \in R PROVE x \in Q /\ x \notin X
      <3>1. x = <<x[1], x[2]>> /\ x[1] \in Keys /\ x[2] \in index[x[1]]
        BY RecordsAre
      <3>2. x[2] \in new[x[1]]
        BY <1>1, <3>1
      <3>3. x \in Q
        <4>1. <<x[1], x[2]>> \in Records(new)
          BY ONLY <3>1, <3>2, RecordsAre
        <4> QED BY <3>1, <4>1
      <3> QED BY <1>2, <3>1, <3>3
    <2>3. <<k, rec>> \in Q
      BY <1>1, RecordsAre
    <2> HIDE DEF R, Q
    <2> QED BY <2>1, <2>2, <2>3
  <1>4. IsFiniteSet(R) /\ IsFiniteSet(X)
    <2>1. IsFiniteSet({<<k, rec>>})  BY FS_Singleton
    <2> QED BY <2>1 DEF IndexShaped
  <1> HIDE DEF R, Q
  <1>5. IsFiniteSet(Q)
    BY <1>3, <1>4, DisjointCount
  <1>6. ASSUME NEW f
        PROVE  /\ Cardinality(PinsOn(X, f)) \in Nat
               /\ Cardinality(PinsOn(Q, f)) = Cardinality(PinsOn(R, f)) + Cardinality(PinsOn(X, f))
    <2>1. PinsOn(Q, f) = PinsOn(R, f) \cup PinsOn(X, f) /\ PinsOn(R, f) \cap PinsOn(X, f) = {}
      BY <1>3 DEF PinsOn
    <2>2. IsFiniteSet(PinsOn(R, f)) /\ IsFiniteSet(PinsOn(X, f))
      BY <1>4, PinsFinite
    <2> QED BY <2>1, <2>2, DisjointCount
  <1>7. IndexShaped(new)
    <2>1. SUFFICES ASSUME NEW j \in Keys, NEW r \in new[j]
                   PROVE  /\ \A l \in Tables : Len(r.ids[l]) = Len(r.ids[1])
                          /\ Len(r.ids[1]) \in 1 .. MaxBlocks
                          /\ \A other \in new[j] : other.hash = r.hash => other = r
      BY <1>5 DEF IndexShaped, Q
    <2>2. CASE j # k
      BY <1>1, <2>2 DEF IndexShaped
    <2>3. CASE j = k /\ r \in index[k]
      BY <1>1, <2>3 DEF IndexShaped
    <2>4. CASE j = k /\ r = rec
      BY <1>1, <2>4
    <2> QED BY <1>1, <2>2, <2>3, <2>4
  <1> QED BY <1>1, <1>6, <1>7 DEF Q, R

(* What a resident sequence holds. *)
LEMMA ResidentSequence ==
    ASSUME TypeOK, TablesShaped, NEW s \in SeqIds, SwappedOut(s) = {}
    PROVE  /\ \A l \in Tables : \A i \in 1 .. Len(tables[s][l]) :
                 tables[s][l][i].slot = NoSlot /\ tables[s][l][i].frame \in Frames
           /\ ContentOf(s) \in Block
           /\ Ids(s) \in [Tables -> Seq(Frames)]
           /\ \A l \in Tables : /\ Len(Ids(s)[l]) = Len(tables[s][l])
                                /\ \A i \in 1 .. Len(tables[s][l]) : Ids(s)[l][i] = tables[s][l][i].frame
  <1>1. /\ tables \in TableMaps /\ Even(tables)
        /\ \A l \in Tables : tables[s][l] \in Seq(Entry) /\ Len(tables[s][l]) \in Nat
    BY TablesFacts
  <1>2. ASSUME NEW l \in Tables, NEW i \in 1 .. Len(tables[s][l])
        PROVE  /\ tables[s][l][i].slot = NoSlot /\ tables[s][l][i].frame \in Frames
               /\ BlockContent(s, <<l, i>>) \in Contents
    <2> DEFINE S == {s}
    <2>1. <<l, i>> \in Cells /\ tables[s][l][i] \in Entry
      <3>1. S \in SUBSET SeqIds /\ s \in S  OBVIOUS
      <3> HIDE DEF S
      <3> QED BY <1>1, <3>1, MappedCells
    <2>2. i <= Len(tables[s][l]) /\ At(s, <<l, i>>) = tables[s][l][i]
      BY <1>1 DEF At
    <2>3. <<l, i>> \in Mapped(s)
      BY <2>1, <2>2 DEF Mapped
    <2>4. tables[s][l][i].slot = NoSlot
      BY <2>2, <2>3 DEF SwappedOut
    <2>5. <<l, i>> \in Resident(s)
      BY <2>2, <2>3, <2>4 DEF Resident
    <2>6. tables[s][l][i].frame \in Frames
      BY <2>1 DEF Entry
    <2>7. BlockContent(s, <<l, i>>) = data[tables[s][l][i].frame]
      BY <2>2, <2>5 DEF BlockContent, block_bytes
    <2>8. data \in [Frames -> Contents]
      BY DEF TypeOK
    <2> QED BY <2>4, <2>6, <2>7, <2>8
  <1>3. ContentOf(s) \in Block
    <2>1. ASSUME NEW l \in Tables PROVE [i \in 1 .. Len(tables[s][l]) |-> BlockContent(s, <<l, i>>)] \in Seq(Contents)
      <3> DEFINE c == [i \in 1 .. Len(tables[s][l]) |-> BlockContent(s, <<l, i>>)]
      <3>1. c \in [1 .. Len(tables[s][l]) -> Contents]
        BY <1>2
      <3> HIDE DEF c
      <3>2. c \in Seq(Contents)
        BY <1>1, <3>1, SeqDef
      <3> QED BY <3>2 DEF c
    <2> QED BY <2>1 DEF ContentOf, Block
  <1>4. ASSUME NEW l \in Tables
        PROVE  /\ Ids(s)[l] \in Seq(Frames) /\ Len(Ids(s)[l]) = Len(tables[s][l])
               /\ \A i \in 1 .. Len(tables[s][l]) : Ids(s)[l][i] = tables[s][l][i].frame
    <2> DEFINE c == [i \in 1 .. Len(tables[s][l]) |-> tables[s][l][i].frame]
    <2>1. Ids(s)[l] = c
      BY DEF Ids
    <2>2. c \in [1 .. Len(tables[s][l]) -> Frames] /\ \A i \in 1 .. Len(tables[s][l]) : c[i] = tables[s][l][i].frame
      BY <1>2
    <2> HIDE DEF c
    <2>3. c \in Seq(Frames) /\ Len(c) = Len(tables[s][l])
      BY <1>1, <2>2, LenProperties, SeqDef
    <2> QED BY <2>1, <2>2, <2>3
  <1>5. Ids(s) \in [Tables -> Seq(Frames)]
    BY <1>4 DEF Ids
  <1> QED BY <1>2, <1>3, <1>4, <1>5

LEMMA PublishKeeps ==
    ASSUME Structure, NEW s \in SeqIds, NEW k \in Keys, publish_prefix(s, k)
    PROVE  /\ Structure'
           /\ RefCountsExact => RefCountsExact'
  <1> USE DEF Structure
  <1> DEFINE hash == ContentOf(s)
             same == {rec \in prefix_index[k] : rec.hash = hash}
             new == [hash |-> hash, ids |-> Ids(s), users |-> 1]
             X == {<<k, new>>}
  <1>1. /\ s \in sequences /\ Len(tables[s][1]) > 0 /\ SwappedOut(s) = {}
        /\ prefix' = [prefix EXCEPT ![s] = [key |-> k, hash |-> hash]]
        /\ data' = data /\ swap' = swap /\ sequences' = sequences /\ request_of' = request_of
        /\ tables' = tables /\ sequences_by_request' = sequences_by_request
    BY DEF publish_prefix
  <1>2. \/ /\ same # {}
           /\ prefix_index' = [prefix_index EXCEPT ![k] = (prefix_index[k] \ same) \cup {Joined(rec) : rec \in same}]
           /\ ref_count' = ref_count
        \/ /\ same = {}
           /\ prefix_index' = [prefix_index EXCEPT ![k] = prefix_index[k] \cup {new}]
           /\ ref_count' = RetainEach(ref_count, PinCount(X))
    BY DEF publish_prefix
  <1>3. /\ tables \in TableMaps /\ Even(tables) /\ sequences \in SUBSET SeqIds
        /\ \A t \in SeqIds, l \in Tables : tables[t][l] \in Seq(Entry) /\ Len(tables[t][l]) \in Nat
    BY TablesFacts
  <1>4. /\ prefix_index \in [Keys -> SUBSET Record] /\ IndexShaped(prefix_index)
        /\ prefix \in [SeqIds -> [key : Keys \cup {NoKey}, hash : Block]]
        /\ ref_count \in [Frames -> Nat]
    BY DEF TypeOK, RecordsShaped
  <1>5. /\ \A l \in Tables : \A i \in 1 .. Len(tables[s][l]) :
                 tables[s][l][i].slot = NoSlot /\ tables[s][l][i].frame \in Frames
        /\ hash \in Block
        /\ Ids(s) \in [Tables -> Seq(Frames)]
        /\ \A l \in Tables : /\ Len(Ids(s)[l]) = Len(tables[s][l])
                             /\ \A i \in 1 .. Len(tables[s][l]) : Ids(s)[l][i] = tables[s][l][i].frame
    BY <1>1, ResidentSequence
  <1>6. /\ Len(Ids(s)[1]) \in 1 .. MaxBlocks
        /\ \A l \in Tables : Len(Ids(s)[l]) = Len(Ids(s)[1])
    <2>1. /\ Len(Ids(s)[1]) = Len(tables[s][1]) /\ Len(tables[s][1]) \in Nat
          /\ Len(tables[s][1]) <= MaxBlocks /\ MaxBlocks \in Nat /\ 1 \in Tables
      BY <1>3, <1>5, ConfigFacts DEF Even
    <2>2. \A l \in Tables : Len(Ids(s)[l]) = Len(Ids(s)[1])
      BY <1>3, <1>5, <2>1 DEF Even
    <2> QED BY <1>1, <2>1, <2>2
  <1>7. new \in Record /\ new.hash = hash /\ new.ids = Ids(s)
    BY <1>5 DEF Record
  <1>8. /\ prefix' \in [SeqIds -> [key : Keys \cup {NoKey}, hash : Block]]
        /\ \A t \in SeqIds : t # s => prefix'[t] = prefix[t]
    BY <1>1, <1>4, <1>5
  <1> HIDE DEF hash, new
  <1>9. ASSUME same # {}
        PROVE  /\ prefix_index' \in [Keys -> SUBSET Record] /\ IndexShaped(prefix_index')
               /\ ref_count' = ref_count
               /\ \A f : Cardinality(PinsOn(Records(prefix_index'), f)) = Cardinality(PinsOn(Records(prefix_index), f))
    <2>1. PICK rec \in same : TRUE
      BY <1>9
    <2>2. rec \in prefix_index[k] /\ rec.hash = hash
      OBVIOUS
    <2>3. same = {rec}
      BY <1>4, <2>2 DEF IndexShaped
    <2>4. (prefix_index[k] \ same) \cup {Joined(r) : r \in same} = (prefix_index[k] \ {rec}) \cup {Joined(rec)}
      <3> HIDE DEF same
      <3> QED BY <2>3
    <2>5. prefix_index' = [prefix_index EXCEPT ![k] = (prefix_index[k] \ {rec}) \cup {Joined(rec)}] /\ ref_count' = ref_count
      <3> HIDE DEF same
      <3> QED BY <1>2, <1>9, <2>4
    <2>6. OneJoined(prefix_index, prefix_index', k, rec)
      BY <2>2, <2>5 DEF OneJoined
    <2>7. /\ prefix_index' \in [Keys -> SUBSET Record] /\ IndexShaped(prefix_index')
          /\ \A f : Cardinality(PinsOn(Records(prefix_index'), f)) = Cardinality(PinsOn(Records(prefix_index), f))
      BY ONLY <1>4, <2>6, JoinedIndex
    <2> QED BY <2>5, <2>7
  <1>10. ASSUME same = {}
         PROVE  /\ prefix_index' \in [Keys -> SUBSET Record] /\ IndexShaped(prefix_index')
                /\ ref_count' = RetainEach(ref_count, PinCount(X))
                /\ \A f : /\ Cardinality(PinsOn(X, f)) \in Nat
                          /\ Cardinality(PinsOn(Records(prefix_index'), f))
                               = Cardinality(PinsOn(Records(prefix_index), f)) + Cardinality(PinsOn(X, f))
    <2>1. prefix_index' = [prefix_index EXCEPT ![k] = prefix_index[k] \cup {new}]
          /\ ref_count' = RetainEach(ref_count, PinCount(X))
      <3> HIDE DEF same
      <3> QED BY <1>2, <1>10
    <2>2. NewRecord(prefix_index, prefix_index', k, new, X)
      <3>1. \A r \in prefix_index[k] : r.hash # new.hash
        BY <1>7, <1>10
      <3> HIDE DEF same
      <3> QED BY <1>6, <1>7, <2>1, <3>1 DEF NewRecord
    <2> HIDE DEF X
    <2>3. /\ prefix_index' \in [Keys -> SUBSET Record] /\ IndexShaped(prefix_index')
          /\ \A f : /\ Cardinality(PinsOn(X, f)) \in Nat
                    /\ Cardinality(PinsOn(Records(prefix_index'), f))
                         = Cardinality(PinsOn(Records(prefix_index), f)) + Cardinality(PinsOn(X, f))
      BY ONLY <1>4, <2>2, NewRecordIndex
    <2> QED BY <2>1, <2>3
  <1> DEFINE pins(f) == Cardinality(PinsOn(X, f))
  <1>11. ASSUME same = {}
         PROVE  \A f \in Frames : ref_count'[f] = IF ref_count[f] = 0 THEN 0 ELSE ref_count[f] + pins(f)
    <2> HIDE DEF X, same
    <2> QED BY <1>10, <1>11 DEF RetainEach, PinCount
  <1>12. ref_count' \in [Frames -> Nat]
    <2>1. CASE same # {}
      <3> HIDE DEF same
      <3> QED BY <1>4, <1>9, <2>1
    <2>2. CASE same = {}
      <3> HIDE DEF same, X
      <3>1. \A f \in Frames : ref_count'[f] \in Nat
        BY <1>4, <1>10, <1>11, <2>2
      <3>2. ref_count' = [f \in Frames |-> ref_count'[f]]
        BY <1>10, <2>2 DEF RetainEach
      <3> QED BY <3>1, <3>2
    <2> QED BY <2>1, <2>2
  <1>13. prefix_index' \in [Keys -> SUBSET Record] /\ IndexShaped(prefix_index')
    <2> HIDE DEF same, X
    <2> QED BY <1>9, <1>10
  <1> HIDE DEF same
  <1>14. TypeOK'
    BY <1>1, <1>8, <1>12, <1>13 DEF TypeOK
  <1>15. TablesShaped'
    <2>1. SUFFICES ASSUME NEW t \in SeqIds
                   PROVE  /\ t \notin sequences' => tables'[t] = NoTables /\ prefix'[t] = NoPrefix
                          /\ t \in sequences' => request_of'[t] \in Requests
                          /\ prefix'[t].key # NoKey => Len(tables'[t][1]) > 0
      BY <1>1, <1>3 DEF TablesShaped, Even
    <2>2. CASE t # s
      BY <1>1, <1>8, <2>2 DEF TablesShaped
    <2>3. CASE t = s
      BY <1>1, <2>3 DEF TablesShaped
    <2> QED BY <2>2, <2>3
  <1>16. RecordsShaped' /\ RequestsListed'
    BY <1>1, <1>13 DEF RecordsShaped, IndexShaped, Records, RequestsListed, SequencesFor
  <1>17. SlotsHeld'
    BY <1>1, SlotsKept
  <1>18. ASSUME RefCountsExact PROVE RefCountsExact'
    <2>1. SUFFICES ASSUME NEW f \in Frames
                   PROVE  ref_count'[f] = Cardinality(EntriesIn(tables, sequences, f))
                                          + Cardinality(PinsOn(Records(prefix_index'), f))
      BY <1>1, CountsBridge
    <2>2. /\ Cardinality(EntriesIn(tables, sequences, f)) \in Nat
          /\ Cardinality(PinsOn(Records(prefix_index), f)) \in Nat
          /\ ref_count[f] = Cardinality(EntriesIn(tables, sequences, f))
                             + Cardinality(PinsOn(Records(prefix_index), f))
          /\ ref_count[f] = 0 => /\ EntriesIn(tables, sequences, f) = {}
                                 /\ PinsOn(Records(prefix_index), f) = {}
      BY <1>18, CountFacts
    <2>3. CASE same # {}
      BY <1>9, <2>2, <2>3
    <2>4. CASE same = {}
      <3>1. ASSUME NEW p \in PinsOn(X, f) PROVE <<s, p[2]>> \in EntriesIn(tables, sequences, f)
        <4>1. /\ p[1] = <<k, new>> /\ p[2] \in Cells /\ p[2] \in Pinned(p[1][2])
              /\ p[1][2].ids[p[2][1]][p[2][2]] = f
          BY DEF PinsOn
        <4>2. p[2][2] <= Len(Ids(s)[p[2][1]]) /\ Ids(s)[p[2][1]][p[2][2]] = f
          BY <1>7, <4>1 DEF Pinned
        <4>3. p[2][1] \in Tables /\ p[2][2] \in 1 .. MaxBlocks
          BY <4>1 DEF Cells
        <4>4. p[2][2] <= Len(tables[s][p[2][1]])
          BY <1>5, <4>2, <4>3
        <4>5. p[2][2] \in 1 .. Len(tables[s][p[2][1]])
          <5>1. MaxBlocks \in Nat /\ Len(tables[s][p[2][1]]) \in Nat
            BY <1>3, <4>3, ConfigFacts
          <5> QED BY <4>3, <4>4, <5>1
        <4>6. tables[s][p[2][1]][p[2][2]].slot = NoSlot /\ tables[s][p[2][1]][p[2][2]].frame = f
          BY <1>5, <4>2, <4>3, <4>5
        <4> QED BY <1>1, <4>1, <4>4, <4>6 DEF EntriesIn, MappedIn, EntryAt
      <3> HIDE DEF X
      <3>2. ref_count[f] = 0 => pins(f) = 0
        <4>1. ref_count[f] = 0 => PinsOn(X, f) = {}
          BY <2>2, <3>1
        <4> QED BY <4>1, FS_EmptySet
      <3>3. /\ pins(f) \in Nat
            /\ Cardinality(PinsOn(Records(prefix_index'), f)) = Cardinality(PinsOn(Records(prefix_index), f)) + pins(f)
            /\ ref_count'[f] = IF ref_count[f] = 0 THEN 0 ELSE ref_count[f] + pins(f)
        BY <1>10, <1>11, <2>4
      <3> HIDE DEF pins
      <3> QED BY ONLY <2>2, <3>2, <3>3
    <2> QED BY <2>3, <2>4
  <1> QED BY <1>14, <1>15, <1>16, <1>17, <1>18
-----------------------------------------------------------------------------
(* ensure_token_writable and write_token replace one resident entry by another. *)
EntryChanged(T, U, S, s, l, i, e) ==
    /\ <<s, <<l, i>>>> \in MappedIn(T, S)
    /\ \A f, p : p # <<s, <<l, i>>>> => (p \in EntriesIn(U, S, f) <=> p \in EntriesIn(T, S, f))
    /\ \A f : <<s, <<l, i>>>> \in EntriesIn(U, S, f) <=> e.frame = f
    /\ \A f : <<s, <<l, i>>>> \in EntriesIn(T, S, f) <=> T[s][l][i].frame = f

LEMMA ReplacedKeeps ==
    ASSUME Structure, NEW s \in SeqIds, NEW l \in Tables, NEW i \in 1 .. Len(tables[s][l]), s \in sequences,
           tables[s][l][i].slot = NoSlot,
           NEW e \in Entry, e.slot = NoSlot, Replaced(tables, tables', s, l, i, e),
           ref_count' \in [Frames -> Nat], data' \in [Frames -> Contents],
           UNCHANGED <<swap, sequences, request_of, prefix, sequences_by_request, prefix_index>>
    PROVE  Structure' /\ EntryChanged(tables, tables', sequences, s, l, i, e)
  <1> USE DEF Structure
  <1> DEFINE x == <<s, <<l, i>>>>
  <1>1. /\ tables \in TableMaps /\ Even(tables) /\ sequences \in SUBSET SeqIds
        /\ \A t \in SeqIds, m \in Tables : tables[t][m] \in Seq(Entry) /\ Len(tables[t][m]) \in Nat
    BY TablesFacts
  <1>2. /\ tables' \in TableMaps /\ Even(tables')
        /\ \A t \in SeqIds, m \in Tables : Len(tables'[t][m]) = Len(tables[t][m])
        /\ tables'[s][l][i] = e
        /\ \A t \in SeqIds, m \in Tables : \A j \in 1 .. Len(tables[t][m]) :
                 <<t, m, j>> # <<s, l, i>> => tables'[t][m][j] = tables[t][m][j]
        /\ \A S \in SUBSET SeqIds : MappedIn(tables', S) = MappedIn(tables, S)
    <2>1. Touched(tables, tables', s, l, i, e)
      BY <1>1, TouchEntry
    <2> QED BY <2>1 DEF Touched
  <1>3. MappedIn(tables', sequences) = MappedIn(tables, sequences) /\ x \in MappedIn(tables, sequences)
    <2>1. MappedIn(tables', sequences) = MappedIn(tables, sequences)
      BY <1>1, <1>2
    <2>2. x \in MappedIn(tables, sequences)
      BY <1>1, MappedCells
    <2> QED BY <2>1, <2>2
  <1>4. /\ EntryAt(tables, x) = tables[s][l][i] /\ EntryAt(tables', x) = e
        /\ \A p \in MappedIn(tables, sequences) : p # x => EntryAt(tables', p) = EntryAt(tables, p)
    <2>1. EntryAt(tables, x) = tables[s][l][i] /\ EntryAt(tables', x) = e
      BY <1>2 DEF EntryAt
    <2>2. ASSUME NEW p \in MappedIn(tables, sequences), p # x PROVE EntryAt(tables', p) = EntryAt(tables, p)
      <3>1. /\ p[1] \in SeqIds /\ p[2][1] \in Tables /\ p[2][2] \in 1 .. Len(tables[p[1]][p[2][1]])
            /\ p = <<p[1], <<p[2][1], p[2][2]>>>>
        BY <1>1, MappedCells
      <3>2. <<p[1], p[2][1], p[2][2]>> # <<s, l, i>>
        BY <2>2, <3>1
      <3> QED BY <1>2, <3>1, <3>2 DEF EntryAt
    <2> QED BY <2>1, <2>2
  <1> HIDE DEF x
  <1>5. /\ \A f, p : p # x =>
              (p \in EntriesIn(tables', sequences, f) <=> p \in EntriesIn(tables, sequences, f))
        /\ \A f : x \in EntriesIn(tables', sequences, f) <=> e.frame = f
        /\ \A f : x \in EntriesIn(tables, sequences, f) <=> tables[s][l][i].frame = f
    BY <1>3, <1>4 DEF EntriesIn
  <1>6. TypeOK'
    BY <1>2 DEF TypeOK, TableMaps
  <1>7. TablesShaped'
    <2>1. SUFFICES ASSUME NEW t \in SeqIds
                   PROVE  /\ t \notin sequences' => tables'[t] = NoTables /\ prefix'[t] = NoPrefix
                          /\ t \in sequences' => request_of'[t] \in Requests
                          /\ prefix'[t].key # NoKey => Len(tables'[t][1]) > 0
      BY <1>2 DEF TablesShaped, Even
    <2>2. t # s => tables'[t] = tables[t]
      BY <1>1 DEF Replaced
    <2>3. Len(tables'[t][1]) = Len(tables[t][1])
      BY <1>2, ConfigFacts
    <2> QED BY <2>2, <2>3 DEF TablesShaped
  <1>8. RecordsShaped' /\ RequestsListed'
    BY DEF RecordsShaped, IndexShaped, Records, RequestsListed, SequencesFor
  <1>9. SlotsHeld'
    <2>1. AbsentIn(tables', sequences) = AbsentIn(tables, sequences) /\ x \notin AbsentIn(tables, sequences)
      BY <1>3, <1>4 DEF AbsentIn
    <2>2. \A p \in AbsentIn(tables, sequences) : EntryAt(tables', p).slot = EntryAt(tables, p).slot
      BY <1>4, <2>1 DEF AbsentIn
    <2> QED BY <2>1, <2>2, SlotsKept
  <1> QED BY <1>3, <1>5, <1>6, <1>7, <1>8, <1>9 DEF x, EntryChanged

(* The cell that ensure_token_writable and write_token work on. *)
LEMMA ResidentCell ==
    ASSUME Structure, NEW s \in SeqIds, NEW pos, NEW l, CellOf(pos, l) \in Resident(s)
    PROVE  \E i \in 1 .. Len(tables[s][l]) :
              /\ l \in Tables /\ CellOf(pos, l)[1] = l /\ CellOf(pos, l)[2] = i
              /\ At(s, CellOf(pos, l)) = tables[s][l][i]
              /\ tables[s][l][i] \in Entry /\ tables[s][l][i].slot = NoSlot
  <1> DEFINE i == CellOf(pos, l)[2]
  <1>1. /\ tables \in TableMaps /\ Even(tables)
        /\ \A t \in SeqIds, m \in Tables : tables[t][m] \in Seq(Entry) /\ Len(tables[t][m]) \in Nat
    BY TablesFacts DEF Structure
  <1>2. CellOf(pos, l) \in Cells /\ CellOf(pos, l)[1] = l /\ i <= Len(tables[s][CellOf(pos, l)[1]])
    BY DEF Resident, Mapped, CellOf
  <1>3. l \in Tables /\ i \in 1 .. MaxBlocks
    BY <1>2 DEF Cells
  <1>4. At(s, CellOf(pos, l)) = tables[s][l][i] /\ tables[s][l][i].slot = NoSlot
    BY <1>2 DEF Resident, At
  <1> HIDE DEF i
  <1>5. i \in 1 .. Len(tables[s][l])
    <2>1. MaxBlocks \in Nat /\ Len(tables[s][l]) \in Nat
      BY <1>1, <1>3, ConfigFacts
    <2> QED BY <1>2, <1>3, <2>1
  <1>6. tables[s][l][i] \in Entry
    BY <1>1, <1>3, <1>5, ElementOfSeq
  <1> QED BY <1>2, <1>3, <1>4, <1>5, <1>6 DEF i

(* Only the flag of the entry changes: no frame is referenced more or less. *)
LEMMA WriteKeeps ==
    ASSUME Structure, NEW s \in SeqIds, NEW pos \in 0 .. MaxTokens - 1, NEW l \in Tables,
           NEW v \in Contents, write_token(s, pos, l, v)
    PROVE  /\ Structure'
           /\ RefCountsExact => RefCountsExact'
  <1> DEFINE c == CellOf(pos, l)
  <1>1. /\ s \in sequences /\ c \in Resident(s)
        /\ tables' = [tables EXCEPT ![s][c[1]][c[2]].writable = TRUE]
        /\ data' = [data EXCEPT ![At(s, c).frame] = v]
        /\ ref_count' = ref_count
        /\ UNCHANGED <<swap, sequences, request_of, prefix, sequences_by_request, prefix_index>>
    BY DEF write_token
  <1>2. PICK i \in 1 .. Len(tables[s][l]) :
              /\ c[1] = l /\ c[2] = i /\ At(s, c) = tables[s][l][i]
              /\ tables[s][l][i] \in Entry /\ tables[s][l][i].slot = NoSlot
    BY <1>1, ResidentCell
  <1> HIDE DEF c
  <1> DEFINE e == [tables[s][l][i] EXCEPT !.writable = TRUE]
  <1>3. e \in Entry /\ e.slot = NoSlot /\ e.frame = tables[s][l][i].frame
    BY <1>2 DEF Entry
  <1>4. Replaced(tables, tables', s, l, i, e)
    BY <1>1, <1>2 DEF Replaced
  <1> HIDE DEF e
  <1>5. ref_count' \in [Frames -> Nat] /\ data' \in [Frames -> Contents]
    <2>1. ref_count \in [Frames -> Nat] /\ data \in [Frames -> Contents]
      BY DEF Structure, TypeOK
    <2> QED BY <1>1, <2>1
  <1> DEFINE x == <<s, <<l, i>>>>
  <1>6. /\ Structure'
        /\ \A f, p : p # x =>
                 (p \in EntriesIn(tables', sequences, f) <=> p \in EntriesIn(tables, sequences, f))
        /\ \A f : x \in EntriesIn(tables', sequences, f) <=> e.frame = f
        /\ \A f : x \in EntriesIn(tables, sequences, f) <=> tables[s][l][i].frame = f
    <2>1. /\ s \in sequences
          /\ UNCHANGED <<swap, sequences, request_of, prefix, sequences_by_request, prefix_index>>
      BY <1>1
    <2>2. Structure' /\ EntryChanged(tables, tables', sequences, s, l, i, e)
      BY <1>2, <1>3, <1>4, <1>5, <2>1, ReplacedKeeps
    <2> QED BY <2>2 DEF EntryChanged
  <1> HIDE DEF x
  <1>7. \A f : EntriesIn(tables', sequences', f) = EntriesIn(tables, sequences, f)
    <2>1. ASSUME NEW f, NEW p PROVE p \in EntriesIn(tables', sequences, f) <=> p \in EntriesIn(tables, sequences, f)
      <3>1. CASE p = x  BY <1>3, <1>6, <3>1
      <3>2. CASE p # x  BY <1>6, <3>2
      <3> QED BY <3>1, <3>2
    <2>2. \A f : EntriesIn(tables', sequences, f) = EntriesIn(tables, sequences, f)
      BY <2>1, SetExtensionality, Zenon
    <2>3. sequences' = sequences
      BY <1>1
    <2> QED BY <2>2, <2>3
  <1>8. ASSUME RefCountsExact PROVE RefCountsExact'
    <2>1. ref_count' = ref_count /\ prefix_index' = prefix_index
      BY <1>1
    <2> QED BY <1>7, <1>8, <2>1, CountsBridge
  <1> QED BY <1>6, <1>8

(* Copy-on-write moves the reference of one entry from the old frame to the copy. *)
LEMMA EnsureKeeps ==
    ASSUME Structure, RefCountsExact, NEW s \in SeqIds, NEW pos \in 0 .. MaxTokens - 1, NEW l \in Tables,
           ensure_token_writable(s, pos, l)
    PROVE  Structure' /\ RefCountsExact'
  <1> DEFINE c == CellOf(pos, l)
  <1>1. /\ s \in sequences /\ c \in Resident(s)
        /\ UNCHANGED <<swap, sequences, request_of, prefix, sequences_by_request, prefix_index>>
    BY DEF ensure_token_writable
  <1>2. \/ /\ tables' = [tables EXCEPT ![s][c[1]][c[2]].writable = TRUE]
           /\ UNCHANGED <<ref_count, data>>
        \/ /\ ref_count[At(s, c).frame] > 1
           /\ \E copy \in FreeFrames(ref_count) : CopyOnWrite(s, c, copy)
    <2>1. ref_count \in [Frames -> Nat]
      BY DEF Structure, TypeOK
    <2>2. PICK i \in 1 .. Len(tables[s][l]) : At(s, c) = tables[s][l][i] /\ tables[s][l][i] \in Entry
      BY <1>1, ResidentCell
    <2>3. ref_count[At(s, c).frame] \in Nat
      BY <2>1, <2>2 DEF Entry
    <2> QED BY <2>3 DEF ensure_token_writable, Exclusive
  <1>3. PICK i \in 1 .. Len(tables[s][l]) :
              /\ c[1] = l /\ c[2] = i /\ At(s, c) = tables[s][l][i]
              /\ tables[s][l][i] \in Entry /\ tables[s][l][i].slot = NoSlot
    BY <1>1, ResidentCell
  <1>4. ref_count \in [Frames -> Nat] /\ data \in [Frames -> Contents]
    BY DEF Structure, TypeOK
  <1> HIDE DEF c
  <1> DEFINE x == <<s, <<l, i>>>>
             old == tables[s][l][i].frame
  <1>5. old \in Frames
    BY <1>3 DEF Entry
  <1>6. CASE /\ tables' = [tables EXCEPT ![s][c[1]][c[2]].writable = TRUE]
             /\ UNCHANGED <<ref_count, data>>
    <2> DEFINE e == [tables[s][l][i] EXCEPT !.writable = TRUE]
    <2>1. e \in Entry /\ e.slot = NoSlot /\ e.frame = old
      BY <1>3 DEF Entry
    <2>2. Replaced(tables, tables', s, l, i, e)
      BY <1>3, <1>6 DEF Replaced
    <2> HIDE DEF e
    <2>3. ref_count' \in [Frames -> Nat] /\ data' \in [Frames -> Contents]
      BY <1>4, <1>6
    <2>4. /\ Structure'
          /\ \A f, p : p # x =>
                   (p \in EntriesIn(tables', sequences, f) <=> p \in EntriesIn(tables, sequences, f))
          /\ \A f : x \in EntriesIn(tables', sequences, f) <=> e.frame = f
          /\ \A f : x \in EntriesIn(tables, sequences, f) <=> old = f
      <3>1. Structure' /\ EntryChanged(tables, tables', sequences, s, l, i, e)
        BY <1>1, <1>3, <2>1, <2>2, <2>3, ReplacedKeeps
      <3> QED BY <3>1 DEF EntryChanged
    <2> HIDE DEF x
    <2>5. ASSUME NEW f, NEW p PROVE p \in EntriesIn(tables', sequences, f) <=> p \in EntriesIn(tables, sequences, f)
      <3>1. CASE p = x  BY <2>1, <2>4, <3>1
      <3>2. CASE p # x  BY <2>4, <3>2
      <3> QED BY <3>1, <3>2
    <2>6. \A f : EntriesIn(tables', sequences, f) = EntriesIn(tables, sequences, f)
      BY <2>5, SetExtensionality, Zenon
    <2>7. ref_count' = ref_count /\ prefix_index' = prefix_index /\ sequences' = sequences
      BY <1>1, <1>6
    <2> QED BY <2>4, <2>6, <2>7, CountsBridge
  <1>7. ASSUME ref_count[At(s, c).frame] > 1,
               NEW copy \in FreeFrames(ref_count), CopyOnWrite(s, c, copy)
        PROVE  Structure' /\ RefCountsExact'
    <2> DEFINE e == [tables[s][l][i] EXCEPT !.frame = copy, !.writable = TRUE]
    <2>1. copy \in Frames /\ ref_count[copy] = 0 /\ ref_count[old] > 1 /\ copy # old
      BY <1>3, <1>5, <1>7 DEF FreeFrames
    <2>2. e \in Entry /\ e.slot = NoSlot /\ e.frame = copy
      BY <1>3, <2>1 DEF Entry
    <2>3. /\ data' = [data EXCEPT ![copy] = data[old]]
          /\ ref_count' = Released(Allocated(ref_count, copy), old)
          /\ tables' = [tables EXCEPT ![s][c[1]][c[2]] = [@ EXCEPT !.frame = copy, !.writable = TRUE]]
      BY <1>3, <1>7 DEF CopyOnWrite, CopyRefs, copy_block
    <2>4. Replaced(tables, tables', s, l, i, e)
      BY <1>3, <2>3 DEF Replaced
    <2> HIDE DEF e
    <2>5. /\ ref_count' \in [Frames -> Nat] /\ data' \in [Frames -> Contents]
          /\ ref_count'[copy] = 1 /\ ref_count'[old] = ref_count[old] - 1
          /\ \A f \in Frames : f # copy /\ f # old => ref_count'[f] = ref_count[f]
      <3> DEFINE a == Allocated(ref_count, copy)
      <3>1. /\ a \in [Frames -> Nat] /\ a[copy] = 1
            /\ \A f \in Frames : f # copy => a[f] = ref_count[f]
        BY <1>4, <2>1 DEF Allocated
      <3> HIDE DEF a
      <3>2. a[old] = ref_count[old] /\ a[old] # 0 /\ a[old] - 1 \in Nat
        BY <1>4, <1>5, <2>1, <3>1
      <3>3. ref_count' = [a EXCEPT ![old] = a[old] - 1]
        BY <2>3, <3>2 DEF Released, a
      <3>4. /\ ref_count' \in [Frames -> Nat] /\ ref_count'[old] = a[old] - 1
            /\ \A f \in Frames : f # old => ref_count'[f] = a[f]
        BY <1>5, <3>1, <3>2, <3>3
      <3>5. data' \in [Frames -> Contents]
        BY <1>4, <1>5, <2>1, <2>3
      <3> QED BY <2>1, <3>1, <3>2, <3>4, <3>5
    <2>6. /\ Structure'
          /\ \A f, p : p # x =>
                   (p \in EntriesIn(tables', sequences, f) <=> p \in EntriesIn(tables, sequences, f))
          /\ \A f : x \in EntriesIn(tables', sequences, f) <=> e.frame = f
          /\ \A f : x \in EntriesIn(tables, sequences, f) <=> old = f
      <3>1. Structure' /\ EntryChanged(tables, tables', sequences, s, l, i, e)
        BY <1>1, <1>3, <2>2, <2>4, <2>5, ReplacedKeeps
      <3> QED BY <3>1 DEF EntryChanged
    <2> HIDE DEF x
    <2>7. prefix_index' = prefix_index /\ sequences' = sequences
      BY <1>1
    <2>8. SUFFICES ASSUME NEW f \in Frames
                   PROVE  ref_count'[f] = Cardinality(EntriesIn(tables', sequences, f))
                                          + Cardinality(PinsOn(Records(prefix_index), f))
      BY <2>6, <2>7, CountsBridge
    <2>9. /\ Cardinality(EntriesIn(tables, sequences, f)) \in Nat
          /\ Cardinality(PinsOn(Records(prefix_index), f)) \in Nat
          /\ IsFiniteSet(EntriesIn(tables, sequences, f))
          /\ ref_count[f] = Cardinality(EntriesIn(tables, sequences, f))
                             + Cardinality(PinsOn(Records(prefix_index), f))
          /\ ref_count[f] = 0 => /\ EntriesIn(tables, sequences, f) = {}
                                 /\ PinsOn(Records(prefix_index), f) = {}
      BY CountFacts
    <2> DEFINE A == EntriesIn(tables, sequences, f)
               B == EntriesIn(tables', sequences, f)
    <2> HIDE DEF A, B
    <2>10. /\ \A p : p # x => (p \in B <=> p \in A)
           /\ x \in B <=> copy = f
           /\ x \in A <=> old = f
      BY <2>2, <2>6 DEF A, B
    <2>11. CASE f = copy
      <3>1. A = {} /\ Cardinality(PinsOn(Records(prefix_index), f)) = 0
        BY <2>1, <2>9, <2>11, FS_EmptySet DEF A
      <3>2. B = {x}
        BY <2>10, <2>11, <3>1
      <3>3. Cardinality(B) = 1
        BY <3>2, SingletonCount
      <3> QED BY <2>5, <2>11, <3>1, <3>3 DEF B
    <2>12. CASE f = old
      <3>1. B = A \ {x} /\ x \in A
        BY <2>1, <2>10, <2>12
      <3>2. Cardinality(B) = Cardinality(A) - 1
        BY <2>9, <3>1, FS_RemoveElement DEF A
      <3> QED BY <2>5, <2>9, <2>12, <3>2 DEF A, B
    <2>13. CASE f # copy /\ f # old
      <3>1. B = A
        <4>1. x \notin A /\ x \notin B
          BY <2>10, <2>13
        <4>2. \A p : p \in B <=> p \in A
          BY <2>10, <4>1
        <4> QED BY <4>2, SetExtensionality, Zenon
      <3> QED BY <2>5, <2>9, <2>13, <3>1 DEF A, B
    <2> QED BY <2>11, <2>12, <2>13
  <1> QED BY <1>2, <1>6, <1>7
-----------------------------------------------------------------------------
(* Swapping rewrites entries and leaves the tables' lengths alone. *)
Rewritten(T, U) ==
    /\ U = [s \in SeqIds |-> [l \in Tables |-> U[s][l]]]
    /\ \A s \in SeqIds, l \in Tables : U[s][l] \in [1 .. Len(T[s][l]) -> Entry]

(* What the block at p holds, in its frame or in its slot. *)
ContentIn(T, D, W, p) ==
    IF EntryAt(T, p).slot = NoSlot THEN D[EntryAt(T, p).frame] ELSE W[EntryAt(T, p).slot]

(* The step leaves alone what the blocks of all sequences hold, and the       *)
(* bytes of all frames in use.                                                *)
ContentsKept ==
    \A p \in MappedIn(tables, sequences) : ContentIn(tables', data', swap', p) = ContentIn(tables, data, swap, p)
HeldKept ==
    \A f \in Frames : ref_count[f] # 0 => data'[f] = data[f]

LEMMA RewrittenTables ==
    ASSUME NEW T \in TableMaps, Even(T), NEW U, Rewritten(T, U)
    PROVE  /\ U \in TableMaps /\ Even(U)
           /\ \A s \in SeqIds, l \in Tables : Len(U[s][l]) = Len(T[s][l])
           /\ \A S \in SUBSET SeqIds : MappedIn(U, S) = MappedIn(T, S)
           /\ \A s \in SeqIds : T[s] = NoTables => U[s] = NoTables
  <1>1. \A s \in SeqIds, l \in Tables : T[s][l] \in Seq(Entry) /\ Len(T[s][l]) \in Nat
    BY DEF TableMaps
  <1>2. ASSUME NEW s \in SeqIds, NEW l \in Tables
        PROVE  U[s][l] \in Seq(Entry) /\ Len(U[s][l]) = Len(T[s][l])
    <2> DEFINE u == U[s][l]
               n == Len(T[s][l])
    <2>1. u \in [1 .. n -> Entry] /\ n \in Nat
      BY <1>1 DEF Rewritten
    <2> HIDE DEF u, n
    <2>2. u \in Seq(Entry) /\ Len(u) = n
      BY <2>1, LenProperties, SeqDef
    <2> QED BY <2>2 DEF u, n
  <1>3. U \in TableMaps
    <2>1. U = [s \in SeqIds |-> [l \in Tables |-> U[s][l]]]
      BY DEF Rewritten
    <2>2. \A s \in SeqIds : [l \in Tables |-> U[s][l]] \in [Tables -> Seq(Entry)]
      BY <1>2
    <2>3. [s \in SeqIds |-> [l \in Tables |-> U[s][l]]] \in TableMaps
      BY <2>2 DEF TableMaps
    <2> QED BY <2>1, <2>3, Zenon
  <1>4. Even(U)
    BY <1>2, ConfigFacts DEF Even
  <1>5. \A S \in SUBSET SeqIds : MappedIn(U, S) = MappedIn(T, S)
    BY <1>2 DEF MappedIn, Cells
  <1>6. ASSUME NEW s \in SeqIds, T[s] = NoTables PROVE U[s] = NoTables
    <2>1. \A l \in Tables : U[s][l] = <<>>
      <3>1. SUFFICES ASSUME NEW l \in Tables PROVE U[s][l] = <<>>
        OBVIOUS
      <3>2. T[s][l] = <<>>
        BY <1>6 DEF NoTables
      <3>3. U[s][l] \in Seq(Entry) /\ Len(U[s][l]) = 0
        BY <1>2, <3>2
      <3> QED BY <3>3, EmptySeq
    <2>2. U[s] \in [Tables -> Seq(Entry)]
      BY <1>3 DEF TableMaps
    <2> QED BY <2>1, <2>2 DEF NoTables
  <1> QED BY <1>2, <1>3, <1>4, <1>5, <1>6

LEMMA RewrittenKeeps ==
    ASSUME Structure, Rewritten(tables, tables'),
           ref_count' \in [Frames -> Nat], data' \in [Frames -> Contents],
           swap' \in [Slots -> Contents \cup {NoContent}],
           UNCHANGED <<sequences, request_of, prefix, sequences_by_request, prefix_index>>
    PROVE  /\ TypeOK' /\ TablesShaped' /\ RecordsShaped' /\ RequestsListed'
           /\ tables' \in TableMaps /\ Even(tables')
           /\ MappedIn(tables', sequences) = MappedIn(tables, sequences)
  <1> USE DEF Structure
  <1>1. tables \in TableMaps /\ Even(tables) /\ sequences \in SUBSET SeqIds
    BY TablesFacts
  <1>2. /\ tables' \in TableMaps /\ Even(tables')
        /\ \A s \in SeqIds, l \in Tables : Len(tables'[s][l]) = Len(tables[s][l])
        /\ \A S \in SUBSET SeqIds : MappedIn(tables', S) = MappedIn(tables, S)
        /\ \A s \in SeqIds : tables[s] = NoTables => tables'[s] = NoTables
    BY <1>1, RewrittenTables
  <1>3. TypeOK'
    BY <1>2 DEF TypeOK, TableMaps
  <1>4. TablesShaped'
    <2>1. SUFFICES ASSUME NEW t \in SeqIds
                   PROVE  /\ t \notin sequences' => tables'[t] = NoTables /\ prefix'[t] = NoPrefix
                          /\ t \in sequences' => request_of'[t] \in Requests
                          /\ prefix'[t].key # NoKey => Len(tables'[t][1]) > 0
      BY <1>2 DEF TablesShaped, Even
    <2>2. Len(tables'[t][1]) = Len(tables[t][1])
      BY <1>2, ConfigFacts
    <2> QED BY <1>2, <2>2 DEF TablesShaped
  <1>5. RecordsShaped' /\ RequestsListed'
    BY DEF RecordsShaped, IndexShaped, Records, RequestsListed, SequencesFor
  <1> QED BY <1>1, <1>2, <1>3, <1>4, <1>5

(* swap_in and release give back the slots of the swapped-out entries of S. *)
LEMMA SlotsReturned ==
    ASSUME Structure, NEW S \in SUBSET sequences, swap' = SwapWithout(S),
           AbsentIn(tables', sequences') = AbsentIn(tables, sequences) \ AbsentIn(tables, S),
           \A p \in AbsentIn(tables', sequences') : EntryAt(tables', p).slot = EntryAt(tables, p).slot
    PROVE  SlotsHeld' /\ swap' \in [Slots -> Contents \cup {NoContent}]
  <1> DEFINE A == AbsentIn(tables, sequences)
             D == AbsentIn(tables, S)
             B == AbsentIn(tables', sequences')
             Old(p) == EntryAt(tables, p).slot
             New(p) == EntryAt(tables', p).slot
  <1>1. /\ \A k \in Slots : swap[k] # NoContent <=> \E p \in A : Old(p) = k
        /\ \A p, q \in A : Old(p) = Old(q) => p = q
    BY Bridges DEF Structure, SlotsHeld
  <1>2. D \subseteq A
    BY DEF AbsentIn, MappedIn
  <1>3. \A k \in Slots : swap'[k] = IF \E p \in D : Old(p) = k THEN NoContent ELSE swap[k]
    <2>1. \A k : (\E p \in Absentees(S) : At(p[1], p[2]).slot = k) <=> (\E p \in D : Old(p) = k)
      <3>1. Absentees(S) = D
        BY Bridges
      <3>2. \A p : At(p[1], p[2]).slot = Old(p)
        BY DEF At, EntryAt
      <3> HIDE DEF D, Old
      <3> QED BY <3>1, <3>2
    <2> HIDE DEF D, Old
    <2> QED BY <2>1 DEF SwapWithout
  <1>4. swap' \in [Slots -> Contents \cup {NoContent}]
    <2>1. swap \in [Slots -> Contents \cup {NoContent}]
      BY DEF Structure, TypeOK
    <2> QED BY <2>1 DEF SwapWithout
  <1>5. B = A \ D /\ \A p \in B : New(p) = Old(p)
    OBVIOUS
  <1> HIDE DEF A, B, D, Old, New
  <1>6. \A k \in Slots : swap'[k] # NoContent <=> \E p \in B : New(p) = k
    <2>1. SUFFICES ASSUME NEW k \in Slots PROVE swap'[k] # NoContent <=> \E p \in B : New(p) = k
      OBVIOUS
    <2>2. ASSUME swap'[k] # NoContent PROVE \E p \in B : New(p) = k
      <3>1. swap[k] # NoContent /\ ~ \E p \in D : Old(p) = k
        BY <1>3, <2>2
      <3>2. PICK p \in A : Old(p) = k
        BY <1>1, <3>1
      <3> QED BY <1>5, <3>1, <3>2
    <2>3. ASSUME NEW p \in B, New(p) = k PROVE swap'[k] # NoContent
      <3>1. p \in A /\ p \notin D /\ Old(p) = k
        BY <1>5, <2>3
      <3>2. ~ \E q \in D : Old(q) = k
        BY <1>1, <1>2, <3>1
      <3> QED BY <1>1, <1>3, <3>1, <3>2
    <2> QED BY <2>2, <2>3
  <1>7. \A p, q \in B : New(p) = New(q) => p = q
    BY <1>1, <1>5
  <1>8. (Absentees(sequences))' = B /\ \A p : SlotOf(p)' = New(p)
    BY BridgesAfter DEF B, New
  <1>9. SlotsHeld'
    BY <1>6, <1>7, <1>8 DEF SlotsHeld
  <1> QED BY <1>4, <1>9

-----------------------------------------------------------------------------
(* swap_in *)
LEMMA SwapInKeeps ==
    ASSUME Structure, NEW S \in SUBSET sequences, swap_in(S)
    PROVE  /\ Structure' /\ Rewritten(tables, tables') /\ HeldKept
           /\ RefCountsExact => RefCountsExact' /\ ContentsKept
  <1> DEFINE D == AbsentIn(tables, S)
             T == tables
  <1>1. PICK g \in Injection(Absentees(S), FreeFrames(ref_count)) :
          /\ tables' = [s \in SeqIds |-> [l \in Tables |-> [i \in 1 .. Len(tables[s][l]) |->
                IF <<s, <<l, i>>>> \in DOMAIN g
                THEN [tables[s][l][i] EXCEPT !.frame = g[<<s, <<l, i>>>>], !.slot = NoSlot]
                ELSE tables[s][l][i]]]]
          /\ data' = Loaded(g)
          /\ ref_count' = AllocateEach(ref_count, Range(g))
    BY DEF swap_in
  <1>2. swap' = SwapWithout(S) /\ UNCHANGED <<sequences, request_of, prefix, sequences_by_request, prefix_index>>
    BY DEF swap_in
  <1>3. /\ tables \in TableMaps /\ Even(tables) /\ sequences \in SUBSET SeqIds /\ S \in SUBSET SeqIds
        /\ \A s \in SeqIds, l \in Tables : tables[s][l] \in Seq(Entry) /\ Len(tables[s][l]) \in Nat
    BY TablesFacts DEF Structure
  <1>4. /\ DOMAIN g = D /\ \A p \in D : g[p] \in Frames /\ ref_count[g[p]] = 0
        /\ \A p, q \in D : g[p] = g[q] => p = q
    <2>1. Absentees(S) = D
      BY Bridges
    <2>2. g \in [D -> FreeFrames(ref_count)] /\ IsInjective(g)
      BY <2>1 DEF Injection
    <2> HIDE DEF D
    <2> QED BY <2>2 DEF IsInjective, FreeFrames
  <1>5. D \subseteq AbsentIn(tables, sequences)
    BY DEF AbsentIn, MappedIn
  <1> HIDE DEF D
  <1> DEFINE New(s, l, i) == IF <<s, <<l, i>>>> \in D
                             THEN [tables[s][l][i] EXCEPT !.frame = g[<<s, <<l, i>>>>], !.slot = NoSlot]
                             ELSE tables[s][l][i]
  <1>6. ASSUME NEW s \in SeqIds, NEW l \in Tables, NEW i \in 1 .. Len(tables[s][l])
        PROVE  /\ tables[s][l][i] \in Entry /\ New(s, l, i) \in Entry
               /\ <<s, <<l, i>>>> \in D => New(s, l, i).frame = g[<<s, <<l, i>>>>] /\ New(s, l, i).slot = NoSlot
               /\ <<s, <<l, i>>>> \notin D => New(s, l, i) = tables[s][l][i]
    <2>1. tables[s][l][i] \in Entry
      BY <1>3, ElementOfSeq
    <2> QED BY <1>4, <2>1 DEF Entry
  <1>7. \A s \in SeqIds, l \in Tables :
           /\ DOMAIN tables'[s][l] = 1 .. Len(tables[s][l])
           /\ \A i \in 1 .. Len(tables[s][l]) : tables'[s][l][i] = New(s, l, i)
    BY <1>1, <1>4
  <1>8. Rewritten(tables, tables')
    <2>1. tables' = [s \in SeqIds |-> [l \in Tables |-> tables'[s][l]]]
      BY <1>1
    <2>2. ASSUME NEW s \in SeqIds, NEW l \in Tables PROVE tables'[s][l] \in [1 .. Len(tables[s][l]) -> Entry]
      <3>1. tables'[s][l] = [i \in 1 .. Len(tables[s][l]) |-> New(s, l, i)]
        BY <1>1, <1>4
      <3>2. \A i \in 1 .. Len(tables[s][l]) : New(s, l, i) \in Entry
        BY <1>6
      <3> HIDE DEF New
      <3> QED BY <3>1, <3>2
    <2> QED BY <2>1, <2>2 DEF Rewritten
  <1> HIDE DEF New
  <1>9. MappedIn(tables', sequences) = MappedIn(tables, sequences)
    BY <1>3, <1>8, RewrittenTables
  <1>10. ASSUME NEW p \in MappedIn(tables, sequences)
         PROVE  /\ p \in D => EntryAt(tables', p).frame = g[p] /\ EntryAt(tables', p).slot = NoSlot
                /\ p \notin D => EntryAt(tables', p) = EntryAt(tables, p)
    <2>1. /\ p[1] \in SeqIds /\ p[2][1] \in Tables /\ p[2][2] \in 1 .. Len(tables[p[1]][p[2][1]])
          /\ p = <<p[1], <<p[2][1], p[2][2]>>>>
      BY <1>3, MappedCells
    <2>2. EntryAt(tables', p) = New(p[1], p[2][1], p[2][2])
      BY <1>7, <2>1 DEF EntryAt
    <2>3. EntryAt(tables, p) = tables[p[1]][p[2][1]][p[2][2]]
      BY DEF EntryAt
    <2>4. /\ p \in D => New(p[1], p[2][1], p[2][2]).frame = g[p] /\ New(p[1], p[2][1], p[2][2]).slot = NoSlot
          /\ p \notin D => New(p[1], p[2][1], p[2][2]) = tables[p[1]][p[2][1]][p[2][2]]
      BY <1>6, <2>1
    <2> QED BY <2>2, <2>3, <2>4
  <1>11. /\ AbsentIn(tables', sequences') = AbsentIn(tables, sequences) \ D
         /\ \A p \in AbsentIn(tables', sequences') : EntryAt(tables', p).slot = EntryAt(tables, p).slot
    <2>1. sequences' = sequences
      BY <1>2
    <2>2. AbsentIn(tables', sequences) = AbsentIn(tables, sequences) \ D
      BY <1>9, <1>10 DEF AbsentIn
    <2>3. \A p \in AbsentIn(tables, sequences) \ D : EntryAt(tables', p).slot = EntryAt(tables, p).slot
      BY <1>10 DEF AbsentIn
    <2> QED BY <2>1, <2>2, <2>3
  <1>12. SlotsHeld' /\ swap' \in [Slots -> Contents \cup {NoContent}]
    BY <1>2, <1>11, SlotsReturned DEF D
  <1>13. ref_count \in [Frames -> Nat] /\ ref_count' \in [Frames -> Nat]
    <2>1. ref_count \in [Frames -> Nat]
      BY DEF Structure, TypeOK
    <2> QED BY <1>1, <2>1 DEF AllocateEach
  <1>14. data' \in [Frames -> Contents]
    <2>1. /\ data \in [Frames -> Contents] /\ swap \in [Slots -> Contents \cup {NoContent}]
      BY DEF Structure, TypeOK
    <2>2. ASSUME NEW p \in D PROVE swap[At(p[1], p[2]).slot] \in Contents
      <3>1. p \in AbsentIn(tables, sequences)
        BY <1>5
      <3>2. EntryAt(tables, p) \in Entry /\ EntryAt(tables, p).slot # NoSlot
        BY <1>3, <3>1, MappedCells DEF AbsentIn
      <3>3. EntryAt(tables, p).slot \in Slots
        BY <3>2 DEF Entry
      <3>4. swap[EntryAt(tables, p).slot] # NoContent
        BY <3>1, <3>3, Bridges DEF Structure, SlotsHeld
      <3>5. At(p[1], p[2]) = EntryAt(tables, p)
        BY DEF At, EntryAt
      <3> QED BY <2>1, <3>3, <3>4, <3>5
    <2>3. ASSUME NEW f \in Frames
          PROVE  (IF \E p \in DOMAIN g : g[p] = f
                  THEN LET p == CHOOSE p \in DOMAIN g : g[p] = f IN swap[At(p[1], p[2]).slot]
                  ELSE data[f]) \in Contents
      <3>1. CASE \E p \in DOMAIN g : g[p] = f
        <4> DEFINE p == CHOOSE p \in DOMAIN g : g[p] = f
        <4>1. p \in D
          BY <1>4, <3>1
        <4>2. swap[At(p[1], p[2]).slot] \in Contents
          <5> HIDE DEF p
          <5> QED BY <2>2, <4>1
        <4> QED BY <3>1, <4>2
      <3>2. CASE ~ \E p \in DOMAIN g : g[p] = f
        BY <2>1, <3>2
      <3> QED BY <3>1, <3>2
    <2> QED BY <1>1, <2>3 DEF Loaded
  <1>15. TypeOK' /\ TablesShaped' /\ RecordsShaped' /\ RequestsListed'
    BY <1>2, <1>8, <1>12, <1>13, <1>14, RewrittenKeeps
  <1>16. ASSUME RefCountsExact PROVE RefCountsExact'
    <2>1. SUFFICES ASSUME NEW f \in Frames
                   PROVE  ref_count'[f] = Cardinality(EntriesIn(tables', sequences, f))
                                          + Cardinality(PinsOn(Records(prefix_index), f))
      <3>1. sequences' = sequences /\ prefix_index' = prefix_index
        BY <1>2
      <3> QED BY <2>1, <3>1, CountsBridge
    <2>2. /\ Cardinality(EntriesIn(tables, sequences, f)) \in Nat
          /\ Cardinality(PinsOn(Records(prefix_index), f)) \in Nat
          /\ ref_count[f] = Cardinality(EntriesIn(tables, sequences, f))
                             + Cardinality(PinsOn(Records(prefix_index), f))
          /\ ref_count[f] = 0 => /\ EntriesIn(tables, sequences, f) = {}
                                 /\ PinsOn(Records(prefix_index), f) = {}
      BY <1>16, CountFacts
    <2> DEFINE A == EntriesIn(tables, sequences, f)
               B == EntriesIn(tables', sequences, f)
    <2>3. \A p : p \in B <=> \/ p \in A /\ p \notin D
                             \/ p \in D /\ g[p] = f
      <3>1. \A p \in D : p \in MappedIn(tables, sequences) /\ EntryAt(tables, p).slot # NoSlot
        BY <1>5 DEF AbsentIn
      <3> QED BY <1>9, <1>10, <3>1 DEF EntriesIn
    <2>4. \A p \in A : p \notin D
      BY <1>5 DEF EntriesIn, AbsentIn
    <2> HIDE DEF A, B
    <2>5. CASE f \notin Range(g)
      <3>1. \A p \in D : g[p] # f
        BY <1>4, <2>5 DEF Range
      <3>2. \A p : p \in B <=> p \in A
        BY <2>3, <2>4, <3>1
      <3>3. B = A
        BY <3>2, SetExtensionality, Zenon
      <3>4. ref_count'[f] = ref_count[f]
        BY <1>1, <2>5 DEF AllocateEach
      <3> QED BY <2>2, <3>3, <3>4 DEF A, B
    <2>6. CASE f \in Range(g)
      <3>1. PICK p \in D : g[p] = f
        BY <1>4, <2>6 DEF Range
      <3>2. ref_count[f] = 0 /\ ref_count'[f] = 1
        BY <1>1, <1>4, <2>6, <3>1 DEF AllocateEach
      <3>3. A = {} /\ Cardinality(PinsOn(Records(prefix_index), f)) = 0
        BY <2>2, <3>2, FS_EmptySet DEF A
      <3>4. B = {p}
        BY <1>4, <2>3, <3>1, <3>3
      <3>5. Cardinality(B) = 1
        BY <3>4, SingletonCount
      <3> QED BY <3>2, <3>3, <3>5 DEF B
    <2> QED BY <2>5, <2>6
  <1>17. ASSUME NEW p \in D PROVE data'[g[p]] = swap[EntryAt(tables, p).slot]
    <2> DEFINE f == g[p]
               b == CHOOSE r \in DOMAIN g : g[r] = f
    <2>1. f \in Frames /\ \E r \in DOMAIN g : g[r] = f
      BY <1>4
    <2>2. data'[f] = swap[At(b[1], b[2]).slot]
      BY <1>1, <2>1 DEF Loaded
    <2>3. b \in DOMAIN g /\ g[b] = f
      BY <2>1
    <2>4. b = p
      <3> HIDE DEF b
      <3> QED BY <1>4, <2>3
    <2>5. At(p[1], p[2]) = EntryAt(tables, p)
      BY DEF At, EntryAt
    <2> HIDE DEF b
    <2> QED BY <2>2, <2>4, <2>5
  <1>18. ASSUME NEW f \in Frames, \A p \in D : g[p] # f PROVE data'[f] = data[f]
    BY <1>1, <1>4, <1>18 DEF Loaded
  <1>19. HeldKept
    BY <1>4, <1>18 DEF HeldKept
  <1>20. ASSUME RefCountsExact, NEW p \in MappedIn(tables, sequences)
         PROVE  ContentIn(tables', data', swap', p) = ContentIn(tables, data, swap, p)
    <2>1. EntryAt(tables, p) \in Entry
      BY <1>3, MappedCells
    <2>2. CASE p \in D
      <3>1. EntryAt(tables', p).frame = g[p] /\ EntryAt(tables', p).slot = NoSlot
        BY <1>10, <2>2
      <3>2. EntryAt(tables, p).slot # NoSlot
        BY <2>2 DEF D, AbsentIn
      <3> QED BY <1>17, <2>2, <3>1, <3>2 DEF ContentIn
    <2>3. CASE p \notin D /\ EntryAt(tables, p).slot = NoSlot
      <3> DEFINE f == EntryAt(tables, p).frame
      <3>1. EntryAt(tables', p) = EntryAt(tables, p)
        BY <1>10, <2>3
      <3>2. f \in Frames /\ p \in EntriesIn(tables, sequences, f)
        BY <2>1, <2>3 DEF Entry, EntriesIn
      <3>3. ref_count[f] # 0
        BY <1>20, <3>2, CountFacts
      <3>4. data'[f] = data[f]
        BY <1>19, <3>2, <3>3 DEF HeldKept
      <3> QED BY <2>3, <3>1, <3>4 DEF ContentIn
    <2>4. CASE p \notin D /\ EntryAt(tables, p).slot # NoSlot
      <3> DEFINE k == EntryAt(tables, p).slot
      <3>1. EntryAt(tables', p) = EntryAt(tables, p)
        BY <1>10, <2>4
      <3>2. k \in Slots /\ p \in AbsentIn(tables, sequences)
        BY <2>1, <2>4 DEF Entry, AbsentIn
      <3>3. \A r \in AbsentIn(tables, sequences) : EntryAt(tables, r).slot = k => r = p
        BY <3>2, Bridges DEF Structure, SlotsHeld
      <3>4. ~ \E r \in D : EntryAt(tables, r).slot = k
        BY <1>5, <2>4, <3>3
      <3>5. ~ \E r \in Absentees(S) : At(r[1], r[2]).slot = k
        <4>1. Absentees(S) = D
          BY Bridges DEF D
        <4>2. \A r : At(r[1], r[2]) = EntryAt(tables, r)
          BY DEF At, EntryAt
        <4> HIDE DEF k
        <4> QED BY <3>4, <4>1, <4>2
      <3> HIDE DEF k
      <3>6. swap'[k] = swap[k]
        BY <1>2, <3>2, <3>5 DEF SwapWithout
      <3> QED BY <2>4, <3>1, <3>6 DEF ContentIn, k
    <2> QED BY <2>2, <2>3, <2>4
  <1> QED BY <1>8, <1>12, <1>15, <1>16, <1>19, <1>20 DEF Structure, ContentsKept
-----------------------------------------------------------------------------
(* swap_out of a list of sequences without repetitions *)
LEMMA SwapOutKeeps ==
    ASSUME Structure, NEW q \in Seq(SeqIds), IsInjective(q), Range(q) \subseteq sequences, swap_out(q)
    PROVE  /\ Structure' /\ Rewritten(tables, tables') /\ HeldKept /\ ContentsKept
           /\ RefCountsExact => RefCountsExact'
  <1> DEFINE slots(g, s, c) == {g[a] : a \in {b \in DOMAIN g : q[b[1]] = s /\ b[2] = c}}
             frame(a) == At(q[a[1]], a[2]).frame
  <1>1. PICK g \in Injection(Evictions(q), FreeSlots) :
            /\ tables' = [s \in SeqIds |-> [l \in Tables |-> [i \in 1 .. Len(tables[s][l]) |->
                    IF slots(g, s, <<l, i>>) = {} THEN tables[s][l][i]
                    ELSE [tables[s][l][i] EXCEPT !.slot = CHOOSE k \in slots(g, s, <<l, i>>) : TRUE]]]]
            /\ swap' = [k \in Slots |-> IF \E a \in DOMAIN g : g[a] = k
                                        THEN data[frame(CHOOSE a \in DOMAIN g : g[a] = k)]
                                        ELSE swap[k]]
            /\ ref_count' = EvictEach(ref_count, {frame(a) : a \in DOMAIN g})
            /\ UNCHANGED <<data, sequences, request_of, prefix, sequences_by_request, prefix_index>>
    BY DEF swap_out
  <1>2. /\ tables \in TableMaps /\ Even(tables) /\ sequences \in SUBSET SeqIds
        /\ \A s \in SeqIds, l \in Tables : tables[s][l] \in Seq(Entry) /\ Len(tables[s][l]) \in Nat
    BY TablesFacts DEF Structure
  <1> DEFINE D == Evictions(q)
             cell(a) == <<q[a[1]], a[2]>>
             E == {cell(a) : a \in D}
  <1>3. /\ DOMAIN g = D /\ \A a \in D : g[a] \in Slots /\ swap[g[a]] = NoContent
        /\ \A a, b \in D : g[a] = g[b] => a = b
    <2>1. g \in [D -> FreeSlots] /\ IsInjective(g)
      BY DEF Injection
    <2> HIDE DEF D
    <2> QED BY <2>1 DEF IsInjective, FreeSlots
  <1>4. ASSUME NEW a \in D
        PROVE  /\ cell(a) \in MappedIn(tables, sequences) /\ a = <<a[1], a[2]>>
               /\ a[1] \in 1 .. Len(q)
               /\ EntryAt(tables, cell(a)).slot = NoSlot
               /\ EntryAt(tables, cell(a)).frame = frame(a)
               /\ frame(a) \in Frames
               /\ ref_count[frame(a)] = 1
    <2>1. a \in (1 .. Len(q)) \X Cells /\ a[2] \in Resident(q[a[1]]) /\ ref_count[frame(a)] = 1
      BY DEF Evictions, Evictable
    <2>2. a[1] \in 1 .. Len(q) /\ a[2] \in Cells /\ a = <<a[1], a[2]>>
      BY <2>1
    <2>3. q[a[1]] \in sequences
      BY <2>2 DEF Range
    <2>4. /\ a[2][2] <= Len(tables[q[a[1]]][a[2][1]])
          /\ At(q[a[1]], a[2]).slot = NoSlot
      BY <2>1 DEF Resident, Mapped
    <2>5. cell(a) \in MappedIn(tables, sequences)
      BY <2>2, <2>3, <2>4 DEF MappedIn
    <2>6. EntryAt(tables, cell(a)) = At(q[a[1]], a[2])
      BY DEF EntryAt, At
    <2>7. EntryAt(tables, cell(a)) \in Entry
      <3> HIDE DEF cell
      <3> QED BY <1>2, <2>5, MappedCells
    <2>8. frame(a) \in Frames
      BY <2>6, <2>7 DEF Entry
    <2> QED BY <2>1, <2>2, <2>4, <2>5, <2>6, <2>8
  <1>5. \A a, b \in D : cell(a) = cell(b) => a = b
    <2>1. SUFFICES ASSUME NEW a \in D, NEW b \in D, cell(a) = cell(b) PROVE a = b
      OBVIOUS
    <2>2. q[a[1]] = q[b[1]] /\ a[2] = b[2]
      BY <2>1
    <2>3. a[1] \in 1 .. Len(q) /\ b[1] \in 1 .. Len(q) /\ a = <<a[1], a[2]>> /\ b = <<b[1], b[2]>>
      BY <1>4
    <2>4. a[1] = b[1]
      BY <2>2, <2>3 DEF IsInjective
    <2> QED BY <2>2, <2>3, <2>4
  <1>6. ASSUME NEW a \in D PROVE slots(g, q[a[1]], a[2]) = {g[a]}
    <2>1. \A b \in D : q[b[1]] = q[a[1]] /\ b[2] = a[2] => b = a
      BY <1>5
    <2> HIDE DEF D
    <2> QED BY <1>3, <2>1
  <1>7. ASSUME NEW s, NEW c, <<s, c>> \notin E PROVE slots(g, s, c) = {}
    <2>1. \A b \in D : ~(q[b[1]] = s /\ b[2] = c)
      BY <1>7
    <2> HIDE DEF D, E
    <2> QED BY <1>3, <2>1
  <1> HIDE DEF D
  <1> DEFINE New(s, l, i) == IF slots(g, s, <<l, i>>) = {} THEN tables[s][l][i]
                    ELSE [tables[s][l][i] EXCEPT !.slot = CHOOSE k \in slots(g, s, <<l, i>>) : TRUE]
  <1>8. \A s \in SeqIds, l \in Tables : tables'[s][l] = [i \in 1 .. Len(tables[s][l]) |-> New(s, l, i)]
    <2> HIDE DEF slots
    <2> QED BY <1>1
  <1> HIDE DEF slots
  <1>9. ASSUME NEW s \in SeqIds, NEW l \in Tables, NEW i \in 1 .. Len(tables[s][l])
        PROVE  /\ New(s, l, i) \in Entry /\ tables[s][l][i] \in Entry
               /\ \A a \in D : <<s, <<l, i>>>> = cell(a) =>
                      New(s, l, i).slot = g[a] /\ New(s, l, i).frame = tables[s][l][i].frame
               /\ <<s, <<l, i>>>> \notin E => New(s, l, i) = tables[s][l][i]
    <2>1. tables[s][l][i] \in Entry
      BY <1>2, ElementOfSeq
    <2>2. ASSUME NEW a \in D, <<s, <<l, i>>>> = cell(a)
          PROVE  New(s, l, i) \in Entry /\ New(s, l, i).slot = g[a] /\ New(s, l, i).frame = tables[s][l][i].frame
      <3>1. s = q[a[1]] /\ <<l, i>> = a[2]
        BY <2>2
      <3>2. slots(g, s, <<l, i>>) = {g[a]}
        BY <1>6, <3>1
      <3>3. (CHOOSE k \in slots(g, s, <<l, i>>) : TRUE) = g[a] /\ slots(g, s, <<l, i>>) # {}
        BY <3>2
      <3>4. New(s, l, i) = [tables[s][l][i] EXCEPT !.slot = g[a]]
        BY <3>3
      <3> HIDE DEF New
      <3> QED BY <1>3, <2>1, <3>4 DEF Entry
    <2>3. ASSUME <<s, <<l, i>>>> \notin E PROVE New(s, l, i) = tables[s][l][i]
      <3>1. slots(g, s, <<l, i>>) = {}
        <4> HIDE DEF E
        <4> QED BY <1>7, <2>3
      <3> QED BY <3>1
    <2>4. New(s, l, i) \in Entry
      <3>1. CASE <<s, <<l, i>>>> \in E
        <4>1. PICK a \in D : <<s, <<l, i>>>> = cell(a)
          BY <3>1
        <4> QED BY <2>2, <4>1
      <3>2. CASE <<s, <<l, i>>>> \notin E
        <4> HIDE DEF E, New
        <4> QED BY <2>1, <2>3, <3>2
      <3> QED BY <3>1, <3>2
    <2> HIDE DEF New, E, cell
    <2> QED BY <2>1, <2>2, <2>3, <2>4
  <1> HIDE DEF New
  <1>10. Rewritten(tables, tables')
    <2>1. tables' = [s \in SeqIds |-> [l \in Tables |-> tables'[s][l]]]
      BY <1>1
    <2>2. ASSUME NEW s \in SeqIds, NEW l \in Tables PROVE tables'[s][l] \in [1 .. Len(tables[s][l]) -> Entry]
      <3>1. \A i \in 1 .. Len(tables[s][l]) : New(s, l, i) \in Entry
        BY <1>9
      <3>2. tables'[s][l] = [i \in 1 .. Len(tables[s][l]) |-> New(s, l, i)]
        BY <1>8, Zenon
      <3> QED BY ONLY <3>1, <3>2
    <2> QED BY <2>1, <2>2 DEF Rewritten
  <1>11. MappedIn(tables', sequences) = MappedIn(tables, sequences)
    BY <1>2, <1>10, RewrittenTables
  <1>12. ASSUME NEW p \in MappedIn(tables, sequences)
         PROVE  /\ \A a \in D : p = cell(a) => /\ EntryAt(tables', p).slot = g[a]
                                               /\ EntryAt(tables', p).frame = EntryAt(tables, p).frame
                /\ p \notin E => EntryAt(tables', p) = EntryAt(tables, p)
    <2>1. /\ p[1] \in SeqIds /\ p[2][1] \in Tables /\ p[2][2] \in 1 .. Len(tables[p[1]][p[2][1]])
          /\ p = <<p[1], <<p[2][1], p[2][2]>>>>
      BY <1>2, MappedCells
    <2>2. EntryAt(tables', p) = New(p[1], p[2][1], p[2][2])
      <3> DEFINE n == Len(tables[p[1]][p[2][1]])
      <3>1. tables'[p[1]][p[2][1]] = [i \in 1 .. n |-> New(p[1], p[2][1], i)]
        BY <1>8, <2>1, Zenon
      <3>2. p[2][2] \in 1 .. n
        BY <2>1
      <3> HIDE DEF n
      <3>3. tables'[p[1]][p[2][1]][p[2][2]] = New(p[1], p[2][1], p[2][2])
        BY ONLY <3>1, <3>2
      <3> QED BY <3>3 DEF EntryAt
    <2>3. EntryAt(tables, p) = tables[p[1]][p[2][1]][p[2][2]]
      BY DEF EntryAt
    <2> HIDE DEF E, cell
    <2>4. /\ \A a \in D : p = cell(a) =>
                 /\ New(p[1], p[2][1], p[2][2]).slot = g[a]
                 /\ New(p[1], p[2][1], p[2][2]).frame = tables[p[1]][p[2][1]][p[2][2]].frame
          /\ p \notin E => New(p[1], p[2][1], p[2][2]) = tables[p[1]][p[2][1]][p[2][2]]
      BY <1>9, <2>1
    <2> QED BY <2>2, <2>3, <2>4
  <1>13. /\ \A p \in E : \E a \in D : p = cell(a)
         /\ \A a \in D : cell(a) \in E
    OBVIOUS
  <1> HIDE DEF E, cell
  <1>14. ref_count \in [Frames -> Nat] /\ ref_count' \in [Frames -> Nat]
    <2>1. ref_count \in [Frames -> Nat]
      BY DEF Structure, TypeOK
    <2> QED BY <1>1, <2>1 DEF EvictEach
  <1>15. /\ data' = data /\ data \in [Frames -> Contents] /\ swap \in [Slots -> Contents \cup {NoContent}]
         /\ sequences' = sequences /\ prefix_index' = prefix_index
    BY <1>1 DEF Structure, TypeOK
  <1>16. \A k \in Slots : /\ (\E a \in D : g[a] = k) => swap'[k] \in Contents
                          /\ ~(\E a \in D : g[a] = k) => swap'[k] = swap[k]
    <2>1. SUFFICES ASSUME NEW k \in Slots
                   PROVE  /\ (\E a \in D : g[a] = k) => swap'[k] \in Contents
                          /\ ~(\E a \in D : g[a] = k) => swap'[k] = swap[k]
      OBVIOUS
    <2> DEFINE b == CHOOSE a \in DOMAIN g : g[a] = k
    <2> HIDE DEF frame
    <2>2. swap'[k] = IF \E a \in DOMAIN g : g[a] = k THEN data[frame(b)] ELSE swap[k]
      BY <1>1
    <2>3. ASSUME \E a \in D : g[a] = k PROVE swap'[k] \in Contents
      <3>1. b \in D
        BY <1>3, <2>3
      <3> HIDE DEF b
      <3>2. frame(b) \in Frames
        BY <1>4, <3>1
      <3> QED BY <1>3, <1>15, <2>2, <2>3, <3>2
    <2> QED BY <1>3, <2>2, <2>3
  <1>17. swap' \in [Slots -> Contents \cup {NoContent}]
    <2>1. swap' = [k \in Slots |-> swap'[k]]
      BY <1>1
    <2>2. \A k \in Slots : swap'[k] \in Contents \cup {NoContent}
      BY <1>15, <1>16
    <2> QED BY <2>1, <2>2
  <1>18. TypeOK' /\ TablesShaped' /\ RecordsShaped' /\ RequestsListed'
    <2>1. /\ data' \in [Frames -> Contents]
          /\ UNCHANGED <<sequences, request_of, prefix, sequences_by_request, prefix_index>>
      BY <1>1, <1>15
    <2> QED BY <1>10, <1>14, <1>17, <2>1, RewrittenKeeps
  <1>19. SlotsHeld'
    <2> DEFINE A == AbsentIn(tables, sequences)
               B == AbsentIn(tables', sequences)
               Old(p) == EntryAt(tables, p).slot
               After(p) == EntryAt(tables', p).slot
    <2>1. /\ \A k \in Slots : swap[k] # NoContent <=> \E p \in A : Old(p) = k
          /\ \A p, r \in A : Old(p) = Old(r) => p = r
      BY Bridges DEF Structure, SlotsHeld
    <2>2. (Absentees(sequences))' = B /\ \A p : SlotOf(p)' = After(p)
      BY <1>15, BridgesAfter
    <2>3. \A p \in A : p \in B /\ After(p) = Old(p) /\ Old(p) \in Slots
      <3>1. SUFFICES ASSUME NEW p \in A PROVE p \in B /\ After(p) = Old(p) /\ Old(p) \in Slots
        OBVIOUS
      <3>2. p \in MappedIn(tables, sequences) /\ Old(p) # NoSlot
        BY DEF AbsentIn
      <3>3. p \notin E
        BY <1>4, <1>13, <3>2
      <3>4. EntryAt(tables', p) = EntryAt(tables, p)
        BY <1>12, <3>2, <3>3
      <3>5. EntryAt(tables, p) \in Entry
        BY <1>2, <3>2, MappedCells
      <3>6. Old(p) \in Slots
        BY <3>2, <3>5 DEF Entry
      <3> QED BY <1>11, <3>2, <3>4, <3>6 DEF AbsentIn
    <2>4. \A a \in D : cell(a) \in B /\ After(cell(a)) = g[a]
      <3>1. SUFFICES ASSUME NEW a \in D PROVE cell(a) \in B /\ After(cell(a)) = g[a]
        OBVIOUS
      <3>2. cell(a) \in MappedIn(tables, sequences)
        BY <1>4
      <3>3. After(cell(a)) = g[a]
        BY <1>12, <3>2
      <3>4. g[a] # NoSlot
        BY <1>3, ManagerConfig
      <3> QED BY <1>11, <3>2, <3>3, <3>4 DEF AbsentIn
    <2>5. \A p \in B : p \in A \/ \E a \in D : p = cell(a)
      <3>1. SUFFICES ASSUME NEW p \in B, p \notin E PROVE p \in A
        BY <1>13
      <3>2. p \in MappedIn(tables, sequences) /\ After(p) # NoSlot
        BY <1>11 DEF AbsentIn
      <3>3. EntryAt(tables', p) = EntryAt(tables, p)
        BY <1>12, <3>1, <3>2
      <3> QED BY <3>2, <3>3 DEF AbsentIn
    <2> HIDE DEF A, B, Old, After
    <2>6. \A k \in Slots : swap'[k] # NoContent <=> \E p \in B : After(p) = k
      <3>1. SUFFICES ASSUME NEW k \in Slots PROVE swap'[k] # NoContent <=> \E p \in B : After(p) = k
        OBVIOUS
      <3>2. CASE \E a \in D : g[a] = k
        <4>1. swap'[k] # NoContent
          BY <1>16, <3>2, ManagerConfig
        <4> QED BY <2>4, <3>2, <4>1
      <3>3. CASE ~ \E a \in D : g[a] = k
        <4>1. swap'[k] = swap[k]
          BY <1>16, <3>3
        <4>2. (\E p \in B : After(p) = k) <=> (\E p \in A : Old(p) = k)
          BY <2>3, <2>4, <2>5, <3>3
        <4> QED BY <2>1, <4>1, <4>2
      <3> QED BY <3>2, <3>3
    <2>7. ASSUME NEW p \in B, NEW r \in B, After(p) = After(r) PROVE p = r
      <3>1. \A a \in D : \A t \in A : g[a] # Old(t)
        BY <1>3, <2>1, <2>3
      <3>2. CASE p \in A /\ r \in A
        BY <2>1, <2>3, <2>7, <3>2
      <3>3. CASE p \notin A \/ r \notin A
        <4>1. p \notin A /\ r \notin A
          BY <2>3, <2>4, <2>5, <2>7, <3>1, <3>3
        <4>2. PICK a \in D : p = cell(a)
          BY <2>5, <4>1
        <4>3. PICK b \in D : r = cell(b)
          BY <2>5, <4>1
        <4>4. a = b
          BY <1>3, <2>4, <2>7, <4>2, <4>3
        <4> QED BY <4>2, <4>3, <4>4
      <3> QED BY <3>2, <3>3
    <2> QED BY <2>2, <2>6, <2>7 DEF SlotsHeld
  <1>20. ASSUME RefCountsExact PROVE RefCountsExact'
    <2>1. SUFFICES ASSUME NEW f \in Frames
                   PROVE  ref_count'[f] = Cardinality(EntriesIn(tables', sequences, f))
                                          + Cardinality(PinsOn(Records(prefix_index), f))
      BY <1>15, CountsBridge
    <2>2. /\ Cardinality(EntriesIn(tables, sequences, f)) \in Nat
          /\ Cardinality(PinsOn(Records(prefix_index), f)) \in Nat
          /\ IsFiniteSet(EntriesIn(tables, sequences, f))
          /\ ref_count[f] = Cardinality(EntriesIn(tables, sequences, f))
                             + Cardinality(PinsOn(Records(prefix_index), f))
      BY <1>20, CountFacts
    <2> DEFINE A == EntriesIn(tables, sequences, f)
               B == EntriesIn(tables', sequences, f)
    <2>3. \A p : p \in B <=> p \in A /\ p \notin E
      <3>1. ASSUME NEW p \in B PROVE p \in A /\ p \notin E
        <4>1. p \in MappedIn(tables, sequences) /\ EntryAt(tables', p).slot = NoSlot /\ EntryAt(tables', p).frame = f
          BY <1>11 DEF EntriesIn
        <4>2. p \notin E
          <5>1. SUFFICES ASSUME NEW a \in D, p = cell(a) PROVE FALSE
            BY <1>13
          <5>2. EntryAt(tables', p).slot = g[a]
            BY <1>12, <4>1, <5>1
          <5> QED BY <1>3, <4>1, <5>2, ManagerConfig
        <4>3. EntryAt(tables', p) = EntryAt(tables, p)
          BY <1>12, <4>1, <4>2
        <4> QED BY <4>1, <4>2, <4>3 DEF EntriesIn
      <3>2. ASSUME NEW p \in A, p \notin E PROVE p \in B
        <4>1. p \in MappedIn(tables, sequences) /\ EntryAt(tables, p).slot = NoSlot /\ EntryAt(tables, p).frame = f
          BY DEF EntriesIn
        <4>2. EntryAt(tables', p) = EntryAt(tables, p)
          BY <1>12, <3>2, <4>1
        <4> QED BY <1>11, <4>1, <4>2 DEF EntriesIn
      <3> HIDE DEF A, B
      <3> QED BY <3>1, <3>2
    <2>4. \A a \in D : frame(a) = f => cell(a) \in A
      BY <1>4 DEF EntriesIn
    <2>5. \A a \in D : cell(a) \in A => frame(a) = f
      BY <1>4 DEF EntriesIn
    <2> HIDE DEF A, B
    <2> DEFINE F == {frame(a) : a \in DOMAIN g}
    <2>6. ref_count'[f] = IF f \in F THEN 0 ELSE ref_count[f]
      BY <1>1 DEF EvictEach
    <2>7. CASE f \in F
      <3>1. PICK a \in D : frame(a) = f
        BY <1>3, <2>7
      <3>2. ref_count[f] = 1 /\ cell(a) \in A /\ cell(a) \in E
        BY <1>4, <1>13, <2>4, <3>1
      <3>3. Cardinality(A) # 0 /\ (Cardinality(A) = 1 => \A x, y \in A : x = y)
        BY <2>2, <3>2, SmallCount DEF A
      <3>4. Cardinality(A) = 1 /\ Cardinality(PinsOn(Records(prefix_index), f)) = 0
        BY <2>2, <3>2, <3>3 DEF A
      <3>5. B = {}
        BY <2>3, <3>2, <3>3, <3>4
      <3>6. Cardinality(B) = 0
        BY <3>5, FS_EmptySet
      <3> QED BY <2>6, <2>7, <3>4, <3>6 DEF B
    <2>8. CASE f \notin F
      <3>1. \A a \in D : cell(a) \notin A
        BY <1>3, <2>5, <2>8
      <3>2. \A p : p \in B <=> p \in A
        BY <1>13, <2>3, <3>1
      <3>3. B = A
        BY <3>2, SetExtensionality, Zenon
      <3> QED BY <2>2, <2>6, <2>8, <3>3 DEF A, B
    <2> QED BY <2>7, <2>8
  <1>21. ASSUME NEW a \in D PROVE swap'[g[a]] = data[frame(a)]
    <2> DEFINE k == g[a]
               b == CHOOSE r \in DOMAIN g : g[r] = k
    <2> HIDE DEF frame
    <2>1. k \in Slots /\ \E r \in DOMAIN g : g[r] = k
      BY <1>3
    <2>2. swap'[k] = data[frame(b)]
      BY <1>1, <2>1
    <2>3. b \in DOMAIN g /\ g[b] = k
      BY <2>1
    <2>4. b = a
      <3> HIDE DEF b
      <3> QED BY <1>3, <2>3
    <2> HIDE DEF b
    <2> QED BY <2>2, <2>4
  <1>22. ASSUME NEW p \in MappedIn(tables, sequences)
         PROVE  ContentIn(tables', data', swap', p) = ContentIn(tables, data, swap, p)
    <2>1. EntryAt(tables, p) \in Entry
      BY <1>2, MappedCells
    <2>2. CASE p \in E
      <3>1. PICK a \in D : p = cell(a)
        BY <1>13, <2>2
      <3>2. EntryAt(tables', p).slot = g[a] /\ g[a] # NoSlot
        BY <1>3, <1>12, <3>1, ManagerConfig
      <3>3. EntryAt(tables, p).slot = NoSlot /\ EntryAt(tables, p).frame = frame(a)
        BY <1>4, <3>1
      <3> HIDE DEF frame
      <3> QED BY <1>21, <3>2, <3>3 DEF ContentIn
    <2>3. CASE p \notin E
      <3>1. EntryAt(tables', p) = EntryAt(tables, p)
        BY <1>12, <2>3
      <3>2. CASE EntryAt(tables, p).slot = NoSlot
        BY <1>15, <3>1, <3>2 DEF ContentIn
      <3>3. CASE EntryAt(tables, p).slot # NoSlot
        <4> DEFINE k == EntryAt(tables, p).slot
        <4>1. k \in Slots /\ p \in AbsentIn(tables, sequences)
          BY <2>1, <3>3 DEF Entry, AbsentIn
        <4>2. swap[k] # NoContent
          BY <4>1, Bridges DEF Structure, SlotsHeld
        <4> HIDE DEF k
        <4>3. swap'[k] = swap[k]
          BY <1>3, <1>16, <4>1, <4>2
        <4> QED BY <3>1, <3>3, <4>3 DEF ContentIn, k
      <3> QED BY <3>2, <3>3
    <2> QED BY <2>2, <2>3
  <1>23. HeldKept
    BY <1>15 DEF HeldKept
  <1> QED BY <1>10, <1>18, <1>19, <1>20, <1>22, <1>23 DEF Structure, ContentsKept
-----------------------------------------------------------------------------
(* release of a set of sequences *)
LEMMA LeavingNumber ==
    ASSUME NEW S \in SUBSET SeqIds, NEW k, NEW rec
    PROVE  Leaving(S, k, rec) \in Nat
  <1> DEFINE L == {s \in S : prefix[s] = [key |-> k, hash |-> rec.hash]}
  <1>1. IsFiniteSet(SeqIds)
    BY ManagerConfig
  <1>2. L \subseteq SeqIds
    OBVIOUS
  <1>3. Leaving(S, k, rec) = Cardinality(L)
    BY DEF Leaving
  <1> HIDE DEF L
  <1>4. IsFiniteSet(L)
    BY <1>1, <1>2, FS_Subset
  <1> QED BY <1>3, <1>4, FS_CardinalityType

LEMMA ReleasedIndex ==
    ASSUME Structure, NEW S \in SUBSET sequences, prefix_index' = IndexWithout(S)
    PROVE  /\ prefix_index' \in [Keys -> SUBSET Record] /\ IndexShaped(prefix_index')
           /\ Dropped(S) \subseteq Records(prefix_index)
           /\ IsFiniteSet(Dropped(S)) /\ IsFiniteSet(Records(prefix_index))
           /\ \A f : Cardinality(PinsOn(Records(prefix_index'), f))
                       = Cardinality(PinsOn(Records(prefix_index) \ Dropped(S), f))
  <1> DEFINE R == Records(prefix_index) \ Dropped(S)
             u == [x \in R |-> x[2].users - Leaving(S, x[1], x[2])]
  <1>1. /\ prefix_index \in [Keys -> SUBSET Record] /\ IndexShaped(prefix_index)
        /\ IsFiniteSet(Records(prefix_index)) /\ S \in SUBSET SeqIds
    BY DEF Structure, TypeOK, RecordsShaped, IndexShaped
  <1>2. Dropped(S) \subseteq Records(prefix_index)
    BY DEF Dropped
  <1>3. u \in [R -> Nat]
    <2>1. ASSUME NEW x \in R PROVE x[2].users - Leaving(S, x[1], x[2]) \in Nat
      <3>1. x[1] \in Keys /\ x[2] \in prefix_index[x[1]] /\ x \in Records(prefix_index) /\ x \notin Dropped(S)
        BY RecordsAre
      <3>2. x[2].users \in Nat
        BY <1>1, <3>1 DEF Record
      <3>3. Leaving(S, x[1], x[2]) \in Nat
        BY <1>1, LeavingNumber
      <3>4. ~(Leaving(S, x[1], x[2]) > 0 /\ x[2].users <= Leaving(S, x[1], x[2]))
        BY <3>1 DEF Dropped
      <3> QED BY <3>2, <3>3, <3>4
    <2> QED BY <2>1
  <1>4. Remade(prefix_index, prefix_index', R, u)
    <2> DEFINE old(k) == {r \in prefix_index[k] : <<k, r>> \notin Dropped(S)}
               kept(k) == {r \in prefix_index[k] : <<k, r>> \in R}
    <2>1. ASSUME NEW k \in Keys
          PROVE  /\ kept(k) = old(k)
                 /\ {[rec EXCEPT !.users = @ - Leaving(S, k, rec)] : rec \in old(k)}
                      = {[rec EXCEPT !.users = u[<<k, rec>>]] : rec \in kept(k)}
      <3>1. \A r \in prefix_index[k] : <<k, r>> \in Records(prefix_index)
        BY RecordsAre
      <3>2. kept(k) = old(k)
        BY <3>1
      <3>3. \A rec \in kept(k) : u[<<k, rec>>] = rec.users - Leaving(S, k, rec)
        <4> HIDE DEF R
        <4> QED OBVIOUS
      <3>4. \A rec \in kept(k) : [rec EXCEPT !.users = @ - Leaving(S, k, rec)] = [rec EXCEPT !.users = u[<<k, rec>>]]
        <4> HIDE DEF kept, u
        <4> QED BY <3>3
      <3> HIDE DEF kept, old, u
      <3> QED BY <3>2, <3>4
    <2>2. prefix_index' = [k \in Keys |-> {[rec EXCEPT !.users = @ - Leaving(S, k, rec)] : rec \in old(k)}]
      BY DEF IndexWithout
    <2>3. prefix_index' = [k \in Keys |-> {[rec EXCEPT !.users = u[<<k, rec>>]] : rec \in kept(k)}]
      <3> HIDE DEF old, kept, u
      <3> QED BY <2>1, <2>2
    <2> QED BY <2>3 DEF Remade
  <1>5. R \in SUBSET Records(prefix_index)
    OBVIOUS
  <1>6. IsFiniteSet(Dropped(S))
    BY <1>1, <1>2, FS_Subset
  <1> HIDE DEF R, u
  <1>7. /\ prefix_index' \in [Keys -> SUBSET Record] /\ IndexShaped(prefix_index')
        /\ \A f : Cardinality(PinsOn(Records(prefix_index'), f)) = Cardinality(PinsOn(R, f))
    BY ONLY <1>1, <1>3, <1>4, <1>5, RemadeIndex
  <1> QED BY <1>1, <1>2, <1>6, <1>7 DEF R

LEMMA ReleaseKeeps ==
    ASSUME Structure, NEW S \in SUBSET sequences, release(S)
    PROVE  /\ Structure'
           /\ RefCountsExact => RefCountsExact'
  <1>1. /\ ref_count' = ReleaseEach(ref_count, Releases(S))
        /\ swap' = SwapWithout(S)
        /\ prefix_index' = IndexWithout(S)
        /\ sequences' = sequences \ S
        /\ tables' = [s \in SeqIds |-> IF s \in S THEN NoTables ELSE tables[s]]
        /\ prefix' = [s \in SeqIds |-> IF s \in S THEN NoPrefix ELSE prefix[s]]
        /\ request_of' = [s \in SeqIds |-> IF s \in S THEN NoRequest ELSE request_of[s]]
        /\ sequences_by_request' = Unindexed(S)
        /\ data' = data
    BY DEF release
  <1>2. /\ tables \in TableMaps /\ Even(tables) /\ sequences \in SUBSET SeqIds /\ S \in SUBSET SeqIds
        /\ \A s \in SeqIds, l \in Tables : tables[s][l] \in Seq(Entry) /\ Len(tables[s][l]) \in Nat
    BY TablesFacts DEF Structure
  <1> DEFINE gone == Dropped(S)
             all == Records(prefix_index)
  <1>3. /\ prefix_index' \in [Keys -> SUBSET Record] /\ IndexShaped(prefix_index')
        /\ gone \subseteq all /\ IsFiniteSet(gone) /\ IsFiniteSet(all)
        /\ \A f : Cardinality(PinsOn(Records(prefix_index'), f)) = Cardinality(PinsOn(all \ gone, f))
    BY <1>1, ReleasedIndex
  <1> HIDE DEF gone, all
  <1>4. ASSUME NEW f \in Frames
        PROVE  /\ Releases(S)[f] = Cardinality(EntriesIn(tables, S, f)) + Cardinality(PinsOn(gone, f))
               /\ IsFiniteSet(EntriesIn(tables, S, f)) /\ IsFiniteSet(PinsOn(gone, f))
               /\ Cardinality(EntriesIn(tables, S, f)) \in Nat /\ Cardinality(PinsOn(gone, f)) \in Nat
    <2>1. EntriesOn(S, f) = EntriesIn(tables, S, f)
      BY Bridges
    <2>2. Releases(S)[f] = Cardinality(EntriesIn(tables, S, f)) + Cardinality(PinsOn(gone, f))
      BY <2>1 DEF Releases, EntryCount, PinCount, gone
    <2>3. IsFiniteSet(EntriesIn(tables, S, f)) /\ IsFiniteSet(PinsOn(gone, f))
      BY <1>2, <1>3, EntriesFinite, PinsFinite
    <2> QED BY <2>2, <2>3, FS_CardinalityType
  <1>5. ref_count \in [Frames -> Nat] /\ ref_count' \in [Frames -> Nat]
    <2>1. ref_count \in [Frames -> Nat]
      BY DEF Structure, TypeOK
    <2>2. \A f \in Frames : Releases(S)[f] \in Nat
      BY <1>4
    <2>3. \A f \in Frames : (IF ref_count[f] <= Releases(S)[f] THEN 0 ELSE ref_count[f] - Releases(S)[f]) \in Nat
      BY <2>1, <2>2
    <2> QED BY <1>1, <2>1, <2>3 DEF ReleaseEach
  <1>6. NoTables \in [Tables -> Seq(Entry)] /\ \A l \in Tables : Len(NoTables[l]) = 0 /\ NoTables[l] = <<>>
    BY DEF NoTables
  <1>7. /\ tables' \in TableMaps
        /\ \A s \in SeqIds : /\ s \in S => tables'[s] = NoTables
                             /\ s \notin S => tables'[s] = tables[s]
    BY <1>1, <1>2, <1>6 DEF TableMaps
  <1>8. NoPrefix \in [key : Keys \cup {NoKey}, hash : Block] /\ NoPrefix.key = NoKey
    <2>1. NoTables \in Block
      BY DEF NoTables, Block
    <2> QED BY <2>1 DEF NoPrefix
  <1>9. /\ prefix' \in [SeqIds -> [key : Keys \cup {NoKey}, hash : Block]]
        /\ \A s \in SeqIds : /\ s \in S => prefix'[s] = NoPrefix
                             /\ s \notin S => prefix'[s] = prefix[s]
    <2>1. prefix \in [SeqIds -> [key : Keys \cup {NoKey}, hash : Block]]
      BY DEF Structure, TypeOK
    <2> HIDE DEF NoPrefix
    <2> QED BY <1>1, <1>8, <2>1
  <1>10. /\ request_of' \in [SeqIds -> Requests \cup {NoRequest}]
         /\ \A s \in SeqIds : s \notin S => request_of'[s] = request_of[s]
    <2>1. request_of \in [SeqIds -> Requests \cup {NoRequest}]
      BY DEF Structure, TypeOK
    <2> QED BY <1>1, <2>1
  <1>11. sequences_by_request' \in [Requests -> Seq(SeqIds)] /\ RequestsListed'
    <2> DEFINE keep == SeqIds \ S
               list(r) == sequences_by_request[r]
    <2>1. ASSUME NEW r \in Requests
          PROVE  /\ Kept(list(r), keep) \in Seq(SeqIds)
                 /\ Range(Kept(list(r), keep)) = {s \in sequences' : request_of'[s] = r}
                 /\ IsInjective(Kept(list(r), keep))
      <3>1. list(r) \in Seq(SeqIds)
        BY DEF Structure, TypeOK
      <3>2. IsInjective(list(r)) /\ Range(list(r)) = {s \in sequences : request_of[s] = r}
        BY DEF Structure, RequestsListed, SequencesFor
      <3> DEFINE old == list(r)
      <3> HIDE DEF list, keep
      <3>3. /\ Kept(old, keep) \in Seq(SeqIds) /\ Range(Kept(old, keep)) = Range(old) \cap keep
            /\ IsInjective(Kept(old, keep))
        <4> HIDE DEF old
        <4> QED BY <3>1, <3>2, KeptProperties DEF old
      <3>4. Range(old) \cap keep = {s \in sequences' : request_of'[s] = r}
        BY <1>1, <1>2, <1>10, <3>2 DEF keep
      <3> QED BY <3>3, <3>4
    <2>2. sequences_by_request' = [r \in Requests |-> Kept(list(r), keep)]
      BY <1>1 DEF Unindexed
    <2> HIDE DEF keep, list
    <2>3. sequences_by_request' \in [Requests -> Seq(SeqIds)]
      BY <2>1, <2>2
    <2>4. \A r \in Requests : /\ IsInjective(sequences_by_request'[r])
                              /\ Range(sequences_by_request'[r]) = {s \in sequences' : request_of'[s] = r}
      BY <2>1, <2>2
    <2> QED BY <2>3, <2>4 DEF RequestsListed, SequencesFor, IsInjective, Range
  <1>12. /\ AbsentIn(tables', sequences') = AbsentIn(tables, sequences) \ AbsentIn(tables, S)
         /\ \A p \in AbsentIn(tables', sequences') : EntryAt(tables', p).slot = EntryAt(tables, p).slot
    <2> DEFINE Q == sequences \ S
    <2>1. SameTables(tables, tables', Q)
      BY <1>2, <1>7 DEF SameTables
    <2>2. AbsentIn(tables, Q) = AbsentIn(tables, sequences) \ AbsentIn(tables, S)
      BY DEF AbsentIn, MappedIn
    <2>3. sequences' = Q
      BY <1>1
    <2> HIDE DEF Q
    <2>4. AbsentIn(tables', Q) = AbsentIn(tables, Q) /\ \A p \in MappedIn(tables, Q) : EntryAt(tables', p) = EntryAt(tables, p)
      BY <2>1, EntriesAgree
    <2>5. \A p \in AbsentIn(tables, Q) : EntryAt(tables', p).slot = EntryAt(tables, p).slot
      BY <2>4 DEF AbsentIn
    <2> QED BY <2>2, <2>3, <2>4, <2>5
  <1>13. SlotsHeld' /\ swap' \in [Slots -> Contents \cup {NoContent}]
    BY <1>1, <1>12, SlotsReturned
  <1>14. TypeOK'
    <2>1. sequences' \subseteq SeqIds /\ data' \in [Frames -> Contents]
      BY <1>1, <1>2 DEF Structure, TypeOK
    <2> QED BY <1>3, <1>5, <1>7, <1>9, <1>10, <1>11, <1>13, <2>1 DEF TypeOK, TableMaps
  <1>15. TablesShaped'
    <2>1. SUFFICES ASSUME NEW s \in SeqIds
                   PROVE  /\ \A l \in Tables : Len(tables'[s][l]) = Len(tables'[s][1])
                          /\ Len(tables'[s][1]) <= MaxBlocks
                          /\ s \notin sequences' => tables'[s] = NoTables /\ prefix'[s] = NoPrefix
                          /\ s \in sequences' => request_of'[s] \in Requests
                          /\ prefix'[s].key # NoKey => Len(tables'[s][1]) > 0
      BY DEF TablesShaped
    <2>2. CASE s \in S
      BY <1>1, <1>6, <1>7, <1>8, <1>9, <2>2, ConfigFacts
    <2>3. CASE s \notin S
      BY <1>1, <1>7, <1>9, <1>10, <2>3 DEF Structure, TablesShaped
    <2> QED BY <2>2, <2>3
  <1>16. RecordsShaped'
    BY <1>3 DEF RecordsShaped, IndexShaped, Records
  <1>17. ASSUME RefCountsExact PROVE RefCountsExact'
    <2>1. SUFFICES ASSUME NEW f \in Frames
                   PROVE  ref_count'[f] = Cardinality(EntriesIn(tables', sequences', f))
                                          + Cardinality(PinsOn(Records(prefix_index'), f))
      BY CountsBridge
    <2>2. /\ IsFiniteSet(EntriesIn(tables, sequences, f))
          /\ IsFiniteSet(PinsOn(all, f))
          /\ ref_count[f] = Cardinality(EntriesIn(tables, sequences, f))
                             + Cardinality(PinsOn(all, f))
      BY <1>17, CountFacts DEF all
    <2> DEFINE Q == sequences \ S
               A == EntriesIn(tables, sequences, f)
               B == EntriesIn(tables, S, f)
               P == PinsOn(all, f)
               G == PinsOn(gone, f)
    <2>3. EntriesIn(tables', sequences', f) = A \ B
      <3>1. SameTables(tables, tables', Q)
        BY <1>2, <1>7 DEF SameTables
      <3>2. EntriesIn(tables, Q, f) = A \ B
        BY DEF EntriesIn, MappedIn
      <3>3. sequences' = Q
        BY <1>1
      <3> HIDE DEF Q
      <3>4. EntriesIn(tables', Q, f) = EntriesIn(tables, Q, f)
        BY <3>1, EntriesAgree, SMTT(40)
      <3> QED BY <3>2, <3>3, <3>4
    <2>4. PinsOn(all \ gone, f) = P \ G /\ G \subseteq P
      BY <1>3 DEF PinsOn
    <2>5. B \subseteq A
      BY DEF EntriesIn, MappedIn
    <2>6. Cardinality(PinsOn(Records(prefix_index'), f)) = Cardinality(P \ G)
      BY <1>3, <2>4
    <2>7. ref_count'[f] = IF ref_count[f] <= Cardinality(B) + Cardinality(G) THEN 0
                          ELSE ref_count[f] - (Cardinality(B) + Cardinality(G))
      BY <1>1, <1>4 DEF ReleaseEach
    <2> HIDE DEF A, B, P, G
    <2>8. /\ Cardinality(A \ B) = Cardinality(A) - Cardinality(B)
          /\ Cardinality(A) \in Nat /\ Cardinality(B) \in Nat /\ Cardinality(B) <= Cardinality(A)
      BY <2>2, <2>5, RestCount DEF A
    <2>9. /\ Cardinality(P \ G) = Cardinality(P) - Cardinality(G)
          /\ Cardinality(P) \in Nat /\ Cardinality(G) \in Nat /\ Cardinality(G) <= Cardinality(P)
      BY <2>2, <2>4, RestCount DEF P
    <2>10. ref_count[f] = Cardinality(A) + Cardinality(P)
      BY <2>2 DEF A, P
    <2>11. ref_count'[f] = Cardinality(A \ B) + Cardinality(P \ G)
      BY ONLY <2>7, <2>8, <2>9, <2>10
    <2> QED BY <2>3, <2>6, <2>11
  <1> QED BY <1>11, <1>13, <1>14, <1>15, <1>16, <1>17 DEF Structure
-----------------------------------------------------------------------------
(* All steps together. *)
LEMMA InitStructure ==
    ASSUME Init
    PROVE  Structure /\ RefCountsExact
  <1> USE DEF Init
  <1>1. NoTables \in [Tables -> Seq(Entry)] /\ NoTables \in Block
        /\ \A l \in Tables : NoTables[l] = <<>> /\ Len(NoTables[l]) = 0
    BY DEF NoTables, Block
  <1>2. NoPrefix \in [key : Keys \cup {NoKey}, hash : Block] /\ NoPrefix.key = NoKey
    BY <1>1 DEF NoPrefix
  <1>3. Records(prefix_index) = {}
    BY DEF Records
  <1>4. AbsentIn(tables, sequences) = {} /\ \A f : EntriesIn(tables, sequences, f) = {}
    BY DEF AbsentIn, EntriesIn, MappedIn
  <1>5. TypeOK
    <2>1. tables \in [SeqIds -> [Tables -> Seq(Entry)]]
      <3> HIDE DEF NoTables
      <3> QED BY <1>1
    <2>2. prefix \in [SeqIds -> [key : Keys \cup {NoKey}, hash : Block]]
      <3> HIDE DEF NoPrefix
      <3> QED BY <1>2
    <2>3. sequences_by_request \in [Requests -> Seq(SeqIds)]
      OBVIOUS
    <2>4. prefix_index \in [Keys -> SUBSET Record]
      OBVIOUS
    <2> QED BY <2>1, <2>2, <2>3, <2>4 DEF TypeOK
  <1>6. TablesShaped
    <2>1. \A s \in SeqIds : tables[s] = NoTables /\ prefix[s] = NoPrefix /\ s \notin sequences
      OBVIOUS
    <2> HIDE DEF NoTables, NoPrefix, Init
    <2> QED BY <1>1, <1>2, <2>1, ConfigFacts, SMTT(40) DEF TablesShaped
  <1>7. RecordsShaped
    <2>1. IsFiniteSet(Records(prefix_index))
      BY <1>3, FS_EmptySet
    <2>2. \A k \in Keys : prefix_index[k] = {}
      OBVIOUS
    <2> QED BY <2>1, <2>2 DEF RecordsShaped, IndexShaped
  <1>8. RequestsListed
    <2>1. \A r \in Requests : sequences_by_request[r] = <<>>
      OBVIOUS
    <2>2. IsInjective(<<>>) /\ Range(<<>>) = {}
      BY DEF IsInjective, Range
    <2> QED BY <2>1, <2>2 DEF RequestsListed, SequencesFor
  <1>9. SlotsHeld
    <2>1. Absentees(sequences) = {}
      BY <1>4, Bridges
    <2>2. \A k \in Slots : swap[k] = NoContent
      OBVIOUS
    <2> QED BY <2>1, <2>2 DEF SlotsHeld
  <1>10. RefCountsExact
    <2>1. ASSUME NEW f \in Frames
          PROVE  ref_count[f] = Cardinality(EntriesIn(tables, sequences, f))
                             + Cardinality(PinsOn(Records(prefix_index), f))
      <3>1. PinsOn(Records(prefix_index), f) = {}
        BY <1>3 DEF PinsOn
      <3>2. Cardinality({}) = 0
        BY FS_EmptySet
      <3>3. /\ Cardinality(EntriesIn(tables, sequences, f)) = 0
            /\ Cardinality(PinsOn(Records(prefix_index), f)) = 0
        BY <1>4, <3>1, <3>2, Zenon
      <3>4. ref_count[f] = 0
        OBVIOUS
      <3> QED BY ONLY <3>3, <3>4
    <2> QED BY <2>1, CountsBridge
  <1> QED BY <1>5, <1>6, <1>7, <1>8, <1>9, <1>10 DEF Structure

LEMMA StutterKeeps ==
    ASSUME Structure, UNCHANGED cacheVars
    PROVE  /\ Structure'
           /\ RefCountsExact => RefCountsExact'
  <1>1. /\ ref_count' = ref_count /\ data' = data /\ swap' = swap /\ sequences' = sequences
        /\ request_of' = request_of /\ tables' = tables /\ prefix' = prefix
        /\ sequences_by_request' = sequences_by_request /\ prefix_index' = prefix_index
    BY DEF cacheVars
  <1>2. TypeOK'
    BY <1>1 DEF Structure, TypeOK
  <1>3. TablesShaped'
    BY <1>1 DEF Structure, TablesShaped
  <1>4. RecordsShaped'
    BY <1>1 DEF Structure, RecordsShaped, IndexShaped, Records
  <1>5. RequestsListed'
    BY <1>1, SMTT(40) DEF Structure, RequestsListed, SequencesFor
  <1>6. SlotsHeld'
    BY <1>1 DEF Structure, SlotsHeld, SlotOf, At, Absentees, SwappedOut, Mapped
  <1>7. RefCountsExact => RefCountsExact'
    BY <1>1, CountsBridge
  <1> QED BY <1>2, <1>3, <1>4, <1>5, <1>6, <1>7 DEF Structure

(* A request's sequences exist, and it lists each of them once. *)
LEMMA ListedSequences ==
    ASSUME Structure, NEW r \in Requests
    PROVE  /\ sequences_by_request[r] \in Seq(SeqIds) /\ IsInjective(sequences_by_request[r])
           /\ SequencesFor(r) \in SUBSET sequences /\ Range(sequences_by_request[r]) \subseteq sequences
  BY DEF Structure, TypeOK, RequestsListed, SequencesFor

LEMMA NextKeeps ==
    ASSUME Structure, RefCountsExact, [Next]_cacheVars
    PROVE  Structure' /\ RefCountsExact'
  <1>1. CASE UNCHANGED cacheVars
    BY <1>1, StutterKeeps
  <1>2. ASSUME NEW s \in SeqIds, NEW r \in Requests, create_sequence(s, r)
        PROVE  Structure' /\ RefCountsExact'
    BY <1>2, CreateKeeps
  <1>3. ASSUME NEW s \in SeqIds, NEW t \in SeqIds, NEW r \in Requests, fork_sequence(s, t, r)
        PROVE  Structure' /\ RefCountsExact'
    BY <1>3, ForkKeeps
  <1>4. ASSUME NEW s \in SeqIds, NEW n \in 1 .. MaxTokens, reserve_tokens(s, n)
        PROVE  Structure' /\ RefCountsExact'
    BY <1>4, ReserveKeeps
  <1>5. ASSUME NEW s \in SeqIds, NEW pos \in 0 .. MaxTokens - 1, NEW l \in Tables,
               ensure_token_writable(s, pos, l)
        PROVE  Structure' /\ RefCountsExact'
    BY <1>5, EnsureKeeps
  <1>6. ASSUME NEW s \in SeqIds, NEW pos \in 0 .. MaxTokens - 1, NEW l \in Tables,
               NEW v \in Contents, write_token(s, pos, l, v)
        PROVE  Structure' /\ RefCountsExact'
    BY <1>6, WriteKeeps
  <1>7. ASSUME NEW s \in SeqIds, swap_out_sequence(s)
        PROVE  Structure' /\ RefCountsExact'
    <2> DEFINE q == <<s>>
    <2>1. q \in Seq(SeqIds) /\ IsInjective(q) /\ Range(q) = {s}
      BY DEF IsInjective, Range
    <2>2. s \in sequences /\ swap_out(q)
      BY <1>7 DEF swap_out_sequence
    <2> HIDE DEF q
    <2>3. Range(q) \subseteq sequences
      BY <2>1, <2>2
    <2> QED BY <2>1, <2>2, <2>3, SwapOutKeeps
  <1>8. ASSUME NEW s \in SeqIds, swap_in_sequence(s)
        PROVE  Structure' /\ RefCountsExact'
    <2> DEFINE O == {s}
    <2>1. O \in SUBSET sequences /\ swap_in(O)
      BY <1>8 DEF swap_in_sequence
    <2> HIDE DEF O
    <2> QED BY <2>1, SwapInKeeps
  <1>9. ASSUME NEW s \in SeqIds, release_sequence(s)
        PROVE  Structure' /\ RefCountsExact'
    <2> DEFINE O == {s}
    <2>1. O \in SUBSET sequences /\ release(O)
      BY <1>9 DEF release_sequence
    <2> HIDE DEF O
    <2> QED BY <2>1, ReleaseKeeps
  <1>10. ASSUME NEW r \in Requests, swap_out_request(r)
         PROVE  Structure' /\ RefCountsExact'
    <2> DEFINE q == sequences_by_request[r]
    <2>1. q \in Seq(SeqIds) /\ IsInjective(q) /\ Range(q) \subseteq sequences
      BY ListedSequences
    <2>2. swap_out(q)
      BY <1>10 DEF swap_out_request
    <2> HIDE DEF q
    <2> QED BY <2>1, <2>2, SwapOutKeeps
  <1>11. ASSUME NEW r \in Requests, swap_in_request(r)
         PROVE  Structure' /\ RefCountsExact'
    <2> DEFINE S == SequencesFor(r)
    <2>1. S \in SUBSET sequences /\ swap_in(S)
      BY <1>11, ListedSequences DEF swap_in_request
    <2> HIDE DEF S
    <2> QED BY <2>1, SwapInKeeps
  <1>12. ASSUME NEW r \in Requests, release_request(r)
         PROVE  Structure' /\ RefCountsExact'
    <2> DEFINE S == SequencesFor(r)
    <2>1. S \in SUBSET sequences /\ release(S)
      BY <1>12, ListedSequences DEF release_request
    <2> HIDE DEF S
    <2> QED BY <2>1, ReleaseKeeps
  <1>13. ASSUME NEW s \in SeqIds, NEW k \in Keys, publish_prefix(s, k)
         PROVE  Structure' /\ RefCountsExact'
    BY <1>13, PublishKeeps
  <1>14. ASSUME NEW s \in SeqIds, NEW k \in Keys, attach_prefix(s, k)
         PROVE  Structure' /\ RefCountsExact'
    BY <1>14, AttachKeeps
  <1>15. CASE Next
    BY <1>2, <1>3, <1>4, <1>5, <1>6, <1>7, <1>8, <1>9, <1>10, <1>11, <1>12, <1>13, <1>14, <1>15
       DEF Next
  <1> QED BY <1>1, <1>15

(* The invariant of the cache manager: whatever the interleaving of calls,    *)
(* its tables, index, request lists and swap slots stay well formed and the   *)
(* pool's reference counts stay exact.                                        *)
THEOREM CacheInvariant ==
    Spec => [](Structure /\ RefCountsExact)
  <1>1. Init => Structure /\ RefCountsExact
    BY InitStructure
  <1>2. (Structure /\ RefCountsExact) /\ [Next]_cacheVars => (Structure /\ RefCountsExact)'
    BY NextKeeps
  <1> QED BY <1>1, <1>2, PTL DEF Spec

(* Every variable of the manager keeps its type: reference counts are never   *)
(* negative, and tables, records and request lists only hold existing things. *)
THEOREM CacheTypeCorrect ==
    Spec => []TypeOK
  <1>1. Structure => TypeOK
    BY DEF Structure
  <1> QED BY <1>1, CacheInvariant, PTL

(* A frame's reference count is the number of resident block-table entries    *)
(* and prefix pins that name it, after any sequence of forks, attachments,    *)
(* publications, copies on write, swaps and releases: no frame is freed while *)
(* something refers to it, and none is lost.                                  *)
THEOREM ReferencesExact ==
    Spec => []RefCountsExact
  BY CacheInvariant, PTL
-----------------------------------------------------------------------------
(* What Structure says about slots and about requests. *)
LEMMA StructureSlots ==
    ASSUME Structure
    PROVE  SlotsOwned
  <1> DEFINE owners(k) == {p \in Absentees(sequences) : At(p[1], p[2]).slot = k}
  <1>1. ASSUME NEW k \in Slots
        PROVE  Cardinality(owners(k)) = IF swap[k] = NoContent THEN 0 ELSE 1
    <2>1. /\ swap[k] # NoContent <=> \E p \in Absentees(sequences) : SlotOf(p) = k
          /\ \A p, q \in Absentees(sequences) : SlotOf(p) = SlotOf(q) => p = q
      BY DEF Structure, SlotsHeld
    <2>2. \A p : p \in owners(k) <=> p \in Absentees(sequences) /\ SlotOf(p) = k
      BY DEF SlotOf
    <2> HIDE DEF owners
    <2>3. CASE swap[k] = NoContent
      <3>1. owners(k) = {}
        BY <2>1, <2>2, <2>3
      <3> QED BY <2>3, <3>1, FS_EmptySet
    <2>4. CASE swap[k] # NoContent
      <3>1. PICK p \in owners(k) : TRUE
        BY <2>1, <2>2, <2>4
      <3>2. owners(k) = {p}
        BY <2>1, <2>2, <3>1
      <3> QED BY <2>4, <3>2, SingletonCount
    <2> QED BY <2>3, <2>4
  <1> QED BY <1>1 DEF SlotsOwned

LEMMA StructureRequests ==
    ASSUME Structure
    PROVE  RequestIndexExact
  <1>1. ASSUME NEW r \in Requests
        PROVE  Len(sequences_by_request[r]) = Cardinality(SequencesFor(r))
    <2> DEFINE q == sequences_by_request[r]
               n == Len(q)
               h == [i \in 1 .. n |-> q[i]]
    <2>1. q \in Seq(SeqIds) /\ IsInjective(q)
      BY ListedSequences
    <2>2. SequencesFor(r) = Range(q)
      BY DEF SequencesFor
    <2> HIDE DEF q
    <2>3. n \in Nat /\ DOMAIN q = 1 .. n
      BY <2>1
    <2>4. /\ \A i \in 1 .. n : q[i] \in Range(q)
          /\ \A x \in Range(q) : \E i \in 1 .. n : q[i] = x
          /\ \A i, j \in 1 .. n : q[i] = q[j] => i = j
      BY <2>1, <2>3 DEF Range, IsInjective
    <2> DEFINE A == 1 .. n
               B == Range(q)
    <2>5. /\ h \in [A -> B]
          /\ \A x, y \in A : h[x] = h[y] => x = y
          /\ \A b \in B : \E x \in A : h[x] = b
      BY <2>4
    <2>6. IsFiniteSet(A) /\ Cardinality(A) = n
      <3>1. 1 \in Int /\ n \in Int /\ (IF 1 <= n THEN n - 1 + 1 ELSE 0) = n  BY <2>3
      <3> HIDE DEF n
      <3>2. IsFiniteSet(1 .. n) /\ Cardinality(1 .. n) = IF 1 <= n THEN n - 1 + 1 ELSE 0
        BY <3>1, FS_Interval
      <3> QED BY <3>1, <3>2
    <2> HIDE DEF A, B, h, n
    <2>7. Cardinality(B) = Cardinality(A)
      BY ONLY <2>5, <2>6, SameCount
    <2>8. Cardinality(B) = n
      BY <2>6, <2>7
    <2> QED BY <2>2, <2>8 DEF B, n, q
  <1> QED BY <1>1 DEF Structure, RequestsListed, RequestIndexExact

(* A swap slot in use belongs to one swapped-out block and every swapped-out  *)
(* block has one: swap_out_sequence never stores two blocks in a slot, and    *)
(* swap_in_sequence and release_sequence give back every slot they empty.     *)
THEOREM SlotsExact ==
    Spec => []SlotsOwned
  <1>1. Structure => SlotsOwned
    BY StructureSlots
  <1> QED BY <1>1, CacheInvariant, PTL

(* A request's list has its sequences, each once, so that swapping out, in,   *)
(* or releasing a request reaches all of them: index_sequence and             *)
(* unindex_sequence keep the two maps in step.                                *)
THEOREM RequestsExact ==
    Spec => []RequestIndexExact
  <1>1. Structure => RequestIndexExact
    BY StructureRequests
  <1> QED BY <1>1, CacheInvariant, PTL
-----------------------------------------------------------------------------
(* The users of prefix records, when a sequence publishes under one key only  *)
(* (~Rekeying).  Holders are the sequences that joined the record of key k    *)
(* with contents h; prefixes, sequences and index are parameters.             *)
Holders(P, S, k, h) == {s \in S : P[s] = [key |-> k, hash |-> h]}

UsersExact(P, S, index) ==
    /\ \A k \in Keys : \A rec \in index[k] :
          rec.users = Cardinality(Holders(P, S, k, rec.hash)) /\ rec.users > 0
    /\ \A s \in S : P[s].key # NoKey => \E rec \in index[P[s].key] : rec.hash = P[s].hash

PrefixFields == [SeqIds -> [key : Keys \cup {NoKey}, hash : Block]]

LEMMA UsersBridge ==
    /\ PrefixUsersExact <=> UsersExact(prefix, sequences, prefix_index)
    /\ PrefixUsersExact' <=> UsersExact(prefix', sequences', prefix_index')
  BY DEF PrefixUsersExact, UsersExact, Leaving, Holders

LEMMA HoldersFinite ==
    ASSUME NEW P, NEW S \in SUBSET SeqIds, NEW k, NEW h
    PROVE  IsFiniteSet(Holders(P, S, k, h)) /\ Cardinality(Holders(P, S, k, h)) \in Nat
  <1>1. IsFiniteSet(SeqIds) /\ Holders(P, S, k, h) \subseteq SeqIds
    BY ManagerConfig DEF Holders
  <1>2. IsFiniteSet(Holders(P, S, k, h))
    BY <1>1, FS_Subset
  <1> QED BY <1>2, FS_CardinalityType

(* A sequence without a prefix that appears changes nothing. *)
Appears(P, S, R, s) == P \in PrefixFields /\ R = S \cup {s} /\ P[s].key = NoKey

LEMMA AppearsUsers ==
    ASSUME NEW P, NEW S, NEW R, NEW s, Appears(P, S, R, s), NEW index, UsersExact(P, S, index)
    PROVE  UsersExact(P, R, index)
  <1> USE DEF Appears
  <1>1. \A k \in Keys : \A h : Holders(P, R, k, h) = Holders(P, S, k, h)
    <2>1. ASSUME NEW k \in Keys, NEW h, P[s] = [key |-> k, hash |-> h] PROVE FALSE
      <3>1. P[s].key = k
        BY <2>1
      <3> QED BY <3>1, ManagerConfig
    <2> QED BY <2>1 DEF Holders
  <1>2. \A t \in R : P[t].key # NoKey => t \in S
    OBVIOUS
  <1> QED BY <1>1, <1>2 DEF UsersExact

(* Sequence s, which had no prefix, takes the one of key k and contents h. *)
Takes(P, Q, S, s, k, h) ==
    /\ P \in PrefixFields /\ S \in SUBSET SeqIds /\ s \in S /\ k \in Keys
    /\ P[s].key = NoKey /\ Q = [P EXCEPT ![s] = [key |-> k, hash |-> h]]

LEMMA TakesHolders ==
    ASSUME NEW P, NEW Q, NEW S, NEW s, NEW k, NEW h, Takes(P, Q, S, s, k, h)
    PROVE  /\ Q[s].key = k /\ Q[s].hash = h
           /\ \A t \in S : t # s => Q[t] = P[t]
           /\ Holders(Q, S, k, h) = Holders(P, S, k, h) \cup {s}
           /\ s \notin Holders(P, S, k, h)
           /\ \A j \in Keys : \A g : j # k \/ g # h => Holders(Q, S, j, g) = Holders(P, S, j, g)
           /\ Cardinality(Holders(Q, S, k, h)) = Cardinality(Holders(P, S, k, h)) + 1
           /\ Cardinality(Holders(P, S, k, h)) \in Nat
  <1> USE DEF Takes
  <1>1. /\ Q[s] = [key |-> k, hash |-> h] /\ Q[s].key = k /\ Q[s].hash = h
        /\ \A t \in S : t # s => Q[t] = P[t]
    BY DEF PrefixFields
  <1>2. \A j \in Keys : \A g : P[s] # [key |-> j, hash |-> g]
    <2>1. ASSUME NEW j \in Keys, NEW g, P[s] = [key |-> j, hash |-> g] PROVE FALSE
      <3>1. P[s].key = j
        BY <2>1
      <3> QED BY <3>1, ManagerConfig
    <2> QED BY <2>1
  <1>3. \A j \in Keys : \A g : j # k \/ g # h => Q[s] # [key |-> j, hash |-> g]
    <2>1. ASSUME NEW j \in Keys, NEW g, Q[s] = [key |-> j, hash |-> g] PROVE j = k /\ g = h
      <3>1. Q[s].key = j /\ Q[s].hash = g
        BY <2>1
      <3> QED BY <1>1, <3>1
    <2> QED BY <2>1
  <1>4. s \in S
    OBVIOUS
  <1>5. Holders(Q, S, k, h) = Holders(P, S, k, h) \cup {s} /\ s \notin Holders(P, S, k, h)
    BY <1>1, <1>2 DEF Holders
  <1>6. \A j \in Keys : \A g : j # k \/ g # h => Holders(Q, S, j, g) = Holders(P, S, j, g)
    <2>1. ASSUME NEW j \in Keys, NEW g, j # k \/ g # h, NEW t \in S
          PROVE  Q[t] = [key |-> j, hash |-> g] <=> P[t] = [key |-> j, hash |-> g]
      <3>1. CASE t = s
        BY <1>2, <1>3, <2>1, <3>1
      <3>2. CASE t # s
        BY <1>1, <3>2
      <3> QED BY <3>1, <3>2
    <2> QED BY <2>1 DEF Holders
  <1> DEFINE A == Holders(P, S, k, h)
  <1>7. IsFiniteSet(A) /\ Cardinality(A) \in Nat
    BY HoldersFinite
  <1> HIDE DEF A
  <1>8. Cardinality(A \cup {s}) = Cardinality(A) + 1
    BY <1>5, <1>7, FS_AddElement DEF A
  <1> QED BY <1>1, <1>5, <1>6, <1>7, <1>8 DEF A

(* It joins a record: the record has one user more. *)
LEMMA JoinedUsers ==
    ASSUME NEW P, NEW Q, NEW S, NEW s, NEW k, NEW rec, NEW h, h = rec.hash, Takes(P, Q, S, s, k, h),
           NEW index \in [Keys -> SUBSET Record], IndexShaped(index), UsersExact(P, S, index),
           NEW new, OneJoined(index, new, k, rec)
    PROVE  UsersExact(Q, S, new)
  <1> USE DEF OneJoined
  <1> DEFINE up == Joined(rec)
  <1>1. rec \in Record /\ rec.users \in Nat /\ up.users = rec.users + 1 /\ up.hash = h
    <2>1. rec \in Record
      OBVIOUS
    <2>2. rec.users \in Nat
      BY <2>1 DEF Record
    <2>3. up = [rec EXCEPT !.users = rec.users + 1]
      BY DEF Joined
    <2> HIDE DEF up
    <2>4. up.users = rec.users + 1 /\ up.hash = rec.hash
      BY <2>1, <2>2, <2>3, RecordFields
    <2> QED BY <2>1, <2>2, <2>4
  <1> HIDE DEF up
  <1>2. /\ new[k] = (index[k] \ {rec}) \cup {up}
        /\ \A j \in Keys : j # k => new[j] = index[j]
    BY DEF up
  <1>3. /\ Q[s].key = k /\ Q[s].hash = h
        /\ \A t \in S : t # s => Q[t] = P[t]
        /\ \A j \in Keys : \A g : j # k \/ g # h => Holders(Q, S, j, g) = Holders(P, S, j, g)
        /\ Cardinality(Holders(Q, S, k, h)) = Cardinality(Holders(P, S, k, h)) + 1
        /\ Cardinality(Holders(P, S, k, h)) \in Nat
    BY TakesHolders
  <1>4. ASSUME NEW j \in Keys, NEW r \in new[j]
        PROVE  r.users = Cardinality(Holders(Q, S, j, r.hash)) /\ r.users > 0
    <2>1. CASE j = k /\ r = up
      <3>1. rec.users = Cardinality(Holders(P, S, k, h))
        BY DEF UsersExact
      <3>2. r.users = Cardinality(Holders(Q, S, k, h)) /\ r.users > 0
        BY <1>1, <1>3, <2>1, <3>1
      <3> QED BY <1>1, <2>1, <3>2
    <2>2. CASE ~(j = k /\ r = up)
      <3>1. r \in index[j] /\ (j # k \/ r # rec)
        BY <1>2, <2>2
      <3>2. j # k \/ r.hash # h
        BY <3>1 DEF IndexShaped
      <3> QED BY <1>3, <3>1, <3>2 DEF UsersExact
    <2> QED BY <2>1, <2>2
  <1>5. ASSUME NEW t \in S, Q[t].key # NoKey
        PROVE  \E r \in new[Q[t].key] : r.hash = Q[t].hash
    <2>1. CASE t = s
      BY <1>1, <1>2, <1>3, <2>1
    <2>2. CASE t # s
      <3>1. Q[t] = P[t] /\ P[t].key \in Keys
        BY <1>3, <1>5, <2>2 DEF Takes, PrefixFields
      <3>2. PICK r \in index[P[t].key] : r.hash = P[t].hash
        BY <1>5, <3>1 DEF UsersExact
      <3>3. CASE P[t].key = k /\ r = rec
        BY <1>1, <1>2, <3>1, <3>2, <3>3
      <3>4. CASE ~(P[t].key = k /\ r = rec)
        <4>1. r \in new[P[t].key]
          BY <1>2, <3>1, <3>2, <3>4
        <4> QED BY <3>1, <3>2, <4>1
      <3> QED BY <3>3, <3>4
    <2> QED BY <2>1, <2>2
  <1> QED BY <1>4, <1>5 DEF UsersExact

(* It publishes a new record: it is the record's only user. *)
LEMMA PublishedUsers ==
    ASSUME NEW P, NEW Q, NEW S, NEW s, NEW k, NEW rec, NEW h, h = rec.hash, Takes(P, Q, S, s, k, h),
           NEW index \in [Keys -> SUBSET Record], UsersExact(P, S, index),
           NEW new, NEW X, NewRecord(index, new, k, rec, X), rec.users = 1
    PROVE  UsersExact(Q, S, new)
  <1>0. /\ k \in Keys /\ \A r \in index[k] : r.hash # h
        /\ new = [index EXCEPT ![k] = index[k] \cup {rec}]
    BY DEF NewRecord
  <1>2. /\ new[k] = index[k] \cup {rec}
        /\ \A j \in Keys : j # k => new[j] = index[j]
    BY <1>0
  <1>3. /\ Q[s].key = k /\ Q[s].hash = h
        /\ \A t \in S : t # s => Q[t] = P[t]
        /\ Holders(Q, S, k, h) = Holders(P, S, k, h) \cup {s}
        /\ \A j \in Keys : \A g : j # k \/ g # h => Holders(Q, S, j, g) = Holders(P, S, j, g)
    BY TakesHolders
  <1>4. Holders(P, S, k, h) = {}
    <2>1. ASSUME NEW t \in Holders(P, S, k, h) PROVE FALSE
      <3>1. t \in S /\ P[t] = [key |-> k, hash |-> h]
        BY DEF Holders
      <3>2. P[t].key = k /\ P[t].hash = h /\ k # NoKey
        BY <1>0, <3>1, ManagerConfig
      <3> QED BY <1>0, <3>1, <3>2 DEF UsersExact
    <2> QED BY <2>1
  <1>5. ASSUME NEW j \in Keys, NEW r \in new[j]
        PROVE  r.users = Cardinality(Holders(Q, S, j, r.hash)) /\ r.users > 0
    <2>1. CASE j = k /\ r = rec
      <3>1. Holders(Q, S, k, h) = {s}
        BY <1>3, <1>4
      <3>2. Cardinality(Holders(Q, S, k, h)) = 1
        BY <3>1, SingletonCount
      <3> QED BY <2>1, <3>2
    <2>2. CASE ~(j = k /\ r = rec)
      <3>1. r \in index[j] /\ (j # k \/ r.hash # h)
        BY <1>0, <1>2, <2>2
      <3> QED BY <1>3, <3>1 DEF UsersExact
    <2> QED BY <2>1, <2>2
  <1>6. ASSUME NEW t \in S, Q[t].key # NoKey
        PROVE  \E r \in new[Q[t].key] : r.hash = Q[t].hash
    <2>1. CASE t = s
      BY <1>2, <1>3, <2>1
    <2>2. CASE t # s
      <3>1. Q[t] = P[t] /\ P[t].key \in Keys
        BY <1>3, <1>6, <2>2 DEF Takes, PrefixFields
      <3>2. PICK r \in index[P[t].key] : r.hash = P[t].hash
        BY <1>6, <3>1 DEF UsersExact
      <3>3. r \in new[P[t].key]
        BY <1>2, <3>1, <3>2
      <3> QED BY <3>1, <3>2, <3>3
    <2> QED BY <2>1, <2>2
  <1> QED BY <1>5, <1>6 DEF UsersExact

(* The sequences of S leave: each record loses those that used it, and goes   *)
(* when they were all.                                                        *)
LEMMA ReleasedUsers ==
    ASSUME Structure, PrefixUsersExact, NEW S \in SUBSET sequences, release(S)
    PROVE  PrefixUsersExact'
  <1>1. /\ prefix_index' = IndexWithout(S) /\ sequences' = sequences \ S
        /\ prefix' = [s \in SeqIds |-> IF s \in S THEN NoPrefix ELSE prefix[s]]
        /\ sequences \in SUBSET SeqIds /\ prefix \in PrefixFields
        /\ prefix_index \in [Keys -> SUBSET Record]
    BY DEF release, Structure, TypeOK, PrefixFields
  <1>2. UsersExact(prefix, sequences, prefix_index)
    BY UsersBridge
  <1> DEFINE old(k, h) == Holders(prefix, sequences, k, h)
             out(k, h) == Holders(prefix, S, k, h)
  <1>3. ASSUME NEW k, NEW h
        PROVE  /\ Holders(prefix', sequences', k, h) = old(k, h) \ out(k, h)
               /\ Cardinality(old(k, h)) \in Nat /\ Cardinality(out(k, h)) \in Nat
               /\ Cardinality(out(k, h)) <= Cardinality(old(k, h))
               /\ Cardinality(old(k, h) \ out(k, h)) = Cardinality(old(k, h)) - Cardinality(out(k, h))
               /\ IsFiniteSet(old(k, h) \ out(k, h))
    <2>1. \A t \in sequences' : prefix'[t] = prefix[t] /\ t \in sequences /\ t \notin S
      BY <1>1
    <2>2. Holders(prefix', sequences', k, h) = old(k, h) \ out(k, h)
      BY <1>1, <2>1 DEF Holders
    <2>3. out(k, h) \subseteq old(k, h)
      BY DEF Holders
    <2>4. IsFiniteSet(old(k, h))
      BY <1>1, HoldersFinite
    <2> HIDE DEF old, out
    <2>5. /\ Cardinality(old(k, h)) \in Nat /\ Cardinality(out(k, h)) \in Nat
          /\ Cardinality(out(k, h)) <= Cardinality(old(k, h))
          /\ Cardinality(old(k, h) \ out(k, h)) = Cardinality(old(k, h)) - Cardinality(out(k, h))
          /\ IsFiniteSet(old(k, h) \ out(k, h))
      BY <2>3, <2>4, RestCount
    <2> QED BY <2>2, <2>5
  <1>4. \A k, rec : Leaving(S, k, rec) = Cardinality(out(k, rec.hash))
    BY DEF Leaving, Holders
  <1> HIDE DEF old, out
  <1>5. ASSUME NEW k \in Keys, NEW rec \in prefix_index[k]
        PROVE  /\ rec \in Record /\ rec.users = Cardinality(old(k, rec.hash)) /\ rec.users > 0
               /\ <<k, rec>> \in Dropped(S) <=> /\ Cardinality(out(k, rec.hash)) > 0
                                               /\ rec.users <= Cardinality(out(k, rec.hash))
    <2>1. <<k, rec>> \in Records(prefix_index)
      BY RecordsAre
    <2>2. <<k, rec>> \in Dropped(S) <=> /\ Leaving(S, k, rec) > 0
                                       /\ rec.users <= Leaving(S, k, rec)
      BY <2>1 DEF Dropped
    <2> QED BY <1>1, <1>2, <1>4, <2>2 DEF UsersExact, old
  <1> DEFINE less(k, rec) == [rec EXCEPT !.users = @ - Leaving(S, k, rec)]
  <1>6. \A k \in Keys : prefix_index'[k] = {less(k, rec) : rec \in {r \in prefix_index[k] : <<k, r>> \notin Dropped(S)}}
    BY <1>1 DEF IndexWithout
  <1>7. ASSUME NEW k \in Keys, NEW rec \in prefix_index[k], <<k, rec>> \notin Dropped(S)
        PROVE  /\ less(k, rec).hash = rec.hash
               /\ less(k, rec).users = Cardinality(old(k, rec.hash)) - Cardinality(out(k, rec.hash))
               /\ less(k, rec).users > 0
    <2>1. /\ rec \in Record /\ rec.users = Cardinality(old(k, rec.hash)) /\ rec.users > 0
          /\ ~(Cardinality(out(k, rec.hash)) > 0 /\ rec.users <= Cardinality(out(k, rec.hash)))
      BY <1>5, <1>7
    <2> DEFINE n == rec.users - Leaving(S, k, rec)
    <2>2. Cardinality(old(k, rec.hash)) \in Nat /\ Cardinality(out(k, rec.hash)) \in Nat
      BY <1>3
    <2>3. /\ n = Cardinality(old(k, rec.hash)) - Cardinality(out(k, rec.hash)) /\ n > 0 /\ n \in Nat
      BY <1>4, <2>1, <2>2
    <2>4. less(k, rec) = [rec EXCEPT !.users = n]
      OBVIOUS
    <2> HIDE DEF n
    <2>5. [rec EXCEPT !.users = n].hash = rec.hash /\ [rec EXCEPT !.users = n].users = n
      BY <2>1, <2>3, RecordFields
    <2> HIDE DEF less
    <2> QED BY <2>3, <2>4, <2>5
  <1> HIDE DEF less
  <1>8. ASSUME NEW k \in Keys, NEW r \in prefix_index'[k]
        PROVE  r.users = Cardinality(Holders(prefix', sequences', k, r.hash)) /\ r.users > 0
    <2>1. PICK rec \in prefix_index[k] : r = less(k, rec) /\ <<k, rec>> \notin Dropped(S)
      BY <1>6
    <2>2. /\ r.hash = rec.hash /\ r.users > 0
          /\ r.users = Cardinality(old(k, rec.hash)) - Cardinality(out(k, rec.hash))
      BY <1>7, <2>1
    <2>3. Cardinality(Holders(prefix', sequences', k, rec.hash))
            = Cardinality(old(k, rec.hash)) - Cardinality(out(k, rec.hash))
      BY <1>3
    <2> QED BY <2>2, <2>3
  <1>9. ASSUME NEW t \in sequences', prefix'[t].key # NoKey
        PROVE  \E r \in prefix_index'[prefix'[t].key] : r.hash = prefix'[t].hash
    <2> DEFINE k == prefix[t].key
               h == prefix[t].hash
    <2>1. t \in sequences /\ t \notin S /\ t \in SeqIds /\ prefix'[t] = prefix[t]
      BY <1>1
    <2>2. k \in Keys /\ prefix[t] = [key |-> k, hash |-> h]
      BY <1>1, <1>9, <2>1 DEF PrefixFields
    <2>3. PICK rec \in prefix_index[k] : rec.hash = h
      BY <1>2, <1>9, <2>1 DEF UsersExact
    <2>4. t \in old(k, h) \ out(k, h)
      BY <2>1, <2>2 DEF old, out, Holders
    <2> HIDE DEF k, h
    <2>5. Cardinality(old(k, h)) - Cardinality(out(k, h)) # 0
      <3>1. /\ IsFiniteSet(old(k, h) \ out(k, h))
            /\ Cardinality(old(k, h) \ out(k, h)) = Cardinality(old(k, h)) - Cardinality(out(k, h))
        BY <1>3
      <3> DEFINE A == old(k, h) \ out(k, h)
      <3>2. A # {} /\ IsFiniteSet(A)
        BY <2>4, <3>1
      <3>3. Cardinality(A) # 0
        <4> HIDE DEF A
        <4> QED BY <3>2, SmallCount
      <3> QED BY <3>1, <3>3
    <2>6. <<k, rec>> \notin Dropped(S)
      <3>1. /\ Cardinality(old(k, h)) \in Nat /\ Cardinality(out(k, h)) \in Nat
            /\ Cardinality(out(k, h)) <= Cardinality(old(k, h))
        BY <1>3
      <3>2. /\ rec.users = Cardinality(old(k, h))
            /\ <<k, rec>> \in Dropped(S) => rec.users <= Cardinality(out(k, h))
        BY <1>5, <2>2, <2>3
      <3> QED BY <2>5, <3>1, <3>2
    <2>7. less(k, rec) \in prefix_index'[k] /\ less(k, rec).hash = h
      BY <1>6, <1>7, <2>2, <2>3, <2>6
    <2> QED BY <2>1, <2>7 DEF k, h
  <1>10. UsersExact(prefix', sequences', prefix_index')
    BY <1>8, <1>9 DEF UsersExact
  <1> QED BY <1>10, UsersBridge

(* A step that leaves sequences, prefixes and records alone. *)
LEMMA UsersUntouched ==
    ASSUME PrefixUsersExact, sequences' = sequences, prefix' = prefix, prefix_index' = prefix_index
    PROVE  PrefixUsersExact'
  BY UsersBridge

(* A new sequence has no prefix. *)
LEMMA UsersOfNew ==
    ASSUME Structure, PrefixUsersExact, NEW s \in SeqIds, s \notin sequences,
           sequences' = sequences \cup {s}, prefix' = prefix, prefix_index' = prefix_index
    PROVE  PrefixUsersExact'
  <1>1. Appears(prefix, sequences, sequences', s)
    <2>1. prefix \in PrefixFields
      BY DEF Structure, TypeOK, PrefixFields
    <2>2. prefix[s] = NoPrefix
      BY DEF Structure, TablesShaped
    <2>3. prefix[s].key = NoKey
      BY <2>2 DEF NoPrefix
    <2> QED BY <2>1, <2>3 DEF Appears
  <1>2. UsersExact(prefix, sequences, prefix_index)
    BY UsersBridge
  <1>3. UsersExact(prefix, sequences', prefix_index)
    BY ONLY <1>1, <1>2, AppearsUsers
  <1> QED BY <1>3, UsersBridge

LEMMA UsersOfPublish ==
    ASSUME Structure, PrefixUsersExact, ~Rekeying,
           NEW s \in SeqIds, NEW k \in Keys, publish_prefix(s, k)
    PROVE  PrefixUsersExact'
  <1> DEFINE hash == ContentOf(s)
             same == {rec \in prefix_index[k] : rec.hash = hash}
             new == [hash |-> hash, ids |-> Ids(s), users |-> 1]
             X == {<<k, new>>}
  <1>1. /\ s \in sequences /\ Len(tables[s][1]) > 0 /\ SwappedOut(s) = {}
        /\ prefix' = [prefix EXCEPT ![s] = [key |-> k, hash |-> hash]]
        /\ prefix[s].key = NoKey /\ sequences' = sequences
    BY DEF publish_prefix
  <1>2. \/ /\ same # {}
           /\ prefix_index' = [prefix_index EXCEPT ![k] = (prefix_index[k] \ same) \cup {Joined(rec) : rec \in same}]
        \/ /\ same = {}
           /\ prefix_index' = [prefix_index EXCEPT ![k] = prefix_index[k] \cup {new}]
    BY DEF publish_prefix
  <1>3. /\ prefix_index \in [Keys -> SUBSET Record] /\ IndexShaped(prefix_index)
        /\ prefix \in PrefixFields /\ sequences \in SUBSET SeqIds
        /\ UsersExact(prefix, sequences, prefix_index)
    BY UsersBridge DEF Structure, TypeOK, RecordsShaped, PrefixFields
  <1>4. new.hash = hash /\ new.users = 1
    OBVIOUS
  <1>5. /\ hash \in Block /\ Ids(s) \in [Tables -> Seq(Frames)]
        /\ \A l \in Tables : Len(Ids(s)[l]) = Len(tables[s][l])
    BY <1>1, ResidentSequence DEF Structure
  <1>6. new \in Record /\ new.ids = Ids(s)
    BY <1>5 DEF Record
  <1> HIDE DEF hash, new
  <1>7. Takes(prefix, prefix', sequences, s, k, hash)
    BY <1>1, <1>3 DEF Takes
  <1>8. CASE same # {}
    <2>1. PICK rec \in same : TRUE
      BY <1>8
    <2>2. rec \in prefix_index[k] /\ hash = rec.hash
      OBVIOUS
    <2>3. same = {rec}
      BY <1>3, <2>2 DEF IndexShaped
    <2>4. OneJoined(prefix_index, prefix_index', k, rec)
      <3> HIDE DEF same
      <3>1. (prefix_index[k] \ same) \cup {Joined(r) : r \in same} = (prefix_index[k] \ {rec}) \cup {Joined(rec)}
        BY <2>3
      <3> QED BY <1>2, <1>8, <2>2, <3>1 DEF OneJoined
    <2>5. UsersExact(prefix', sequences, prefix_index')
      BY ONLY <1>3, <1>7, <2>2, <2>4, JoinedUsers
    <2> QED BY <1>1, <2>5, UsersBridge
  <1>9. CASE same = {}
    <2>1. /\ Len(Ids(s)[1]) \in 1 .. MaxBlocks
          /\ \A l \in Tables : Len(Ids(s)[l]) = Len(Ids(s)[1])
      <3>1. /\ Even(tables) /\ 1 \in Tables /\ MaxBlocks \in Nat
            /\ \A l \in Tables : Len(tables[s][l]) \in Nat
        BY TablesFacts, ConfigFacts DEF Structure
      <3>2. /\ Len(tables[s][1]) \in Nat /\ Len(tables[s][1]) <= MaxBlocks
            /\ \A l \in Tables : Len(tables[s][l]) = Len(tables[s][1])
        BY <3>1 DEF Even
      <3> QED BY <1>1, <1>5, <3>1, <3>2, SMTT(40)
    <2>2. \A r \in prefix_index[k] : r.hash # new.hash
      BY <1>4, <1>9
    <2>3. NewRecord(prefix_index, prefix_index', k, new, X)
      <3> HIDE DEF same
      <3> QED BY <1>2, <1>6, <1>9, <2>1, <2>2 DEF NewRecord
    <2> HIDE DEF X
    <2>4. UsersExact(prefix', sequences, prefix_index')
      BY ONLY <1>3, <1>4, <1>7, <2>3, PublishedUsers
    <2> QED BY <1>1, <2>4, UsersBridge
  <1> QED BY <1>8, <1>9

LEMMA UsersOfAttach ==
    ASSUME Structure, PrefixUsersExact, NEW s \in SeqIds, NEW k \in Keys, attach_prefix(s, k)
    PROVE  PrefixUsersExact'
  <1>1. PICK rec \in prefix_index[k] :
          /\ prefix_index[k] = {rec}
          /\ prefix_index' = [prefix_index EXCEPT ![k] = {Joined(rec)}]
          /\ prefix' = [prefix EXCEPT ![s] = [key |-> k, hash |-> rec.hash]]
    BY DEF attach_prefix
  <1>2. s \in sequences /\ Len(tables[s][1]) = 0 /\ sequences' = sequences
    BY DEF attach_prefix
  <1>3. /\ prefix_index \in [Keys -> SUBSET Record] /\ IndexShaped(prefix_index)
        /\ prefix \in PrefixFields /\ sequences \in SUBSET SeqIds
        /\ UsersExact(prefix, sequences, prefix_index)
    BY UsersBridge DEF Structure, TypeOK, RecordsShaped, PrefixFields
  <1>4. prefix[s].key = NoKey
    BY <1>2 DEF Structure, TablesShaped
  <1> DEFINE h == rec.hash
  <1>5. Takes(prefix, prefix', sequences, s, k, h)
    BY <1>1, <1>2, <1>3, <1>4 DEF Takes
  <1>6. OneJoined(prefix_index, prefix_index', k, rec)
    <2>1. (prefix_index[k] \ {rec}) \cup {Joined(rec)} = {Joined(rec)}
      BY <1>1
    <2> QED BY <1>1, <2>1 DEF OneJoined
  <1>7. h = rec.hash
    OBVIOUS
  <1> HIDE DEF h
  <1>8. UsersExact(prefix', sequences, prefix_index')
    BY ONLY <1>3, <1>5, <1>6, <1>7, JoinedUsers
  <1> QED BY <1>2, <1>8, UsersBridge

LEMMA NextKeepsUsers ==
    ASSUME Structure, PrefixUsersExact, ~Rekeying, [Next]_cacheVars
    PROVE  PrefixUsersExact'
  <1>1. CASE UNCHANGED cacheVars
    BY <1>1, UsersUntouched DEF cacheVars
  <1>2. ASSUME NEW s \in SeqIds, NEW r \in Requests, create_sequence(s, r)
        PROVE  PrefixUsersExact'
    BY <1>2, UsersOfNew DEF create_sequence, Index
  <1>3. ASSUME NEW s \in SeqIds, NEW t \in SeqIds, NEW r \in Requests, fork_sequence(s, t, r)
        PROVE  PrefixUsersExact'
    BY <1>3, UsersOfNew DEF fork_sequence, Index
  <1>4. ASSUME NEW s \in SeqIds, NEW n \in 1 .. MaxTokens, reserve_tokens(s, n)
        PROVE  PrefixUsersExact'
    BY <1>4, UsersUntouched DEF reserve_tokens
  <1>5. ASSUME NEW s \in SeqIds, NEW pos \in 0 .. MaxTokens - 1, NEW l \in Tables,
               ensure_token_writable(s, pos, l)
        PROVE  PrefixUsersExact'
    BY <1>5, UsersUntouched DEF ensure_token_writable
  <1>6. ASSUME NEW s \in SeqIds, NEW pos \in 0 .. MaxTokens - 1, NEW l \in Tables,
               NEW v \in Contents, write_token(s, pos, l, v)
        PROVE  PrefixUsersExact'
    BY <1>6, UsersUntouched DEF write_token
  <1>7. ASSUME NEW q, swap_out(q)
        PROVE  PrefixUsersExact'
    BY <1>7, UsersUntouched DEF swap_out
  <1>8. ASSUME NEW S, swap_in(S)
        PROVE  PrefixUsersExact'
    BY <1>8, UsersUntouched DEF swap_in
  <1>9. ASSUME NEW s \in SeqIds, release_sequence(s)
        PROVE  PrefixUsersExact'
    <2> DEFINE O == {s}
    <2>1. O \in SUBSET sequences /\ release(O)
      BY <1>9 DEF release_sequence
    <2> HIDE DEF O
    <2> QED BY <2>1, ReleasedUsers
  <1>10. ASSUME NEW r \in Requests, release_request(r)
         PROVE  PrefixUsersExact'
    <2> DEFINE S == SequencesFor(r)
    <2>1. S \in SUBSET sequences /\ release(S)
      BY <1>10, ListedSequences DEF release_request
    <2> HIDE DEF S
    <2> QED BY <2>1, ReleasedUsers
  <1>11. ASSUME NEW s \in SeqIds, NEW k \in Keys, publish_prefix(s, k)
         PROVE  PrefixUsersExact'
    BY <1>11, UsersOfPublish
  <1>12. ASSUME NEW s \in SeqIds, NEW k \in Keys, attach_prefix(s, k)
         PROVE  PrefixUsersExact'
    BY <1>12, UsersOfAttach
  <1>13. ASSUME NEW s \in SeqIds, swap_out_sequence(s) \/ swap_in_sequence(s)
         PROVE  PrefixUsersExact'
    BY <1>7, <1>8, <1>13 DEF swap_out_sequence, swap_in_sequence
  <1>14. ASSUME NEW r \in Requests, swap_out_request(r) \/ swap_in_request(r)
         PROVE  PrefixUsersExact'
    BY <1>7, <1>8, <1>14 DEF swap_out_request, swap_in_request
  <1>15. CASE Next
    BY <1>2, <1>3, <1>4, <1>5, <1>6, <1>9, <1>10, <1>11, <1>12, <1>13, <1>14, <1>15
       DEF Next
  <1> QED BY <1>1, <1>15

LEMMA InitUsers ==
    ASSUME Init
    PROVE  PrefixUsersExact
  <1>1. sequences = {} /\ \A k \in Keys : prefix_index[k] = {}
    BY DEF Init
  <1> QED BY <1>1 DEF PrefixUsersExact

(* When no sequence publishes under a second key, a record's users are the    *)
(* sequences that published or attached it, there is at least one, and every  *)
(* prefix a sequence carries still has its record: drop_prefix_user removes a *)
(* record exactly when its last user is released.                             *)
THEOREM PrefixUsersCounted ==
    ASSUME ~Rekeying
    PROVE  Spec => []PrefixUsersExact
  <1>1. Init => PrefixUsersExact
    BY InitUsers
  <1>2. Structure /\ PrefixUsersExact /\ [Next]_cacheVars => PrefixUsersExact'
    BY NextKeepsUsers
  <1> QED BY <1>1, <1>2, CacheInvariant, PTL DEF Spec

(* When no sequence publishes under a second key, releasing every sequence    *)
(* frees every frame and every swap slot; MCRekeying shows that a sequence    *)
(* that publishes again leaves a record nobody drops.                         *)
THEOREM NothingLeaks ==
    ASSUME ~Rekeying
    PROVE  Spec => []NoLeak
  <1>1. Structure /\ RefCountsExact /\ PrefixUsersExact => NoLeak
    <2>1. SUFFICES ASSUME Structure, RefCountsExact, PrefixUsersExact, sequences = {}
                   PROVE  FreeFrames(ref_count) = Frames /\ FreeSlots = Slots
      BY DEF NoLeak
    <2>2. Records(prefix_index) = {}
      <3>1. ASSUME NEW k \in Keys, NEW rec \in prefix_index[k] PROVE FALSE
        <4>1. rec.users = Leaving(sequences, k, rec) /\ rec.users > 0
          BY <2>1 DEF PrefixUsersExact
        <4>2. Leaving(sequences, k, rec) = Cardinality({})
          BY <2>1 DEF Leaving
        <4>3. Cardinality({}) = 0
          BY FS_EmptySet
        <4> QED BY <4>1, <4>2, <4>3
      <3> QED BY <3>1, RecordsAre
    <2>3. Absentees(sequences) = {} /\ \A f : EntriesOn(sequences, f) = {}
      BY <2>1 DEF Absentees, EntriesOn
    <2>4. ASSUME NEW f \in Frames PROVE ref_count[f] = 0
      <3>1. Cardinality(EntriesOn(sequences, f)) = 0
        BY <2>3, FS_EmptySet
      <3>2. PinsOn(Records(prefix_index), f) = {}
        BY <2>2 DEF PinsOn
      <3>3. Cardinality(PinsOn(Records(prefix_index), f)) = 0
        BY <3>2, FS_EmptySet
      <3> QED BY <2>1, <3>1, <3>3 DEF RefCountsExact
    <2>5. \A k \in Slots : swap[k] = NoContent
      BY <2>1, <2>3 DEF Structure, SlotsHeld
    <2> QED BY <2>4, <2>5 DEF FreeFrames, FreeSlots
  <1> QED BY <1>1, CacheInvariant, PrefixUsersCounted, PTL
=============================================================================
