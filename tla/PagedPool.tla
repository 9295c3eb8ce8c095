------------------------------ MODULE PagedPool ------------------------------
(***************************************************************************)
(* The Python cache over the C++ manager: one pool, one cache (a PagedLayer*)
(* per decoder layer) per sequence, and what the pool remembers between    *)
(* the layers of a step: the block table it last built for a sequence, the *)
(* length of that table, and the frame last resolved for a write.  A       *)
(* forward pass runs the layers of one cache in order, each in steps (pc), *)
(* one per call into the manager.  The tensors of one layer and token are  *)
(* one value: the key and the value row are always stored together.  An    *)
(* absent dictionary entry is the empty set.  A failed assert ends the     *)
(* program: the step is not taken.                                         *)
(***************************************************************************)
EXTENDS PagedAttention, Integers

CONSTANTS
    Root,             \* PagedPool.root_id
    Values,           \* what a forward pass may store for its tokens
    Zero,             \* the initial bytes of the slab
    use_kernel,       \* does decode read the pages through the kernel?
    ResetsWithForks   \* may a caller reset() a cache once forks exist, or fork a reset one?

ASSUME PoolConfig ==
    /\ Root \in SeqIds
    /\ Requests = SeqIds
    /\ Slots = {} /\ Keys = {}
    /\ Contents = [0 .. Shape.num_layers - 1 -> [0 .. TokensPerBlock - 1 -> Values \cup {Zero}]]
    /\ Shape.layers_per_frame = 0   \* the constructor leaves the default: all layers in one frame
    /\ use_kernel \in BOOLEAN
    /\ ResetsWithForks \in BOOLEAN

VARIABLES
    host_frames,  \* _host_frames, and _dev_table, its copy on the device
    table_len,    \* _table_len
    writable,     \* _writable
    length,       \* PagedLayer.length
    call,         \* the forward pass in progress
    written       \* history: the values each cache stored or inherited

pythonVars == <<host_frames, table_len, writable, length, call, written>>
poolStateVars == <<cacheVars, pythonVars>>

Layers == 0 .. Shape.num_layers - 1
NoCall == [pc |-> "idle"]

PoolTypeOK ==
    /\ TypeOK
    /\ host_frames \in [SeqIds -> SUBSET Seq(Frames)]
    /\ table_len \in [SeqIds -> SUBSET Nat]
    /\ writable \subseteq [seq : SeqIds, token : Nat, frame : Frames]
    /\ length \in [SeqIds -> [Layers -> Nat]]
    /\ call = NoCall \/ call.pc \in {"grow", "resolve", "store", "read"}
    /\ written \in [SeqIds -> [Layers -> Seq(Values)]]

(* __init__ creates the root sequence on a zeroed slab. *)
PoolInit ==
    /\ ref_count = [f \in Frames |-> 0]
    /\ data = [f \in Frames |-> [l \in Layers |-> [i \in 0 .. TokensPerBlock - 1 |-> Zero]]]
    /\ swap = [k \in Slots |-> NoContent]
    /\ sequences = {Root}
    /\ request_of = [s \in SeqIds |-> IF s = Root THEN Root ELSE NoRequest]
    /\ tables = [s \in SeqIds |-> NoTables]
    /\ prefix = [s \in SeqIds |-> NoPrefix]
    /\ sequences_by_request = [r \in Requests |-> IF r = Root THEN <<Root>> ELSE <<>>]
    /\ prefix_index = [k \in Keys |-> {}]
    /\ host_frames = [s \in SeqIds |-> {}]
    /\ table_len = [s \in SeqIds |-> {}]
    /\ writable = {}
    /\ length = [s \in SeqIds |-> [l \in Layers |-> 0]]
    /\ call = NoCall
    /\ written = [s \in SeqIds |-> [l \in Layers |-> <<>>]]

-----------------------------------------------------------------------------
block_table(s) == Ids(s)[1]
TheOnly(S) == CHOOSE x \in S : TRUE

(* A layer's update() starts: ensure_capacity() looks up what the table has. *)
Entering(s, l, end, v) ==
    [pc |-> "grow", seq |-> s, layer |-> l, start |-> length[s][l], end |-> end, pos |-> length[s][l],
     have |-> IF table_len[s] = {} THEN Len(block_table(s)) ELSE TheOnly(table_len[s]),
     frame |-> {}, value |-> v]

(* A forward pass of n new tokens over the cache of sequence s. *)
forward(s, n, v) ==
    /\ call = NoCall
    /\ s \in sequences
    /\ length[s][0] + n <= MaxTokens
    /\ call' = Entering(s, 0, length[s][0] + n, v)
    /\ UNCHANGED <<cacheVars, host_frames, table_len, writable, length, written>>

(* ensure_capacity(): one block per turn. *)
Need == blocks_for(call.end)

Invalidated(s) == [host_frames EXCEPT ![s] = {}]

ensure_capacity ==
    /\ call.pc = "grow"
    /\ \/ /\ call.have < Need
          /\ reserve_tokens(call.seq, TokensPerBlock)
          /\ host_frames' = Invalidated(call.seq)
          /\ call' = [call EXCEPT !.have = @ + 1]
          /\ UNCHANGED table_len
       \/ /\ call.have >= Need
          /\ table_len' = [table_len EXCEPT ![call.seq] = {call.have}]
          /\ call' = [call EXCEPT !.pc = "resolve"]
          /\ UNCHANGED <<cacheVars, host_frames>>
    /\ UNCHANGED <<writable, length, written>>

(* writable_frame(): the entry for this very token, or ask the manager.       *)
(* Faulty variant: any entry of the sequence.                                 *)
Hit_any_token == {w \in writable : w.seq = call.seq}
Hit == {w \in writable : w.seq = call.seq /\ w.token = call.pos}

(* A remembered table that a write has remapped is forgotten.  Faulty         *)
(* variant: it is kept.                                                       *)
TableAfterWrite_kept(frame) == host_frames
TableAfterWrite(frame) ==
    LET logical == call.pos \div TokensPerBlock
        remapped == {host \in host_frames[call.seq] : logical >= Len(host) \/ host[logical + 1] # frame}
    IN  IF remapped = {} THEN host_frames ELSE Invalidated(call.seq)

writable_frame ==
    /\ call.pc = "resolve"
    /\ \/ \E w \in Hit :
              /\ call' = [call EXCEPT !.pc = "store", !.frame = {w.frame}]
              /\ UNCHANGED <<cacheVars, host_frames, writable>>
       \/ /\ Hit = {}
          /\ ensure_token_writable(call.seq, call.pos, 1)
          /\ LET frame == tables'[call.seq][1][call.pos \div TokensPerBlock + 1].frame
             IN  /\ host_frames' = TableAfterWrite(frame)
                 /\ writable' = {[seq |-> call.seq, token |-> call.pos, frame |-> frame]}
                 /\ call' = [call EXCEPT !.pc = "store", !.frame = {frame}]
    /\ UNCHANGED <<table_len, length, written>>

(* The rows of one block are stored; after the last one the layer is longer. *)
store ==
    LET offset == call.pos % TokensPerBlock
        left == call.end - call.pos
        count == IF TokensPerBlock - offset < left THEN TokensPerBlock - offset ELSE left
        done == call.pos + count = call.end
    IN
    /\ call.pc = "store"
    /\ data' = [data EXCEPT ![TheOnly(call.frame)][call.layer] =
                  [i \in DOMAIN @ |-> IF i \in offset .. offset + count - 1 THEN call.value ELSE @[i]]]
    /\ length' = IF done THEN [length EXCEPT ![call.seq][call.layer] = call.end] ELSE length
    /\ written' = IF done
                  THEN [written EXCEPT ![call.seq][call.layer] =
                           [t \in 1 .. call.end |-> IF t <= call.start THEN @[t] ELSE call.value]]
                  ELSE written
    /\ call' = [call EXCEPT !.pc = IF done THEN "read" ELSE "resolve", !.pos = @ + count]
    /\ UNCHANGED <<ref_count, swap, sequences, request_of, tables, prefix, sequences_by_request,
                   prefix_index, host_frames, table_len, writable>>

(* decode_inputs(): the table a read of n tokens uses, remembered or rebuilt. *)
TableFor(s, n) ==
    LET wide == {host \in host_frames[s] : Len(host) = blocks_for(n)}
    IN  IF wide # {} THEN TheOnly(wide) ELSE SubSeq(block_table(s), 1, blocks_for(n))

(* attend_decode() asks for the tokens there are, _gather() for whole blocks. *)
TokensAsked ==
    IF use_kernel /\ call.end = call.start + 1 THEN call.end ELSE blocks_for(call.end) * TokensPerBlock

read ==
    /\ call.pc = "read"
    /\ host_frames' = [host_frames EXCEPT ![call.seq] = {TableFor(call.seq, TokensAsked)}]
    /\ call' = IF call.layer + 1 \in Layers
               THEN Entering(call.seq, call.layer + 1, call.end, call.value) ELSE NoCall
    /\ UNCHANGED <<cacheVars, table_len, writable, length, written>>

(* fork_paged_cache() copies the lengths and shares the blocks, whatever they *)
(* are.  An empty cache that has blocks was reset.                            *)
fork(parent, child) ==
    /\ call = NoCall
    /\ ResetsWithForks \/ length[parent][0] > 0 \/ tables[parent][1] = <<>>
    /\ fork_sequence(parent, child, child)
    /\ length' = [length EXCEPT ![child] = length[parent]]
    /\ written' = [written EXCEPT ![child] = written[parent]]
    /\ UNCHANGED <<host_frames, table_len, writable, call>>

(* reset(): the layers are empty again, the blocks stay.  Faulty variant: the   *)
(* lengths get the value get_max_length() uses for "none".                      *)
LengthAfterReset_none(s) == [length EXCEPT ![s] = [l \in Layers |-> 0 - 1]]
LengthAfterReset(s) == [length EXCEPT ![s] = [l \in Layers |-> 0]]

reset(s) ==
    /\ call = NoCall
    /\ s \in sequences
    /\ ResetsWithForks \/ sequences = {s}
    /\ length' = LengthAfterReset(s)
    /\ written' = [written EXCEPT ![s] = [l \in Layers |-> <<>>]]
    /\ UNCHANGED <<cacheVars, host_frames, table_len, writable, call>>

-----------------------------------------------------------------------------
PoolNext ==
    \/ \E s \in SeqIds, n \in 1 .. MaxTokens, v \in Values : forward(s, n, v)
    \/ ensure_capacity \/ writable_frame \/ store \/ read
    \/ \E s, t \in SeqIds : fork(s, t)
    \/ \E s \in SeqIds : reset(s)

PoolSpec == PoolInit /\ [][PoolNext]_poolStateVars

-----------------------------------------------------------------------------
(* "Resolves a token's frame, honoring copy-on-write before any write"        *)
(* (writable_frame): the frame about to be written is the one the block table *)
(* maps the token to, and no other sequence reads it, whether the frame was   *)
(* resolved now or remembered from an earlier layer or step.                  *)
StoresExclusive ==
    call.pc = "store" =>
        \A f \in call.frame :
            /\ ref_count[f] = 1
            /\ At(call.seq, CellOf(call.pos, 1)).frame = f

(* What attention reads for one layer of a cache, through the table that      *)
(* decode_inputs gives it, is what was stored through that layer or inherited *)
(* by the fork: no branch sees another's writes, no remembered table is stale.*)
Gathered(s, l) ==
    LET table == TableFor(s, length[s][l])
    IN  [t \in 1 .. length[s][l] |->
            data[table[(t - 1) \div TokensPerBlock + 1]][l][(t - 1) % TokensPerBlock]]
ReadsOwnTokens ==
    /\ call = NoCall => \A s \in sequences, l \in Layers : Gathered(s, l) = written[s][l]
    /\ call.pc = "read" => Gathered(call.seq, call.layer) = written[call.seq][call.layer]
=============================================================================
