---------------------------- MODULE LogicalCache ----------------------------
(***************************************************************************)
(* What the cache manager promises a sequence: a private array of blocks   *)
(* per table.  There are no frames here, no sharing, no swapping and no    *)
(* copy-on-write: forking copies, publishing takes a snapshot, attaching   *)
(* copies the snapshot.  Only the sequence's own writes change its blocks. *)
(***************************************************************************)
EXTENDS Naturals, Sequences

CONSTANTS SeqIds, Keys, Tables

VARIABLES
    live,       \* the sequences that exist
    logical,    \* logical[s]: the blocks of every table of s
    published   \* published[k]: the snapshots indexed under prefix key k

logicalVars == <<live, logical, published>>

Empty == [l \in Tables |-> <<>>]

Init ==
    /\ live = {}
    /\ logical = [s \in SeqIds |-> Empty]
    /\ published = [k \in Keys |-> {}]

Create(s) ==
    /\ s \notin live
    /\ live' = live \cup {s}
    /\ UNCHANGED <<logical, published>>

Fork(parent, child) ==
    /\ parent \in live
    /\ child \notin live
    /\ live' = live \cup {child}
    /\ logical' = [logical EXCEPT ![child] = logical[parent]]
    /\ UNCHANGED published

(* Reserved blocks start with whatever their frames held. *)
Reserve(s) ==
    /\ s \in live
    /\ UNCHANGED <<live, published>>
    /\ logical' = [logical EXCEPT ![s] = logical'[s]]
    /\ \A l \in Tables : /\ Len(logical'[s][l]) >= Len(logical[s][l])
                         /\ SubSeq(logical'[s][l], 1, Len(logical[s][l])) = logical[s][l]

(* Nothing but one block of s differs. *)
OneBlock(old, new, s) ==
    \E l \in Tables : \E i \in DOMAIN old[s][l] : new = [old EXCEPT ![s][l][i] = new[s][l][i]]

Write(s) ==
    /\ s \in live
    /\ UNCHANGED <<live, published>>
    /\ OneBlock(logical, logical', s)

Publish(s, k) ==
    /\ s \in live
    /\ published' = [published EXCEPT ![k] = @ \cup {logical[s]}]
    /\ UNCHANGED <<live, logical>>

Attach(s, k) ==
    /\ s \in live
    /\ logical[s] = Empty
    /\ \E snapshot \in published[k] :
          /\ published[k] = {snapshot}
          /\ logical' = [logical EXCEPT ![s] = snapshot]
    /\ UNCHANGED <<live, published>>

(* Released sequences take with them the snapshots nobody uses any more. *)
Release(S) ==
    /\ live' = live \ S
    /\ logical' = [s \in SeqIds |-> IF s \in S THEN Empty ELSE logical[s]]
    /\ \A k \in Keys : published'[k] \subseteq published[k]

Next ==
    \/ \E s \in SeqIds : Create(s) \/ Reserve(s) \/ Write(s)
    \/ \E s, t \in SeqIds : Fork(s, t)
    \/ \E s \in SeqIds, k \in Keys : Publish(s, k) \/ Attach(s, k)
    \/ \E S \in SUBSET live : Release(S)

Spec == Init /\ [][Next]_logicalVars
=============================================================================
