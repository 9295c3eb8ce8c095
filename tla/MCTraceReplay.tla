--------------------------- MODULE MCTraceReplay ---------------------------
(* Requests 1 and 2 share a prompt block, 3 to 5 share nothing, and 6 is     *)
(* larger than the pool.                                                     *)
EXTENDS TraceReplay

MCRoots == <<1, 2, 3, 4, 5, 6>>
MCPrompts == <<2, 3, 2, 3, 2, 7>>
MCDecodes == <<3, 2, 3, 2, 3, 3>>
MCKeys == [r \in Requests |-> IF r > 2 THEN NoKey ELSE CHOOSE k \in Keys : TRUE]
MCNoKeys == [r \in Requests |-> NoKey]

(* Requests that use their budgets, or stop early. *)
MCActuals == {<<3, 2, 3, 2, 3, 3>>, <<1, 2, 2, 2, 1, 3>>}

Orders(S) == SetToSeqs(S)

(* With sharing and two samples, and plain ones. *)
MCSharing == [requests : Orders({1, 2}) \cup Orders({1, 2, 3}) \cup {<<6, 1, 2>>},
              decode_actual : MCActuals,
              num_parallel_samples : {<<1, 1, 1, 1, 1, 1>>, <<2, 1, 1, 1, 1, 1>>, <<1, 2, 2, 1, 1, 1>>}]
MCPlain == [requests : Orders({3, 4, 5}) \cup {<<6, 3, 4>>, <<3, 6, 4, 5>>, <<4>>},
            decode_actual : MCActuals,
            num_parallel_samples : {[r \in Requests |-> 1]}]
MCTraces == MCSharing \cup MCPlain
=============================================================================
