------------------------ MODULE MCContiguousBaseline ------------------------
(* All traces of four small requests.  A prompt of eight tokens exceeds the  *)
(* pool, and with the larger budget also the context.                        *)
EXTENDS ContiguousBaseline

MCPrompts == {1, 2, 5, 8}
MCBudgets == {1, 2}
=============================================================================
