--------------------------- MODULE MCHooksClient ---------------------------
(***************************************************************************)
(* Small instances of HooksClient.  The invocations are interchangeable,   *)
(* so safety is checked up to their permutations.                          *)
(***************************************************************************)
EXTENDS HooksClient, TLC

Symmetry == Permutations(Invocations)
=============================================================================
