------------------------------- MODULE MCMedia -------------------------------
(***************************************************************************)
(* Constants for model-checking Media: an upload, a request for a signed  *)
(* URL and a direct upload, of two tenants.                                *)
(***************************************************************************)
EXTENDS Media, TLC

Symmetry == Permutations(Calls) \cup Permutations(Tenants)
==============================================================================
