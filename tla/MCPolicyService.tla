-------------------------- MODULE MCPolicyService ---------------------------
(***************************************************************************)
(* Two files, contents that compile and one that does not, two keys.       *)
(***************************************************************************)
EXTENDS PolicyService, TLC

Symmetry == Permutations(File) \union Permutations(Request)
=============================================================================
