-------------------------- MODULE MCSessionTokens ---------------------------
(***************************************************************************)
(* Two calls in a deployment with two agents and two upstreams.            *)
(***************************************************************************)
EXTENDS SessionTokens, TLC

Symmetry == Permutations(Call) \union Permutations(AgentId) \union Permutations(Upstream)
=============================================================================
