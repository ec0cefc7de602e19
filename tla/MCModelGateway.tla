--------------------------- MODULE MCModelGateway ---------------------------
(***************************************************************************)
(* Purposes with an approved fallback, at another and at the same provider *)
(* as the primary, one that is not approved, none, an unapproved primary,  *)
(* and one without a route.                                                *)
(***************************************************************************)
EXTENDS ModelGateway, TLC

CONSTANTS sonnet, haiku, gpt, draft

MCRoute == [plan  |-> [primary |-> sonnet, fallback |-> gpt],
            near  |-> [primary |-> haiku, fallback |-> sonnet],
            risky |-> [primary |-> sonnet, fallback |-> draft],
            solo  |-> [primary |-> gpt, fallback |-> NoTarget],
            early |-> [primary |-> draft, fallback |-> sonnet]]

\* Routes call one of the providers otherwise than it calls itself.
MCProvider(t) == IF t = gpt THEN "azure" ELSE "anthropic"
MCName(t) == IF t = gpt THEN "azure-openai" ELSE "anthropic"

\* Two pairs may resolve to the same model.
MCResolved(t) == CASE t = sonnet -> {"s1", "s2"} [] t = haiku -> {"h1", "s2"}
                   [] t = gpt -> {"g1"} [] t = draft -> {"d1"}

MCPolicy(p) == {"allow", "allow_with_obligations", "deny", ""}

Symmetry == Permutations(Call)
=============================================================================
