--------------------------- MODULE MCToolGateway ----------------------------
(***************************************************************************)
(* Two agents: the supplier portal is a trusted source, mail is not.  The  *)
(* credential "stale" asserts a version the agent is not pinned to.        *)
(***************************************************************************)
EXTENDS ToolGateway, TLC

MCIdentity == [ann   |-> [id |-> "A", version |-> "2"],
               stale |-> [id |-> "A", version |-> "1"],
               bob   |-> [id |-> "B", version |-> ""],
               eve   |-> [id |-> "E", version |-> ""]]

MCAgentReg == [A |-> "2", B |-> "1"]

MCRoute == [lookup |-> "portal", read |-> "mail", pay |-> "bank",
            loose |-> "mail", moved |-> "mail"]

MCToolReg == [lookup |-> "portal", read |-> "", pay |-> "bank",
              moved |-> "portal"]

MCUpstreamProvenance == [portal |-> [source |-> "suppliers", trusted |-> TRUE]]

MCRateLimits == [lookup |-> 1]

\* limits.rego and taint.rego: a ceiling for one tool, and payments only with a
\* traced argument; beyond that the policy may say anything, even nothing.
MCPolicy(a, t, labels, count) ==
    IF \/ t \in DOMAIN rate_limits /\ count > rate_limits[t]
       \/ t = "pay" /\ \E l \in labels : ~l.trusted
    THEN {"deny"}
    ELSE {"allow", "allow_with_obligations", "deny", ""}

Symmetry == Permutations(Call)
=============================================================================
