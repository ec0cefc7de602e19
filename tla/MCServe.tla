------------------------------ MODULE MCServe -------------------------------
(* Serve with one client of the SDK and one other.                         *)
EXTENDS Serve, TLC

CONSTANTS sdk, other

MCClient == {sdk, other}
MCSdk == {sdk}
MCSentinel == [v \in {"b64(read)", "b64(!"} |-> IF v = "b64(read)" THEN "read" ELSE "?"]
\* A name with a blank in front, one in latin-1, and one beyond it.
MCCarried == (" read" :> "read") @@ ("latin" :> "garbled") @@ ("kana" :> "?")
MCName == {"read", "lost", "b64(read)", "", " read", "latin", "kana"}

Sound == [readable |-> TRUE, path |-> "/mcp", policyPath |-> "p", auditPath |-> "a",
          signature |-> "none", upstreams |-> <<"u">>, decisionTimeout |-> "none",
          tools |-> <<[id |-> "read", risk |-> "low"], [id |-> "lost", risk |-> "low"]>>,
          agents |-> <<[id |-> "agent"]>>,
          static |-> FALSE, jwt |-> "set", devInsecure |-> FALSE]
Static == [Sound EXCEPT !.static = TRUE, !.jwt = "none"]

MCConfig ==
    {[Sound EXCEPT !.signature = "key"],
     [Static EXCEPT !.devInsecure = TRUE, !.upstreams = <<>>],
     Static,
     [Sound EXCEPT !.static = TRUE, !.devInsecure = TRUE],
     [Sound EXCEPT !.jwt = "none"],
     [Sound EXCEPT !.jwt = "no audience"],
     [Sound EXCEPT !.path = "/healthz"],
     [Sound EXCEPT !.signature = "no key"],
     [Sound EXCEPT !.upstreams = <<"u", "incomplete">>],
     [Sound EXCEPT !.tools = <<Sound.tools[1], Sound.tools[1]>>],
     [Sound EXCEPT !.tools = <<[id |-> "read", risk |-> ""]>>],
     [Sound EXCEPT !.agents = <<[id |-> ""]>>]}

Call == _request("tools/call", "read")

MCRawRequest ==
    {Call, _request("server/discover", ""),
     [Call EXCEPT !.mcpName = "b64(read)"],
     [Call EXCEPT !.mcpName = "b64(!"],
     [Call EXCEPT !.name = "lost", !.mcpName = "b64(read)"],
     [Call EXCEPT !.name = "lost"],
     [Call EXCEPT !.name = "?"],
     [Call EXCEPT !.name = "?", !.meta = FALSE],
     [Call EXCEPT !.mcpMethod = ""],
     [Call EXCEPT !.mcpMethod = "tools/list", !.mcpName = ""],
     [Call EXCEPT !.origin = "o"],
     [Call EXCEPT !.verb = "GET"],
     [Call EXCEPT !.decodes = FALSE],
     [Call EXCEPT !.hasId = FALSE],
     [Call EXCEPT !.mcpVersion = ""],
     [Call EXCEPT !.version = "", !.mcpVersion = ""],
     [Call EXCEPT !.version = "old", !.mcpVersion = "old"],
     [Call EXCEPT !.arguments = FALSE],
     _request("prompts/list", "")}
=============================================================================
