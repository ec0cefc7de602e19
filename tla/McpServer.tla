----------------------------- MODULE McpServer ------------------------------
(***************************************************************************)
(* pkg/mcp/server.go: what the listener makes of one HTTP request before   *)
(* it reaches the gateway, and what the Python client                      *)
(* (sdk/python/helmdeep/client.py) sends.                                  *)
(*                                                                         *)
(* A request is a record of what the listener looks at: origin, verb,      *)
(* whether the body decodes and has an id, method and its header, the name *)
(* in the params ("?" if the params do not decode as those of tools/call)  *)
(* and the Mcp-Name header, _meta, the protocol version and its header,    *)
(* and whether the arguments are an object.  "" stands for absent.         *)
(***************************************************************************)
EXTENDS Naturals, Sequences

CONSTANTS AllowedOrigins,   \* Server.AllowedOrigins
          Sentinel,         \* header values in Base64 form: what they decode to
          Carried           \* names a header does not carry as they are

Current == "2026-07-28"

\* decodeHeaderValue; "?" is an error.
decodeHeaderValue(v) == IF v \in DOMAIN Sentinel THEN Sentinel[v] ELSE v

\* Mutant: a name in Base64 form is decoded but not compared.
validateStandardHeadersLax(r) ==
    /\ r.mcpMethod # "" /\ r.mcpMethod = r.method
    /\ r.method = "tools/call" =>
          /\ r.mcpName # "" /\ decodeHeaderValue(r.mcpName) # "?"
          /\ r.mcpName \in DOMAIN Sentinel \/ r.name \in {"?", r.mcpName}

\* validateStandardHeaders: the headers repeat the body.  Params that do not
\* decode are left for handleCallTool to report.
validateStandardHeaders(r) ==
    /\ r.mcpMethod # "" /\ r.mcpMethod = r.method
    /\ r.method = "tools/call" =>
          /\ r.mcpName # "" /\ decodeHeaderValue(r.mcpName) # "?"
          /\ r.name \in {"?", decodeHeaderValue(r.mcpName)}

\* parseMeta: _meta with its capabilities, and a version in it.
parseMeta(r) == r.meta /\ r.version # ""

\* The checks of serveHTTP in their order; "" if it goes on to dispatch.
Admission(r) ==
    IF r.origin # "" /\ AllowedOrigins # {} /\ r.origin \notin AllowedOrigins
    THEN "forbidden"
    ELSE IF r.verb # "POST" THEN "not allowed"
    ELSE IF ~r.decodes THEN "parse error"
    ELSE IF ~r.hasId THEN "invalid request"
    ELSE IF ~validateStandardHeaders(r) THEN "header mismatch"
    ELSE IF ~parseMeta(r) THEN "invalid params"
    ELSE IF r.mcpVersion # r.version THEN "header mismatch"
    ELSE IF r.version # Current THEN "unsupported version"
    ELSE ""

\* dispatch, and handleCallTool up to the call of the handler; "" if it is
\* called.
dispatch(r) ==
    IF r.method \notin {"server/discover", "tools/list", "tools/call"}
    THEN "method not found"
    ELSE IF r.method = "tools/call" /\ (r.name = "?" \/ ~r.arguments)
    THEN "invalid params"
    ELSE ""

Rejection(r) == IF Admission(r) # "" THEN Admission(r) ELSE dispatch(r)

Rejections == {"forbidden", "not allowed", "parse error", "invalid request",
               "header mismatch", "invalid params", "unsupported version",
               "method not found"}

\* Mutant: the name is not repeated in the header.
_requestNameless(method, name) ==
    [origin |-> "", verb |-> "POST", decodes |-> TRUE, hasId |-> TRUE,
     method |-> method, mcpMethod |-> method, name |-> name, mcpName |-> "",
     meta |-> TRUE, version |-> Current, mcpVersion |-> Current, arguments |-> TRUE]

\* What reaches the listener of a name that client.py puts in a header: urllib
\* writes it as latin-1, the listener reads bytes (UTF-8, in the body) and
\* net/http trims the ends.  "?" if urllib cannot write it, and raises.
headerValue(name) == IF name \in DOMAIN Carried THEN Carried[name] ELSE name

\* Client._request, for list_tools (no name) and call_tool.
_request(method, name) ==
    [origin |-> "", verb |-> "POST", decodes |-> TRUE, hasId |-> TRUE,
     method |-> method, mcpMethod |-> method, name |-> name,
     mcpName |-> headerValue(name), meta |-> TRUE,
     version |-> Current, mcpVersion |-> Current, arguments |-> TRUE]
=============================================================================
