------------------------------- MODULE Serve --------------------------------
(***************************************************************************)
(* The gateway process from its start to its exit                          *)
(* (cmd/helmdeep-gateway/main.go, config.go): runServe step by step, with  *)
(* the signals that may arrive between two steps, the listener of          *)
(* pkg/mcp/server.go with requests in flight, the graceful shutdown, and   *)
(* the operator's `policy keygen` and `policy sign` (policy_cmd.go), whose *)
(* files runServe reads.                                                   *)
(*                                                                         *)
(* A client makes one request, in whichever life of the process.  What the *)
(* gateway does with a call between its decision and its answer is         *)
(* ToolGateway's and AuditedGateway's subject, and what a reload does      *)
(* PolicyService's: here they are a few steps, or none.                    *)
(***************************************************************************)
EXTENDS McpServer

CONSTANTS Client, Sdk,      \* the clients, and those that use client.py
          Config,           \* the configurations an operator may write
          Name, Route,      \* tool names; those some upstream lists
          RawRequest,       \* what other clients may send
          Torn,             \* a key file cut short
          MaxBoots, MaxKeys

ASSUME ServeAssumption ==
    /\ Sdk \subseteq Client /\ MaxBoots \in Nat /\ MaxKeys \in Nat
    /\ \A c \in Config : DOMAIN c.tools \subseteq Nat \ {0}
                        /\ DOMAIN c.agents \subseteq Nat \ {0}

\* "?" is no name, and whatever is sent is a request.
ASSUME RequestAssumption ==
    "?" \notin Name /\ \A r \in RawRequest : DOMAIN r = DOMAIN _request("", "")

VARIABLES
    phase, config, term, boots,     \* the process; term: ctx is cancelled
    resolver, verifier,             \* runServe's identityResolver and pub
    gen, keyFile, pubFile, manifest,\* keygen; the files, 0 if absent; who signed
    at, req, gone,                  \* an exchange, and whether its client left
    called, evaluated, wire, answer \* the name handed on; whose policy was asked;
                                    \* the upstream request; the reply

process == <<phase, config, term, boots, resolver, verifier>>
keys    == <<gen, keyFile, pubFile, manifest>>
calls   == <<at, req, gone, called, evaluated, wire, answer>>
vars    == <<process, keys, calls>>

Places == {"none", "queued", "sending", "sent", "handling", "forwarding", "answered",
           "killed", "dropped"}
\* What Shutdown waits for: connections a request has been read from.
Active(e) == at[e] \in {"sending", "sent", "handling", "forwarding"}
NoRequest == _request("", "")
Sendable == {n \in Name : headerValue(n) # "?"}
Requests(k) == IF k \in Sdk THEN {_request("tools/call", n) : n \in Sendable}
                                 \cup {_request("tools/list", "")}
                            ELSE RawRequest

Init == /\ phase = "down" /\ config \in Config /\ term = FALSE /\ boots = 0
        /\ resolver = "none" /\ verifier = 0
        /\ gen = <<"idle", 0>> /\ keyFile = 0 /\ pubFile = 0 /\ manifest = 0
        /\ at = [e \in Client |-> "none"]
        /\ req = [e \in Client |-> NoRequest]
        /\ gone = [e \in Client |-> FALSE]
        /\ called = [e \in Client |-> ""]
        /\ evaluated = {}
        /\ wire = [e \in Client |-> "unsent"]
        /\ answer = [e \in Client |-> ""]

-----------------------------------------------------------------------------
(* Configuration.  A configuration holds what loadConfig looks at; the     *)
(* sections are sequences of entries.                                      *)

\* agentregistry.New: ids present, and none twice.
NewAgentRegistry(entries) ==
    \A i \in DOMAIN entries :
        /\ entries[i].id # ""
        /\ \A j \in 1 .. i - 1 : entries[j].id # entries[i].id

\* toolregistry.New: the same, and the ratings are known.
NewToolRegistry(entries) ==
    /\ NewAgentRegistry(entries)
    /\ \A i \in DOMAIN entries :
          entries[i].risk \in {"low", "medium", "high", "critical"}

decisionTimeout(c) == c.decisionTimeout # "unparsable"
toolRegistry(c) == NewToolRegistry(c.tools)
agentRegistry(c) == NewAgentRegistry(c.agents)

\* loadConfig: whether the file is accepted.
loadConfig(c) ==
    /\ c.readable
    /\ c.path \notin {"/healthz", "/livez"}
    /\ c.policyPath # "" /\ c.auditPath # ""
    /\ c.signature # "no key"
    /\ \A i \in DOMAIN c.upstreams : c.upstreams[i] # "incomplete"
    /\ decisionTimeout(c) /\ toolRegistry(c) /\ agentRegistry(c)
    /\ c.static # (c.jwt # "none")
    /\ c.jwt \notin {"no audience", "no jwks"}

\* The process ends; the kernel resets the connections it held.
Stop(how) ==
    /\ phase' = "down" /\ term' = FALSE /\ resolver' = "none" /\ verifier' = 0
    /\ at' = [e \in Client |-> IF Active(e) \/ at[e] = "queued" THEN how ELSE at[e]]
    /\ UNCHANGED <<config, boots, keys, req, gone, called, evaluated, wire, answer>>

\* runServe returns an error before anything is served.
Refuse == Stop("killed")

Proceed(to) == /\ phase' = to
               /\ UNCHANGED <<config, term, boots, keys, calls>>

Start == /\ phase = "down" /\ boots < MaxBoots
         /\ phase' = "config" /\ boots' = boots + 1
         /\ UNCHANGED <<config, term, resolver, verifier, keys, calls>>

LoadConfig == /\ phase = "config"
              /\ IF loadConfig(config)
                 THEN Proceed("identity") /\ UNCHANGED <<resolver, verifier>>
                 ELSE Refuse

\* Mutant: the flag is not asked for.
checkDevInsecureGateOpen(c) == TRUE

\* Static tokens only with the flag.
checkDevInsecureGate(c) == c.static => c.devInsecure

\* The identity switch: jwt first, whose key set may not be fetched.
ResolveIdentity ==
    /\ phase = "identity"
    /\ IF config.jwt # "none"
       THEN \/ resolver' = "jwt" /\ Proceed("policy") /\ UNCHANGED verifier
            \/ Refuse
       ELSE IF config.static /\ checkDevInsecureGate(config)
       THEN resolver' = "static" /\ Proceed("policy") /\ UNCHANGED verifier
       ELSE Refuse

\* ReadPublicKey, ReadPrivateKey: only a whole file is a key.
Readable(file) == file \notin {0, Torn}

\* ReadPublicKey, NewVerifyingLoader and Load.  With a signature section the
\* manifest has to verify under the key read; a bundle may fail to load anyway.
LoadPolicy ==
    /\ phase = "policy"
    /\ \/ /\ config.signature = "none"
          /\ Proceed("audit") /\ UNCHANGED <<resolver, verifier>>
       \/ /\ config.signature # "none"
          /\ Readable(pubFile) /\ manifest = pubFile
          /\ verifier' = pubFile
          /\ Proceed("audit") /\ UNCHANGED resolver
       \/ Refuse

\* NewFileStore, NewStampingStore and NotifyContext.
OpenAudit == /\ phase = "audit"
             /\ \/ Proceed("listing") /\ UNCHANGED <<resolver, verifier>>
                \/ Refuse

\* NewStaticRegistry(ctx): one unreachable upstream, or a cancelled ctx, and
\* the process ends.  Without upstreams nothing looks at ctx.
ListUpstreams ==
    /\ phase = "listing"
    /\ \/ /\ term => config.upstreams = <<>>
          /\ Proceed("mounting") /\ UNCHANGED <<resolver, verifier>>
       \/ config.upstreams # <<>> /\ Refuse

\* Mutant: a signal that came before the listener is forgotten.
MountForgets == /\ phase = "mounting"
                /\ \/ /\ phase' = "serving" /\ term' = FALSE
                      /\ UNCHANGED <<config, boots, resolver, verifier, keys, calls>>
                   \/ Refuse

\* The sections parsed once more, gateway.New, NewServer, Mount, Notify(SIGHUP)
\* and ListenAndServe, which may find its port taken.
Mount == /\ phase = "mounting"
         /\ \/ /\ decisionTimeout(config) /\ toolRegistry(config) /\ agentRegistry(config)
               /\ Proceed("serving") /\ UNCHANGED <<resolver, verifier>>
            \/ Refuse

\* Serve sees ctx.Done: Shutdown closes the listener, and from then on the
\* connections that are idle ...
Shutdown == /\ phase = "serving" /\ term
            /\ Proceed("draining") /\ UNCHANGED <<resolver, verifier>>

\* Mutant: Close instead of Shutdown.
ExitAtOnce == phase = "draining" /\ Stop("dropped")

\* ... and returns once no connection is active; then runServe does.  A request
\* that no one has read yet keeps no connection active.
Exit == /\ phase = "draining" /\ \A e \in Client : ~Active(e)
        /\ Stop("dropped")

\* SIGTERM: ends a process that has not reached NotifyContext, and cancels ctx
\* in one that has.  Only the first one matters.
Terminate == /\ phase # "down" /\ ~term
             /\ IF phase \in {"config", "identity", "policy", "audit"}
                THEN Stop("killed")
                ELSE /\ term' = TRUE
                     /\ UNCHANGED <<phase, config, boots, resolver, verifier, keys, calls>>

\* SIGHUP before its Notify ends the process; after it, it is PolicyService's.
Hangup == /\ phase \notin {"down", "serving", "draining"}
          /\ Stop("killed")

\* SIGKILL, the machine's power, or a supervisor that has waited enough.
Kill == phase # "down" /\ Stop("killed")

-----------------------------------------------------------------------------
(* Exchanges.                                                              *)

\* A client opens its request, on a new connection or one that was kept alive
\* (which it may still do while the listener drains).
Send(e) ==
    /\ phase \in {"serving", "draining"} /\ at[e] = "none"
    /\ \E r \in Requests(e) : req' = [req EXCEPT ![e] = r]
    /\ at' = [at EXCEPT ![e] = "queued"]
    /\ UNCHANGED <<process, keys, gone, called, evaluated, wire, answer>>

\* net/http reads the request's headers: the connection is active.
ReadHeaders(e) ==
    /\ at[e] = "queued"
    /\ at' = [at EXCEPT ![e] = "sending"]
    /\ UNCHANGED <<process, keys, req, gone, called, evaluated, wire, answer>>

\* The rest of the request arrives.
FinishBody(e) == /\ at[e] = "sending" /\ ~gone[e]
                 /\ at' = [at EXCEPT ![e] = "sent"]
                 /\ UNCHANGED <<process, keys, req, gone, called, evaluated, wire, answer>>

\* The client's timeout (client.py's, 30 s) or its end.  Leaving before the
\* headers are read is like leaving right after.
HangUp(e) == /\ Active(e) /\ ~gone[e]
             /\ gone' = [gone EXCEPT ![e] = TRUE]
             /\ UNCHANGED <<process, keys, at, req, called, evaluated, wire, answer>>

\* The same in the middle of a body.
Abandon(e) == at[e] = "sending" /\ HangUp(e)

Answer(e, a) == /\ at' = [at EXCEPT ![e] = "answered"]
                /\ answer' = [answer EXCEPT ![e] = a]

\* What the decoder gets: a body cut short does not decode.
Received(e) == IF at[e] = "sent" THEN req[e] ELSE [req[e] EXCEPT !.decodes = FALSE]

\* serveHTTP, up to the call of the handler.  The checks before the decoder do
\* not wait for the body.
serveHTTP(e) ==
    LET no == Rejection(Received(e)) IN
    /\ \/ at[e] = "sent"
       \/ at[e] = "sending" /\ (gone[e] \/ no \in {"forbidden", "not allowed"})
    /\ IF no # ""
       THEN Answer(e, no) /\ UNCHANGED called
       ELSE /\ at' = [at EXCEPT ![e] = "handling"]
            /\ called' = [called EXCEPT ![e] = req[e].name]
            /\ UNCHANGED answer
    /\ UNCHANGED <<process, keys, req, gone, evaluated, wire>>

\* handleDiscover; handleListTools, which asks the policy about every tool of a
\* caller it knows.
Describe(e) ==
    /\ at[e] = "handling" /\ req[e].method # "tools/call"
    /\ \/ UNCHANGED evaluated
       \/ req[e].method = "tools/list" /\ evaluated' = evaluated \cup {e}
    /\ Answer(e, "ok")
    /\ UNCHANGED <<process, keys, req, gone, called, wire>>

\* Mutant: the routing is looked up after the decision.
EnterLate(e) ==
    /\ at[e] = "handling" /\ req[e].method = "tools/call"
    /\ \/ Answer(e, "denied") /\ UNCHANGED evaluated
       \/ /\ called[e] \notin Route /\ Answer(e, "unknown tool")
          /\ evaluated' = evaluated \cup {e}
    /\ UNCHANGED <<process, keys, req, gone, called, wire>>

\* CallTool up to the decision: an unknown caller or an undeclared tool is
\* denied, a tool nobody lists is a protocol error.
Enter(e) ==
    /\ at[e] = "handling" /\ req[e].method = "tools/call"
    /\ \/ Answer(e, "denied")
       \/ called[e] \notin Route /\ Answer(e, "unknown tool")
    /\ UNCHANGED <<process, keys, req, gone, called, evaluated, wire>>

\* The decision, its record and the exchange of the credential; an allowed call
\* goes to the upstream.
Decide(e) ==
    /\ at[e] = "handling" /\ req[e].method = "tools/call" /\ called[e] \in Route
    /\ evaluated' = evaluated \cup {e}
    /\ \/ Answer(e, "denied") /\ UNCHANGED wire
       \/ Answer(e, "failed") /\ UNCHANGED wire
       \/ /\ at' = [at EXCEPT ![e] = "forwarding"]
          /\ wire' = [wire EXCEPT ![e] = "sent"]
          /\ UNCHANGED answer
    /\ UNCHANGED <<process, keys, req, gone, called>>

\* The upstream carries out what it was sent, whatever became of the sender.
Execute(e) == /\ wire[e] = "sent"
              /\ wire' = [wire EXCEPT ![e] = "executed"]
              /\ UNCHANGED <<process, keys, at, req, gone, called, evaluated, answer>>

\* The upstream's answer, or the failure of the call: a lost message, the
\* timeout of HTTPUpstream, or the request's ctx, which ends with its client.
Return(e) == /\ at[e] = "forwarding"
             /\ \/ wire[e] = "executed" /\ Answer(e, "ok")
                \/ Answer(e, "failed")
             /\ UNCHANGED <<process, keys, req, gone, called, evaluated, wire>>

-----------------------------------------------------------------------------
(* The operator: one at a time, and only for a configuration that looks at *)
(* the files and while no process runs, as runServe reads them once.       *)

Operator == /\ phase = "down" /\ config.signature # "none"
            /\ UNCHANGED <<process, calls>>

\* Mutant: only the public key's path is looked at.
KeygenLooksOnce ==
    /\ Operator /\ gen[1] = "idle" /\ gen[2] < MaxKeys
    /\ pubFile = 0
    /\ gen' = <<"private", gen[2] + 1>>
    /\ UNCHANGED <<keyFile, pubFile, manifest>>

\* runPolicyKeygen refuses if either file exists; GenerateKey.
Keygen ==
    /\ Operator /\ gen[1] = "idle" /\ gen[2] < MaxKeys
    /\ keyFile = 0 /\ pubFile = 0
    /\ gen' = <<"private", gen[2] + 1>>
    /\ UNCHANGED <<keyFile, pubFile, manifest>>

\* WritePrivateKey and WritePublicKey: the file is whole, or cut short or
\* missing and the command ends.
WritePrivateKey ==
    /\ Operator /\ gen[1] = "private"
    /\ \/ keyFile' = gen[2] /\ gen' = <<"public", gen[2]>>
       \/ keyFile' \in {keyFile, Torn} /\ gen' = <<"idle", gen[2]>>
    /\ UNCHANGED <<pubFile, manifest>>

WritePublicKey ==
    /\ Operator /\ gen[1] = "public"
    /\ pubFile' \in {pubFile, Torn, gen[2]} /\ gen' = <<"idle", gen[2]>>
    /\ UNCHANGED <<keyFile, manifest>>

\* runPolicySign: ReadPrivateKey refuses a file that is not a key.
Sign == /\ Operator /\ gen[1] = "idle"
        /\ Readable(keyFile) /\ manifest' = keyFile
        /\ UNCHANGED <<gen, keyFile, pubFile>>

-----------------------------------------------------------------------------
Startup == LoadConfig \/ ResolveIdentity \/ LoadPolicy \/ OpenAudit
              \/ ListUpstreams \/ Mount
Handler(e) == serveHTTP(e) \/ Describe(e) \/ Enter(e) \/ Decide(e) \/ Return(e)

Next == \/ Start \/ LoadConfig \/ ResolveIdentity \/ LoadPolicy \/ OpenAudit
        \/ ListUpstreams \/ Mount \/ Shutdown \/ Exit
        \/ Terminate \/ Hangup \/ Kill
        \/ Keygen \/ WritePrivateKey \/ WritePublicKey \/ Sign
        \/ \E e \in Client :
              \/ Send(e) \/ ReadHeaders(e) \/ FinishBody(e) \/ HangUp(e)
              \/ serveHTTP(e) \/ Describe(e) \/ Enter(e) \/ Decide(e)
              \/ Execute(e) \/ Return(e)

\* The process runs; HTTPUpstream has a timeout; and a client ends its request
\* or hangs up, as client.py's timeout makes it do.  The listener has no timeout
\* of its own for a body.  No fairness on starts, signals and upstreams.
Spec == /\ Init /\ [][Next]_vars
        /\ WF_vars(Startup) /\ WF_vars(Shutdown) /\ WF_vars(Exit)
        /\ \A e \in Client : /\ WF_vars(Handler(e))
                               /\ WF_vars(FinishBody(e) \/ Abandon(e))

-----------------------------------------------------------------------------
Key == 0 .. MaxKeys \cup {Torn}

\* The variables of the process, the key files and the exchanges have their
\* types: in particular the handler is only ever given a name that handleCallTool
\* could read, and nothing is in flight while nothing is served.
TypeOK ==
    /\ phase \in {"down", "config", "identity", "policy", "audit", "listing",
                  "mounting", "serving", "draining"}
    /\ config \in Config /\ term \in BOOLEAN /\ boots \in 0 .. MaxBoots
    /\ resolver \in {"none", "static", "jwt"} /\ verifier \in 0 .. MaxKeys
    /\ gen \in {"idle", "private", "public"} \X (0 .. MaxKeys)
    /\ keyFile \in Key /\ pubFile \in Key /\ manifest \in 0 .. MaxKeys
    /\ evaluated \subseteq Client
    /\ \A e \in Client :
          /\ at[e] \in Places
          /\ req[e] \in Requests(e) \cup {NoRequest}
          /\ called[e] \in {"", req[e].name}
          /\ req[e].method = "tools/call" => called[e] # "?"
          /\ wire[e] \in {"unsent", "sent", "executed"}
          /\ answer[e] \in Rejections \cup {"", "ok", "denied", "failed", "unknown tool"}
    /\ phase \notin {"serving", "draining"} =>
          \A e \in Client : ~Active(e) /\ at[e] # "queued"

\* Whatever name the gateway decides about and forwards is the one the
\* Mcp-Name header announced, decoded: an intermediary that routes on headers
\* alone and the gateway never see two tools, even though
\* validateStandardHeaders lets params through that it cannot read.
NameIsTheHeaders ==
    \A e \in Client :
        req[e].method = "tools/call" /\ at[e] # "none" /\ called[e] # "" =>
            decodeHeaderValue(req[e].mcpName) = called[e]

\* What client.py sends is never rejected by the listener's validation, at
\* whatever point of the gateway's life it arrives, unless the client hung up in
\* the middle of its body or the tool's name is one that its header does not
\* carry: the empty name, one in Base64 form, one with characters beyond ASCII or
\* blanks at an end.  Such a call is at worst a header mismatch.
SdkIsUnderstood ==
    \A e \in Client :
        e \in Sdk /\ ~gone[e] /\ answer[e] \in Rejections =>
            /\ answer[e] = "header mismatch" /\ req[e].method = "tools/call"
            /\ req[e].name \in DOMAIN Sentinel \cup DOMAIN Carried \cup {""}

\* ProtocolError of client.py: "the request never reached policy evaluation at
\* all".  So for every answer that is a JSON-RPC error, and then nothing was
\* sent upstream either.
ProtocolErrorMeansUnevaluated ==
    \A e \in Client :
        answer[e] \in Rejections \cup {"unknown tool"} =>
            e \notin evaluated /\ wire[e] = "unsent"

\* A graceful shutdown closes connections with requests on them that no one has
\* read, and only those: whoever finds their connection closed that way can send
\* the request again, as it was not handled, not evaluated and not forwarded.
DroppedIsUntouched ==
    \A e \in Client : at[e] = "dropped" =>
        called[e] = "" /\ e \notin evaluated /\ wire[e] = "unsent" /\ answer[e] = ""

\* A gateway that serves has one source of identities, and it is the static
\* tokens only if the operator passed -dev-insecure; with a signature section
\* its policy verified under a whole public key; no tool or agent is declared
\* twice; and its path does not hide a health endpoint.
ServingIsGoverned ==
    phase \in {"serving", "draining"} =>
        /\ resolver # "none"
        /\ resolver = "static" => config.devInsecure /\ config.jwt = "none"
        /\ config.signature = "none" <=> verifier = 0
        /\ config.path \notin {"/healthz", "/livez"}
        /\ \A s \in {config.tools, config.agents} :
              \A i, j \in DOMAIN s : s[i].id = s[j].id => i = j

\* "Refuse to clobber an existing key" (policy_cmd.go): once a whole private
\* key is on disk, no later keygen replaces it, also after one that failed half
\* way.
KeyIsNeverReplaced ==
    [][Readable(keyFile) => keyFile' = keyFile]_vars

\* A SIGTERM that was caught ends the process: it makes the listing of the
\* upstreams fail, or waits for Serve and shuts the listener down, which ends
\* as every request in flight does.
TermEndsServe == term ~> phase = "down"
=============================================================================
