---------------------------- MODULE ToolGateway -----------------------------
(***************************************************************************)
(* internal/gateway/gateway.go: concurrent tools/call and tools/list       *)
(* requests against the shared usage tracker, provenance cache and audit   *)
(* log, with a policy decision point, a credential broker and upstreams    *)
(* that may each fail, and a process that may crash and start again.       *)
(*                                                                         *)
(* A request carries one string argument and a result at most one string.  *)
(* Every action is one stretch of a handler between two points where other *)
(* goroutines can run: a lock, a network call or an fsync.                 *)
(***************************************************************************)
EXTENDS UsageWindow, ProvenanceMap, Sequences

CONSTANTS Call,               \* requests
          Cred,               \* credentials a tools/call may carry
          ListCred,           \* credentials a tools/list may carry
          Identity,           \* resolvable credential -> [id, version]
          AgentReg,           \* declared agent id -> pinned version or ""
          Tool,               \* tool names a request may carry
          Route,              \* mcp.Registry: tool -> upstream
          ToolReg,            \* Tool Registry: tool -> declared upstream or ""
          UpstreamProvenance, \* configured upstream -> its label
          Value,              \* strings in arguments and results
          Redacted,           \* redactedPlaceholder
          HasBroker,          \* a credential broker is configured
          Policy(_, _, _, _), \* outcomes the loaded policy may give to
                              \* (agent id, tool, argument labels, calls in window)
          rate_limits,        \* limits.rego: tool -> its calls per window
          MaxClock,           \* bound: clock readings
          MaxBoots            \* bound: starts of the process

ASSUME BoundsAssumption == MaxClock \in Nat /\ MaxBoots \in Nat \ {0}
ASSUME BrokerAssumption == HasBroker \in BOOLEAN
ASSUME LimitsAssumption == \A t \in DOMAIN rate_limits : rate_limits[t] \in Nat

VARIABLES clock,    \* the wall clock
          boot,     \* which start of the process this is
          usage,    \* usageTracker.state, per agent id
          prov,     \* provenanceCache.bySubject, per agent id
          log,      \* the audit log
          pc,       \* where each request is in its handler
          req,      \* credential, tool, argument and now of each request
          seen,     \* what the policy is told beyond that: label, count, window
          outcome,  \* the policy decision, after decide's error handling
          token,    \* credential for the upstream: <<>> is the static one
          result,   \* strings in the upstream's result (at most one)
          reply,    \* what the client got
          todo,     \* tools/list: tools still to look at
          visible,  \* tools/list: tools put in the answer
          effects,  \* history: calls executed by upstreams
          returned  \* history: strings returned by upstreams

local == <<req, seen, outcome, token, result, reply, todo, visible>>
history == <<effects, returned>>
vars == <<clock, boot, usage, prov, log, pc, local, history>>

-----------------------------------------------------------------------------
Agent == {Identity[cr].id : cr \in DOMAIN Identity}
Allowing == {"allow", "allow_with_obligations"}

\* identity.Resolver, mcp.Registry and toolregistry.Registry know the key.
Resolves(cr) == cr \in DOMAIN Identity
Routed(t) == t \in DOMAIN Route
Registered(t) == t \in DOMAIN ToolReg

\* agentDenyReason: declared, and not pinned to another version than asserted.
Declared(s) ==
    /\ s.id \in DOMAIN AgentReg
    /\ "" \in {AgentReg[s.id], s.version} \/ AgentReg[s.id] = s.version

\* Mutant: the registered upstream is not compared.
refusalNoUpstream(cr, t) ==
    IF ~Resolves(cr) THEN "identity.unresolved"
    ELSE IF ~Declared(Identity[cr]) THEN "agentregistry.undeclared"
    ELSE IF ~Routed(t) THEN "unknown tool"
    ELSE IF ~Registered(t) THEN "toolregistry.undeclared"
    ELSE ""

\* The checks of CallTool before it asks the policy, in their order; "" if all
\* of them pass.
refusal(cr, t) ==
    IF ~Resolves(cr) THEN "identity.unresolved"
    ELSE IF ~Declared(Identity[cr]) THEN "agentregistry.undeclared"
    ELSE IF ~Routed(t) THEN "unknown tool"
    ELSE IF ~Registered(t) THEN "toolregistry.undeclared"
    ELSE IF ToolReg[t] \notin {"", Route[t]} THEN "toolregistry.upstream_mismatch"
    ELSE ""

\* The label recordResultProvenance gives to what upstream u returns.
UpstreamLabel(u) ==
    IF u \in DOMAIN UpstreamProvenance THEN UpstreamProvenance[u]
    ELSE [source |-> u, trusted |-> FALSE]

agent(c) == Identity[req[c].cred].id
upstream(c) == Route[req[c].tool]

Goto(c, l) == pc' = [pc EXCEPT ![c] = l]
Reply(c, r) == Goto(c, "done") /\ reply' = [reply EXCEPT ![c] = r]

\* An action record of request c.
Rec(c, o) == [call |-> c, outcome |-> o]

\* audit.Store.Append returned nil; or it returned an error, or an error would
\* not be looked at: then the record may or may not be in the file (FileStore).
Appended(r) == log' = Append(log, r)
MaybeAppended(r) == log' \in {log, Append(log, r)}

-----------------------------------------------------------------------------
NoReq == [cred |-> "", tool |-> "", arg |-> "", now |-> 0]
NotSeen == [label |-> untrustedProvenance, count |-> 0, window |-> <<0, 0>>]

Init ==
    /\ clock = 0 /\ boot = 1
    /\ usage = [a \in Agent |-> NoWindow]
    /\ prov = [a \in Agent |-> NoEntries]
    /\ log = <<>>
    /\ pc = [c \in Call |-> "idle"]
    /\ req = [c \in Call |-> NoReq]
    /\ seen = [c \in Call |-> NotSeen]
    /\ outcome = [c \in Call |-> ""]
    /\ token = [c \in Call |-> <<>>]
    /\ result = [c \in Call |-> {}]
    /\ reply = [c \in Call |-> ""]
    /\ todo = [c \in Call |-> {}]
    /\ visible = [c \in Call |-> {}]
    /\ effects = {} /\ returned = {}

Tick ==
    /\ clock < MaxClock
    /\ clock' = clock + 1
    /\ UNCHANGED <<boot, usage, prov, log, pc, local, history>>

\* CallTool up to the first shared state: now, identity, agent registry, route,
\* tool registry.  An unknown tool is a protocol error and leaves no record.
CallTool(c, cr, t, v) ==
    LET why == refusal(cr, t) IN
    /\ pc[c] = "idle"
    /\ req' = [req EXCEPT ![c] = [cred |-> cr, tool |-> t, arg |-> v, now |-> clock]]
    /\ IF why = "unknown tool" THEN Reply(c, "unknown_tool")
       ELSE Goto(c, IF why = "" THEN "taint" ELSE "deny") /\ UNCHANGED reply
    /\ UNCHANGED <<clock, boot, usage, prov, log, seen, outcome, token, result,
                   todo, visible, history>>

\* The four deny helpers: one record; its failure is only logged.
Deny(c) ==
    /\ pc[c] = "deny"
    /\ MaybeAppended(Rec(c, "denied"))
    /\ Reply(c, "denied")
    /\ UNCHANGED <<clock, boot, usage, prov, req, seen, outcome, token, result,
                   todo, visible, history>>

taintArguments(c) ==
    /\ pc[c] = "taint"
    /\ seen' = [seen EXCEPT ![c].label =
                   resolve(prov[agent(c)], req[c].arg, req[c].now)]
    /\ Goto(c, "count")
    /\ UNCHANGED <<clock, boot, usage, prov, log, req, outcome, token, result,
                   reply, todo, visible, history>>

\* Mutant: the policy is shown the calls before this one.
CountCallPeeks(c) ==
    LET w == recordAndCount(usage[agent(c)], req[c].now) IN
    /\ pc[c] = "count"
    /\ usage' = [usage EXCEPT ![agent(c)] = w]
    /\ seen' = [seen EXCEPT ![c].count = w.count - 1, ![c].window = <<boot, w.start>>]
    /\ Goto(c, "decide")
    /\ UNCHANGED <<clock, boot, prov, log, req, outcome, token, result, reply,
                   todo, visible, history>>

\* usage.usage: count this call, under the tracker's lock, at the request's now.
CountCall(c) ==
    LET w == recordAndCount(usage[agent(c)], req[c].now) IN
    /\ pc[c] = "count"
    /\ usage' = [usage EXCEPT ![agent(c)] = w]
    /\ seen' = [seen EXCEPT ![c].count = w.count, ![c].window = <<boot, w.start>>]
    /\ Goto(c, "decide")
    /\ UNCHANGED <<clock, boot, prov, log, req, outcome, token, result, reply,
                   todo, visible, history>>

\* decide: the policy's outcome, or an error (a timeout, say), which is a deny.
decide(c) ==
    /\ pc[c] = "decide"
    /\ \E o \in Policy(agent(c), req[c].tool, {seen[c].label}, seen[c].count)
                \union {"error"} :
          outcome' = [outcome EXCEPT ![c] = IF o = "error" THEN "deny" ELSE o]
    /\ Goto(c, "record")
    /\ UNCHANGED <<clock, boot, usage, prov, log, req, seen, token, result,
                   reply, todo, visible, history>>

\* Mutant: a decision that could not be recorded is acted on.
RecordDecisionUnchecked(c) ==
    LET r == Rec(c, IF outcome[c] \in Allowing THEN "allowed" ELSE "denied") IN
    /\ pc[c] = "record"
    /\ MaybeAppended(r)
    /\ IF outcome[c] \in Allowing
       THEN Goto(c, IF HasBroker THEN "exchange" ELSE "forward") /\ UNCHANGED reply
       ELSE Reply(c, "denied")
    /\ UNCHANGED <<clock, boot, usage, prov, req, seen, outcome, token, result,
                   todo, visible, history>>

\* The decision record.  If it cannot be made durable the call is denied,
\* whatever the policy said.
RecordDecision(c) ==
    LET r == Rec(c, IF outcome[c] \in Allowing THEN "allowed" ELSE "denied") IN
    /\ pc[c] = "record"
    /\ \/ /\ Appended(r)
          /\ IF outcome[c] \in Allowing
             THEN Goto(c, IF HasBroker THEN "exchange" ELSE "forward") /\ UNCHANGED reply
             ELSE Reply(c, "denied")
       \/ MaybeAppended(r) /\ Reply(c, "denied")
    /\ UNCHANGED <<clock, boot, usage, prov, req, seen, outcome, token, result,
                   todo, visible, history>>

\* What the issuer mints: a token for one agent, upstream and tool.
Minted(c) == <<agent(c), upstream(c), req[c].tool>>

\* Mutant: without a minted token the static credential is used.
ExchangeFallsBack(c) ==
    /\ pc[c] = "exchange"
    /\ token' \in {token, [token EXCEPT ![c] = Minted(c)]}
    /\ Goto(c, "forward")
    /\ UNCHANGED <<clock, boot, usage, prov, log, req, seen, outcome, result,
                   reply, todo, visible, history>>

\* broker.Exchange: a token for this agent, upstream and tool, or an error.
Exchange(c) ==
    /\ pc[c] = "exchange"
    /\ \/ /\ token' = [token EXCEPT ![c] = Minted(c)]
          /\ Goto(c, "forward")
       \/ Goto(c, "fail") /\ UNCHANGED token
    /\ UNCHANGED <<clock, boot, usage, prov, log, req, seen, outcome, result,
                   reply, todo, visible, history>>

\* upstream.CallTool: executed and answered, executed and the answer lost, or
\* not executed at all.
Executed(c) ==
    effects' = effects \union
        {[call |-> c, agent |-> agent(c), tool |-> req[c].tool,
          upstream |-> upstream(c), arg |-> req[c].arg, token |-> token[c]]}

Forward(c) ==
    /\ pc[c] = "forward"
    /\ \/ /\ Executed(c)
          /\ \E r \in {{}} \union {{v} : v \in Value} :
                /\ result' = [result EXCEPT ![c] = r]
                /\ returned' = returned \union
                      {[agent |-> agent(c), value |-> v, at |-> req[c].now,
                        label |-> UpstreamLabel(upstream(c))] : v \in r}
          /\ Goto(c, "finish")
       \/ Executed(c) /\ Goto(c, "fail") /\ UNCHANGED <<result, returned>>
       \/ Goto(c, "fail") /\ UNCHANGED <<result, history>>
    /\ UNCHANGED <<clock, boot, usage, prov, log, req, seen, outcome, token,
                   reply, todo, visible>>

\* Mutant: a failed call is reported as a denied one.
RecordFailureDenies(c) ==
    /\ pc[c] = "fail"
    /\ MaybeAppended(Rec(c, "failed"))
    /\ Reply(c, "denied")
    /\ UNCHANGED <<clock, boot, usage, prov, req, seen, outcome, token, result,
                   todo, visible, history>>

\* A second record for an exchange or an upstream call that failed; failing to
\* write it is only logged.
RecordFailure(c) ==
    /\ pc[c] = "fail"
    /\ MaybeAppended(Rec(c, "failed"))
    /\ Reply(c, "failed")
    /\ UNCHANGED <<clock, boot, usage, prov, req, seen, outcome, token, result,
                   todo, visible, history>>

\* What obligations may turn the result into.  A redaction whose path does not
\* resolve leaves the value as it is.
applyObligations(c) ==
    {result[c]} \union (IF outcome[c] = "allow_with_obligations" /\ result[c] # {}
                        THEN {{Redacted}} ELSE {})

\* The cache after the result's string is recorded, at the request's own now.
recordResultProvenance(c, shown) ==
    IF shown = {} THEN prov
    ELSE [prov EXCEPT ![agent(c)] = record(@, CHOOSE v \in shown : TRUE,
                                           UpstreamLabel(upstream(c)), req[c].now)]

\* The end of CallTool: obligations, provenance, and the answer.
Finish(c) ==
    /\ pc[c] = "finish"
    /\ \E shown \in applyObligations(c) :
          /\ result' = [result EXCEPT ![c] = shown]
          /\ prov' = recordResultProvenance(c, shown)
    /\ Reply(c, "ok")
    /\ UNCHANGED <<clock, boot, usage, log, req, seen, outcome, token, todo,
                   visible, history>>

-----------------------------------------------------------------------------
\* ListTools: unknown or undeclared callers get an empty list; otherwise every
\* routed tool is looked at in turn.
ListTools(c, cr) ==
    /\ pc[c] = "idle"
    /\ req' = [req EXCEPT ![c] = [NoReq EXCEPT !.cred = cr, !.now = clock]]
    /\ IF Resolves(cr) /\ Declared(Identity[cr])
       THEN /\ todo' = [todo EXCEPT ![c] = DOMAIN Route]
            /\ Goto(c, "list") /\ UNCHANGED reply
       ELSE Reply(c, "listed") /\ UNCHANGED todo
    /\ UNCHANGED <<clock, boot, usage, prov, log, seen, outcome, token, result,
                   visible, history>>

\* One tool: registered, and allowed by the policy, which sees no arguments and
\* a peek at the usage; an error hides the tool.
ListOne(c, t) ==
    /\ pc[c] = "list" /\ t \in todo[c]
    /\ todo' = [todo EXCEPT ![c] = @ \ {t}]
    /\ \/ /\ Registered(t)
          /\ \E o \in Policy(agent(c), t, {}, peek(usage[agent(c)], req[c].now)) :
                o \in Allowing
          /\ visible' = [visible EXCEPT ![c] = @ \union {t}]
       \/ UNCHANGED visible
    /\ IF todo[c] = {t} THEN Reply(c, "listed") ELSE UNCHANGED <<pc, reply>>
    /\ UNCHANGED <<clock, boot, usage, prov, log, req, seen, outcome, token,
                   result, history>>

-----------------------------------------------------------------------------
\* The process dies and starts again: requests in flight are lost, the tracker
\* and the cache start empty, the audit log and what upstreams did remain.
Crash ==
    /\ boot < MaxBoots
    /\ boot' = boot + 1
    /\ usage' = [a \in Agent |-> NoWindow]
    /\ prov' = [a \in Agent |-> NoEntries]
    /\ pc' = [c \in Call |-> IF pc[c] \in {"idle", "done"} THEN pc[c] ELSE "lost"]
    /\ UNCHANGED <<clock, log, local, history>>

\* Nothing left to do.
Finished ==
    /\ \A c \in Call : pc[c] \in {"done", "lost"}
    /\ UNCHANGED vars

Step(c) ==
    \/ Deny(c) \/ taintArguments(c) \/ CountCall(c) \/ decide(c)
    \/ RecordDecision(c) \/ Exchange(c) \/ Forward(c) \/ RecordFailure(c)
    \/ Finish(c) \/ \E t \in DOMAIN Route : ListOne(c, t)

Next ==
    \/ \E c \in Call : Step(c)
    \/ \E c \in Call, cr \in Cred, t \in Tool, v \in Value : CallTool(c, cr, t, v)
    \/ \E c \in Call, cr \in ListCred : ListTools(c, cr)
    \/ Tick \/ Crash \/ Finished

Spec == Init /\ [][Next]_vars

-----------------------------------------------------------------------------
\* The labels there are: that of the untraced, and those of the upstreams.
Label == {untrustedProvenance} \union {UpstreamLabel(Route[t]) : t \in DOMAIN Route}

\* The types of the variables.
TypeOK ==
    /\ clock \in 0 .. MaxClock /\ boot \in 1 .. MaxBoots
    /\ usage \in [Agent -> WindowState]
    /\ \A a \in Agent : \A v \in DOMAIN prov[a] :
          v \in Value \union {Redacted} /\ prov[a][v] \in [prov : Label, expiresAt : Nat]
    /\ log \in Seq([call : Call, outcome : {"allowed", "denied", "failed"}])
    /\ pc \in [Call -> {"idle", "deny", "taint", "count", "decide", "record",
                        "exchange", "forward", "finish", "fail", "list", "done", "lost"}]
    /\ \A c \in Call : /\ req[c].now \in Nat
                       /\ seen[c].label \in Label /\ seen[c].count \in Nat
    /\ outcome \in [Call -> {"", "allow", "allow_with_obligations", "deny"}]
    /\ reply \in [Call -> {"", "ok", "denied", "failed", "unknown_tool", "listed"}]
    /\ \A c \in Call : /\ result[c] \subseteq Value \union {Redacted}
                       /\ todo[c] \subseteq DOMAIN Route /\ visible[c] \subseteq DOMAIN Route

\* No upstream executes a call that the audit log does not already show as
\* allowed, crashes and failed appends included (gateway.go, CallTool).
EffectIsRecorded ==
    \A e \in effects : \E i \in DOMAIN log : log[i] = Rec(e.call, "allowed")

\* What an upstream executes came from a declared agent in its pinned version,
\* names a registered tool, reached the upstream the tool is registered for,
\* and was allowed by the policy (gateway.go, CallTool).
EffectIsGoverned ==
    \A e \in effects :
        /\ Declared(Identity[req[e.call].cred])
        /\ Registered(e.tool) /\ ToolReg[e.tool] \in {"", e.upstream}
        /\ outcome[e.call] \in Allowing

\* A client that is told "denied" or "unknown tool" knows that no upstream has
\* executed its call, nor ever will (gateway.go, deniedResult).
DeniedHasNoEffect ==
    \A c \in Call : reply[c] \in {"denied", "unknown_tool"}
                      => \A e \in effects : e.call # c

\* With a broker, upstreams only see credentials minted for exactly this agent,
\* upstream and tool, never the static one (gateway.go, broker.Exchange).
TokenIsScoped ==
    HasBroker => \A e \in effects : e.token = <<e.agent, e.upstream, e.tool>>

\* An argument is labelled with a source only if that source returned the very
\* string to the same agent, in a request less than TTL older (provenance.go).
\* The placeholder, which the gateway itself puts into results, is left out.
LabelIsTraced ==
    \A c \in Call :
        req[c].arg # Redacted /\ seen[c].label # untrustedProvenance
        => \E r \in returned :
              /\ r.agent = agent(c) /\ r.value = req[c].arg
              /\ r.label = seen[c].label
              /\ req[c].now < r.at + TTL

\* S has at most n elements: they can be given different places from 1 to n.
AtMost(n, S) ==
    \E place \in [S -> 1 .. n] : \A d, e \in S : place[d] = place[e] => d = e

\* The policy's ceilings hold: per agent and window no more calls of a tool are
\* allowed than its limit, however they interleave (usage.go with limits.rego).
RateIsLimited ==
    \A t \in DOMAIN rate_limits : \A c \in Call : outcome[c] \in Allowing =>
        AtMost(rate_limits[t],
               {d \in Call : /\ outcome[d] \in Allowing /\ req[d].tool = t
                             /\ agent(d) = agent(c)
                             /\ seen[d].window = seen[c].window})

\* Every denial a client hears of is in the log (gateway.go, the deny helpers).
\* This is not so when the record of a refusal before the policy fails.
DenialIsRecorded ==
    \A c \in Call :
        reply[c] = "denied" /\ refusal(req[c].cred, req[c].tool) # ""
            => \E i \in DOMAIN log : log[i] = Rec(c, "denied")
=============================================================================
