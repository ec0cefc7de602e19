--------------------------- MODULE SessionTokens ----------------------------
(***************************************************************************)
(* Session identity end to end: internal/devissuer signs session tokens    *)
(* (SITs) and exchanges them for per-call tokens, pkg/identity resolves a  *)
(* SIT against the key set the gateway fetched when it started and has the *)
(* broker exchange it, later, after the decision.  The issuer makes a new  *)
(* key whenever it starts; both processes may restart at any time.         *)
(*                                                                         *)
(* Anyone who holds a token may exchange it at the issuer, for any         *)
(* resource; the gateway is one such client.                               *)
(*                                                                         *)
(* A signed token is its claims with the key that signed them; scope       *)
(* stands for the claims of a SIT that a policy may grant something for    *)
(* (scope, delegation_chain, agent_version).  Gateway and issuer read the  *)
(* same clock.                                                             *)
(***************************************************************************)
EXTENDS Integers, FiniteSets

CONSTANTS Call,         \* tools/call requests
          AgentId,      \* agents that ask for a session
          Upstream,     \* upstream names
          Tool,         \* tool names
          Scope,        \* scopes a session may be issued with
          Audience,     \* the audience of SITs
          SitTTL,       \* how long a SIT is valid
          ExchangeTTL,  \* how long an exchanged token is valid
          MaxClock,     \* bound: clock readings
          MaxIssuers,   \* bound: starts of the issuer
          MaxTokens     \* bound: tokens ever signed

ASSUME TTLAssumption == SitTTL \in Nat \ {0} /\ ExchangeTTL \in Nat \ {0}
ASSUME BoundsAssumption == MaxClock \in Nat /\ MaxIssuers \in Nat \ {0} /\ MaxTokens \in Nat
\* No upstream is named like the gateways' audience (a rule of deployment).
ASSUME AudienceAssumption == Audience \notin Upstream
ASSUME NamesAssumption == "" \notin AgentId

VARIABLES clock,    \* the wall clock
          key,      \* the issuer's key: which start made it
          keySet,   \* the key the gateway's JWTResolver verifies with
          tokens,   \* every token signed so far
          pc,       \* where each request is in CallTool
          cred,     \* the credential it came with
          subject,  \* the agent Resolve returned
          target,   \* the upstream and tool it is for
          minted    \* the token the broker returned

session == <<clock, key, keySet, tokens, pc, cred, subject, target, minted>>

-----------------------------------------------------------------------------
\* born, root and hops are history: when, and under which key, the session
\* began, and how many exchanges lie between it and the token.
Token == [agent : AgentId, aud : Upstream \union {Audience}, tool : Tool \union {""},
          scope : SUBSET Scope, key : 1 .. MaxIssuers, exp : Nat,
          born : Nat, root : 1 .. MaxIssuers, hops : Nat]

NoToken == [agent |-> "", aud |-> "", tool |-> "", scope |-> {}, key |-> 0, exp |-> 0,
            born |-> 0, root |-> 0, hops |-> 0]

NoSubject == [id |-> "", scope |-> {}]

\* jwt.Parse with a key set, validation and an audience.
Valid(t, k, aud) == t.key = k /\ clock < t.exp /\ t.aud = aud

Goto(c, l) == pc' = [pc EXCEPT ![c] = l]

SessionInit ==
    /\ clock = 0 /\ key = 1 /\ keySet = 1 /\ tokens = {}
    /\ pc = [c \in Call |-> "idle"]
    /\ cred = [c \in Call |-> NoToken]
    /\ subject = [c \in Call |-> NoSubject]
    /\ target = [c \in Call |-> <<"", "">>]
    /\ minted = [c \in Call |-> NoToken]

Tick ==
    /\ clock < MaxClock
    /\ clock' = clock + 1
    /\ UNCHANGED <<key, keySet, tokens, pc, cred, subject, target, minted>>

-----------------------------------------------------------------------------
\* The issuer starts again, with a key nobody has fetched yet.
New ==
    /\ key < MaxIssuers
    /\ key' = key + 1
    /\ UNCHANGED <<clock, keySet, tokens, pc, cred, subject, target, minted>>

Signable(t) == Cardinality(tokens \union {t}) <= MaxTokens

\* /issue: a session for a named agent, with the scopes it asks for.
IssueSIT(a, sc) ==
    LET t == [agent |-> a, aud |-> Audience, tool |-> "", scope |-> sc, key |-> key,
              exp |-> clock + SitTTL, born |-> clock, root |-> key, hops |-> 0] IN
    /\ a # "" /\ Signable(t)
    /\ tokens' = tokens \union {t}
    /\ UNCHANGED <<clock, key, keySet, pc, cred, subject, target, minted>>

\* Mutant: the exchanged token is a copy of the SIT with another audience.
DownstreamCopies(s, u, tl) ==
    [agent |-> s.agent, aud |-> u, tool |-> tl, scope |-> s.scope, key |-> key,
     exp |-> clock + ExchangeTTL, born |-> s.born, root |-> s.root, hops |-> s.hops + 1]

\* The token Issuer.Exchange signs for subject token s: the agent's name, the
\* resource as its audience, and none of the session's other claims.
Downstream(s, u, tl) ==
    [agent |-> s.agent, aud |-> u, tool |-> tl, scope |-> {}, key |-> key,
     exp |-> clock + ExchangeTTL, born |-> s.born, root |-> s.root, hops |-> s.hops + 1]

\* Mutant: the issuer still honours the keys it had before.
GrantsOldKey(s, u, tl) == u # "" /\ tl # "" /\ s.key <= key /\ Valid(s, s.key, Audience)

\* Mutant: the subject token's expiry is not looked at again.
GrantsExpired(s, u, tl) == u # "" /\ tl # "" /\ s.key = key /\ s.aud = Audience

\* What handleExchange and Issuer.Exchange require: the form fields, and a
\* subject token of this issuer's own key, alive, for the gateways' audience.
\* Which resource it is for is not looked at.
Grants(s, u, tl) == u # "" /\ tl # "" /\ Valid(s, key, Audience)

\* /token-exchange for a client other than the gateway.
handleExchange(s, u, tl) ==
    LET t == Downstream(s, u, tl) IN
    /\ Grants(s, u, tl) /\ Signable(t)
    /\ tokens' = tokens \union {t}
    /\ UNCHANGED <<clock, key, keySet, pc, cred, subject, target, minted>>

-----------------------------------------------------------------------------
\* The gateway starts: it fetches the key set once.  Requests in flight are lost.
runServe ==
    /\ keySet' = key
    /\ pc' = [c \in Call |-> IF pc[c] \in {"idle", "done"} THEN pc[c] ELSE "lost"]
    /\ UNCHANGED <<clock, key, tokens, cred, subject, target, minted>>

\* JWTResolver.Resolve, for a credential that may be any token ever signed.
Resolve(c, t, u, tl) ==
    /\ pc[c] = "idle"
    /\ cred' = [cred EXCEPT ![c] = t]
    /\ target' = [target EXCEPT ![c] = <<u, tl>>]
    /\ IF Valid(t, keySet, Audience)
       THEN /\ subject' = [subject EXCEPT ![c] = [id |-> t.agent, scope |-> t.scope]]
            /\ Goto(c, "exchange")
       ELSE Goto(c, "done") /\ UNCHANGED subject
    /\ UNCHANGED <<clock, key, keySet, tokens, minted>>

\* Mutant: the SIT is exchanged under the agent's name with the wrong upstream.
ExchangeOtherUpstream(c) ==
    /\ pc[c] = "exchange"
    /\ \E u \in Upstream :
          LET t == Downstream(cred[c], u, target[c][2]) IN
          /\ Grants(cred[c], u, target[c][2]) /\ Signable(t)
          /\ tokens' = tokens \union {t}
          /\ minted' = [minted EXCEPT ![c] = t] /\ Goto(c, "call")
    /\ UNCHANGED <<clock, key, keySet, cred, subject, target>>

\* HTTPCredentialBroker.Exchange with the issuer's handler: the issuer verifies
\* the SIT again, with its own key and at its own time, and signs; its answer
\* arrives or is lost.  Otherwise the request is refused or never arrives.
Exchange(c) ==
    LET t == Downstream(cred[c], target[c][1], target[c][2]) IN
    /\ pc[c] = "exchange"
    /\ \/ /\ Grants(cred[c], target[c][1], target[c][2]) /\ Signable(t)
          /\ tokens' = tokens \union {t}
          /\ \/ minted' = [minted EXCEPT ![c] = t] /\ Goto(c, "call")
             \/ Goto(c, "failed") /\ UNCHANGED minted
       \/ Goto(c, "failed") /\ UNCHANGED <<tokens, minted>>
    /\ UNCHANGED <<clock, key, keySet, cred, subject, target>>

SessionNext ==
    \/ Tick \/ New \/ runServe
    \/ \E a \in AgentId \union {""}, sc \in SUBSET Scope : IssueSIT(a, sc)
    \/ \E t \in tokens, u \in Upstream \union {Audience, ""}, tl \in Tool \union {""} :
          handleExchange(t, u, tl)
    \/ \E c \in Call, t \in tokens, u \in Upstream, tl \in Tool : Resolve(c, t, u, tl)
    \/ \E c \in Call : Exchange(c)

SessionSpec == SessionInit /\ [][SessionNext]_session

-----------------------------------------------------------------------------
\* The types of the variables.
SessionTypeOK ==
    /\ clock \in 0 .. MaxClock /\ key \in 1 .. MaxIssuers /\ keySet \in 1 .. key
    /\ tokens \subseteq Token
    /\ pc \in [Call -> {"idle", "exchange", "call", "failed", "done", "lost"}]
    /\ cred \in [Call -> Token \union {NoToken}]
    /\ subject \in [Call -> [id : AgentId \union {""}, scope : SUBSET Scope]]
    /\ target \in [Call -> (Upstream \union {""}) \X (Tool \union {""})]
    /\ minted \in [Call -> Token \union {NoToken}]

\* An exchange buys one exchange TTL and no more: a credential that lies n
\* exchanges from its session is dead n exchange TTLs after the session is,
\* whatever is exchanged for which resource, when, and by whom (devissuer.go,
\* IssueSIT and Exchange).
CredentialsDie == \A t \in tokens : t.exp <= t.born + SitTTL + t.hops * ExchangeTTL

\* What a session grants, only the session itself opens a call with: a subject
\* with a scope came with a token that IssueSIT signed, never with an exchanged
\* one, not even one that was exchanged for the gateways' own audience; and what
\* the gateway presented to an upstream opens no call at all (devissuer.go:
\* "never a copy or a re-audience of the SIT itself"; jwt.go, Resolve).
OnlySessionsGrant ==
    \A c \in Call :
        /\ subject[c].scope # {} => cred[c].hops = 0
        /\ subject[c].id # "" => \A d \in Call : minted[d] # cred[c]

\* The issuer's restart ends every session: no token is signed with the new key
\* on the strength of one signed with the old (devissuer.go, New and Exchange).
RestartEndsSessions == \A t \in tokens : t.root = t.key

\* The credential a call goes out with was minted for the agent that the policy
\* decided on, for the call's own upstream and tool, and under the key that the
\* gateway trusts, although issuer and gateway verify the session separately and
\* either may have restarted in between (broker.go and jwt.go).
MintedForSubject ==
    \A c \in Call : pc[c] = "call" =>
        /\ minted[c].agent = subject[c].id
        /\ <<minted[c].aud, minted[c].tool>> = target[c]
        /\ minted[c].key = keySet
=============================================================================
