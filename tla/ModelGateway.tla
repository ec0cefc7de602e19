---------------------------- MODULE ModelGateway ----------------------------
(***************************************************************************)
(* pkg/modelgw/modelgw.go with pkg/modelcatalog: concurrent model calls    *)
(* that are routed by purpose, checked against the catalog of approved     *)
(* models, decided, recorded, sent to a provider or to its fallback, and   *)
(* recorded again, in a process that may crash at any point.               *)
(***************************************************************************)
EXTENDS Integers, Sequences

CONSTANTS Call,         \* requests
          Purpose,      \* purposes a request may name
          Route,        \* purpose -> [primary, fallback], each a Target
          Target,       \* provider and model pairs
          NoTarget,     \* no fallback is configured
          Provider(_),  \* the provider of a pair, as routes name it
          Name(_),      \* what that provider calls itself
          Approved,     \* Model Catalog: the approved pairs
          Resolved(_),  \* model versions a provider may report for a pair
          Policy(_)     \* outcomes the loaded policy may give to a purpose

ASSUME RouteAssumption ==
    \A p \in DOMAIN Route : /\ Route[p].primary \in Target
                            /\ Route[p].fallback \in Target \union {NoTarget}
ASSUME ProviderAssumption == \A t \in Target : Provider(t) # "" /\ Name(t) # ""
ASSUME NoTargetAssumption == NoTarget \notin Target

VARIABLES log,      \* the audit log
          pc,       \* where each request is in Complete
          purpose,  \* Request.Purpose
          resp,     \* Response: Provider, Model and FallbackFrom
          err,      \* requests whose call returned an error
          reply,    \* what the caller got
          invoked   \* history: <<request, pair>> that reached a provider

vars == <<log, pc, purpose, resp, err, reply, invoked>>

-----------------------------------------------------------------------------
Allowing == {"allow", "allow_with_obligations"}

\* catalog.Lookup found an entry, and it is approved.
Lookup(t) == t \in Approved

NoResponse == [provider |-> "", model |-> "", from |-> ""]

primary(c) == Route[purpose[c]].primary
fallback(c) == Route[purpose[c]].fallback

Goto(c, l) == pc' = [pc EXCEPT ![c] = l]
Reply(c, r) == Goto(c, "done") /\ reply' = [reply EXCEPT ![c] = r]

\* An action record; outcomeAction puts the answer into the outcome's record.
Rec(c, o, what) == [call |-> c, outcome |-> o, resource |-> what]

Appended(r) == log' = Append(log, r)
MaybeAppended(r) == log' \in {log, Append(log, r)}

Init ==
    /\ log = <<>>
    /\ pc = [c \in Call |-> "idle"]
    /\ purpose = [c \in Call |-> ""]
    /\ resp = [c \in Call |-> NoResponse]
    /\ err = {}
    /\ reply = [c \in Call |-> ""]
    /\ invoked = {}

\* Complete up to the policy: a route, and an approved primary.
Complete(c, p) ==
    /\ pc[c] = "idle"
    /\ purpose' = [purpose EXCEPT ![c] = p]
    /\ Goto(c, IF p \in DOMAIN Route /\ Lookup(Route[p].primary) THEN "decide"
               ELSE "deny")
    /\ UNCHANGED <<log, resp, err, reply, invoked>>

\* pdp.Decide: an outcome, or an error; anything but an allow is a denial.
Decide(c) ==
    /\ pc[c] = "decide"
    /\ \E o \in Policy(purpose[c]) \union {"error"} :
          Goto(c, IF o \in Allowing THEN "record" ELSE "deny")
    /\ UNCHANGED <<log, purpose, resp, err, reply, invoked>>

\* denyf, and the denial by the policy: failing to record it is only logged.
denyf(c) ==
    /\ pc[c] = "deny"
    /\ MaybeAppended(Rec(c, "denied", NoResponse))
    /\ Reply(c, "denied")
    /\ UNCHANGED <<purpose, resp, err, invoked>>

\* Mutant: a decision that could not be recorded is acted on.
RecordDecisionUnchecked(c) ==
    /\ pc[c] = "record"
    /\ MaybeAppended(Rec(c, "allowed", NoResponse))
    /\ Goto(c, "primary")
    /\ UNCHANGED <<purpose, resp, err, reply, invoked>>

\* The decision is recorded before any provider is called, or the call denied.
RecordDecision(c) ==
    LET r == Rec(c, "allowed", NoResponse) IN
    /\ pc[c] = "record"
    /\ \/ Appended(r) /\ Goto(c, "primary") /\ UNCHANGED reply
       \/ MaybeAppended(r) /\ Reply(c, "denied")
    /\ UNCHANGED <<purpose, resp, err, invoked>>

\* provider.Complete is entered; it answers, naming the model that served, or
\* errors (before or after the backend did the work).
Invoke(c, t, from) ==
    /\ invoked' = invoked \union {<<c, t>>}
    /\ \E m \in Resolved(t) :
          resp' = [resp EXCEPT ![c] = [provider |-> Name(t), model |-> m, from |-> from]]
    /\ Goto(c, "outcome")
    /\ UNCHANGED err

InvokeFails(c, t, next) ==
    /\ invoked' = invoked \union {<<c, t>>}
    /\ err' = IF next = "outcome" THEN err \union {c} ELSE err
    /\ Goto(c, next)
    /\ UNCHANGED resp

\* Mutant: the fallback is not looked up in the catalog.
CallPrimaryUnlisted(c) ==
    /\ pc[c] = "primary"
    /\ \/ Invoke(c, primary(c), "")
       \/ InvokeFails(c, primary(c),
                      IF fallback(c) # NoTarget THEN "fallback" ELSE "outcome")
    /\ UNCHANGED <<log, purpose, reply>>

\* call: the primary provider, and where its error leads.
CallPrimary(c) ==
    /\ pc[c] = "primary"
    /\ \/ Invoke(c, primary(c), "")
       \/ InvokeFails(c, primary(c),
                      IF fallback(c) # NoTarget /\ Lookup(fallback(c))
                      THEN "fallback" ELSE "outcome")
    /\ UNCHANGED <<log, purpose, reply>>

\* Mutant: FallbackFrom is not set.
CallFallbackSilent(c) ==
    /\ pc[c] = "fallback"
    /\ \/ Invoke(c, fallback(c), "")
       \/ InvokeFails(c, fallback(c), "outcome")
    /\ UNCHANGED <<log, purpose, reply>>

\* call: the fallback provider; its answer says which provider it stands in for.
CallFallback(c) ==
    /\ pc[c] = "fallback"
    /\ \/ Invoke(c, fallback(c), Provider(primary(c)))
       \/ InvokeFails(c, fallback(c), "outcome")
    /\ UNCHANGED <<log, purpose, reply>>

\* Mutant: a provider error is returned as ErrDenied.
RecordOutcomeDenies(c) ==
    /\ pc[c] = "outcome"
    /\ MaybeAppended(Rec(c, IF c \in err THEN "failed" ELSE "allowed", resp[c]))
    /\ Reply(c, IF c \in err THEN "denied" ELSE "ok")
    /\ UNCHANGED <<purpose, resp, err, invoked>>

\* The outcome's record; failing to write it is only logged.
RecordOutcome(c) ==
    /\ pc[c] = "outcome"
    /\ MaybeAppended(Rec(c, IF c \in err THEN "failed" ELSE "allowed", resp[c]))
    /\ Reply(c, IF c \in err THEN "failed" ELSE "ok")
    /\ UNCHANGED <<purpose, resp, err, invoked>>

\* The process dies: requests in flight are lost, the log remains.
Crash ==
    /\ pc' = [c \in Call |-> IF pc[c] \in {"idle", "done"} THEN pc[c] ELSE "lost"]
    /\ UNCHANGED <<log, purpose, resp, err, reply, invoked>>

Step(c) ==
    \/ Decide(c) \/ denyf(c) \/ RecordDecision(c) \/ CallPrimary(c)
    \/ CallFallback(c) \/ RecordOutcome(c)

Next ==
    \/ \E c \in Call, p \in Purpose : Complete(c, p)
    \/ \E c \in Call : Step(c)
    \/ Crash

Spec == Init /\ [][Next]_vars

-----------------------------------------------------------------------------
\* The answers a pair may give: a model goes with the provider that reported it.
Answers(t) == [provider : {Name(t)}, model : Resolved(t),
               from : {Provider(u) : u \in Target} \union {""}]
Response == (UNION {Answers(t) : t \in Target}) \union {NoResponse}

\* The types of the variables.
TypeOK ==
    /\ log \in Seq([call : Call, outcome : {"allowed", "denied", "failed"},
                    resource : Response])
    /\ pc \in [Call -> {"idle", "decide", "deny", "record", "primary", "fallback",
                        "outcome", "done", "lost"}]
    /\ purpose \in [Call -> Purpose \union {""}]
    /\ resp \in [Call -> Response] /\ err \subseteq Call
    /\ reply \in [Call -> {"", "ok", "denied", "failed"}]
    /\ invoked \subseteq Call \X Target

Recorded(c, o, what) == \E i \in DOMAIN log : log[i] = Rec(c, o, what)

\* No provider, primary or fallback, is called for a request whose allow is not
\* yet in the log (modelgw.go, Complete).
CallIsRecorded == \A i \in invoked : Recorded(i[1], "allowed", NoResponse)

\* Only approved models of the request's own route are called, and the fallback
\* only after the primary (modelgw.go, Complete and call).
CallIsGoverned ==
    \A i \in invoked :
        LET r == Route[purpose[i[1]]] IN
        /\ i[2] \in Approved
        /\ i[2] = r.primary \/ (i[2] = r.fallback /\ <<i[1], r.primary>> \in invoked)

\* A caller that is told "denied" knows no provider was called, and none will
\* be (modelgw.go, ErrDenied).
DeniedHasNoEffect ==
    \A c \in Call : reply[c] = "denied" => \A t \in Target : <<c, t>> \notin invoked

\* The pair that served a request, if one did: the primary, until it has failed
\* and the fallback is called.
Served(c) == IF <<c, fallback(c)>> \in invoked THEN fallback(c) ELSE primary(c)

Names(c, what) ==
    /\ what.provider = Name(Served(c)) /\ what.model \in Resolved(Served(c))
    /\ what.from = IF Served(c) = primary(c) THEN "" ELSE Provider(primary(c))

\* A fallback is never silent, and nothing else looks like one: an answer, and
\* every record of it, names the provider and the model that served the request,
\* and the primary's provider if and only if the fallback stood in for it
\* (modelgw.go, call and outcomeAction).  A route that falls back to its own
\* primary is left out: the pair does not tell its two calls apart.
FallbackIsVisible ==
    \A c \in Call : purpose[c] \in DOMAIN Route /\ primary(c) # fallback(c) =>
        /\ reply[c] = "ok" => Names(c, resp[c])
        /\ \A i \in DOMAIN log : log[i].call = c /\ log[i].resource # NoResponse
                                    => Names(c, log[i].resource)
=============================================================================
