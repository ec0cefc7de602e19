----------------------------- MODULE ResultFlow -----------------------------
(***************************************************************************)
(* The end of CallTool (internal/gateway/gateway.go) for calls of one      *)
(* agent that finish concurrently: the upstream's result is redacted, the  *)
(* strings at the top level of what is left, if it can be decoded, are     *)
(* remembered one by one in the agent's provenance cache, each under the   *)
(* cache's lock, and the result is returned.                               *)
(***************************************************************************)
EXTENDS ProvenanceMap, Obligations

CONSTANTS Call,         \* requests of the agent
          From,         \* the upstream each of them goes to
          UpstreamProvenance,  \* the configured labels
          Result,       \* what the upstream may answer to each
          Obligation,   \* the lists of obligations each may be allowed with
          Address,      \* the addresses in a field of a result that are looked at
          MaxClock      \* bound: ticks of the clock

Field == {"structuredContent", "content"}

ASSUME ClockAssumption == MaxClock \in Nat
ASSUME ResultAssumption ==
    \A c \in Call : \A r \in Result[c] :
        DOMAIN r = Field /\ \A f \in Field : \A x \in Level(r[f])[MaxDepth] : Kids(x) = {}
ASSUME ObligationAssumption ==
    \A c \in Call : Obligation[c] \subseteq Seq([type : STRING, target : Seq(STRING)])
ASSUME AddressAssumption == Address \subseteq Seq(Step)

VARIABLES clock,        \* the wall clock
          cache,        \* provenanceCache.bySubject of the agent
          pc,           \* where each request is
          now,          \* the time it was received
          obligations,  \* what its decision obliges to
          answer,       \* what the upstream answered
          result,       \* what the agent gets
          left          \* positions whose string is still to be remembered

vars == <<clock, cache, pc, now, obligations, answer, result, left>>

NoResult == [f \in Field |-> Sent([other |-> 0])]

Init ==
    /\ clock = 0 /\ cache = NoEntries
    /\ pc = [c \in Call |-> "idle"]
    /\ now = [c \in Call |-> 0]
    /\ obligations = [c \in Call |-> <<>>]
    /\ answer = [c \in Call |-> NoResult]
    /\ result = [c \in Call |-> NoResult]
    /\ left = [c \in Call |-> {}]

Tick ==
    /\ clock < MaxClock
    /\ clock' = clock + 1
    /\ UNCHANGED <<cache, pc, now, obligations, answer, result, left>>

\* CallTool takes the time, and is allowed with these obligations.
CallTool(c, o) ==
    /\ pc[c] = "idle"
    /\ now' = [now EXCEPT ![c] = clock]
    /\ obligations' = [obligations EXCEPT ![c] = o]
    /\ pc' = [pc EXCEPT ![c] = "forward"]
    /\ UNCHANGED <<clock, cache, answer, result, left>>

Answer(c, r) ==
    /\ pc[c] = "forward"
    /\ answer' = [answer EXCEPT ![c] = [f \in Field |-> Sent(r[f])]]
    /\ pc' = [pc EXCEPT ![c] = "oblige"]
    /\ UNCHANGED <<clock, cache, now, obligations, result, left>>

\* Where recordTopLevelStrings finds strings: the fields of an object, the
\* elements of an array, or the value itself (position 0).  It is not called for
\* a field that cannot be decoded.
TopLevel(raw) ==
    LET v == raw.json IN
    IF ~Unmarshals(raw) THEN {}
    ELSE IF Is("obj", v) THEN {k \in DOMAIN v.obj : Is("str", v.obj[k])}
    ELSE IF Is("arr", v) THEN {i \in DOMAIN v.arr : Is("str", v.arr[i])}
    ELSE IF Is("str", v) THEN {0} ELSE {}

StringAt(raw, p) ==
    LET v == raw.json IN
    IF Is("obj", v) THEN v.obj[p].str
    ELSE IF Is("arr", v) THEN v.arr[p].str ELSE v.str

\* The obligations of an allow_with_obligations decision (a plain allow has
\* none), and then the strings of what they leave.
Oblige(c) ==
    LET r == applyObligations(answer[c], obligations[c]) IN
    /\ pc[c] = "oblige"
    /\ result' = [result EXCEPT ![c] = r]
    /\ left' = [left EXCEPT ![c] = TopLevel(r.structuredContent)]
    /\ pc' = [pc EXCEPT ![c] = "remember"]
    /\ UNCHANGED <<clock, cache, now, obligations, answer>>

\* recordResultProvenance's label for what c's upstream returns.
Label(c) ==
    IF From[c] \in DOMAIN UpstreamProvenance THEN UpstreamProvenance[From[c]]
    ELSE [source |-> From[c], trusted |-> FALSE]

\* Mutant: the time of the recording, not of the request.
RememberNow(c, p) ==
    /\ pc[c] = "remember" /\ p \in left[c]
    /\ Is("arr", result[c].structuredContent.json) => \A q \in left[c] : p <= q
    /\ cache' = record(cache, StringAt(result[c].structuredContent, p), Label(c), clock)
    /\ left' = [left EXCEPT ![c] = @ \ {p}]
    /\ UNCHANGED <<clock, pc, now, obligations, answer, result>>

\* recordTopLevelStrings, one string: an array is walked in its order, a map in
\* any order.
Remember(c, p) ==
    /\ pc[c] = "remember" /\ p \in left[c]
    /\ Is("arr", result[c].structuredContent.json) => \A q \in left[c] : p <= q
    /\ cache' = record(cache, StringAt(result[c].structuredContent, p), Label(c), now[c])
    /\ left' = [left EXCEPT ![c] = @ \ {p}]
    /\ UNCHANGED <<clock, pc, now, obligations, answer, result>>

Return(c) ==
    /\ pc[c] = "remember" /\ left[c] = {}
    /\ pc' = [pc EXCEPT ![c] = "done"]
    /\ UNCHANGED <<clock, cache, now, obligations, answer, result, left>>

Finished == (\A c \in Call : pc[c] = "done") /\ UNCHANGED vars

Next ==
    \/ \E c \in Call : \/ \E o \in Obligation[c] : CallTool(c, o)
                       \/ \E r \in Result[c] : Answer(c, r)
                       \/ Oblige(c) \/ Return(c)
                       \/ \E p \in left[c] : Remember(c, p)
    \/ Tick \/ Finished

Spec == Init /\ [][Next]_vars

-----------------------------------------------------------------------------
Given(c) == pc[c] \in {"remember", "done"}
Shown(c) == {StringAt(result[c].structuredContent, p) :
                p \in TopLevel(result[c].structuredContent)}

\* The paths into field f that the first n obligations of a list name.
Paths(os, n, f) ==
    {Tail(os[i].target) : i \in {i \in 1 .. n : /\ os[i].type = "redact"
                                             /\ Len(os[i].target) > 1
                                             /\ Head(os[i].target) = f}}

\* The strings shown so far, and that no choice of them fills the cache.
Strings == (UNION {Shown(c) : c \in {c \in Call : Given(c)}}) \ {EmptyString}
HasRoom == \A S \in SUBSET Strings : ~(Cardinality(S) >= MaxEntries)

\* The types of the variables.
TypeOK ==
    /\ clock \in 0 .. MaxClock
    /\ \A v \in DOMAIN cache : cache[v].expiresAt \in 0 .. MaxClock + TTL
    /\ pc \in [Call -> {"idle", "forward", "oblige", "remember", "done"}]
    /\ now \in [Call -> 0 .. clock]
    /\ \A c \in Call : left[c] \subseteq TopLevel(result[c].structuredContent)

\* Obligations mask exactly the parts of the result that their targets name,
\* each as a whole, in whatever order and spelling they are listed, and leave
\* every other part as the upstream sent it, but for this: a field in which
\* anything is masked has all its numbers rewritten as float64s, and a field
\* with a number that no float64 can hold is passed on as it is, nothing masked
\* (obligations.go, redactInJSON and setAtPath).
RedactionIsExact ==
    \A c \in Call : Given(c) =>
        \A f \in Field :
            IF Unmarshals(answer[c][f])
            THEN Masked(result[c][f], answer[c][f],
                        Paths(obligations[c], Len(obligations[c]), f), Address)
            ELSE result[c][f] = answer[c][f]

\* However the strings of two results interleave, a label the cache gives out
\* is that of an upstream whose result showed this string to the agent, in a
\* request less than TTL old (provenance.go, recordTopLevelStrings).
LabelIsShown ==
    \A v \in DOMAIN cache : resolve(cache, v, clock) # untrustedProvenance =>
        \E c \in Call : /\ Given(c) /\ v \in Shown(c)
                       /\ Label(c) = resolve(cache, v, clock)
                       /\ clock < now[c] + TTL

\* While the strings shown leave room in the cache, each of them (in a field that
\* could be decoded) is traced to an upstream that showed it until the oldest
\* request that showed it is TTL old: a late record of an old request may bring
\* the expiry forward, no further (provenance.go, record).
RoomMeansMemory ==
    HasRoom =>
        \A c \in Call : pc[c] = "done" =>
            \A v \in Shown(c) \ {EmptyString} :
                (\A d \in Call : Given(d) /\ v \in Shown(d) => clock < now[d] + TTL)
                => resolve(cache, v, clock) \in {Label(d) : d \in Call}
=============================================================================
