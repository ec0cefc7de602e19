------------------------- MODULE ModelGatewayProofs -------------------------
(***************************************************************************)
(* For any number of requests, any routes, catalog and policy, and crashes *)
(* at any point: providers are only called for requests that are recorded, *)
(* with approved models of their route, never after a denial, and an       *)
(* answer of a fallback is never silent.                                   *)
(***************************************************************************)
EXTENDS ModelGateway, TLAPS

Records == [call : Call, outcome : {"allowed", "denied", "failed"}, resource : Response]
Contains(l, r) == \E i \in DOMAIN l : l[i] = r

\* The part of the type invariant the argument needs.
Shape ==
    /\ log \in Seq(Records)
    /\ DOMAIN pc = Call /\ DOMAIN purpose = Call /\ DOMAIN reply = Call
    /\ resp \in [Call -> Response]

\* No answer, or one that names what served the request.
Visible(what, c) ==
    what = NoResponse \/ (primary(c) # fallback(c) => Names(c, what))

Early == {"decide", "deny", "record", "primary", "fallback"}

\* What is known of a request from where it is in Complete.
Routed(c) ==
    pc[c] \in {"decide", "record", "primary", "fallback"} =>
        purpose[c] \in DOMAIN Route /\ primary(c) \in Approved

Allowed(c) ==
    pc[c] \in {"primary", "fallback"} => Contains(log, Rec(c, "allowed", NoResponse))

Replaced(c) ==
    pc[c] = "fallback" => /\ fallback(c) \in Approved /\ fallback(c) # NoTarget
                          /\ <<c, primary(c)>> \in invoked

Answered(c) ==
    /\ pc[c] \in Early \union {"idle"} => resp[c] = NoResponse
    /\ pc[c] = "outcome" /\ resp[c] = NoResponse => c \in err
    /\ reply[c] # "" => pc[c] = "done"
    /\ reply[c] = "ok" => resp[c] # NoResponse
    /\ Visible(resp[c], c)

Request(c) == Routed(c) /\ Allowed(c) /\ Replaced(c) /\ Answered(c)

\* A call that reached a provider was recorded, went to an approved model of the
\* request's route, and its request is past the primary and not denied.
Accounted(i) ==
    /\ i \in Call \X Target
    /\ pc[i[1]] \in {"fallback", "outcome", "done", "lost"}
    /\ reply[i[1]] # "denied"
    /\ Contains(log, Rec(i[1], "allowed", NoResponse))
    /\ i[2] \in Approved
    /\ \/ i[2] = primary(i[1])
       \/ i[2] = fallback(i[1]) /\ <<i[1], primary(i[1])>> \in invoked

\* A record belongs to a request that has begun, names an answer only once there
\* is one, and hides no fallback.
Traceable(r) ==
    /\ pc[r.call] # "idle" /\ Visible(r.resource, r.call)
    /\ pc[r.call] \in Early => r.resource = NoResponse

\* The inductive invariant.
CompleteInv ==
    /\ Shape
    /\ \A c \in Call : Request(c)
    /\ \A i \in invoked : Accounted(i)
    /\ \A k \in DOMAIN log : Traceable(log[k])

Late == {"fallback", "outcome", "done", "lost"}

-----------------------------------------------------------------------------
\* Append keeps what the log contains, and a record that was put in is there.
LEMMA LogGrows ==
    ASSUME NEW S, NEW l \in Seq(S), NEW r \in S, NEW m, m \in {l, Append(l, r)}
    PROVE  /\ m \in Seq(S)
           /\ \A x : Contains(l, x) => Contains(m, x)
           /\ m = Append(l, r) => Contains(m, r)
           /\ \A k \in DOMAIN m : (k \in DOMAIN l /\ m[k] = l[k]) \/ m[k] = r
<1>1. CASE m = l
  <2>1. ASSUME m = Append(l, r) PROVE FALSE
    <3>1. Len(Append(l, r)) = Len(l) + 1 /\ Len(l) \in Nat
      OBVIOUS
    <3>2. QED BY <1>1, <2>1, <3>1
  <2>2. QED BY <1>1, <2>1, Zenon
<1>2. CASE m = Append(l, r)
  <2>1. m \in Seq(S)
    BY <1>2
  <2>2. m[Len(l) + 1] = r /\ Len(l) + 1 \in DOMAIN m
    BY <1>2
  <2>3. \A i \in DOMAIN l : i \in DOMAIN m /\ m[i] = l[i]
    BY <1>2
  <2>4. \A k \in DOMAIN m : k \in DOMAIN l \/ k = Len(l) + 1
    BY <1>2
  <2>5. QED BY <2>1, <2>2, <2>3, <2>4, Zenon DEF Contains
<1>3. QED BY <1>1, <1>2, Zenon

\* The answers that requests hold and records carry.
LEMMA AnswerTypes ==
    /\ NoResponse \in Response
    /\ \A t \in Target, from \in {Provider(u) : u \in Target} \union {""} :
          \A m \in Resolved(t) : [provider |-> Name(t), model |-> m, from |-> from] \in Response
<1>1. NoResponse \in Response
  BY Zenon DEF Response
<1>2. ASSUME NEW t \in Target, NEW from \in {Provider(u) : u \in Target} \union {""},
             NEW m \in Resolved(t)
      PROVE  [provider |-> Name(t), model |-> m, from |-> from] \in Response
  <2>1. [provider |-> Name(t), model |-> m, from |-> from] \in Answers(t)
    BY Zenon DEF Answers
  <2>2. QED BY <2>1, Zenon DEF Response
<1>3. QED BY <1>1, <1>2, Zenon

\* New calls of c are no calls of another request.
LEMMA OthersCalls ==
    ASSUME NEW I, NEW J, I \subseteq J, NEW c, \A i \in J \ I : i[1] = c, NEW d, d # c
    PROVE  \A t : <<d, t>> \in J <=> <<d, t>> \in I
<1>1. \A t : <<d, t>>[1] = d
  OBVIOUS
<1>2. QED BY <1>1, Zenon

\* What a request is served by depends on its own calls only.
LEMMA SameServed ==
    ASSUME NEW c, NEW what, purpose'[c] = purpose[c],
           \A t : <<c, t>> \in invoked' <=> <<c, t>> \in invoked, Visible(what, c)
    PROVE  Visible(what, c)'
<1>1. primary(c)' = primary(c) /\ fallback(c)' = fallback(c)
  BY Zenon DEF primary, fallback
<1>2. Served(c)' = Served(c)
  BY <1>1, Zenon DEF Served
<1>3. Names(c, what) => Names(c, what)'
  BY <1>1, <1>2, Zenon DEF Names
<1>4. QED BY <1>1, <1>3, Zenon DEF Visible

\* The records that the actions append are records.
LEMMA RecType ==
    ASSUME NEW c \in Call, NEW o \in {"allowed", "denied", "failed"}, NEW w \in Response
    PROVE  /\ Rec(c, o, w) \in Records
           /\ Rec(c, o, w).call = c /\ Rec(c, o, w).resource = w
BY Zenon DEF Rec, Records

\* The invariant holds initially.
LEMMA InitEstablishes == Init => CompleteInv
<1> SUFFICES ASSUME Init PROVE CompleteInv
  OBVIOUS
<1>1. Shape
  <2>1. <<>> \in Seq(Records)
    OBVIOUS
  <2>2. resp \in [Call -> Response]
    BY AnswerTypes, Zenon DEF Init
  <2>3. QED BY <2>1, <2>2, Zenon DEF Init, Shape
<1>2. \A c \in Call : Request(c)
  BY Zenon DEF Init, Request, Routed, Allowed, Replaced, Answered, Visible, Early
<1>3. \A k \in DOMAIN log : FALSE
  <2>1. log = <<>> /\ log \in Seq(Records)
    BY <1>1, Zenon DEF Init, Shape
  <2>2. Len(log) = 0
    BY <2>1, Zenon
  <2>3. QED BY <2>1, <2>2
<1>4. QED BY <1>1, <1>2, <1>3, Zenon DEF Init, CompleteInv

\* Only request c moves, and it keeps its purpose once it has one.
Moves(c) ==
    /\ \A d \in Call \ {c} : /\ pc'[d] = pc[d] /\ purpose'[d] = purpose[d]
                             /\ reply'[d] = reply[d] /\ resp'[d] = resp[d]
                             /\ d \in err => d \in err'
    /\ pc'[c] # "idle"
    /\ pc[c] = "idle" \/ purpose'[c] = purpose[c]
    /\ pc'[c] \in Early => pc[c] \in Early \union {"idle"}
    /\ pc[c] \in Late => pc'[c] \in Late /\ reply'[c] # "denied"
    /\ Shape'

\* A step of request c keeps the invariant if c itself is fine afterwards, what
\* it put into the log is traceable, and its new provider calls are accounted for.
LEMMA LocalStep ==
    ASSUME CompleteInv, NEW c \in Call, Moves(c), Request(c)',
           \A x : Contains(log, x) => Contains(log', x),
           \A k \in DOMAIN log' : \/ k \in DOMAIN log /\ log'[k] = log[k]
                                  \/ /\ log'[k].call = c
                                     /\ log'[k].resource \in {NoResponse, resp'[c]}
                                     /\ pc'[c] \in Early => log'[k].resource = NoResponse,
           invoked \subseteq invoked', \A i \in invoked' \ invoked : i[1] = c,
           invoked' = invoked \/ pc[c] \in Early,
           \A i \in invoked' \ invoked : Accounted(i)'
    PROVE  CompleteInv'
<1>1. ASSUME NEW d \in Call PROVE Request(d)'
  <2>1. CASE d = c
    BY <2>1, Zenon
  <2>2. CASE d # c
    <3>1. Request(d)
      BY Zenon DEF CompleteInv
    <3>2. pc'[d] = pc[d] /\ purpose'[d] = purpose[d] /\ reply'[d] = reply[d]
          /\ resp'[d] = resp[d] /\ (d \in err => d \in err')
      BY <2>2, Zenon DEF Moves
    <3>3. Routed(d)'
      BY <3>1, <3>2, Zenon DEF Request, Routed, primary
    <3>4. Allowed(d)'
      BY <3>1, <3>2, Zenon DEF Request, Allowed, Rec, NoResponse
    <3>5. Replaced(d)'
      BY <3>1, <3>2, Zenon DEF Request, Replaced, primary, fallback
    <3>6. Answered(d)'
      <4>1. \A t : <<d, t>> \in invoked' <=> <<d, t>> \in invoked
        BY <2>2, OthersCalls, Zenon
      <4>2. PICK what : what = resp[d]
        BY Zenon
      <4>3. Visible(what, d)
        BY <3>1, <4>2, Zenon DEF Request, Answered
      <4>4. Visible(what, d)'
        BY <3>2, <4>1, <4>3, SameServed, Zenon
      <4>5. what = resp'[d]
        BY <3>2, <4>2, Zenon
      <4>6. Visible(resp[d], d)'
        BY <4>4, <4>5, Zenon
      <4>7. QED BY <3>1, <3>2, <4>6, Zenon DEF Request, Answered, NoResponse
    <3>7. QED BY <3>3, <3>4, <3>5, <3>6, Zenon DEF Request
  <2>3. QED BY <2>1, <2>2, Zenon
<1>2. ASSUME NEW i \in invoked' PROVE Accounted(i)'
  <2>1. CASE i \in invoked
    <3>1. Accounted(i)
      BY <2>1, Zenon DEF CompleteInv
    <3>2. i[1] \in Call /\ purpose'[i[1]] = purpose[i[1]]
      <4>1. i[1] \in Call
        BY <3>1, Zenon DEF Accounted
      <4>2. QED BY <3>1, <4>1, Zenon DEF Accounted, Moves
    <3>3. pc'[i[1]] \in Late /\ reply'[i[1]] # "denied"
      BY <3>1, <3>2, Zenon DEF Accounted, Moves, Late
    <3>4. Contains(log', Rec(i[1], "allowed", NoResponse))
      BY <3>1, Zenon DEF Accounted
    <3>5. QED BY <3>1, <3>2, <3>3, <3>4, Zenon
              DEF Accounted, Late, primary, fallback, Rec, NoResponse
  <2>2. QED BY <2>1, Zenon
<1>3. ASSUME NEW k \in DOMAIN log' PROVE Traceable(log[k])'
  <2>1. CASE k \in DOMAIN log /\ log'[k] = log[k]
    <3>0. PICK d, what : d = log[k].call /\ what = log[k].resource
      BY Zenon
    <3>1. Traceable(log[k])
      BY <2>1, Zenon DEF CompleteInv
    <3>2. d \in Call
      <4>1. log[k] \in Records
        BY <2>1 DEF CompleteInv, Shape
      <4>2. QED BY <3>0, <4>1, Zenon DEF Records
    <3>3. pc'[d] # "idle" /\ purpose'[d] = purpose[d]
      BY <3>0, <3>1, <3>2, Zenon DEF Traceable, Moves
    <3>4. pc'[d] \in Early => what = NoResponse
      BY <3>0, <3>1, <3>2, Zenon DEF Traceable, Moves
    <3>5. Visible(what, d)'
      <4>1. CASE what = NoResponse
        BY <4>1, Zenon DEF Visible
      <4>2. CASE what # NoResponse
        <5>1. d # c \/ invoked' = invoked
          BY <3>0, <3>1, <4>2, Zenon DEF Traceable
        <5>2. \A t : <<d, t>> \in invoked' <=> <<d, t>> \in invoked
          BY <5>1, OthersCalls, Zenon
        <5>3. Visible(what, d)
          BY <3>0, <3>1, Zenon DEF Traceable
        <5>4. QED BY <3>3, <5>2, <5>3, SameServed, Zenon
      <4>3. QED BY <4>1, <4>2, Zenon
    <3>6. d = log'[k].call /\ what = log'[k].resource
      BY <2>1, <3>0, Zenon
    <3>7. Visible(log[k].resource, log[k].call)'
      BY <3>5, <3>6, Zenon
    <3>8. QED BY <3>3, <3>4, <3>6, <3>7, Zenon DEF Traceable, NoResponse
  <2>2. CASE /\ log'[k].call = c /\ log'[k].resource \in {NoResponse, resp'[c]}
             /\ pc'[c] \in Early => log'[k].resource = NoResponse
    <3>1. Visible(resp[c], c)'
      BY Zenon DEF Request, Answered
    <3>2. Visible(log[k].resource, log[k].call)'
      BY <2>2, <3>1, Zenon DEF Visible, Names, NoResponse
    <3>3. QED BY <2>2, <3>2, Zenon DEF Traceable, Moves, NoResponse
  <2>3. QED BY <2>1, <2>2, Zenon
<1>4. QED BY <1>1, <1>2, <1>3, Zenon DEF CompleteInv, Moves

\* A request arrives and is routed.
LEMMA CompleteStep ==
    ASSUME CompleteInv, NEW c \in Call, NEW p \in Purpose, Complete(c, p)
    PROVE  CompleteInv'
<1>1. Shape /\ Request(c)
  BY Zenon DEF CompleteInv
<1>2. UNCHANGED <<log, resp, err, reply, invoked>> /\ pc[c] = "idle"
      /\ purpose' = [purpose EXCEPT ![c] = p]
  BY Zenon DEF Complete
<1>3. \/ pc' = [pc EXCEPT ![c] = "decide"] /\ p \in DOMAIN Route
         /\ Route[p].primary \in Approved
      \/ pc' = [pc EXCEPT ![c] = "deny"]
  BY Zenon DEF Complete, Goto, Lookup
<1>4. Shape'
  BY <1>1, <1>2, <1>3, Zenon DEF Shape
<1>5. Moves(c)
  BY <1>1, <1>2, <1>3, <1>4, Zenon DEF Shape, Moves, Late, Early
<1>6. pc'[c] \in {"decide", "deny"} /\ purpose'[c] = p
      /\ (pc'[c] = "decide" => p \in DOMAIN Route /\ Route[p].primary \in Approved)
  BY <1>1, <1>2, <1>3, Zenon DEF Shape
<1>7. Request(c)'
  <2>1. reply[c] = "" /\ resp[c] = NoResponse
    BY <1>1, <1>2, Zenon DEF Request, Answered, Early
  <2>2. QED BY <1>2, <1>6, <2>1, Zenon DEF Request, Routed, Allowed, Replaced, Answered, Early,
                                   Visible, primary, NoResponse
<1>8. QED BY <1>2, <1>5, <1>7, LocalStep, Zenon

\* The policy has spoken.
LEMMA DecideStep ==
    ASSUME CompleteInv, NEW c \in Call, Decide(c)
    PROVE  CompleteInv'
<1>1. Shape /\ Request(c)
  BY Zenon DEF CompleteInv
<1>2. UNCHANGED <<log, purpose, resp, err, reply, invoked>> /\ pc[c] = "decide"
  BY Zenon DEF Decide
<1>3. pc' \in {[pc EXCEPT ![c] = "record"], [pc EXCEPT ![c] = "deny"]}
  BY Zenon DEF Decide, Goto
<1>4. Shape'
  BY <1>1, <1>2, <1>3, Zenon DEF Shape
<1>5. Moves(c)
  BY <1>1, <1>2, <1>3, <1>4, Zenon DEF Shape, Moves, Late, Early
<1>6. pc'[c] \in {"record", "deny"}
  BY <1>1, <1>3, Zenon DEF Shape
<1>7. Request(c)'
  BY <1>1, <1>2, <1>6, Zenon DEF Request, Routed, Allowed, Replaced, Answered, Early, Visible,
                          primary, NoResponse
<1>8. QED BY <1>2, <1>5, <1>7, LocalStep, Zenon

\* A denial is recorded, or not, and returned.
LEMMA denyfStep ==
    ASSUME CompleteInv, NEW c \in Call, denyf(c)
    PROVE  CompleteInv'
<1>1. Shape /\ Request(c)
  BY Zenon DEF CompleteInv
<1>2. UNCHANGED <<purpose, resp, err, invoked>> /\ pc[c] = "deny"
      /\ pc' = [pc EXCEPT ![c] = "done"] /\ reply' = [reply EXCEPT ![c] = "denied"]
  BY Zenon DEF denyf, Reply, Goto
<1>3. PICK r \in Records : /\ r.call = c /\ r.resource = NoResponse
                           /\ log' \in {log, Append(log, r)}
  <2>1. Rec(c, "denied", NoResponse) \in Records
        /\ Rec(c, "denied", NoResponse).call = c
        /\ Rec(c, "denied", NoResponse).resource = NoResponse
    BY RecType, AnswerTypes, ZenonT(40)
  <2>2. log' \in {log, Append(log, Rec(c, "denied", NoResponse))}
    BY Zenon DEF denyf, MaybeAppended
  <2>3. QED BY <2>1, <2>2, Zenon
<1>4. /\ log' \in Seq(Records)
      /\ \A x : Contains(log, x) => Contains(log', x)
      /\ \A k \in DOMAIN log' : (k \in DOMAIN log /\ log'[k] = log[k]) \/ log'[k] = r
  <2>1. log \in Seq(Records)
    BY <1>1, Zenon DEF Shape
  <2>2. QED BY <1>3, <2>1, LogGrows
<1>5. Shape'
  BY <1>1, <1>2, <1>4, Zenon DEF Shape
<1>6. Moves(c)
  BY <1>1, <1>2, <1>5, Zenon DEF Shape, Moves, Late, Early
<1>7. pc'[c] = "done" /\ reply'[c] = "denied"
  BY <1>1, <1>2, Zenon DEF Shape
<1>8. Request(c)'
  BY <1>1, <1>2, <1>7, Zenon
  DEF Request, Routed, Allowed, Replaced, Answered, Early, Visible, NoResponse
<1>9. QED BY <1>2, <1>3, <1>4, <1>6, <1>8, LocalStep, Zenon

\* The allow is recorded, or the call is denied.
LEMMA RecordDecisionStep ==
    ASSUME CompleteInv, NEW c \in Call, RecordDecision(c)
    PROVE  CompleteInv'
<1>1. Shape /\ Request(c)
  BY Zenon DEF CompleteInv
<1>2. UNCHANGED <<purpose, resp, err, invoked>> /\ pc[c] = "record"
  BY Zenon DEF RecordDecision
<1>3. PICK r \in Records : /\ r.call = c /\ r.resource = NoResponse
                           /\ r = Rec(c, "allowed", NoResponse)
  BY RecType, AnswerTypes, ZenonT(40)
<1>4. \/ /\ log' = Append(log, r) /\ reply' = reply
         /\ pc' = [pc EXCEPT ![c] = "primary"]
      \/ /\ log' \in {log, Append(log, r)}
         /\ pc' = [pc EXCEPT ![c] = "done"] /\ reply' = [reply EXCEPT ![c] = "denied"]
  BY <1>3, Zenon DEF RecordDecision, Appended, MaybeAppended, Goto, Reply
<1>5. /\ log' \in Seq(Records)
      /\ \A x : Contains(log, x) => Contains(log', x)
      /\ log' = Append(log, r) => Contains(log', r)
      /\ \A k \in DOMAIN log' : (k \in DOMAIN log /\ log'[k] = log[k]) \/ log'[k] = r
  <2>1. log \in Seq(Records) /\ log' \in {log, Append(log, r)}
    BY <1>1, <1>4, Zenon DEF Shape
  <2>2. QED BY <1>3, <2>1, LogGrows
<1>6. Shape'
  BY <1>1, <1>2, <1>4, <1>5, Zenon DEF Shape
<1>7. Moves(c)
  BY <1>1, <1>2, <1>4, <1>6, Zenon DEF Shape, Moves, Late, Early
<1>8. \/ pc'[c] = "primary" /\ reply'[c] = reply[c] /\ Contains(log', r)
      \/ pc'[c] = "done" /\ reply'[c] = "denied"
  BY <1>1, <1>4, <1>5, Zenon DEF Shape
<1>9. Request(c)'
  <2>1. Routed(c)' /\ Replaced(c)'
    BY <1>1, <1>2, <1>8, Zenon DEF Request, Routed, Replaced, primary
  <2>2. Allowed(c)'
    BY <1>3, <1>8, Zenon DEF Allowed, Rec, NoResponse
  <2>3. Answered(c)'
    BY <1>1, <1>2, <1>8, Zenon DEF Request, Answered, Early, Visible, NoResponse
  <2>4. QED BY <2>1, <2>2, <2>3, Zenon DEF Request
<1>10. QED BY <1>2, <1>3, <1>5, <1>7, <1>9, LocalStep, Zenon

\* A provider of the route is called: it answers visibly, or errs, and then the
\* fallback is next or the error is the outcome.
LEMMA ProviderStep ==
    ASSUME CompleteInv, NEW c \in Call, NEW t \in Target, t \in Approved,
           pc[c] \in {"primary", "fallback"}, UNCHANGED <<log, purpose, reply>>,
           invoked' = invoked \union {<<c, t>>},
           t = primary(c) \/ (t = fallback(c) /\ <<c, primary(c)>> \in invoked),
           \/ /\ pc' = [pc EXCEPT ![c] = "outcome"] /\ err' = err
              /\ \E a \in Response : /\ resp' = [resp EXCEPT ![c] = a]
                                     /\ a # NoResponse /\ Visible(a, c)'
           \/ /\ pc' = [pc EXCEPT ![c] = "outcome"] /\ err' = err \union {c} /\ resp' = resp
           \/ /\ pc' = [pc EXCEPT ![c] = "fallback"] /\ err' = err /\ resp' = resp
              /\ t = primary(c) /\ fallback(c) \in Approved /\ fallback(c) # NoTarget
    PROVE  CompleteInv'
<1>1. Shape /\ Request(c)
  BY Zenon DEF CompleteInv
<1>2. pc' \in {[pc EXCEPT ![c] = "outcome"], [pc EXCEPT ![c] = "fallback"]}
  OBVIOUS
<1>3. resp' \in [Call -> Response] /\ \A d \in Call \ {c} : resp'[d] = resp[d]
  BY <1>1 DEF Shape
<1>4. Shape'
  BY <1>1, <1>2, <1>3, Zenon DEF Shape
<1>5. reply[c] = ""
  BY <1>1, Zenon DEF Request, Answered, Early
<1>6. Moves(c)
  BY <1>1, <1>2, <1>3, <1>4, <1>5, Zenon DEF Shape, Moves, Late, Early
<1>7. \/ pc'[c] = "outcome" /\ resp'[c] # NoResponse /\ Visible(resp[c], c)'
      \/ pc'[c] = "outcome" /\ c \in err' /\ resp'[c] = resp[c]
      \/ /\ pc'[c] = "fallback" /\ resp'[c] = resp[c]
         /\ t = primary(c) /\ fallback(c) \in Approved /\ fallback(c) # NoTarget
  <2>1. CASE /\ pc' = [pc EXCEPT ![c] = "outcome"]
             /\ \E a \in Response : /\ resp' = [resp EXCEPT ![c] = a]
                                    /\ a # NoResponse /\ Visible(a, c)'
    <3>1. PICK a \in Response : /\ resp' = [resp EXCEPT ![c] = a]
                                /\ a # NoResponse /\ Visible(a, c)'
      BY <2>1, Zenon
    <3>2. resp'[c] = a /\ pc'[c] = "outcome"
      BY <1>1, <2>1, <3>1, Zenon DEF Shape
    <3>3. QED BY <3>1, <3>2, Zenon
  <2>2. CASE pc' = [pc EXCEPT ![c] = "outcome"] /\ err' = err \union {c} /\ resp' = resp
    BY <1>1, <2>2, Zenon DEF Shape
  <2>3. CASE /\ pc' = [pc EXCEPT ![c] = "fallback"] /\ resp' = resp
             /\ t = primary(c) /\ fallback(c) \in Approved /\ fallback(c) # NoTarget
    BY <1>1, <2>3, Zenon DEF Shape
  <2>4. QED BY <2>1, <2>2, <2>3, Zenon
<1>8. Request(c)'
  <2>1. Routed(c)' /\ Allowed(c)'
    BY <1>1, <1>7, Zenon DEF Request, Routed, Allowed, primary, Rec, NoResponse
  <2>2. Replaced(c)'
    BY <1>7, Zenon DEF Replaced, primary, fallback
  <2>3. Answered(c)'
    <3>1. resp[c] = NoResponse
      BY <1>1, Zenon DEF Request, Answered, Early
    <3>2. Visible(resp[c], c)'
      BY <1>7, <3>1, Zenon DEF Visible, NoResponse
    <3>3. pc'[c] \in {"outcome", "fallback"} /\ reply'[c] = ""
      BY <1>5, <1>7, Zenon
    <3>4. pc'[c] = "fallback" => resp'[c] = NoResponse
      BY <1>7, <3>1, Zenon
    <3>5. pc'[c] = "outcome" /\ resp'[c] = NoResponse => c \in err'
      BY <1>7, Zenon
    <3>6. QED BY <3>2, <3>3, <3>4, <3>5, Zenon DEF Answered, Early, NoResponse
  <2>4. QED BY <2>1, <2>2, <2>3, Zenon DEF Request
<1>9. Accounted(<<c, t>>)'
  <2>1. pc'[c] \in {"fallback", "outcome", "done", "lost"} /\ reply'[c] # "denied"
    BY <1>5, <1>7, Zenon
  <2>2. Contains(log', Rec(c, "allowed", NoResponse))
    BY <1>1, Zenon DEF Request, Allowed
  <2>3. QED BY <2>1, <2>2, Zenon DEF Accounted, primary, fallback, Rec, NoResponse
<1>10. invoked \subseteq invoked' /\ \A i \in invoked' \ invoked : i = <<c, t>> /\ i[1] = c
  OBVIOUS
<1>11. pc[c] \in Early
  BY Zenon DEF Early
<1>12. QED BY <1>6, <1>8, <1>9, <1>10, <1>11, LocalStep, Zenon

\* What an answer of a pair says.
LEMMA AnswerFields ==
    ASSUME NEW t \in Target, NEW m, NEW from,
           NEW a, a = [provider |-> Name(t), model |-> m, from |-> from]
    PROVE  a.provider = Name(t) /\ a.model = m /\ a.from = from /\ a # NoResponse
<1>1. a.provider = Name(t) /\ a.model = m /\ a.from = from
  BY Zenon
<1>2. NoResponse.provider = ""
  BY Zenon DEF NoResponse
<1>3. QED BY <1>1, <1>2, ProviderAssumption, Zenon

\* The primary provider is called.
LEMMA CallPrimaryStep ==
    ASSUME CompleteInv, NEW c \in Call, CallPrimary(c)
    PROVE  CompleteInv'
<1>1. Request(c) /\ pc[c] = "primary" /\ UNCHANGED <<log, purpose, reply>>
  BY Zenon DEF CompleteInv, CallPrimary
<1>2. primary(c) \in Approved /\ primary(c) \in Target
  BY <1>1, RouteAssumption, Zenon DEF Request, Routed, primary
<1>3. CASE Invoke(c, primary(c), "")
  <2>1. PICK m \in Resolved(primary(c)) : resp' =
           [resp EXCEPT ![c] = [provider |-> Name(primary(c)), model |-> m, from |-> ""]]
    BY <1>3, Zenon DEF Invoke
  <2>2. PICK a : a = [provider |-> Name(primary(c)), model |-> m, from |-> ""]
    BY Zenon
  <2>3. a \in Response
    BY <1>2, <2>2, AnswerTypes, Zenon
  <2>4. a.provider = Name(primary(c)) /\ a.model = m /\ a.from = "" /\ a # NoResponse
    <3>1. PICK none : none = ""
      BY Zenon
    <3>2. a = [provider |-> Name(primary(c)), model |-> m, from |-> none]
      BY <2>2, <3>1, Zenon
    <3>3. a.provider = Name(primary(c)) /\ a.model = m /\ a.from = none /\ a # NoResponse
      BY <1>2, <3>2, AnswerFields
    <3>4. QED BY <3>1, <3>3, Zenon
  <2>5. Visible(a, c)'
    <3>1. primary(c)' = primary(c) /\ fallback(c)' = fallback(c)
      BY <1>1, Zenon DEF primary, fallback
    <3>2. <<c, fallback(c)>> \notin invoked
      BY <1>1, Zenon DEF CompleteInv, Accounted
    <3>3. ASSUME primary(c) # fallback(c) PROVE <<c, fallback(c)>> \notin invoked'
      BY <1>3, <3>2, <3>3, Zenon DEF Invoke
    <3>4. ASSUME primary(c) # fallback(c) PROVE Served(c)' = primary(c)
      BY <3>1, <3>3, <3>4, Zenon DEF Served
    <3>5. QED BY <2>4, <3>1, <3>4, Zenon DEF Visible, Names
  <2>6. QED BY <1>1, <1>2, <1>3, <2>1, <2>2, <2>3, <2>4, <2>5, ProviderStep, Zenon
            DEF Invoke, Goto
<1>4. CASE InvokeFails(c, primary(c), IF fallback(c) # NoTarget /\ Lookup(fallback(c))
                                      THEN "fallback" ELSE "outcome")
  BY <1>1, <1>2, <1>4, ProviderStep, Zenon DEF InvokeFails, Goto, Lookup
<1>5. QED BY <1>3, <1>4, Zenon DEF CallPrimary

\* The fallback provider is called.
LEMMA CallFallbackStep ==
    ASSUME CompleteInv, NEW c \in Call, CallFallback(c)
    PROVE  CompleteInv'
<1>1. Request(c) /\ pc[c] = "fallback" /\ UNCHANGED <<log, purpose, reply>>
  BY Zenon DEF CompleteInv, CallFallback
<1>2. primary(c) \in Target /\ fallback(c) \in Approved /\ fallback(c) \in Target
      /\ <<c, primary(c)>> \in invoked
  BY <1>1, RouteAssumption, Zenon DEF Request, Routed, Replaced, primary, fallback
<1>3. CASE Invoke(c, fallback(c), Provider(primary(c)))
  <2> DEFINE from == Provider(primary(c))
  <2>1. PICK m \in Resolved(fallback(c)) : resp' =
           [resp EXCEPT ![c] = [provider |-> Name(fallback(c)), model |-> m, from |-> from]]
    BY <1>3, Zenon DEF Invoke
  <2>2. PICK a : a = [provider |-> Name(fallback(c)), model |-> m, from |-> from]
    BY Zenon
  <2>3. a \in Response
    BY <1>2, <2>2, AnswerTypes, Zenon
  <2>4. a.provider = Name(fallback(c)) /\ a.model = m /\ a.from = from /\ a # NoResponse
    BY <1>2, <2>2, AnswerFields
  <2>5. Visible(a, c)'
    <3>1. primary(c)' = primary(c) /\ fallback(c)' = fallback(c)
      BY <1>1, Zenon DEF primary, fallback
    <3>2. <<c, fallback(c)>> \in invoked'
      BY <1>3, Zenon DEF Invoke
    <3>3. Served(c)' = fallback(c)
      BY <3>1, <3>2, Zenon DEF Served
    <3>4. QED BY <2>4, <3>1, <3>3, Zenon DEF Visible, Names
  <2> HIDE DEF from
  <2>6. QED BY <1>1, <1>2, <1>3, <2>1, <2>2, <2>3, <2>4, <2>5, ProviderStep, Zenon
            DEF Invoke, Goto
<1>4. CASE InvokeFails(c, fallback(c), "outcome")
  BY <1>1, <1>2, <1>4, ProviderStep, Zenon DEF InvokeFails, Goto
<1>5. QED BY <1>3, <1>4, Zenon DEF CallFallback

\* The outcome is recorded, or not, and returned.
LEMMA RecordOutcomeStep ==
    ASSUME CompleteInv, NEW c \in Call, RecordOutcome(c)
    PROVE  CompleteInv'
<1>1. Shape /\ Request(c)
  BY Zenon DEF CompleteInv
<1>2. UNCHANGED <<purpose, resp, err, invoked>> /\ pc[c] = "outcome"
      /\ pc' = [pc EXCEPT ![c] = "done"]
      /\ reply' = [reply EXCEPT ![c] = IF c \in err THEN "failed" ELSE "ok"]
  BY Zenon DEF RecordOutcome, Reply, Goto
<1>3. PICK r \in Records : /\ r.call = c /\ r.resource = resp[c]
                           /\ log' \in {log, Append(log, r)}
  <2>1. PICK o \in {"allowed", "denied", "failed"} :
           log' \in {log, Append(log, Rec(c, o, resp[c]))}
    BY Zenon DEF RecordOutcome, MaybeAppended
  <2>2. resp[c] \in Response
    BY <1>1, Zenon DEF Shape
  <2>3. QED BY <2>1, <2>2, RecType
<1>4. /\ log' \in Seq(Records)
      /\ \A x : Contains(log, x) => Contains(log', x)
      /\ \A k \in DOMAIN log' : (k \in DOMAIN log /\ log'[k] = log[k]) \/ log'[k] = r
  <2>1. log \in Seq(Records)
    BY <1>1, Zenon DEF Shape
  <2>2. QED BY <1>3, <2>1, LogGrows
<1>5. Shape'
  BY <1>1, <1>2, <1>4, Zenon DEF Shape
<1>6. pc'[c] = "done" /\ reply'[c] = IF c \in err THEN "failed" ELSE "ok"
  BY <1>1, <1>2, Zenon DEF Shape
<1>7. Moves(c)
  BY <1>1, <1>2, <1>5, <1>6, Zenon DEF Shape, Moves, Late, Early
<1>8. Request(c)'
  <2>1. Routed(c)' /\ Allowed(c)' /\ Replaced(c)'
    BY <1>6, Zenon DEF Routed, Allowed, Replaced
  <2>2. resp[c] = NoResponse => reply'[c] = "failed"
    BY <1>1, <1>2, <1>6, Zenon DEF Request, Answered, Early
  <2>3. reply'[c] = "ok" => resp[c] # NoResponse
    BY <2>2, Zenon
  <2>4. Visible(resp[c], c)'
    BY <1>1, <1>2, Zenon DEF Request, Answered, Visible, Names, Served, primary, fallback, NoResponse
  <2>5. QED BY <1>2, <1>6, <2>1, <2>3, <2>4, Zenon DEF Request, Answered, Early, NoResponse
<1>9. pc'[c] \notin Early
  BY <1>6, Zenon DEF Early
<1>10. QED BY <1>2, <1>3, <1>4, <1>7, <1>8, <1>9, LocalStep, Zenon

\* A crash loses the requests in flight and nothing else.
LEMMA CrashStep == ASSUME CompleteInv, Crash PROVE CompleteInv'
<1>1. Shape /\ UNCHANGED <<log, purpose, resp, err, reply, invoked>>
  BY Zenon DEF CompleteInv, Crash
<1>2. pc' = [c \in Call |-> IF pc[c] \in {"idle", "done"} THEN pc[c] ELSE "lost"]
  BY Zenon DEF Crash
<1>3. Shape'
  BY <1>1, <1>2, Zenon DEF Shape
<1>4. ASSUME NEW c \in Call PROVE Request(c)'
  <2>1. Request(c)
    BY Zenon DEF CompleteInv
  <2>2. pc'[c] \in {"idle", "done", "lost"} /\ (pc[c] = "done" => pc'[c] = "done")
        /\ (pc'[c] = "idle" => pc[c] = "idle")
    BY <1>2, Zenon
  <2>3. Routed(c)' /\ Allowed(c)' /\ Replaced(c)'
    BY <2>2, Zenon DEF Routed, Allowed, Replaced
  <2>4. Answered(c)'
    <3>1. Visible(resp[c], c)'
      BY <1>1, <2>1, Zenon
      DEF Request, Answered, Visible, Names, Served, primary, fallback, NoResponse
    <3>2. QED BY <1>1, <2>1, <2>2, <3>1, Zenon DEF Request, Answered, Early, NoResponse
  <2>5. QED BY <2>3, <2>4, Zenon DEF Request
<1>5. ASSUME NEW i \in invoked' PROVE Accounted(i)'
  <2>1. Accounted(i)
    BY <1>1, Zenon DEF CompleteInv
  <2>2. pc'[i[1]] \in {"done", "lost"}
    BY <1>2, <2>1, Zenon DEF Accounted
  <2>3. QED BY <1>1, <2>1, <2>2, Zenon DEF Accounted, primary, fallback, Rec, NoResponse
<1>6. ASSUME NEW k \in DOMAIN log' PROVE Traceable(log[k])'
  <2>1. Traceable(log[k]) /\ log[k] \in Records
    BY <1>1 DEF CompleteInv, Shape
  <2>2. log[k].call \in Call
    BY <2>1, Zenon DEF Records
  <2>3. pc'[log[k].call] # "idle"
    BY <1>2, <2>1, <2>2, Zenon DEF Traceable
  <2>4. Visible(log[k].resource, log[k].call)'
    BY <1>1, <2>1, Zenon
    DEF Traceable, Visible, Names, Served, primary, fallback, NoResponse
  <2>5. pc'[log[k].call] \notin Early
    BY <1>2, <2>2, Zenon DEF Early
  <2>6. QED BY <1>1, <2>3, <2>4, <2>5, Zenon DEF Traceable
<1>7. QED BY <1>3, <1>4, <1>5, <1>6, Zenon DEF CompleteInv

\* Steps that change nothing.
LEMMA StutterStep == ASSUME CompleteInv, UNCHANGED vars PROVE CompleteInv'
<1>1. UNCHANGED <<log, pc, purpose, resp, err, reply, invoked>>
  BY Zenon DEF vars
<1>2. Shape'
  BY <1>1, Zenon DEF CompleteInv, Shape
<1>3. ASSUME NEW c \in Call PROVE Request(c)'
  <2>1. Request(c)
    BY Zenon DEF CompleteInv
  <2>2. Routed(c)' /\ Allowed(c)' /\ Replaced(c)'
    BY <1>1, <2>1, Zenon
    DEF Request, Routed, Allowed, Replaced, primary, fallback, Rec, NoResponse
  <2>3. Answered(c)'
    <3>1. Visible(resp[c], c)'
      BY <1>1, <2>1, Zenon
      DEF Request, Answered, Visible, Names, Served, primary, fallback, NoResponse
    <3>2. QED BY <1>1, <2>1, <3>1, Zenon DEF Request, Answered, NoResponse
  <2>4. QED BY <2>2, <2>3, Zenon DEF Request
<1>4. ASSUME NEW i \in invoked' PROVE Accounted(i)'
  BY <1>1, Zenon DEF CompleteInv, Accounted, primary, fallback, Rec, NoResponse
<1>5. ASSUME NEW k \in DOMAIN log' PROVE Traceable(log[k])'
  <2>1. Traceable(log[k])
    BY <1>1, Zenon DEF CompleteInv
  <2>2. Visible(log[k].resource, log[k].call)'
    BY <1>1, <2>1, Zenon
    DEF Traceable, Visible, Names, Served, primary, fallback, NoResponse
  <2>3. QED BY <1>1, <2>1, <2>2, Zenon DEF Traceable, NoResponse
<1>6. QED BY <1>2, <1>3, <1>4, <1>5, Zenon DEF CompleteInv

\* Every step keeps the invariant.
LEMMA NextPreserves == CompleteInv /\ [Next]_vars => CompleteInv'
<1> SUFFICES ASSUME CompleteInv, [Next]_vars PROVE CompleteInv'
  OBVIOUS
<1>1. ASSUME NEW c \in Call, Step(c) PROVE CompleteInv'
  BY <1>1, DecideStep, denyfStep, RecordDecisionStep, CallPrimaryStep,
     CallFallbackStep, RecordOutcomeStep DEF Step
<1>2. QED BY <1>1, CompleteStep, CrashStep, StutterStep, Zenon DEF Next

-----------------------------------------------------------------------------
\* The inductive invariant holds in every reachable state of the model gateway.
THEOREM CompleteInvariant == Spec => []CompleteInv
BY InitEstablishes, NextPreserves, PTL DEF Spec

\* Complete of modelgw.go: whatever append fails and whenever the process dies,
\* a provider that was called, primary or fallback, was called for a request
\* whose allow was in the log.
THEOREM CallsAreRecorded == Spec => []CallIsRecorded
<1>1. CompleteInv => CallIsRecorded
  BY Zenon DEF CompleteInv, Accounted, Contains, CallIsRecorded, Recorded
<1>2. QED BY <1>1, CompleteInvariant, PTL

\* Complete and call of modelgw.go: for every routing table and catalog only
\* approved models of the request's route are called, a fallback only after its
\* primary.
THEOREM CallsAreGoverned == Spec => []CallIsGoverned
<1>1. CompleteInv => CallIsGoverned
  BY Zenon DEF CompleteInv, Accounted, CallIsGoverned, primary, fallback
<1>2. QED BY <1>1, CompleteInvariant, PTL

\* ErrDenied of modelgw.go: a denied request has called no provider.
THEOREM DeniedCallsHaveNoEffect == Spec => []DeniedHasNoEffect
<1>1. CompleteInv => DeniedHasNoEffect
  <2> SUFFICES ASSUME CompleteInv, NEW c \in Call, reply[c] = "denied",
                      NEW t \in Target, <<c, t>> \in invoked
               PROVE  FALSE
    BY Zenon DEF DeniedHasNoEffect
  <2>1. Accounted(<<c, t>>)
    BY Zenon DEF CompleteInv
  <2>2. QED BY <2>1, Zenon DEF Accounted
<1>2. QED BY <1>1, CompleteInvariant, PTL

\* call and outcomeAction of modelgw.go: for every routing table, an answer and every
\* record of it name the provider and model that served, and the provider of the
\* primary exactly when the fallback stood in for it.
THEOREM FallbacksAreVisible == Spec => []FallbackIsVisible
<1>1. CompleteInv => FallbackIsVisible
  <2> SUFFICES ASSUME CompleteInv, NEW c \in Call, primary(c) # fallback(c)
               PROVE  /\ reply[c] = "ok" => Names(c, resp[c])
                      /\ \A i \in DOMAIN log :
                            log[i].call = c /\ log[i].resource # NoResponse
                            => Names(c, log[i].resource)
    BY Zenon DEF FallbackIsVisible
  <2>1. reply[c] = "ok" => Names(c, resp[c])
    BY Zenon DEF CompleteInv, Request, Answered, Visible
  <2>2. ASSUME NEW i \in DOMAIN log, log[i].call = c, log[i].resource # NoResponse
        PROVE  Names(c, log[i].resource)
    <3>1. Visible(log[i].resource, c)
      BY <2>2, Zenon DEF CompleteInv, Traceable
    <3>2. QED BY <2>2, <3>1, Zenon DEF Visible
  <2>3. QED BY <2>1, <2>2, Zenon
<1>2. QED BY <1>1, CompleteInvariant, PTL

-----------------------------------------------------------------------------
\* The types that CompleteInv leaves out.
Places == {"idle", "decide", "deny", "record", "primary", "fallback", "outcome",
           "done", "lost"}
Replies == {"", "ok", "denied", "failed"}

LocalType ==
    /\ pc \in [Call -> Places] /\ purpose \in [Call -> Purpose \union {""}]
    /\ err \subseteq Call /\ reply \in [Call -> Replies]

\* Every step of a request moves it to one of the places, with one of the replies.
LEMMA LocalTypeStep == LocalType /\ [Next]_vars => LocalType'
<1> SUFFICES ASSUME LocalType, [Next]_vars PROVE LocalType'
  OBVIOUS
<1>1. ASSUME NEW c \in Call, NEW p \in Purpose, Complete(c, p) PROVE LocalType'
  BY <1>1, Zenon DEF LocalType, Complete, Goto, Places
<1>2. ASSUME NEW c \in Call, Decide(c) \/ denyf(c) \/ RecordDecision(c) PROVE LocalType'
  BY <1>2, Zenon DEF LocalType, Decide, denyf, RecordDecision, Reply, Goto, Places, Replies
<1>3. ASSUME NEW c \in Call, CallPrimary(c) \/ CallFallback(c) PROVE LocalType'
  BY <1>3, Zenon DEF LocalType, CallPrimary, CallFallback, Invoke, InvokeFails, Goto, Places
<1>4. ASSUME NEW c \in Call, RecordOutcome(c) PROVE LocalType'
  BY <1>4, Zenon DEF LocalType, RecordOutcome, Reply, Goto, Places, Replies
<1>5. CASE Crash
  BY <1>5, Zenon DEF LocalType, Crash, Places
<1>6. CASE UNCHANGED vars
  BY <1>6, Zenon DEF LocalType, vars
<1> QED
  BY <1>1, <1>2, <1>3, <1>4, <1>5, <1>6, Zenon DEF Next, Step

\* The variables of Complete and its log have their types; in particular every
\* answer held or recorded goes with a model that one pair of its provider may
\* resolve to.
THEOREM TypeCorrect == Spec => []TypeOK
<1>1. Init => LocalType
  BY Zenon DEF Init, LocalType, Places, Replies
<1>2. CompleteInv /\ LocalType => TypeOK
  BY Zenon DEF CompleteInv, Shape, Accounted, Records, LocalType, Places, Replies, TypeOK
<1> QED
  BY <1>1, <1>2, LocalTypeStep, CompleteInvariant, PTL DEF Spec
=============================================================================
