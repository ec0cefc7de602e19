------------------------- MODULE ToolGatewayProofs --------------------------
(***************************************************************************)
(* For any number of requests, any registries, any policy and any clock:   *)
(* no upstream executes a call that is not recorded and governed, that was *)
(* denied, or with a credential that was not minted for it; labels on      *)
(* arguments are traced to results; and a policy with ceilings on the      *)
(* calls in a window keeps them.  Each invariant extends the one before:   *)
(* CallInv, GovernInv, TraceInv, RateInv.                                  *)
(***************************************************************************)
EXTENDS ToolGateway, TLAPS

Records == [call : Call, outcome : {"allowed", "denied", "failed"}]
Contains(l, r) == \E i \in DOMAIN l : l[i] = r
Refused == {"denied", "unknown_tool"}

\* The part of the type invariant the argument needs.
Shape ==
    /\ log \in Seq(Records)
    /\ DOMAIN pc = Call /\ DOMAIN reply = Call
    /\ DOMAIN req = Call /\ DOMAIN token = Call

Scope(c) == <<agent(c), upstream(c), req[c].tool>>

\* A request past its decision record is recorded, and past the exchange holds
\* its own token.
Granted(c) ==
    /\ pc[c] \in {"exchange", "forward"} => Contains(log, Rec(c, "allowed"))
    /\ pc[c] = "forward" /\ HasBroker => token[c] = Scope(c)
    /\ reply[c] # "" => pc[c] = "done"

\* An executed call is past its only upstream call, is recorded, carried its
\* own token and has not been refused.
Accounted(e) ==
    /\ e.call \in Call
    /\ pc[e.call] \in {"finish", "fail", "done", "lost"}
    /\ Contains(log, Rec(e.call, "allowed"))
    /\ HasBroker => e.token = <<e.agent, e.upstream, e.tool>>
    /\ reply[e.call] \notin Refused

\* The inductive invariant.
CallInv ==
    /\ Shape
    /\ \A c \in Call : Granted(c)
    /\ \A e \in effects : Accounted(e)

\* Append keeps what the log contains, and an acknowledged record is there.
LEMMA LogGrows ==
    ASSUME NEW S, NEW l \in Seq(S), NEW r \in S, NEW m, m \in {l, Append(l, r)}
    PROVE  /\ m \in Seq(S)
           /\ \A x : Contains(l, x) => Contains(m, x)
           /\ m = Append(l, r) => Contains(m, r)
<1>1. CASE m = l
  <2>1. ASSUME m = Append(l, r) PROVE FALSE
    <3>1. Len(Append(l, r)) = Len(l) + 1 /\ Len(l) \in Nat
      OBVIOUS
    <3>2. QED BY <1>1, <2>1, <3>1
  <2>2. QED BY <1>1, <2>1, Zenon
<1>2. CASE m = Append(l, r)
  <2>1. m \in Seq(S)
    BY <1>2
  <2>2. m[Len(l) + 1] = r /\ Len(l) + 1 \in DOMAIN m
    BY <1>2
  <2>3. \A i \in DOMAIN l : i \in DOMAIN m /\ m[i] = l[i]
    BY <1>2
  <2>4. QED BY <2>1, <2>2, <2>3, Zenon DEF Contains
<1>3. QED BY <1>1, <1>2, Zenon

\* The invariant holds initially.
LEMMA InitEstablishes == Init => CallInv
<1> SUFFICES ASSUME Init PROVE CallInv
  OBVIOUS
<1>1. Shape
  <2>1. log \in Seq(Records)
    <3>1. <<>> \in Seq(Records)
      OBVIOUS
    <3>2. QED BY <3>1, Zenon DEF Init
  <2>2. DOMAIN pc = Call /\ DOMAIN reply = Call /\ DOMAIN req = Call
        /\ DOMAIN token = Call
    BY Zenon DEF Init
  <2>3. QED BY <2>1, <2>2, Zenon DEF Shape
<1>2. \A c \in Call : Granted(c)
  BY Zenon DEF Init, Granted
<1>3. QED BY <1>1, <1>2, Zenon DEF Init, CallInv

\* What a step changes about the requests: only c moves, and it keeps its req.
Moves(c) ==
    /\ \A d \in Call \ {c} : pc'[d] = pc[d] /\ reply'[d] = reply[d]
                             /\ req'[d] = req[d] /\ token'[d] = token[d]
    /\ Shape'

\* A step of request c that does not reach an upstream keeps the invariant if c
\* itself is fine afterwards, and nothing executed belongs to c unless c stays
\* past its upstream call.
LEMMA QuietStep ==
    ASSUME CallInv, NEW c \in Call, Moves(c), Granted(c)', effects' = effects,
           \A x : Contains(log, x) => Contains(log', x),
           \/ pc[c] \notin {"finish", "fail", "done", "lost"}
           \/ /\ pc'[c] \in {"finish", "fail", "done", "lost"}
              /\ reply'[c] \notin Refused
    PROVE  CallInv'
<1>1. ASSUME NEW d \in Call PROVE Granted(d)'
  <2>1. CASE d = c
    BY <2>1, Zenon
  <2>2. CASE d # c
    <3>1. Granted(d)
      BY Zenon DEF CallInv
    <3>2. pc'[d] = pc[d] /\ reply'[d] = reply[d] /\ req'[d] = req[d]
          /\ token'[d] = token[d]
      BY <2>2, Zenon DEF Moves
    <3>3. Contains(log, Rec(d, "allowed")) => Contains(log', Rec(d, "allowed"))
      OBVIOUS
    <3>4. QED BY <3>1, <3>2, <3>3, Zenon DEF Granted, Scope, agent, upstream, Rec
  <2>3. QED BY <2>1, <2>2, Zenon
<1>2. ASSUME NEW e \in effects' PROVE Accounted(e)'
  <2>1. Accounted(e)
    BY Zenon DEF CallInv
  <2>2. Contains(log', Rec(e.call, "allowed"))
    BY <2>1, Zenon DEF Accounted
  <2>3. pc'[e.call] \in {"finish", "fail", "done", "lost"} /\ reply'[e.call] \notin Refused
    BY <2>1, Zenon DEF Accounted, Moves
  <2>4. QED BY <2>1, <2>2, <2>3, Zenon DEF Accounted, Rec
<1>3. QED BY <1>1, <1>2, Zenon DEF CallInv, Moves

\* The records the actions append are records.
LEMMA RecType ==
    ASSUME NEW c \in Call, NEW o \in {"allowed", "denied", "failed"}
    PROVE  Rec(c, o) \in Records
BY Zenon DEF Rec, Records

\* tools/call is received: nothing is recorded or executed.
LEMMA CallToolStep ==
    ASSUME CallInv, NEW c \in Call, NEW cr \in Cred, NEW t \in Tool,
           NEW v \in Value, CallTool(c, cr, t, v)
    PROVE  CallInv'
<1>1. Shape /\ Granted(c)
  BY Zenon DEF CallInv
<1>2. log' = log /\ effects' = effects /\ token' = token /\ pc[c] = "idle"
  BY Zenon DEF CallTool, history
<1>3. DOMAIN pc' = Call /\ DOMAIN reply' = Call /\ DOMAIN req' = Call
  BY <1>1, Zenon DEF CallTool, Shape, Goto, Reply
<1>4. Shape'
  BY <1>1, <1>2, <1>3, Zenon DEF Shape
<1>5. Moves(c)
  BY <1>1, <1>2, <1>4, Zenon DEF CallTool, Moves, Shape, Goto, Reply
<1>6. pc'[c] \in {"done", "taint", "deny"} /\ (reply'[c] # "" => pc'[c] = "done")
  BY <1>1, <1>2, Zenon DEF CallTool, Shape, Goto, Reply, Granted
<1>7. Granted(c)'
  BY <1>6, Zenon DEF Granted
<1>8. QED BY <1>2, <1>5, <1>7, QuietStep, Zenon

\* The arguments are labelled.
LEMMA taintArgumentsStep ==
    ASSUME CallInv, NEW c \in Call, taintArguments(c)
    PROVE  CallInv'
<1>1. Shape /\ Granted(c)
  BY Zenon DEF CallInv
<1>2. log' = log /\ effects' = effects /\ token' = token /\ req' = req /\ reply' = reply
  BY Zenon DEF taintArguments, history
<1>3. pc[c] = "taint" /\ pc' = [pc EXCEPT ![c] = "count"]
  BY Zenon DEF taintArguments, Goto
<1>4. Moves(c)
  BY <1>1, <1>2, <1>3, Zenon DEF Moves, Shape
<1>5. Granted(c)'
  BY <1>1, <1>2, <1>3, Zenon DEF Granted, Shape
<1>6. QED BY <1>2, <1>3, <1>4, <1>5, QuietStep, Zenon

\* The call is counted.
LEMMA CountCallStep ==
    ASSUME CallInv, NEW c \in Call, CountCall(c)
    PROVE  CallInv'
<1>1. Shape /\ Granted(c)
  BY Zenon DEF CallInv
<1>2. log' = log /\ effects' = effects /\ token' = token /\ req' = req /\ reply' = reply
  BY Zenon DEF CountCall, history
<1>3. pc[c] = "count" /\ pc' = [pc EXCEPT ![c] = "decide"]
  BY Zenon DEF CountCall, Goto
<1>4. Moves(c)
  BY <1>1, <1>2, <1>3, Zenon DEF Moves, Shape
<1>5. Granted(c)'
  BY <1>1, <1>2, <1>3, Zenon DEF Granted, Shape
<1>6. QED BY <1>2, <1>3, <1>4, <1>5, QuietStep, Zenon

\* The policy has spoken.
LEMMA decideStep ==
    ASSUME CallInv, NEW c \in Call, decide(c)
    PROVE  CallInv'
<1>1. Shape /\ Granted(c)
  BY Zenon DEF CallInv
<1>2. log' = log /\ effects' = effects /\ token' = token /\ req' = req /\ reply' = reply
  BY Zenon DEF decide, history
<1>3. pc[c] = "decide" /\ pc' = [pc EXCEPT ![c] = "record"]
  BY Zenon DEF decide, Goto
<1>4. Moves(c)
  BY <1>1, <1>2, <1>3, Zenon DEF Moves, Shape
<1>5. Granted(c)'
  BY <1>1, <1>2, <1>3, Zenon DEF Granted, Shape
<1>6. QED BY <1>2, <1>3, <1>4, <1>5, QuietStep, Zenon

\* A refusal is recorded, or not, and answered.
LEMMA DenyStep ==
    ASSUME CallInv, NEW c \in Call, Deny(c)
    PROVE  CallInv'
<1>1. Shape /\ Granted(c)
  BY Zenon DEF CallInv
<1>2. effects' = effects /\ token' = token /\ req' = req
  BY Zenon DEF Deny, history
<1>3. pc[c] = "deny" /\ pc' = [pc EXCEPT ![c] = "done"]
      /\ reply' = [reply EXCEPT ![c] = "denied"]
  BY Zenon DEF Deny, Goto, Reply
<1>4. log' \in Seq(Records) /\ \A x : Contains(log, x) => Contains(log', x)
  <2>1. log' \in {log, Append(log, Rec(c, "denied"))}
    BY Zenon DEF Deny, MaybeAppended
  <2>2. Rec(c, "denied") \in Records
    BY RecType, Zenon
  <2>3. log \in Seq(Records)
    BY <1>1, Zenon DEF Shape
  <2>4. QED BY <2>1, <2>2, <2>3, LogGrows
<1>5. Moves(c)
  BY <1>1, <1>2, <1>3, <1>4, Zenon DEF Moves, Shape
<1>6. pc'[c] = "done" /\ reply'[c] = "denied"
  BY <1>1, <1>3, Zenon DEF Shape
<1>7. Granted(c)'
  BY <1>6, Zenon DEF Granted
<1>8. QED BY <1>2, <1>3, <1>4, <1>5, <1>6, <1>7, QuietStep, Zenon DEF Refused

\* A failure is recorded, or not, and answered.
LEMMA RecordFailureStep ==
    ASSUME CallInv, NEW c \in Call, RecordFailure(c)
    PROVE  CallInv'
<1>1. Shape /\ Granted(c)
  BY Zenon DEF CallInv
<1>2. effects' = effects /\ token' = token /\ req' = req
  BY Zenon DEF RecordFailure, history
<1>3. pc[c] = "fail" /\ pc' = [pc EXCEPT ![c] = "done"]
      /\ reply' = [reply EXCEPT ![c] = "failed"]
  BY Zenon DEF RecordFailure, Goto, Reply
<1>4. log' \in Seq(Records) /\ \A x : Contains(log, x) => Contains(log', x)
  <2>1. log' \in {log, Append(log, Rec(c, "failed"))}
    BY Zenon DEF RecordFailure, MaybeAppended
  <2>2. Rec(c, "failed") \in Records
    BY RecType, Zenon
  <2>3. log \in Seq(Records)
    BY <1>1, Zenon DEF Shape
  <2>4. QED BY <2>1, <2>2, <2>3, LogGrows
<1>5. Moves(c)
  BY <1>1, <1>2, <1>3, <1>4, Zenon DEF Moves, Shape
<1>6. pc'[c] = "done" /\ reply'[c] = "failed"
  BY <1>1, <1>3, Zenon DEF Shape
<1>7. Granted(c)'
  BY <1>6, Zenon DEF Granted
<1>8. QED BY <1>2, <1>3, <1>4, <1>5, <1>6, <1>7, QuietStep, Zenon DEF Refused

\* The decision is recorded: only an acknowledged allow goes on.
LEMMA RecordDecisionStep ==
    ASSUME CallInv, NEW c \in Call, RecordDecision(c)
    PROVE  CallInv'
<1> DEFINE r == Rec(c, IF outcome[c] \in Allowing THEN "allowed" ELSE "denied")
<1>1. Shape /\ Granted(c)
  BY Zenon DEF CallInv
<1>2. effects' = effects /\ token' = token /\ req' = req /\ pc[c] = "record"
  BY Zenon DEF RecordDecision, history
<1>3. log' \in Seq(Records) /\ (\A x : Contains(log, x) => Contains(log', x))
      /\ (log' = Append(log, r) => Contains(log', r))
  <2>1. log' \in {log, Append(log, r)}
    BY Zenon DEF RecordDecision, Appended, MaybeAppended
  <2>2. r \in Records
    BY RecType, Zenon
  <2>3. log \in Seq(Records)
    BY <1>1, Zenon DEF Shape
  <2>4. HIDE DEF r
  <2>5. QED BY <2>1, <2>2, <2>3, LogGrows
<1>4. \/ /\ log' = Append(log, r) /\ outcome[c] \in Allowing /\ reply' = reply
         /\ pc' = [pc EXCEPT ![c] = IF HasBroker THEN "exchange" ELSE "forward"]
      \/ /\ pc' = [pc EXCEPT ![c] = "done"]
         /\ reply' = [reply EXCEPT ![c] = "denied"]
  BY Zenon DEF RecordDecision, Appended, MaybeAppended, Goto, Reply
<1>5. Moves(c)
  BY <1>1, <1>2, <1>3, <1>4, Zenon DEF Moves, Shape
<1>6. Granted(c)'
  <2>1. CASE /\ log' = Append(log, r) /\ outcome[c] \in Allowing /\ reply' = reply
             /\ pc' = [pc EXCEPT ![c] = IF HasBroker THEN "exchange" ELSE "forward"]
    <3>1. Contains(log', Rec(c, "allowed"))
      BY <1>3, <2>1, Zenon
    <3>2. pc'[c] = (IF HasBroker THEN "exchange" ELSE "forward") /\ reply'[c] = ""
      BY <1>1, <1>2, <2>1, Zenon DEF Shape, Granted
    <3>3. QED BY <3>1, <3>2, BrokerAssumption, Zenon DEF Granted, Rec
  <2>2. CASE /\ pc' = [pc EXCEPT ![c] = "done"]
             /\ reply' = [reply EXCEPT ![c] = "denied"]
    BY <1>1, <2>2, Zenon DEF Shape, Granted
  <2>3. QED BY <1>4, <2>1, <2>2, Zenon
<1>7. QED BY <1>2, <1>3, <1>5, <1>6, QuietStep, Zenon

\* The broker mints the request's own token, or the request fails.
LEMMA ExchangeStep ==
    ASSUME CallInv, NEW c \in Call, Exchange(c)
    PROVE  CallInv'
<1>1. Shape /\ Granted(c)
  BY Zenon DEF CallInv
<1>2. log' = log /\ effects' = effects /\ req' = req /\ reply' = reply
      /\ pc[c] = "exchange"
  BY Zenon DEF Exchange, history
<1>3. \/ /\ token' = [token EXCEPT ![c] = Scope(c)]
         /\ pc' = [pc EXCEPT ![c] = "forward"]
      \/ token' = token /\ pc' = [pc EXCEPT ![c] = "fail"]
  BY Zenon DEF Exchange, Goto, Scope, Minted
<1>4. Moves(c)
  BY <1>1, <1>2, <1>3, Zenon DEF Moves, Shape
<1>5. Scope(c)' = Scope(c)
  BY <1>2, Zenon DEF Scope, agent, upstream
<1>6. Granted(c)'
  BY <1>1, <1>2, <1>3, <1>5, Zenon DEF Granted, Shape
<1>7. QED BY <1>2, <1>4, <1>6, QuietStep, Zenon

\* The result is transformed, remembered and returned.
LEMMA FinishStep ==
    ASSUME CallInv, NEW c \in Call, Finish(c)
    PROVE  CallInv'
<1>1. Shape /\ Granted(c)
  BY Zenon DEF CallInv
<1>2. log' = log /\ effects' = effects /\ req' = req /\ token' = token
      /\ pc' = [pc EXCEPT ![c] = "done"] /\ reply' = [reply EXCEPT ![c] = "ok"]
  BY Zenon DEF Finish, history, Goto, Reply
<1>3. Moves(c)
  BY <1>1, <1>2, Zenon DEF Moves, Shape
<1>4. pc'[c] = "done" /\ reply'[c] = "ok"
  BY <1>1, <1>2, Zenon DEF Shape
<1>5. Granted(c)'
  BY <1>4, Zenon DEF Granted
<1>6. QED BY <1>2, <1>3, <1>4, <1>5, QuietStep DEF Refused

\* tools/list is received.
LEMMA ListToolsStep ==
    ASSUME CallInv, NEW c \in Call, NEW cr \in ListCred, ListTools(c, cr)
    PROVE  CallInv'
<1>1. Shape /\ Granted(c)
  BY Zenon DEF CallInv
<1>2. log' = log /\ effects' = effects /\ token' = token /\ pc[c] = "idle"
  BY Zenon DEF ListTools, history
<1>3. DOMAIN pc' = Call /\ DOMAIN reply' = Call /\ DOMAIN req' = Call
  BY <1>1, Zenon DEF ListTools, Shape, Goto, Reply
<1>4. Shape'
  BY <1>1, <1>2, <1>3, Zenon DEF Shape
<1>5. Moves(c)
  BY <1>1, <1>2, <1>4, Zenon DEF ListTools, Moves, Shape, Goto, Reply
<1>6. pc'[c] \in {"done", "list"} /\ (reply'[c] # "" => pc'[c] = "done")
  BY <1>1, <1>2, Zenon DEF ListTools, Shape, Goto, Reply, Granted
<1>7. Granted(c)'
  BY <1>6, Zenon DEF Granted
<1>8. QED BY <1>2, <1>5, <1>7, QuietStep, Zenon

\* tools/list looks at one tool.
LEMMA ListOneStep ==
    ASSUME CallInv, NEW c \in Call, NEW t \in DOMAIN Route, ListOne(c, t)
    PROVE  CallInv'
<1>1. Shape /\ Granted(c)
  BY Zenon DEF CallInv
<1>2. log' = log /\ effects' = effects /\ req' = req /\ token' = token
      /\ pc[c] = "list"
  BY Zenon DEF ListOne, history
<1>3. \/ /\ pc' = [pc EXCEPT ![c] = "done"]
         /\ reply' = [reply EXCEPT ![c] = "listed"]
      \/ pc' = pc /\ reply' = reply
  BY Zenon DEF ListOne, Goto, Reply
<1>4. Moves(c)
  BY <1>1, <1>2, <1>3, Zenon DEF Moves, Shape
<1>5. Granted(c)'
  BY <1>1, <1>2, <1>3, Zenon DEF Granted, Shape
<1>6. QED BY <1>2, <1>4, <1>5, QuietStep, Zenon

\* The upstream is called: at most one effect, that of c.
LEMMA ForwardStep ==
    ASSUME CallInv, NEW c \in Call, Forward(c)
    PROVE  CallInv'
<1>0. PICK e0 : e0 = [call |-> c, agent |-> agent(c), tool |-> req[c].tool,
                      upstream |-> upstream(c), arg |-> req[c].arg, token |-> token[c]]
  BY Zenon, Zenon
<1>1. Shape /\ Granted(c)
  BY Zenon DEF CallInv
<1>2. log' = log /\ req' = req /\ token' = token /\ reply' = reply /\ pc[c] = "forward"
  BY Zenon DEF Forward
<1>3. pc' \in {[pc EXCEPT ![c] = "finish"], [pc EXCEPT ![c] = "fail"]}
  BY Zenon DEF Forward, Goto
<1>4. effects' \in {effects, effects \union {e0}}
  BY <1>0, Zenon DEF Forward, Executed, history
<1>5. Shape'
  BY <1>1, <1>2, <1>3, Zenon DEF Shape
<1>6. ASSUME NEW d \in Call PROVE Granted(d)'
  <2>1. Granted(d) /\ Scope(d)' = Scope(d)
    BY <1>2, Zenon DEF CallInv, Scope, agent, upstream
  <2>2. d # c => pc'[d] = pc[d]
    BY <1>1, <1>3, Zenon DEF Shape
  <2>3. pc'[c] \in {"finish", "fail"} /\ reply[c] = ""
    BY <1>1, <1>2, <1>3, Zenon DEF Shape, Granted
  <2>4. QED BY <1>2, <2>1, <2>2, <2>3, Zenon DEF Granted
<1>7. ASSUME NEW e \in effects PROVE Accounted(e)'
  <2>1. Accounted(e)
    BY Zenon DEF CallInv
  <2>2. pc'[e.call] \in {"finish", "fail", "done", "lost"}
    BY <1>1, <1>3, <2>1, Zenon DEF Accounted, Shape
  <2>3. QED BY <1>2, <2>1, <2>2, Zenon DEF Accounted, Rec
<1>8. Accounted(e0)'
  <2>1. pc'[c] \in {"finish", "fail"} /\ reply'[c] = ""
    BY <1>1, <1>2, <1>3, Zenon DEF Shape, Granted
  <2>2. Contains(log', Rec(c, "allowed"))
    BY <1>1, <1>2, Zenon DEF Granted
  <2>3. HasBroker => token[c] = <<agent(c), upstream(c), req[c].tool>>
    BY <1>1, <1>2, Zenon DEF Granted, Scope
  <2>4. e0.call = c /\ (HasBroker => e0.token = <<e0.agent, e0.upstream, e0.tool>>)
    BY <1>0, <2>3, Zenon
  <2>5. QED BY <2>1, <2>2, <2>4, Zenon DEF Accounted, Refused, Rec
<1>9. QED
  <2>1. ASSUME NEW e \in effects' PROVE Accounted(e)'
    BY <1>4, <1>7, <1>8, Zenon
  <2>2. QED BY <1>5, <1>6, <2>1, Zenon DEF CallInv

\* A crash loses requests in flight and nothing else.
LEMMA CrashStep == ASSUME CallInv, Crash PROVE CallInv'
<1>1. Shape
  BY Zenon DEF CallInv
<1>2. log' = log /\ req' = req /\ token' = token /\ reply' = reply /\ effects' = effects
  BY Zenon DEF Crash, local, history
<1>3. pc' = [c \in Call |-> IF pc[c] \in {"idle", "done"} THEN pc[c] ELSE "lost"]
  BY Zenon DEF Crash
<1>4. Shape'
  BY <1>1, <1>2, <1>3, Zenon DEF Shape
<1>5. ASSUME NEW c \in Call PROVE Granted(c)'
  <2>1. Granted(c)
    BY Zenon DEF CallInv
  <2>2. pc'[c] = IF pc[c] \in {"idle", "done"} THEN pc[c] ELSE "lost"
    BY <1>3, Zenon
  <2>3. pc'[c] \notin {"exchange", "forward"} /\ (pc[c] = "done" => pc'[c] = "done")
    BY <2>2, Zenon
  <2>4. QED BY <1>2, <2>1, <2>3, Zenon DEF Granted
<1>6. ASSUME NEW e \in effects' PROVE Accounted(e)'
  <2>1. Accounted(e)
    <3>1. e \in effects
      BY <1>2, Zenon
    <3>2. QED BY <3>1, Zenon DEF CallInv
  <2>2. pc'[e.call] \in {"done", "lost"}
    BY <1>3, <2>1, Zenon DEF Accounted
  <2>3. QED BY <1>2, <2>1, <2>2, Zenon DEF Accounted, Rec
<1>7. QED BY <1>4, <1>5, <1>6, Zenon DEF CallInv

\* Steps that leave requests, log and effects alone.
LEMMA StutterStep ==
    ASSUME CallInv, UNCHANGED <<log, pc, req, token, reply, effects>>
    PROVE  CallInv'
<1>1. Shape'
  BY Zenon DEF CallInv, Shape
<1>2. ASSUME NEW c \in Call PROVE Granted(c)'
  BY Zenon DEF CallInv, Granted, Scope, agent, upstream, Rec
<1>3. ASSUME NEW e \in effects' PROVE Accounted(e)'
  BY Zenon DEF CallInv, Accounted, Rec
<1>4. QED BY <1>1, <1>2, <1>3, Zenon DEF CallInv

\* Every step keeps the invariant.
LEMMA NextPreserves == CallInv /\ [Next]_vars => CallInv'
<1> SUFFICES ASSUME CallInv, [Next]_vars PROVE CallInv'
  OBVIOUS
<1>1. ASSUME NEW c \in Call, Step(c) PROVE CallInv'
  BY <1>1, DenyStep, taintArgumentsStep, CountCallStep, decideStep,
     RecordDecisionStep, ExchangeStep, ForwardStep, RecordFailureStep,
     FinishStep, ListOneStep DEF Step
<1>2. CASE Tick
  BY <1>2, StutterStep, Zenon DEF Tick, local, history
<1>3. CASE UNCHANGED vars
  BY <1>3, StutterStep, Zenon DEF vars, local, history
<1>4. CASE Finished
  BY <1>3, <1>4, Zenon DEF Finished
<1>5. QED BY <1>1, <1>2, <1>3, <1>4, CallToolStep, ListToolsStep, CrashStep, Zenon DEF Next

\* The inductive invariant holds in every reachable state of the gateway.
THEOREM CallInvariant == Spec => []CallInv
BY InitEstablishes, NextPreserves, PTL DEF Spec

\* CallTool of gateway.go: whatever fails and whenever the process dies, what
\* an upstream has executed was recorded as allowed before.
THEOREM EffectsAreRecorded == Spec => []EffectIsRecorded
<1>1. CallInv => EffectIsRecorded
  BY Zenon DEF CallInv, Accounted, Contains, EffectIsRecorded
<1>2. QED BY <1>1, CallInvariant, PTL

\* deniedResult of gateway.go: a call that was answered with a denial or as an
\* unknown tool is never executed.
THEOREM DeniedCallsHaveNoEffect == Spec => []DeniedHasNoEffect
<1>1. CallInv => DeniedHasNoEffect
  BY Zenon DEF CallInv, Accounted, Refused, DeniedHasNoEffect
<1>2. QED BY <1>1, CallInvariant, PTL

\* broker.Exchange in CallTool of gateway.go: with a broker, upstreams only see
\* tokens minted for the agent, upstream and tool of the call.
THEOREM TokensAreScoped == Spec => []TokenIsScoped
<1>1. CallInv => TokenIsScoped
  BY Zenon DEF CallInv, Accounted, TokenIsScoped
<1>2. QED BY <1>1, CallInvariant, PTL

-----------------------------------------------------------------------------
\* What CallTool has checked when refusal returns "".
Passes(cr, t) ==
    /\ Resolves(cr) /\ Declared(Identity[cr])
    /\ Routed(t) /\ Registered(t) /\ ToolReg[t] \in {"", Route[t]}

\* Past the checks of CallTool, and past its upstream call.
Checked == {"taint", "count", "decide", "record", "exchange", "forward", "finish", "fail"}
Past == {"finish", "fail", "done", "lost"}

Form == DOMAIN outcome = Call /\ DOMAIN seen = Call /\ DOMAIN result = Call

\* Nothing happens to request d in a step.
Same(d) ==
    /\ pc'[d] = pc[d] /\ req'[d] = req[d] /\ outcome'[d] = outcome[d]
    /\ seen'[d] = seen[d] /\ result'[d] = result[d]

\* What may happen to request d in a step of its own.
Advances(d) ==
    /\ pc[d] # "idle" => req'[d] = req[d]
    /\ pc[d] # "decide" => outcome'[d] = outcome[d]
    /\ pc[d] \notin {"taint", "count"} => seen'[d] = seen[d]
    /\ pc'[d] \in Checked =>
          pc[d] \in Checked \/ (pc[d] = "idle" /\ Passes(req'[d].cred, req'[d].tool))
    /\ pc'[d] \in {"exchange", "forward"} =>
          pc[d] = "exchange" \/ (pc[d] = "record" /\ outcome[d] \in Allowing)
    /\ pc[d] \in Past => pc'[d] \in Past

ArrivesAs(c) ==
    \/ \E cr \in Cred, t \in Tool, v \in Value : CallTool(c, cr, t, v)
    \/ \E cr \in ListCred : ListTools(c, cr)

\* The checks of CallTool, in their order.
LEMMA RefusalPasses ==
    ASSUME NEW cr, NEW t, refusal(cr, t) = ""
    PROVE  Passes(cr, t)
BY Zenon DEF refusal, Passes

\* What CallTool and ListTools touch when a request comes in.
LEMMA Arrival ==
    ASSUME NEW c \in Call, ArrivesAs(c)
    PROVE  /\ pc[c] = "idle"
           /\ UNCHANGED <<clock, boot, usage, prov, seen, outcome, result, effects, returned>>
           /\ \E l \in {"done", "taint", "deny", "list"} : pc' = [pc EXCEPT ![c] = l]
           /\ \E r : req' = [req EXCEPT ![c] = r] /\ r.now = clock
<1>1. ASSUME NEW cr \in Cred, NEW t \in Tool, NEW v \in Value, CallTool(c, cr, t, v)
      PROVE  /\ pc[c] = "idle"
             /\ UNCHANGED <<clock, boot, usage, prov, seen, outcome, result, effects, returned>>
             /\ \E l \in {"done", "taint", "deny", "list"} : pc' = [pc EXCEPT ![c] = l]
             /\ \E r : req' = [req EXCEPT ![c] = r] /\ r.now = clock
  <2> DEFINE r == [cred |-> cr, tool |-> t, arg |-> v, now |-> clock]
  <2>1. r.now = clock
    OBVIOUS
  <2>2. req' = [req EXCEPT ![c] = r]
    BY <1>1, Zenon DEF CallTool
  <2> QED
    BY <1>1, <2>1, <2>2, Zenon DEF CallTool, Goto, Reply, history
<1>2. ASSUME NEW cr \in ListCred, ListTools(c, cr)
      PROVE  /\ pc[c] = "idle"
             /\ UNCHANGED <<clock, boot, usage, prov, seen, outcome, result, effects, returned>>
             /\ \E l \in {"done", "taint", "deny", "list"} : pc' = [pc EXCEPT ![c] = l]
             /\ \E r : req' = [req EXCEPT ![c] = r] /\ r.now = clock
  <2> DEFINE r == [NoReq EXCEPT !.cred = cr, !.now = clock]
  <2>1. DOMAIN NoReq = {"cred", "tool", "arg", "now"}
    BY Zenon DEF NoReq
  <2>2. r.now = clock
    BY <2>1, Zenon
  <2>3. req' = [req EXCEPT ![c] = r]
    BY <1>2, Zenon DEF ListTools
  <2> QED
    BY <1>2, <2>2, <2>3, Zenon DEF ListTools, Goto, Reply, history
<1> QED
  BY <1>1, <1>2, Zenon DEF ArrivesAs

\* A request's step leaves the other requests alone, and the shape of the state.
LEMMA OthersStay ==
    ASSUME Shape, Form, NEW c \in Call, Step(c) \/ ArrivesAs(c)
    PROVE  Form' /\ \A d \in Call \ {c} : Same(d)
<1>1. CASE ArrivesAs(c)
  BY <1>1, Arrival DEF Shape, Form, Same
<1>2. CASE Deny(c) \/ RecordDecision(c) \/ RecordFailure(c)
  BY <1>2, Zenon DEF Deny, RecordDecision, RecordFailure, Goto, Reply, Shape, Form, Same
<1>3. CASE taintArguments(c) \/ CountCall(c)
  BY <1>3, Zenon DEF taintArguments, CountCall, Goto, Shape, Form, Same
<1>4. CASE decide(c)
  BY <1>4, Zenon DEF decide, Goto, Shape, Form, Same
<1>5. CASE Exchange(c) \/ Forward(c)
  BY <1>5, Zenon DEF Exchange, Forward, Goto, Shape, Form, Same
<1>6. CASE Finish(c)
  BY <1>6, Zenon DEF Finish, Goto, Reply, Shape, Form, Same
<1>7. CASE \E t \in DOMAIN Route : ListOne(c, t)
  BY <1>7, Zenon DEF ListOne, Goto, Reply, Shape, Form, Same
<1> QED
  BY <1>1, <1>2, <1>3, <1>4, <1>5, <1>6, <1>7, Zenon DEF Step

\* The order of CallTool and ListTools.
LEMMA ActorAdvances ==
    ASSUME Shape, Form, NEW c \in Call, Step(c) \/ ArrivesAs(c)
    PROVE  Advances(c)
<1>1. ASSUME NEW cr \in Cred, NEW t \in Tool, NEW v \in Value, CallTool(c, cr, t, v)
      PROVE  Advances(c)
  <2>1. pc[c] = "idle" /\ req'[c].cred = cr /\ req'[c].tool = t
        /\ UNCHANGED <<outcome, seen>>
    BY <1>1, Zenon DEF CallTool, Shape
  <2>2. pc'[c] \in {"done", "deny"} \/ (pc'[c] = "taint" /\ refusal(cr, t) = "")
    BY <1>1, Zenon DEF CallTool, Goto, Reply, Shape
  <2>3. pc'[c] = "taint" => Passes(cr, t)
    BY <2>2, RefusalPasses, Zenon
  <2>4. pc'[c] \in {"done", "deny", "taint"}
    BY <2>2, Zenon
  <2> QED
    BY <2>1, <2>3, <2>4, Zenon DEF Advances, Checked, Past
<1>2. ASSUME NEW cr \in ListCred, ListTools(c, cr)
      PROVE  Advances(c)
  BY <1>2, Zenon DEF ListTools, Goto, Reply, Shape, Advances, Checked, Past
<1>3. CASE Deny(c) \/ RecordFailure(c)
  BY <1>3, Zenon DEF Deny, RecordFailure, Goto, Reply, Shape, Advances, Checked, Past
<1>4. CASE RecordDecision(c)
  BY <1>4, Zenon DEF RecordDecision, Goto, Reply, Shape, Advances, Checked, Past
<1>5. CASE taintArguments(c) \/ CountCall(c)
  BY <1>5, Zenon DEF taintArguments, CountCall, Goto, Shape, Advances, Checked, Past
<1>6. CASE decide(c)
  BY <1>6, Zenon DEF decide, Goto, Shape, Advances, Checked, Past
<1>7. CASE Exchange(c) \/ Forward(c)
  BY <1>7, Zenon DEF Exchange, Forward, Goto, Shape, Advances, Checked, Past
<1>8. CASE Finish(c)
  BY <1>8, Zenon DEF Finish, Goto, Reply, Shape, Advances, Checked, Past
<1>9. CASE \E t \in DOMAIN Route : ListOne(c, t)
  BY <1>9 DEF ListOne, Goto, Reply, Shape, Advances, Checked, Past
<1> QED
  BY <1>1, <1>2, <1>3, <1>4, <1>5, <1>6, <1>7, <1>8, <1>9, Zenon DEF Step, ArrivesAs

\* The requests in flight, through a step that is none of theirs.
Lapses(d) ==
    /\ req'[d] = req[d] /\ outcome'[d] = outcome[d] /\ seen'[d] = seen[d]
    /\ result'[d] = result[d]
    /\ pc'[d] = pc[d] \/ (pc'[d] = "lost" /\ pc[d] # "idle")

\* Ticks and crashes move no request forward.
LEMMA AllLapse ==
    ASSUME Shape, Form, Tick \/ Crash \/ Finished \/ UNCHANGED vars
    PROVE  Form' /\ \A d \in Call : Lapses(d)
BY Zenon DEF Shape, Form, Lapses, Tick, Crash, Finished, vars, local

\* What CallTool has checked and the policy has allowed.
Governed(c) ==
    /\ pc[c] \in Checked => Passes(req[c].cred, req[c].tool)
    /\ pc[c] \in {"exchange", "forward"} => outcome[c] \in Allowing

GovernedEffect(e) ==
    /\ e.call \in Call /\ pc[e.call] \in Past
    /\ e.tool = req[e.call].tool /\ e.upstream = Route[e.tool]
    /\ Passes(req[e.call].cred, e.tool)
    /\ outcome[e.call] \in Allowing

GovernInv ==
    /\ CallInv /\ Form
    /\ \A c \in Call : Governed(c)
    /\ \A e \in effects : GovernedEffect(e)

\* A request past its upstream call keeps what the effect was governed by.
LEMMA EffectKept ==
    ASSUME NEW e, GovernedEffect(e), Advances(e.call) \/ Lapses(e.call) \/ Same(e.call)
    PROVE  GovernedEffect(e)'
<1>1. pc[e.call] \in Past /\ pc[e.call] # "idle" /\ pc[e.call] # "decide"
  BY Zenon DEF GovernedEffect, Past
<1>2. req'[e.call] = req[e.call] /\ outcome'[e.call] = outcome[e.call]
  BY <1>1, Zenon DEF Advances, Lapses, Same
<1>3. pc'[e.call] \in Past
  BY <1>1, Zenon DEF Advances, Lapses, Same, Past
<1> QED
  BY <1>2, <1>3, Zenon DEF GovernedEffect

\* A request that advances in CallTool's order stays governed.
LEMMA GovernedKept ==
    ASSUME NEW c, Governed(c), Advances(c) \/ Lapses(c) \/ Same(c)
    PROVE  Governed(c)'
BY Zenon DEF Governed, Advances, Lapses, Same, Checked

\* Every step keeps requests and effects governed.
LEMMA GovernStep == GovernInv /\ [Next]_vars => GovernInv'
<1> SUFFICES ASSUME GovernInv, [Next]_vars
             PROVE  GovernInv'
  OBVIOUS
<1>1. CallInv' /\ Shape
  BY NextPreserves, Zenon DEF GovernInv, CallInv
<1>2. ASSUME NEW c \in Call, Step(c) \/ ArrivesAs(c)
      PROVE  Form' /\ \A d \in Call : Advances(d) \/ Same(d)
  BY <1>1, <1>2, OthersStay, ActorAdvances, Zenon DEF GovernInv
<1>3. ASSUME Tick \/ Crash \/ Finished \/ UNCHANGED vars
      PROVE  Form' /\ \A d \in Call : Lapses(d)
  BY <1>1, <1>3, AllLapse, Zenon DEF GovernInv
<1>4. Form' /\ \A d \in Call : Advances(d) \/ Lapses(d) \/ Same(d)
  BY <1>2, <1>3, Zenon DEF Next, ArrivesAs
<1>5. \A c \in Call : Governed(c)'
  BY <1>4, GovernedKept, Zenon DEF GovernInv
<1>6. \A e \in effects : GovernedEffect(e)'
  BY <1>4, EffectKept, Zenon DEF GovernInv, GovernedEffect
<1>7. CASE effects' = effects
  BY <1>1, <1>4, <1>5, <1>6, <1>7, Zenon DEF GovernInv
<1>8. ASSUME NEW c \in Call, Forward(c)
      PROVE  GovernInv'
  <2>0. PICK e0 : e0 = [call |-> c, agent |-> agent(c), tool |-> req[c].tool,
                        upstream |-> upstream(c), arg |-> req[c].arg, token |-> token[c]]
    BY Zenon
  <2>1. effects' \in {effects, effects \union {e0}}
    BY <1>8, <2>0, Zenon DEF Forward, Executed, history
  <2>2. pc[c] = "forward" /\ pc'[c] \in {"finish", "fail"} /\ UNCHANGED <<req, outcome>>
    BY <1>1, <1>8, Zenon DEF Forward, Goto, Shape
  <2>3. Passes(req[c].cred, req[c].tool) /\ outcome[c] \in Allowing
    BY <2>2, Zenon DEF GovernInv, Governed, Checked
  <2>4. e0.call = c /\ e0.tool = req[c].tool /\ e0.upstream = Route[e0.tool]
    BY <2>0, Zenon DEF upstream
  <2>5. GovernedEffect(e0)'
    BY <2>2, <2>3, <2>4, Zenon DEF GovernedEffect, Past
  <2> QED
    BY <1>1, <1>4, <1>5, <1>6, <2>1, <2>5, Zenon DEF GovernInv
<1>9. (\A c \in Call : ~Forward(c)) => effects' = effects
  <2>1. ASSUME NEW c \in Call, Step(c), ~Forward(c)
        PROVE  effects' = effects
    BY <2>1, Zenon DEF Step, Deny, taintArguments, CountCall, decide, RecordDecision,
       Exchange, RecordFailure, Finish, ListOne, history
  <2>2. ASSUME NEW c \in Call, ArrivesAs(c)
        PROVE  effects' = effects
    BY <2>2, Arrival, Zenon
  <2>3. CASE Tick \/ Crash \/ Finished \/ UNCHANGED vars
    BY <2>3, Zenon DEF Tick, Crash, Finished, vars, history
  <2> QED
    BY <2>1, <2>2, <2>3, Zenon DEF Next, ArrivesAs
<1> QED
  BY <1>7, <1>8, <1>9, Zenon

\* The checks of CallTool and the recorded decision stand between a request and
\* its effect, in every reachable state.
THEOREM GovernInvariant == Spec => []GovernInv
<1>1. Init => GovernInv
  <2> SUFFICES ASSUME Init PROVE GovernInv
    OBVIOUS
  <2>1. Form /\ effects = {} /\ \A c \in Call : pc[c] = "idle"
    BY Zenon DEF Init, Form
  <2> QED
    BY <2>1, InitEstablishes, Zenon DEF GovernInv, Governed, Checked
<1> QED
  BY <1>1, GovernStep, PTL DEF Spec

\* CallTool of gateway.go: for any registries, routes and policy, what an upstream
\* executes came from a declared agent in its pinned version, names a registered
\* tool, went to the upstream that tool is registered for, and was allowed.
THEOREM EffectsAreGoverned == Spec => []EffectIsGoverned
<1>1. GovernInv => EffectIsGoverned
  BY Zenon DEF GovernInv, GovernedEffect, Passes, EffectIsGoverned
<1> QED
  BY <1>1, GovernInvariant, PTL

-----------------------------------------------------------------------------
\* Upstream results that give agent a the label l for the string v, at time t.
Returned(a, v, l, t) ==
    \E r \in returned : r.agent = a /\ r.value = v /\ r.label = l /\ r.at = t

\* An entry of a's map stands for a result, made TTL before it expires.
TracedEntry(a, v) ==
    \E t \in Nat : Returned(a, v, prov[a][v].prov, t) /\ prov[a][v].expiresAt = t + TTL

\* The label the policy was shown for c stands for a result that was live.
TracedLabel(c) ==
    req[c].arg # Redacted /\ seen[c].label # untrustedProvenance =>
        \E t \in Nat : Returned(agent(c), req[c].arg, seen[c].label, t)
                       /\ req[c].now < t + TTL

\* A result on its way to the client was returned under the upstream's label.
TracedResult(c) ==
    pc[c] = "finish" => \A v \in result[c] :
        Returned(agent(c), v, UpstreamLabel(upstream(c)), req[c].now)

TraceForm ==
    /\ DOMAIN prov = Agent /\ clock \in Nat
    /\ \A c \in Call : /\ DOMAIN seen[c] = {"label", "count", "window"}
                       /\ req[c].now \in Nat
                       /\ pc[c] = "idle" => seen[c].label = untrustedProvenance

TraceInv ==
    /\ GovernInv /\ TraceForm
    /\ \A a \in Agent : \A v \in DOMAIN prov[a] : v # Redacted => TracedEntry(a, v)
    /\ \A c \in Call : TracedLabel(c) /\ TracedResult(c)

\* record puts one entry in, and keeps or drops the others.
LEMMA RecordEntries ==
    ASSUME NEW m, NEW v, NEW l, NEW now, NEW w \in DOMAIN record(m, v, l, now)
    PROVE  \/ w = v /\ record(m, v, l, now)[w] = [prov |-> l, expiresAt |-> now + TTL]
           \/ w \in DOMAIN m /\ record(m, v, l, now)[w] = m[w]
<1>1. CASE v = EmptyString
  BY <1>1, Zenon DEF record
<1>2. CASE v # EmptyString
  BY <1>2, Zenon DEF record, NoEntries
<1> QED
  BY <1>1, <1>2, Zenon

\* A request past CallTool's checks belongs to an agent.
LEMMA AgentKnown ==
    ASSUME GovernInv, NEW c \in Call, pc[c] \in Checked
    PROVE  agent(c) \in Agent
BY Zenon DEF GovernInv, Governed, Passes, Resolves, agent, Agent

\* resolve answers with the label of a live entry or with none.
LEMMA ResolveTraced ==
    ASSUME TraceInv, NEW c \in Call, pc[c] \in Checked, req[c].arg # Redacted,
           NEW l, l = resolve(prov[agent(c)], req[c].arg, req[c].now),
           l # untrustedProvenance
    PROVE  \E t \in Nat : Returned(agent(c), req[c].arg, l, t) /\ req[c].now < t + TTL
<1> DEFINE m == prov[agent(c)]
<1>1. req[c].arg \in DOMAIN m /\ req[c].now < m[req[c].arg].expiresAt
      /\ l = m[req[c].arg].prov
  BY Zenon DEF resolve
<1>2. agent(c) \in Agent
  BY AgentKnown, Zenon DEF TraceInv
<1>3. TracedEntry(agent(c), req[c].arg)
  BY <1>1, <1>2, Zenon DEF TraceInv
<1> QED
  BY <1>1, <1>3, Zenon DEF TracedEntry

\* What was returned stays returned, and a label shown stays traced.
LEMMA LabelKept ==
    ASSUME NEW c \in Call, TracedLabel(c), returned \subseteq returned',
           req'[c] = req[c], seen'[c].label = seen[c].label
    PROVE  TracedLabel(c)'
BY Zenon DEF TracedLabel, Returned, agent

\* So does a result on its way to the client,
LEMMA ResultKept ==
    ASSUME NEW c \in Call, TracedResult(c), returned \subseteq returned',
           req'[c] = req[c], result'[c] = result[c], pc'[c] # "finish" \/ pc[c] = "finish"
    PROVE  TracedResult(c)'
BY DEF TracedResult, Returned, agent, upstream

\* and an entry of the map.
LEMMA EntriesKept ==
    ASSUME TraceInv, returned \subseteq returned', prov' = prov
    PROVE  \A a \in Agent : \A v \in DOMAIN prov'[a] : v # Redacted => TracedEntry(a, v)'
BY DEF TraceInv, TracedEntry, Returned

\* The steps that touch neither labels, results nor the map.
LEMMA TraceQuiet ==
    ASSUME TraceInv, GovernInv', UNCHANGED <<prov, returned>>, clock' \in Nat,
           \A d \in Call :
               /\ DOMAIN seen'[d] = {"label", "count", "window"}
               /\ req'[d].now \in Nat
               /\ seen'[d].label = seen[d].label /\ result'[d] = result[d]
               /\ req'[d] = req[d] \/ pc[d] = "idle"
               /\ pc'[d] = "idle" => pc[d] = "idle"
               /\ pc'[d] = "finish" => pc[d] = "finish"
    PROVE  TraceInv'
<1>1. TraceForm'
  BY Zenon DEF TraceInv, TraceForm
<1>2. ASSUME NEW c \in Call
      PROVE  TracedLabel(c)' /\ TracedResult(c)'
  <2>1. CASE req'[c] = req[c]
    BY <2>1, LabelKept, ResultKept, Zenon DEF TraceInv
  <2>2. CASE pc[c] = "idle"
    <3>1. seen'[c].label = untrustedProvenance /\ pc'[c] # "finish"
      BY <2>2, Zenon DEF TraceInv, TraceForm
    <3> QED
      BY <3>1, Zenon DEF TracedLabel, TracedResult
  <2> QED
    BY <2>1, <2>2, Zenon
<1> QED
  BY <1>1, <1>2, EntriesKept, Zenon DEF TraceInv

\* The arguments are labelled from the map.
LEMMA TraceTaint ==
    ASSUME TraceInv, GovernInv', NEW c \in Call, taintArguments(c)
    PROVE  TraceInv'
<1> DEFINE l == resolve(prov[agent(c)], req[c].arg, req[c].now)
<1>1. Shape /\ Form /\ TraceForm
  BY Zenon DEF TraceInv, GovernInv, CallInv
<1>2. /\ pc[c] = "taint" /\ pc' = [pc EXCEPT ![c] = "count"]
      /\ seen' = [seen EXCEPT ![c].label = l]
      /\ UNCHANGED <<prov, returned, clock, req, result>>
  BY Zenon DEF taintArguments, Goto, history
<1>3. /\ seen'[c].label = l /\ DOMAIN seen'[c] = {"label", "count", "window"}
      /\ \A d \in Call \ {c} : seen'[d] = seen[d]
  BY <1>1, <1>2, Zenon DEF Form, TraceForm
<1> HIDE DEF l
<1>4. TraceForm'
  BY <1>1, <1>2, <1>3, Zenon DEF TraceForm, Shape
<1>5. TracedLabel(c)'
  <2>1. req[c].arg # Redacted /\ l # untrustedProvenance =>
           \E t \in Nat : Returned(agent(c), req[c].arg, l, t) /\ req[c].now < t + TTL
    BY <1>2, ResolveTraced, Zenon DEF l, Checked
  <2> QED
    BY <1>2, <1>3, <2>1, Zenon DEF TracedLabel, Returned, agent
<1>6. \A d \in Call \ {c} : TracedLabel(d)'
  BY <1>2, <1>3, LabelKept, Zenon DEF TraceInv
<1>7. \A d \in Call : TracedResult(d)'
  BY <1>1, <1>2, ResultKept, Zenon DEF TraceInv, Shape
<1> QED
  BY <1>2, <1>4, <1>5, <1>6, <1>7, EntriesKept, Zenon DEF TraceInv

\* The upstream's strings are in the history before they are anywhere else.
LEMMA TraceForward ==
    ASSUME TraceInv, GovernInv', NEW c \in Call, Forward(c)
    PROVE  TraceInv'
<1>1. Shape /\ Form /\ TraceForm
  BY Zenon DEF TraceInv, GovernInv, CallInv
<1>2. UNCHANGED <<prov, clock, req, seen>> /\ returned \subseteq returned' /\ pc[c] = "forward"
  BY Zenon DEF Forward, history
<1>3. \A d \in Call \ {c} : pc'[d] = pc[d] /\ result'[d] = result[d]
  BY <1>1, Zenon DEF Forward, Goto, Shape, Form
<1>4. pc'[c] \in {"finish", "fail"}
  BY <1>1, Zenon DEF Forward, Goto, Shape
<1>5. TraceForm'
  BY <1>1, <1>2, <1>3, <1>4, Zenon DEF TraceForm
<1>6. TracedResult(c)'
  <2> SUFFICES ASSUME pc'[c] = "finish", NEW v \in result'[c]
               PROVE  Returned(agent(c), v, UpstreamLabel(upstream(c)), req[c].now)'
    BY Zenon DEF TracedResult
  <2>1. PICK r : /\ result' = [result EXCEPT ![c] = r]
                 /\ returned' = returned \union
                      {[agent |-> agent(c), value |-> w, at |-> req[c].now,
                        label |-> UpstreamLabel(upstream(c))] : w \in r}
    BY <1>1, Zenon DEF Forward, Goto, Shape
  <2>2. v \in r
    BY <1>1, <2>1, Zenon DEF Form
  <2>3. [agent |-> agent(c), value |-> v, at |-> req[c].now,
         label |-> UpstreamLabel(upstream(c))] \in returned'
    BY <2>1, <2>2, Zenon
  <2>4. agent(c)' = agent(c) /\ UpstreamLabel(upstream(c))' = UpstreamLabel(upstream(c))
    BY <1>2, Zenon DEF agent, upstream, UpstreamLabel
  <2> QED
    BY <1>2, <2>3, <2>4, Zenon DEF Returned
<1>7. \A d \in Call \ {c} : TracedResult(d)'
  BY <1>2, <1>3, ResultKept, Zenon DEF TraceInv
<1>8. \A d \in Call : TracedLabel(d)'
  BY <1>2, LabelKept, Zenon DEF TraceInv
<1> QED
  BY <1>2, <1>5, <1>6, <1>7, <1>8, EntriesKept, Zenon DEF TraceInv


\* A result the upstream gave, or the placeholder, enters the map.
LEMMA TraceFinish ==
    ASSUME TraceInv, GovernInv', NEW c \in Call, Finish(c)
    PROVE  TraceInv'
<1>1. Shape /\ Form /\ TraceForm
  BY Zenon DEF TraceInv, GovernInv, CallInv
<1>2. /\ pc[c] = "finish" /\ pc' = [pc EXCEPT ![c] = "done"]
      /\ UNCHANGED <<clock, req, seen, returned>>
  BY Zenon DEF Finish, Reply, Goto, history
<1>3. PICK shown \in applyObligations(c) :
          /\ result' = [result EXCEPT ![c] = shown]
          /\ prov' = recordResultProvenance(c, shown)
  BY Zenon DEF Finish
<1>4. agent(c) \in Agent
  BY <1>2, AgentKnown, Zenon DEF TraceInv, Checked
<1>5. \A v \in shown : v # Redacted =>
          Returned(agent(c), v, UpstreamLabel(upstream(c)), req[c].now)
  BY <1>2, Zenon DEF applyObligations, TraceInv, TracedResult
<1>6. DOMAIN prov' = Agent /\ \A a \in Agent : \A v \in DOMAIN prov'[a] :
          v # Redacted => TracedEntry(a, v)'
  <2>1. CASE shown = {}
    BY <1>1, <1>2, <1>3, <2>1, EntriesKept, Zenon DEF recordResultProvenance, TraceForm
  <2>2. CASE shown # {}
    <3>1. PICK v0 : v0 = CHOOSE v \in shown : TRUE
      OBVIOUS
    <3>2. v0 \in shown
      BY <2>2, <3>1, Zenon
    <3>3. PICK m : m = record(prov[agent(c)], v0, UpstreamLabel(upstream(c)), req[c].now)
      OBVIOUS
    <3>4. prov' = [prov EXCEPT ![agent(c)] = m]
      BY <1>3, <2>2, <3>1, <3>3, Zenon DEF recordResultProvenance
    <3>5. DOMAIN prov' = Agent /\ prov'[agent(c)] = m
          /\ \A a \in Agent \ {agent(c)} : prov'[a] = prov[a]
      BY <1>1, <1>4, <3>4, Zenon DEF TraceForm
    <3>6. ASSUME NEW a \in Agent \ {agent(c)}, NEW v \in DOMAIN prov'[a], v # Redacted
          PROVE  TracedEntry(a, v)'
      BY <1>2, <3>5, <3>6 DEF TraceInv, TracedEntry, Returned
    <3>7. ASSUME NEW v \in DOMAIN m, v # Redacted
          PROVE  TracedEntry(agent(c), v)'
      <4> DEFINE a == agent(c)
      <4>1. CASE v \in DOMAIN prov[a] /\ m[v] = prov[a][v]
        <5>1. TracedEntry(a, v)
          BY <1>4, <3>7, <4>1, Zenon DEF TraceInv
        <5>2. agent(c)' = agent(c)
          BY <1>2, Zenon DEF agent
        <5> QED
          BY <1>2, <3>5, <4>1, <5>1, <5>2 DEF TracedEntry, Returned
      <4>2. CASE v = v0 /\ m[v] = [prov |-> UpstreamLabel(upstream(c)),
                                   expiresAt |-> req[c].now + TTL]
        <5>1. Returned(a, v, m[v].prov, req[c].now) /\ m[v].expiresAt = req[c].now + TTL
          BY <1>5, <3>2, <3>7, <4>2
        <5>2. agent(c)' = agent(c) /\ req[c].now \in Nat
          BY <1>1, <1>2, Zenon DEF agent, TraceForm
        <5> QED
          BY <1>2, <3>5, <5>1, <5>2, Zenon DEF TracedEntry, Returned
      <4> QED
        BY <3>3, <4>1, <4>2, RecordEntries
    <3>8. agent(c)' = agent(c)
      BY <1>2, Zenon DEF agent
    <3> QED
      BY <3>5, <3>6, <3>7, <3>8, Zenon
  <2> QED
    BY <2>1, <2>2, Zenon
<1>7. TraceForm'
  BY <1>1, <1>2, <1>6, Zenon DEF TraceForm, Shape
<1>8. \A d \in Call : TracedLabel(d)'
  BY <1>2, LabelKept, Zenon DEF TraceInv
<1>9. \A d \in Call : TracedResult(d)'
  <2>1. TracedResult(c)'
    BY <1>1, <1>2, Zenon DEF TracedResult, Shape
  <2>2. \A d \in Call \ {c} : pc'[d] = pc[d] /\ result'[d] = result[d]
    BY <1>1, <1>2, <1>3, Zenon DEF Shape, Form
  <2> QED
    BY <1>2, <2>1, <2>2, ResultKept, Zenon DEF TraceInv
<1> QED
  BY <1>6, <1>7, <1>8, <1>9, Zenon DEF TraceInv

\* After a crash the maps are empty, and what was returned is still on record.
LEMMA TraceCrash ==
    ASSUME TraceInv, GovernInv', Crash
    PROVE  TraceInv'
<1>1. Shape /\ Form /\ TraceForm
  BY Zenon DEF TraceInv, GovernInv, CallInv
<1>2. UNCHANGED <<clock, req, seen, result, returned>>
  BY Zenon DEF Crash, local, history
<1>3. DOMAIN prov' = Agent /\ \A a \in Agent : DOMAIN prov'[a] = {}
  BY Zenon DEF Crash, NoEntries
<1>4. \A d \in Call : pc'[d] = pc[d] \/ pc'[d] = "lost"
  BY Zenon DEF Crash
<1>5. TraceForm'
  BY <1>1, <1>2, <1>3, <1>4, Zenon DEF TraceForm
<1>6. \A d \in Call : TracedLabel(d)' /\ TracedResult(d)'
  BY <1>2, <1>4, LabelKept, ResultKept, Zenon DEF TraceInv
<1> QED
  BY <1>3, <1>5, <1>6, Zenon DEF TraceInv


\* Labels stay traced through every step: the remaining ones are quiet.
LEMMA TraceStep == TraceInv /\ [Next]_vars => TraceInv'
<1> SUFFICES ASSUME TraceInv, [Next]_vars
             PROVE  TraceInv'
  OBVIOUS
<1>1. GovernInv' /\ Shape /\ Form /\ TraceForm
  BY GovernStep, Zenon DEF TraceInv, GovernInv, CallInv
<1>2. ASSUME NEW c \in Call, Deny(c) \/ RecordDecision(c) \/ RecordFailure(c)
      PROVE  TraceInv'
  <2>1. /\ UNCHANGED <<prov, returned, clock, req, seen, result>>
        /\ \A d \in Call : pc'[d] = pc[d] \/ pc'[d] \in {"done", "exchange", "forward"}
    BY <1>1, <1>2, Zenon DEF Deny, RecordDecision, RecordFailure, Goto, Reply, history, Shape
  <2> QED
    BY <1>1, <2>1, TraceQuiet, Zenon DEF TraceForm
<1>3. ASSUME NEW c \in Call, Exchange(c) \/ decide(c) \/ \E t \in DOMAIN Route : ListOne(c, t)
      PROVE  TraceInv'
  <2>1. /\ UNCHANGED <<prov, returned, clock, req, seen, result>>
        /\ \A d \in Call : pc'[d] = pc[d] \/ pc'[d] \in {"record", "forward", "fail", "done"}
    BY <1>1, <1>3, Zenon DEF Exchange, decide, ListOne, Goto, Reply, history, Shape
  <2> QED
    BY <1>1, <2>1, TraceQuiet, Zenon DEF TraceForm
<1>4. ASSUME NEW c \in Call, CountCall(c)
      PROVE  TraceInv'
  <2>1. /\ UNCHANGED <<prov, returned, clock, req, result>>
        /\ \A d \in Call : pc'[d] = pc[d] \/ pc'[d] = "decide"
    BY <1>1, <1>4, Zenon DEF CountCall, Goto, history, Shape
  <2>2. \A d \in Call : /\ seen'[d].label = seen[d].label
                        /\ DOMAIN seen'[d] = {"label", "count", "window"}
    BY <1>1, <1>4, Zenon DEF CountCall, TraceForm, Form
  <2> QED
    BY <1>1, <2>1, <2>2, TraceQuiet, Zenon DEF TraceForm
<1>5. ASSUME NEW c \in Call, ArrivesAs(c)
      PROVE  TraceInv'
  <2>1. /\ UNCHANGED <<prov, returned, clock, seen, result>> /\ pc[c] = "idle"
        /\ \A d \in Call : pc'[d] = pc[d] \/ pc'[d] \in {"done", "taint", "deny", "list"}
    BY <1>1, <1>5, Arrival, Zenon DEF Shape
  <2>2. req'[c].now \in Nat /\ \A d \in Call \ {c} : req'[d] = req[d]
    <3>1. PICK r : req' = [req EXCEPT ![c] = r] /\ r.now = clock
      BY <1>5, Arrival, Zenon
    <3> QED
      BY <1>1, <3>1, Zenon DEF Shape, TraceForm
  <2> QED
    BY <1>1, <2>1, <2>2, TraceQuiet, Zenon DEF TraceForm
<1>6. CASE Tick \/ Finished \/ UNCHANGED vars
  <2>1. UNCHANGED <<prov, returned, req, seen, result, pc>>
    BY <1>6, Zenon DEF Tick, Finished, vars, local, history
  <2>2. clock' \in Nat
    BY <1>1, <1>6 DEF Tick, Finished, vars, TraceForm
  <2> QED
    BY <1>1, <2>1, <2>2, TraceQuiet, Zenon DEF TraceForm
<1> QED
  BY <1>1, <1>2, <1>3, <1>4, <1>5, <1>6, TraceTaint, TraceForward, TraceFinish,
     TraceCrash, Zenon
  DEF Next, Step, ArrivesAs

\* Before the first request nothing is labelled.
LEMMA TraceInit == Init => TraceInv
<1> SUFFICES ASSUME Init PROVE TraceInv
  OBVIOUS
<1>1. GovernInv
  <2>1. Form /\ effects = {} /\ \A c \in Call : pc[c] = "idle"
    BY Zenon DEF Init, Form
  <2> QED
    BY <2>1, InitEstablishes, Zenon DEF GovernInv, Governed, Checked
<1>2. TraceForm
  BY Zenon DEF Init, TraceForm, NotSeen, NoReq
<1>3. \A a \in Agent : DOMAIN prov[a] = {}
  BY Zenon DEF Init, NoEntries
<1>4. \A c \in Call : pc[c] = "idle" /\ seen[c].label = untrustedProvenance
  BY Zenon DEF Init, NotSeen
<1> QED
  BY <1>1, <1>2, <1>3, <1>4, Zenon DEF TraceInv, TracedLabel, TracedResult

\* provenance.go and gateway.go together, for any agents, upstreams, strings and
\* TTL, and across crashes: an argument carries the label of a source only if
\* that source returned the string to the same agent less than TTL before.
THEOREM LabelsAreTraced == Spec => []LabelIsTraced
<1>1. Init => TraceInv
  BY TraceInit, Zenon
<1>2. TraceInv => LabelIsTraced
  <2> SUFFICES ASSUME TraceInv, NEW c \in Call, req[c].arg # Redacted,
                      seen[c].label # untrustedProvenance
               PROVE  \E r \in returned : /\ r.agent = agent(c) /\ r.value = req[c].arg
                                          /\ r.label = seen[c].label
                                          /\ req[c].now < r.at + TTL
    BY Zenon DEF LabelIsTraced
  <2>1. PICK t \in Nat : Returned(agent(c), req[c].arg, seen[c].label, t)
                         /\ req[c].now < t + TTL
    BY Zenon DEF TraceInv, TracedLabel
  <2> QED
    BY <2>1, Zenon DEF Returned
<1> QED
  BY <1>1, <1>2, TraceStep, PTL DEF Spec


-----------------------------------------------------------------------------
\* limits.rego: the policy allows no call beyond the ceiling of its tool.
LimitsAreEnforced ==
    \A t \in DOMAIN rate_limits : \A n \in Nat : n > rate_limits[t] =>
        \A a, labels : Policy(a, t, labels, n) \intersect Allowing = {}

Uncounted == {"idle", "taint", "count"}
Undecided == Uncounted \union {"decide"}

Counted(c) == seen[c].count # 0

\* A call is counted before it is decided, and allowed only under its limit.
RateCall(c) ==
    /\ seen[c].count \in Nat
    /\ pc[c] \in Uncounted => ~Counted(c)
    /\ pc[c] = "decide" => Counted(c)
    /\ pc[c] \in Undecided => outcome[c] \notin Allowing
    /\ Counted(c) => agent(c) \in Agent
    /\ outcome[c] \in Allowing =>
          /\ Counted(c)
          /\ req[c].tool \in DOMAIN rate_limits => seen[c].count <= rate_limits[req[c].tool]

\* A counted call is in an earlier window than its agent's, or one of its calls.
Behind(c) ==
    Counted(c) => \E b, s \in Nat :
        /\ seen[c].window = <<b, s>> /\ b <= boot
        /\ b = boot => \/ s < usage[agent(c)].start
                       \/ s = usage[agent(c)].start /\ seen[c].count <= usage[agent(c)].count

\* Two calls of one agent in one window have different counts.
Apart(c, d) ==
    c # d /\ Counted(c) /\ Counted(d) /\ agent(c) = agent(d)
          /\ seen[c].window = seen[d].window => seen[c].count # seen[d].count

UsageForm ==
    /\ boot \in Nat /\ usage \in [Agent -> WindowState]
    /\ \A a \in Agent : usage[a].count = 0 => usage[a].start = 0

RateInv ==
    /\ TraceInv /\ UsageForm
    /\ \A c \in Call : RateCall(c) /\ Behind(c)
    /\ \A c, d \in Call : Apart(c, d)


\* What holds of a call depends on what it was told and where it is.
LEMMA RateCallKept ==
    ASSUME NEW c \in Call, RateCall(c), outcome'[c] = outcome[c],
           seen'[c].count = seen[c].count, req'[c] = req[c] \/ pc[c] = "idle",
           pc'[c] \in Uncounted => pc[c] \in Uncounted,
           pc'[c] = "decide" => pc[c] = "decide"
    PROVE  RateCall(c)'
<1>1. CASE req'[c] = req[c]
  BY <1>1, Zenon DEF RateCall, Counted, Undecided, agent
<1>2. CASE pc[c] = "idle"
  <2>1. ~Counted(c) /\ outcome[c] \notin Allowing /\ seen[c].count \in Nat
    BY <1>2, Zenon DEF RateCall, Uncounted, Undecided
  <2> QED
    BY <1>2, <2>1, Zenon DEF RateCall, Counted, Uncounted
<1> QED
  BY <1>1, <1>2, Zenon

\* The steps that count no call and decide none.
LEMMA RateQuiet ==
    ASSUME RateInv, TraceInv', UNCHANGED <<boot, usage>>,
           \A d \in Call :
               /\ seen'[d].count = seen[d].count /\ seen'[d].window = seen[d].window
               /\ outcome'[d] = outcome[d]
               /\ req'[d] = req[d] \/ pc[d] = "idle"
               /\ pc'[d] \in Uncounted => pc[d] \in Uncounted
               /\ pc'[d] = "decide" => pc[d] = "decide"
    PROVE  RateInv'
<1>1. \A d \in Call : RateCall(d)'
  BY RateCallKept, Zenon DEF RateInv
<1>2. \A d \in Call : Counted(d)' => Counted(d) /\ req'[d] = req[d]
  BY Zenon DEF RateInv, RateCall, Counted, Uncounted
<1>3. \A d \in Call : Behind(d)'
  <2> SUFFICES ASSUME NEW d \in Call, Counted(d)'
               PROVE  Behind(d)'
    BY Zenon DEF Behind
  <2>1. agent(d)' = agent(d) /\ Counted(d) /\ Behind(d)
    BY <1>2, Zenon DEF agent, RateInv
  <2> QED
    BY <2>1 DEF Behind, Counted
<1>4. \A c, d \in Call : Apart(c, d)'
  BY <1>2 DEF RateInv, Apart, Counted, agent
<1> QED
  BY <1>1, <1>3, <1>4, Zenon DEF RateInv, UsageForm

\* The policy sees the count of this call, and allows none above the limit.
LEMMA RateDecide ==
    ASSUME LimitsAreEnforced, RateInv, TraceInv', NEW c \in Call, decide(c)
    PROVE  RateInv'
<1>1. Shape /\ Form
  BY Zenon DEF RateInv, TraceInv, GovernInv, CallInv
<1>2. /\ pc[c] = "decide" /\ pc' = [pc EXCEPT ![c] = "record"]
      /\ UNCHANGED <<boot, usage, req, seen>>
  BY Zenon DEF decide, Goto
<1>3. /\ Counted(c) /\ seen[c].count \in Nat /\ agent(c) \in Agent
  BY <1>2, Zenon DEF RateInv, RateCall
<1>4. outcome'[c] \in Allowing /\ req[c].tool \in DOMAIN rate_limits =>
          seen[c].count <= rate_limits[req[c].tool]
  <2> SUFFICES ASSUME outcome'[c] \in Allowing, req[c].tool \in DOMAIN rate_limits,
                      ~(seen[c].count <= rate_limits[req[c].tool])
               PROVE  FALSE
    OBVIOUS
  <2>1. outcome'[c] \in Policy(agent(c), req[c].tool, {seen[c].label}, seen[c].count)
    BY <1>1, Zenon DEF decide, Form, Allowing
  <2>2. seen[c].count > rate_limits[req[c].tool]
    BY <1>3, LimitsAssumption
  <2> QED
    BY <1>3, <2>1, <2>2, Zenon DEF LimitsAreEnforced
<1>5. RateCall(c)'
  BY <1>1, <1>2, <1>3, <1>4, Zenon DEF RateCall, Counted, agent, Uncounted, Undecided, Shape
<1>6. \A d \in Call \ {c} : RateCall(d)'
  <2>1. \A d \in Call \ {c} : pc'[d] = pc[d] /\ outcome'[d] = outcome[d]
    BY <1>1, <1>2, Zenon DEF decide, Shape, Form
  <2> QED
    BY <1>2, <2>1, RateCallKept, Zenon DEF RateInv
<1>7. UsageForm' /\ \A d \in Call : Behind(d)'
  <2>1. UsageForm'
    BY <1>2, Zenon DEF RateInv, UsageForm
  <2>2. ASSUME NEW d \in Call PROVE Behind(d)'
    BY <1>2, Zenon DEF RateInv, Behind, Counted, agent
  <2> QED
    BY <2>1, <2>2, Zenon
<1>8. \A d, e \in Call : Apart(d, e)'
  BY <1>2, Zenon DEF RateInv, Apart, Counted, agent
<1> QED
  BY <1>5, <1>6, <1>7, <1>8, Zenon DEF RateInv

\* A new process opens windows that no earlier call is in.
LEMMA RateCrash ==
    ASSUME RateInv, TraceInv', Crash
    PROVE  RateInv'
<1>1. boot' = boot + 1 /\ UNCHANGED <<req, seen, outcome>>
  BY Zenon DEF Crash, local
<1>2. \A d \in Call : pc'[d] = pc[d] \/ pc'[d] = "lost"
  BY Zenon DEF Crash
<1>3. \A d \in Call : RateCall(d)'
  BY <1>1, <1>2, RateCallKept, Zenon DEF RateInv, Uncounted
<1>4. UsageForm'
  BY <1>1 DEF Crash, RateInv, UsageForm, WindowState, NoWindow
<1>5. \A d \in Call : Behind(d)'
  BY <1>1 DEF RateInv, UsageForm, Behind, Counted
<1>6. \A c, d \in Call : Apart(c, d)'
  BY <1>1, Zenon DEF RateInv, Apart, Counted, agent
<1> QED
  BY <1>3, <1>4, <1>5, <1>6, Zenon DEF RateInv


\* recordAndCount opens a later window or counts on in this one.
LEMMA WindowAdvances ==
    ASSUME NEW s \in WindowState, s.count = 0 => s.start = 0, NEW now \in Nat,
           NEW w, w = recordAndCount(s, now)
    PROVE  /\ w \in WindowState /\ w.count # 0
           /\ \/ s.count = 0
              \/ s.start < w.start
              \/ w.start = s.start /\ w.count = s.count + 1
<1>1. CASE Expired(s, now)
  BY <1>1, WindowAssumption DEF recordAndCount, Expired, WindowState
<1>2. CASE ~Expired(s, now)
  BY <1>2 DEF recordAndCount, WindowState
<1> QED
  BY <1>1, <1>2, Zenon

\* The count a call gets is no earlier call's in the same window.
LEMMA RateCount ==
    ASSUME RateInv, TraceInv', NEW c \in Call, CountCall(c)
    PROVE  RateInv'
<1>1. Shape /\ Form /\ TraceForm /\ UsageForm
  BY Zenon DEF RateInv, TraceInv, GovernInv, CallInv
<1>2. pc[c] = "count" /\ pc' = [pc EXCEPT ![c] = "decide"] /\ UNCHANGED <<boot, req, outcome>>
  BY Zenon DEF CountCall, Goto
<1>3. agent(c) \in Agent
  BY <1>2, AgentKnown, Zenon DEF RateInv, TraceInv, Checked
<1>4. PICK w : w = recordAndCount(usage[agent(c)], req[c].now)
  OBVIOUS
<1>5. /\ usage' = [usage EXCEPT ![agent(c)] = w]
      /\ seen' = [seen EXCEPT ![c].count = w.count, ![c].window = <<boot, w.start>>]
  BY <1>4, Zenon DEF CountCall
<1>6. /\ seen'[c].count = w.count /\ seen'[c].window = <<boot, w.start>>
      /\ \A d \in Call \ {c} : seen'[d] = seen[d]
  BY <1>1, <1>5, Zenon DEF Form, TraceForm
<1>7. PICK u : u = usage[agent(c)]
  OBVIOUS
<1>8. /\ w \in WindowState /\ w.count # 0 /\ u \in WindowState
      /\ \/ u.count = 0 /\ u.start = 0
         \/ u.start < w.start
         \/ w.start = u.start /\ w.count = u.count + 1
  BY <1>1, <1>3, <1>4, <1>7, WindowAdvances DEF UsageForm, TraceForm
<1>9. usage'[agent(c)] = w /\ \A a \in Agent \ {agent(c)} : usage'[a] = usage[a]
  BY <1>1, <1>3, <1>5, Zenon DEF UsageForm
<1>10. UsageForm'
  BY <1>1, <1>2, <1>3, <1>5, <1>8, <1>9, Zenon DEF UsageForm
<1>11. RateCall(c)'
  BY <1>1, <1>2, <1>3, <1>6, <1>8, Zenon
  DEF RateInv, RateCall, Counted, Uncounted, Undecided, Shape, WindowState, agent
<1>12. \A d \in Call \ {c} : RateCall(d)'
  BY <1>1, <1>2, <1>6, RateCallKept, Zenon DEF RateInv, Shape
<1>13. Behind(c)'
  <2>1. agent(c)' = agent(c) /\ boot \in Nat
    BY <1>1, <1>2, Zenon DEF agent, UsageForm
  <2> QED
    BY <1>2, <1>6, <1>8, <1>9, <2>1 DEF Behind, WindowState
\* A counted call of this agent, in this process, is before what w counts.
<1>14. ASSUME NEW d \in Call \ {c}, Counted(d)
       PROVE  /\ Behind(d)'
              /\ agent(d) = agent(c) /\ seen[d].window = <<boot, w.start>>
                    => seen[d].count < w.count
  <2>1. PICK b \in Nat, s \in Nat :
            /\ seen[d].window = <<b, s>> /\ b <= boot
            /\ b = boot => \/ s < usage[agent(d)].start
                           \/ s = usage[agent(d)].start
                              /\ seen[d].count <= usage[agent(d)].count
    BY <1>14, Zenon DEF RateInv, Behind
  <2>2. seen[d].count \in Nat /\ seen[d].count # 0 /\ agent(d) \in Agent
        /\ agent(d)' = agent(d) /\ boot \in Nat
    BY <1>1, <1>2, <1>14, Zenon DEF RateInv, RateCall, Counted, agent, UsageForm
  <2>3. CASE agent(d) # agent(c)
    BY <1>2, <1>6, <1>9, <2>1, <2>2, <2>3 DEF Behind
  <2>4. CASE agent(d) = agent(c)
    <3>1. b = boot => s < w.start \/ (s = w.start /\ seen[d].count < w.count)
      BY <1>7, <1>8, <2>1, <2>2, <2>4 DEF WindowState
    <3>2. b = boot => s < w.start \/ (s = w.start /\ seen[d].count <= w.count)
      BY <1>8, <2>2, <3>1 DEF WindowState
    <3>3. Behind(d)'
      BY <1>2, <1>6, <1>9, <2>1, <2>2, <2>4, <3>2 DEF Behind
    <3>4. seen[d].window = <<boot, w.start>> => b = boot /\ s = w.start
      BY <2>1
    <3> QED
      BY <1>8, <2>1, <3>1, <3>3, <3>4 DEF WindowState
  <2> QED
    BY <2>3, <2>4, Zenon
<1>15. \A d \in Call \ {c} : Behind(d)'
  BY <1>6, <1>14, Zenon DEF Behind, Counted
<1>16. \A d, e \in Call : Apart(d, e)'
  <2> SUFFICES ASSUME NEW d \in Call, NEW e \in Call PROVE Apart(d, e)'
    OBVIOUS
  <2>1. \A x \in Call : agent(x)' = agent(x)
    BY <1>2, Zenon DEF agent
  <2>2. \A x \in Call \ {c} : Counted(x)' => Counted(x)
    BY <1>6, Zenon DEF Counted
  <2>3. CASE d # c /\ e # c
    BY <1>6, <2>1, <2>3 DEF RateInv, Apart, Counted
  <2>4. ASSUME NEW x \in Call \ {c}, Counted(x), agent(x) = agent(c),
               seen'[x].window = seen'[c].window
        PROVE  seen'[x].count # seen'[c].count
    <3>1. seen[x].count < w.count /\ seen[x].count \in Nat /\ w.count \in Nat
      BY <1>6, <1>8, <1>14, <2>4, Zenon DEF RateInv, RateCall, WindowState
    <3> QED
      BY <1>6, <3>1
  <2> QED
    BY <2>1, <2>2, <2>3, <2>4, Zenon DEF Apart
<1> QED
  BY <1>10, <1>11, <1>12, <1>13, <1>15, <1>16, Zenon DEF RateInv


\* Counts stay apart and under their limits through every step.
LEMMA RateStep == LimitsAreEnforced /\ RateInv /\ [Next]_vars => RateInv'
<1> SUFFICES ASSUME LimitsAreEnforced, RateInv, [Next]_vars
             PROVE  RateInv'
  OBVIOUS
<1>1. TraceInv' /\ Shape /\ Form /\ TraceForm
  BY TraceStep, Zenon DEF RateInv, TraceInv, GovernInv, CallInv
<1> USE DEF Uncounted
<1>2. ASSUME NEW c \in Call, Deny(c) \/ RecordDecision(c) \/ RecordFailure(c) \/ Finish(c)
      PROVE  RateInv'
  <2>1. /\ UNCHANGED <<boot, usage, req, seen, outcome>>
        /\ \A d \in Call : pc'[d] = pc[d] \/ pc'[d] \in {"done", "exchange", "forward"}
    BY <1>1, <1>2, Zenon DEF Deny, RecordDecision, RecordFailure, Finish, Goto, Reply, Shape
  <2> QED
    BY <1>1, <2>1, RateQuiet, Zenon
<1>3. ASSUME NEW c \in Call, Exchange(c) \/ Forward(c) \/ \E t \in DOMAIN Route : ListOne(c, t)
      PROVE  RateInv'
  <2>1. /\ UNCHANGED <<boot, usage, req, seen, outcome>>
        /\ \A d \in Call : pc'[d] = pc[d] \/ pc'[d] \in {"forward", "fail", "finish", "done"}
    BY <1>1, <1>3 DEF Exchange, Forward, ListOne, Goto, Reply, Shape
  <2> QED
    BY <1>1, <2>1, RateQuiet, ZenonT(40)
<1>4. ASSUME NEW c \in Call, taintArguments(c)
      PROVE  RateInv'
  <2>1. /\ UNCHANGED <<boot, usage, req, outcome>> /\ pc[c] = "taint"
        /\ \A d \in Call : pc'[d] = pc[d] \/ (d = c /\ pc'[d] = "count")
    BY <1>1, <1>4, Zenon DEF taintArguments, Goto, Shape
  <2>2. \A d \in Call : seen'[d].count = seen[d].count /\ seen'[d].window = seen[d].window
    BY <1>1, <1>4, Zenon DEF taintArguments, TraceForm, Form
  <2> QED
    BY <1>1, <2>1, <2>2, RateQuiet, Zenon
<1>5. ASSUME NEW c \in Call, ArrivesAs(c)
      PROVE  RateInv'
  <2>1. /\ UNCHANGED <<boot, usage, seen, outcome>> /\ pc[c] = "idle"
        /\ \A d \in Call : pc'[d] = pc[d]
                           \/ (d = c /\ pc'[d] \in {"done", "taint", "deny", "list"})
    BY <1>1, <1>5, Arrival, Zenon DEF Shape
  <2>2. \A d \in Call \ {c} : req'[d] = req[d]
    BY <1>1, <1>5, OthersStay, Zenon DEF Same
  <2> QED
    BY <1>1, <2>1, <2>2, RateQuiet, Zenon
<1>6. CASE Tick \/ Finished \/ UNCHANGED vars
  <2>1. UNCHANGED <<boot, usage, req, seen, outcome, pc>>
    BY <1>6, Zenon DEF Tick, Finished, vars, local
  <2> QED
    BY <1>1, <2>1, RateQuiet, Zenon
<1> QED
  BY <1>1, <1>2, <1>3, <1>4, <1>5, <1>6, RateDecide, RateCount, RateCrash, Zenon
  DEF Next, Step, ArrivesAs

\* Calls with different counts up to a limit are no more than the limit.
LEMMA RateBound ==
    ASSUME RateInv, NEW t \in DOMAIN rate_limits, NEW c \in Call,
           NEW S, S = {d \in Call : /\ outcome[d] \in Allowing /\ req[d].tool = t
                                    /\ agent(d) = agent(c)
                                    /\ seen[d].window = seen[c].window}
    PROVE  AtMost(rate_limits[t], S)
<1> DEFINE f == [d \in S |-> seen[d].count]
<1>1. \A d \in S : seen[d].count \in 1 .. rate_limits[t]
  BY LimitsAssumption DEF RateInv, RateCall, Counted
<1>2. \A d, e \in S : seen[d].count = seen[e].count => d = e
  BY DEF RateInv, RateCall, Apart
<1>3. f \in [S -> 1 .. rate_limits[t]] /\ \A d, e \in S : f[d] = f[e] => d = e
  BY <1>1, <1>2, Zenon
<1> QED
  BY <1>3, ZenonT(40) DEF AtMost

\* usage.go under limits.rego: for any number of concurrent calls, any window and
\* across restarts, a policy that compares calls_in_window with its ceiling lets
\* no agent have more calls of a tool in one window than that.
THEOREM RatesAreLimited == ASSUME LimitsAreEnforced PROVE Spec => []RateIsLimited
<1>1. Init => RateInv
  <2> SUFFICES ASSUME Init PROVE RateInv
    OBVIOUS
  <2>1. TraceInv
    BY TraceInit, Zenon
  <2>2. UsageForm
    BY Zenon DEF Init, UsageForm, WindowState, NoWindow
  <2>3. \A c \in Call : pc[c] = "idle" /\ outcome[c] \notin Allowing /\ seen[c].count = 0
    BY Zenon DEF Init, NotSeen, Allowing
  <2> QED
    BY <2>1, <2>2, <2>3 DEF RateInv, RateCall, Behind, Apart, Counted
<1>2. RateInv => RateIsLimited
  BY RateBound, Zenon DEF RateIsLimited
<1> QED
  BY <1>1, <1>2, RateStep, PTL DEF Spec


-----------------------------------------------------------------------------
\* The outcomes of decision.go, and the zero value that a Decider may return
\* instead (gateway.go, CallTool).
OutcomesAreKnown ==
    \A a, t, labels, n : Policy(a, t, labels, n) \subseteq Allowing \union {"deny", ""}

Places == {"idle", "deny", "taint", "count", "decide", "record", "exchange", "forward",
           "finish", "fail", "list", "done", "lost"}
Replies == {"", "ok", "denied", "failed", "unknown_tool", "listed"}

Positions == pc \in [Call -> Places] /\ reply \in [Call -> Replies]
Counters == clock \in 0 .. MaxClock /\ boot \in 1 .. MaxBoots
Outcomes == outcome \in [Call -> Allowing \union {"", "deny"}]
Lists ==
    /\ DOMAIN todo = Call /\ DOMAIN visible = Call
    /\ \A c \in Call : todo[c] \subseteq DOMAIN Route /\ visible[c] \subseteq DOMAIN Route

\* Handlers go from place to place.
LEMMA PositionsStep == Positions /\ [Next]_vars => Positions'
<1> SUFFICES ASSUME Positions, [Next]_vars PROVE Positions'
  OBVIOUS
<1>1. ASSUME NEW c \in Call, NEW l \in Places, Goto(c, l), UNCHANGED reply
      PROVE  Positions'
  BY <1>1, Zenon DEF Positions, Goto
<1>2. ASSUME NEW c \in Call, NEW r \in Replies, Reply(c, r)
      PROVE  Positions'
  BY <1>2, Zenon DEF Positions, Reply, Goto, Places
<1>3. ASSUME NEW c \in Call, NEW cr, NEW t, NEW v, CallTool(c, cr, t, v) PROVE Positions'
  BY <1>1, <1>2, <1>3, Zenon DEF CallTool, Places, Replies
<1>4. ASSUME NEW c \in Call, NEW cr, ListTools(c, cr) PROVE Positions'
  BY <1>1, <1>2, <1>4, Zenon DEF ListTools, Places, Replies
<1>5. ASSUME NEW c \in Call, Deny(c) \/ RecordFailure(c) \/ Finish(c) PROVE Positions'
  BY <1>2, <1>5, Zenon DEF Deny, RecordFailure, Finish, Replies
<1>6. ASSUME NEW c \in Call,
             taintArguments(c) \/ CountCall(c) \/ decide(c) \/ Exchange(c) \/ Forward(c)
      PROVE  Positions'
  BY <1>1, <1>6, Zenon DEF taintArguments, CountCall, decide, Exchange, Forward, Places
<1>7. ASSUME NEW c \in Call, RecordDecision(c) PROVE Positions'
  BY <1>1, <1>2, <1>7, Zenon DEF RecordDecision, Places, Replies
<1>8. ASSUME NEW c \in Call, NEW t, ListOne(c, t) PROVE Positions'
  <2>1. Reply(c, "listed") \/ UNCHANGED <<pc, reply>>
    BY <1>8, Zenon DEF ListOne
  <2> QED
    BY <1>2, <2>1, Zenon DEF Positions, Replies
<1>9. CASE Crash
  BY <1>9, Zenon DEF Crash, local, Positions, Places
<1>10. CASE Tick \/ Finished \/ UNCHANGED vars
  BY <1>10, Zenon DEF Tick, Finished, vars, local, Positions
<1> QED
  BY <1>3, <1>4, <1>5, <1>6, <1>7, <1>8, <1>9, <1>10, Zenon DEF Next, Step

\* Only the clock and a restart count.
LEMMA CountersStep == Counters /\ [Next]_vars => Counters'
<1> SUFFICES ASSUME Counters, [Next]_vars PROVE Counters'
  OBVIOUS
<1>1. CASE Tick
  BY <1>1, BoundsAssumption DEF Tick, Counters
<1>2. CASE Crash
  BY <1>2, BoundsAssumption DEF Crash, Counters
<1>3. ASSUME NEW c \in Call, Step(c) \/ ArrivesAs(c) PROVE UNCHANGED <<clock, boot>>
  <2>1. ArrivesAs(c) => UNCHANGED <<clock, boot>>
    BY Arrival, Zenon
  <2>2. Step(c) => UNCHANGED <<clock, boot>>
    BY Zenon DEF Step, Deny, taintArguments, CountCall, decide, RecordDecision, Exchange,
                 Forward, RecordFailure, Finish, ListOne
  <2> QED
    BY <1>3, <2>1, <2>2, Zenon
<1>4. CASE Finished \/ UNCHANGED vars
  BY <1>4, Zenon DEF Finished, vars, Counters
<1> QED
  BY <1>1, <1>2, <1>3, <1>4, Zenon DEF Next, ArrivesAs, Counters

\* Only decide sets an outcome.
LEMMA OutcomesStep == OutcomesAreKnown /\ Outcomes /\ [Next]_vars => Outcomes'
<1> SUFFICES ASSUME OutcomesAreKnown, Outcomes, [Next]_vars PROVE Outcomes'
  OBVIOUS
<1>1. ASSUME NEW c \in Call, decide(c) PROVE Outcomes'
  <2>1. PICK o \in Policy(agent(c), req[c].tool, {seen[c].label}, seen[c].count)
                   \union {"error"} :
           outcome' = [outcome EXCEPT ![c] = IF o = "error" THEN "deny" ELSE o]
    BY <1>1, Zenon DEF decide
  <2>2. (IF o = "error" THEN "deny" ELSE o) \in Allowing \union {"", "deny"}
    BY Zenon DEF OutcomesAreKnown
  <2> QED
    BY <2>1, <2>2, Zenon DEF Outcomes
<1>2. ASSUME NEW c \in Call, Step(c) \/ ArrivesAs(c), ~decide(c) PROVE UNCHANGED outcome
  <2>1. ArrivesAs(c) => UNCHANGED outcome
    BY Arrival, Zenon
  <2>2. Step(c) /\ ~decide(c) => UNCHANGED outcome
    BY Zenon DEF Step, Deny, taintArguments, CountCall, RecordDecision, Exchange,
                 Forward, RecordFailure, Finish, ListOne
  <2> QED
    BY <1>2, <2>1, <2>2, Zenon
<1>3. CASE Tick \/ Crash \/ Finished \/ UNCHANGED vars
  BY <1>3, Zenon DEF Tick, Crash, Finished, vars, local, Outcomes
<1> QED
  BY <1>1, <1>2, <1>3, Zenon DEF Next, ArrivesAs, Outcomes

\* A listing looks at routed tools and shows no others.
LEMMA ListsStep == Lists /\ [Next]_vars => Lists'
<1> SUFFICES ASSUME Lists, [Next]_vars PROVE Lists'
  OBVIOUS
<1>1. UNCHANGED <<todo, visible>> => Lists'
  BY Zenon DEF Lists
<1>2. ASSUME NEW c \in Call, NEW cr, ListTools(c, cr) PROVE Lists'
  BY <1>2, Zenon DEF ListTools, Lists
<1>3. ASSUME NEW c \in Call, NEW t \in DOMAIN Route, ListOne(c, t) PROVE Lists'
  <2>1. todo' = [todo EXCEPT ![c] = todo[c] \ {t}]
    BY <1>3, Zenon DEF ListOne
  <2>2. visible' = [visible EXCEPT ![c] = visible[c] \union {t}] \/ visible' = visible
    BY <1>3, Zenon DEF ListOne
  <2> QED
    BY <2>1, <2>2, ZenonT(40) DEF Lists
<1>4. ASSUME NEW c \in Call, NEW cr, NEW t, NEW v, CallTool(c, cr, t, v) PROVE Lists'
  BY <1>1, <1>4, Zenon DEF CallTool
<1>5. ASSUME NEW c \in Call, Step(c), ~\E t \in DOMAIN Route : ListOne(c, t) PROVE Lists'
  BY <1>1, <1>5, Zenon DEF Step, Deny, taintArguments, CountCall, decide, RecordDecision,
     Exchange, Forward, RecordFailure, Finish
<1>6. CASE Tick \/ Crash \/ Finished \/ UNCHANGED vars
  BY <1>1, <1>6, Zenon DEF Tick, Crash, Finished, vars, local
<1> QED
  BY <1>2, <1>3, <1>4, <1>5, <1>6, Zenon DEF Next


\* What the tracker, the cache and the requests hold.
Held(m) == \A v \in DOMAIN m : /\ v \in Value \union {Redacted}
                               /\ m[v] \in [prov : Label, expiresAt : Nat]
Told(s) == s.label \in Label /\ s.count \in Nat
Contents ==
    /\ usage \in [Agent -> WindowState]
    /\ \A a \in Agent : Held(prov[a])
    /\ \A c \in Call : Told(seen[c]) /\ result[c] \subseteq Value \union {Redacted}

\* A label resolve gives out is that of an entry, or the untrusted one.
LEMMA ResolveType ==
    ASSUME NEW m, Held(m), NEW v, NEW now PROVE resolve(m, v, now) \in Label
<1>1. CASE v \in DOMAIN m /\ now < m[v].expiresAt
  <2>1. m[v].prov \in Label
    BY <1>1, Zenon DEF Held
  <2> QED
    BY <1>1, <2>1, Zenon DEF resolve
<1>2. CASE ~(v \in DOMAIN m /\ now < m[v].expiresAt)
  BY <1>2, Zenon DEF resolve, Label
<1> QED
  BY <1>1, <1>2, Zenon

\* record keeps entries entries.
LEMMA RecordType ==
    ASSUME NEW m, Held(m), NEW v \in Value \union {Redacted}, NEW l \in Label,
           NEW now \in Nat
    PROVE  Held(record(m, v, l, now))
<1>1. now + TTL \in Nat
  BY TTLAssumption
<1>2. [prov |-> l, expiresAt |-> now + TTL] \in [prov : Label, expiresAt : Nat]
  BY <1>1, Zenon
<1>3. ASSUME NEW w \in DOMAIN record(m, v, l, now)
      PROVE  /\ w \in Value \union {Redacted}
             /\ record(m, v, l, now)[w] \in [prov : Label, expiresAt : Nat]
  <2> DEFINE n == record(m, v, l, now)
  <2>1. \/ w = v /\ n[w] = [prov |-> l, expiresAt |-> now + TTL]
        \/ w \in DOMAIN m /\ n[w] = m[w]
    BY <1>3, RecordEntries
  <2> HIDE DEF n
  <2>2. w \in Value \union {Redacted} /\ n[w] \in [prov : Label, expiresAt : Nat]
    BY <1>2, <2>1, Zenon DEF Held
  <2> QED
    BY <2>2, Zenon DEF n
<1> QED
  BY <1>3, Zenon DEF Held

\* Every step keeps them.
LEMMA ContentsStep == TraceInv /\ Contents /\ [Next]_vars => Contents'
<1> SUFFICES ASSUME TraceInv, Contents, [Next]_vars PROVE Contents'
  OBVIOUS
<1>1. /\ GovernInv /\ DOMAIN seen = Call /\ DOMAIN result = Call /\ DOMAIN prov = Agent
      /\ \A c \in Call : DOMAIN seen[c] = {"label", "count", "window"} /\ req[c].now \in Nat
  BY Zenon DEF TraceInv, TraceForm, GovernInv, Form
<1>2. UNCHANGED <<usage, prov, seen, result>> => Contents'
  BY Zenon DEF Contents, Held, Told
<1>3. ASSUME NEW c \in Call, taintArguments(c) PROVE Contents'
  <2> DEFINE l == resolve(prov[agent(c)], req[c].arg, req[c].now)
  <2>1. l \in Label
    BY <1>1, <1>3, AgentKnown, ResolveType, Zenon DEF taintArguments, Checked, Contents
  <2>2. seen' = [seen EXCEPT ![c].label = l] /\ UNCHANGED <<usage, prov, result>>
    BY <1>3, Zenon DEF taintArguments
  <2> HIDE DEF l
  <2>3. Told(seen'[c])
    BY <1>1, <2>1, <2>2, Zenon DEF Contents, Told
  <2>4. \A d \in Call \ {c} : seen'[d] = seen[d]
    BY <1>1, <2>2, Zenon
  <2> QED
    BY <2>2, <2>3, <2>4, Zenon DEF Contents, Held, Told
<1>4. ASSUME NEW c \in Call, CountCall(c) PROVE Contents'
  <2> DEFINE w == recordAndCount(usage[agent(c)], req[c].now)
  <2>1. usage[agent(c)] \in WindowState /\ req[c].now \in Nat
    BY <1>1, <1>4, AgentKnown, Zenon DEF CountCall, Checked, Contents
  <2>2. w \in WindowState
    BY <2>1 DEF recordAndCount, WindowState
  <2>3. /\ usage' = [usage EXCEPT ![agent(c)] = w] /\ UNCHANGED <<prov, result>>
        /\ seen' = [seen EXCEPT ![c].count = w.count, ![c].window = <<boot, w.start>>]
    BY <1>4, Zenon DEF CountCall
  <2> HIDE DEF w
  <2>4. w.count \in Nat
    BY <2>2, Zenon DEF WindowState
  <2>5. seen'[c].label = seen[c].label /\ seen'[c].count = w.count
    BY <1>1, <2>3, Zenon
  <2>6. \A d \in Call \ {c} : seen'[d] = seen[d]
    BY <1>1, <2>3, Zenon
  <2>7. usage' \in [Agent -> WindowState]
    BY <2>2, <2>3, Zenon DEF Contents
  <2> QED
    BY <2>3, <2>4, <2>5, <2>6, <2>7, Zenon DEF Contents, Held, Told
<1>5. ASSUME NEW c \in Call, Forward(c) PROVE Contents'
  <2>1. UNCHANGED <<usage, prov, seen>>
        /\ (result' = result \/ \E r \in {{}} \union {{v} : v \in Value} :
                                    result' = [result EXCEPT ![c] = r])
    BY <1>5, Zenon DEF Forward
  <2>2. \A r \in {{}} \union {{v} : v \in Value} : r \subseteq Value \union {Redacted}
    BY Zenon
  <2>3. \A d \in Call : result'[d] \subseteq Value \union {Redacted}
    BY <1>1, <2>1, <2>2, Zenon DEF Contents
  <2> QED
    BY <2>1, <2>3, Zenon DEF Contents, Held, Told
<1>6. ASSUME NEW c \in Call, Finish(c) PROVE Contents'
  <2>1. PICK shown \in applyObligations(c) :
           /\ result' = [result EXCEPT ![c] = shown]
           /\ prov' = recordResultProvenance(c, shown)
    BY <1>6, Zenon DEF Finish
  <2>2. UNCHANGED <<usage, seen>> /\ pc[c] \in Checked
    BY <1>6, Zenon DEF Finish, Checked
  <2>3. shown \subseteq Value \union {Redacted}
    BY Zenon DEF applyObligations, Contents
  <2>4. \A d \in Call : result'[d] \subseteq Value \union {Redacted}
    BY <1>1, <2>1, <2>3, Zenon DEF Contents
  <2>5. UpstreamLabel(upstream(c)) \in Label
    BY <1>1, <2>2, Zenon DEF GovernInv, Governed, Passes, Routed, upstream, Label
  <2>6. ASSUME NEW a \in Agent PROVE Held(prov'[a])
    <3>1. Held(prov[a])
      BY Zenon DEF Contents
    <3>2. CASE prov'[a] = prov[a]
      BY <3>1, <3>2, Zenon
    <3>3. CASE prov'[a] # prov[a]
      <4> DEFINE v == CHOOSE v \in shown : TRUE
      <4>1. shown # {} /\ v \in shown
        BY <2>1, <3>3, Zenon DEF recordResultProvenance
      <4>2. prov'[a] = record(prov[a], v, UpstreamLabel(upstream(c)), req[c].now)
        BY <1>1, <2>1, <3>3, <4>1, Zenon DEF recordResultProvenance
      <4> HIDE DEF v
      <4> QED
        BY <1>1, <2>3, <2>5, <3>1, <4>1, <4>2, RecordType, ZenonT(40)
    <3> QED
      BY <3>2, <3>3, Zenon
  <2> QED
    BY <2>2, <2>4, <2>6, Zenon DEF Contents, Told
<1>7. CASE Crash
  <2>1. NoWindow \in WindowState
    BY DEF NoWindow, WindowState
  <2>2. \A a \in Agent : Held(prov'[a])
    BY <1>7, Zenon DEF Crash, Held, NoEntries
  <2> QED
    BY <1>7, <2>1, <2>2, Zenon DEF Crash, local, Contents, Told
<1>8. ASSUME NEW c \in Call, ArrivesAs(c) PROVE Contents'
  BY <1>2, <1>8, Arrival, Zenon
<1>9. ASSUME NEW c \in Call,
             \/ Deny(c) \/ decide(c) \/ RecordDecision(c) \/ Exchange(c) \/ RecordFailure(c)
             \/ \E t \in DOMAIN Route : ListOne(c, t)
      PROVE  Contents'
  BY <1>2, <1>9, Zenon DEF Deny, decide, RecordDecision, Exchange, RecordFailure, ListOne
<1>10. CASE Tick \/ Finished \/ UNCHANGED vars
  BY <1>2, <1>10, Zenon DEF Tick, Finished, vars, local
<1> QED
  BY <1>3, <1>4, <1>5, <1>6, <1>7, <1>8, <1>9, <1>10, ZenonT(40) DEF Next, Step, ArrivesAs

\* CallTool and ListTools of gateway.go: in any interleaving of requests, ticks
\* and crashes, and for a policy with known outcomes, every variable keeps its
\* type; the cache and the policy only ever see labels of routed upstreams, and
\* a listing only shows routed tools.
THEOREM TypeCorrect == ASSUME OutcomesAreKnown PROVE Spec => []TypeOK
<1>1. Init => Positions /\ Counters /\ Outcomes /\ Lists /\ Contents
  <2> SUFFICES ASSUME Init PROVE Positions /\ Counters /\ Outcomes /\ Lists /\ Contents
    OBVIOUS
  <2>1. 0 \in 0 .. MaxClock /\ 1 \in 1 .. MaxBoots /\ NoWindow \in WindowState /\ 0 \in Nat
    BY BoundsAssumption DEF NoWindow, WindowState
  <2>2. Positions
    BY Zenon DEF Init, Positions, Places, Replies
  <2>3. Counters
    BY <2>1, Zenon DEF Init, Counters
  <2>4. Outcomes /\ Lists
    BY Zenon DEF Init, Outcomes, Lists
  <2>5. Told(NotSeen)
    BY <2>1, Zenon DEF Told, NotSeen, Label
  <2>6. Held(NoEntries)
    BY Zenon DEF Held, NoEntries
  <2>7. Contents
    BY <2>1, <2>5, <2>6, Zenon DEF Init, Contents
  <2> QED
    BY <2>2, <2>3, <2>4, <2>7, Zenon
<1>2. TraceInv /\ Positions /\ Counters /\ Outcomes /\ Lists /\ Contents => TypeOK
  <2> SUFFICES ASSUME TraceInv, Positions, Counters, Outcomes, Lists, Contents PROVE TypeOK
    OBVIOUS
  <2>1. log \in Seq(Records) /\ \A c \in Call : req[c].now \in Nat
    BY Zenon DEF TraceInv, TraceForm, GovernInv, CallInv, Shape
  <2>2. Allowing \union {"", "deny"} = {"", "allow", "allow_with_obligations", "deny"}
    BY Zenon DEF Allowing
  <2> QED
    BY <2>1, <2>2, Zenon DEF Records, Positions, Places, Replies, Counters, Outcomes, Lists,
                  Contents, Held, Told, TypeOK
<1> QED
  BY <1>1, <1>2, TraceInit, TraceStep, PositionsStep, CountersStep, OutcomesStep, ListsStep,
     ContentsStep, PTL DEF Spec
=============================================================================
