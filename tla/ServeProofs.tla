---------------------------- MODULE ServeProofs -----------------------------
(***************************************************************************)
(* Proofs about Serve, for any clients, requests, configurations and       *)
(* number of restarts and keys, and about SessionTokens, for any agents,   *)
(* calls, lifetimes and number of restarts.                                *)
(***************************************************************************)
EXTENDS Serve, SessionTokens, TLAPS

ProtocolErrors == Rejections \cup {"unknown tool"}
Answers == ProtocolErrors \cup {"", "ok", "denied", "failed"}

-----------------------------------------------------------------------------
(* Exchanges.  An answer that is a protocol error was given before anything *)
(* had happened on behalf of the request.                                  *)

\* Where a request may be of which nothing has been done yet.
Untouched == {"none", "queued", "sending", "sent", "handling", "dropped"}

CallInv ==
    /\ at \in [Client -> Places]
    /\ wire \in [Client -> {"unsent", "sent", "executed"}] /\ answer \in [Client -> Answers]
    /\ \A e \in Client :
          /\ at[e] \in Untouched =>
                e \notin evaluated /\ wire[e] = "unsent" /\ answer[e] = ""
          /\ answer[e] \in ProtocolErrors =>
                at[e] = "answered" /\ e \notin evaluated /\ wire[e] = "unsent"

\* What Server.serveHTTP answers before the handler is one of its errors.
LEMMA RejectionType ==
    ASSUME NEW r
    PROVE  Rejection(r) \in Rejections \cup {""}
BY Zenon DEF Rejection, Admission, dispatch, Rejections

\* Every way the process can end keeps CallInv, as long as a graceful exit
\* (Server.Shutdown) has waited for the requests.
LEMMA StopKeepsCalls ==
    ASSUME CallInv, NEW how \in {"killed", "dropped"}, Stop(how),
           how = "dropped" => \A e \in Client : ~Active(e)
    PROVE  CallInv'
<1>1. at' \in [Client -> Places]
  BY Zenon DEF CallInv, Stop, Active, Places
<1>2. ASSUME NEW e \in Client
      PROVE  \/ at'[e] = at[e]
             \/ (Active(e) \/ at[e] = "queued") /\ at'[e] = "killed"
             \/ at[e] = "queued" /\ at'[e] = "dropped"
  BY <1>2, Zenon DEF CallInv, Stop, Active
<1>3. wire' = wire /\ evaluated' = evaluated /\ answer' = answer
  BY Zenon DEF Stop
<1>4. \A e \in Client : answer[e] \in ProtocolErrors => ~Active(e) /\ at[e] # "queued"
  BY Zenon DEF CallInv, Active
<1> QED BY <1>1, <1>2, <1>3, <1>4, Zenon DEF CallInv, Untouched

\* So does an answer to a request (writeResult, writeError), as long as a
\* protocol error is only given to one for which nothing has happened.
LEMMA AnswerKeepsCalls ==
    ASSUME CallInv, NEW e \in Client, NEW a \in Answers, Answer(e, a),
           wire' = wire, evaluated' \in {evaluated, evaluated \cup {e}},
           a \in ProtocolErrors => e \notin evaluated' /\ wire[e] = "unsent"
    PROVE  CallInv'
<1>1. at' \in [Client -> Places] /\ answer' \in [Client -> Answers]
  BY Zenon DEF CallInv, Answer, Places
<1>2. at'[e] = "answered" /\ answer'[e] = a
  BY Zenon DEF CallInv, Answer
<1>3. ASSUME NEW x \in Client, x # e
      PROVE  /\ at'[x] = at[x] /\ answer'[x] = answer[x]
             /\ x \in evaluated' <=> x \in evaluated
  BY <1>3, Zenon DEF CallInv, Answer
<1> QED BY <1>1, <1>2, <1>3, Zenon DEF CallInv, Untouched

\* The initial state satisfies CallInv.
LEMMA CallInit == Init => CallInv
BY ZenonT(40) DEF Init, CallInv, Untouched, Answers, ProtocolErrors, Rejections, Places

\* Every step of Serve preserves CallInv.
LEMMA CallStep == CallInv /\ [Next]_vars => CallInv'
<1> SUFFICES ASSUME CallInv, [Next]_vars PROVE CallInv'
  OBVIOUS
<1>1. ASSUME UNCHANGED calls PROVE CallInv'
  BY <1>1, Zenon DEF CallInv, calls
<1>2. CASE Start \/ LoadConfig \/ ResolveIdentity \/ LoadPolicy
  BY <1>1, <1>2, StopKeepsCalls, Zenon
     DEF Start, LoadConfig, ResolveIdentity, LoadPolicy, Refuse, Proceed
<1>3. CASE OpenAudit \/ ListUpstreams \/ Mount \/ Shutdown
  BY <1>1, <1>3, StopKeepsCalls, Zenon
     DEF OpenAudit, ListUpstreams, Mount, Shutdown, Refuse, Proceed
<1>4. CASE Exit \/ Terminate \/ Hangup \/ Kill
  BY <1>1, <1>4, StopKeepsCalls, Zenon DEF Exit, Terminate, Hangup, Kill
<1>5. CASE Keygen \/ WritePrivateKey \/ WritePublicKey \/ Sign
  BY <1>1, <1>5, Zenon DEF Keygen, WritePrivateKey, WritePublicKey, Sign, Operator
<1>6. ASSUME NEW e \in Client, Send(e) \/ ReadHeaders(e) \/ FinishBody(e) \/ HangUp(e)
      PROVE  CallInv'
  <2>1. UNCHANGED <<evaluated, wire, answer>>
    BY <1>6, Zenon DEF Send, ReadHeaders, FinishBody, HangUp
  <2>2. /\ at' \in [Client -> Places]
        /\ \A x \in Client : at'[x] = at[x] \/ (at[x] \in Untouched /\ answer[x] = "")
    BY <1>6, Zenon DEF CallInv, Places, Untouched, Send, ReadHeaders, FinishBody, HangUp
  <2>3. "" \notin ProtocolErrors
    BY Zenon DEF ProtocolErrors, Rejections
  <2> QED BY <2>1, <2>2, <2>3, Zenon DEF CallInv
<1>7. ASSUME NEW e \in Client, serveHTTP(e) PROVE CallInv'
  <2> DEFINE no == Rejection(Received(e))
  <2>1. no \in Rejections \cup {""}
    BY RejectionType, Zenon
  <2>2. at[e] \in {"sent", "sending"}
    BY <1>7, Zenon DEF serveHTTP
  <2>3. CASE no # ""
    <3>1. Answer(e, no) /\ wire' = wire /\ evaluated' = evaluated
      BY <1>7, <2>3, Zenon DEF serveHTTP
    <3>2. e \notin evaluated /\ wire[e] = "unsent"
      BY <2>2, Zenon DEF CallInv, Untouched
    <3> QED BY <2>1, <3>1, <3>2, AnswerKeepsCalls, Zenon DEF Answers, ProtocolErrors
  <2>4. CASE no = ""
    <3>1. /\ at' = [at EXCEPT ![e] = "handling"] /\ UNCHANGED <<answer, evaluated, wire>>
      BY <1>7, <2>4, Zenon DEF serveHTTP
    <3>2. e \notin evaluated /\ wire[e] = "unsent" /\ answer[e] = ""
      BY <2>2, Zenon DEF CallInv, Untouched
    <3>3. "" \notin ProtocolErrors
      BY Zenon DEF ProtocolErrors, Rejections
    <3> QED BY <3>1, <3>2, <3>3, Zenon DEF CallInv, Places
  <2> QED BY <2>3, <2>4, Zenon
<1>8. ASSUME NEW e \in Client, Describe(e) PROVE CallInv'
  <2>1. Answer(e, "ok") /\ wire' = wire
        /\ evaluated' \in {evaluated, evaluated \cup {e}}
    BY <1>8, Zenon DEF Describe
  <2> QED BY <2>1, AnswerKeepsCalls, Zenon DEF Answers, ProtocolErrors, Rejections
<1>9. ASSUME NEW e \in Client, Enter(e) PROVE CallInv'
  <2>1. e \notin evaluated /\ wire[e] = "unsent"
    BY <1>9, Zenon DEF Enter, CallInv, Untouched
  <2>2. wire' = wire /\ evaluated' = evaluated
        /\ (Answer(e, "denied") \/ Answer(e, "unknown tool"))
    BY <1>9, Zenon DEF Enter
  <2> QED BY <2>1, <2>2, AnswerKeepsCalls, Zenon DEF Answers, ProtocolErrors
<1>10. ASSUME NEW e \in Client, Decide(e) PROVE CallInv'
  <2>1. CASE Answer(e, "denied") \/ Answer(e, "failed")
    <3>1. evaluated' = evaluated \cup {e}
      BY <1>10, Zenon DEF Decide
    <3>2. CASE wire' = wire
      BY <2>1, <3>1, <3>2, AnswerKeepsCalls, Zenon DEF Answers, ProtocolErrors, Rejections
    <3>3. CASE at' = [at EXCEPT ![e] = "forwarding"]
      BY <2>1, <3>3, Zenon DEF Answer, CallInv
    <3> QED BY <1>10, <3>2, <3>3, Zenon DEF Decide
  <2>2. CASE /\ at' = [at EXCEPT ![e] = "forwarding"]
             /\ wire' = [wire EXCEPT ![e] = "sent"]
             /\ answer' = answer
    <3>1. answer[e] \notin ProtocolErrors
      BY <1>10, Zenon DEF Decide, CallInv
    <3>2. evaluated' = evaluated \cup {e}
      BY <1>10, Zenon DEF Decide
    <3> QED BY <2>2, <3>1, <3>2, Zenon DEF CallInv, Places, Untouched
  <2> QED BY <1>10, <2>1, <2>2, Zenon DEF Decide
<1>11. ASSUME NEW e \in Client, Execute(e) PROVE CallInv'
  <2>1. /\ wire' \in [Client -> {"unsent", "sent", "executed"}]
        /\ \A x \in Client : wire[x] = "unsent" => wire'[x] = "unsent"
    BY <1>11, Zenon DEF Execute, CallInv
  <2> QED BY <1>11, <2>1, Zenon DEF Execute, CallInv
<1>12. ASSUME NEW e \in Client, Return(e) PROVE CallInv'
  <2>1. wire' = wire /\ evaluated' = evaluated
        /\ (Answer(e, "ok") \/ Answer(e, "failed"))
    BY <1>12, Zenon DEF Return
  <2> QED BY <2>1, AnswerKeepsCalls, Zenon DEF Answers, ProtocolErrors, Rejections
<1>13. CASE UNCHANGED vars
  BY <1>1, <1>13, Zenon DEF vars
<1> QED
  BY <1>2, <1>3, <1>4, <1>5, <1>6, <1>7, <1>8, <1>9, <1>10, <1>11, <1>12, <1>13, Zenon
     DEF Next

\* For every set of clients and whatever they send, a JSON-RPC error means that
\* no policy was asked and nothing sent: the promise of ProtocolError in
\* client.py.
THEOREM ProtocolErrorsAreEarly == Spec => []ProtocolErrorMeansUnevaluated
<1>1. CallInv => ProtocolErrorMeansUnevaluated
  BY Zenon DEF CallInv, ProtocolErrorMeansUnevaluated, ProtocolErrors
<1> QED BY <1>1, CallInit, CallStep, PTL DEF Spec

-----------------------------------------------------------------------------
(* The key files.  keygen is about to write only where nothing is.         *)

KeyInv == gen[1] = "private" => keyFile = 0

\* Only the operator's commands touch the files.
LEMMA OnlyOperatorWrites ==
    ASSUME [Next]_vars
    PROVE  UNCHANGED keys \/ Keygen \/ WritePrivateKey \/ WritePublicKey \/ Sign
<1>1. ASSUME NEW e \in Client,
             \/ Send(e) \/ ReadHeaders(e) \/ FinishBody(e) \/ HangUp(e) \/ serveHTTP(e)
             \/ Describe(e) \/ Enter(e) \/ Decide(e) \/ Execute(e) \/ Return(e)
      PROVE  UNCHANGED keys
  BY <1>1, Zenon DEF Send, ReadHeaders, FinishBody, HangUp, serveHTTP, Describe, Enter, Decide,
              Execute, Return
<1>2. CASE \/ Start \/ LoadConfig \/ ResolveIdentity \/ LoadPolicy \/ OpenAudit
           \/ ListUpstreams \/ Mount \/ Shutdown \/ Exit \/ Terminate \/ Hangup \/ Kill
  <2>1. UNCHANGED keys
    BY <1>2, Zenon DEF Start, LoadConfig, ResolveIdentity, LoadPolicy, OpenAudit,
                ListUpstreams, Mount, Shutdown, Exit, Terminate, Hangup, Kill,
                Refuse, Proceed, Stop
  <2> QED BY <2>1, Zenon
<1>3. UNCHANGED vars => UNCHANGED keys
  BY Zenon DEF vars
<1> QED BY <1>1, <1>2, <1>3, Zenon DEF Next

\* The initial state satisfies KeyInv, and every step preserves it.
LEMMA KeyStep == (Init => KeyInv) /\ (KeyInv /\ [Next]_vars => KeyInv')
<1>1. Init => KeyInv
  BY Zenon DEF Init, KeyInv
<1> SUFFICES ASSUME KeyInv, [Next]_vars PROVE KeyInv'
  BY <1>1, Zenon
<1>2. CASE UNCHANGED keys
  BY <1>2, Zenon DEF KeyInv, keys
<1>3. CASE Keygen \/ WritePrivateKey \/ WritePublicKey \/ Sign
  BY <1>3 DEF KeyInv, Keygen, WritePrivateKey, WritePublicKey, Sign
<1> QED BY <1>2, <1>3, OnlyOperatorWrites, Zenon

\* However many times keygen runs and wherever it fails (runPolicyKeygen), a
\* whole private key stays, for one operator at a time.
THEOREM KeysStay == Spec => KeyIsNeverReplaced
<1>1. KeyInv /\ [Next]_vars => [Readable(keyFile) => keyFile' = keyFile]_vars
  <2> SUFFICES ASSUME KeyInv, [Next]_vars, Readable(keyFile)
               PROVE  keyFile' = keyFile
    OBVIOUS
  <2>1. ~WritePrivateKey
    BY Zenon DEF KeyInv, WritePrivateKey, Readable
  <2>2. CASE Keygen \/ WritePublicKey \/ Sign
    BY <2>2, Zenon DEF Keygen, WritePublicKey, Sign
  <2> QED BY <2>1, <2>2, OnlyOperatorWrites, Zenon DEF keys
<1> QED BY <1>1, KeyStep, PTL DEF Spec, KeyIsNeverReplaced

-----------------------------------------------------------------------------
(* Startup.  What each step of runServe has established when the next one  *)
(* runs.                                                                   *)

Identified == /\ resolver # "none"
              /\ resolver = "static" => config.devInsecure /\ config.jwt = "none"
Verified == config.signature = "none" <=> verifier = 0

StartInv ==
    /\ config \in Config
    /\ phase \notin {"down", "config"} => loadConfig(config)
    /\ phase \notin {"down", "config", "identity"} => Identified
    /\ phase \in {"down", "config", "identity", "policy"} => verifier = 0
    /\ phase \in {"audit", "listing", "mounting", "serving", "draining"} => Verified

\* The initial state satisfies StartInv.
LEMMA StartInit == Init => StartInv
BY Zenon DEF Init, StartInv

\* A process that ends, for whatever reason, leaves StartInv.
LEMMA StopKeepsStart ==
    ASSUME StartInv, NEW how, Stop(how)
    PROVE  StartInv'
BY Zenon DEF StartInv, Stop

\* Every step of Serve preserves StartInv.
LEMMA StartStep == StartInv /\ [Next]_vars => StartInv'
<1> SUFFICES ASSUME StartInv, [Next]_vars PROVE StartInv'
  OBVIOUS
<1>1. ASSUME UNCHANGED <<config, resolver, verifier>>, UNCHANGED phase
      PROVE  StartInv'
  BY <1>1, Zenon DEF StartInv, Identified, Verified, loadConfig
<1>2. CASE Start \/ LoadConfig
  BY <1>2, StopKeepsStart, Zenon
     DEF StartInv, Start, LoadConfig, Refuse, Proceed, loadConfig
<1>3. CASE ResolveIdentity
  BY <1>3, StopKeepsStart, Zenon
     DEF StartInv, ResolveIdentity, checkDevInsecureGate, Refuse, Proceed, Identified,
         loadConfig
<1>4. CASE LoadPolicy
  BY <1>4, StopKeepsStart, Zenon
     DEF StartInv, LoadPolicy, Readable, Refuse, Proceed, Identified, Verified,
         loadConfig
<1>5. CASE OpenAudit \/ ListUpstreams \/ Mount \/ Shutdown
  BY <1>5, StopKeepsStart, Zenon
     DEF StartInv, OpenAudit, ListUpstreams, Mount, Shutdown, Refuse, Proceed,
         Identified, Verified, loadConfig
<1>6. CASE Exit \/ Terminate \/ Hangup \/ Kill
  BY <1>1, <1>6, StopKeepsStart, Zenon DEF Exit, Terminate, Hangup, Kill
<1>7. CASE Keygen \/ WritePrivateKey \/ WritePublicKey \/ Sign
  BY <1>1, <1>7, Zenon
     DEF Keygen, WritePrivateKey, WritePublicKey, Sign, Operator, process
<1>8. ASSUME NEW e \in Client,
             \/ Send(e) \/ ReadHeaders(e) \/ FinishBody(e) \/ HangUp(e) \/ serveHTTP(e)
             \/ Describe(e) \/ Enter(e) \/ Decide(e) \/ Execute(e) \/ Return(e)
      PROVE  StartInv'
  BY <1>1, <1>8, Zenon DEF Send, ReadHeaders, FinishBody, HangUp, serveHTTP, Describe, Enter, Decide,
                    Execute, Return, process
<1>9. CASE UNCHANGED vars
  BY <1>1, <1>9, Zenon DEF vars, process
<1> QED BY <1>2, <1>3, <1>4, <1>5, <1>6, <1>7, <1>8, <1>9, Zenon DEF Next

\* Whatever the configuration and whatever happened to earlier processes, a
\* gateway that serves is governed (runServe, loadConfig).
THEOREM ServingGatewaysAreGoverned == Spec => []ServingIsGoverned
<1>1. ASSUME NEW s, DOMAIN s \subseteq Nat \ {0}, NewAgentRegistry(s)
      PROVE  \A i, j \in DOMAIN s : s[i].id = s[j].id => i = j
  <2> SUFFICES ASSUME NEW i \in DOMAIN s, NEW j \in DOMAIN s, i < j
               PROVE  s[i].id # s[j].id
    BY <1>1
  <2>1. i \in 1 .. j - 1
    BY <1>1
  <2> QED BY <1>1, <2>1, Zenon DEF NewAgentRegistry
<1>2. StartInv => ServingIsGoverned
  <2> SUFFICES ASSUME StartInv, phase \in {"serving", "draining"}
               PROVE  ServingIsGoverned
    BY Zenon DEF ServingIsGoverned
  <2>1. loadConfig(config) /\ Identified /\ Verified /\ config \in Config
    BY Zenon DEF StartInv
  <2>2. NewAgentRegistry(config.tools) /\ NewAgentRegistry(config.agents)
    BY <2>1, Zenon DEF loadConfig, toolRegistry, agentRegistry, NewToolRegistry
  <2>3. \A s \in {config.tools, config.agents} :
           \A i, j \in DOMAIN s : s[i].id = s[j].id => i = j
    BY <1>1, <2>1, <2>2, ServeAssumption, Zenon
  <2> QED BY <2>1, <2>3, Zenon DEF ServingIsGoverned, Identified, Verified, loadConfig
<1> QED BY <1>2, StartInit, StartStep, PTL DEF Spec


-----------------------------------------------------------------------------
(* Names and rejections.  What serveHTTP hands on and what it refuses.     *)

Early == {"none", "queued", "sending", "sent", "dropped"}
Odd == DOMAIN Sentinel \cup DOMAIN Carried \cup {""}

\* What was sent, the name that was handed on, and the answer to an SDK client.
Sends(e) == at[e] # "none" => req[e] \in Requests(e)
Names(e) ==
    /\ at[e] \in Early => called[e] = ""
    /\ req[e].method = "tools/call" /\ called[e] # "" =>
          decodeHeaderValue(req[e].mcpName) = called[e]
Understands(e) ==
    e \in Sdk /\ ~gone[e] /\ answer[e] \in Rejections =>
        /\ answer[e] = "header mismatch" /\ req[e].method = "tools/call"
        /\ req[e].name \in Odd

SpeakInv ==
    /\ CallInv
    /\ DOMAIN req = Client /\ DOMAIN called = Client /\ DOMAIN gone = Client
    /\ \A e \in Client : Sends(e) /\ Names(e) /\ Understands(e)

\* A request has the fields the listener looks at.
LEMMA RequestFields ==
    ASSUME NEW e \in Client, NEW r \in Requests(e)
    PROVE  DOMAIN r = {"origin", "verb", "decodes", "hasId", "method", "mcpMethod",
                       "name", "mcpName", "meta", "version", "mcpVersion", "arguments"}
<1> DEFINE Fields == {"origin", "verb", "decodes", "hasId", "method", "mcpMethod",
                      "name", "mcpName", "meta", "version", "mcpVersion", "arguments"}
<1>1. ASSUME NEW o, NEW v, NEW m, NEW n, NEW h
      PROVE  DOMAIN [origin |-> o, verb |-> "POST", decodes |-> TRUE, hasId |-> TRUE,
                     method |-> m, mcpMethod |-> m, name |-> n, mcpName |-> h,
                     meta |-> TRUE, version |-> v, mcpVersion |-> v,
                     arguments |-> TRUE] = Fields
  OBVIOUS
<1>2. \A m, n : DOMAIN _request(m, n) = Fields
  BY <1>1, Zenon DEF _request
<1> QED
  BY <1>2, RequestAssumption, Zenon DEF Requests

\* A body cut short changes nothing else about a request.
LEMMA CutShort ==
    ASSUME NEW e \in Client, NEW r \in Requests(e), NEW s, s = [r EXCEPT !.decodes = FALSE]
    PROVE  /\ ~s.decodes /\ s.origin = r.origin /\ s.verb = r.verb
           /\ s.name = r.name /\ s.mcpName = r.mcpName /\ s.method = r.method
BY RequestFields, Zenon

\* The name of a request that is let through is the header's.
LEMMA AcceptedName ==
    ASSUME NEW r, Rejection(r) = "", r.method = "tools/call"
    PROVE  decodeHeaderValue(r.mcpName) = r.name
BY Zenon DEF Rejection, Admission, dispatch, validateStandardHeaders

\* A request cut short is not let through.
LEMMA CutIsRejected ==
    ASSUME NEW r, ~r.decodes
    PROVE  Rejection(r) # ""
BY Zenon DEF Rejection, Admission

\* What client.py builds passes every check, but for a name that its header does
\* not carry.
LEMMA SdkAccepted ==
    ASSUME NEW e \in Sdk, NEW r \in Requests(e)
    PROVE  /\ r.origin = "" /\ r.verb = "POST"
           /\ Rejection(r) # "" => /\ Rejection(r) = "header mismatch"
                                  /\ r.method = "tools/call" /\ r.name \in Odd
<1>1. CASE r = _request("tools/list", "")
  <2>1. /\ r.origin = "" /\ r.verb = "POST" /\ r.decodes /\ r.hasId
        /\ r.method = "tools/list" /\ r.mcpMethod = "tools/list" /\ r.meta
        /\ r.version = Current /\ r.mcpVersion = Current
    BY <1>1, Zenon DEF _request
  <2>2. validateStandardHeaders(r) /\ parseMeta(r)
    BY <2>1, Zenon DEF validateStandardHeaders, parseMeta, Current
  <2> QED
    BY <2>1, <2>2, Zenon DEF Rejection, Admission, dispatch
<1>2. ASSUME NEW n \in Name, r = _request("tools/call", n)
      PROVE  /\ r.origin = "" /\ r.verb = "POST"
             /\ Rejection(r) # "" => /\ Rejection(r) = "header mismatch"
                                    /\ r.method = "tools/call" /\ r.name \in Odd
  <2>1. n # "?"
    BY RequestAssumption, Zenon
  <2>2. /\ r.origin = "" /\ r.verb = "POST" /\ r.decodes /\ r.hasId
        /\ r.method = "tools/call" /\ r.mcpMethod = "tools/call"
        /\ r.name = n /\ r.mcpName = headerValue(n) /\ r.meta /\ r.arguments
        /\ r.version = Current /\ r.mcpVersion = Current
    BY <1>2, Zenon DEF _request
  <2>3. parseMeta(r)
    BY <2>2, Zenon DEF parseMeta, Current
  <2>4. CASE ~validateStandardHeaders(r)
    <3>1. ASSUME n \notin Odd PROVE validateStandardHeaders(r)
      BY <2>1, <2>2, <3>1, Zenon
         DEF validateStandardHeaders, decodeHeaderValue, headerValue, Odd
    <3> QED
      BY <2>2, <2>4, <3>1, Zenon DEF Rejection, Admission
  <2>5. CASE validateStandardHeaders(r)
    BY <2>1, <2>2, <2>3, <2>5, Zenon DEF Rejection, Admission, dispatch
  <2> QED
    BY <2>4, <2>5, Zenon
<1> QED
  BY <1>1, <1>2, Zenon DEF Requests, Sendable

\* What nobody touches stays as it is.
LEMMA SpeakKept ==
    ASSUME NEW e \in Client, Sends(e), Names(e), Understands(e),
           req'[e] = req[e], called'[e] = called[e], gone[e] => gone'[e],
           answer'[e] \in Rejections => answer'[e] = answer[e],
           at'[e] = at[e] \/ (at[e] # "none" /\ at'[e] \notin Early)
                         \/ (at[e] \in Early \ {"none"} /\ at'[e] # "none")
    PROVE  Sends(e)' /\ Names(e)' /\ Understands(e)'
<1>1. Sends(e)'
  BY Zenon DEF Sends, Requests
<1>2. Names(e)'
  BY Zenon DEF Names, Early, decodeHeaderValue
<1>3. Understands(e)'
  BY Zenon DEF Understands
<1> QED
  BY <1>1, <1>2, <1>3, Zenon


\* A process that ends answers nothing and hands on nothing.
LEMMA StopSpeaks ==
    ASSUME SpeakInv, CallInv', NEW how \in {"killed", "dropped"}, Stop(how),
           how = "dropped" => \A e \in Client : ~Active(e)
    PROVE  SpeakInv'
<1>1. UNCHANGED <<req, called, gone, answer>>
  BY Zenon DEF Stop
<1>2. \A e \in Client : \/ at'[e] = at[e] \/ (at[e] # "none" /\ at'[e] \notin Early)
                        \/ (at[e] \in Early \ {"none"} /\ at'[e] # "none")
  BY Zenon DEF Stop, Active, Early
<1> QED
  BY <1>1, <1>2, SpeakKept, Zenon DEF SpeakInv

\* serveHTTP hands on the header's name, and understands what client.py sends.
LEMMA serveHTTPSpeaks ==
    ASSUME SpeakInv, CallInv', NEW e \in Client, serveHTTP(e)
    PROVE  SpeakInv'
<1>1. PICK no : no = Rejection(Received(e))
  OBVIOUS
<1>2. /\ at[e] \in {"sent", "sending"} /\ UNCHANGED <<req, gone>>
      /\ at[e] = "sending" => gone[e] \/ no \in {"forbidden", "not allowed"}
      /\ no # "" => Answer(e, no) /\ UNCHANGED called
      /\ no = "" => /\ at' = [at EXCEPT ![e] = "handling"]
                    /\ called' = [called EXCEPT ![e] = req[e].name]
                    /\ UNCHANGED answer
  BY <1>1, Zenon DEF serveHTTP
<1>3. req[e] \in Requests(e)
  BY <1>2, Zenon DEF SpeakInv, Sends
<1>4. DOMAIN at = Client /\ DOMAIN answer = Client /\ DOMAIN called = Client
  BY Zenon DEF SpeakInv, CallInv
<1>5. at[e] = "sent" => Received(e) = req[e]
  BY Zenon DEF Received
<1>6. PICK cut : cut = [req[e] EXCEPT !.decodes = FALSE]
  BY Zenon
<1>7. at[e] = "sending" => Received(e) = cut
  BY <1>6, Zenon DEF Received
<1>8. no = "" => at[e] = "sent"
  BY <1>1, <1>2, <1>3, <1>6, <1>7, CutShort, CutIsRejected, Zenon
<1>9. ASSUME NEW d \in Client \ {e}
      PROVE  Sends(d)' /\ Names(d)' /\ Understands(d)'
  <2>1. at'[d] = at[d] /\ answer'[d] = answer[d] /\ called'[d] = called[d]
    BY <1>2, <1>4, Zenon DEF Answer
  <2> QED
    BY <1>2, <2>1, SpeakKept, Zenon DEF SpeakInv
<1>10. CASE no = ""
  <2>1. at'[e] = "handling" /\ called'[e] = req[e].name
    BY <1>2, <1>4, <1>10, Zenon
  <2>2. req[e].method = "tools/call" => decodeHeaderValue(req[e].mcpName) = req[e].name
    BY <1>1, <1>5, <1>8, <1>10, AcceptedName, Zenon
  <2>3. Names(e)'
    BY <1>2, <2>1, <2>2, Zenon DEF Names, Early, decodeHeaderValue
  <2>4. Sends(e)' /\ Understands(e)'
    BY <1>2, <1>3, <1>10, Zenon DEF SpeakInv, Sends, Understands, Requests
  <2> QED
    BY <1>2, <1>4, <1>9, <1>10, <2>3, <2>4, Zenon DEF SpeakInv
<1>11. CASE no # ""
  <2>1. at'[e] = "answered" /\ answer'[e] = no /\ UNCHANGED called
    BY <1>2, <1>4, <1>11, Zenon DEF Answer
  <2>2. Sends(e)' /\ Names(e)'
    BY <1>2, <1>3, <2>1, Zenon DEF SpeakInv, Sends, Names, Early, Requests,
              decodeHeaderValue
  <2>3. e \in Sdk /\ ~gone[e] => /\ no = "header mismatch" /\ req[e].method = "tools/call"
                                 /\ req[e].name \in Odd
    <3> SUFFICES ASSUME e \in Sdk, ~gone[e]
                 PROVE  /\ no = "header mismatch" /\ req[e].method = "tools/call"
                        /\ req[e].name \in Odd
      OBVIOUS
    <3>1. /\ req[e].origin = "" /\ req[e].verb = "POST"
          /\ Rejection(req[e]) # "" =>
                /\ Rejection(req[e]) = "header mismatch"
                /\ req[e].method = "tools/call" /\ req[e].name \in Odd
      BY <1>3, SdkAccepted, Zenon
    <3>2. CASE at[e] = "sent"
      BY <1>1, <1>5, <1>11, <3>1, <3>2, Zenon
    <3>3. CASE at[e] = "sending" /\ no \in {"forbidden", "not allowed"}
      <4>1. cut.origin = "" /\ cut.verb = "POST" /\ ~cut.decodes
        BY <1>3, <1>6, <3>1, CutShort, Zenon
      <4>2. Rejection(cut) = "parse error"
        BY <4>1, Zenon DEF Rejection, Admission
      <4> QED
        BY <1>1, <1>7, <3>3, <4>2, Zenon
    <3> QED
      BY <1>2, <3>2, <3>3, Zenon
  <2>4. Understands(e)'
    BY <1>2, <2>1, <2>3, Zenon DEF Understands
  <2> QED
    BY <1>2, <1>4, <1>9, <2>1, <2>2, <2>4, Zenon DEF SpeakInv
<1> QED
  BY <1>10, <1>11, Zenon

\* Every step of Serve preserves SpeakInv.
LEMMA SpeakStep == SpeakInv /\ [Next]_vars => SpeakInv'
<1> SUFFICES ASSUME SpeakInv, [Next]_vars PROVE SpeakInv'
  OBVIOUS
<1>1. CallInv'
  BY CallStep, Zenon DEF SpeakInv
<1>2. ASSUME UNCHANGED calls PROVE SpeakInv'
  BY <1>1, <1>2, SpeakKept, Zenon DEF SpeakInv, calls
<1>3. CASE Start \/ LoadConfig \/ ResolveIdentity \/ LoadPolicy
  BY <1>1, <1>2, <1>3, StopSpeaks, Zenon
     DEF Start, LoadConfig, ResolveIdentity, LoadPolicy, Refuse, Proceed
<1>4. CASE OpenAudit \/ ListUpstreams \/ Mount \/ Shutdown
  BY <1>1, <1>2, <1>4, StopSpeaks, Zenon
     DEF OpenAudit, ListUpstreams, Mount, Shutdown, Refuse, Proceed
<1>5. CASE Exit \/ Terminate \/ Hangup \/ Kill
  BY <1>1, <1>2, <1>5, StopSpeaks, Zenon DEF Exit, Terminate, Hangup, Kill
<1>6. CASE Keygen \/ WritePrivateKey \/ WritePublicKey \/ Sign
  BY <1>2, <1>6, Zenon DEF Keygen, WritePrivateKey, WritePublicKey, Sign, Operator
<1>7. ASSUME NEW e \in Client, Send(e) PROVE SpeakInv'
  <2>1. PICK r \in Requests(e) : req' = [req EXCEPT ![e] = r]
    BY <1>7, Zenon DEF Send
  <2>2. /\ at[e] = "none" /\ at' = [at EXCEPT ![e] = "queued"]
        /\ UNCHANGED <<gone, called, answer>>
    BY <1>7, Zenon DEF Send
  <2>3. DOMAIN at = Client /\ DOMAIN req = Client /\ called[e] = ""
    BY <2>2, Zenon DEF SpeakInv, CallInv, Names, Early
  <2>4. answer[e] \notin Rejections
    BY <2>2, Zenon DEF SpeakInv, CallInv, ProtocolErrors
  <2>5. Sends(e)' /\ Names(e)' /\ Understands(e)'
    BY <2>1, <2>2, <2>3, <2>4, Zenon DEF Sends, Names, Understands, Requests
  <2>6. \A d \in Client \ {e} : at'[d] = at[d] /\ req'[d] = req[d]
    BY <2>1, <2>2, <2>3, Zenon
  <2>7. \A d \in Client \ {e} : Sends(d)' /\ Names(d)' /\ Understands(d)'
    BY <2>2, <2>6, SpeakKept, Zenon DEF SpeakInv
  <2>8. DOMAIN req' = Client
    BY <2>1, <2>3, Zenon
  <2> QED
    BY <1>1, <2>2, <2>5, <2>7, <2>8, Zenon DEF SpeakInv
<1>8. ASSUME NEW e \in Client,
             ReadHeaders(e) \/ FinishBody(e) \/ HangUp(e) \/ Execute(e)
      PROVE  SpeakInv'
  <2>1. UNCHANGED <<req, called, answer>>
    BY <1>8, Zenon DEF ReadHeaders, FinishBody, HangUp, Execute
  <2>2. DOMAIN at = Client /\ DOMAIN gone = Client
    BY Zenon DEF SpeakInv, CallInv
  <2>3. DOMAIN gone' = Client /\ \A d \in Client : gone[d] => gone'[d]
    BY <1>8, <2>2, Zenon DEF ReadHeaders, FinishBody, HangUp, Execute, Early
  <2>4. \A d \in Client : \/ at'[d] = at[d]
                          \/ (at[d] \in Early \ {"none"} /\ at'[d] # "none")
    BY <1>8, <2>2, Zenon DEF ReadHeaders, FinishBody, HangUp, Execute, Early
  <2> QED
    BY <1>1, <2>1, <2>3, <2>4, SpeakKept, Zenon DEF SpeakInv
<1>9. ASSUME NEW e \in Client,
             Describe(e) \/ Enter(e) \/ Decide(e) \/ Return(e)
      PROVE  SpeakInv'
  <2>1. UNCHANGED <<req, called, gone>> /\ at[e] \in {"handling", "forwarding"}
    BY <1>9, Zenon DEF Describe, Enter, Decide, Return
  <2>2. DOMAIN at = Client /\ DOMAIN answer = Client
    BY Zenon DEF SpeakInv, CallInv
  <2>3. \/ \E a \in {"ok", "denied", "failed", "unknown tool"} : Answer(e, a)
        \/ at' = [at EXCEPT ![e] = "forwarding"] /\ answer' = answer
    BY <1>9, Zenon DEF Describe, Enter, Decide, Return
  <2>4. \A d \in Client : /\ at'[d] = at[d] \/ (at[d] # "none" /\ at'[d] \notin Early)
                          /\ answer'[d] \in Rejections => answer'[d] = answer[d]
    BY <2>1, <2>2, <2>3, Zenon DEF Answer, Early, Rejections
  <2> QED
    BY <1>1, <2>1, <2>4, SpeakKept, Zenon DEF SpeakInv
<1>10. CASE UNCHANGED vars
  BY <1>2, <1>10, Zenon DEF vars
<1> QED
  BY <1>1, <1>3, <1>4, <1>5, <1>6, <1>7, <1>8, <1>9, <1>10, serveHTTPSpeaks, Zenon DEF Next

\* The initial state satisfies SpeakInv.
LEMMA SpeakInit == Init => SpeakInv
<1> SUFFICES ASSUME Init PROVE SpeakInv
  OBVIOUS
<1>1. /\ DOMAIN req = Client /\ DOMAIN called = Client /\ DOMAIN gone = Client
      /\ \A e \in Client : at[e] = "none" /\ called[e] = "" /\ answer[e] = ""
  BY Zenon DEF Init
<1> QED
  BY <1>1, CallInit, Zenon DEF SpeakInv, Sends, Names, Understands, Rejections

\* For every request, also one whose params validateStandardHeaders could not
\* read: the name the gateway acts on is the one in the Mcp-Name header.
THEOREM NamesAreTheHeaders == Spec => []NameIsTheHeaders
<1>1. SpeakInv => NameIsTheHeaders
  BY Zenon DEF SpeakInv, Names, NameIsTheHeaders
<1> QED BY <1>1, SpeakInit, SpeakStep, PTL DEF Spec

\* For every tool name, the listener of server.go takes what client.py sends or
\* answers with a header mismatch, the second only if the name is one that its
\* header does not carry, whatever happens to the process.
THEOREM SdkRequestsAreUnderstood == Spec => []SdkIsUnderstood
<1>1. SpeakInv => SdkIsUnderstood
  BY Zenon DEF SpeakInv, Understands, Odd, SdkIsUnderstood
<1> QED BY <1>1, SpeakInit, SpeakStep, PTL DEF Spec

\* A graceful shutdown (Server.Serve) closes no connection but one whose request
\* has not been read: nothing was done on its behalf.
THEOREM ShutdownsDropOnlyTheUnread == Spec => []DroppedIsUntouched
<1>1. SpeakInv => DroppedIsUntouched
  BY Zenon DEF SpeakInv, CallInv, Untouched, Names, Early, DroppedIsUntouched
<1> QED BY <1>1, SpeakInit, SpeakStep, PTL DEF Spec

-----------------------------------------------------------------------------
(* Types, and what is in flight.  Requests are only taken while the process *)
(* serves, and every end of the process ends them.                         *)

Phases == {"down", "config", "identity", "policy", "audit", "listing",
           "mounting", "serving", "draining"}
Up == {"serving", "draining"}

PhaseInv ==
    /\ phase \in Phases /\ term \in BOOLEAN /\ resolver \in {"none", "static", "jwt"}
    /\ boots \in 0 .. MaxBoots
    /\ phase \notin Up => \A e \in Client : ~Active(e) /\ at[e] # "queued"

FileTypes ==
    /\ gen \in {"idle", "private", "public"} \X (0 .. MaxKeys)
    /\ keyFile \in Key /\ pubFile \in Key
    /\ manifest \in 0 .. MaxKeys /\ verifier \in 0 .. MaxKeys

Handed(e) ==
    /\ at[e] = "none" => req[e] = NoRequest
    /\ called[e] \in {"", req[e].name}
    /\ req[e].method = "tools/call" => called[e] # "?"

\* Every end of the process ends the exchanges it held.
LEMMA StopKeepsPhase ==
    ASSUME PhaseInv, NEW how \in {"killed", "dropped"}, Stop(how)
    PROVE  PhaseInv'
<1>1. \A e \in Client : ~Active(e)' /\ at'[e] # "queued"
  BY Zenon DEF Stop, Active
<1> QED
  BY <1>1, Zenon DEF Stop, PhaseInv, Phases

\* Every step of Serve preserves PhaseInv.
LEMMA PhaseStep == CallInv /\ PhaseInv /\ [Next]_vars => PhaseInv'
<1> SUFFICES ASSUME CallInv, PhaseInv, [Next]_vars PROVE PhaseInv'
  OBVIOUS
<1>1. ASSUME UNCHANGED <<phase, term, resolver, boots, at>> PROVE PhaseInv'
  BY <1>1, Zenon DEF PhaseInv, Active
<1>2. CASE Start
  <2>1. boots' \in 0 .. MaxBoots
    BY <1>2, ServeAssumption DEF Start, PhaseInv
  <2> QED
    BY <1>2, <2>1, Zenon DEF Start, PhaseInv, Phases, Up, Active, calls
<1>3. ASSUME NEW to \in Phases \ Up, phase \notin Up, Proceed(to),
             resolver' \in {resolver, "jwt", "static"}
      PROVE  PhaseInv'
  BY <1>3, Zenon DEF Proceed, PhaseInv, Active, calls
<1>4. CASE LoadConfig \/ ResolveIdentity
  BY <1>3, <1>4, StopKeepsPhase, Zenon DEF LoadConfig, ResolveIdentity, Refuse, Phases, Up
<1>5. CASE LoadPolicy \/ OpenAudit
  BY <1>3, <1>5, StopKeepsPhase, Zenon DEF LoadPolicy, OpenAudit, Refuse, Phases, Up
<1>6. CASE ListUpstreams
  BY <1>3, <1>6, StopKeepsPhase, Zenon DEF ListUpstreams, Refuse, Phases, Up
<1>7. CASE Mount \/ Shutdown
  BY <1>7, StopKeepsPhase, Zenon DEF Mount, Shutdown, Proceed, Refuse, PhaseInv, Phases, Up
<1>8. CASE Exit \/ Hangup \/ Kill
  BY <1>8, StopKeepsPhase, Zenon DEF Exit, Hangup, Kill
<1>9. CASE Terminate
  <2>1. CASE Stop("killed")
    BY <2>1, StopKeepsPhase, Zenon
  <2>2. CASE term' = TRUE /\ UNCHANGED <<phase, boots, resolver, calls>>
    BY <2>2, Zenon DEF PhaseInv, Active, calls
  <2> QED
    BY <1>9, <2>1, <2>2, Zenon DEF Terminate
<1>10. CASE Keygen \/ WritePrivateKey \/ WritePublicKey \/ Sign
  BY <1>1, <1>10, Zenon
     DEF Keygen, WritePrivateKey, WritePublicKey, Sign, Operator, process, calls
<1>11. ASSUME NEW e \in Client, Active(e) \/ at[e] = "queued" \/ Send(e), UNCHANGED process
       PROVE  PhaseInv'
  <2>1. phase \in Up
    BY <1>11, Zenon DEF PhaseInv, Send, Up
  <2> QED
    BY <1>11, <2>1, Zenon DEF PhaseInv, process
<1>12. ASSUME NEW e \in Client,
              \/ ReadHeaders(e) \/ FinishBody(e) \/ HangUp(e) \/ serveHTTP(e)
              \/ Describe(e) \/ Enter(e) \/ Decide(e) \/ Return(e)
       PROVE  (Active(e) \/ at[e] = "queued") /\ UNCHANGED process
  BY <1>12, Zenon DEF ReadHeaders, FinishBody, HangUp, serveHTTP, Describe, Enter, Decide, Return, Active
<1>13. ASSUME NEW e \in Client, Execute(e) PROVE PhaseInv'
  BY <1>1, <1>13, Zenon DEF Execute, process
<1>14. ASSUME NEW e \in Client, Send(e) PROVE PhaseInv'
  BY <1>11, <1>14, Zenon DEF Send
<1>15. CASE UNCHANGED vars
  BY <1>1, <1>15, Zenon DEF vars, process, calls
<1> QED
  BY <1>2, <1>4, <1>5, <1>6, <1>7, <1>8, <1>9, <1>10, <1>11, <1>12, <1>13, <1>14, <1>15,
     Zenon DEF Next

\* keygen, sign and ReadPublicKey only ever write and read whole keys.
LEMMA FileStep == FileTypes /\ [Next]_vars => FileTypes'
<1> SUFFICES ASSUME FileTypes, [Next]_vars PROVE FileTypes'
  OBVIOUS
<1>1. 0 \in 0 .. MaxKeys /\ gen[2] \in 0 .. MaxKeys
      /\ (gen[2] < MaxKeys => gen[2] + 1 \in 0 .. MaxKeys)
  <2>1. gen[2] \in 0 .. MaxKeys
    BY Zenon DEF FileTypes
  <2> QED
    BY <2>1, ServeAssumption
<1>2. \A f \in Key : Readable(f) => f \in 0 .. MaxKeys
  BY Zenon DEF Key, Readable
<1>3. ASSUME NEW p \in {"idle", "private", "public"}, NEW n \in 0 .. MaxKeys
      PROVE  <<p, n>> \in {"idle", "private", "public"} \X (0 .. MaxKeys)
  BY Zenon
<1>4. verifier' \in 0 .. MaxKeys
  <2>1. ASSUME NEW e \in Client,
               \/ Send(e) \/ ReadHeaders(e) \/ FinishBody(e) \/ HangUp(e) \/ serveHTTP(e)
               \/ Describe(e) \/ Enter(e) \/ Decide(e) \/ Execute(e) \/ Return(e)
        PROVE  verifier' = verifier
    BY <2>1, Zenon DEF Send, ReadHeaders, FinishBody, HangUp, serveHTTP, Describe, Enter, Decide,
                Execute, Return, process
  <2>2. CASE Start \/ LoadConfig \/ ResolveIdentity \/ OpenAudit
    BY <1>1, <2>2, Zenon DEF Start, LoadConfig, ResolveIdentity, OpenAudit, Refuse, Stop,
                FileTypes
  <2>3. CASE LoadPolicy
    BY <1>1, <1>2, <2>3, Zenon DEF LoadPolicy, Refuse, Stop, FileTypes
  <2>4. CASE ListUpstreams \/ Mount \/ Shutdown \/ Exit \/ Terminate \/ Hangup \/ Kill
    BY <1>1, <2>4, Zenon DEF ListUpstreams, Mount, Shutdown, Exit, Terminate, Hangup, Kill,
                Refuse, Stop, FileTypes
  <2>5. CASE Keygen \/ WritePrivateKey \/ WritePublicKey \/ Sign \/ UNCHANGED vars
    BY <2>5, Zenon DEF Keygen, WritePrivateKey, WritePublicKey, Sign, Operator, vars,
                process, FileTypes
  <2> QED
    BY <2>1, <2>2, <2>3, <2>4, <2>5, Zenon DEF Next, FileTypes
<1>5. CASE UNCHANGED keys
  BY <1>4, <1>5, Zenon DEF FileTypes, keys
<1>6. CASE Keygen
  BY <1>1, <1>3, <1>4, <1>6, Zenon DEF Keygen, FileTypes
<1>7. CASE WritePrivateKey
  BY <1>1, <1>3, <1>4, <1>7, Zenon DEF WritePrivateKey, FileTypes, Key
<1>8. CASE WritePublicKey
  BY <1>1, <1>3, <1>4, <1>8, Zenon DEF WritePublicKey, FileTypes, Key
<1>9. CASE Sign
  BY <1>2, <1>4, <1>9, Zenon DEF Sign, FileTypes
<1> QED
  BY <1>5, <1>6, <1>7, <1>8, <1>9, OnlyOperatorWrites, Zenon

\* What serveHTTP hands on to a call is a name that was read.
HandInv == evaluated \subseteq Client /\ \A e \in Client : Handed(e)

LEMMA HandStep == SpeakInv /\ HandInv /\ [Next]_vars => HandInv'
<1> SUFFICES ASSUME SpeakInv, HandInv, [Next]_vars PROVE HandInv'
  OBVIOUS
<1>1. DOMAIN at = Client /\ DOMAIN req = Client /\ DOMAIN called = Client
  BY Zenon DEF SpeakInv, CallInv
<1>2. ASSUME UNCHANGED <<req, called>>, evaluated' \subseteq Client,
             \A e \in Client : at'[e] = "none" => at[e] = "none"
      PROVE  HandInv'
  BY <1>2, Zenon DEF HandInv, Handed, NoRequest
<1>3. ASSUME NEW how \in {"killed", "dropped"}, Stop(how) PROVE HandInv'
  <2>1. \A e \in Client : at'[e] = "none" => at[e] = "none"
    BY <1>3, Zenon DEF Stop
  <2> QED
    BY <1>2, <1>3, <2>1, Zenon DEF Stop, HandInv
<1>4. ASSUME UNCHANGED calls PROVE HandInv'
  BY <1>2, <1>4, Zenon DEF calls, HandInv
<1>5. CASE Start \/ LoadConfig \/ ResolveIdentity \/ LoadPolicy
  BY <1>3, <1>4, <1>5, Zenon
     DEF Start, LoadConfig, ResolveIdentity, LoadPolicy, Refuse, Proceed
<1>6. CASE OpenAudit \/ ListUpstreams \/ Mount \/ Shutdown
  BY <1>3, <1>4, <1>6, Zenon DEF OpenAudit, ListUpstreams, Mount, Shutdown, Refuse, Proceed
<1>7. CASE Exit \/ Terminate \/ Hangup \/ Kill
  BY <1>3, <1>4, <1>7, Zenon DEF Exit, Terminate, Hangup, Kill
<1>8. CASE Keygen \/ WritePrivateKey \/ WritePublicKey \/ Sign \/ UNCHANGED vars
  BY <1>4, <1>8, Zenon DEF Keygen, WritePrivateKey, WritePublicKey, Sign, Operator, vars
<1>9. ASSUME NEW e \in Client, Send(e) PROVE HandInv'
  <2>1. PICK r \in Requests(e) : req' = [req EXCEPT ![e] = r]
    BY <1>9, Zenon DEF Send
  <2>2. /\ at[e] = "none" /\ at' = [at EXCEPT ![e] = "queued"]
        /\ UNCHANGED <<called, evaluated>>
    BY <1>9, Zenon DEF Send
  <2>3. called[e] = "" /\ at'[e] = "queued"
    BY <1>1, <2>2, Zenon DEF SpeakInv, Names, Early
  <2>4. Handed(e)'
    BY <2>2, <2>3, Zenon DEF Handed
  <2>5. \A d \in Client \ {e} : at'[d] = at[d] /\ req'[d] = req[d]
    BY <1>1, <2>1, <2>2, Zenon
  <2> QED
    BY <2>2, <2>4, <2>5, Zenon DEF HandInv, Handed, NoRequest
<1>10. ASSUME NEW e \in Client, serveHTTP(e) PROVE HandInv'
  <2>1. PICK no : no = Rejection(Received(e))
    OBVIOUS
  <2>2. /\ at[e] \in {"sent", "sending"} /\ UNCHANGED <<req, evaluated>>
        /\ no # "" => Answer(e, no) /\ UNCHANGED called
        /\ no = "" => /\ at' = [at EXCEPT ![e] = "handling"]
                      /\ called' = [called EXCEPT ![e] = req[e].name]
    BY <1>10, <2>1, Zenon DEF serveHTTP
  <2>3. CASE no # ""
    BY <1>1, <1>2, <2>2, <2>3, Zenon DEF Answer, HandInv
  <2>4. CASE no = ""
    <3>1. req[e] \in Requests(e)
      BY <2>2, Zenon DEF SpeakInv, Sends
    <3>2. Received(e) = req[e]
      BY <2>1, <2>2, <2>4, <3>1, CutShort, CutIsRejected, Zenon DEF Received
    <3>3. req[e].method = "tools/call" => req[e].name # "?"
      BY <2>1, <2>4, <3>2, Zenon DEF Rejection, dispatch
    <3>4. at'[e] = "handling" /\ called'[e] = req[e].name
      BY <1>1, <2>2, <2>4, Zenon
    <3>5. Handed(e)'
      BY <2>2, <3>3, <3>4, Zenon DEF Handed
    <3>6. \A d \in Client \ {e} : at'[d] = at[d] /\ called'[d] = called[d]
      BY <1>1, <2>2, <2>4, Zenon
    <3> QED
      BY <2>2, <3>5, <3>6, Zenon DEF HandInv, Handed, NoRequest
  <2> QED
    BY <2>3, <2>4, Zenon
<1>11. ASSUME NEW e \in Client, ReadHeaders(e) \/ FinishBody(e) \/ HangUp(e) \/ Execute(e)
       PROVE  HandInv'
  BY <1>1, <1>2, <1>11, Zenon DEF ReadHeaders, FinishBody, HangUp, Execute, HandInv
<1>12. ASSUME NEW e \in Client, Describe(e) \/ Enter(e) \/ Decide(e) \/ Return(e)
       PROVE  HandInv'
  <2>1. UNCHANGED <<req, called>> /\ evaluated' \subseteq Client
    BY <1>12, Zenon DEF Describe, Enter, Decide, Return, HandInv
  <2>2. at' = [at EXCEPT ![e] = "answered"] \/ at' = [at EXCEPT ![e] = "forwarding"]
    BY <1>12, Zenon DEF Describe, Enter, Decide, Return, Answer
  <2> QED
    BY <1>1, <1>2, <2>1, <2>2, Zenon
<1> QED
  BY <1>5, <1>6, <1>7, <1>8, <1>9, <1>10, <1>11, <1>12, Zenon DEF Next

\* Process, key files and exchanges keep their types, however often the process
\* is started, signalled and killed; nothing is in flight while nothing is
\* served, and a call is only ever handed a name that was read (runServe,
\* Server.Serve, handleCallTool).
THEOREM TypeCorrect == Spec => []TypeOK
<1>1. Init => PhaseInv /\ FileTypes /\ HandInv
  <2> SUFFICES ASSUME Init PROVE PhaseInv /\ FileTypes /\ HandInv
    OBVIOUS
  <2>1. 0 \in 0 .. MaxKeys /\ 0 \in 0 .. MaxBoots
    BY ServeAssumption
  <2>2. PhaseInv
    BY <2>1, Zenon DEF Init, PhaseInv, Phases, Up, Active
  <2>3. FileTypes
    BY <2>1, Zenon DEF Init, FileTypes, Key
  <2>4. HandInv
    BY Zenon DEF Init, HandInv, Handed
  <2> QED
    BY <2>2, <2>3, <2>4, Zenon
<1>2. StartInv /\ SpeakInv /\ PhaseInv /\ FileTypes /\ HandInv => TypeOK
  <2> SUFFICES ASSUME StartInv, SpeakInv, PhaseInv, FileTypes, HandInv PROVE TypeOK
    OBVIOUS
  <2>1. ASSUME NEW e \in Client
        PROVE  /\ at[e] \in Places
               /\ req[e] \in Requests(e) \cup {NoRequest}
               /\ called[e] \in {"", req[e].name}
               /\ req[e].method = "tools/call" => called[e] # "?"
               /\ wire[e] \in {"unsent", "sent", "executed"}
               /\ answer[e] \in Rejections \cup {"", "ok", "denied", "failed", "unknown tool"}
    BY Zenon DEF SpeakInv, CallInv, Sends, HandInv, Handed, Answers, ProtocolErrors
  <2> QED
    BY <2>1, Zenon DEF StartInv, PhaseInv, Phases, Up, FileTypes, HandInv, TypeOK
<1>3. SpeakInv => CallInv
  BY Zenon DEF SpeakInv
<1> QED
  BY <1>1, <1>2, <1>3, StartInit, StartStep, SpeakInit, SpeakStep, PhaseStep, FileStep,
     HandStep, PTL DEF Spec

-----------------------------------------------------------------------------
(* The sessions that callers come with, and what issuer and gateway make of *)
(* them over their restarts.                                                *)

\* Every token: signed with the key of its session, with the session's scope
\* only if it is the session, and within what its exchanges bought.
Signed(t) ==
    /\ t.exp \in Nat /\ t.born \in Nat /\ t.hops \in Nat /\ t.key = t.root
    /\ t.scope # {} => t.hops = 0
    /\ t.exp <= t.born + SitTTL + t.hops * ExchangeTTL

\* A request that has resolved came with a token for the gateways, one that was
\* signed with the gateway's key; one that has a minted token has it from there.
Known(c) ==
    /\ minted[c] = NoToken \/ minted[c].aud \in Upstream
    /\ pc[c] = "idle" => subject[c] = NoSubject
    /\ subject[c].id # "" => cred[c].aud = Audience /\ cred[c].agent = subject[c].id
    /\ subject[c].scope # {} => cred[c].hops = 0
    /\ pc[c] = "exchange" => /\ cred[c] \in tokens /\ cred[c].key = keySet
                             /\ subject[c].id = cred[c].agent
                             /\ target[c] \in Upstream \X Tool
    /\ pc[c] = "call" => /\ minted[c].agent = subject[c].id
                         /\ <<minted[c].aud, minted[c].tool>> = target[c]
                         /\ minted[c].key = keySet

SessionInv ==
    /\ clock \in Nat
    /\ DOMAIN pc = Call /\ DOMAIN cred = Call /\ DOMAIN subject = Call
    /\ DOMAIN target = Call /\ DOMAIN minted = Call
    /\ \A t \in tokens : Signed(t)
    /\ \A c \in Call : Known(c)

\* What an exchange adds to a bound.
LEMMA OneMoreExchange ==
  ASSUME NEW h \in Nat, NEW b \in Nat, NEW e \in Nat, NEW n \in Nat,
         e <= b + SitTTL + h * ExchangeTTL, n < e
  PROVE  /\ h + 1 \in Nat /\ n + ExchangeTTL \in Nat
         /\ n + ExchangeTTL <= b + SitTTL + (h + 1) * ExchangeTTL
<1>1. SitTTL \in Nat /\ ExchangeTTL \in Nat
  BY TTLAssumption, Zenon
<1>2. (h + 1) * ExchangeTTL = h * ExchangeTTL + ExchangeTTL /\ h * ExchangeTTL \in Nat
  BY <1>1
<1> DEFINE m == h * ExchangeTTL
<1> HIDE DEF m
<1>3. m \in Nat /\ e <= b + SitTTL + m /\ (h + 1) * ExchangeTTL = m + ExchangeTTL
  BY <1>2 DEF m
<1>4. n + ExchangeTTL <= b + SitTTL + (m + ExchangeTTL)
  BY <1>1, <1>3
<1> QED
  BY <1>1, <1>3, <1>4

\* The initial state satisfies SessionInv.
LEMMA SessionBegins == SessionInit => SessionInv
<1> SUFFICES ASSUME SessionInit PROVE SessionInv
  OBVIOUS
<1>1. /\ \A c \in Call : pc[c] = "idle" /\ subject[c] = NoSubject /\ minted[c] = NoToken
      /\ NoSubject.id = "" /\ NoSubject.scope = {}
  BY Zenon DEF SessionInit, NoSubject
<1>2. \A c \in Call : Known(c)
  BY <1>1, Zenon DEF Known
<1> QED
  BY <1>2, Zenon DEF SessionInit, SessionInv

\* Steps that sign nothing and move no request.
LEMMA SessionQuiet ==
  ASSUME SessionInv, clock' \in Nat,
         UNCHANGED <<keySet, tokens, pc, cred, subject, target, minted>>
  PROVE  SessionInv'
  BY Zenon DEF SessionInv, Known, Signed

\* A step of the issuer that signs a well-formed token and moves no request.
LEMMA SessionSigns ==
  ASSUME SessionInv, NEW t, Signed(t), tokens' = tokens \union {t},
         UNCHANGED <<clock, keySet, pc, cred, subject, target, minted>>
  PROVE  SessionInv'
<1>1. \A x \in tokens' : Signed(x)
  BY Zenon DEF SessionInv
<1>2. \A c \in Call : Known(c)'
  BY Zenon DEF SessionInv, Known
<1> QED
  BY <1>1, <1>2, Zenon DEF SessionInv, Signed

\* IssueSIT signs a session of the issuer's key.
LEMMA SessionIssue ==
  ASSUME SessionInv, NEW a, NEW sc, IssueSIT(a, sc)
  PROVE  SessionInv'
<1> DEFINE t == [agent |-> a, aud |-> Audience, tool |-> "", scope |-> sc, key |-> key,
                 exp |-> clock + SitTTL, born |-> clock, root |-> key, hops |-> 0]
<1>1. /\ tokens' = tokens \union {t}
      /\ UNCHANGED <<clock, keySet, pc, cred, subject, target, minted>>
  BY Zenon DEF IssueSIT
<1>2. Signed(t)
  <2>1. /\ t.key = key /\ t.root = key /\ t.hops = 0
        /\ t.exp = clock + SitTTL /\ t.born = clock
    BY Zenon
  <2> HIDE DEF t
  <2>2. clock \in Nat /\ SitTTL \in Nat /\ ExchangeTTL \in Nat
    BY TTLAssumption, Zenon DEF SessionInv
  <2>3. clock + SitTTL \in Nat /\ clock + SitTTL <= clock + SitTTL + 0 * ExchangeTTL /\ 0 \in Nat
    BY <2>2
  <2> QED BY <2>1, <2>2, <2>3, Zenon DEF Signed
<1> HIDE DEF t
<1> QED
  BY <1>1, <1>2, SessionSigns, Zenon

\* What the issuer signs for a token it has granted an exchange.
LEMMA DownstreamSigned ==
  ASSUME SessionInv, NEW s \in tokens, NEW u, NEW tl, Grants(s, u, tl)
  PROVE  Signed(Downstream(s, u, tl)) /\ s.key = key
<1> DEFINE t == Downstream(s, u, tl)
<1>1. /\ t.exp = clock + ExchangeTTL /\ t.born = s.born /\ t.root = s.root
      /\ t.key = key /\ t.scope = {} /\ t.hops = s.hops + 1
  BY Zenon DEF Downstream
<1>2. /\ s.exp \in Nat /\ s.born \in Nat /\ s.hops \in Nat /\ s.key = s.root
      /\ s.exp <= s.born + SitTTL + s.hops * ExchangeTTL
      /\ clock < s.exp /\ s.key = key /\ clock \in Nat
  BY Zenon DEF SessionInv, Signed, Grants, Valid
<1>3. /\ s.hops + 1 \in Nat /\ clock + ExchangeTTL \in Nat
      /\ clock + ExchangeTTL <= s.born + SitTTL + (s.hops + 1) * ExchangeTTL
  BY <1>2, OneMoreExchange, Zenon
<1> HIDE DEF t
<1>4. Signed(t)
  BY <1>1, <1>2, <1>3, Zenon DEF Signed
<1> QED
  BY <1>2, <1>4, Zenon DEF t

\* An exchange for a client other than the gateway.
LEMMA SessionExchangeElsewhere ==
  ASSUME SessionInv, NEW s \in tokens, NEW u, NEW tl, handleExchange(s, u, tl)
  PROVE  SessionInv'
<1>1. /\ Grants(s, u, tl) /\ tokens' = tokens \union {Downstream(s, u, tl)}
      /\ UNCHANGED <<clock, keySet, pc, cred, subject, target, minted>>
  BY Zenon DEF handleExchange
<1>2. Signed(Downstream(s, u, tl))
  BY <1>1, DownstreamSigned, Zenon
<1> QED
  BY <1>1, <1>2, SessionSigns, Zenon

\* A gateway that starts trusts the issuer's key of that moment.
LEMMA SessionServe ==
  ASSUME SessionInv, runServe
  PROVE  SessionInv'
<1>1. \A c \in Call : Known(c)'
  BY Zenon DEF SessionInv, Known, runServe
<1> QED
  BY <1>1, Zenon DEF SessionInv, runServe, Signed

\* JWTResolver takes tokens for the gateways, under the trusted key only.
LEMMA SessionResolve ==
  ASSUME SessionInv, NEW c \in Call, NEW t \in tokens, NEW u \in Upstream,
         NEW tl \in Tool, Resolve(c, t, u, tl)
  PROVE  SessionInv'
<1>1. Known(c)'
  <2>1. CASE Valid(t, keySet, Audience)
    <3>1. /\ pc'[c] = "exchange" /\ subject'[c] = [id |-> t.agent, scope |-> t.scope]
          /\ cred'[c] = t /\ target'[c] = <<u, tl>> /\ UNCHANGED <<keySet, tokens, minted>>
      BY <2>1, Zenon DEF Resolve, Goto, SessionInv
    <3>2. subject'[c].id = t.agent /\ subject'[c].scope = t.scope
      <4> DEFINE sub == [id |-> t.agent, scope |-> t.scope]
      <4>1. sub.id = t.agent /\ sub.scope = t.scope
        BY Zenon
      <4>2. subject'[c] = sub
        BY <3>1, Zenon
      <4> HIDE DEF sub
      <4> QED BY <4>1, <4>2, Zenon
    <3>3. t.aud = Audience /\ t.key = keySet /\ (t.scope # {} => t.hops = 0)
      BY <2>1, Zenon DEF SessionInv, Signed, Valid
    <3>4. target'[c] \in Upstream \X Tool
      BY <3>1
    <3>5. minted[c] = NoToken \/ minted[c].aud \in Upstream
      BY Zenon DEF SessionInv, Known
    <3> QED BY <3>1, <3>2, <3>3, <3>4, <3>5, Zenon DEF Known
  <2>2. CASE ~Valid(t, keySet, Audience)
    <3>1. pc'[c] = "done" /\ subject'[c] = NoSubject /\ minted' = minted
      BY <2>2, Zenon DEF Resolve, Goto, SessionInv, Known
    <3>2. NoSubject.id = "" /\ NoSubject.scope = {}
      BY Zenon DEF NoSubject
    <3>3. minted[c] = NoToken \/ minted[c].aud \in Upstream
      BY Zenon DEF SessionInv, Known
    <3> QED BY <3>1, <3>2, <3>3, Zenon DEF Known
  <2> QED BY <2>1, <2>2, Zenon
<1>2. ASSUME NEW d \in Call \ {c} PROVE Known(d)'
  <2>1. /\ pc'[d] = pc[d] /\ cred'[d] = cred[d] /\ target'[d] = target[d]
        /\ subject'[d] = subject[d] /\ UNCHANGED <<tokens, keySet, minted>>
    BY Zenon DEF SessionInv, Resolve, Goto
  <2> QED BY <2>1, ZenonT(40) DEF SessionInv, Known
<1> QED
  BY <1>1, <1>2, Zenon DEF SessionInv, Resolve, Goto, Signed

\* The broker's exchange mints from a live token of the same key.
LEMMA SessionExchange ==
  ASSUME SessionInv, NEW c \in Call, Exchange(c)
  PROVE  SessionInv'
<1> DEFINE t == Downstream(cred[c], target[c][1], target[c][2])
           ok == Grants(cred[c], target[c][1], target[c][2])
<1>1. /\ pc[c] = "exchange" /\ cred[c] \in tokens /\ cred[c].key = keySet
      /\ subject[c].id = cred[c].agent /\ target[c] \in Upstream \X Tool
      /\ UNCHANGED <<clock, key, keySet, cred, subject, target>>
  BY Zenon DEF Exchange, SessionInv, Known
<1>2. /\ t.agent = cred[c].agent /\ t.key = key /\ t.aud = target[c][1]
      /\ t.tool = target[c][2]
  BY Zenon DEF Downstream
<1>3. ASSUME ok PROVE Signed(t) /\ cred[c].key = key
  BY <1>1, <1>3, DownstreamSigned, Zenon
<1>4. /\ tokens' = tokens \/ (tokens' = tokens \union {t} /\ ok)
      /\ \/ pc' = [pc EXCEPT ![c] = "failed"] /\ minted' = minted
         \/ pc' = [pc EXCEPT ![c] = "call"] /\ minted' = [minted EXCEPT ![c] = t] /\ ok
  BY Zenon DEF Exchange, Goto
<1> HIDE DEF t, ok
<1>5. \A x \in tokens' : Signed(x)
  BY <1>3, <1>4, Zenon DEF SessionInv
<1>6. Known(c)'
  <2>1. CASE pc' = [pc EXCEPT ![c] = "failed"] /\ minted' = minted
    <3>1. pc'[c] = "failed"
      BY <2>1, Zenon DEF SessionInv
    <3> QED BY <1>1, <2>1, <3>1, Zenon DEF SessionInv, Known
  <2>2. CASE pc' = [pc EXCEPT ![c] = "call"] /\ minted' = [minted EXCEPT ![c] = t] /\ ok
    <3>1. pc'[c] = "call" /\ minted'[c] = t /\ key = keySet
      BY <1>1, <1>3, <2>2, Zenon DEF SessionInv
    <3>2. <<target[c][1], target[c][2]>> = target[c] /\ target[c][1] \in Upstream
      BY <1>1
    <3>3. /\ subject[c].id # "" => cred[c].aud = Audience /\ cred[c].agent = subject[c].id
          /\ subject[c].scope # {} => cred[c].hops = 0
      BY Zenon DEF SessionInv, Known
    <3> QED BY <1>1, <1>2, <3>1, <3>2, <3>3, ZenonT(40) DEF Known
  <2> QED BY <1>4, <2>1, <2>2, Zenon
<1>7. \A d \in Call \ {c} : Known(d)'
  <2> SUFFICES ASSUME NEW d \in Call \ {c} PROVE Known(d)'
    OBVIOUS
  <2>1. pc'[d] = pc[d] /\ minted'[d] = minted[d] /\ tokens \subseteq tokens'
    BY <1>4, Zenon DEF SessionInv
  <2> QED BY <1>1, <2>1, ZenonT(40) DEF SessionInv, Known
<1> QED
  BY <1>1, <1>4, <1>5, <1>6, <1>7, Zenon DEF SessionInv, Signed

\* Every step preserves SessionInv.
LEMMA SessionSteps == SessionInv /\ [SessionNext]_session => SessionInv'
<1> SUFFICES ASSUME SessionInv, [SessionNext]_session PROVE SessionInv'
  OBVIOUS
<1>1. CASE Tick \/ New
  BY <1>1, SessionQuiet DEF Tick, New, SessionInv
<1>2. CASE runServe
  BY <1>2, SessionServe, Zenon
<1>3. CASE \/ \E a \in AgentId \union {""}, sc \in SUBSET Scope : IssueSIT(a, sc)
           \/ \E t \in tokens, u \in Upstream \union {Audience, ""}, tl \in Tool \union {""} :
                 handleExchange(t, u, tl)
  BY <1>3, SessionIssue, SessionExchangeElsewhere, Zenon
<1>4. CASE \E c \in Call, t \in tokens, u \in Upstream, tl \in Tool : Resolve(c, t, u, tl)
  BY <1>4, SessionResolve, Zenon
<1>5. CASE \E c \in Call : Exchange(c)
  BY <1>5, SessionExchange, Zenon
<1>6. CASE UNCHANGED session
  BY <1>6, SessionQuiet, Zenon DEF session, SessionInv
<1> QED
  BY <1>1, <1>2, <1>3, <1>4, <1>5, <1>6, Zenon DEF SessionNext

\* What the tokens and requests look like holds in every reachable state.
THEOREM SessionInvariant == SessionSpec => []SessionInv
  BY SessionBegins, SessionSteps, PTL DEF SessionSpec

\* Every exchange buys at most one exchange TTL, for every pair of TTLs and any
\* chain of exchanges (devissuer.go, Exchange).
THEOREM SessionsEnd == SessionSpec => []CredentialsDie
<1>1. SessionInv => CredentialsDie
  BY Zenon DEF SessionInv, Signed, CredentialsDie
<1> QED BY <1>1, SessionInvariant, PTL

\* Only the session itself resolves to a subject with the session's scope, and
\* what was presented upstream resolves to nothing (devissuer.go, Exchange;
\* jwt.go, Resolve).  The second rests on AudienceAssumption.
THEOREM ExchangedTokensGrantNothing == SessionSpec => []OnlySessionsGrant
<1>1. ASSUME SessionInv PROVE OnlySessionsGrant
  <2> SUFFICES ASSUME NEW c \in Call
               PROVE  /\ subject[c].scope # {} => cred[c].hops = 0
                      /\ subject[c].id # "" => \A d \in Call : minted[d] # cred[c]
    BY Zenon DEF OnlySessionsGrant
  <2>1. /\ subject[c].id # "" => cred[c].aud = Audience /\ cred[c].agent = subject[c].id
        /\ subject[c].scope # {} => cred[c].hops = 0
    BY <1>1, Zenon DEF SessionInv, Known
  <2>2. \A d \in Call : minted[d] = NoToken \/ minted[d].aud \in Upstream
    BY <1>1, Zenon DEF SessionInv, Known
  <2>3. NoToken.agent = ""
    BY Zenon DEF NoToken
  <2> QED
    BY <2>1, <2>2, <2>3, AudienceAssumption, Zenon
<1> QED BY <1>1, SessionInvariant, PTL

\* A restart of the issuer ends every session (devissuer.go, New, Exchange).
THEOREM RestartsEndSessions == SessionSpec => []RestartEndsSessions
<1>1. SessionInv => RestartEndsSessions
  BY Zenon DEF SessionInv, Signed, RestartEndsSessions
<1> QED BY <1>1, SessionInvariant, PTL

\* A call goes out with a credential for the agent that was decided on, for its
\* own upstream and tool (broker.go and jwt.go).
THEOREM CredentialsMatchCalls == SessionSpec => []MintedForSubject
<1>1. SessionInv => MintedForSubject
  BY Zenon DEF SessionInv, Known, MintedForSubject
<1> QED BY <1>1, SessionInvariant, PTL

\* The clock and the keys.
SessionNumbers ==
    clock \in 0 .. MaxClock /\ key \in 1 .. MaxIssuers /\ keySet \in 1 .. key

LEMMA SessionNumbersStep == SessionNumbers /\ [SessionNext]_session => SessionNumbers'
<1> SUFFICES ASSUME SessionNumbers, [SessionNext]_session PROVE SessionNumbers'
  OBVIOUS
<1>1. CASE Tick
  BY <1>1, BoundsAssumption DEF Tick, SessionNumbers
<1>2. CASE New
  BY <1>2, BoundsAssumption DEF New, SessionNumbers
<1>3. CASE runServe
  BY <1>3, BoundsAssumption DEF runServe, SessionNumbers
<1>4. CASE \/ \E a \in AgentId \union {""}, sc \in SUBSET Scope : IssueSIT(a, sc)
           \/ \E t \in tokens, u \in Upstream \union {Audience, ""}, tl \in Tool \union {""} :
                 handleExchange(t, u, tl)
           \/ \E c \in Call, t \in tokens, u \in Upstream, tl \in Tool : Resolve(c, t, u, tl)
           \/ \E c \in Call : Exchange(c)
           \/ UNCHANGED session
  BY <1>4, Zenon DEF IssueSIT, handleExchange, Resolve, Exchange, session, SessionNumbers
<1> QED
  BY <1>1, <1>2, <1>3, <1>4, Zenon DEF SessionNext

\* What the issuer signs are tokens.
LEMMA SignedTokens ==
  ASSUME SessionTypeOK, SessionInv
  PROVE  /\ \A a \in AgentId, sc \in SUBSET Scope :
               [agent |-> a, aud |-> Audience, tool |-> "", scope |-> sc, key |-> key,
                exp |-> clock + SitTTL, born |-> clock, root |-> key, hops |-> 0] \in Token
         /\ \A s \in tokens, u \in Upstream \union {Audience}, tl \in Tool :
               Downstream(s, u, tl) \in Token
<1>1. clock \in Nat /\ clock + SitTTL \in Nat /\ clock + ExchangeTTL \in Nat /\ 0 \in Nat
  <2>1. SitTTL \in Nat /\ ExchangeTTL \in Nat /\ clock \in Nat
    BY TTLAssumption, Zenon DEF SessionInv
  <2> QED
    BY <2>1
<1>2. key \in 1 .. MaxIssuers
  BY Zenon DEF SessionTypeOK
<1>3. ASSUME NEW s \in tokens, NEW u \in Upstream \union {Audience}, NEW tl \in Tool
      PROVE  Downstream(s, u, tl) \in Token
  <2>1. s \in Token
    BY Zenon DEF SessionTypeOK
  <2>2. /\ s.agent \in AgentId /\ s.born \in Nat /\ s.root \in 1 .. MaxIssuers
        /\ s.hops \in Nat
    BY <2>1, Zenon DEF Token
  <2>3. s.hops + 1 \in Nat
    BY <2>2
  <2> QED
    BY <1>1, <1>2, <2>2, <2>3, Zenon DEF Token, Downstream
<1> QED
  BY <1>1, <1>2, <1>3, Zenon DEF Token

LEMMA SessionTypeStep ==
  SessionTypeOK /\ SessionInv /\ [SessionNext]_session => SessionTypeOK'
<1> SUFFICES ASSUME SessionTypeOK, SessionInv, [SessionNext]_session
             PROVE  SessionTypeOK'
  OBVIOUS
<1>1. SessionNumbers'
  BY SessionNumbersStep, Zenon DEF SessionTypeOK, SessionNumbers
<1>2. CASE Tick \/ New \/ UNCHANGED session
  BY <1>1, <1>2, Zenon DEF SessionNumbers, Tick, New, session, SessionTypeOK
<1>3. CASE runServe
  BY <1>1, <1>3, Zenon DEF SessionNumbers, runServe, SessionTypeOK
<1>4. ASSUME NEW t \in Token, tokens' = tokens \union {t},
             UNCHANGED <<pc, cred, subject, target, minted>>
      PROVE  SessionTypeOK'
  BY <1>1, <1>4, Zenon DEF SessionNumbers, SessionTypeOK
<1>5. ASSUME NEW a \in AgentId \union {""}, NEW sc \in SUBSET Scope, IssueSIT(a, sc)
      PROVE  SessionTypeOK'
  <2> DEFINE t == [agent |-> a, aud |-> Audience, tool |-> "", scope |-> sc, key |-> key,
                   exp |-> clock + SitTTL, born |-> clock, root |-> key, hops |-> 0]
  <2>1. a \in AgentId /\ tokens' = tokens \union {t} /\ UNCHANGED <<pc, cred, subject, target, minted>>
    BY <1>5, Zenon DEF IssueSIT
  <2>2. t \in Token
    BY <2>1, SignedTokens, Zenon
  <2> HIDE DEF t
  <2> QED
    BY <1>4, <2>1, <2>2, Zenon
<1>6. ASSUME NEW s \in tokens, NEW u \in Upstream \union {Audience, ""},
             NEW tl \in Tool \union {""}, handleExchange(s, u, tl)
      PROVE  SessionTypeOK'
  <2>1. /\ u \in Upstream \union {Audience} /\ tl \in Tool
        /\ tokens' = tokens \union {Downstream(s, u, tl)}
        /\ UNCHANGED <<pc, cred, subject, target, minted>>
    BY <1>6, Zenon DEF handleExchange, Grants
  <2>2. Downstream(s, u, tl) \in Token
    BY <2>1, SignedTokens, Zenon
  <2> QED
    BY <1>4, <2>1, <2>2, Zenon
<1>7. ASSUME NEW c \in Call, NEW t \in tokens, NEW u \in Upstream, NEW tl \in Tool,
             Resolve(c, t, u, tl)
      PROVE  SessionTypeOK'
  <2> DEFINE sub == [id |-> t.agent, scope |-> t.scope]
  <2>1. t \in Token /\ t.agent \in AgentId /\ t.scope \in SUBSET Scope
    BY Zenon DEF SessionTypeOK, Token
  <2>2. sub \in [id : AgentId \union {""}, scope : SUBSET Scope]
    BY <2>1, Zenon
  <2>3. /\ subject' = subject \/ subject' = [subject EXCEPT ![c] = sub]
        /\ pc' = [pc EXCEPT ![c] = "exchange"] \/ pc' = [pc EXCEPT ![c] = "done"]
        /\ cred' = [cred EXCEPT ![c] = t] /\ target' = [target EXCEPT ![c] = <<u, tl>>]
        /\ UNCHANGED <<tokens, minted>>
    BY <1>7, Zenon DEF Resolve, Goto
  <2> HIDE DEF sub
  <2>4. <<u, tl>> \in (Upstream \union {""}) \X (Tool \union {""})
    BY Zenon
  <2>5. pc' \in [Call -> {"idle", "exchange", "call", "failed", "done", "lost"}]
    BY <2>3, Zenon DEF SessionTypeOK
  <2>6. subject' \in [Call -> [id : AgentId \union {""}, scope : SUBSET Scope]]
    BY <2>2, <2>3, ZenonT(40) DEF SessionTypeOK
  <2>7. /\ cred' \in [Call -> Token \union {NoToken}]
        /\ target' \in [Call -> (Upstream \union {""}) \X (Tool \union {""})]
    BY <2>1, <2>3, <2>4, Zenon DEF SessionTypeOK
  <2> QED
    BY <1>1, <2>3, <2>5, <2>6, <2>7, Zenon DEF SessionNumbers, SessionTypeOK
<1>8. ASSUME NEW c \in Call, Exchange(c) PROVE SessionTypeOK'
  <2> DEFINE t == Downstream(cred[c], target[c][1], target[c][2])
  <2>1. cred[c] \in tokens /\ target[c][1] \in Upstream /\ target[c][2] \in Tool
    <3>1. cred[c] \in tokens /\ target[c] \in Upstream \X Tool
      BY <1>8, Zenon DEF Exchange, SessionInv, Known
    <3> QED BY <3>1
  <2>2. t \in Token
    BY <2>1, SignedTokens, Zenon
  <2>3. /\ tokens' = tokens \/ tokens' = tokens \union {t}
        /\ minted' = minted \/ minted' = [minted EXCEPT ![c] = t]
        /\ pc' = [pc EXCEPT ![c] = "call"] \/ pc' = [pc EXCEPT ![c] = "failed"]
        /\ UNCHANGED <<cred, subject, target>>
    BY <1>8, Zenon DEF Exchange, Goto
  <2> HIDE DEF t
  <2>4. pc' \in [Call -> {"idle", "exchange", "call", "failed", "done", "lost"}]
    BY <2>3, Zenon DEF SessionTypeOK
  <2>5. tokens' \subseteq Token /\ minted' \in [Call -> Token \union {NoToken}]
    <3>1. tokens' \subseteq Token
      <4>1. tokens \subseteq Token
        BY Zenon DEF SessionTypeOK
      <4>2. CASE tokens' = tokens
        BY <4>1, <4>2
      <4>3. CASE tokens' = tokens \union {t}
        BY <2>2, <4>1, <4>3
      <4> QED BY <2>3, <4>2, <4>3, Zenon
    <3>2. minted' \in [Call -> Token \union {NoToken}]
      BY <2>2, <2>3, Zenon DEF SessionTypeOK
    <3> QED BY <3>1, <3>2, Zenon
  <2>6. cred' = cred /\ subject' = subject /\ target' = target
    BY <2>3, Zenon
  <2> QED
    BY <1>1, <2>4, <2>5, <2>6, Zenon DEF SessionNumbers, SessionTypeOK
<1> QED
  BY <1>2, <1>3, <1>5, <1>6, <1>7, <1>8, Zenon DEF SessionNext

\* Issuer, gateway and requests only ever handle tokens of their type; the
\* gateway's key is one the issuer has had.
THEOREM SessionTypeCorrect == SessionSpec => []SessionTypeOK
<1>1. SessionInit => SessionTypeOK
  <2>1. 0 \in 0 .. MaxClock /\ 1 \in 1 .. MaxIssuers /\ 1 \in 1 .. 1
    BY BoundsAssumption
  <2>2. <<"", "">> \in (Upstream \union {""}) \X (Tool \union {""})
    BY Zenon
  <2>3. SessionInit => /\ clock \in 0 .. MaxClock
                       /\ key \in 1 .. MaxIssuers /\ keySet \in 1 .. key
    BY <2>1, Zenon DEF SessionInit
  <2>4. NoSubject \in [id : AgentId \union {""}, scope : SUBSET Scope]
    BY Zenon DEF NoSubject
  <2> QED
    BY <2>2, <2>3, <2>4, ZenonT(40) DEF SessionInit, SessionTypeOK
<1> QED
  BY <1>1, SessionTypeStep, SessionInvariant, PTL DEF SessionSpec
=============================================================================
