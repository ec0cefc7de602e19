--------------------------- MODULE AuditedGateway ---------------------------
(***************************************************************************)
(* CallTool (internal/gateway/gateway.go) over the audit log as it really  *)
(* is (pkg/audit/file_store.go) and over upstreams that outlive the        *)
(* gateway.  ToolGateway has the checks of a call and an atomic log; here  *)
(* every append is FileStore's, step by step and with all its failures,    *)
(* and a request that was sent is carried out or lost whatever becomes of  *)
(* the process that sent it.                                               *)
(***************************************************************************)
EXTENDS Naturals, Sequences

CONSTANTS Call,                                       \* calls, each a goroutine
          Garbage, NoProc, Faults, MaxLines           \* as in FileStore

Outcome == {"allowed", "denied", "failed"}
Body == [call : Call, outcome : Outcome]

VARIABLES lines, tail, synced, mu, lastHash, status, pc, body, acked,
          step,     \* where CallTool is
          record,   \* the outcome of the record to be written next
          wire,     \* the request to the upstream
          reply     \* what the client got

Store == INSTANCE FileStore WITH Proc <- Call, Long <- {}

ASSUME FaultsAssumption == Faults \subseteq Store!FaultKinds
ASSUME NoProcAssumption == NoProc \notin Call
ASSUME GarbageAssumption == Garbage \notin [prev : Seq(Body), body : Body, hash : Seq(Body)]
ASSUME MaxLinesAssumption == MaxLines \in Nat

store == <<lines, tail, synced, mu, lastHash, status, pc, body, acked>>
calls == <<step, record, wire, reply>>
vars == <<store, calls>>

Goto(c, s) == step' = [step EXCEPT ![c] = s]
Reply(c, r) == Goto(c, "done") /\ reply' = [reply EXCEPT ![c] = r]

Init ==
    /\ lines = <<>> /\ tail = <<>> /\ synced = 0
    /\ mu = NoProc /\ lastHash = <<>> /\ status = "up"
    /\ pc = [c \in Call |-> "idle"]
    /\ body = [c \in Call |-> [call |-> c, outcome |-> "denied"]]
    /\ acked = <<>>
    /\ step = [c \in Call |-> "idle"]
    /\ record = [c \in Call |-> "denied"]
    /\ wire = [c \in Call |-> "unsent"]
    /\ reply = [c \in Call |-> ""]

\* CallTool up to its decision: allowed, or denied for whatever reason.
Decide(c, o) ==
    /\ status = "up" /\ step[c] = "idle" /\ o \in {"allowed", "denied"}
    /\ record' = [record EXCEPT ![c] = o]
    /\ Goto(c, "append")
    /\ UNCHANGED <<store, wire, reply>>

\* g.audit.Append is called.
Record(c) ==
    /\ step[c] = "append"
    /\ Store!AppendCall(c, [call |-> c, outcome |-> record[c]])
    /\ Goto(c, "recording")
    /\ UNCHANGED <<record, wire, reply>>

\* Append goes on, and the call waits for it.
AppendStep(c) ==
    /\ Store!AppendLock(c) \/ Store!AppendWriteBegins(c) \/ Store!AppendWriteEnds(c)
    /\ UNCHANGED calls

\* Append returned nil: an allowed call goes ahead, the others are answered.
AppendReturnsNil(c) ==
    /\ Store!AppendSync(c)
    /\ IF record[c] = "allowed" THEN Goto(c, "forward") /\ UNCHANGED reply
                                ELSE Reply(c, record[c])
    /\ UNCHANGED <<record, wire>>

\* Mutant: the error is only logged.
AppendErrorIgnored(c) ==
    /\ Store!AppendOpenFails(c) \/ Store!AppendWriteFails(c) \/ Store!AppendSyncFails(c)
    /\ IF record[c] = "allowed" THEN Goto(c, "forward") /\ UNCHANGED reply
                                ELSE Reply(c, record[c])
    /\ UNCHANGED <<record, wire>>

\* Append returned an error: whatever the policy said, the call is denied; the
\* error on the record of a failure is only logged.
AppendReturnsError(c) ==
    /\ Store!AppendOpenFails(c) \/ Store!AppendWriteFails(c) \/ Store!AppendSyncFails(c)
    /\ Reply(c, IF record[c] = "failed" THEN "failed" ELSE "denied")
    /\ UNCHANGED <<record, wire>>

\* upstream.CallTool sends the request.
Send(c) ==
    /\ step[c] = "forward"
    /\ wire' = [wire EXCEPT ![c] = "sent"]
    /\ Goto(c, "await")
    /\ UNCHANGED <<store, record, reply>>

\* The upstream, with the gateway up or down.
Execute(c) ==
    /\ wire[c] = "sent"
    /\ wire' = [wire EXCEPT ![c] = "executed"]
    /\ UNCHANGED <<store, step, record, reply>>

Lose(c) ==
    /\ wire[c] = "sent"
    /\ wire' = [wire EXCEPT ![c] = "lost"]
    /\ UNCHANGED <<store, step, record, reply>>

Answered(c) ==
    /\ step[c] = "await" /\ wire[c] = "executed"
    /\ Reply(c, "ok")
    /\ UNCHANGED <<store, record, wire>>

\* Mutant: a call that failed is reported as a denied one.
FailDenies(c) ==
    /\ step[c] \in {"forward", "await"}
    /\ record' = [record EXCEPT ![c] = "denied"]
    /\ Goto(c, "append")
    /\ UNCHANGED <<store, wire, reply>>

\* The exchange or the dial fails before the request is sent; or it was sent,
\* and is lost, still on its way, or executed when the timeout runs out.
Fail(c) ==
    /\ step[c] \in {"forward", "await"}
    /\ record' = [record EXCEPT ![c] = "failed"]
    /\ Goto(c, "append")
    /\ UNCHANGED <<store, wire, reply>>

\* The process or the machine dies under its calls; requests sent stay sent.
Die ==
    /\ Store!Crash \/ Store!PowerLoss
    /\ step' = [c \in Call |-> IF step[c] \in {"idle", "done"} THEN step[c] ELSE "lost"]
    /\ UNCHANGED <<record, wire, reply>>

Restart == Store!NewFileStore /\ UNCHANGED calls

Probe == Store!Check /\ UNCHANGED calls

Next ==
    \/ \E c \in Call :
          \/ \E o \in Outcome : Decide(c, o)
          \/ Record(c) \/ AppendStep(c) \/ AppendReturnsNil(c) \/ AppendReturnsError(c)
          \/ Send(c) \/ Execute(c) \/ Lose(c) \/ Answered(c) \/ Fail(c)
    \/ Die \/ Restart \/ Probe

Spec == Init /\ [][Next]_vars

\* FileStore's fairness, goroutines that run, and an upstream client with a
\* timeout; nothing is assumed of the upstreams.
FairSpec ==
    /\ Spec
    /\ \A c \in Call :
          /\ SF_vars(Store!AppendLock(c) /\ UNCHANGED calls)
          /\ WF_vars(AppendStep(c) \/ AppendReturnsNil(c) \/ AppendReturnsError(c))
          /\ WF_vars(Record(c)) /\ WF_vars(Send(c)) /\ WF_vars(Answered(c) \/ Fail(c))

-----------------------------------------------------------------------------
\* The types of the variables.
TypeOK ==
    /\ Store!TypeOK
    /\ step \in [Call -> {"idle", "append", "recording", "forward", "await", "done", "lost"}]
    /\ record \in [Call -> Outcome]
    /\ wire \in [Call -> {"unsent", "sent", "executed", "lost"}]
    /\ reply \in [Call -> {"", "ok", "denied", "failed"}]

\* A log that passes Verify shows, in its durable part, the allowed record of
\* every call whose request has left the gateway, after any failures of the
\* file system, crashes and restarts (gateway.go, CallTool; file_store.go).
SentIsOnFile ==
    Store!Verify(Store!ReadLines) =>
        \A c \in Call : wire[c] # "unsent" =>
            \E i \in 1 .. synced : lines[i].body = [call |-> c, outcome |-> "allowed"]

\* Line i of f is the record of call c with outcome o.
Tells(f, i, c, o) == f[i] # Garbage /\ f[i].body = [call |-> c, outcome |-> o]

\* In a log that passes Verify a call has one story: denied, or allowed, or
\* allowed and then failed, no part of it twice and none missing in between
\* (gateway.go, CallTool; file_store.go, Append).
FileTellsOneStory ==
    Store!Verify(Store!ReadLines) =>
        \A c \in Call, j \in DOMAIN Store!ReadLines :
            /\ \A i \in 1 .. j - 1, o, q \in Outcome :
                  Tells(Store!ReadLines, i, c, o) /\ Tells(Store!ReadLines, j, c, q) =>
                      o = "allowed" /\ q = "failed"
            /\ Tells(Store!ReadLines, j, c, "failed") =>
                  \E i \in 1 .. j - 1 : Tells(Store!ReadLines, i, c, "allowed")

\* Every call is answered, unless the process dies under it, although upstreams
\* may never answer (gateway.go, CallTool).
CallsAreAnswered ==
    \A c \in Call : step[c] = "append" ~> step[c] \in {"done", "lost"}
=============================================================================
