# HelmDeep: models, checks and proofs

TLA+ specifications of the HelmDeep gateway, checked with TLC on small instances
and, for the statements that carry most weight, proved with TLAPS for every value
of the constants. Paths below are relative to `src/`.

## The system

| Part | Code | Module | Status |
|---|---|---|---|
| Startup, configuration, signals, key files | `cmd/helmdeep-gateway` | `Serve` | partly |
| MCP listener | `pkg/mcp/server.go`, `meta.go`, `jsonrpc.go` | `McpServer`, `Serve` | modelled |
| Python SDK | `sdk/python/helmdeep` | `McpServer`, `Serve` | partly |
| Tool Gateway: `tools/call`, `tools/list` | `internal/gateway/gateway.go` | `ToolGateway`, `AuditedGateway` | modelled |
| Usage tracker (rate windows) | `internal/gateway/usage.go` | `UsageWindow` | modelled |
| Provenance cache (taint labels) | `internal/gateway/provenance.go` | `ProvenanceMap`, `ResultFlow` | modelled |
| Obligations (redaction) | `internal/gateway/obligations.go` | `Obligations`, `ResultFlow` | modelled |
| Audit log (hash chain, fsync) | `pkg/audit`, `pkg/types/record.go` | `FileStore`, `AuditTrail` | modelled |
| Health probes | `internal/health` | `HealthProbes` | modelled |
| Policy decision point | `pkg/policy` | `PolicyService`, `ToolGateway` | partly |
| Policy Service (signed bundles, reload, stamping) | `pkg/policyservice`, `policy_cmd.go` | `PolicyService`, `Serve` | partly |
| Model Gateway, Model Catalog | `pkg/modelgw`, `pkg/modelcatalog` | `ModelGateway` | modelled |
| Sessions, token exchange, broker | `internal/devissuer`, `pkg/identity` | `SessionTokens` | modelled |
| Static-token identity | `internal/gateway/identity.go` | `ToolGateway` | modelled (a constant) |
| Agent Registry, Tool Registry | `pkg/agentregistry`, `pkg/toolregistry` | `Serve` (validation), `ToolGateway` (constants) | modelled |
| Upstream routing and client | `pkg/mcp/registry.go`, `client.go`, `egress.go` | `ToolGateway`, `AuditedGateway` | partly |
| Example policies | `examples/policies` | `MCToolGateway` | partly |
| Mock upstream | `internal/mockupstream` | | not modelled: a test fixture |
| Scheduler, sandbox, control plane | `pkg/scheduler`, ... | | not modelled: interfaces only |

Memory, trust scoring, approvals, observability and platform operations exist in
`docs/` only and have no code to model.

A `tools/call` resolves the caller's identity, checks the Agent Registry, the
route and the Tool Registry, labels the arguments from the provenance cache,
counts the call, asks the policy, writes the decision to the audit log, has the
broker exchange the session for a per-call credential, calls the upstream,
applies obligations and records where the result's strings came from. The policy
can be reloaded, the process can die, and other requests run at any point.

The modules overlap on purpose. `Serve` has the whole process and treats a call
as a few steps; `ToolGateway` has the whole call and treats an append and a
result as one step each; `AuditedGateway` puts the call on the real log and
`ResultFlow` takes the result apart; `HealthProbes` adds the probes to the log.

## Modules

**`FileStore`** (`pkg/audit/file_store.go`) is the audit log at the grain of its
system calls. `lines` are the terminated lines of the file, `tail` what follows
the last newline, `synced` how much survives a power loss, `lastHash` and `mu`
the store's fields, `acked` (history) the records whose `Append` returned nil.
`Append` is `AppendCall`, `AppendLock`, `AppendWriteBegins/Ends/Fails`,
`AppendSync/SyncFails` and `AppendOpenFails`; `Check` is the health probe's
write test and `NewFileStore` the recovery at startup. A hash is the sequence of
all bodies it covers, so that hashes collide exactly when everything they cover
is equal. The constant `Faults` says which failures can happen, `Long` which
bodies make a line that recovery's scanner cannot take.

**`AuditTrail`** is what the interfaces of `pkg/audit/audit.go` promise: a trail
that only grows, of which a promised prefix is never lost. `FileStore` implements
it (`ImplementsTrail`) as long as writes are not torn and fsyncs do not fail. The
mapping takes the records of the file as the trail and the position of the last
acknowledged record as the promise.

**`ToolGateway`** has one action per stretch of a handler between two points at
which other goroutines can run (a lock, a network call, an fsync): `CallTool`
(up to the first wait), `Deny`, `taintArguments`, `CountCall`, `decide`,
`RecordDecision`, `Exchange`, `Forward`, `RecordFailure`, `Finish`, and
`ListTools`, `ListOne`. `usage` and `prov` are the shared maps, computed by the
pure operators of **`UsageWindow`** and **`ProvenanceMap`**. Registries, routes
and identities are constants, as they are after startup; the policy is a constant
relation, so the proofs hold for every policy; `rate_limits` is the table of
`limits.rego`, for the property about it. An append that fails may or may
not have reached the file, and a call that fails may or may not have been
executed. `Crash` is the death and restart of the process.

**`AuditedGateway`** composes the calls of the gateway with `FileStore`: a call
is a writer of the log, waits for its lock, and goes on, denies or fails by what
`Append` returned, under every fault of the file system. The steps before the
decision are a choice of its outcome.

**`Obligations`** is the path walk of `obligations.go` over objects and arrays:
`Cur` goes down the path, `Rebuilt` is the value as changed at its end. Around it,
`redactInJSON` decodes and encodes. A field is its value and whether Go has
`written` it: decoding makes every number a float64, `Float` gives the numbers
that have one as Go writes them again, and a field with a number outside of it
does not decode (`Unmarshals`). The
reference is `Masked`, which knows nothing of walks: it says of every address in a
field what the agent reads there before and after a set of paths was redacted.
**`ResultFlow`** follows the result of each of several concurrent calls:
the upstream's answer, the obligations on structured content and content, and
then `Remember`, one top-level string at a time, an array in order and a map in
any order, into the one cache of their agent.

**`HealthProbes`** has a goroutine for the handler and one for the check of each
probe. The check queues for the mutex of `Append`, looks at its context and
fsyncs; the handler answers at the check's end or at the deadline. `stalled` is a
disk whose calls do not return. Seen through a mapping that hides the probes, it
is `FileStore` (`ImplementsStore`), so what is proved of the log holds beside
them.

**`McpServer`** is the listener's judgement of one request: `Admission` (origin,
method, body), `validateStandardHeaders`, `parseMeta`, `dispatch`, in the order
of `serveHTTP`, and `_request`, what `client.py` sends, with the names that a
header does not carry as they are (`Carried`). **`Serve`** is the process
around it: `LoadConfig`, `ResolveIdentity`, `LoadPolicy`, `OpenAudit`,
`ListUpstreams` and `Mount` are the stretches of `runServe`, each of which may
return an error and each of which a signal may follow. `Terminate`, `Hangup` and
`Kill` are the signals, `Shutdown` and `Exit` the graceful end. A client sends,
finishes or drops its body and may hang up at any point. What it sends is "queued"
until `ReadHeaders`: `Exit` waits for every request that has been read, and closes
the connections of the others. `Keygen`,
`WritePrivateKey`, `WritePublicKey` and `Sign` are the operator's commands, with
key files cut short.

**`PolicyService`** has the bundle directory and manifest on disk, an operator who
edits and signs, a loader that reads manifest and files one by one, verifies,
reads them again to compile, and publishes, and requests that decide with the
policy and are stamped when they are recorded. A digest is what it covers; a
signature is a key and a payload. `signed` is the configuration: with signatures
or without, when a bundle may also be empty. `overtaken` and `crossed` (history) say whether an edit met the load
of a policy, and whether an edit or a swap met a request.

**`ModelGateway`** is `Gateway.Complete` with its two records, its primary and its
fallback, for concurrent requests and crashes. A target is a provider and model
pair; `Provider` is the name routes use, `Name` what the provider calls itself. An
answer holds that name, the model and `from`, the provider it stands in for:
`modelgw.go:263` keeps no more of the primary.

**`SessionTokens`** is the issuer (`New`, `IssueSIT`, `/token-exchange`), the
gateway's `JWTResolver` with the key set it fetched once, and the broker. `born`,
`root` and `hops` in a token are history: when and under which key its session
began, and how many exchanges lie between. Any token ever signed may be presented
as a credential, and any client may have it exchanged for any resource
(`handleExchange`), the gateways' own audience included; the gateway is one such
client (`Exchange`). `scope` stands for what a session grants.
Its specification is called `SessionSpec`, so that `ServeProofs` can extend it
beside `Serve`.

The `MC*` modules give the constants values; every `.cfg` is one run.

## Runs

Passing runs:

| Run | What it shows |
|---|---|
| `file_store_crash` | Crashes, power losses, failed opens and overlong lines: the chain verifies, acknowledged records survive, restarts continue the chain, the trail is implemented |
| `file_store_all` | Under every fault, a file that passes `Verify` holds every acknowledged record in order |
| `audited_gateway` | Under every fault: a log that verifies holds durably the "allowed" of every call that was sent, and tells one story per call; every call is answered |
| `health_probes` | An ok means a log that was durable after the probe began; goroutines drain once the disk is back; the log behaves as without probes |
| `tool_gateway` | No effect without its record, without governance or with a wrong credential; no effect behind a denial; labels trace back to what a source returned to the same agent; the limit holds per window |
| `result_flow` | Redaction replaces exactly what the paths name, and rounds numbers only where it replaces something; a label belongs to a string the agent was shown, not longer than the TTL; with room in the cache nothing shown is forgotten |
| `policy_reload` | Edits and signatures at any moment: the reference was signed, it and the stamps belong to the policy in force unless an edit or a swap came in between, failed loads change nothing, every SIGHUP is followed by a reload that begins after it |
| `model_gateway_control` | Provider calls are recorded, approved and in order; an answer names the provider it stands in for exactly if a fallback gave it; denials have no effect |
| `session_tokens_restarts` | An exchange buys one exchange TTL and none of the session's grants, what goes to an upstream opens no call, restarts end sessions, credentials match their calls |
| `serve` | A gateway that serves is governed; the handler gets the name the headers had; the SDK's requests are understood; a protocol error means that no policy was asked; shutdown ends, and drops only requests that nobody has read; keygen never replaces a key |

Runs in which the code departs from what a comment or document says of it:

| Run | What happens |
|---|---|
| `file_store_torn_ack` | After a short write the next record is glued to the torn line and acknowledged |
| `policy_stamp_race` | A request that meets a reload is stamped with a bundle that did not decide it |

The findings in `PROJECT.json` quote the lines concerned.

### Bounds

* Two concurrent requests or writers are enough for every pairwise race: two calls
  for the last place under a limit of one, or one that fills the cache and one
  that reads it. Overflow of the cache between the two is in `result_flow`.
* Three lines of log (`MaxLines`) hold a record before, at and after a failure;
  `file_store_all` has four, for two failures.
* `MaxBoots`, `MaxKeys` and `MaxIssuers` of two give one restart, with state on both sides of it.
* Clocks run just past the window or TTL under test, so that expiry, the boundary
  itself and a request that holds an older reading of the clock all occur.
* A provenance cache of one entry overflows with every second record.
* Two operator edits (`MaxEdits`) let an edit and a new signature, or two edits,
  meet one load. Two files that are absent, good or broken make three bundles
  that compile, enough to tell old from new and a mixture from both.
* Three tokens (`MaxTokens`): two sessions and an exchange, or one and a chain of
  two exchanges.
* `result_flow`: two calls of one agent, results with objects, arrays and
  two levels of nesting, numbers that a float64 keeps, rounds or cannot hold, paths
  that resolve, miss, run out of range or end early, and a cache of three that the
  strings of two results overflow. `MaxDepth` is three, deeper than any of the
  results.
* `model_gateway_control`: four pairs of two providers, and routes with a fallback
  to the other provider, to the same one, to a pair that is not approved, and none.
* `health_probes`: one writer and two probes, each of which comes again; the
  queue for the lock then has every order of a writer and two checks.
* `audited_gateway`: two calls and four lines, so that both can have two records.
* `serve`: one client with the SDK, which may use names that a header carries, ones
  that it does not, and none, and one that may send any of 19 requests, one
  for each way a request can be refused; 12 configurations, one for each
  way `loadConfig` can refuse, and those that it accepts; two starts and two keys.
  The configuration stays the same over a restart. The operator acts while the
  process is down, which is when it matters: `serve` reads these files at startup.
* Symmetry is only over sets of model values that no definition tells apart, and
  never in a run with a temporal property. The passing `file_store_*` runs,
  `audited_gateway` and `serve` do not check for deadlock: a store that refused
  its file, and a process that has exited and is not started again, stop for good.
* Each module's `TypeOK` (`SessionTypeOK` in `SessionTokens`) states the types of
  its variables. All are proved, so no run checks them again.

### Fairness

* `AuditedGateway`, `HealthProbes`: strong fairness of taking the lock (Go's
  mutex hands itself to a waiter after a millisecond of starvation) and weak
  fairness of each other step. In `HealthProbes` a system call returns only while
  the disk is not stalled; in `AuditedGateway` an upstream need never answer, as
  the HTTP client's timeout ends the call. Nobody need call, probe or restart.
* `PolicyService`: the reload goroutine keeps running. The operator and the sender
  of signals need not do anything.
* `Serve`: startup, shutdown and handlers keep running, and a client finishes its
  body or drops it, as `client.py`'s timeout makes it do. The listener itself has
  a timeout for headers only (`server.go:47`), so for other clients this is an
  assumption: one that never finishes its body holds the shutdown.

## Proofs

A theorem holds for every value of the constants: any number of requests, writers,
probes or clients, any registries, policies, bundles and configurations, any
windows, lifetimes and bounds. The third column says what else is assumed.

| Theorem | Module | Assumes | States |
|---|---|---|---|
| `TypeCorrect` | `FileStoreProofs` | | types, under every fault |
| `AckedIsDurable` | `FileStoreProofs` | no torn writes | `AckedDurable` |
| `ChainIsIntact` | `FileStoreProofs` | no torn writes, no failed fsyncs | `ChainIntact` |
| `RestartIsContinued` | `FileStoreProofs` | no torn writes | `RestartContinues` |
| `VerifiedFilesAreComplete` | `FileStoreProofs` | | `VerifiedFileIsComplete` |
| `StoreImplementsTrail` | `FileStoreProofs` | no torn writes, no failed fsyncs | `ImplementsTrail` |
| `GatewayUsesStore` | `AuditedGatewayProofs` | | the gateway's log behaves as `FileStore` |
| `SentCallsAreOnFile` | `AuditedGatewayProofs` | | `SentIsOnFile` |
| `FilesTellOneStory` | `AuditedGatewayProofs` | | `FileTellsOneStory` |
| `TypeCorrect` | `AuditedGatewayProofs` | | types, under every fault |
| `ProbesImplementStore` | `HealthProbesProofs` | | `ImplementsStore` |
| `OkAnswersAreDurable` | `HealthProbesProofs` | | `OkMeansDurable` |
| `TypeCorrect` | `HealthProbesProofs` | | types; who may hold the log's lock |
| `EffectsAreRecorded` | `ToolGatewayProofs` | | `EffectIsRecorded` |
| `DeniedCallsHaveNoEffect` | `ToolGatewayProofs` | | `DeniedHasNoEffect` |
| `TokensAreScoped` | `ToolGatewayProofs` | | `TokenIsScoped` |
| `EffectsAreGoverned` | `ToolGatewayProofs` | | `EffectIsGoverned` |
| `LabelsAreTraced` | `ToolGatewayProofs` | | `LabelIsTraced` |
| `RatesAreLimited` | `ToolGatewayProofs` | the policy has the ceilings | `RateIsLimited` |
| `TypeCorrect` | `ToolGatewayProofs` | the policy's outcomes are known | types; labels and listings are of routed tools |
| `SessionsEnd` | `ServeProofs` | | `CredentialsDie` |
| `ExchangedTokensGrantNothing` | `ServeProofs` | | `OnlySessionsGrant` |
| `RestartsEndSessions` | `ServeProofs` | | `RestartEndsSessions` |
| `CredentialsMatchCalls` | `ServeProofs` | | `MintedForSubject` |
| `SessionTypeCorrect` | `ServeProofs` | | types of issuer, gateway and tokens |
| `ObligationsAreCarriedOut` | `ResultFlowProofs` | | `RedactionIsExact` |
| `LabelsAreShown` | `ResultFlowProofs` | | `LabelIsShown` |
| `RoomKeepsMemory` | `ResultFlowProofs` | | `RoomMeansMemory` |
| `TypeCorrect` | `ResultFlowProofs` | | types; the cache's entries expire within a TTL |
| `CallsAreRecorded` | `ModelGatewayProofs` | | `CallIsRecorded` |
| `CallsAreGoverned` | `ModelGatewayProofs` | | `CallIsGoverned` |
| `DeniedCallsHaveNoEffect` | `ModelGatewayProofs` | | `DeniedHasNoEffect` |
| `FallbacksAreVisible` | `ModelGatewayProofs` | | `FallbackIsVisible` |
| `TypeCorrect` | `ModelGatewayProofs` | | types; an answer's model is one of its provider's |
| `ActiveReferencesWereSigned` | `PolicyServiceProofs` | | `ActiveWasSigned` |
| `FailedLoadsChangeNothing` | `PolicyServiceProofs` | one loader | `FailedLoadChangesNothing` |
| `ReferencesFollowPolicies` | `PolicyServiceProofs` | one loader | `ActiveIsPrepared` |
| `UncrossedStampsAreTrue` | `PolicyServiceProofs` | one loader | `UncrossedStampIsTrue` |
| `TypeCorrect` | `PolicyServiceProofs` | | types, with any number of loads |
| `ProtocolErrorsAreEarly` | `ServeProofs` | | `ProtocolErrorMeansUnevaluated` |
| `ShutdownsDropOnlyTheUnread` | `ServeProofs` | | `DroppedIsUntouched` |
| `NamesAreTheHeaders` | `ServeProofs` | | `NameIsTheHeaders` |
| `SdkRequestsAreUnderstood` | `ServeProofs` | | `SdkIsUnderstood` |
| `KeysStay` | `ServeProofs` | | `KeyIsNeverReplaced` |
| `ServingGatewaysAreGoverned` | `ServeProofs` | | `ServingIsGoverned` |
| `TypeCorrect` | `ServeProofs` | | types; nothing is in flight while nothing is served |

* "No torn writes" and "no failed fsyncs" are about `Faults`. They are needed:
  `file_store_torn_ack` shows what a torn write does, and with `"sync"` among the
  faults of `MCFileStore_crash.cfg` TLC refutes `ChainIntact`.
* "The policy has the ceilings" is `LimitsAreEnforced`, the rule of `limits.rego`:
  the policy allows no tool with a ceiling at a count above it.
* "The policy's outcomes are known" is `OutcomesAreKnown`: those of
  `pkg/types/decision.go` and the zero value. `OPADecider` gives no other
  (`opa.go:174`). Only the type of `outcome` needs this: the gateway takes whatever
  else a `Decider` returns for a deny, and so do the other theorems.
* "One loader" is `OneLoader`: loads do not overlap, as in `serve`, which loads at
  startup and then from one goroutine. `VerifyingLoader` itself does not see to it.
* The `ASSUME`s of the modules say of the constants what their names do: sets of
  processes and calls do not contain the value that stands for "none", garbage is
  not a record, bounds and lifetimes are numbers; results have the two fields of
  a result, obligations a type and a path, values nest no deeper than `MaxDepth`.
  Six say more.
  `AudienceAssumption`: no upstream is named like the gateways' audience, which the
  code does not check and is a rule of deployment. `ServeAssumption`: the sections
  of a configuration are indexed by positive numbers. `RequestAssumption`: requests
  have the fields of a request, and `"?"`, which stands for a name that does not
  decode, is no tool's name. `LimitsAssumption`: ceilings are natural numbers.
  `FloatAssumption`: what Go writes for a float64 is that float64 when it is read
  again, as its shortest representation sees to. `ProviderAssumption`: providers
  have names.

The arguments, and why the statements need an inductive invariant:

* **Audit log.** A record is acknowledged by an fsync that relies on what an
  earlier step wrote. `DurableInv` adds that the mutex protects the critical
  section, also across crashes (`MutexInv`), and that the line being fsynced is the
  last one and a whole record (`WholeLines`). For the chain, `ChainInv` adds that
  `lastHash` is the hash of the last line except between a write and its fsync.
  Under every fault none of this is left; `CompleteInv` then says that if the
  durable part of the file verifies, the acknowledged records are in it in order
  (`Placed`), as a chain that verifies has no place for a line that was skipped,
  and that a line under fsync is where its `Append` put it (`Pending`). For the
  refinement, `CountInv` ties the position of a line to the length of its hash,
  and each action is shown to be a step of `AuditTrail` or none.
* **The gateway on the log.** `GatewayUsesStore` maps every step of the gateway to
  one of `FileStore`, so the invariants of `FileStoreProofs` are used through an
  `INSTANCE`, not proved again. `GatewayInv` adds what a call has given to `Append`
  at each of its steps (`Fits`), that a call which was let go is on file if the
  durable part verifies (`ReleasedInv`), and that each line of the file was written
  by its call's first or second `Append` and in that order (`StoryInv`).
* **Health probes.** The same way: a step of a probe is `FileStore`'s `Check` or
  leaves the log alone. `ProbesInv` adds who holds the lock (`Held`) and that a
  check past its fsync vouches for what was there when its probe came (`Vouched`).
* **Tool Gateway.** Four invariants, each on top of the one before. `CallInv`
  follows each request: past the decision record the log contains its "allowed"
  (`Granted`), at the upstream call it holds its own token, and an executed call is
  past its only upstream call and unrefused (`Accounted`). The log only grows
  (`LogGrows`), so a record stays. `GovernInv` adds that a request past `CallTool`'s
  checks has passed them, and that one on its way upstream was allowed. `TraceInv`
  adds that each entry of a provenance map stands for a result that was returned,
  with the expiry of that result (`TracedEntry`), and follows a result from the
  upstream to the map (`TracedResult`). `RateInv` adds that a counted call is in an
  earlier window than its agent's or has at most its count (`Behind`), so that two
  calls in one window have different counts (`Apart`). Those under a ceiling then
  map one to one into the numbers up to it, which bounds how many they are.
* **Sessions.** `SessionInv` says what any token in circulation looks like (its
  expiry is bounded by its exchanges, only one without exchanges has a scope, and
  every token has the key of its session: `Signed`), and what a request knows of
  its credential at each point (`Known`).
* **Results.** What the path walk computes is shown by induction over the number of
  segments, and what a list of obligations does by induction over its length
  (`Induction`, from the library's theorem that a non-empty set of numbers has a
  least one). `WalkTogether`: along an address that a path covers, walk and address
  meet the same values. `WalkRebuilt`, `SetMasksPath`: one redaction masks exactly
  its path. `MaskOneMore`: masking one more path in a value that
  is already masked for the others is masking them all, in any order.
  `MaskingResolvesNoMore`: a masked value leads nowhere that the original did not,
  so whether a field is written anew, and its numbers rounded, is decided by the
  original (`ReworkOneMore`, `ReworkedReads`, `ObligationsMask`). `FlowInv`
  then follows each call: what it carries out comes from the answer (`Carried`),
  each entry of the cache belongs to a string that was shown, with the time of that
  request (`Entry`), and, with room, a string shown and no longer to be remembered
  is in the cache (`Kept`).
* **Model Gateway.** `CompleteInv` follows each request as `CallInv` does in the
  Tool Gateway, with the primary and the fallback as separate calls (`Accounted`),
  and says of each record whose answer it names (`Traceable`).
* **Policy Service.** `SignInv`: a manifest that verifies under the configured key
  was signed with it, and a loader carries a verified one from its check to the
  activation. `LoadInv` adds, for one loader, what a load has replaced at each of
  its steps, that policy and reference belong together unless an edit met the
  load (`Current`), and what a request still knows if nothing crossed it.
* **The process.** Four invariants, one per theme. `CallInv`: a request that has
  not left its handler was not evaluated and is not on the wire, a protocol error
  only answers such a request, and one that is dropped is untouched. `SpeakInv`: the name that
  was handed on is that of a request `Rejection` let through, hence the header's,
  and what `client.py` builds is only refused if it was cut short or its name is
  not what the header says. `KeyInv`: while
  a keygen is about to write the private key there is none. `StartInv`: what each
  step of startup has established (the identity source, the key that verified
  the policy) still stands at every later step, for the configuration that was
  accepted.
* **Types.** Most types are kept step by step. Where a value was checked in an
  earlier step, its type rests on the module's inductive invariant: that of an
  exchanged token on what the request knows of its credential (`Known`), that of
  an activated reference on `SignInv`, and the name a call is handed on
  `SpeakInv`. That nothing is in flight while nothing is served is `PhaseInv` of
  `Serve`: whatever ends the process ends its exchanges.

Only model-checked: liveness (`CallsAreAnswered`, `QueueDrains`, `SignalIsServed`,
`TermEndsServe`), which is out of the prover's reach. Every other property that a
passing run checks is the statement of a theorem.

The library's induction theorems take a predicate as parameter, which the SMT and
Zenon backends cannot instantiate. `Induction` takes a set instead, and that is
enough: the numbers for which a statement holds are a set. `Obligations` writes
its recursion as functions, as `tlapm` does without SMT below a `RECURSIVE`.

A leaf that names `Zenon` is first-order and needs no arithmetic. Naming it keeps
the larger modules fast: `tlapm` spends most of its time on translating a leaf to
SMT, and more so the longer it has been running. `ZenonT` and `SMTT` give a leaf
that takes seconds the time it may need on a slower machine.

## What is not claimed

Statements one might expect, which the code does not support.

The log:

* After a failed fsync the line stays in the file and the next record is chained
  to the one before it (`file_store.go:139`), so `ChainIntact` is stated without
  failed fsyncs. What survives them is in `file_store_all`.
* A torn last line makes `NewFileStore` return an error (`file_store.go:97`), and
  so does a line that is too long for its scanner (`file_store.go:90`), so
  `RestartContinues` is stated without them.
* `verify-chain` run beside a gateway may see a line half written; `ChainIntact`
  is about moments at which no write is under way.

The gateways:

* A refusal before the policy is answered although its record failed
  (`gateway.go:345`): `DenialIsRecorded` of `ToolGateway` does not hold.
* `ListTools` does not compare a tool's registered upstream with the one that
  serves it (`gateway.go:156-184`), so a listed tool may be one `CallTool` refuses.
* A failed credential exchange is recorded as "failed" although no upstream was
  called (`gateway.go:293`), so a "failed" record does not stand for a call.
* The usage counters are forgotten by a restart.
* Nothing ties a client's second try to its first, so repeated calls may have
  repeated effects.
* A redaction whose target is not there is skipped without a trace, although
  `obligations.go:43-45` expects the gateway to log it. The same goes for every
  redaction in a field with a number that no float64 can hold
  (`obligations.go:66`); the strings of such a field are not remembered either.
* A redaction changes integers beyond 2^53 elsewhere in the same field.
* `FallbackFrom` names a provider (`modelgw.go:263`). Between two models of one
  provider the switch shows in the model alone.
* The request id that is to correlate a decision with its audit record
  (`server.go:377-380`) is in no record of the log.
* The Model Gateway only logs an error of its second append (`modelgw.go:230`), so
  an allowed call may have one record.

Sessions, policy and process:

* The issuer takes any resource (`devissuer.go:187`), the gateways' own audience
  included, so a token may be exchanged for one that resolves, without grants,
  and can be exchanged again: a chain of exchanges outlives its session by one
  exchange TTL each. `CredentialsDie` counts them.
* An edit between verification and compilation is compiled unverified
  (`loader.go:58`): `PreparedWasSigned` of `PolicyService` does not hold, and
  `ActiveIsPrepared` leaves such loads out.
* `VerifyingLoader` takes its lock only around the last assignments
  (`loader.go:65`), so its statements are checked with one loader, as in `serve`.
* A SIGHUP before `signal.Notify` (`main.go:196`) ends the process.
* Two `policy keygen` at once may leave the private key of one and the public key
  of the other: the check and the writes are separate steps
  (`policy_cmd.go:67-81`). `KeyIsNeverReplaced` is about one operator.
* The SDK sends a tool's name in its header as it is, and no header for an empty
  one (`client.py:174`). The empty name, one that looks like the listener's encoded
  form, one with blanks at an end and one with characters beyond ASCII do not
  arrive as they were; `SdkIsUnderstood` says that such a call is at worst a header
  mismatch. A name that latin-1 does not have raises before anything is sent.
* A shutdown closes connections with requests that nobody has read yet, so not
  every request is answered; `DroppedIsUntouched` says that those can be repeated.

## Limits of the models

* In `ToolGateway` a request has one string argument and a result at most one
  string, redacted or not by choice. `ResultFlow` has the rest.
* The placeholder the gateway itself writes into redacted results is labelled like
  the rest of the result. `LabelIsTraced` leaves it out.
* `RateIsLimited` is per window and per life of the process: the counters are
  fixed windows in memory.
* Rego is a relation from inputs to outcomes. The runs use the rules of
  `limits.rego` and `taint.rego`, with every other outcome left open.
* `SessionTokens` takes the two clock readings inside one exchange as one, and
  gives issuer and gateway the same clock.
* No other process reads or writes the log in `FileStore`.
* That requests are answered is stated for calls on the real log
  (`CallsAreAnswered`) and for those a shutdown waits for (`TermEndsServe`), not
  separately for listings, the broker or the Model Gateway, nor for a probe
  whose disk stays stalled.
* `Serve` gives each client one request. Encodings (JSON, YAML, PEM) are what
  they decode to; a request that cannot be decoded is a value of its own.

## Not modelled

* Which upstream `StaticRegistry.Refresh` picks for a name that two of them list
  (the last, while the catalog keeps both): routes are constants, as they are
  after the one `Refresh` at startup.
* The egress filter, a check of each outgoing URL that keeps no state.
* `policy verify`, a read-only command whose checks are `PolicyService`'s.
* `devissuer.py`, a stateless client of the issuer in `SessionTokens`.
* The mock upstream, and the packages that hold only interfaces.
* The inside of Rego evaluation, Ed25519, JWT and TLS.

## Plan

1. `ToolGateway` with `PolicyService` in the place of its constant policy.
2. `StaticRegistry.Refresh` with names that two upstreams list, and the egress
   filter.
