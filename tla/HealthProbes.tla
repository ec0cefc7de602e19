---------------------------- MODULE HealthProbes ----------------------------
(***************************************************************************)
(* internal/health/health.go, mounted by main.go over the audit log: the   *)
(* /livez and /healthz probes, the deadline of a probe, and the goroutine  *)
(* that runs FileStore.Check, queues for the lock of Append, may block on  *)
(* a stalled disk and outlives the probe that started it.                  *)
(*                                                                         *)
(* Composed with FileStore, whose atomic Check action is here the lock,    *)
(* the look at the context and the fsync, each a step of its own.          *)
(***************************************************************************)
EXTENDS Naturals, Sequences

CONSTANTS Proc, Body, Garbage, Long, NoProc, Faults, MaxLines, \* as in FileStore
          Probe   \* probes that may be under way together, goroutines included

VARIABLES lines, tail, synced, mu, lastHash, status, pc, body, acked,
          stalled,  \* system calls on the log's disk do not return
          probe,    \* where each probe's handler is
          expired,  \* its context is done
          failed,   \* a check has failed already
          check,    \* where its goroutine in FileStore.Check is
          answer,   \* what the prober got
          since     \* history: lines in the file when the probe arrived

Store == INSTANCE FileStore

ASSUME FaultsAssumption == Faults \subseteq Store!FaultKinds
ASSUME LongAssumption == Long \subseteq Body
ASSUME NoProcAssumption == NoProc \notin Proc
ASSUME GarbageAssumption == Garbage \notin [prev : Seq(Body), body : Body, hash : Seq(Body)]
ASSUME MaxLinesAssumption == MaxLines \in Nat
ASSUME ProbeAssumption == Probe \intersect (Proc \union {NoProc}) = {}

store == <<lines, tail, synced, mu, lastHash, status, pc, body, acked>>
probes == <<probe, expired, failed, check, answer, since>>
vars == <<store, stalled, probes>>

Ended == {"none", "passed", "failed"}

Init ==
    /\ Store!Init
    /\ stalled = FALSE
    /\ probe = [q \in Probe |-> "idle"]
    /\ expired = [q \in Probe |-> FALSE]
    /\ failed = [q \in Probe |-> FALSE]
    /\ check = [q \in Probe |-> "none"]
    /\ answer = [q \in Probe |-> ""]
    /\ since = [q \in Probe |-> 0]

\* writeJSON, or the guard's 405.
Answer(q, a) ==
    /\ probe' = [probe EXCEPT ![q] = "answered"]
    /\ answer' = [answer EXCEPT ![q] = a]

\* methodGuard, then Livez or Healthz: only Healthz takes a deadline and checks.
ServeHTTP(q, path, method) ==
    /\ status = "up" /\ probe[q] = "idle"
    /\ IF method \notin {"GET", "HEAD"} THEN Answer(q, "not allowed")
       ELSE IF path = "/livez" THEN Answer(q, "alive")
       ELSE probe' = [probe EXCEPT ![q] = "policy"] /\ UNCHANGED answer
    /\ since' = [since EXCEPT ![q] = Len(lines)]
    /\ UNCHANGED <<store, stalled, expired, failed, check>>

\* checkTimeout runs out, or the prober hangs up: the context is done.
Expire(q) ==
    /\ probe[q] \in {"policy", "audit"} /\ ~expired[q]
    /\ expired' = [expired EXCEPT ![q] = TRUE]
    /\ UNCHANGED <<store, stalled, probe, failed, check, answer, since>>

\* runCheck of the policy: Ready returns nil at once, but a select that finds the
\* context done as well may take either.  Then the audit log's goroutine starts.
CheckPolicy(q) ==
    /\ probe[q] = "policy"
    /\ failed' \in {failed, [failed EXCEPT ![q] = expired[q]]}
    /\ probe' = [probe EXCEPT ![q] = "audit"]
    /\ check' = [check EXCEPT ![q] = "lock"]
    /\ UNCHANGED <<store, stalled, expired, answer, since>>

\* Mutant: the probe does not share Append's lock.
CheckUnlocked(q) ==
    /\ check[q] = "lock"
    /\ check' = [check EXCEPT ![q] = "locked"]
    /\ UNCHANGED <<store, stalled, probe, expired, failed, answer, since>>

\* FileStore.Check takes the lock of Append, however long that takes.
CheckLock(q) ==
    /\ check[q] = "lock" /\ mu = NoProc
    /\ mu' = q
    /\ check' = [check EXCEPT ![q] = "locked"]
    /\ UNCHANGED <<lines, tail, synced, lastHash, status, pc, body, acked, stalled,
                   probe, expired, failed, answer, since>>

\* Mutant: the early return forgets the lock.
CheckContextLocked(q) ==
    LET done == expired[q] \/ probe[q] # "audit" IN
    /\ check[q] = "locked"
    /\ check' = [check EXCEPT ![q] = IF done THEN "failed" ELSE "sync"]
    /\ UNCHANGED <<store, stalled, probe, expired, failed, answer, since>>

\* A context that is done (the handler cancels it on return) ends the check.
CheckContext(q) ==
    LET done == expired[q] \/ probe[q] # "audit" IN
    /\ check[q] = "locked"
    /\ check' = [check EXCEPT ![q] = IF done THEN "failed" ELSE "sync"]
    /\ mu' = IF done THEN NoProc ELSE mu
    /\ UNCHANGED <<lines, tail, synced, lastHash, status, pc, body, acked, stalled,
                   probe, expired, failed, answer, since>>

\* Mutant: opening the file is enough.
CheckOpens(q) ==
    /\ check[q] = "sync" /\ ~stalled
    /\ check' = [check EXCEPT ![q] = "passed"]
    /\ mu' = NoProc
    /\ UNCHANGED <<lines, tail, synced, lastHash, status, pc, body, acked, stalled,
                   probe, expired, failed, answer, since>>

\* Open and fsync, and the deferred Unlock.
CheckSync(q) ==
    /\ check[q] = "sync" /\ ~stalled
    /\ \/ synced' = Len(lines) /\ check' = [check EXCEPT ![q] = "passed"]
       \/ /\ Faults \intersect {"open", "sync"} # {}
          /\ check' = [check EXCEPT ![q] = "failed"] /\ UNCHANGED synced
    /\ mu' = NoProc
    /\ UNCHANGED <<lines, tail, lastHash, status, pc, body, acked, stalled,
                   probe, expired, failed, answer, since>>

\* runCheck's select, and Healthz's answer.
Finish(q) ==
    /\ probe[q] = "audit"
    /\ \/ /\ check[q] \in {"passed", "failed"}
          /\ Answer(q, IF check[q] = "passed" /\ ~failed[q] THEN "ok" ELSE "unhealthy")
       \/ expired[q] /\ Answer(q, "unhealthy")
    /\ UNCHANGED <<store, stalled, expired, failed, check, since>>

\* The next probe comes in the place of one that is over, its goroutine too.
Again(q) ==
    /\ probe[q] = "answered" /\ check[q] \in Ended
    /\ probe' = [probe EXCEPT ![q] = "idle"]
    /\ expired' = [expired EXCEPT ![q] = FALSE]
    /\ failed' = [failed EXCEPT ![q] = FALSE]
    /\ check' = [check EXCEPT ![q] = "none"]
    /\ answer' = [answer EXCEPT ![q] = ""]
    /\ since' = [since EXCEPT ![q] = 0]
    /\ UNCHANGED <<store, stalled>>

-----------------------------------------------------------------------------
\* The disk stalls, and comes back or does not.
Stall == stalled' = ~stalled /\ UNCHANGED <<store, probes>>

\* Append's steps; those that are system calls need the disk.
AppendStep(p) ==
    /\ \/ Store!AppendLock(p) \/ (\E b \in Body : Store!AppendCall(p, b))
       \/ ~stalled /\ Store!Step(p)
    /\ UNCHANGED <<stalled, probes>>

\* The process dies with its probes and goroutines.
Die ==
    /\ Store!Crash \/ Store!PowerLoss
    /\ probe' = [q \in Probe |-> "idle"]
    /\ expired' = [q \in Probe |-> FALSE]
    /\ failed' = [q \in Probe |-> FALSE]
    /\ check' = [q \in Probe |-> "none"]
    /\ answer' = [q \in Probe |-> ""]
    /\ since' = [q \in Probe |-> 0]
    /\ UNCHANGED stalled

Restart == ~stalled /\ Store!NewFileStore /\ UNCHANGED <<stalled, probes>>

HandlerStep(q) == CheckPolicy(q) \/ Finish(q)

Next ==
    \/ \E q \in Probe :
          \/ \E path \in {"/livez", "/healthz"}, method \in {"GET", "HEAD", "POST"} :
                ServeHTTP(q, path, method)
          \/ Expire(q) \/ HandlerStep(q) \/ Again(q)
          \/ CheckLock(q) \/ CheckContext(q) \/ CheckSync(q)
    \/ \E p \in Proc : AppendStep(p)
    \/ Stall \/ Die \/ Restart

\* Goroutines run, timers fire, and the lock goes to every waiter in the end;
\* the disk need never come back.
Fairness ==
    /\ \A q \in Probe : /\ WF_vars(HandlerStep(q)) /\ WF_vars(Expire(q))
                        /\ SF_vars(CheckLock(q)) /\ WF_vars(CheckContext(q))
                        /\ WF_vars(CheckSync(q))
    /\ \A p \in Proc : /\ SF_vars(Store!AppendLock(p) /\ UNCHANGED <<stalled, probes>>)
                       /\ WF_vars(pc[p] # "idle" /\ AppendStep(p))

Spec == Init /\ [][Next]_vars /\ Fairness

-----------------------------------------------------------------------------
\* The types of the variables.
TypeOK ==
    /\ mu \in Proc \union Probe \union {NoProc}
    /\ stalled \in BOOLEAN
    /\ probe \in [Probe -> {"idle", "policy", "audit", "answered"}]
    /\ expired \in [Probe -> BOOLEAN] /\ failed \in [Probe -> BOOLEAN]
    /\ check \in [Probe -> Ended \union {"lock", "locked", "sync"}]
    /\ answer \in [Probe -> {"", "alive", "ok", "unhealthy", "not allowed"}]

\* A probe that answers "ok" vouches for the log: every line that was in the file
\* when it arrived has since been forced to stable storage, whatever else was
\* appended or timed out meanwhile (health.go, Healthz; file_store.go, Check).
OkMeansDurable ==
    \A q \in Probe : answer[q] = "ok" => synced >= since[q]

\* If the disk comes back for good, the goroutines that probes left behind all
\* end and every append gets its turn, however many of them queued for the lock
\* (health.go, runCheck; file_store.go, Append and Check).
QueueDrains ==
    <>[]~stalled =>
        /\ \A q \in Probe : check[q] = "lock" ~> check[q] \in Ended
        /\ \A p \in Proc : pc[p] = "wait" ~> pc[p] = "idle"

\* With probes under way the log still behaves as FileStore says, for which a
\* probe that holds the lock is nobody and its fsync is Check: what is proved of
\* FileStore holds next to the probes (file_store.go, Check: "a probe can't
\* interleave with a record being written").
Quiet == INSTANCE FileStore WITH mu <- IF mu \in Probe THEN NoProc ELSE mu
ImplementsStore == Quiet!Spec
=============================================================================
