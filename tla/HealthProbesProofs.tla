------------------------- MODULE HealthProbesProofs -------------------------
(***************************************************************************)
(* HealthProbes for any number of probes and appending goroutines: to the  *)
(* log, probes are FileStore's Check, and a probe that answers "ok" vouches *)
(* for what it found.  What the store does on its own is taken from        *)
(* FileStoreProofs, with a probe that holds the lock for nobody.           *)
(***************************************************************************)
EXTENDS HealthProbes, TLAPS

QP == INSTANCE FileStoreProofs WITH mu <- IF mu \in Probe THEN NoProc ELSE mu

ProbesType ==
    /\ probe \in [Probe -> {"idle", "policy", "audit", "answered"}]
    /\ check \in [Probe -> {"none", "passed", "failed", "lock", "locked", "sync"}]
    /\ answer \in [Probe -> {"", "alive", "ok", "unhealthy", "not allowed"}]
    /\ since \in [Probe -> Nat]

\* A check belongs to a probe, a probe to a running process, and a check past
\* the lock holds it.
Holds(q) ==
    /\ check[q] \in {"locked", "sync"} => mu = q
    /\ check[q] # "none" => probe[q] \in {"audit", "answered"}
    /\ probe[q] # "idle" => status = "up"

Held == \A q \in Probe : Holds(q)

\* What a probe has seen to be durable still is.
Vouches(q) ==
    /\ since[q] <= Len(lines)
    /\ check[q] = "passed" \/ answer[q] = "ok" => since[q] <= synced
    /\ answer[q] = "ok" => probe[q] = "answered"

Vouched == \A q \in Probe : Vouches(q)

ProbesInv == QP!TypeOK /\ QP!MutexInv /\ ProbesType /\ Held /\ Vouched

-----------------------------------------------------------------------------
\* Each step of a probe is a Check of the store or is nothing to it, and an
\* Append's is the same with probes as without.
LEMMA QuietStep == Held /\ [Next]_vars => [QP!Next]_(QP!vars)
<1> SUFFICES ASSUME Held, [Next]_vars
             PROVE  [QP!Next]_(QP!vars)
  OBVIOUS
<1>1. ASSUME NEW q \in Probe, CheckLock(q) \/ CheckContext(q)
      PROVE  UNCHANGED QP!vars
  BY <1>1, Zenon DEF CheckLock, CheckContext, Held, Holds, QP!vars
<1>2. ASSUME NEW q \in Probe, CheckSync(q)
      PROVE  QP!Next
  <2>1. QP!Check
    BY <1>2, Zenon DEF CheckSync, Held, Holds, QP!Check
  <2> QED
    BY <2>1, Zenon DEF QP!Next
<1>3. ASSUME NEW q \in Probe,
             \/ \E path \in {"/livez", "/healthz"}, method \in {"GET", "HEAD", "POST"} :
                   ServeHTTP(q, path, method)
             \/ Expire(q) \/ HandlerStep(q) \/ Again(q)
      PROVE  UNCHANGED QP!vars
  BY <1>3, Zenon DEF ServeHTTP, Expire, HandlerStep, CheckPolicy, Finish, Again, store, QP!vars
<1>4. ASSUME NEW p \in Proc, AppendStep(p)
      PROVE  QP!Next
  <2>1. p \notin Probe
    BY ProbeAssumption, Zenon
  <2>2. ASSUME NEW b \in Body, Store!AppendCall(p, b)
        PROVE  QP!Next
    BY <2>2, Zenon DEF Store!AppendCall, QP!AppendCall, QP!Next
  <2>3. ASSUME Store!Step(p)
        PROVE  QP!Step(p)
    BY <2>1, <2>3, ProbeAssumption DEF Store!Step, QP!Step,
       Store!AppendLock, Store!AppendWriteBegins, Store!AppendWriteEnds,
       Store!AppendSync, Store!AppendOpenFails, Store!AppendWriteFails,
       Store!AppendSyncFails, Store!Return, Store!Chained, Store!computeHash,
       QP!AppendLock, QP!AppendWriteBegins, QP!AppendWriteEnds,
       QP!AppendSync, QP!AppendOpenFails, QP!AppendWriteFails,
       QP!AppendSyncFails, QP!Return, QP!Chained, QP!computeHash
  <2>4. Store!AppendLock(p) => Store!Step(p)
    BY Zenon DEF Store!Step
  <2> QED
    BY <1>4, <2>2, <2>3, <2>4, Zenon DEF AppendStep, QP!Next
<1>5. CASE Die
  <2>1. QP!Crash \/ QP!PowerLoss
    BY <1>5, ProbeAssumption, Zenon DEF Die, Store!Crash, Store!PowerLoss, Store!Writing,
       Store!Genesis, QP!Crash, QP!PowerLoss, QP!Writing, QP!Genesis
  <2> QED
    BY <2>1, Zenon DEF QP!Next
<1>6. CASE Restart
  <2>1. QP!NewFileStore
    BY <1>6, Zenon DEF Restart, Store!NewFileStore, Store!Recovers, Store!Parses,
       Store!ReadLines, Store!RecoveredHash, Store!Genesis,
       QP!NewFileStore, QP!Recovers, QP!Parses, QP!ReadLines, QP!RecoveredHash,
       QP!Genesis
  <2> QED
    BY <2>1, Zenon DEF QP!Next
<1>7. CASE Stall \/ UNCHANGED vars
  BY <1>7, Zenon DEF Stall, vars, store, QP!vars
<1> QED
  BY <1>1, <1>2, <1>3, <1>4, <1>5, <1>6, <1>7 DEF Next

\* The store's own invariants hold next to the probes.
LEMMA QuietInvStep ==
    QP!TypeOK /\ QP!MutexInv /\ Held /\ [Next]_vars => QP!TypeOK' /\ QP!MutexInv'
BY QuietStep, QP!TypeStep, QP!MutexStep, FaultsAssumption, LongAssumption,
   NoProcAssumption, GarbageAssumption, MaxLinesAssumption, SMTT(30)
   DEF Store!FaultKinds, QP!FaultKinds

\* Steps that concern no probe, the process's death apart.
AppendOrRestart == (\E p \in Proc : AppendStep(p)) \/ Restart \/ Stall

\* They neither shorten the file nor take the lock from a probe.
LEMMA OthersStep ==
    ASSUME QP!TypeOK, QP!MutexInv, Held, AppendOrRestart
    PROVE  /\ UNCHANGED probes /\ Len(lines) <= Len(lines')
           /\ status = "up" => status' = "up"
           /\ mu \in Probe => mu' = mu
<1>1. lines \in Seq(QP!Record \union {Garbage})
  BY Zenon DEF QP!TypeOK
<1>2. ASSUME NEW p \in Proc, AppendStep(p)
      PROVE  /\ Len(lines) <= Len(lines') /\ status' = status
             /\ mu \in Probe => mu' = mu
  <2>1. CASE \E b \in Body : Store!AppendCall(p, b)
    BY <1>1, <2>1 DEF Store!AppendCall
  <2>2. CASE Store!AppendLock(p)
    BY <1>1, <2>2, ProbeAssumption DEF Store!AppendLock
  <2>3. CASE Store!Step(p) /\ ~Store!AppendLock(p)
    <3>1. pc[p] \in QP!Critical
      BY <2>3, Zenon DEF Store!Step, Store!AppendOpenFails, Store!AppendWriteBegins,
         Store!AppendWriteEnds, Store!AppendWriteFails, Store!AppendSync,
         Store!AppendSyncFails, QP!Critical
    <3>2. mu \notin Probe
      BY <3>1, NoProcAssumption, ProbeAssumption, Zenon DEF QP!MutexInv
    <3>3. status' = status /\ (lines' = lines \/ \E x : lines' = Append(lines, x))
      BY <2>3, Zenon DEF Store!Step, Store!AppendOpenFails, Store!AppendWriteBegins,
         Store!AppendWriteEnds, Store!AppendWriteFails, Store!AppendSync,
         Store!AppendSyncFails
    <3> QED
      BY <1>1, <3>2, <3>3
  <2> QED
    BY <1>2, <2>1, <2>2, <2>3, Zenon DEF AppendStep
<1>3. CASE Restart \/ Stall
  BY <1>1, <1>3 DEF Restart, Stall, Store!NewFileStore, store
<1>4. UNCHANGED probes
  BY Zenon DEF AppendOrRestart, AppendStep, Restart, Stall
<1> QED
  BY <1>2, <1>3, <1>4, Zenon DEF AppendOrRestart

\* The steps of probes keep their types.
LEMMA ProbesTypeStep ==
    QP!TypeOK /\ QP!MutexInv /\ Held /\ ProbesType /\ [Next]_vars => ProbesType'
<1> SUFFICES ASSUME QP!TypeOK, QP!MutexInv, Held, ProbesType, [Next]_vars
             PROVE  ProbesType'
  OBVIOUS
<1>0. Len(lines) \in Nat
  BY DEF QP!TypeOK
<1> USE <1>0 DEF ProbesType
<1>1. ASSUME NEW q \in Probe, NEW path, NEW method, ServeHTTP(q, path, method)
      PROVE  ProbesType'
  <2>1. /\ since' = [since EXCEPT ![q] = Len(lines)] /\ check' = check
        /\ \E s \in {"policy", "answered"} : probe' = [probe EXCEPT ![q] = s]
        /\ answer' = answer \/ \E a \in {"alive", "not allowed"} :
                                  answer' = [answer EXCEPT ![q] = a]
    BY <1>1, Zenon DEF ServeHTTP, Answer
  <2> QED
    BY <2>1, ZenonT(40)
<1>2. ASSUME NEW q \in Probe, Expire(q) \/ CheckPolicy(q) \/ Again(q)
      PROVE  ProbesType'
  <2>1. CASE Expire(q) \/ CheckPolicy(q)
    BY <2>1, Zenon DEF Expire, CheckPolicy
  <2>2. CASE Again(q)
    BY <2>2, Zenon DEF Again
  <2> QED
    BY <1>2, <2>1, <2>2, Zenon
<1>3. ASSUME NEW q \in Probe, Finish(q)
      PROVE  ProbesType'
  <2>1. /\ UNCHANGED <<since, check>> /\ probe' = [probe EXCEPT ![q] = "answered"]
        /\ \E a \in {"ok", "unhealthy"} : answer' = [answer EXCEPT ![q] = a]
    BY <1>3, Zenon DEF Finish, Answer
  <2> QED
    BY <2>1, Zenon
<1>4. ASSUME NEW q \in Probe, CheckLock(q) \/ CheckContext(q) \/ CheckSync(q)
      PROVE  ProbesType'
  <2>1. /\ UNCHANGED <<since, probe, answer>>
        /\ \E s \in {"locked", "failed", "sync", "passed"} : check' = [check EXCEPT ![q] = s]
    BY <1>4, Zenon DEF CheckLock, CheckContext, CheckSync
  <2> QED
    BY <2>1, ZenonT(40)
<1>5. CASE AppendOrRestart
  BY <1>5, OthersStep, Zenon DEF probes
<1>6. CASE Die
  BY <1>6, Zenon DEF Die
<1>7. CASE UNCHANGED vars
  BY <1>7, Zenon DEF vars, probes
<1> QED
  BY <1>1, <1>2, <1>3, <1>4, <1>5, <1>6, <1>7, ZenonT(40) DEF Next, HandlerStep, AppendOrRestart

\* A step of a probe leaves the other probes alone.
LEMMA LocalStep ==
    ASSUME ProbesType, NEW q \in Probe, NEW r \in Probe, r # q,
           \/ \E path \in {"/livez", "/healthz"}, method \in {"GET", "HEAD", "POST"} :
                 ServeHTTP(q, path, method)
           \/ Expire(q) \/ HandlerStep(q) \/ Again(q)
           \/ CheckLock(q) \/ CheckContext(q) \/ CheckSync(q)
    PROVE  /\ check'[r] = check[r] /\ probe'[r] = probe[r]
           /\ answer'[r] = answer[r] /\ since'[r] = since[r]
BY ZenonT(40) DEF ProbesType, ServeHTTP, Expire, HandlerStep, CheckPolicy, Finish, Answer, Again,
   CheckLock, CheckContext, CheckSync

\* A check that holds the lock keeps it until it ends.
LEMMA HeldStep ==
    QP!TypeOK /\ QP!MutexInv /\ ProbesType /\ Held /\ [Next]_vars => Held'
<1> SUFFICES ASSUME QP!TypeOK, QP!MutexInv, ProbesType, Held, [Next]_vars
             PROVE  Held'
  OBVIOUS
<1>1. ASSUME NEW q \in Probe,
             \/ \E path \in {"/livez", "/healthz"}, method \in {"GET", "HEAD", "POST"} :
                   ServeHTTP(q, path, method)
             \/ Expire(q) \/ HandlerStep(q) \/ Again(q)
      PROVE  Held'
  <2>1. UNCHANGED <<mu, status>>
    BY <1>1, Zenon DEF ServeHTTP, Expire, HandlerStep, CheckPolicy, Finish, Again, store
  <2>2. Holds(q)'
    BY <1>1, <2>1, Zenon DEF ProbesType, Held, Holds, Ended, ServeHTTP, Expire, HandlerStep,
       CheckPolicy, Finish, Answer, Again
  <2>3. ASSUME NEW r \in Probe, r # q
        PROVE  Holds(r)'
    <3>1. check'[r] = check[r] /\ probe'[r] = probe[r]
      BY <1>1, <2>3, LocalStep, ZenonT(40)
    <3> QED
      BY <2>1, <3>1, Zenon DEF Held, Holds
  <2> QED
    BY <2>2, <2>3, Zenon DEF Held
<1>2. ASSUME NEW q \in Probe, CheckLock(q) \/ CheckContext(q) \/ CheckSync(q)
      PROVE  Held'
  <2>1. status' = status /\ mu \in {NoProc, q}
    BY <1>2, Zenon DEF CheckLock, CheckContext, CheckSync, Held, Holds
  <2>2. Holds(q)'
    BY <1>2, <2>1, Zenon DEF ProbesType, Held, Holds, CheckLock, CheckContext, CheckSync
  <2>3. ASSUME NEW r \in Probe, r # q
        PROVE  Holds(r)'
    <3>1. check'[r] = check[r] /\ probe'[r] = probe[r]
      BY <1>2, <2>3, LocalStep, Zenon
    <3>2. check[r] \notin {"locked", "sync"}
      BY <2>1, <2>3, ProbeAssumption, Zenon DEF Held, Holds
    <3> QED
      BY <2>1, <3>1, <3>2 DEF Held, Holds
  <2> QED
    BY <2>2, <2>3, Zenon DEF Held
<1>3. CASE AppendOrRestart
  BY <1>3, OthersStep, Zenon DEF probes, Held, Holds
<1>4. CASE Die
  BY <1>4, Zenon DEF Die, Held, Holds
<1>5. CASE UNCHANGED vars
  BY <1>5, Zenon DEF vars, store, probes, Held, Holds
<1> QED
  BY <1>1, <1>2, <1>3, <1>4, <1>5 DEF Next, AppendOrRestart

\* A step of others takes nothing from what a probe vouches for.
LEMMA StillVouches ==
    ASSUME QP!TypeOK, QP!TypeOK', ProbesType, NEW r \in Probe, Vouches(r),
           synced <= synced', Len(lines) <= Len(lines'),
           check'[r] = check[r], probe'[r] = probe[r],
           answer'[r] = answer[r], since'[r] = since[r]
    PROVE  Vouches(r)'
<1>1. Len(lines) \in Nat /\ synced \in Nat
  BY DEF QP!TypeOK
<1>2. Len(lines') \in Nat /\ synced' \in Nat
  BY DEF QP!TypeOK
<1>3. since[r] \in Nat /\ since'[r] \in Nat
  BY Zenon DEF ProbesType
<1> QED
  BY <1>1, <1>2, <1>3 DEF Vouches

\* What a probe vouches for stays on stable storage.
LEMMA VouchedStep ==
    QP!TypeOK /\ QP!MutexInv /\ ProbesType /\ Held /\ Vouched /\ [Next]_vars => Vouched'
<1> SUFFICES ASSUME QP!TypeOK, QP!MutexInv, ProbesType, Held, Vouched, [Next]_vars
             PROVE  Vouched'
  OBVIOUS
<1>1. QP!TypeOK'
  BY QuietInvStep, Zenon
<1>2. /\ Len(lines) \in Nat /\ synced \in Nat /\ Len(lines') \in Nat /\ synced' \in Nat
      /\ synced <= synced'
  BY <1>1, QuietStep, QP!DurableGrows, FaultsAssumption, LongAssumption,
     NoProcAssumption, GarbageAssumption, MaxLinesAssumption, SMTT(30)
     DEF QP!TypeOK, Store!FaultKinds, QP!FaultKinds
<1>3. ASSUME NEW q \in Probe,
             \/ \E path \in {"/livez", "/healthz"}, method \in {"GET", "HEAD", "POST"} :
                   ServeHTTP(q, path, method)
             \/ Expire(q) \/ HandlerStep(q) \/ Again(q)
             \/ CheckLock(q) \/ CheckContext(q) \/ CheckSync(q)
      PROVE  Vouched'
  <2>1. lines' = lines
    BY <1>3, Zenon DEF ServeHTTP, Expire, HandlerStep, CheckPolicy, Finish, Again, store,
       CheckLock, CheckContext, CheckSync
  <2>2. Vouches(q)'
    <3>0. Vouches(q) /\ since[q] \in Nat
      BY Zenon DEF Vouched, ProbesType
    <3>1. CASE \E path \in {"/livez", "/healthz"}, method \in {"GET", "HEAD", "POST"} :
                  ServeHTTP(q, path, method)
      <4>1. probe[q] = "idle" /\ answer[q] # "ok" /\ check[q] = "none"
        BY <3>0, <3>1, Zenon DEF ServeHTTP, Held, Holds, Vouches
      <4>2. since'[q] = Len(lines) /\ check'[q] = "none"
        BY <3>1, <4>1, Zenon DEF ServeHTTP, ProbesType
      <4>3. answer'[q] # "ok"
        BY <3>1, <4>1, Zenon DEF ServeHTTP, Answer, ProbesType
      <4> QED
        BY <1>2, <2>1, <4>2, <4>3 DEF Vouches
    <3>2. CASE Expire(q)
      BY <1>1, <1>2, <2>1, <3>0, <3>2, StillVouches, SMTT(30) DEF Expire
    <3>3. CASE CheckPolicy(q)
      <4>1. /\ probe[q] = "policy" /\ UNCHANGED <<since, answer>> /\ check'[q] = "lock"
        BY <3>3, Zenon DEF CheckPolicy, ProbesType
      <4> QED
        BY <1>2, <2>1, <3>0, <4>1, Zenon DEF Vouches
    <3>4. CASE Finish(q)
      <4>1. probe'[q] = "answered" /\ since' = since /\ check' = check
            /\ (answer'[q] = "ok" => check[q] = "passed")
        BY <3>4, Zenon DEF Finish, Answer, ProbesType
      <4> QED
        BY <1>2, <2>1, <3>0, <4>1 DEF Vouches
    <3>5. CASE Again(q)
      <4>1. since'[q] = 0 /\ answer'[q] # "ok" /\ check'[q] # "passed"
        BY <3>5, Zenon DEF Again, ProbesType
      <4> QED
        BY <1>2, <4>1 DEF Vouches
    <3>6. CASE CheckLock(q) \/ CheckContext(q) \/ CheckSync(q)
      <4>1. /\ UNCHANGED <<probe, answer, since>>
            /\ check'[q] = "passed" => synced' = Len(lines)
        BY <3>6, Zenon DEF CheckLock, CheckContext, CheckSync, ProbesType
      <4> QED
        BY <1>2, <2>1, <3>0, <4>1, SMTT(30) DEF Vouches
    <3> QED
      BY <1>3, <3>1, <3>2, <3>3, <3>4, <3>5, <3>6, ZenonT(40) DEF HandlerStep
  <2>3. ASSUME NEW r \in Probe, r # q
        PROVE  Vouches(r)'
    <3>1. /\ check'[r] = check[r] /\ probe'[r] = probe[r]
          /\ answer'[r] = answer[r] /\ since'[r] = since[r]
      BY <1>3, <2>3, LocalStep, Zenon
    <3> QED
      BY <1>1, <1>2, <2>1, <3>1, StillVouches DEF Vouched
  <2> QED
    BY <2>2, <2>3, Zenon DEF Vouched
<1>4. CASE AppendOrRestart
  <2>1. UNCHANGED probes /\ Len(lines) <= Len(lines')
    BY <1>4, OthersStep, Zenon
  <2> QED
    BY <1>1, <1>2, <2>1, StillVouches, Zenon DEF probes, Vouched
<1>5. CASE Die
  <2>1. \A q \in Probe : since'[q] = 0 /\ answer'[q] # "ok" /\ check'[q] # "passed"
    BY <1>5, Zenon DEF Die
  <2> QED
    BY <1>2, <2>1 DEF Vouched, Vouches
<1>6. CASE UNCHANGED vars
  BY <1>6, Zenon DEF vars, store, probes, Vouched, Vouches
<1> QED
  BY <1>3, <1>4, <1>5, <1>6, ZenonT(40) DEF Next, AppendOrRestart

-----------------------------------------------------------------------------
\* The inductive invariant, in every behaviour with any number of probes.
THEOREM ProbesInvariant == Spec => []ProbesInv
<1>1. Init => ProbesInv
  <2> SUFFICES ASSUME Init PROVE ProbesInv
    OBVIOUS
  <2>0. Store!Init
    BY Zenon DEF Init
  <2>1. QP!TypeOK /\ QP!MutexInv
    BY <2>0, NoProcAssumption DEF Store!Init, Store!Genesis, QP!TypeOK, QP!MutexInv,
       QP!Critical, QP!Hash
  <2>2. ProbesType /\ Held
    BY Zenon DEF Init, ProbesType, Held, Holds
  <2>3. \A q \in Probe : since[q] = 0 /\ answer[q] # "ok" /\ check[q] # "passed"
    BY Zenon DEF Init
  <2>4. Vouched
    BY <2>1, <2>3 DEF Vouched, Vouches, QP!TypeOK
  <2> QED
    BY <2>1, <2>2, <2>4, Zenon DEF ProbesInv
<1>2. ProbesInv /\ [Next]_vars => ProbesInv'
  BY QuietInvStep, ProbesTypeStep, HeldStep, VouchedStep, Zenon DEF ProbesInv
<1> QED
  BY <1>1, <1>2, PTL DEF Spec

\* Healthz answers 200 only when Check returned nil: with any number of probes,
\* goroutines left behind and appends under way, and through crashes and power
\* losses, whatever was in the log when the probe arrived is on stable storage.
THEOREM OkAnswersAreDurable == Spec => []OkMeansDurable
<1>1. ProbesInv => OkMeansDurable
  BY Zenon DEF ProbesInv, QP!TypeOK, ProbesType, Vouched, Vouches, OkMeansDurable
<1> QED
  BY <1>1, ProbesInvariant, PTL

\* The two instances of the store say the same.
LEMMA SameNext == [QP!Next]_(QP!vars) => [Quiet!Next]_(Quiet!vars)
BY Zenon DEF QP!Next, QP!Step, QP!AppendCall, QP!AppendLock, QP!AppendWriteBegins,
   QP!AppendWriteEnds, QP!AppendSync, QP!AppendOpenFails, QP!AppendWriteFails,
   QP!AppendSyncFails, QP!Return, QP!Chained, QP!computeHash, QP!Check, QP!Crash,
   QP!PowerLoss, QP!NewFileStore, QP!Writing, QP!Genesis, QP!Recovers, QP!Parses,
   QP!ReadLines, QP!RecoveredHash, QP!vars,
   Quiet!Next, Quiet!Step, Quiet!AppendCall, Quiet!AppendLock, Quiet!AppendWriteBegins,
   Quiet!AppendWriteEnds, Quiet!AppendSync, Quiet!AppendOpenFails,
   Quiet!AppendWriteFails, Quiet!AppendSyncFails, Quiet!Return, Quiet!Chained,
   Quiet!computeHash, Quiet!Check, Quiet!Crash, Quiet!PowerLoss, Quiet!NewFileStore,
   Quiet!Writing, Quiet!Genesis, Quiet!Recovers, Quiet!Parses, Quiet!ReadLines,
   Quiet!RecoveredHash, Quiet!vars

\* Check takes the lock of Append ("a probe can't interleave with a record being
\* written"): with any number of probes the log behaves as FileStore says, every
\* step of a probe being FileStore's Check or nothing to the log, so that what is
\* proved of FileStore holds next to the probes.
THEOREM ProbesImplementStore == Spec => ImplementsStore
<1>1. Init => Quiet!Init
  BY Zenon DEF Init, Store!Init, Store!Genesis, Quiet!Init, Quiet!Genesis
<1>2. ProbesInv /\ [Next]_vars => [Quiet!Next]_(Quiet!vars)
  BY QuietStep, SameNext, Zenon DEF ProbesInv
<1> QED
  BY <1>1, <1>2, ProbesInvariant, PTL DEF Spec, ImplementsStore, Quiet!Spec

-----------------------------------------------------------------------------
\* The types that the arguments above do not need.
Flags == stalled \in BOOLEAN /\ expired \in [Probe -> BOOLEAN] /\ failed \in [Probe -> BOOLEAN]

\* Only a probe's own steps, and the death of the process, touch its flags.
LEMMA FlagsStep == Flags /\ [Next]_vars => Flags'
<1> SUFFICES ASSUME Flags, [Next]_vars
             PROVE  Flags'
  OBVIOUS
<1>1. ASSUME NEW q \in Probe, Expire(q) \/ CheckPolicy(q) \/ Again(q)
      PROVE  Flags'
  BY <1>1, Zenon DEF Flags, Expire, CheckPolicy, Again
<1>2. ASSUME NEW q \in Probe,
             \/ \E path \in {"/livez", "/healthz"}, method \in {"GET", "HEAD", "POST"} :
                   ServeHTTP(q, path, method)
             \/ Finish(q) \/ CheckLock(q) \/ CheckContext(q) \/ CheckSync(q)
      PROVE  Flags'
  BY <1>2, Zenon DEF Flags, ServeHTTP, Finish, CheckLock, CheckContext, CheckSync
<1>3. CASE Die
  BY <1>3, Zenon DEF Flags, Die
<1>4. CASE (\E p \in Proc : AppendStep(p)) \/ Stall \/ Restart \/ UNCHANGED vars
  BY <1>4, Zenon DEF Flags, AppendStep, Stall, Restart, vars, probes
<1> QED
  BY <1>1, <1>2, <1>3, <1>4, ZenonT(40) DEF Next, HandlerStep

\* The variables of the probes have their types, and the lock is held by an
\* append, a probe or nobody.
THEOREM TypeCorrect == Spec => []TypeOK
<1>1. Init => Flags
  BY ZenonT(40) DEF Init, Flags
<1>2. ProbesInv /\ Flags => TypeOK
  BY Zenon DEF ProbesInv, ProbesType, Flags, QP!TypeOK, TypeOK, Ended
<1> QED
  BY <1>1, <1>2, FlagsStep, ProbesInvariant, PTL DEF Spec
=============================================================================
