------------------------ MODULE AuditedGatewayProofs ------------------------
(***************************************************************************)
(* AuditedGateway for every set of calls and every combination of          *)
(* failures: what the audit file shows of the requests that were sent, and *)
(* of each call's history.  What the store does on its own is taken from   *)
(* FileStoreProofs.                                                        *)
(***************************************************************************)
EXTENDS AuditedGateway, TLAPS

SP == INSTANCE FileStoreProofs WITH Proc <- Call, Long <- {}

CallsType ==
    /\ step \in [Call -> {"idle", "append", "recording", "forward", "await", "done", "lost"}]
    /\ record \in [Call -> Outcome]
    /\ wire \in [Call -> {"unsent", "sent", "executed", "lost"}]
    /\ reply \in [Call -> {"", "ok", "denied", "failed"}]

\* What holds of the store by itself.
StoreInv == SP!TypeOK /\ SP!MutexInv /\ SP!Pending

\* Where CallTool is, what it decided and what it gave to Append fit together.
Fits(c) ==
    /\ step[c] = "recording" => body[c] = [call |-> c, outcome |-> record[c]]
    /\ pc[c] # "idle" => step[c] = "recording"
    /\ step[c] \in {"forward", "await"} => record[c] = "allowed"
    /\ step[c] = "idle" => record[c] = "denied"

Decided == \A c \in Call : Fits(c)

\* Call c went, or was free to go, to its upstream.
Released(c) ==
    step[c] \in {"forward", "await"} \/ wire[c] # "unsent" \/ record[c] = "failed"

OnFile(c) == \E i \in 1 .. synced : Tells(lines, i, c, "allowed")

\* Either the durable part will never verify again or it shows what was released.
ReleasedInv == SP!DurableVerifies => \A c \in Call : Released(c) => OnFile(c)

\* Call c has come to where a line with its outcome o may be in the file.
Told(c, o) ==
    \/ /\ o = record[c]
       /\ \/ step[c] \in {"forward", "await", "done", "lost"}
          \/ step[c] = "recording" /\ pc[c] = "written"
    \/ o = "allowed" /\ record[c] = "failed"

\* Call c is writing a line with outcome o, or gave up while it did.
Torn(c, o) ==
    /\ o = record[c]
    /\ \/ step[c] \in {"done", "lost"}
       \/ step[c] = "recording" /\ pc[c] = "writing"

\* No line is there before its time or twice, and they are in the order of the call.
LinesTell ==
    \A c \in Call :
        /\ \A o \in Outcome, i \in DOMAIN lines : Tells(lines, i, c, o) => Told(c, o)
        /\ \A o \in Outcome, i, j \in DOMAIN lines :
              Tells(lines, i, c, o) /\ Tells(lines, j, c, o) => i = j
        /\ \A i, j \in DOMAIN lines :
              Tells(lines, i, c, "allowed") /\ Tells(lines, j, c, "failed") => i < j

\* An unterminated tail is one line, and does not repeat one before it.
TailTells ==
    /\ Len(tail) <= 1
    /\ \A c \in Call :
          /\ pc[c] = "written" => tail = <<>>
          /\ \A o \in Outcome, k \in DOMAIN tail : Tells(tail, k, c, o) =>
                Torn(c, o) /\ \A i \in DOMAIN lines : ~Tells(lines, i, c, o)

StoryInv == LinesTell /\ TailTells

GatewayInv == StoreInv /\ CallsType /\ Decided /\ ReleasedInv /\ StoryInv

-----------------------------------------------------------------------------
\* The fields of the record a call appends.
LEMMA BodyType ==
    ASSUME CallsType, NEW c \in Call
    PROVE  [call |-> c, outcome |-> record[c]] \in Body
BY Zenon DEF CallsType, Body

\* CallTool uses the store only through its operations: each step is one of the
\* store's, or leaves it alone.
LEMMA StoreStep == CallsType /\ [Next]_vars => [SP!Next]_(SP!vars)
<1> SUFFICES ASSUME CallsType, [Next]_vars
             PROVE  [SP!Next]_(SP!vars)
  OBVIOUS
<1>1. ASSUME NEW c \in Call, Record(c)
      PROVE  SP!Next
  <2>1. SP!AppendCall(c, [call |-> c, outcome |-> record[c]])
    BY <1>1, Zenon DEF Record, Store!AppendCall, SP!AppendCall
  <2> QED
    BY <2>1, BodyType, Zenon DEF SP!Next
<1>2. ASSUME NEW c \in Call, AppendStep(c) \/ AppendReturnsNil(c) \/ AppendReturnsError(c)
      PROVE  SP!Next
  <2>1. SP!Step(c)
    BY <1>2, Zenon DEF AppendStep, AppendReturnsNil, AppendReturnsError, SP!Step,
       Store!AppendLock, Store!AppendWriteBegins, Store!AppendWriteEnds,
       Store!AppendSync, Store!AppendOpenFails, Store!AppendWriteFails,
       Store!AppendSyncFails, Store!Return, Store!Chained, Store!computeHash,
       SP!AppendLock, SP!AppendWriteBegins, SP!AppendWriteEnds,
       SP!AppendSync, SP!AppendOpenFails, SP!AppendWriteFails,
       SP!AppendSyncFails, SP!Return, SP!Chained, SP!computeHash
  <2> QED
    BY <2>1, Zenon DEF SP!Next
<1>3. ASSUME NEW c \in Call,
             (\E o \in Outcome : Decide(c, o)) \/ Send(c) \/ Execute(c) \/ Lose(c)
             \/ Answered(c) \/ Fail(c)
      PROVE  UNCHANGED SP!vars
  BY <1>3, Zenon DEF Decide, Send, Execute, Lose, Answered, Fail, store, SP!vars
<1>4. CASE Die
  <2>1. SP!Crash \/ SP!PowerLoss
    BY <1>4, Zenon DEF Die, Store!Crash, Store!PowerLoss, Store!Writing, Store!Genesis,
       SP!Crash, SP!PowerLoss, SP!Writing, SP!Genesis
  <2> QED
    BY <2>1, Zenon DEF SP!Next
<1>5. CASE Restart
  <2>1. SP!NewFileStore
    BY <1>5, Zenon DEF Restart, Store!NewFileStore, Store!Recovers, Store!Parses,
       Store!ReadLines, Store!RecoveredHash, Store!Genesis,
       SP!NewFileStore, SP!Recovers, SP!Parses, SP!ReadLines, SP!RecoveredHash,
       SP!Genesis
  <2> QED
    BY <2>1, Zenon DEF SP!Next
<1>6. CASE Probe
  BY <1>6, Zenon DEF Probe, Store!Check, SP!Check, SP!Next
<1>7. CASE UNCHANGED vars
  BY <1>7, Zenon DEF vars, store, SP!vars
<1> QED
  BY <1>1, <1>2, <1>3, <1>4, <1>5, <1>6, <1>7, Zenon DEF Next

\* The store's own invariants hold under the gateway's use of it.
LEMMA StoreInvStep == CallsType /\ StoreInv /\ [Next]_vars => StoreInv'
BY StoreStep, SP!TypeStep, SP!MutexStep, SP!PendingStep, FaultsAssumption,
   NoProcAssumption, GarbageAssumption, MaxLinesAssumption
   DEF StoreInv, Store!FaultKinds, SP!FaultKinds

-----------------------------------------------------------------------------
\* The steps of a call keep the types of what it knows.
LEMMA CallsTypeStep == CallsType /\ [Next]_vars => CallsType'
<1> SUFFICES ASSUME CallsType, [Next]_vars
             PROVE  CallsType'
  OBVIOUS
<1> USE DEF CallsType, Outcome
<1>1. ASSUME NEW c \in Call, NEW o \in Outcome, Decide(c, o)
      PROVE  CallsType'
  BY <1>1, Zenon DEF Decide, Goto
<1>2. ASSUME NEW c \in Call, Record(c) \/ AppendStep(c)
      PROVE  CallsType'
  BY <1>2, Zenon DEF Record, AppendStep, Goto, calls
<1>3. ASSUME NEW c \in Call, AppendReturnsNil(c)
      PROVE  CallsType'
  <2>1. CASE record[c] = "allowed"
    BY <1>3, <2>1, Zenon DEF AppendReturnsNil, Goto
  <2>2. CASE record[c] # "allowed"
    <3>1. record[c] \in {"denied", "failed"}
      BY <2>2, Zenon
    <3>2. /\ step' = [step EXCEPT ![c] = "done"] /\ reply' = [reply EXCEPT ![c] = record[c]]
          /\ UNCHANGED <<record, wire>>
      BY <1>3, <2>2, Zenon DEF AppendReturnsNil, Goto, Reply
    <3> QED
      BY <3>1, <3>2, Zenon
  <2> QED
    BY <2>1, <2>2, Zenon
<1>4. ASSUME NEW c \in Call, AppendReturnsError(c)
      PROVE  CallsType'
  BY <1>4, Zenon DEF AppendReturnsError, Goto, Reply
<1>5. ASSUME NEW c \in Call, Send(c) \/ Execute(c) \/ Lose(c) \/ Answered(c) \/ Fail(c)
      PROVE  CallsType'
  BY <1>5, ZenonT(40) DEF Send, Execute, Lose, Answered, Fail, Goto, Reply
<1>6. CASE Die
  BY <1>6, Zenon DEF Die
<1>7. CASE Restart \/ Probe \/ UNCHANGED vars
  BY <1>7, Zenon DEF Restart, Probe, calls, vars
<1> QED
  BY <1>1, <1>2, <1>3, <1>4, <1>5, <1>6, <1>7, Zenon DEF Next

\* A call and its Append stay in step.
LEMMA DecidedStep == StoreInv /\ CallsType /\ Decided /\ [Next]_vars => Decided'
<1> SUFFICES ASSUME StoreInv, CallsType, Decided, [Next]_vars
             PROVE  Decided'
  OBVIOUS
<1>0. pc \in [Call -> {"idle", "wait", "locked", "writing", "gluing", "written"}]
      /\ body \in [Call -> Body]
  BY Zenon DEF StoreInv, SP!TypeOK
<1> USE <1>0 DEF CallsType, Decided, Fits
<1>1. ASSUME NEW c \in Call, NEW o \in Outcome, Decide(c, o)
      PROVE  Decided'
  BY <1>1, ZenonT(40) DEF Decide, Goto, store
<1>2. ASSUME NEW c \in Call, Record(c)
      PROVE  Decided'
  BY <1>2, ZenonT(40) DEF Record, Store!AppendCall, Goto
<1>3. ASSUME NEW c \in Call, AppendStep(c)
      PROVE  Decided'
  <2>1. PICK x : pc' = [pc EXCEPT ![c] = x] /\ pc[c] # "idle" /\ UNCHANGED <<body, calls>>
    BY <1>3, Zenon DEF AppendStep, Store!AppendLock, Store!AppendWriteBegins,
       Store!AppendWriteEnds
  <2> QED
    BY <2>1, Zenon DEF calls
<1>4. ASSUME NEW c \in Call, AppendReturnsNil(c)
      PROVE  Decided'
  <2>1. pc[c] # "idle" /\ pc' = [pc EXCEPT ![c] = "idle"] /\ UNCHANGED <<body, record>>
    BY <1>4, Zenon DEF AppendReturnsNil, Store!AppendSync, Store!Return
  <2>2. \/ record[c] = "allowed" /\ step' = [step EXCEPT ![c] = "forward"]
        \/ step' = [step EXCEPT ![c] = "done"]
    BY <1>4, Zenon DEF AppendReturnsNil, Goto, Reply
  <2>3. CASE record[c] = "allowed" /\ step' = [step EXCEPT ![c] = "forward"]
    BY <2>1, <2>3, ZenonT(40)
  <2>4. CASE step' = [step EXCEPT ![c] = "done"]
    BY <2>1, <2>4, ZenonT(40)
  <2> QED
    BY <2>2, <2>3, <2>4, Zenon
<1>5. ASSUME NEW c \in Call, AppendReturnsError(c)
      PROVE  Decided'
  BY <1>5, ZenonT(40) DEF AppendReturnsError, Store!AppendOpenFails, Store!AppendWriteFails,
     Store!AppendSyncFails, Store!Return, Goto, Reply
<1>6. ASSUME NEW c \in Call, Send(c) \/ Execute(c) \/ Lose(c) \/ Answered(c) \/ Fail(c)
      PROVE  Decided'
  <2>1. UNCHANGED <<pc, body>>
    BY <1>6, Zenon DEF Send, Execute, Lose, Answered, Fail, store
  <2>2. CASE Send(c) \/ Answered(c) \/ Fail(c)
    <3>1. PICK s \in {"await", "done", "append"} : step' = [step EXCEPT ![c] = s]
      BY <2>2, Zenon DEF Send, Answered, Fail, Goto, Reply
    <3>2. \A d \in Call : d # c => step'[d] = step[d] /\ record'[d] = record[d]
      BY <2>2, <3>1, ZenonT(40) DEF Send, Answered, Fail
    <3>3. step[c] \in {"forward", "await"}
      BY <2>2, Zenon DEF Send, Answered, Fail
    <3>4. pc[c] = "idle" /\ record[c] = "allowed" /\ step'[c] = s
      BY <3>1, <3>3, Zenon
    <3>5. s = "await" => record'[c] = "allowed"
      <4>1. Fail(c) => step'[c] = "append"
        BY ZenonT(40) DEF Fail, Goto
      <4>2. Send(c) \/ Answered(c) => record' = record
        BY Zenon DEF Send, Answered
      <4> QED
        BY <2>2, <3>4, <4>1, <4>2, Zenon
    <3>6. Fits(c)'
      BY <2>1, <3>4, <3>5, Zenon
    <3>7. ASSUME NEW d \in Call, d # c
          PROVE  Fits(d)'
      BY <2>1, <3>2, <3>7, ZenonT(40)
    <3> QED
      BY <3>6, <3>7, Zenon
  <2>3. CASE Execute(c) \/ Lose(c)
    BY <2>1, <2>3, ZenonT(60) DEF Execute, Lose
  <2> QED
    BY <1>6, <2>2, <2>3, Zenon
<1>7. CASE Die
  BY <1>7, Zenon DEF Die, Store!Crash, Store!PowerLoss
<1>8. CASE Restart \/ Probe \/ UNCHANGED vars
  BY <1>8, ZenonT(40) DEF Restart, Probe, Store!NewFileStore, Store!Check, calls, vars, store
<1> QED
  BY <1>1, <1>2, <1>3, <1>4, <1>5, <1>6, <1>7, <1>8, ZenonT(40) DEF Next

-----------------------------------------------------------------------------
\* A durable record stays.
LEMMA OnFileStays ==
    ASSUME StoreInv, CallsType, [Next]_vars, NEW c \in Call, OnFile(c)
    PROVE  OnFile(c)'
<1>1. /\ synced' \in Nat /\ synced <= synced'
      /\ \A i \in 1 .. synced : lines'[i] = lines[i]
  BY StoreStep, SP!DurableGrows, FaultsAssumption, NoProcAssumption,
     GarbageAssumption, MaxLinesAssumption DEF StoreInv, Store!FaultKinds, SP!FaultKinds
<1>2. PICK i \in 1 .. synced : Tells(lines, i, c, "allowed")
  BY Zenon DEF OnFile
<1>3. i \in 1 .. synced' /\ lines'[i] = lines[i]
  BY <1>1, <1>2 DEF StoreInv, SP!TypeOK
<1> QED
  BY <1>2, <1>3, Zenon DEF OnFile, Tells

\* The fsync that lets a call go ahead has put its record on file, or has put
\* there what no reader will take for intact.
LEMMA SyncPutsOnFile ==
    ASSUME StoreInv, CallsType, Decided, NEW c \in Call, AppendReturnsNil(c),
           record[c] = "allowed", SP!DurableVerifies'
    PROVE  OnFile(c)'
<1> DEFINE n == Len(lines)
<1>1. pc[c] = "written" /\ synced' = n /\ lines' = lines
  BY Zenon DEF AppendReturnsNil, Store!AppendSync
<1>2. synced < n /\ lines[n] \in {Garbage, SP!Chained(lastHash, body[c])}
  BY <1>1, Zenon DEF StoreInv, SP!Pending
<1>3. n \in 1 .. synced'
  BY <1>1, <1>2 DEF StoreInv, SP!TypeOK
<1>4. lines[n] # Garbage
  BY <1>1, <1>3, Zenon DEF SP!DurableVerifies, SP!LineOK
<1>5. body[c] = [call |-> c, outcome |-> "allowed"]
  BY <1>1, Zenon DEF Decided, Fits
<1>6. Tells(lines, n, c, "allowed")
  BY <1>2, <1>4, <1>5 DEF Tells, SP!Chained
<1> QED
  BY <1>1, <1>3, <1>6, Zenon DEF OnFile, Tells

\* No other step releases a call.
LEMMA OnlySyncReleases ==
    ASSUME StoreInv, CallsType, Decided, [Next]_vars, NEW d \in Call,
           Released(d)', ~Released(d)
    PROVE  AppendReturnsNil(d) /\ record[d] = "allowed"
<1> USE DEF CallsType, Released
<1>1. ASSUME NEW c \in Call, NEW o \in Outcome, Decide(c, o)
      PROVE  FALSE
  BY <1>1, Zenon DEF Decide, Goto
<1>2. ASSUME NEW c \in Call, Record(c) \/ AppendStep(c) \/ AppendReturnsError(c)
      PROVE  FALSE
  BY <1>2, Zenon DEF Record, AppendStep, AppendReturnsError, Goto, Reply, calls
<1>3. ASSUME NEW c \in Call, AppendReturnsNil(c)
      PROVE  c = d /\ record[d] = "allowed"
  BY <1>3, Zenon DEF AppendReturnsNil, Goto, Reply
<1>4. ASSUME NEW c \in Call, Send(c) \/ Execute(c) \/ Lose(c)
      PROVE  FALSE
  BY <1>4, Zenon DEF Send, Execute, Lose, Goto
<1>5. ASSUME NEW c \in Call, Answered(c) \/ Fail(c)
      PROVE  FALSE
  BY <1>5, Zenon DEF Answered, Fail, Goto, Reply
<1>6. CASE Die
  BY <1>6, Zenon DEF Die
<1>7. CASE Restart \/ Probe \/ UNCHANGED vars
  BY <1>7, Zenon DEF Restart, Probe, calls, vars
<1> QED
  BY <1>1, <1>2, <1>3, <1>4, <1>5, <1>6, <1>7, ZenonT(40) DEF Next

\* What was released is on file as long as the file verifies.
LEMMA ReleasedStep ==
    StoreInv /\ CallsType /\ Decided /\ ReleasedInv /\ [Next]_vars => ReleasedInv'
<1> SUFFICES ASSUME StoreInv, CallsType, Decided, ReleasedInv, [Next]_vars,
                    SP!DurableVerifies', NEW c \in Call, Released(c)'
             PROVE  OnFile(c)'
  BY Zenon DEF ReleasedInv
<1>1. SP!DurableVerifies
  BY StoreStep, SP!DurableVerified, FaultsAssumption, NoProcAssumption,
     GarbageAssumption, MaxLinesAssumption DEF StoreInv, Store!FaultKinds, SP!FaultKinds
<1>2. CASE Released(c)
  BY <1>1, <1>2, OnFileStays, Zenon DEF ReleasedInv
<1>3. CASE ~Released(c)
  BY <1>3, OnlySyncReleases, SyncPutsOnFile, Zenon
<1> QED
  BY <1>2, <1>3, Zenon

-----------------------------------------------------------------------------
\* A step that does not touch the file and takes no call back.
LEMMA StoryStays ==
    ASSUME StoryInv, UNCHANGED <<lines, tail>>,
           \A c \in Call, o \in Outcome :
               (Told(c, o) => Told(c, o)') /\ (Torn(c, o) => Torn(c, o)'),
           \A c \in Call : pc'[c] = "written" => pc[c] = "written"
    PROVE  StoryInv'
<1>1. LinesTell'
  BY DEF StoryInv, LinesTell, Tells
<1>2. TailTells'
  BY DEF StoryInv, TailTells, Tells
<1> QED
  BY <1>1, <1>2, Zenon DEF StoryInv

\* The steps of calls that leave the file alone.
LEMMA StoryOfCall ==
    ASSUME StoreInv, CallsType, Decided, StoryInv, NEW c \in Call,
           \/ \E o \in Outcome : Decide(c, o)
           \/ Record(c) \/ (Store!AppendLock(c) /\ UNCHANGED calls)
           \/ AppendReturnsNil(c) \/ AppendReturnsError(c)
           \/ Send(c) \/ Execute(c) \/ Lose(c) \/ Answered(c) \/ Fail(c)
    PROVE  StoryInv'
<1>0. pc \in [Call -> {"idle", "wait", "locked", "writing", "gluing", "written"}]
  BY Zenon DEF StoreInv, SP!TypeOK
<1> USE <1>0 DEF CallsType
<1>1. UNCHANGED <<lines, tail>>
  BY Zenon DEF Decide, Record, AppendReturnsNil, AppendReturnsError, Send, Execute, Lose,
     Answered, Fail, store, Store!AppendCall, Store!AppendLock, Store!AppendSync,
     Store!AppendOpenFails, Store!AppendWriteFails, Store!AppendSyncFails
<1>2. \A d \in Call : d # c =>
          pc'[d] = pc[d] /\ step'[d] = step[d] /\ record'[d] = record[d]
  BY ZenonT(40) DEF Decide, Record, AppendReturnsNil, AppendReturnsError, Send, Execute, Lose,
     Answered, Fail, store, calls, Goto, Reply, Store!AppendCall, Store!AppendLock,
     Store!AppendSync, Store!AppendOpenFails, Store!AppendWriteFails,
     Store!AppendSyncFails, Store!Return
<1>3. pc'[c] = "written" => pc[c] = "written"
  BY Zenon DEF Decide, Record, AppendReturnsNil, AppendReturnsError, Send, Execute, Lose,
     Answered, Fail, store, Store!AppendCall, Store!AppendLock, Store!AppendSync,
     Store!AppendOpenFails, Store!AppendWriteFails, Store!AppendSyncFails, Store!Return
<1>4. ASSUME NEW o \in Outcome
      PROVE  (Told(c, o) => Told(c, o)') /\ (Torn(c, o) => Torn(c, o)')
  <2> USE DEF Told, Torn
  <2>1. CASE \E q \in Outcome : Decide(c, q)
    BY <2>1, Zenon DEF Decide, Goto, store, Decided, Fits
  <2>2. CASE Record(c) \/ (Store!AppendLock(c) /\ UNCHANGED calls)
    BY <2>2, Zenon DEF Record, Store!AppendCall, Store!AppendLock, Goto, calls
  <2>3. CASE AppendReturnsNil(c)
    <3>1. record' = record /\ step'[c] \in {"forward", "done"} /\ pc[c] = "written"
      BY <2>3, Zenon DEF AppendReturnsNil, Store!AppendSync, Goto, Reply
    <3>2. step[c] = "recording"
      BY <3>1, Zenon DEF Decided, Fits
    <3> QED
      BY <3>1, <3>2, Zenon
  <2>4. CASE AppendReturnsError(c)
    BY <2>4, Zenon DEF AppendReturnsError, Goto, Reply
  <2>5. CASE Send(c) \/ Execute(c) \/ Lose(c) \/ Answered(c)
    BY <2>5, Zenon DEF Send, Execute, Lose, Answered, Goto, Reply, store
  <2>6. CASE Fail(c)
    BY <2>6, ZenonT(40) DEF Fail, Goto, store, Decided, Fits
  <2> QED
    BY <2>1, <2>2, <2>3, <2>4, <2>5, <2>6, Zenon
<1>5. \A d \in Call, o \in Outcome :
          (Told(d, o) => Told(d, o)') /\ (Torn(d, o) => Torn(d, o)')
  <2>1. ASSUME NEW d \in Call, d # c, NEW o \in Outcome
        PROVE  (Told(d, o) => Told(d, o)') /\ (Torn(d, o) => Torn(d, o)')
    BY <1>2, <2>1, Zenon DEF Told, Torn
  <2> QED
    BY <1>4, <2>1, Zenon
<1>6. \A d \in Call : pc'[d] = "written" => pc[d] = "written"
  BY <1>2, <1>3, Zenon
<1> QED
  BY <1>1, <1>5, <1>6, StoryStays, Zenon

\* What the record of c in a file says.
LEMMA ChainedTells ==
    ASSUME CallsType, Decided, NEW c \in Call, step[c] = "recording",
           NEW f, NEW k, f[k] = SP!Chained(lastHash, body[c]),
           NEW d \in Call, NEW o \in Outcome, Tells(f, k, d, o)
    PROVE  d = c /\ o = record[c]
<1>1. f[k].body = [call |-> c, outcome |-> record[c]]
  BY DEF Decided, Fits, SP!Chained
<1>2. [call |-> c, outcome |-> record[c]] = [call |-> d, outcome |-> o]
  BY <1>1, Zenon DEF Tells
<1>3. [call |-> c, outcome |-> record[c]].call = [call |-> d, outcome |-> o].call
      /\ [call |-> c, outcome |-> record[c]].outcome = [call |-> d, outcome |-> o].outcome
  BY <1>2, Zenon
<1> QED
  BY <1>3, ZenonT(40)

\* A write that begins: the bytes are in the tail.
LEMMA StoryBegins ==
    ASSUME StoreInv, CallsType, Decided, StoryInv, NEW c \in Call,
           Store!AppendWriteBegins(c), UNCHANGED calls
    PROVE  StoryInv'
<1>1. pc \in [Call -> {"idle", "wait", "locked", "writing", "gluing", "written"}]
      /\ pc[c] = "locked" /\ step[c] = "recording" /\ lines' = lines
      /\ UNCHANGED <<step, record>>
  BY Zenon DEF StoreInv, SP!TypeOK, Store!AppendWriteBegins, Decided, Fits, calls
<1>2. \/ pc' = [pc EXCEPT ![c] = "gluing"] /\ tail' = <<Garbage>>
      \/ pc' = [pc EXCEPT ![c] = "writing"] /\ tail' = <<Garbage>>
      \/ pc' = [pc EXCEPT ![c] = "writing"] /\ tail' = <<SP!Chained(lastHash, body[c])>>
  BY Zenon DEF Store!AppendWriteBegins, Store!Chained, Store!computeHash, SP!Chained,
     SP!computeHash
<1>3. \A d \in Call : pc'[d] # "written"
  BY <1>1, <1>2, ZenonT(40) DEF StoreInv, SP!MutexInv, SP!Critical
<1>4. LinesTell'
  <2>1. \A d \in Call, o \in Outcome : Told(d, o) => Told(d, o)'
    BY <1>1, <1>2, Zenon DEF Told
  <2> QED
    BY <1>1, <2>1 DEF StoryInv, LinesTell, Tells
<1>5. Len(tail') = 1 /\ DOMAIN tail' = {1}
  BY <1>2
<1>6. ASSUME NEW d \in Call, NEW o \in Outcome, Tells(tail', 1, d, o)
      PROVE  Torn(d, o)' /\ \A i \in DOMAIN lines' : ~Tells(lines', i, d, o)
  <2>1. pc'[c] = "writing" /\ tail'[1] = SP!Chained(lastHash, body[c])
    BY <1>1, <1>2, <1>6 DEF Tells
  <2>2. d = c /\ o = record[c]
    BY <1>1, <1>6, <2>1, ChainedTells, Zenon
  <2>3. ~Told(c, o)
    BY <1>1, <2>2, Zenon DEF Told
  <2> QED
    BY <1>1, <2>1, <2>2, <2>3, Zenon DEF Torn, StoryInv, LinesTell
<1>7. TailTells'
  BY <1>3, <1>5, <1>6 DEF TailTells
<1> QED
  BY <1>4, <1>7, Zenon DEF StoryInv

\* A write that ends: the line is in the file, once and after those before it.
LEMMA StoryEnds ==
    ASSUME StoreInv, CallsType, Decided, StoryInv, NEW c \in Call,
           Store!AppendWriteEnds(c), UNCHANGED calls
    PROVE  StoryInv'
<1> DEFINE n == Len(lines)
<1>1. pc \in [Call -> {"idle", "wait", "locked", "writing", "gluing", "written"}]
      /\ pc[c] \in {"writing", "gluing"} /\ pc' = [pc EXCEPT ![c] = "written"]
      /\ step[c] = "recording" /\ UNCHANGED <<step, record>> /\ tail' = <<>>
  BY Zenon DEF StoreInv, SP!TypeOK, Store!AppendWriteEnds, Decided, Fits, calls
<1>2. PICK x : x \in {Garbage, SP!Chained(lastHash, body[c])} /\ lines' = Append(lines, x)
  BY Zenon DEF Store!AppendWriteEnds, Store!Chained, Store!computeHash, SP!Chained,
     SP!computeHash
<1>3. /\ n \in Nat /\ DOMAIN lines = 1 .. n /\ DOMAIN lines' = 1 .. n + 1
      /\ \A i \in 1 .. n : lines'[i] = lines[i]
      /\ lines'[n + 1] = x
  BY <1>2 DEF StoreInv, SP!TypeOK
<1>4. ASSUME NEW d \in Call, NEW o \in Outcome, Tells(lines', n + 1, d, o)
      PROVE  d = c /\ o = record[c]
  BY <1>1, <1>2, <1>3, <1>4, ChainedTells DEF Tells
<1>5. \A i \in 1 .. n : \A d \in Call, o \in Outcome :
          Tells(lines', i, d, o) <=> Tells(lines, i, d, o)
  BY <1>3, Zenon DEF Tells
<1>6. ~Told(c, record[c]) /\ (record[c] = "allowed" => ~Told(c, "failed"))
  BY <1>1, Zenon DEF Told
<1>7. \A d \in Call, o \in Outcome : Told(d, o) => Told(d, o)'
  BY <1>1, Zenon DEF Told
<1>8. \A o \in Outcome : o = record[c] => Told(c, o)'
  BY <1>1, Zenon DEF Told
<1> HIDE DEF n
<1>9. \A d \in Call, o \in Outcome, i \in DOMAIN lines' :
          Tells(lines', i, d, o) => Told(d, o)'
  <2> SUFFICES ASSUME NEW d \in Call, NEW o \in Outcome, NEW i \in DOMAIN lines',
                      Tells(lines', i, d, o)
               PROVE  Told(d, o)'
    OBVIOUS
  <2>1. CASE i \in 1 .. n
    <3>1. Told(d, o)
      BY <1>3, <1>5, <2>1 DEF StoryInv, LinesTell
    <3> QED
      BY <3>1, <1>7, Zenon
  <2>2. CASE i = n + 1
    BY <1>4, <1>8, <2>2, Zenon
  <2> QED
    BY <1>3, <2>1, <2>2
<1>10. \A i \in 1 .. n : ~Tells(lines', i, c, record[c])
                         /\ (record[c] = "allowed" => ~Tells(lines', i, c, "failed"))
  <2>1. record[c] \in Outcome /\ "failed" \in Outcome
    BY Zenon DEF CallsType, Outcome
  <2>2. \A i \in 1 .. n, o \in Outcome : Tells(lines', i, c, o) => Told(c, o)
    BY <1>3, <1>5, Zenon DEF StoryInv, LinesTell
  <2> QED
    BY <1>6, <2>1, <2>2, Zenon
<1>11. ASSUME NEW d \in Call, NEW o \in Outcome, NEW i \in DOMAIN lines',
              NEW j \in DOMAIN lines', Tells(lines', i, d, o), Tells(lines', j, d, o)
       PROVE  i = j
  BY <1>3, <1>4, <1>5, <1>10, <1>11, SMTT(30) DEF StoryInv, LinesTell
<1>12. ASSUME NEW d \in Call, NEW i \in DOMAIN lines', NEW j \in DOMAIN lines',
              Tells(lines', i, d, "allowed"), Tells(lines', j, d, "failed")
       PROVE  i < j
  <2>1. CASE i \in 1 .. n /\ j \in 1 .. n
    BY <1>3, <1>5, <1>12, <2>1, ZenonT(40) DEF StoryInv, LinesTell, Outcome
  <2>2. CASE i = n + 1
    BY <1>3, <1>4, <1>10, <1>12, <2>2, SMTT(30) DEF Outcome
  <2>3. CASE i \in 1 .. n /\ j = n + 1
    BY <1>3, <2>3
  <2> QED
    BY <1>3, <2>1, <2>2, <2>3
<1>13. LinesTell'
  BY <1>9, <1>11, <1>12, Zenon DEF LinesTell
<1>14. TailTells'
  BY <1>1 DEF TailTells
<1> QED
  BY <1>13, <1>14, Zenon DEF StoryInv

\* A process that dies has written what it wrote; a machine that dies may have
\* lost the end of it.
LEMMA StoryDies ==
    ASSUME StoreInv, CallsType, Decided, StoryInv, Die
    PROVE  StoryInv'
<1>1. /\ pc' = [c \in Call |-> "idle"] /\ record' = record
      /\ step' = [c \in Call |-> IF step[c] \in {"idle", "done"} THEN step[c] ELSE "lost"]
  BY Zenon DEF Die, Store!Crash, Store!PowerLoss
<1>2. \A c \in Call, o \in Outcome :
          (Told(c, o) => Told(c, o)') /\ (Torn(c, o) => Torn(c, o)')
  BY <1>1, Zenon DEF Told, Torn
<1>3. \A c \in Call : pc'[c] # "written"
  BY <1>1, Zenon
<1>4. CASE Store!Crash
  BY <1>2, <1>3, <1>4, StoryStays, Zenon DEF Store!Crash
<1>5. CASE Store!PowerLoss
  <2>1. PICK k \in synced .. Len(lines) :
           lines' = SubSeq(lines, 1, k) /\ tail' \in {<<>>, tail, <<Garbage>>}
    BY <1>5, Zenon DEF Store!PowerLoss
  <2>2. DOMAIN lines' \subseteq DOMAIN lines /\ \A i \in DOMAIN lines' : lines'[i] = lines[i]
    BY <2>1 DEF StoreInv, SP!TypeOK
  <2>3. \A i \in DOMAIN lines', c \in Call, o \in Outcome :
            i \in DOMAIN lines /\ (Tells(lines', i, c, o) <=> Tells(lines, i, c, o))
    BY <2>2, Zenon DEF Tells
  <2>4. LinesTell'
    <3>1. "allowed" \in Outcome /\ "failed" \in Outcome
      BY Zenon DEF Outcome
    <3>2. \A c \in Call, o \in Outcome, i \in DOMAIN lines' :
              Tells(lines', i, c, o) => Told(c, o)'
      BY <1>2, <2>3, Zenon DEF StoryInv, LinesTell
    <3>3. \A c \in Call, o \in Outcome, i, j \in DOMAIN lines' :
              Tells(lines', i, c, o) /\ Tells(lines', j, c, o) => i = j
      BY <2>3, Zenon DEF StoryInv, LinesTell
    <3>4. \A c \in Call, i, j \in DOMAIN lines' :
              Tells(lines', i, c, "allowed") /\ Tells(lines', j, c, "failed") => i < j
      BY <2>3, <3>1, Zenon DEF StoryInv, LinesTell
    <3> QED
      BY <3>2, <3>3, <3>4, Zenon DEF LinesTell
  <2>5. ASSUME tail' = tail
        PROVE  TailTells'
    <3>1. ASSUME NEW c \in Call, NEW o \in Outcome, NEW i \in DOMAIN tail',
                 Tells(tail', i, c, o)
          PROVE  Torn(c, o)' /\ \A j \in DOMAIN lines' : ~Tells(lines', j, c, o)
      <4>1. Torn(c, o) /\ \A j \in DOMAIN lines : ~Tells(lines, j, c, o)
        BY <2>5, <3>1, Zenon DEF StoryInv, TailTells
      <4> QED
        BY <1>2, <2>3, <4>1, Zenon
    <3>2. Len(tail') <= 1
      BY <2>5, Zenon DEF StoryInv, TailTells
    <3> QED
      BY <1>3, <3>1, <3>2, Zenon DEF TailTells
  <2>6. ASSUME tail' \in {<<>>, <<Garbage>>}
        PROVE  TailTells'
    <3>1. Len(tail') <= 1 /\ \A i \in DOMAIN tail' : tail'[i] = Garbage
      <4>1. CASE tail' = <<>>
        BY <4>1
      <4>2. CASE tail' = <<Garbage>>
        BY <4>2
      <4> QED
        BY <2>6, <4>1, <4>2, Zenon
    <3> QED
      BY <1>3, <3>1, Zenon DEF TailTells, Tells
  <2> QED
    BY <2>1, <2>4, <2>5, <2>6, Zenon DEF StoryInv
<1> QED
  BY <1>4, <1>5, Zenon DEF Die

\* Every step keeps the stories.
LEMMA StoryStep ==
    StoreInv /\ CallsType /\ Decided /\ StoryInv /\ [Next]_vars => StoryInv'
<1> SUFFICES ASSUME StoreInv, CallsType, Decided, StoryInv, [Next]_vars
             PROVE  StoryInv'
  OBVIOUS
<1>1. ASSUME NEW c \in Call, AppendStep(c)
      PROVE  StoryInv'
  BY <1>1, StoryOfCall, StoryBegins, StoryEnds, Zenon DEF AppendStep
<1>2. CASE Restart \/ Probe \/ UNCHANGED vars
  <2>1. UNCHANGED <<lines, tail, pc, step, record>>
    BY <1>2, Zenon DEF Restart, Probe, Store!NewFileStore, Store!Check, calls, vars, store
  <2> QED
    BY <2>1, StoryStays, Zenon DEF Told, Torn
<1> QED
  BY <1>1, <1>2, StoryOfCall, StoryDies, Zenon DEF Next

-----------------------------------------------------------------------------
\* The inductive invariant, in every behaviour of the gateway.
THEOREM GatewayInvariant == Spec => []GatewayInv
<1>1. Init => GatewayInv
  <2> SUFFICES ASSUME Init PROVE GatewayInv
    OBVIOUS
  <2>1. StoreInv
    <3>1. body \in [Call -> Body]
      BY Zenon DEF Init, Body, Outcome
    <3>2. lines = <<>> /\ tail = <<>> /\ synced = 0 /\ mu = NoProc /\ lastHash = <<>>
          /\ status = "up" /\ acked = <<>>
      BY Zenon DEF Init
    <3>3. pc \in [Call -> {"idle", "wait", "locked", "writing", "gluing", "written"}]
      BY Zenon DEF Init
    <3>4. SP!TypeOK
      BY <3>1, <3>2, <3>3 DEF SP!TypeOK, SP!Hash
    <3>5. SP!MutexInv /\ SP!Pending
      BY Zenon DEF Init, SP!MutexInv, SP!Critical, SP!Pending
    <3> QED
      BY <3>4, <3>5, Zenon DEF StoreInv
  <2>2. CallsType /\ Decided
    BY Zenon DEF Init, CallsType, Decided, Fits, Outcome
  <2>3. ReleasedInv
    BY Zenon DEF Init, ReleasedInv, Released
  <2>4. StoryInv
    <3>1. lines = <<>> /\ tail = <<>>
      BY Zenon DEF Init
    <3>2. DOMAIN lines = {} /\ DOMAIN tail = {} /\ Len(tail) = 0
      BY <3>1
    <3> QED
      BY <3>1, <3>2 DEF StoryInv, LinesTell, TailTells
  <2> QED
    BY <2>1, <2>2, <2>3, <2>4, Zenon DEF GatewayInv
<1>2. GatewayInv /\ [Next]_vars => GatewayInv'
  BY StoreInvStep, CallsTypeStep, DecidedStep, ReleasedStep, StoryStep, Zenon DEF GatewayInv
<1> QED
  BY <1>1, <1>2, PTL DEF Spec

\* CallTool uses the audit log only as FileStore allows, so that all that is
\* proved of the store holds under the gateway (gateway.go, g.audit).
THEOREM GatewayUsesStore == Spec => SP!Spec
<1>1. Init => SP!Init
  <2> SUFFICES ASSUME Init PROVE SP!Init
    OBVIOUS
  <2>1. body \in [Call -> Body]
    BY Zenon DEF Init, Body, Outcome
  <2> QED
    BY <2>1, Zenon DEF Init, SP!Init, SP!Genesis
<1>2. GatewayInv /\ [Next]_vars => [SP!Next]_(SP!vars)
  BY StoreStep, Zenon DEF GatewayInv
<1> QED
  BY <1>1, <1>2, GatewayInvariant, PTL DEF Spec, SP!Spec

\* CallTool appends before it forwards, and denies what it could not append: for
\* any number of calls, and under every failure of the file system, crash and
\* restart, a log that passes Verify shows in its durable part the allowed record
\* of every request that left the gateway.
THEOREM SentCallsAreOnFile == Spec => []SentIsOnFile
<1>1. GatewayInv => SentIsOnFile
  <2> SUFFICES ASSUME GatewayInv, Store!Verify(Store!ReadLines),
                      NEW c \in Call, wire[c] # "unsent"
               PROVE  \E i \in 1 .. synced :
                         lines[i].body = [call |-> c, outcome |-> "allowed"]
    BY Zenon DEF SentIsOnFile
  <2>1. SP!Verify(SP!ReadLines)
    BY Zenon DEF Store!Verify, Store!ReadLines, Store!LineOK, Store!Genesis,
       Store!computeHash, SP!Verify, SP!ReadLines, SP!LineOK, SP!Genesis, SP!computeHash
  <2>2. SP!DurableVerifies
    BY <2>1, SP!VerifiedPart, FaultsAssumption, NoProcAssumption, GarbageAssumption,
       MaxLinesAssumption, SMTT(30) DEF GatewayInv, StoreInv, Store!FaultKinds, SP!FaultKinds
  <2> QED
    BY <2>2, Zenon DEF GatewayInv, ReleasedInv, Released, OnFile, Tells
<1> QED
  BY <1>1, GatewayInvariant, PTL

\* CallTool appends once when it has decided and once more when the call fails:
\* for any number of calls, and under every failure of the file system, crash and
\* restart, a log that passes Verify tells of each call that it was denied, or
\* allowed, or allowed and then failed.
THEOREM FilesTellOneStory == Spec => []FileTellsOneStory
<1>1. GatewayInv => FileTellsOneStory
  <2> DEFINE R == Store!ReadLines
             n == Len(lines)
  <2> SUFFICES ASSUME GatewayInv, Store!Verify(R), NEW c \in Call, NEW j \in DOMAIN R
               PROVE  /\ \A i \in 1 .. j - 1, o, q \in Outcome :
                            Tells(R, i, c, o) /\ Tells(R, j, c, q) =>
                                o = "allowed" /\ q = "failed"
                      /\ Tells(R, j, c, "failed") =>
                            \E i \in 1 .. j - 1 : Tells(R, i, c, "allowed")
    BY Zenon DEF FileTellsOneStory
  <2>1. SP!Verify(SP!ReadLines)
    BY Zenon DEF Store!Verify, Store!ReadLines, Store!LineOK, Store!Genesis,
       Store!computeHash, SP!Verify, SP!ReadLines, SP!LineOK, SP!Genesis, SP!computeHash
  <2>2. SP!DurableVerifies
    BY <2>1, SP!VerifiedPart, FaultsAssumption, NoProcAssumption, GarbageAssumption,
       MaxLinesAssumption, SMTT(30) DEF GatewayInv, StoreInv, Store!FaultKinds, SP!FaultKinds
  <2>3. /\ n \in Nat /\ synced \in 0 .. n /\ DOMAIN lines = 1 .. n /\ j \in Nat
        /\ Len(tail) \in Nat /\ DOMAIN tail = 1 .. Len(tail) /\ Len(tail) <= 1
        /\ 1 <= j /\ j <= n + Len(tail)
        /\ \A i \in 1 .. n : R[i] = lines[i]
        /\ \A i \in 1 .. Len(tail) : R[n + i] = tail[i]
    BY DEF GatewayInv, StoreInv, StoryInv, TailTells, SP!TypeOK, Store!ReadLines
  <2>4. /\ \A i \in 1 .. n, o \in Outcome : Tells(R, i, c, o) <=> Tells(lines, i, c, o)
        /\ j > n => /\ j = n + 1 /\ 1 \in DOMAIN tail
                    /\ \A o \in Outcome : Tells(R, j, c, o) <=> Tells(tail, 1, c, o)
    BY <2>3 DEF Tells
  <2> HIDE DEF R, n
  <2>5. LinesTell /\ TailTells
    BY Zenon DEF GatewayInv, StoryInv
  <2>6. "allowed" \in Outcome /\ "failed" \in Outcome
    BY Zenon DEF Outcome
  <2>7. ASSUME NEW i \in 1 .. j - 1, NEW o \in Outcome, NEW q \in Outcome,
               Tells(R, i, c, o), Tells(R, j, c, q)
        PROVE  o = "allowed" /\ q = "failed"
    <3>1. i \in 1 .. n /\ i < j
      BY <2>3
    <3>2. Tells(lines, i, c, o) /\ Told(c, o)
      BY <2>3, <2>4, <2>5, <2>7, <3>1, Zenon DEF LinesTell
    <3>3. CASE j \in 1 .. n
      <4>1. Tells(lines, j, c, q) /\ Told(c, q)
        BY <2>3, <2>4, <2>5, <2>7, <3>3, ZenonT(40) DEF LinesTell
      <4>2. o # q
        BY <2>3, <2>5, <3>1, <3>2, <3>3, <4>1, SMTT(30) DEF LinesTell
      <4>3. ~(o = "failed" /\ q = "allowed")
        BY <2>3, <2>5, <3>1, <3>2, <3>3, <4>1, SMTT(30) DEF LinesTell
      <4> QED
        BY <3>2, <4>1, <4>2, <4>3, Zenon DEF Told
    <3>4. CASE j > n
      <4>1. Torn(c, q) /\ ~Tells(lines, i, c, q)
        BY <2>3, <2>4, <2>5, <2>7, <3>1, <3>4 DEF TailTells
      <4> QED
        BY <3>2, <4>1, Zenon DEF Told, Torn
    <3> QED
      BY <2>3, <3>3, <3>4
  <2>8. ASSUME Tells(R, j, c, "failed")
        PROVE  \E i \in 1 .. j - 1 : Tells(R, i, c, "allowed")
    <3>1. record[c] = "failed"
      <4>1. CASE j \in 1 .. n
        BY <2>3, <2>4, <2>5, <2>6, <2>8, <4>1, SMTT(30) DEF LinesTell, Told
      <4>2. CASE j > n
        BY <2>3, <2>4, <2>5, <2>6, <2>8, <4>2, SMTT(30) DEF TailTells, Torn
      <4> QED
        BY <2>3, <4>1, <4>2, SMTT(30)
    <3>2. PICK i \in 1 .. synced : Tells(lines, i, c, "allowed")
      BY <2>2, <3>1, Zenon DEF GatewayInv, ReleasedInv, Released, OnFile
    <3>3. i \in 1 .. n
      BY <2>3
    <3>4. i < j
      <4>1. CASE j \in 1 .. n
        BY <2>3, <2>4, <2>5, <2>6, <2>8, <3>2, <3>3, <4>1, SMTT(30) DEF LinesTell
      <4>2. CASE j > n
        BY <2>3, <3>3, <4>2
      <4> QED
        BY <2>3, <4>1, <4>2
    <3>5. i \in 1 .. j - 1 /\ Tells(R, i, c, "allowed")
      BY <2>3, <2>4, <2>6, <3>2, <3>3, <3>4, SMTT(30)
    <3> QED
      BY <3>5, Zenon
  <2> QED
    BY <2>7, <2>8, Zenon
<1> QED
  BY <1>1, GatewayInvariant, PTL

-----------------------------------------------------------------------------
\* The variables of the calls and of their log have their types, whatever fails.
THEOREM TypeCorrect == Spec => []TypeOK
<1>1. SP!TypeOK => Store!TypeOK
  BY Zenon DEF SP!TypeOK, SP!Record, SP!Hash, Store!TypeOK, Store!Record, Store!Hash
<1>2. GatewayInv => TypeOK
  BY <1>1, Zenon DEF GatewayInv, StoreInv, CallsType, TypeOK
<1> QED
  BY <1>2, GatewayInvariant, PTL
=============================================================================
