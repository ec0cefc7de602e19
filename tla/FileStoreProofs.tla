-------------------------- MODULE FileStoreProofs ---------------------------
(***************************************************************************)
(* FileStore for every set of goroutines and record contents: types, what  *)
(* an acknowledged Append guarantees as long as writes are not torn, the   *)
(* integrity of the chain when fsync does not fail either, what a verified *)
(* file shows after any failure, and that the store implements AuditTrail. *)
(***************************************************************************)
EXTENDS FileStore, TLAPS

\* A tuple of one element is a sequence.
LEMMA Singleton ==
    ASSUME NEW S, NEW x \in S
    PROVE  <<x>> \in Seq(S)
OBVIOUS

\* The record Append builds is a record.
LEMMA ChainedType ==
    ASSUME NEW h \in Hash, NEW b \in Body
    PROVE  Chained(h, b) \in Record /\ computeHash(h, b) \in Hash
BY DEF Chained, computeHash, Record, Hash

\* The hash NewFileStore recovers from a file whose lines all parse is a hash.
LEMMA RecoveredType ==
    ASSUME NEW f \in Seq(Record \union {Garbage}), Parses(f)
    PROVE  RecoveredHash(f) \in Hash
<1>1. CASE f = <<>>
  BY <1>1 DEF RecoveredHash, Genesis, Hash
<1>2. CASE f # <<>>
  <2>1. Len(f) \in DOMAIN f
    BY <1>2
  <2>2. f[Len(f)] \in Record
    BY <2>1 DEF Parses
  <2> QED
    BY <1>2, <2>2 DEF RecoveredHash, Record
<1> QED
  BY <1>1, <1>2

\* Every step of Append, of the probe and of a crash keeps the variables in
\* their types (file_store.go, FileStore).
LEMMA TypeStep == TypeOK /\ [Next]_vars => TypeOK'
<1> SUFFICES ASSUME TypeOK, [Next]_vars
             PROVE  TypeOK'
  OBVIOUS
<1> USE DEF TypeOK
<1>1. ASSUME NEW p \in Proc, NEW b \in Body, AppendCall(p, b)
      PROVE  TypeOK'
  BY <1>1 DEF AppendCall
<1>2. ASSUME NEW p \in Proc, AppendLock(p)
      PROVE  TypeOK'
  BY <1>2 DEF AppendLock
<1>3. ASSUME NEW p \in Proc, AppendOpenFails(p)
      PROVE  TypeOK'
  BY <1>3 DEF AppendOpenFails, Return
<1>4. ASSUME NEW p \in Proc, AppendWriteBegins(p)
      PROVE  TypeOK'
  <2>1. Chained(lastHash, body[p]) \in Record
    BY ChainedType
  <2>2. <<Garbage>> \in Seq(Record \union {Garbage})
    BY Singleton
  <2>3. <<Chained(lastHash, body[p])>> \in Seq(Record \union {Garbage})
    BY <2>1, Singleton
  <2>4. tail' \in Seq(Record \union {Garbage})
    BY <1>4, <2>2, <2>3, Zenon DEF AppendWriteBegins
  <2> QED
    BY <1>4, <2>4 DEF AppendWriteBegins
<1>5. ASSUME NEW p \in Proc, AppendWriteEnds(p)
      PROVE  TypeOK'
  <2>1. Chained(lastHash, body[p]) \in Record
    BY ChainedType
  <2>2. lines' \in Seq(Record \union {Garbage}) /\ Len(lines') = Len(lines) + 1
    BY <1>5, <2>1 DEF AppendWriteEnds
  <2>3. tail' \in Seq(Record \union {Garbage})
    BY <1>5 DEF AppendWriteEnds
  <2> QED
    BY <1>5, <2>2, <2>3 DEF AppendWriteEnds
<1>6. ASSUME NEW p \in Proc, AppendWriteFails(p)
      PROVE  TypeOK'
  BY <1>6 DEF AppendWriteFails, Return
<1>7. ASSUME NEW p \in Proc, AppendSync(p)
      PROVE  TypeOK'
  <2>1. lastHash' \in Hash
    BY <1>7, ChainedType DEF AppendSync
  <2>2. acked' \in Seq(Hash)
    BY <1>7, <2>1 DEF AppendSync
  <2> QED
    BY <1>7, <2>1, <2>2 DEF AppendSync, Return
<1>8. ASSUME NEW p \in Proc, AppendSyncFails(p)
      PROVE  TypeOK'
  BY <1>8 DEF AppendSyncFails, Return
<1>9. CASE Check
  BY <1>9 DEF Check
<1>10. CASE Crash
  BY <1>10 DEF Crash, Genesis, Hash
<1>11. CASE PowerLoss
  <2> PICK k \in synced .. Len(lines) :
          /\ lines' = SubSeq(lines, 1, k)
          /\ synced' = k
          /\ tail' \in {<<>>} \union (IF k = Len(lines) THEN {tail} ELSE {})
                              \union (IF "torn" \in Faults /\ k < Len(lines)
                                      THEN {<<Garbage>>} ELSE {})
    BY <1>11 DEF PowerLoss
  <2>1. lines' \in Seq(Record \union {Garbage}) /\ Len(lines') = k
    OBVIOUS
  <2>2. <<Garbage>> \in Seq(Record \union {Garbage})
    BY Singleton
  <2>3. <<>> \in Seq(Record \union {Garbage})
    OBVIOUS
  <2>4. tail' \in Seq(Record \union {Garbage})
    BY <2>2, <2>3, Zenon
  <2> QED
    BY <1>11, <2>1, <2>4 DEF PowerLoss, Genesis, Hash
<1>12. CASE NewFileStore
  <2>1. ReadLines \in Seq(Record \union {Garbage})
    BY DEF ReadLines
  <2>2. lastHash' \in Hash
    BY <1>12, <2>1, RecoveredType DEF NewFileStore, Recovers
  <2> QED
    BY <1>12, <2>2 DEF NewFileStore
<1>13. CASE UNCHANGED vars
  BY <1>13 DEF vars
<1> QED
  BY <1>1, <1>2, <1>3, <1>4, <1>5, <1>6, <1>7, <1>8, <1>9, <1>10, <1>11, <1>12,
     <1>13, Zenon DEF Next, Step

\* The variables keep their types in every behaviour of the store, whatever
\* the file system does (file_store.go, FileStore).
THEOREM TypeCorrect == Spec => []TypeOK
<1>1. Init => TypeOK
  BY DEF Init, TypeOK, Genesis, Hash
<1> QED
  BY <1>1, TypeStep, PTL DEF Spec

-----------------------------------------------------------------------------
Critical == {"locked", "writing", "gluing", "written"}

\* The mutex protects the critical section, also across crashes.
MutexInv ==
    /\ \A p \in Proc : pc[p] \in Critical => mu = p
    /\ status # "up" => \A p \in Proc : pc[p] = "idle"

\* Without torn writes: only a write under way leaves an unterminated tail,
\* every complete line is a record, and the line being fsynced is the last one.
WholeLines ==
    /\ tail # <<>> => Writing
    /\ \A p \in Proc : pc[p] # "gluing"
    /\ \A i \in DOMAIN lines : lines[i] # Garbage
    /\ \A p \in Proc : pc[p] = "written" =>
          Len(lines) > 0 /\ lines[Len(lines)] = Chained(lastHash, body[p])

DurableInv == TypeOK /\ MutexInv /\ WholeLines /\ AckedDurable

\* Two goroutines are never inside Append's critical section at once.
LEMMA MutexStep == TypeOK /\ MutexInv /\ [Next]_vars => MutexInv'
<1> SUFFICES ASSUME TypeOK, MutexInv, [Next]_vars
             PROVE  MutexInv'
  OBVIOUS
<1> USE NoProcAssumption DEF TypeOK, MutexInv, Critical
<1>1. ASSUME NEW p \in Proc, NEW b \in Body, AppendCall(p, b)
      PROVE  MutexInv'
  BY <1>1 DEF AppendCall
<1>2. ASSUME NEW p \in Proc, Step(p)
      PROVE  MutexInv'
  BY <1>2, Zenon DEF Step, AppendLock, AppendOpenFails, AppendWriteBegins,
     AppendWriteEnds, AppendWriteFails, AppendSync, AppendSyncFails, Return
<1>3. CASE Check \/ NewFileStore
  BY <1>3 DEF Check, NewFileStore
<1>4. CASE Crash \/ PowerLoss
  BY <1>4 DEF Crash, PowerLoss
<1>5. CASE UNCHANGED vars
  BY <1>5 DEF vars
<1> QED
  BY <1>1, <1>2, <1>3, <1>4, <1>5 DEF Next

\* As long as writes are not torn the file holds whole records only.
LEMMA WholeStep ==
    ASSUME "torn" \notin Faults
    PROVE  TypeOK /\ MutexInv /\ WholeLines /\ [Next]_vars => WholeLines'
<1> SUFFICES ASSUME TypeOK, MutexInv, WholeLines, [Next]_vars
             PROVE  WholeLines'
  OBVIOUS
<1> USE NoProcAssumption DEF TypeOK, MutexInv, Critical, WholeLines, Writing
<1>1. ASSUME NEW p \in Proc, NEW b \in Body, AppendCall(p, b)
      PROVE  WholeLines'
  BY <1>1 DEF AppendCall
<1>2. ASSUME NEW p \in Proc, AppendLock(p)
      PROVE  WholeLines'
  BY <1>2 DEF AppendLock
<1>3. ASSUME NEW p \in Proc, AppendOpenFails(p) \/ AppendSyncFails(p)
      PROVE  WholeLines'
  BY <1>3 DEF AppendOpenFails, AppendSyncFails, Return
<1>4. ASSUME NEW p \in Proc, AppendWriteBegins(p)
      PROVE  WholeLines'
  BY <1>4 DEF AppendWriteBegins
<1>5. ASSUME NEW p \in Proc, AppendWriteEnds(p)
      PROVE  WholeLines'
  <2> DEFINE r == Chained(lastHash, body[p])
  <2>1. r # Garbage
    BY ChainedType, GarbageAssumption DEF Record, Hash
  <2>2. lines' = Append(lines, r) /\ Len(lines') = Len(lines) + 1
    BY <1>5, ChainedType DEF AppendWriteEnds
  <2>3. \A i \in DOMAIN lines' : lines'[i] # Garbage
    BY <2>1, <2>2, ChainedType
  <2>4. lines'[Len(lines')] = r
    BY <2>2, ChainedType
  <2>5. \A q \in Proc : pc'[q] = "written" => q = p
    BY <1>5 DEF AppendWriteEnds
  <2>6. tail' = <<>> /\ \A q \in Proc : pc'[q] # "gluing"
    BY <1>5 DEF AppendWriteEnds
  <2>7. r = Chained(lastHash', body'[p])
    BY <1>5 DEF AppendWriteEnds
  <2> HIDE DEF r
  <2> QED
    BY <2>2, <2>3, <2>4, <2>5, <2>6, <2>7
<1>6. ASSUME NEW p \in Proc, AppendWriteFails(p)
      PROVE  WholeLines'
  BY <1>6 DEF AppendWriteFails
<1>7. ASSUME NEW p \in Proc, AppendSync(p)
      PROVE  WholeLines'
  BY <1>7 DEF AppendSync, Return
<1>8. CASE Check
  BY <1>8 DEF Check
<1>9. CASE Crash
  BY <1>9 DEF Crash
<1>10. CASE PowerLoss
  <2>1. PICK k \in synced .. Len(lines) : lines' = SubSeq(lines, 1, k)
    BY <1>10 DEF PowerLoss
  <2>2. \A i \in DOMAIN lines' : lines'[i] # Garbage
    BY <2>1, SMTT(30)
  <2>3. tail = <<>> /\ tail' = <<>>
    BY <1>10 DEF PowerLoss
  <2> QED
    BY <1>10, <2>2, <2>3 DEF PowerLoss
<1>11. CASE NewFileStore
  BY <1>11 DEF NewFileStore
<1>12. CASE UNCHANGED vars
  BY <1>12 DEF vars
<1> QED
  BY <1>1, <1>2, <1>3, <1>4, <1>5, <1>6, <1>7, <1>8, <1>9, <1>10, <1>11, <1>12
     DEF Next, Step

\* What was acknowledged stays readable in the synced part of the file.
LEMMA AckedStep ==
    TypeOK /\ WholeLines /\ AckedDurable /\ [Next]_vars => AckedDurable'
<1> SUFFICES ASSUME TypeOK, WholeLines, AckedDurable, [Next]_vars
             PROVE  AckedDurable'
  OBVIOUS
<1> USE DEF TypeOK
<1>1. ASSUME acked' = acked, synced' \in Nat, synced <= synced',
             \A j \in 1 .. synced : lines'[j] = lines[j]
      PROVE  AckedDurable'
  <2> SUFFICES ASSUME NEW i \in DOMAIN acked
               PROVE  \E j \in 1 .. synced' :
                         lines'[j] # Garbage /\ lines'[j].hash = acked[i]
    BY <1>1 DEF AckedDurable
  <2>1. PICK j \in 1 .. synced : lines[j] # Garbage /\ lines[j].hash = acked[i]
    BY DEF AckedDurable
  <2>2. j \in 1 .. synced' /\ lines'[j] = lines[j]
    BY <1>1
  <2> QED
    BY <2>1, <2>2
<1>2. ASSUME NEW p \in Proc, AppendWriteEnds(p)
      PROVE  AckedDurable'
  <2>1. PICK x : lines' = Append(lines, x)
    BY <1>2 DEF AppendWriteEnds
  <2>2. \A j \in 1 .. synced : lines'[j] = lines[j]
    BY <2>1
  <2> QED
    BY <1>1, <1>2, <2>2 DEF AppendWriteEnds
<1>3. ASSUME NEW p \in Proc, AppendSync(p)
      PROVE  AckedDurable'
  <2> DEFINE h == computeHash(lastHash, body[p])
  <2>1. h \in Hash /\ acked' = Append(acked, h) /\ lines' = lines /\ synced' = Len(lines)
    BY <1>3, ChainedType DEF AppendSync
  <2>2. Len(lines) > 0 /\ lines[Len(lines)] = Chained(lastHash, body[p])
    BY <1>3 DEF AppendSync, WholeLines
  <2>3. Len(lines) \in DOMAIN lines /\ Len(lines) \in 1 .. synced'
    BY <2>1, <2>2
  <2>4. lines[Len(lines)] # Garbage
    BY <2>3 DEF WholeLines
  <2>5. lines[Len(lines)].hash = h
    BY <2>2 DEF Chained
  <2> HIDE DEF h
  <2>6. SUFFICES ASSUME NEW i \in DOMAIN acked'
                 PROVE  \E j \in 1 .. synced' :
                           lines'[j] # Garbage /\ lines'[j].hash = acked'[i]
    BY DEF AckedDurable
  <2>7. CASE i \in DOMAIN acked
    <3>1. acked'[i] = acked[i]
      BY <2>1, <2>7
    <3>2. PICK j \in 1 .. synced : lines[j] # Garbage /\ lines[j].hash = acked[i]
      BY <2>7 DEF AckedDurable
    <3> QED
      BY <2>1, <3>1, <3>2
  <2>8. CASE i = Len(acked) + 1
    <3>1. acked'[i] = h
      BY <2>1, <2>8
    <3> QED
      BY <2>1, <2>3, <2>4, <2>5, <3>1
  <2> QED
    BY <2>1, <2>7, <2>8
<1>4. CASE PowerLoss
  <2>1. PICK k \in synced .. Len(lines) : lines' = SubSeq(lines, 1, k) /\ synced' = k
    BY <1>4 DEF PowerLoss
  <2>2. \A j \in 1 .. synced : lines'[j] = lines[j]
    BY <2>1
  <2>3. acked' = acked
    BY <1>4 DEF PowerLoss
  <2> QED
    BY <1>1, <2>1, <2>2, <2>3
<1>5. ASSUME NEW p \in Proc, Step(p), ~AppendWriteEnds(p), ~AppendSync(p)
      PROVE  UNCHANGED <<lines, acked, synced>>
  BY <1>5 DEF Step, AppendLock, AppendOpenFails, AppendWriteBegins,
     AppendWriteFails, AppendSyncFails
<1>6. ASSUME NEW p \in Proc, NEW b \in Body, AppendCall(p, b)
      PROVE  UNCHANGED <<lines, acked, synced>>
  BY <1>6 DEF AppendCall
<1>7. CASE Check \/ Crash \/ NewFileStore \/ UNCHANGED vars
  BY <1>1, <1>7 DEF Check, Crash, NewFileStore, vars
<1> QED
  BY <1>1, <1>2, <1>3, <1>4, <1>5, <1>6, <1>7 DEF Next

\* If no write is torn, then a record whose Append returned nil can be read
\* back after any crash and any failed fsync (file_store.go, Append).
THEOREM AckedIsDurable ==
    ASSUME "torn" \notin Faults
    PROVE  Spec => []AckedDurable
<1>1. Init => DurableInv
  BY NoProcAssumption
     DEF Init, DurableInv, TypeOK, MutexInv, WholeLines, AckedDurable, Writing,
         Critical, Genesis, Hash
<1>2. DurableInv /\ [Next]_vars => DurableInv'
  BY TypeStep, MutexStep, WholeStep, AckedStep DEF DurableInv
<1>3. DurableInv => AckedDurable
  BY DEF DurableInv
<1> QED
  BY <1>1, <1>2, <1>3, PTL DEF Spec

-----------------------------------------------------------------------------
\* lastHash is the hash of the last complete line, except between a write and
\* its fsync, and the complete lines form a chain.
ChainInv ==
    /\ Verify(lines)
    /\ status = "up" /\ (\A p \in Proc : pc[p] # "written")
          => lastHash = RecoveredHash(lines)

\* A prefix of a chain is a chain.
LEMMA PrefixVerifies ==
    ASSUME NEW f \in Seq(Record \union {Garbage}), Verify(f),
           NEW k \in 0 .. Len(f)
    PROVE  Verify(SubSeq(f, 1, k))
<1> DEFINE g == SubSeq(f, 1, k)
<1>1. DOMAIN g = 1 .. k /\ \A i \in 1 .. k : g[i] = f[i]
  OBVIOUS
<1>2. SUFFICES ASSUME NEW i \in 1 .. k
               PROVE  LineOK(g, i)
  BY <1>1 DEF Verify
<1>3. LineOK(f, i) /\ g[i] = f[i] /\ (i # 1 => g[i - 1] = f[i - 1])
  BY <1>1 DEF Verify
<1> HIDE DEF g
<1> QED
  BY <1>3 DEF LineOK

\* A record built on the hash of the last line extends a chain to a chain.
LEMMA ExtendVerifies ==
    ASSUME NEW f \in Seq(Record \union {Garbage}), Verify(f),
           NEW h \in Hash, h = RecoveredHash(f), NEW b \in Body
    PROVE  Verify(Append(f, Chained(h, b)))
<1> DEFINE r == Chained(h, b)
           g == Append(f, r)
<1>1. r \in Record /\ r # Garbage
  BY ChainedType, GarbageAssumption DEF Record, Hash
<1>2. r.prev = h /\ r.hash = computeHash(r.prev, r.body)
  BY DEF Chained
<1> HIDE DEF r
<1>3. /\ DOMAIN g = 1 .. Len(f) + 1
      /\ g[Len(f) + 1] = r
      /\ \A i \in 1 .. Len(f) : g[i] = f[i]
  BY <1>1
<1> HIDE DEF g
<1>4. SUFFICES ASSUME NEW i \in 1 .. Len(f) + 1
               PROVE  LineOK(g, i)
  BY <1>3 DEF Verify, g, r
<1>5. CASE i \in 1 .. Len(f)
  <2>1. LineOK(f, i) /\ g[i] = f[i] /\ (i # 1 => g[i - 1] = f[i - 1])
    BY <1>3, <1>5 DEF Verify
  <2> QED
    BY <2>1 DEF LineOK
<1>6. CASE i = Len(f) + 1
  <2>1. h = IF i = 1 THEN Genesis ELSE g[i - 1].hash
    BY <1>3, <1>6 DEF RecoveredHash
  <2> QED
    BY <1>1, <1>2, <1>3, <1>6, <2>1 DEF LineOK
<1> QED
  BY <1>5, <1>6

\* With neither torn writes nor failed fsyncs every step keeps the chain.
LEMMA ChainStep ==
    ASSUME Faults \intersect {"torn", "sync"} = {}
    PROVE  TypeOK /\ MutexInv /\ WholeLines /\ ChainInv /\ [Next]_vars => ChainInv'
<1> SUFFICES ASSUME TypeOK, MutexInv, WholeLines, ChainInv, [Next]_vars
             PROVE  ChainInv'
  OBVIOUS
<1> USE NoProcAssumption DEF TypeOK, MutexInv, Critical
<1>1. ASSUME NEW p \in Proc, NEW b \in Body, AppendCall(p, b)
      PROVE  ChainInv'
  BY <1>1 DEF AppendCall, ChainInv
<1>2. ASSUME NEW p \in Proc,
             AppendLock(p) \/ AppendOpenFails(p) \/ AppendWriteBegins(p)
      PROVE  ChainInv'
  BY <1>2 DEF AppendLock, AppendOpenFails, AppendWriteBegins, Return, ChainInv
<1>3. ASSUME NEW p \in Proc, AppendWriteEnds(p)
      PROVE  ChainInv'
  <2>1. pc[p] = "writing" /\ status = "up" /\ \A q \in Proc : pc[q] # "written"
    BY <1>3 DEF AppendWriteEnds, WholeLines
  <2>2. lines' = Append(lines, Chained(lastHash, body[p]))
    BY <1>3, <2>1 DEF AppendWriteEnds
  <2>3. Verify(lines')
    BY <2>1, <2>2, ExtendVerifies, Zenon DEF ChainInv
  <2>4. pc'[p] = "written"
    BY <1>3 DEF AppendWriteEnds
  <2> QED
    BY <2>3, <2>4 DEF ChainInv
<1>4. ASSUME NEW p \in Proc, AppendSync(p)
      PROVE  ChainInv'
  <2>1. Len(lines) > 0 /\ lines[Len(lines)] = Chained(lastHash, body[p])
    BY <1>4 DEF AppendSync, WholeLines
  <2>2. RecoveredHash(lines) = computeHash(lastHash, body[p])
    BY <2>1 DEF RecoveredHash, Chained
  <2> QED
    BY <1>4, <2>2 DEF AppendSync, ChainInv
<1>5. ASSUME NEW p \in Proc, AppendWriteFails(p) \/ AppendSyncFails(p)
      PROVE  ChainInv'
  BY <1>5 DEF AppendWriteFails, AppendSyncFails
<1>6. CASE Check
  BY <1>6 DEF Check, ChainInv
<1>7. CASE Crash
  BY <1>7 DEF Crash, ChainInv
<1>8. CASE PowerLoss
  <2>1. PICK k \in synced .. Len(lines) : lines' = SubSeq(lines, 1, k)
    BY <1>8 DEF PowerLoss
  <2>2. Verify(lines')
    BY <2>1, PrefixVerifies DEF ChainInv
  <2> QED
    BY <1>8, <2>2 DEF PowerLoss, ChainInv
<1>9. CASE NewFileStore
  <2>1. ReadLines = lines
    BY <1>9 DEF NewFileStore, ReadLines, WholeLines, Writing
  <2> QED
    BY <1>9, <2>1 DEF NewFileStore, ChainInv
<1>10. CASE UNCHANGED vars
  BY <1>10 DEF vars, ChainInv
<1> QED
  BY <1>1, <1>2, <1>3, <1>4, <1>5, <1>6, <1>7, <1>8, <1>9, <1>10 DEF Next, Step

\* If writes are not torn and fsync does not fail, then the log passes Verify
\* whenever no write is under way, also after crashes and power losses
\* (file_store.go, Append, NewFileStore and Verify).
THEOREM ChainIsIntact ==
    ASSUME Faults \intersect {"torn", "sync"} = {}
    PROVE  Spec => []ChainIntact
<1> DEFINE Inv == TypeOK /\ MutexInv /\ WholeLines /\ ChainInv
<1>1. Init => Inv
  BY NoProcAssumption
     DEF Init, TypeOK, MutexInv, WholeLines, ChainInv, Verify, RecoveredHash,
         Writing, Critical, Genesis, Hash
<1>2. Inv /\ [Next]_vars => Inv'
  BY TypeStep, MutexStep, WholeStep, ChainStep
<1>3. Inv => ChainIntact
  <2> SUFFICES ASSUME Inv, ~Writing
               PROVE  Verify(ReadLines)
    BY DEF ChainIntact
  <2>1. tail = <<>>
    BY DEF WholeLines
  <2>2. ReadLines = lines
    BY <2>1 DEF ReadLines, TypeOK
  <2> QED
    BY <2>2 DEF ChainInv
<1> QED
  BY <1>1, <1>2, <1>3, PTL DEF Spec

-----------------------------------------------------------------------------
\* Without torn writes only a record that is too long for NewFileStore's scanner
\* makes a restart fail: crashes, power losses and failed fsyncs never do
\* (file_store.go, NewFileStore).
THEOREM RestartIsContinued ==
    ASSUME "torn" \notin Faults
    PROVE  Spec => []RestartContinues
<1> DEFINE Inv == TypeOK /\ MutexInv /\ WholeLines /\ RestartContinues
<1>1. Init => Inv
  BY NoProcAssumption
     DEF Init, TypeOK, MutexInv, WholeLines, RestartContinues, Writing, Critical,
         Genesis, Hash
<1>2. Inv /\ [Next]_vars => RestartContinues'
  <2> SUFFICES ASSUME Inv, [Next]_vars
               PROVE  RestartContinues'
    OBVIOUS
  <2>1. CASE NewFileStore
    <3>1. ReadLines = lines /\ ReadLines' = lines'
      BY <2>1 DEF NewFileStore, ReadLines, TypeOK, MutexInv, WholeLines, Writing
    <3>2. Parses(ReadLines)
      BY <3>1 DEF Parses, WholeLines
    <3>3. status' = "refused" => \E i \in DOMAIN lines : lines[i].body \in Long
      BY <2>1, <3>1, <3>2 DEF NewFileStore, Recovers
    <3> QED
      BY <2>1, <3>1, <3>3 DEF NewFileStore, RestartContinues, WholeLines
  <2>2. CASE status = "refused" /\ ~NewFileStore
    <3>1. UNCHANGED <<lines, tail, status>>
      BY <2>2 DEF Next, Step, AppendCall, AppendLock, AppendOpenFails,
         AppendWriteBegins, AppendWriteEnds, AppendWriteFails, AppendSync,
         AppendSyncFails, Check, Crash, PowerLoss, vars, MutexInv
    <3> QED
      BY <3>1, SMTT(30) DEF RestartContinues, ReadLines
  <2>3. CASE status # "refused" /\ ~NewFileStore
    <3>1. status' # "refused"
      BY <2>3 DEF Next, Step, AppendCall, AppendLock, AppendOpenFails,
         AppendWriteBegins, AppendWriteEnds, AppendWriteFails, AppendSync,
         AppendSyncFails, Check, Crash, PowerLoss, vars
    <3> QED
      BY <3>1, SMTT(30) DEF RestartContinues
  <2> QED
    BY <2>1, <2>2, <2>3
<1>3. Inv /\ [Next]_vars => Inv'
  BY <1>2, TypeStep, MutexStep, WholeStep, SMTT(30)
<1> QED
  BY <1>1, <1>3, PTL DEF Spec

-----------------------------------------------------------------------------
\* The durable lines pass Verify.
DurableVerifies == \A i \in 1 .. synced : LineOK(lines, i)

\* The acknowledged records are durable, in their order.
Placed ==
    \E pos \in [DOMAIN acked -> 1 .. synced] :
        /\ \A i \in DOMAIN acked : lines[pos[i]].hash = acked[i]
        /\ \A i, j \in DOMAIN acked : i < j => pos[i] < pos[j]

\* The line that is being fsynced is past the durable ones, and is the record or
\* garbage that stays.
Pending ==
    \A p \in Proc : pc[p] = "written" =>
        /\ synced < Len(lines)
        /\ lines[Len(lines)] \in {Garbage, Chained(lastHash, body[p])}

\* Whatever failed, either the durable part will never verify again or it holds
\* what was acknowledged.
CompleteInv == Pending /\ (DurableVerifies => Placed)

\* The line under fsync stays where it is until its Append returns.
LEMMA PendingStep == TypeOK /\ MutexInv /\ Pending /\ [Next]_vars => Pending'
<1> SUFFICES ASSUME TypeOK, MutexInv, Pending, [Next]_vars
             PROVE  Pending'
  OBVIOUS
<1> USE NoProcAssumption DEF TypeOK, MutexInv, Critical, Pending
<1>1. ASSUME NEW p \in Proc, NEW b \in Body, AppendCall(p, b)
      PROVE  Pending'
  BY <1>1 DEF AppendCall
<1>2. ASSUME NEW p \in Proc, AppendLock(p) \/ AppendOpenFails(p) \/ AppendWriteBegins(p)
                             \/ AppendWriteFails(p) \/ AppendSyncFails(p)
      PROVE  Pending'
  BY <1>2, SMTT(30) DEF AppendLock, AppendOpenFails, AppendWriteBegins, AppendWriteFails,
     AppendSyncFails, Return
<1>3. ASSUME NEW p \in Proc, AppendWriteEnds(p)
      PROVE  Pending'
  <2>1. PICK x \in {Garbage, Chained(lastHash, body[p])} : lines' = Append(lines, x)
    BY <1>3 DEF AppendWriteEnds
  <2>2. Len(lines') = Len(lines) + 1 /\ lines'[Len(lines')] = x
    BY <2>1
  <2>3. UNCHANGED <<synced, lastHash, body>>
        /\ \A q \in Proc : pc'[q] = "written" => q = p
    BY <1>3 DEF AppendWriteEnds
  <2> QED
    BY <2>1, <2>2, <2>3 DEF Chained
<1>4. ASSUME NEW p \in Proc, AppendSync(p)
      PROVE  Pending'
  BY <1>4 DEF AppendSync, Return
<1>5. CASE Check \/ Crash \/ PowerLoss \/ NewFileStore
  BY <1>5 DEF Check, Crash, PowerLoss, NewFileStore
<1>6. CASE UNCHANGED vars
  BY <1>6 DEF vars
<1> QED
  BY <1>1, <1>2, <1>3, <1>4, <1>5, <1>6, Zenon DEF Next, Step

\* No step takes a durable line away or changes it.
LEMMA DurableGrows ==
    TypeOK /\ [Next]_vars => /\ synced' \in Nat /\ synced <= synced'
                             /\ \A i \in 1 .. synced : lines'[i] = lines[i]
<1> SUFFICES ASSUME TypeOK, [Next]_vars
             PROVE  /\ synced' \in Nat /\ synced <= synced'
                    /\ \A i \in 1 .. synced : lines'[i] = lines[i]
  OBVIOUS
<1>1. synced \in Nat /\ Len(lines) \in Nat /\ synced <= Len(lines)
      /\ lines \in Seq(Record \union {Garbage})
  BY DEF TypeOK
<1>2. ASSUME NEW p \in Proc, AppendWriteEnds(p)
      PROVE  synced' = synced /\ \A i \in 1 .. synced : lines'[i] = lines[i]
  <2>1. PICK x : lines' = Append(lines, x)
    BY <1>2 DEF AppendWriteEnds
  <2> QED
    BY <1>1, <1>2, <2>1 DEF AppendWriteEnds
<1>3. CASE PowerLoss
  <2>1. PICK k \in synced .. Len(lines) : lines' = SubSeq(lines, 1, k) /\ synced' = k
    BY <1>3 DEF PowerLoss
  <2> QED
    BY <1>1, <2>1
<1>4. ASSUME NEW p \in Proc, Step(p), ~AppendWriteEnds(p)
      PROVE  lines' = lines /\ synced' \in {synced, Len(lines)}
  BY <1>4 DEF Step, AppendLock, AppendOpenFails, AppendWriteBegins,
     AppendWriteFails, AppendSync, AppendSyncFails
<1>5. ASSUME NEW p \in Proc, NEW b \in Body, AppendCall(p, b)
      PROVE  lines' = lines /\ synced' = synced
  BY <1>5 DEF AppendCall
<1>6. CASE Check \/ Crash \/ NewFileStore \/ UNCHANGED vars
  BY <1>1, <1>6 DEF Check, Crash, NewFileStore, vars
<1> QED
  BY <1>1, <1>2, <1>3, <1>4, <1>5, <1>6 DEF Next

\* A durable part that verifies has verified ever since.
LEMMA DurableVerified == TypeOK /\ [Next]_vars /\ DurableVerifies' => DurableVerifies
<1> SUFFICES ASSUME TypeOK, [Next]_vars, DurableVerifies', NEW i \in 1 .. synced
             PROVE  LineOK(lines, i)
  BY DEF DurableVerifies
<1>1. /\ synced' \in Nat /\ synced <= synced'
      /\ \A k \in 1 .. synced : lines'[k] = lines[k]
  BY DurableGrows
<1>2. i \in 1 .. synced' /\ (i # 1 => i - 1 \in 1 .. synced)
  BY <1>1 DEF TypeOK
<1>3. LineOK(lines', i) /\ lines'[i] = lines[i] /\ (i # 1 => lines'[i - 1] = lines[i - 1])
  BY <1>1, <1>2 DEF DurableVerifies, LineOK
<1> QED
  BY <1>3 DEF LineOK

\* In a file that passes Verify the durable part does.
LEMMA VerifiedPart == TypeOK /\ Verify(ReadLines) => DurableVerifies
<1> SUFFICES ASSUME TypeOK, Verify(ReadLines), NEW i \in 1 .. synced
             PROVE  LineOK(lines, i)
  BY DEF DurableVerifies
<1>1. lines \in Seq(Record \union {Garbage}) /\ tail \in Seq(Record \union {Garbage})
      /\ synced \in 0 .. Len(lines)
  BY DEF TypeOK
<1>2. \A k \in 1 .. synced : k \in DOMAIN ReadLines /\ ReadLines[k] = lines[k]
  BY <1>1 DEF ReadLines
<1>3. LineOK(ReadLines, i)
  BY <1>2 DEF Verify
<1>4. ReadLines[i] = lines[i] /\ (i # 1 => ReadLines[i - 1] = lines[i - 1])
  BY <1>1, <1>2
<1> QED
  BY <1>3, <1>4 DEF LineOK

\* What was acknowledged keeps its place.
LEMMA PlacedGrows ==
    ASSUME TypeOK, CompleteInv, [Next]_vars, acked' = acked
    PROVE  (DurableVerifies => Placed)'
<1> SUFFICES ASSUME DurableVerifies'
             PROVE  Placed'
  OBVIOUS
<1>1. /\ synced' \in Nat /\ synced <= synced'
      /\ \A k \in 1 .. synced : lines'[k] = lines[k]
  BY DurableGrows
<1>2. PICK pos \in [DOMAIN acked -> 1 .. synced] :
         /\ \A i \in DOMAIN acked : lines[pos[i]].hash = acked[i]
         /\ \A i, j \in DOMAIN acked : i < j => pos[i] < pos[j]
  BY DurableVerified DEF CompleteInv, Placed
<1>3. pos \in [DOMAIN acked -> 1 .. synced']
  BY <1>1, <1>2 DEF TypeOK
<1> QED
  BY <1>1, <1>2, <1>3 DEF Placed

\* An fsync acknowledges a record that is in its place, or one that no reader
\* will take for intact.
LEMMA PlacedSync ==
    ASSUME TypeOK, CompleteInv, NEW p \in Proc, AppendSync(p)
    PROVE  (DurableVerifies => Placed)'
<1> DEFINE h == computeHash(lastHash, body[p])
           n == Len(lines)
<1>1. /\ h \in Hash /\ acked' = Append(acked, h) /\ lines' = lines /\ synced' = n
      /\ pc[p] = "written" /\ acked \in Seq(Hash) /\ n \in Nat /\ synced \in Nat
  BY ChainedType DEF AppendSync, TypeOK
<1>2. synced < n /\ lines[n] \in {Garbage, Chained(lastHash, body[p])}
  BY <1>1 DEF CompleteInv, Pending
<1> SUFFICES ASSUME DurableVerifies'
             PROVE  Placed'
  OBVIOUS
<1>3. \A i \in 1 .. n : LineOK(lines, i)
  BY <1>1 DEF DurableVerifies, LineOK
<1>4. DurableVerifies
  BY <1>1, <1>2, <1>3 DEF DurableVerifies
<1>5. lines[n].hash = h
  <2>1. lines[n] # Garbage
    BY <1>1, <1>2, <1>3 DEF LineOK
  <2> QED
    BY <1>2, <2>1 DEF Chained
<1> HIDE DEF h, n
<1>6. PICK pos \in [DOMAIN acked -> 1 .. synced] :
         /\ \A i \in DOMAIN acked : lines[pos[i]].hash = acked[i]
         /\ \A i, j \in DOMAIN acked : i < j => pos[i] < pos[j]
  BY <1>4 DEF CompleteInv, Placed
<1>7. /\ DOMAIN acked' = 1 .. Len(acked) + 1 /\ DOMAIN acked = 1 .. Len(acked)
      /\ Len(acked) \in Nat /\ acked'[Len(acked) + 1] = h
      /\ \A i \in DOMAIN acked : acked'[i] = acked[i]
  BY <1>1, SMTT(30)
<1> DEFINE new == [i \in DOMAIN acked' |-> IF i \in DOMAIN acked THEN pos[i] ELSE n]
<1>8. new \in [DOMAIN acked' -> 1 .. n]
  BY <1>1, <1>2, <1>6, SMTT(30)
<1>9. \A i \in DOMAIN acked' : lines[new[i]].hash = acked'[i]
  BY <1>5, <1>6, <1>7, SMTT(30)
<1>10. \A i, j \in DOMAIN acked' : i < j => new[i] < new[j]
  BY <1>1, <1>2, <1>6, <1>7
<1> HIDE DEF new
<1> QED
  BY <1>1, <1>8, <1>9, <1>10, Zenon DEF Placed

\* Every step keeps the invariant.
LEMMA CompleteStep ==
    TypeOK /\ MutexInv /\ CompleteInv /\ [Next]_vars => CompleteInv'
<1> SUFFICES ASSUME TypeOK, MutexInv, CompleteInv, [Next]_vars
             PROVE  (DurableVerifies => Placed)'
  BY PendingStep DEF CompleteInv
<1>1. ASSUME NEW p \in Proc, AppendSync(p)
      PROVE  (DurableVerifies => Placed)'
  BY <1>1, PlacedSync
<1>2. ASSUME NEW p \in Proc, Step(p), ~AppendSync(p)
      PROVE  acked' = acked
  BY <1>2 DEF Step, AppendLock, AppendOpenFails, AppendWriteBegins, AppendWriteEnds,
     AppendWriteFails, AppendSyncFails
<1>3. ASSUME NEW p \in Proc, NEW b \in Body, AppendCall(p, b)
      PROVE  acked' = acked
  BY <1>3 DEF AppendCall
<1>4. CASE Check \/ Crash \/ PowerLoss \/ NewFileStore \/ UNCHANGED vars
  BY <1>4, PlacedGrows DEF Check, Crash, PowerLoss, NewFileStore, vars
<1> QED
  BY <1>1, <1>2, <1>3, <1>4, PlacedGrows DEF Next

\* Append and Verify of file_store.go: under every combination of failed opens,
\* torn writes, failed fsyncs, crashes and power losses, a log that passes Verify
\* holds every record that Append reported as durable, in that order.
THEOREM VerifiedFilesAreComplete == Spec => []VerifiedFileIsComplete
<1> DEFINE Inv == TypeOK /\ MutexInv /\ CompleteInv
<1>1. Init => Inv
  <2> SUFFICES ASSUME Init PROVE Inv
    OBVIOUS
  <2>1. TypeOK /\ MutexInv
    BY NoProcAssumption DEF Init, TypeOK, MutexInv, Critical, Genesis, Hash
  <2>2. Pending
    BY DEF Init, Pending
  <2>3. Placed
    <3>1. acked = <<>> /\ synced = 0 /\ DOMAIN acked = {}
      BY DEF Init
    <3>2. [i \in {} |-> 0] \in [DOMAIN acked -> 1 .. synced]
      BY <3>1
    <3> QED
      BY <3>1, <3>2, Zenon DEF Placed
  <2> QED
    BY <2>1, <2>2, <2>3 DEF CompleteInv
<1>2. Inv /\ [Next]_vars => Inv'
  BY TypeStep, MutexStep, CompleteStep
<1>3. Inv => VerifiedFileIsComplete
  <2> SUFFICES ASSUME Inv, Verify(ReadLines)
               PROVE  \E pos \in [DOMAIN acked -> DOMAIN lines] :
                        /\ \A i \in DOMAIN acked : lines[pos[i]].hash = acked[i]
                        /\ \A i, j \in DOMAIN acked : i < j => pos[i] < pos[j]
    BY DEF VerifiedFileIsComplete
  <2>1. lines \in Seq(Record \union {Garbage}) /\ tail \in Seq(Record \union {Garbage})
        /\ synced \in 0 .. Len(lines)
    BY DEF TypeOK
  <2>3. DurableVerifies
    BY VerifiedPart
  <2>4. PICK pos \in [DOMAIN acked -> 1 .. synced] :
           /\ \A i \in DOMAIN acked : lines[pos[i]].hash = acked[i]
           /\ \A i, j \in DOMAIN acked : i < j => pos[i] < pos[j]
    BY <2>3 DEF CompleteInv, Placed
  <2>5. 1 .. synced \subseteq DOMAIN lines
    BY <2>1
  <2>6. pos \in [DOMAIN acked -> DOMAIN lines]
    BY <2>4, <2>5
  <2> QED
    BY <2>4, <2>6
<1> QED
  BY <1>1, <1>2, <1>3, PTL DEF Spec

-----------------------------------------------------------------------------
\* The hash of a line counts the lines up to it, and what was promised is durable.
CountInv ==
    /\ \A i \in DOMAIN lines : Len(lines[i].hash) = i
    /\ PromisedCount \in 0 .. synced

TrailInv == TypeOK /\ MutexInv /\ WholeLines /\ ChainInv /\ CountInv

\* What the refinement mapping makes of the file.
TrailNow == IF Writing THEN Bodies(lines) ELSE Bodies(ReadLines)

\* A write under way is not yet part of the trail, and nothing else is left out.
LEMMA TrailIsBodies == TypeOK /\ WholeLines => TrailNow = Bodies(lines)
<1> SUFFICES ASSUME TypeOK, WholeLines, ~Writing
             PROVE  ReadLines = lines
  BY DEF TrailNow
<1>1. tail = <<>>
  BY DEF WholeLines
<1> QED
  BY <1>1 DEF ReadLines, TypeOK

\* The bodies of whole lines are a sequence of the same length.
LEMMA BodiesType ==
    ASSUME NEW f \in Seq(Record)
    PROVE  /\ Bodies(f) \in Seq(Body) /\ Len(Bodies(f)) = Len(f)
           /\ \A i \in 1 .. Len(f) : Bodies(f)[i] = f[i].body
<1>1. ASSUME NEW i \in DOMAIN f
      PROVE  f[i].body \in Body
  <2>1. f[i] \in Record
    OBVIOUS
  <2> QED
    BY <2>1 DEF Record
<1>2. DOMAIN f = 1 .. Len(f) /\ Len(f) \in Nat
  OBVIOUS
<1>3. Bodies(f) \in [1 .. Len(f) -> Body]
  BY <1>1, <1>2 DEF Bodies
<1> QED
  BY <1>2, <1>3 DEF Bodies

\* One more line is one more body.
LEMMA BodiesAppend ==
    ASSUME NEW f \in Seq(Record), NEW r \in Record
    PROVE  Bodies(Append(f, r)) = Append(Bodies(f), r.body)
<1>1. Append(f, r) \in Seq(Record) /\ r.body \in Body
  BY DEF Record
<1> DEFINE a == Bodies(Append(f, r))
           b == Append(Bodies(f), r.body)
<1>2. a \in Seq(Body) /\ Len(a) = Len(f) + 1
      /\ \A i \in 1 .. Len(f) + 1 : a[i] = Append(f, r)[i].body
  <2>1. PICK g \in Seq(Record) : g = Append(f, r)
    BY <1>1, Zenon
  <2>2. Len(g) = Len(f) + 1
    BY <2>1
  <2> QED
    BY <2>1, <2>2, BodiesType, Zenon
<1>3. b \in Seq(Body) /\ Len(b) = Len(f) + 1 /\ b[Len(f) + 1] = r.body
      /\ \A i \in 1 .. Len(f) : b[i] = f[i].body
  BY <1>1, BodiesType
<1> HIDE DEF a, b
<1>4. \A i \in 1 .. Len(f) + 1 : a[i] = b[i]
  BY <1>1, <1>2, <1>3
<1>5. a = b
  BY <1>2, <1>3, <1>4
<1> QED
  BY <1>5 DEF a, b

\* Fewer lines are fewer bodies.
LEMMA BodiesPrefix ==
    ASSUME NEW f \in Seq(Record), NEW k \in 0 .. Len(f)
    PROVE  Bodies(SubSeq(f, 1, k)) = SubSeq(Bodies(f), 1, k)
<1> DEFINE a == Bodies(SubSeq(f, 1, k))
           b == SubSeq(Bodies(f), 1, k)
<1>1. SubSeq(f, 1, k) \in Seq(Record) /\ Len(SubSeq(f, 1, k)) = k
      /\ \A i \in 1 .. k : SubSeq(f, 1, k)[i] = f[i]
  OBVIOUS
<1>2. a \in Seq(Body) /\ Len(a) = k /\ \A i \in 1 .. k : a[i] = f[i].body
  BY <1>1, BodiesType, Zenon
<1>3. b \in Seq(Body) /\ Len(b) = k /\ \A i \in 1 .. k : b[i] = f[i].body
  BY BodiesType
<1> HIDE DEF a, b
<1>4. a = b
  BY <1>2, <1>3
<1> QED
  BY <1>4 DEF a, b

\* Complete lines are records, as long as writes are not torn.
LEMMA LinesType == TypeOK /\ WholeLines => lines \in Seq(Record)
<1> SUFFICES ASSUME TypeOK, WholeLines
             PROVE  lines \in Seq(Record)
  OBVIOUS
<1>1. lines \in Seq(Record \union {Garbage}) /\ \A i \in DOMAIN lines : lines[i] # Garbage
  BY DEF TypeOK, WholeLines
<1>2. \A i \in 1 .. Len(lines) : lines[i] \in Record
  BY <1>1
<1> QED
  BY <1>1, <1>2

\* Hashes keep counting, and a promise is only made of what was fsynced.
LEMMA CountStep ==
    ASSUME Faults \intersect {"torn", "sync"} = {}
    PROVE  TrailInv /\ [Next]_vars => CountInv'
<1> SUFFICES ASSUME TrailInv, [Next]_vars
             PROVE  CountInv'
  OBVIOUS
<1> USE NoProcAssumption DEF TrailInv
<1>1. lines \in Seq(Record) /\ synced \in 0 .. Len(lines) /\ lastHash \in Hash
  BY LinesType DEF TypeOK
<1>2. ASSUME UNCHANGED <<lines, acked>>, synced' \in {synced, Len(lines)}
      PROVE  CountInv'
  BY <1>1, <1>2 DEF CountInv, PromisedCount
<1>3. ASSUME NEW p \in Proc, AppendWriteEnds(p)
      PROVE  CountInv'
  <2> DEFINE r == Chained(lastHash, body[p])
  <2>1. pc[p] = "writing" /\ status = "up" /\ \A q \in Proc : pc[q] # "written"
    BY <1>3 DEF AppendWriteEnds, WholeLines, TypeOK, MutexInv, Critical
  <2>2. lines' = Append(lines, r) /\ UNCHANGED <<acked, synced>>
    BY <1>3, <2>1 DEF AppendWriteEnds
  <2>3. r \in Record /\ r.hash = Append(lastHash, body[p]) /\ body[p] \in Body
    BY <1>1, ChainedType DEF Chained, computeHash, TypeOK
  <2>4. Len(lastHash) = Len(lines)
    <3>1. lastHash = RecoveredHash(lines)
      BY <2>1 DEF ChainInv
    <3>2. CASE lines = <<>>
      BY <3>1, <3>2 DEF RecoveredHash, Genesis
    <3>3. CASE lines # <<>>
      <4>1. Len(lines) \in DOMAIN lines
        BY <1>1, <3>3
      <4> QED
        BY <3>1, <3>3, <4>1 DEF RecoveredHash, CountInv
    <3> QED
      BY <3>2, <3>3
  <2>5. Len(r.hash) = Len(lines) + 1
    BY <1>1, <2>3, <2>4 DEF Hash
  <2> HIDE DEF r
  <2>6. \A i \in DOMAIN lines' : Len(lines'[i].hash) = i
    BY <1>1, <2>2, <2>3, <2>5 DEF CountInv
  <2> QED
    BY <2>2, <2>6 DEF CountInv, PromisedCount
<1>4. ASSUME NEW p \in Proc, AppendSync(p)
      PROVE  CountInv'
  <2>1. Len(lines) > 0 /\ lines[Len(lines)] = Chained(lastHash, body[p])
        /\ UNCHANGED lines /\ synced' = Len(lines)
    BY <1>4 DEF AppendSync, WholeLines
  <2>2. Len(lines[Len(lines)].hash) = Len(lines)
    <3>1. Len(lines) \in DOMAIN lines
      BY <1>1, <2>1
    <3> QED
      BY <3>1 DEF CountInv
  <2>3. Len(computeHash(lastHash, body[p])) = Len(lines)
    BY <2>1, <2>2 DEF Chained
  <2>4. acked' = Append(acked, computeHash(lastHash, body[p])) /\ acked \in Seq(Hash)
        /\ computeHash(lastHash, body[p]) \in Hash
    BY <1>1, <1>4, ChainedType DEF AppendSync, TypeOK
  <2>5. acked' # <<>> /\ acked'[Len(acked')] = computeHash(lastHash, body[p])
    BY <2>4
  <2>6. PromisedCount' = Len(lines)
    BY <2>3, <2>5 DEF PromisedCount
  <2> QED
    BY <1>1, <2>1, <2>6 DEF CountInv
<1>5. CASE PowerLoss
  <2>1. PICK k \in synced .. Len(lines) : lines' = SubSeq(lines, 1, k) /\ synced' = k
    BY <1>5 DEF PowerLoss
  <2>2. acked' = acked
    BY <1>5 DEF PowerLoss
  <2>3. \A i \in DOMAIN lines' : i \in DOMAIN lines /\ lines'[i] = lines[i]
    BY <1>1, <2>1, SMTT(30)
  <2> QED
    BY <1>1, <2>1, <2>2, <2>3 DEF CountInv, PromisedCount
<1>6. ASSUME NEW p \in Proc, Step(p), ~AppendWriteEnds(p), ~AppendSync(p)
      PROVE  UNCHANGED <<lines, acked, synced>>
  BY <1>6 DEF Step, AppendLock, AppendOpenFails, AppendWriteBegins,
     AppendWriteFails, AppendSyncFails
<1>7. ASSUME NEW p \in Proc, NEW b \in Body, AppendCall(p, b)
      PROVE  UNCHANGED <<lines, acked, synced>>
  BY <1>7 DEF AppendCall
<1>8. CASE Check \/ Crash \/ NewFileStore \/ UNCHANGED vars
  BY <1>2, <1>8 DEF Check, Crash, NewFileStore, vars
<1> QED
  BY <1>2, <1>3, <1>4, <1>5, <1>6, <1>7, <1>8 DEF Next

\* Every step of the store is a step of the trail or leaves it alone: the end of
\* a write logs, an fsync promises, a power loss takes back, nothing else counts.
LEMMA TrailStep ==
    TrailInv /\ TrailInv' /\ [Next]_vars => [Trail!TrailNext]_(Trail!trailVars)
<1> SUFFICES ASSUME TrailInv, TrailInv', [Next]_vars
             PROVE  [Trail!TrailNext]_(Trail!trailVars)
  OBVIOUS
<1>1. TrailNow = Bodies(lines)
  BY TrailIsBodies DEF TrailInv
<1>2. TrailNow' = Bodies(lines')
  <2>1. ~Writing' => ReadLines' = lines'
    <3>1. ~Writing' => tail' = <<>>
      BY DEF TrailInv, WholeLines
    <3>2. lines' \in Seq(Record \union {Garbage})
      BY DEF TrailInv, TypeOK
    <3> QED
      BY <3>1, <3>2, SMTT(30) DEF ReadLines
  <2> QED
    BY <2>1 DEF TrailNow, Bodies
<1>3. lines \in Seq(Record) /\ synced \in 0 .. Len(lines)
  BY LinesType DEF TrailInv, TypeOK
<1>4. ASSUME NEW p \in Proc, AppendWriteEnds(p)
      PROVE  Trail!TrailNext
  <2>1. pc[p] = "writing" /\ body[p] \in Body
    BY <1>4 DEF AppendWriteEnds, TrailInv, WholeLines, TypeOK
  <2>2. lines' = Append(lines, Chained(lastHash, body[p])) /\ acked' = acked
    BY <1>4, <2>1 DEF AppendWriteEnds
  <2>3. Chained(lastHash, body[p]) \in Record /\ Chained(lastHash, body[p]).body = body[p]
    BY <2>1, ChainedType DEF TrailInv, TypeOK, Chained
  <2>4. Bodies(lines') = Append(Bodies(lines), body[p])
    BY <1>3, <2>2, <2>3, BodiesAppend
  <2>5. PromisedCount' = PromisedCount
    BY <2>2 DEF PromisedCount
  <2>6. TrailNow' = Append(TrailNow, body[p])
    BY <1>1, <1>2, <2>4
  <2>7. Trail!Log(body[p])
    BY <2>5, <2>6 DEF TrailNow, Trail!Log
  <2> QED
    BY <2>1, <2>7, SMTT(30) DEF Trail!TrailNext
<1>5. ASSUME NEW p \in Proc, AppendSync(p)
      PROVE  Trail!TrailNext
  <2>1. Len(lines) > 0 /\ lines[Len(lines)] = Chained(lastHash, body[p])
        /\ UNCHANGED lines
    BY <1>5 DEF AppendSync, TrailInv, WholeLines
  <2>2. Len(lines[Len(lines)].hash) = Len(lines)
    <3>1. Len(lines) \in DOMAIN lines
      BY <1>3, <2>1
    <3> QED
      BY <3>1 DEF TrailInv, CountInv
  <2>3. Len(computeHash(lastHash, body[p])) = Len(lines)
    BY <2>1, <2>2 DEF Chained
  <2>4. acked' = Append(acked, computeHash(lastHash, body[p])) /\ acked \in Seq(Hash)
        /\ computeHash(lastHash, body[p]) \in Hash
    BY <1>5, ChainedType DEF AppendSync, TrailInv, TypeOK
  <2>5. acked' # <<>> /\ acked'[Len(acked')] = computeHash(lastHash, body[p])
    BY <2>4
  <2>6. PromisedCount' = Len(lines)
    BY <2>3, <2>5 DEF PromisedCount
  <2>7. TrailNow' = TrailNow /\ PromisedCount' = Len(TrailNow)
    BY <1>1, <1>2, <1>3, <2>1, <2>6, BodiesType
  <2>8. Trail!Promise
    BY <2>7 DEF TrailNow, Trail!Promise
  <2> QED
    BY <2>8 DEF Trail!TrailNext
<1>6. CASE PowerLoss
  <2>1. PICK k \in synced .. Len(lines) : lines' = SubSeq(lines, 1, k)
    BY <1>6 DEF PowerLoss
  <2>2. PromisedCount' = PromisedCount /\ PromisedCount \in 0 .. synced
    BY <1>6 DEF PowerLoss, PromisedCount, TrailInv, CountInv
  <2>3. k \in 0 .. Len(lines) /\ k \in PromisedCount .. Len(lines)
    BY <1>3, <2>1, <2>2
  <2>4. TrailNow' = SubSeq(TrailNow, 1, k) /\ Len(TrailNow) = Len(lines)
    BY <1>1, <1>2, <1>3, <2>1, <2>3, BodiesPrefix, BodiesType, SMTT(30)
  <2>5. Trail!Lose
    BY <2>2, <2>3, <2>4 DEF TrailNow, Trail!Lose
  <2> QED
    BY <2>5 DEF Trail!TrailNext
<1>7. ASSUME UNCHANGED <<lines, acked>>
      PROVE  UNCHANGED Trail!trailVars
  <2>1. TrailNow' = TrailNow /\ PromisedCount' = PromisedCount
    BY <1>1, <1>2, <1>7 DEF PromisedCount, Bodies
  <2> QED
    BY <2>1 DEF TrailNow, Trail!trailVars
<1>8. ASSUME NEW p \in Proc, Step(p), ~AppendWriteEnds(p), ~AppendSync(p)
      PROVE  UNCHANGED <<lines, acked>>
  BY <1>8 DEF Step, AppendLock, AppendOpenFails, AppendWriteBegins,
     AppendWriteFails, AppendSyncFails
<1>9. ASSUME NEW p \in Proc, NEW b \in Body, AppendCall(p, b)
      PROVE  UNCHANGED <<lines, acked>>
  BY <1>9 DEF AppendCall
<1>10. CASE Check \/ Crash \/ NewFileStore \/ UNCHANGED vars
  BY <1>7, <1>10 DEF Check, Crash, NewFileStore, vars
<1> QED
  BY <1>4, <1>5, <1>6, <1>7, <1>8, <1>9, <1>10 DEF Next

\* All of file_store.go: if writes are not torn and fsync does not fail, the log
\* is an append-only trail that loses nothing it acknowledged, for any number of
\* goroutines and restarts.
THEOREM StoreImplementsTrail ==
    ASSUME Faults \intersect {"torn", "sync"} = {}
    PROVE  Spec => ImplementsTrail
<1>1. Init => TrailInv
  BY NoProcAssumption
     DEF Init, TrailInv, TypeOK, MutexInv, WholeLines, ChainInv, CountInv, Verify,
         RecoveredHash, PromisedCount, Writing, Critical, Genesis, Hash
<1>2. TrailInv /\ [Next]_vars => TrailInv'
  BY TypeStep, MutexStep, WholeStep, ChainStep, CountStep DEF TrailInv
<1>3. Init => Trail!TrailInit
  <2> SUFFICES ASSUME Init
               PROVE  Bodies(lines) = <<>> /\ Bodies(ReadLines) = <<>> /\ PromisedCount = 0
    BY DEF Trail!TrailInit
  <2>1. lines = <<>> /\ ReadLines = <<>> /\ acked = <<>>
    BY DEF Init, ReadLines
  <2> QED
    BY <2>1 DEF Bodies, PromisedCount
<1> QED
  BY <1>1, <1>2, <1>3, TrailStep, PTL DEF Spec, ImplementsTrail, Trail!TrailSpec
=============================================================================
