----------------------------- MODULE FileStore ------------------------------
(***************************************************************************)
(* pkg/audit/file_store.go: the hash-chained, fsynced audit log, shared by *)
(* concurrent request goroutines, the health probe and the verify-chain    *)
(* command, with the failures a file system can hand it.                   *)
(*                                                                         *)
(* A SHA-256 over (contents, prev_hash) is modelled as a collision-free    *)
(* function of the two: the sequence of all bodies up to and including the *)
(* record.  The hash of "no record" is the empty sequence.                 *)
(***************************************************************************)
EXTENDS Naturals, Sequences

CONSTANTS Proc,      \* goroutines that append
          Body,      \* contents of a record (everything but its two hashes)
          Garbage,   \* a line, or a piece of one, that is not a JSON record
          Long,      \* contents whose line overflows NewFileStore's scanner
          NoProc,    \* mu when nobody holds it
          Faults,    \* which of the failures below the environment produces
          MaxLines   \* bound: lines in the file

FaultKinds == {"open",       \* open, or a write of zero bytes, fails
               "torn",       \* a write stops part way (error or crash)
               "sync",       \* fsync fails after the write
               "crash",      \* the process dies
               "powerloss"}  \* the machine dies: unsynced lines may be lost

ASSUME FaultsAssumption == Faults \subseteq FaultKinds
ASSUME LongAssumption == Long \subseteq Body
ASSUME NoProcAssumption == NoProc \notin Proc
ASSUME GarbageAssumption == Garbage \notin [prev : Seq(Body), body : Body, hash : Seq(Body)]
ASSUME MaxLinesAssumption == MaxLines \in Nat

VARIABLES lines,     \* the complete (newline-terminated) lines of the file
          tail,      \* <<>>, or <<x>>: bytes after the last newline
          synced,    \* how many complete lines are on stable storage
          mu,        \* holder of FileStore.mu
          lastHash,  \* FileStore.lastHash
          status,    \* "up", "down" or "refused" (NewFileStore failed)
          pc,        \* where each goroutine is in Append
          body,      \* the record each goroutine is appending
          acked      \* history: hashes of the records Append reported durable

vars == <<lines, tail, synced, mu, lastHash, status, pc, body, acked>>

-----------------------------------------------------------------------------
Hash == Seq(Body)
Genesis == <<>>

\* A line as it is read back: either a record with its two hashes or garbage.
Record == [prev : Hash, body : Body, hash : Hash]

computeHash(prev, b) == Append(prev, b)

\* The record Append builds for body b on top of tail hash h.
Chained(h, b) == [prev |-> h, body |-> b, hash |-> computeHash(h, b)]

\* What a reader of the file sees: an unterminated tail is one more line.
ReadLines == lines \o tail

Parses(f) == \A i \in DOMAIN f : f[i] # Garbage

\* NewFileStore reads f to its end: every line parses and fits the scanner's
\* buffer, a limit that neither Append nor Verify has.
Recovers(f) == Parses(f) /\ \A i \in DOMAIN f : f[i].body \notin Long

\* Line i of f passes Verify's three checks.
LineOK(f, i) ==
    /\ f[i] # Garbage
    /\ f[i].prev = (IF i = 1 THEN Genesis ELSE f[i - 1].hash)
    /\ f[i].hash = computeHash(f[i].prev, f[i].body)

\* Verify returns nil: no line breaks the chain.
Verify(f) == \A i \in DOMAIN f : LineOK(f, i)

\* The tail hash NewFileStore recovers from f: that of the last line, unchecked.
RecoveredHash(f) == IF f = <<>> THEN Genesis ELSE f[Len(f)].hash

-----------------------------------------------------------------------------
Init ==
    /\ lines = <<>> /\ tail = <<>> /\ synced = 0
    /\ mu = NoProc /\ lastHash = Genesis /\ status = "up"
    /\ pc = [p \in Proc |-> "idle"]
    /\ body \in [Proc -> Body]
    /\ acked = <<>>

\* A goroutine enters Append(rec) and waits for the mutex.
AppendCall(p, b) ==
    /\ status = "up" /\ pc[p] = "idle"
    /\ Len(lines) < MaxLines
    /\ pc' = [pc EXCEPT ![p] = "wait"]
    /\ body' = [body EXCEPT ![p] = b]
    /\ UNCHANGED <<lines, tail, synced, mu, lastHash, status, acked>>

AppendLock(p) ==
    /\ pc[p] = "wait" /\ mu = NoProc
    /\ mu' = p
    /\ pc' = [pc EXCEPT ![p] = "locked"]
    /\ UNCHANGED <<lines, tail, synced, lastHash, status, body, acked>>

\* Append returns and the deferred Unlock runs.
Return(p) ==
    /\ mu' = NoProc
    /\ pc' = [pc EXCEPT ![p] = "idle"]

\* Mutant: lastHash has already advanced when the file cannot be opened.
AppendOpenFailsLate(p) ==
    /\ "open" \in Faults
    /\ pc[p] = "locked"
    /\ lastHash' = computeHash(lastHash, body[p])
    /\ Return(p)
    /\ UNCHANGED <<lines, tail, synced, status, body, acked>>

\* Mutant: an early return without Unlock.
AppendOpenFailsLocked(p) ==
    /\ "open" \in Faults
    /\ pc[p] = "locked"
    /\ pc' = [pc EXCEPT ![p] = "idle"]
    /\ UNCHANGED <<lines, tail, synced, mu, lastHash, status, body, acked>>

\* Marshalling, opening the file or the write itself fails with nothing written.
AppendOpenFails(p) ==
    /\ "open" \in Faults
    /\ pc[p] = "locked"
    /\ Return(p)
    /\ UNCHANGED <<lines, tail, synced, lastHash, status, body, acked>>

\* The write is under way: some bytes are in the file, maybe all but the
\* newline.  On top of an unterminated tail they only lengthen that tail.
AppendWriteBegins(p) ==
    /\ pc[p] = "locked"
    /\ \/ /\ tail = <<>>
          /\ tail' \in {<<Garbage>>, <<Chained(lastHash, body[p])>>}
          /\ pc' = [pc EXCEPT ![p] = "writing"]
       \/ /\ tail # <<>>
          /\ tail' = <<Garbage>>
          /\ pc' = [pc EXCEPT ![p] = "gluing"]
    /\ UNCHANGED <<lines, synced, mu, lastHash, status, body, acked>>

\* Mutant: the line is written without its newline.
AppendWriteNoNewline(p) ==
    /\ pc[p] \in {"writing", "gluing"}
    /\ tail' = IF pc[p] = "writing" THEN <<Chained(lastHash, body[p])>> ELSE <<Garbage>>
    /\ pc' = [pc EXCEPT ![p] = "written"]
    /\ UNCHANGED <<lines, synced, mu, lastHash, status, body, acked>>

\* The rest of the line reaches the file, newline included.
AppendWriteEnds(p) ==
    /\ pc[p] \in {"writing", "gluing"}
    /\ lines' = Append(lines, IF pc[p] = "writing"
                              THEN Chained(lastHash, body[p]) ELSE Garbage)
    /\ tail' = <<>>
    /\ pc' = [pc EXCEPT ![p] = "written"]
    /\ UNCHANGED <<synced, mu, lastHash, status, body, acked>>

\* The write stops part way (a full disk): Append returns the error and
\* leaves the bytes where they are.
AppendWriteFails(p) ==
    /\ "torn" \in Faults
    /\ pc[p] \in {"writing", "gluing"}
    /\ Return(p)
    /\ UNCHANGED <<lines, tail, synced, lastHash, status, body, acked>>

\* Mutant: the fsync is missing.
AppendNoSync(p) ==
    /\ pc[p] = "written"
    /\ lastHash' = computeHash(lastHash, body[p])
    /\ acked' = Append(acked, lastHash')
    /\ Return(p)
    /\ UNCHANGED <<lines, tail, synced, status, body>>

\* fsync succeeds: only now lastHash advances and Append returns nil.
AppendSync(p) ==
    /\ pc[p] = "written"
    /\ synced' = Len(lines)
    /\ lastHash' = computeHash(lastHash, body[p])
    /\ acked' = Append(acked, lastHash')
    /\ Return(p)
    /\ UNCHANGED <<lines, tail, status, body>>

\* fsync fails: Append returns the error, the line stays in the file.
AppendSyncFails(p) ==
    /\ "sync" \in Faults
    /\ pc[p] = "written"
    /\ Return(p)
    /\ UNCHANGED <<lines, tail, synced, lastHash, status, body, acked>>

\* The health probe: under the same mutex, open and fsync without writing.
\* Its fsync makes whatever is in the file durable; a failure changes nothing.
Check ==
    /\ status = "up" /\ mu = NoProc
    /\ synced' \in {Len(lines)} \union
                   (IF Faults \intersect {"open", "sync"} # {} THEN {synced} ELSE {})
    /\ UNCHANGED <<lines, tail, mu, lastHash, status, pc, body, acked>>

-----------------------------------------------------------------------------
Writing == \E p \in Proc : pc[p] \in {"writing", "gluing"}

\* The process dies with everything in memory; the file keeps what was written.
Crash ==
    /\ "crash" \in Faults
    /\ status = "up"
    /\ "torn" \in Faults \/ ~Writing
    /\ status' = "down"
    /\ mu' = NoProc /\ lastHash' = Genesis
    /\ pc' = [p \in Proc |-> "idle"]
    /\ UNCHANGED <<lines, tail, synced, body, acked>>

\* The machine dies: lines that were not fsynced may be gone, the first lost
\* one may be left torn.
PowerLoss ==
    /\ "powerloss" \in Faults
    /\ status # "refused"
    /\ "torn" \in Faults \/ ~Writing
    /\ \E k \in synced .. Len(lines) :
          /\ lines' = SubSeq(lines, 1, k)
          /\ synced' = k
          /\ tail' \in {<<>>} \union (IF k = Len(lines) THEN {tail} ELSE {})
                              \union (IF "torn" \in Faults /\ k < Len(lines)
                                      THEN {<<Garbage>>} ELSE {})
    /\ status' = "down"
    /\ mu' = NoProc /\ lastHash' = Genesis
    /\ pc' = [p \in Proc |-> "idle"]
    /\ UNCHANGED <<body, acked>>

\* Mutant: a restart begins a chain of its own.
NewFileStoreFresh ==
    /\ status = "down"
    /\ status' = "up" /\ lastHash' = Genesis
    /\ UNCHANGED <<lines, tail, synced, mu, pc, body, acked>>

\* NewFileStore on the next start: every line must be read; the tail hash is the
\* hash field of the last one.  (A start that cannot open the file changes
\* nothing, and is tried again.)
NewFileStore ==
    /\ status = "down"
    /\ IF Recovers(ReadLines)
       THEN status' = "up" /\ lastHash' = RecoveredHash(ReadLines)
       ELSE status' = "refused" /\ UNCHANGED lastHash
    /\ UNCHANGED <<lines, tail, synced, mu, pc, body, acked>>

-----------------------------------------------------------------------------
Step(p) ==
    \/ AppendLock(p) \/ AppendOpenFails(p)
    \/ AppendWriteBegins(p) \/ AppendWriteEnds(p) \/ AppendWriteFails(p)
    \/ AppendSync(p) \/ AppendSyncFails(p)

Next ==
    \/ \E p \in Proc : Step(p) \/ (\E b \in Body : AppendCall(p, b))
    \/ Check \/ Crash \/ PowerLoss \/ NewFileStore

Spec == Init /\ [][Next]_vars

-----------------------------------------------------------------------------
\* The types of the variables.
TypeOK ==
    /\ lines \in Seq(Record \union {Garbage})
    /\ tail \in Seq(Record \union {Garbage})
    /\ synced \in 0 .. Len(lines)
    /\ mu \in Proc \union {NoProc}
    /\ lastHash \in Hash
    /\ status \in {"up", "down", "refused"}
    /\ pc \in [Proc -> {"idle", "wait", "locked", "writing", "gluing", "written"}]
    /\ body \in [Proc -> Body]
    /\ acked \in Seq(Hash)

\* Append links every record to the record before it: whenever no write is
\* under way the file passes Verify (file_store.go, Append and Verify).
ChainIntact == ~Writing => Verify(ReadLines)

\* A record whose Append returned nil can be read back from the part of the
\* file that survives a power loss (file_store.go, the fsync in Append).
AckedDurable ==
    \A i \in DOMAIN acked : \E j \in 1 .. synced :
        lines[j] # Garbage /\ lines[j].hash = acked[i]

\* Whatever failures happened, a file that passes Verify holds every
\* acknowledged record, in the order they were acknowledged (Append, Verify).
VerifiedFileIsComplete ==
    Verify(ReadLines) =>
        \E pos \in [DOMAIN acked -> DOMAIN lines] :
            /\ \A i \in DOMAIN acked : lines[pos[i]].hash = acked[i]
            /\ \A i, j \in DOMAIN acked : i < j => pos[i] < pos[j]

\* Without torn writes a restart continues the file it finds, unless that holds
\* a record longer than the scanner's buffer (file_store.go, NewFileStore).
RestartContinues ==
    status = "refused" => \E i \in DOMAIN ReadLines :
        ReadLines[i] # Garbage /\ ReadLines[i].body \in Long

\* The abstract trail: the bodies in the file, and how many were acknowledged.
Bodies(f) == [i \in DOMAIN f |-> f[i].body]

PromisedCount == IF acked = <<>> THEN 0 ELSE Len(acked[Len(acked)])

Trail == INSTANCE AuditTrail WITH
             trail <- IF Writing THEN Bodies(lines) ELSE Bodies(ReadLines),
             promised <- PromisedCount

\* Without torn writes and failed fsyncs the store is an append-only trail that
\* keeps what it acknowledged (all of file_store.go).
ImplementsTrail == Trail!TrailSpec
=============================================================================
