--------------------------- MODULE PolicyService ----------------------------
(***************************************************************************)
(* pkg/policyservice and pkg/policy: a policy bundle on disk that an       *)
(* operator edits and signs, the VerifyingLoader that checks it against    *)
(* its manifest and has the OPADecider compile it, at startup and on every *)
(* SIGHUP, and requests that decide with the compiled policy and stamp     *)
(* their record with the loader's active bundle reference.                 *)
(*                                                                         *)
(* Neither the verification nor the compilation reads the directory at     *)
(* once: each reads it file by file while the operator may be writing.  A  *)
(* digest is modelled by what it covers, a signature by key and payload.   *)
(***************************************************************************)
EXTENDS Integers, FiniteSets

CONSTANTS Loader,     \* goroutines that call Load or Reload (serve has one)
          Request,    \* requests that are decided and recorded
          File,       \* file names in the bundle directory
          Content,    \* what a file may hold
          Absent,     \* content of a file that is not there
          Broken,     \* contents that do not compile
          Version,    \* bundle versions
          Key, Pub,   \* signing keys; the configured public key's one
          None,       \* no manifest, no policy, no reference, no stamp
          MaxEdits    \* bound: operator edits

ASSUME FilesAssumption == IsFiniteSet(File)
ASSUME ContentAssumption == Absent \notin Content /\ Broken \subseteq Content
ASSUME KeyAssumption == Pub \in Key
ASSUME EditsAssumption == MaxEdits \in Nat

Bundle == [File -> Content \union {Absent}]
Payload == [version : Version, files : Bundle]
Manifest == [keyId : Key, payload : Payload, sig : [key : Key, payload : Payload]]

ASSUME NoneAssumption ==
    None \notin Bundle \union Payload \union Manifest \union Content \union {Absent}

VARIABLES disk,      \* the bundle directory
          manifest,  \* the manifest file
          edits,     \* operator edits so far
          signed,    \* the configuration: policy.signature is set
          prepared,  \* OPADecider.prepared: the files it was compiled from
          active,    \* VerifyingLoader.active
          status,    \* "starting", "up" or "exited"
          hup,       \* the reload channel holds a signal
          lpc,       \* where each loader is
          ref,       \* the manifest a loader has read
          read,      \* files a loader has read in this pass, None elsewhere
          rpc,       \* where each request is
          by,        \* the policy a request was decided by
          stamp,     \* the reference its record carries
          issued,    \* history: payloads ever signed with the configured key
          before,    \* history: prepared, active and edits when a load began
          failed,    \* history: loaders whose last load returned an error
          asked,     \* history: a SIGHUP no reload has begun after
          overtaken, \* history: an edit met the load that compiled the policy
          crossed    \* history: what met the request, a "swap" of the policy
                     \* or an "edit" of the bundle as its policy was read

env == <<disk, manifest, edits, issued, signed>>
loader == <<prepared, active, lpc, ref, read, before, failed>>
requests == <<rpc, by, stamp, crossed, overtaken>>
vars == <<env, loader, requests, status, hup, asked>>

-----------------------------------------------------------------------------
\* Sign: the manifest over the files on disk; an empty bundle is refused.
NonEmpty(d) == \E f \in File : d[f] # Absent

Sign(d, v, k) ==
    LET p == [version |-> v, files |-> d]
    IN  [keyId |-> k, payload |-> p, sig |-> [key |-> k, payload |-> p]]

\* Mutant: the signature itself is not checked.
VerifyUnsigned(m, inventory) ==
    m # None /\ m.keyId = Pub /\ inventory = m.payload.files

\* Verify: signed, by the configured key, over this payload, and the inventory
\* has the signed files, no other ones, and each with the signed content.
Verify(m, inventory) ==
    /\ m # None
    /\ m.keyId = Pub
    /\ m.sig = [key |-> Pub, payload |-> m.payload]
    /\ inventory = m.payload.files

\* rego.Load and PrepareForEval succeed: no file is broken.  A directory without
\* files compiles too, to a policy that decides nothing.
Compiles(files) == \A f \in File : files[f] \notin Broken

Unread == [f \in File |-> None]
Idle == \A l \in Loader : lpc[l] = "idle"

Init ==
    /\ signed \in BOOLEAN
    /\ \E d \in Bundle, v \in Version :
          /\ disk = d
          /\ manifest \in {None, Sign(d, v, Pub)}
          /\ manifest # None => signed /\ NonEmpty(d)
          /\ issued = IF manifest = None THEN {} ELSE {manifest.payload}
    /\ edits = 0
    /\ prepared = None /\ active = None
    /\ status = "starting" /\ hup = FALSE /\ asked = FALSE
    /\ lpc = [l \in Loader |-> "idle"]
    /\ ref = [l \in Loader |-> None]
    /\ read = [l \in Loader |-> Unread]
    /\ before = [l \in Loader |-> <<None, None, 0>>]
    /\ failed = {}
    /\ rpc = [r \in Request |-> "idle"]
    /\ by = [r \in Request |-> None]
    /\ stamp = [r \in Request |-> None]
    /\ crossed = [r \in Request |-> {}] /\ overtaken = FALSE

-----------------------------------------------------------------------------
\* The operator.
MayEdit ==
    /\ edits < MaxEdits
    /\ edits' = edits + 1
    /\ UNCHANGED <<signed, loader, requests, status, hup, asked>>

EditFile(f, x) ==
    /\ MayEdit /\ x # disk[f]
    /\ disk' = [disk EXCEPT ![f] = x]
    /\ UNCHANGED <<manifest, issued>>

\* policy sign: Sign and WriteManifest.
runPolicySign(v, k) ==
    /\ MayEdit /\ NonEmpty(disk)
    /\ manifest' = Sign(disk, v, k)
    /\ issued' = IF k = Pub THEN issued \union {[version |-> v, files |-> disk]}
                 ELSE issued
    /\ UNCHANGED disk

\* A manifest that is missing or half-written, or whose version was changed
\* by hand.
EditManifest ==
    /\ MayEdit /\ manifest # None
    /\ \/ manifest' = None
       \/ \E v \in Version : manifest' = [manifest EXCEPT !.payload.version = v]
    /\ UNCHANGED <<disk, issued>>

\* The runtime puts the signal into a channel of one place, or drops it.
SIGHUP ==
    /\ status = "up" /\ hup' = TRUE /\ asked' = TRUE
    /\ UNCHANGED <<env, loader, requests, status>>

-----------------------------------------------------------------------------
\* VerifyingLoader.Load, or OPADecider.Load where no signature is configured:
\* at startup, and then from the goroutine that drains the signal channel.
Load(l) ==
    /\ lpc[l] = "idle"
    /\ \/ status = "starting" /\ Idle /\ UNCHANGED <<hup, asked>>
       \/ status = "up" /\ hup /\ hup' = FALSE /\ asked' = FALSE
    /\ lpc' = [lpc EXCEPT ![l] = IF signed THEN "manifest" ELSE "compile"]
    /\ read' = [read EXCEPT ![l] = Unread]
    /\ before' = [before EXCEPT ![l] = <<prepared, active, edits>>]
    /\ failed' = failed \ {l}
    /\ UNCHANGED <<env, requests, status, prepared, active, ref>>

\* Mutant: the reload goroutine ends with the first error.
LoadFailsForGood(l) ==
    /\ lpc' = [lpc EXCEPT ![l] = "stopped"]
    /\ failed' = failed \union {l}
    /\ status' = IF status = "starting" THEN "exited" ELSE status
    /\ UNCHANGED <<env, requests, hup, asked, prepared, active, ref, read, before>>

\* Load returned an error: serve exits at startup; a reload is only logged.
LoadFails(l) ==
    /\ lpc' = [lpc EXCEPT ![l] = "idle"]
    /\ failed' = failed \union {l}
    /\ status' = IF status = "starting" THEN "exited" ELSE status
    /\ UNCHANGED <<env, requests, hup, asked, prepared, active, ref, read, before>>

ReadManifest(l) ==
    /\ lpc[l] = "manifest"
    /\ \/ manifest = None /\ LoadFails(l)
       \/ /\ manifest # None
          /\ ref' = [ref EXCEPT ![l] = manifest]
          /\ lpc' = [lpc EXCEPT ![l] = "inventory"]
          /\ UNCHANGED <<env, requests, status, hup, asked, prepared, active,
                         read, before, failed>>

\* inventory, and rego.Load: the next file.
ReadFile(l, f) ==
    /\ lpc[l] \in {"inventory", "compile"} /\ read[l][f] = None
    /\ read' = [read EXCEPT ![l][f] = disk[f]]
    /\ UNCHANGED <<env, requests, status, hup, asked, prepared, active, lpc, ref,
                   before, failed>>

AllRead(l) == \A f \in File : read[l][f] # None

\* Mutant: active is set as soon as the bundle verifies.
VerifyBundleActivates(l) ==
    /\ lpc[l] = "inventory" /\ AllRead(l)
    /\ \/ ~Verify(ref[l], read[l]) /\ LoadFails(l)
       \/ /\ Verify(ref[l], read[l])
          /\ active' = ref[l].payload
          /\ lpc' = [lpc EXCEPT ![l] = "compile"]
          /\ read' = [read EXCEPT ![l] = Unread]
          /\ UNCHANGED <<env, requests, status, hup, asked, prepared, ref,
                         before, failed>>

VerifyBundle(l) ==
    /\ lpc[l] = "inventory" /\ AllRead(l)
    /\ \/ ~Verify(ref[l], read[l]) /\ LoadFails(l)
       \/ /\ Verify(ref[l], read[l])
          /\ lpc' = [lpc EXCEPT ![l] = "compile"]
          /\ read' = [read EXCEPT ![l] = Unread]
          /\ UNCHANGED <<env, requests, status, hup, asked, prepared, active,
                         ref, before, failed>>

\* OPADecider.Load: compile, then swap the prepared query under the lock.
Compile(l) ==
    /\ lpc[l] = "compile" /\ AllRead(l)
    /\ \/ ~Compiles(read[l]) /\ LoadFails(l)
       \/ /\ Compiles(read[l])
          /\ prepared' = read[l]
          /\ lpc' = [lpc EXCEPT ![l] = IF signed THEN "activate" ELSE "idle"]
          /\ status' = IF signed THEN status ELSE "up"
          /\ crossed' = [r \in Request |-> crossed[r] \union
                           {x \in {"swap"} : rpc[r] = "decided"}]
          /\ overtaken' = (edits # before[l][3])
          /\ UNCHANGED <<env, hup, asked, active, ref, read, before, failed,
                         rpc, by, stamp>>

\* Mutant: only the first load sets the reference.
ActivateOnce(l) ==
    /\ lpc[l] = "activate"
    /\ active' = IF active = None THEN ref[l].payload ELSE active
    /\ lpc' = [lpc EXCEPT ![l] = "idle"]
    /\ status' = "up"
    /\ UNCHANGED <<env, requests, hup, asked, prepared, ref, read, before, failed>>

\* The end of VerifyingLoader.Load: active, under the loader's own lock.
Activate(l) ==
    /\ lpc[l] = "activate"
    /\ active' = ref[l].payload
    /\ lpc' = [lpc EXCEPT ![l] = "idle"]
    /\ status' = "up"
    /\ UNCHANGED <<env, requests, hup, asked, prepared, ref, read, before, failed>>

-----------------------------------------------------------------------------
\* OPADecider.Decide takes the prepared query under the lock.
Decide(r) ==
    /\ status = "up" /\ rpc[r] = "idle"
    /\ by' = [by EXCEPT ![r] = prepared]
    /\ crossed' = [crossed EXCEPT ![r] =
                      {x \in {"edit"} : overtaken} \union
                      {x \in {"swap"} : \E l \in Loader : lpc[l] = "activate"}]
    /\ rpc' = [rpc EXCEPT ![r] = "decided"]
    /\ UNCHANGED <<env, loader, status, hup, asked, stamp, overtaken>>

\* StampingStore.Append: the record carries the reference active by now.
Stamp(r) ==
    /\ rpc[r] = "decided"
    /\ stamp' = [stamp EXCEPT ![r] = active]
    /\ rpc' = [rpc EXCEPT ![r] = "recorded"]
    /\ UNCHANGED <<env, loader, status, hup, asked, by, crossed, overtaken>>

\* serve has returned.
Exited == status = "exited" /\ UNCHANGED vars

LoadStep(l) ==
    \/ Load(l) \/ ReadManifest(l) \/ VerifyBundle(l) \/ Compile(l) \/ Activate(l)
    \/ \E f \in File : ReadFile(l, f)

Next ==
    \/ \E f \in File, x \in Content \union {Absent} : EditFile(f, x)
    \/ \E v \in Version, k \in Key : runPolicySign(v, k)
    \/ EditManifest \/ SIGHUP
    \/ \E l \in Loader : LoadStep(l)
    \/ \E r \in Request : Decide(r) \/ Stamp(r)
    \/ Exited

Spec == Init /\ [][Next]_vars

\* The reload goroutine is scheduled.
FairSpec == Spec /\ \A l \in Loader : WF_vars(LoadStep(l))

-----------------------------------------------------------------------------
\* The types of the variables.
TypeOK ==
    /\ disk \in Bundle /\ manifest \in Manifest \union {None}
    /\ edits \in 0 .. MaxEdits /\ issued \subseteq Payload
    /\ prepared \in Bundle \union {None} /\ active \in Payload \union {None}
    /\ status \in {"starting", "up", "exited"}
    /\ hup \in BOOLEAN /\ asked \in BOOLEAN /\ signed \in BOOLEAN
    /\ lpc \in [Loader -> {"idle", "manifest", "inventory", "compile", "activate"}]
    /\ ref \in [Loader -> Manifest \union {None}]
    /\ read \in [Loader -> [File -> Content \union {Absent, None}]]
    /\ before \in [Loader -> (Bundle \union {None}) \X (Payload \union {None}) \X Nat]
    /\ failed \subseteq Loader
    /\ rpc \in [Request -> {"idle", "decided", "recorded"}]
    /\ by \in [Request -> Bundle \union {None}]
    /\ stamp \in [Request -> Payload \union {None}]
    /\ crossed \in [Request -> SUBSET {"edit", "swap"}] /\ overtaken \in BOOLEAN

\* Whatever the operator writes and whenever, the reference that records are
\* stamped with was really signed with the configured key (loader.go, Load).
ActiveWasSigned == active # None => active \in issued

\* The policy in force is one that was signed with the configured key
\* (loader.go, "the inner loader never sees it").  This is not so when an edit
\* comes between the verification and the compilation of a bundle.
PreparedWasSigned ==
    signed /\ prepared # None => \E p \in issued : p.files = prepared

\* Between loads, the reference is that of the policy in force, unless an edit
\* met the load (loader.go, Load: verify, compile and activate together).
ActiveIsPrepared ==
    signed /\ Idle /\ prepared # None /\ ~overtaken =>
        active # None /\ active.files = prepared

\* A load that returns an error, at whichever step, has changed neither the
\* policy nor the reference (loader.go and opa.go, Load).
FailedLoadChangesNothing ==
    \A l \in Loader : lpc[l] = "idle" /\ l \in failed =>
        prepared = before[l][1] /\ active = before[l][2]

\* A record names the bundle that decided it, unless a swap of the policy met its
\* request or an edit met the load of that policy (stamp.go, Append).
UncrossedStampIsTrue ==
    \A r \in Request : signed /\ rpc[r] = "recorded" /\ crossed[r] = {} =>
        stamp[r] # None /\ stamp[r].files = by[r]

\* Every record names the bundle that decided it, edits during the load of that
\* bundle left aside (stamp.go, StampingStore).
StampIsTrue ==
    \A r \in Request : signed /\ rpc[r] = "recorded" /\ "edit" \notin crossed[r] =>
        stamp[r] # None /\ stamp[r].files = by[r]

\* Every SIGHUP is followed by a reload that begins after it, the signals that
\* the channel drops and reloads that fail included (main.go, runServe).
SignalIsServed == asked ~> ~asked
=============================================================================
