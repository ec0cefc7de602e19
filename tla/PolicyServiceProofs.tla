------------------------ MODULE PolicyServiceProofs -------------------------
(***************************************************************************)
(* For any bundle, any keys, any number of edits and requests: what the    *)
(* loader activates was signed with the configured key, whoever loads      *)
(* concurrently; and with the one loader that serve has, a load that fails *)
(* changes nothing, the reference is that of the policy in force, and the  *)
(* stamp of a record is true, up to the two races that the model names.    *)
(***************************************************************************)
EXTENDS PolicyService, TLAPS

\* Loads do not overlap: serve loads at startup, then from one goroutine.
OneLoader == \A l, m \in Loader : l = m

\* The part of the type invariant the argument needs.
Shape ==
    /\ disk \in Bundle /\ manifest \in Manifest \union {None}
    /\ edits \in Nat /\ issued \subseteq Payload
    /\ lpc \in [Loader -> {"idle", "manifest", "inventory", "compile", "activate"}]
    /\ ref \in [Loader -> Manifest \union {None}]
    /\ read \in [Loader -> [File -> Content \union {Absent, None}]]

\* A manifest in circulation is signed with the configured key only if its
\* signature covers something that was.
Honest(m) == m # None /\ m.sig.key = Pub => m.sig.payload \in issued

\* The manifest of a load that has verified its bundle.
Verified(m) == m # None /\ m.sig = [key |-> Pub, payload |-> m.payload]

\* The inductive invariant behind what is activated.
SignInv ==
    /\ Shape
    /\ Honest(manifest)
    /\ \A l \in Loader :
          /\ Honest(ref[l])
          /\ lpc[l] = "inventory" => ref[l] # None
          /\ signed /\ lpc[l] = "compile" => Verified(ref[l])
          /\ lpc[l] = "activate" => Verified(ref[l])
    /\ ActiveWasSigned

\* As long as no edit has met the load, it has read what is on disk, and what it
\* verified is what is on disk.
Fresh(l) == edits = before[l][3]

Consistent(l) ==
    /\ lpc[l] # "idle" => before[l][3] \in Nat /\ before[l][3] <= edits
    /\ lpc[l] \in {"manifest", "inventory", "compile"} /\ Fresh(l) =>
          \A f \in File : read[l][f] \in {None, disk[f]}
    /\ signed /\ lpc[l] = "compile" /\ Fresh(l) => ref[l].payload.files = disk
    /\ lpc[l] = "activate" => signed
    /\ lpc[l] = "activate" /\ ~overtaken => ref[l].payload.files = prepared

\* What a load found is still in force until it compiles.
Untouched(l) ==
    lpc[l] \in {"manifest", "inventory", "compile"} \/ (lpc[l] = "idle" /\ l \in failed)
        => prepared = before[l][1] /\ active = before[l][2]

\* The reference is that of the policy in force, but between its two updates.
Current ==
    signed /\ prepared # None /\ ~overtaken /\ (\A l \in Loader : lpc[l] # "activate")
        => active # None /\ active.files = prepared

\* A request that nothing has crossed was decided by the policy in force, or its
\* record is true.
Uncrossed(r) ==
    /\ signed /\ rpc[r] = "decided" /\ crossed[r] = {} =>
          /\ by[r] = prepared /\ ~overtaken
          /\ \A l \in Loader : lpc[l] # "activate"
    /\ rpc[r] = "decided" => prepared # None
    /\ signed /\ rpc[r] = "recorded" /\ crossed[r] = {} =>
          stamp[r] # None /\ stamp[r].files = by[r]

\* The types of what SignInv leaves out.
Frame ==
    /\ DOMAIN rpc = Request /\ DOMAIN by = Request /\ DOMAIN stamp = Request
    /\ DOMAIN before = Loader /\ DOMAIN crossed = Request
    /\ prepared \in Bundle \union {None}

\* The state of one load.
OneLoad(l) ==
    /\ Consistent(l) /\ Untouched(l)
    /\ l \in failed => lpc[l] = "idle"
    /\ lpc[l] = "activate" => prepared # None

\* The inductive invariant for one loader.
LoadInv ==
    /\ SignInv /\ Frame
    /\ \A l \in Loader : OneLoad(l)
    /\ status = "up" => prepared # None
    /\ Current
    /\ \A r \in Request : Uncrossed(r)

-----------------------------------------------------------------------------
\* What policy sign writes is a manifest, and is honest once its payload counts
\* as issued.
LEMMA SignType ==
    ASSUME NEW d \in Bundle, NEW v \in Version, NEW k \in Key
    PROVE  /\ Sign(d, v, k) \in Manifest
           /\ Sign(d, v, k).sig.key = k /\ Sign(d, v, k).payload.files = d
           /\ Sign(d, v, k).sig.payload = [version |-> v, files |-> d]
           /\ Sign(d, v, k).payload = [version |-> v, files |-> d]
           /\ [version |-> v, files |-> d] \in Payload
<1>1. [version |-> v, files |-> d] \in Payload
  BY Zenon DEF Payload
<1>2. QED BY <1>1, Zenon DEF Sign, Manifest

\* A version changed by hand leaves a manifest with the same signature.
LEMMA EditType ==
    ASSUME NEW m \in Manifest, NEW v \in Version
    PROVE  /\ [m EXCEPT !.payload.version = v] \in Manifest
           /\ [m EXCEPT !.payload.version = v].sig = m.sig
<1>1. m.payload \in Payload /\ m.sig \in [key : Key, payload : Payload] /\ m.keyId \in Key
  BY Zenon DEF Manifest
<1>2. [m.payload EXCEPT !.version = v] \in Payload
  BY <1>1, Zenon DEF Payload
<1>3. QED BY <1>1, <1>2, Zenon DEF Manifest

\* The types hold initially.
LEMMA InitSign == Init => SignInv
<1> SUFFICES ASSUME Init PROVE SignInv
  OBVIOUS
<1>1. PICK d0 \in Bundle, v0 \in Version :
         /\ disk = d0 /\ manifest \in {None, Sign(d0, v0, Pub)}
         /\ issued = IF manifest = None THEN {} ELSE {manifest.payload}
  BY Zenon DEF Init
<1>2. /\ Sign(d0, v0, Pub) \in Manifest /\ Sign(d0, v0, Pub).payload \in Payload
      /\ Sign(d0, v0, Pub).sig.payload = Sign(d0, v0, Pub).payload
  <2>1. [version |-> v0, files |-> d0] \in Payload
    BY Zenon DEF Payload
  <2>2. QED BY <2>1, KeyAssumption, Zenon DEF Sign, Manifest
<1>3. Shape
  <2>1. manifest \in Manifest \union {None} /\ issued \subseteq Payload
    BY <1>1, <1>2, Zenon
  <2>2. disk \in Bundle /\ edits \in Nat
    BY <1>1, Zenon DEF Init
  <2>3. lpc \in [Loader -> {"idle", "manifest", "inventory", "compile", "activate"}]
        /\ ref \in [Loader -> Manifest \union {None}]
    BY Zenon DEF Init
  <2>4. read \in [Loader -> [File -> Content \union {Absent, None}]]
    BY Zenon DEF Init, Unread
  <2>5. QED BY <2>1, <2>2, <2>3, <2>4, Zenon DEF Shape
<1>4. Honest(manifest)
  <2>1. CASE manifest = None
    BY <2>1, Zenon DEF Honest
  <2>2. CASE manifest # None
    BY <1>1, <1>2, <2>2, Zenon DEF Honest
  <2>3. QED BY <2>1, <2>2, Zenon
<1>5. \A l \in Loader : ref[l] = None /\ lpc[l] = "idle"
  BY Zenon DEF Init
<1>6. QED BY <1>3, <1>4, <1>5, Zenon DEF Init, SignInv, Honest, ActiveWasSigned

\* The operator's edits leave the loaders and the references alone, and what
\* they sign with the configured key counts as issued.
LEMMA OperatorSign ==
    ASSUME SignInv, UNCHANGED <<lpc, ref, read, active, signed>>,
           disk' \in Bundle, manifest' \in Manifest \union {None}, edits' \in Nat,
           issued \subseteq issued', issued' \subseteq Payload, Honest(manifest)'
    PROVE  SignInv'
<1>1. Shape'
  BY Zenon DEF SignInv, Shape
<1>2. ASSUME NEW l \in Loader
      PROVE  /\ Honest(ref[l])'
             /\ (lpc[l] = "inventory" => ref[l] # None)'
             /\ (signed /\ lpc[l] = "compile" => Verified(ref[l]))'
             /\ (lpc[l] = "activate" => Verified(ref[l]))'
  BY Zenon DEF SignInv, Honest, Verified
<1>3. ActiveWasSigned'
  BY Zenon DEF SignInv, ActiveWasSigned
<1>4. QED BY <1>1, <1>2, <1>3, Zenon DEF SignInv

\* The same for steps that touch neither the bundle nor the loaders.
LEMMA ElsewhereSign ==
    ASSUME SignInv, UNCHANGED <<disk, manifest, edits, issued, signed, lpc, ref, read, active>>
    PROVE  SignInv'
<1>1. disk' \in Bundle /\ manifest' \in Manifest \union {None} /\ edits' \in Nat
      /\ issued' \subseteq Payload /\ Honest(manifest)'
  BY Zenon DEF SignInv, Shape, Honest
<1>2. QED BY <1>1, OperatorSign, Zenon

\* The operator edits the bundle or its manifest, or signs it.
LEMMA EnvSign ==
    ASSUME SignInv,
           \/ \E f \in File, x \in Content \union {Absent} : EditFile(f, x)
           \/ \E v \in Version, k \in Key : runPolicySign(v, k)
           \/ EditManifest
    PROVE  SignInv' /\ edits' = edits + 1
                    /\ UNCHANGED <<signed, loader, requests, status, hup, asked>>
<1>1. edits' = edits + 1 /\ UNCHANGED <<signed, loader, requests, status, hup, asked>>
  BY Zenon DEF EditFile, runPolicySign, EditManifest, MayEdit
<1>2. UNCHANGED <<lpc, ref, read, active, signed>> /\ edits' \in Nat
  BY <1>1 DEF loader, SignInv, Shape
<1>3. CASE \E f \in File, x \in Content \union {Absent} : EditFile(f, x)
  <2>1. PICK f \in File, x \in Content \union {Absent} :
           disk' = [disk EXCEPT ![f] = x] /\ UNCHANGED <<manifest, issued>>
    BY <1>3, Zenon DEF EditFile
  <2>2. disk' \in Bundle
    BY <2>1, Zenon DEF SignInv, Shape, Bundle
  <2>3. Honest(manifest)' /\ manifest' \in Manifest \union {None} /\ issued' \subseteq Payload
    BY <2>1, Zenon DEF SignInv, Shape, Honest
  <2>4. QED BY <1>1, <1>2, <2>1, <2>2, <2>3, OperatorSign, Zenon
<1>4. CASE \E v \in Version, k \in Key : runPolicySign(v, k)
  <2>1. PICK v \in Version, k \in Key :
           /\ manifest' = Sign(disk, v, k) /\ disk' = disk
           /\ issued' = IF k = Pub THEN issued \union {[version |-> v, files |-> disk]}
                        ELSE issued
    BY <1>4, Zenon DEF runPolicySign
  <2>2. disk \in Bundle /\ issued \subseteq Payload
    BY Zenon DEF SignInv, Shape
  <2>3. manifest' \in Manifest /\ manifest'.sig.key = k
        /\ manifest'.sig.payload = [version |-> v, files |-> disk]
        /\ [version |-> v, files |-> disk] \in Payload
    BY <2>1, <2>2, SignType
  <2>4. issued \subseteq issued' /\ issued' \subseteq Payload
    BY <2>1, <2>2, <2>3, Zenon
  <2>5. Honest(manifest)'
    BY <2>1, <2>3, Zenon DEF Honest
  <2>6. QED BY <1>1, <1>2, <2>1, <2>2, <2>3, <2>4, <2>5, OperatorSign
<1>5. CASE EditManifest
  <2>1. manifest # None /\ UNCHANGED <<disk, issued>>
    BY <1>5, Zenon DEF EditManifest
  <2>2. manifest \in Manifest /\ Honest(manifest) /\ disk \in Bundle /\ issued \subseteq Payload
    BY <2>1, Zenon DEF SignInv, Shape
  <2>3. CASE manifest' = None
    BY <1>1, <1>2, <2>1, <2>2, <2>3, OperatorSign, Zenon DEF Honest
  <2>4. CASE \E v \in Version : manifest' = [manifest EXCEPT !.payload.version = v]
    <3>1. manifest' \in Manifest /\ manifest'.sig = manifest.sig
      BY <2>2, <2>4, EditType, Zenon
    <3>2. Honest(manifest)'
      BY <2>1, <2>2, <3>1, Zenon DEF Honest
    <3>3. QED BY <1>1, <1>2, <2>1, <2>2, <3>1, <3>2, OperatorSign, Zenon
  <2>5. QED BY <1>5, <2>3, <2>4, Zenon DEF EditManifest
<1>6. QED BY <1>3, <1>4, <1>5, Zenon

\* What a step of loader l may do to the others: nothing.
Loads(l) ==
    /\ UNCHANGED <<disk, manifest, edits, issued, signed>>
    /\ \A m \in Loader \ {l} : lpc'[m] = lpc[m] /\ ref'[m] = ref[m]

\* A step of loader l keeps the invariant if l's manifest is honest, and verified
\* where it has to be, and what is activated was issued.
LEMMA LoaderSign ==
    ASSUME SignInv, NEW l \in Loader, Loads(l), Shape', Honest(ref'[l]),
           lpc'[l] = "inventory" => ref'[l] # None,
           signed /\ lpc'[l] = "compile" => Verified(ref'[l]),
           lpc'[l] = "activate" => Verified(ref'[l]),
           active' # None => active' \in issued
    PROVE  SignInv'
<1>1. ASSUME NEW m \in Loader
      PROVE  /\ Honest(ref[m])'
             /\ (lpc[m] = "inventory" => ref[m] # None)'
             /\ (signed /\ lpc[m] = "compile" => Verified(ref[m]))'
             /\ (lpc[m] = "activate" => Verified(ref[m]))'
  <2>1. CASE m = l
    BY <2>1, Zenon DEF Loads, Honest, Verified
  <2>2. CASE m # l
    <3>1. lpc'[m] = lpc[m] /\ ref'[m] = ref[m] /\ issued' = issued /\ signed' = signed
      BY <2>2, Zenon DEF Loads
    <3>2. QED BY <3>1 DEF SignInv, Honest, Verified
  <2>3. QED BY <2>1, <2>2, Zenon
<1>2. Honest(manifest)' /\ ActiveWasSigned'
  BY Zenon DEF SignInv, Honest, Loads, ActiveWasSigned
<1>3. QED BY <1>1, <1>2, Zenon DEF SignInv

\* A failed load goes back to idle.
LEMMA FailsSign ==
    ASSUME SignInv, NEW l \in Loader, LoadFails(l)
    PROVE  SignInv' /\ Loads(l)
<1>1. lpc' = [lpc EXCEPT ![l] = "idle"] /\ UNCHANGED <<env, active, ref, read>>
  BY Zenon DEF LoadFails
<1>2. Shape' /\ Loads(l)
  BY <1>1, Zenon DEF SignInv, Shape, Loads, env
<1>3. lpc'[l] = "idle" /\ Honest(ref'[l]) /\ (active' # None => active' \in issued)
  BY <1>1, Zenon DEF SignInv, Shape, ActiveWasSigned
<1>4. QED BY <1>2, <1>3, LoaderSign, Zenon

\* Every step of a load keeps the invariant, and touches no other loader.
LEMMA LoadSign ==
    ASSUME SignInv, NEW l \in Loader, LoadStep(l)
    PROVE  SignInv' /\ Loads(l)
<1>0. Honest(ref[l]) /\ (active # None => active \in issued)
  BY Zenon DEF SignInv, ActiveWasSigned
<1>1. CASE Load(l)
  <2>1. UNCHANGED <<env, active, ref>> /\ read' = [read EXCEPT ![l] = Unread]
        /\ lpc' = [lpc EXCEPT ![l] = IF signed THEN "manifest" ELSE "compile"]
    BY <1>1, Zenon DEF Load
  <2>2. Unread \in [File -> Content \union {Absent, None}]
    BY Zenon DEF Unread
  <2>3. Shape' /\ Loads(l)
    BY <2>1, <2>2, Zenon DEF SignInv, Shape, Loads, env
  <2>4. lpc'[l] # "inventory" /\ lpc'[l] # "activate"
        /\ (signed => lpc'[l] # "compile")
    BY <2>1, Zenon DEF SignInv, Shape
  <2>5. QED BY <1>0, <2>1, <2>3, <2>4, LoaderSign, Zenon
<1>2. CASE ReadManifest(l)
  <2>1. CASE LoadFails(l)
    BY <2>1, FailsSign, Zenon
  <2>2. CASE ~LoadFails(l)
    <3>1. /\ manifest # None /\ ref' = [ref EXCEPT ![l] = manifest]
          /\ lpc' = [lpc EXCEPT ![l] = "inventory"] /\ UNCHANGED <<env, active, read>>
      BY <1>2, <2>2, Zenon DEF ReadManifest
    <3>2. Shape' /\ Loads(l)
      BY <3>1, Zenon DEF SignInv, Shape, Loads, env
    <3>3. lpc'[l] = "inventory" /\ ref'[l] = manifest
      BY <3>1, Zenon DEF SignInv, Shape
    <3>4. Honest(manifest)
      BY Zenon DEF SignInv
    <3>5. QED BY <1>0, <3>1, <3>2, <3>3, <3>4, LoaderSign, Zenon
  <2>3. QED BY <2>1, <2>2, Zenon
<1>3. CASE VerifyBundle(l)
  <2>1. CASE LoadFails(l)
    BY <2>1, FailsSign, Zenon
  <2>2. CASE ~LoadFails(l)
    <3>1. /\ Verify(ref[l], read[l]) /\ lpc' = [lpc EXCEPT ![l] = "compile"]
          /\ read' = [read EXCEPT ![l] = Unread] /\ UNCHANGED <<env, active, ref>>
      BY <1>3, <2>2, Zenon DEF VerifyBundle
    <3>2. Unread \in [File -> Content \union {Absent, None}]
      BY Zenon DEF Unread
    <3>3. Shape' /\ Loads(l)
      BY <3>1, <3>2, Zenon DEF SignInv, Shape, Loads, env
    <3>4. lpc'[l] = "compile" /\ ref'[l] = ref[l] /\ Verified(ref[l])
      BY <3>1, Zenon DEF SignInv, Shape, Verify, Verified
    <3>5. QED BY <1>0, <3>1, <3>3, <3>4, LoaderSign, Zenon
  <2>3. QED BY <2>1, <2>2, Zenon
<1>4. CASE Compile(l)
  <2>1. CASE LoadFails(l)
    BY <2>1, FailsSign, Zenon
  <2>2. CASE ~LoadFails(l)
    <3>1. /\ lpc[l] = "compile" /\ UNCHANGED <<env, active, ref, read>>
          /\ lpc' = [lpc EXCEPT ![l] = IF signed THEN "activate" ELSE "idle"]
      BY <1>4, <2>2, Zenon DEF Compile
    <3>2. Shape' /\ Loads(l)
      BY <3>1, Zenon DEF SignInv, Shape, Loads, env
    <3>3. \/ lpc'[l] = "idle"
          \/ lpc'[l] = "activate" /\ signed
      BY <3>1, Zenon DEF SignInv, Shape
    <3>4. signed => Verified(ref[l])
      BY <3>1, Zenon DEF SignInv
    <3>5. QED BY <1>0, <3>1, <3>2, <3>3, <3>4, LoaderSign, Zenon
  <2>3. QED BY <2>1, <2>2, Zenon
<1>5. CASE Activate(l)
  <2>1. /\ lpc[l] = "activate" /\ UNCHANGED <<env, ref, read>>
        /\ lpc' = [lpc EXCEPT ![l] = "idle"] /\ active' = ref[l].payload
    BY <1>5, Zenon DEF Activate
  <2>2. Shape' /\ Loads(l)
    BY <2>1, Zenon DEF SignInv, Shape, Loads, env
  <2>3. Verified(ref[l])
    BY <2>1, Zenon DEF SignInv
  <2>4. ref[l].payload \in issued
    BY <1>0, <2>3 DEF Honest, Verified
  <2>5. lpc'[l] = "idle"
    BY <2>1, Zenon DEF SignInv, Shape
  <2>6. QED BY <1>0, <2>1, <2>2, <2>4, <2>5, LoaderSign, Zenon
<1>6. CASE \E f \in File : ReadFile(l, f)
  <2>1. PICK f \in File : /\ lpc[l] \in {"inventory", "compile"}
                          /\ read' = [read EXCEPT ![l][f] = disk[f]]
                          /\ UNCHANGED <<env, active, lpc, ref>>
    BY <1>6, Zenon DEF ReadFile
  <2>2. disk[f] \in Content \union {Absent, None}
    BY Zenon DEF SignInv, Shape, Bundle
  <2>3. read' \in [Loader -> [File -> Content \union {Absent, None}]]
    BY <2>1, <2>2, Zenon DEF SignInv, Shape
  <2>4. Shape' /\ Loads(l)
    BY <2>1, <2>3, Zenon DEF SignInv, Shape, Loads, env
  <2>5. /\ lpc'[l] = "inventory" => ref'[l] # None
        /\ signed /\ lpc'[l] = "compile" => Verified(ref'[l])
        /\ lpc'[l] # "activate"
    BY <2>1, Zenon DEF SignInv
  <2>6. QED BY <1>0, <2>1, <2>4, <2>5, LoaderSign, Zenon
<1>7. QED BY <1>1, <1>2, <1>3, <1>4, <1>5, <1>6, Zenon DEF LoadStep

\* Every step keeps the invariant.
LEMMA SignStep == SignInv /\ [Next]_vars => SignInv'
<1> SUFFICES ASSUME SignInv, [Next]_vars PROVE SignInv'
  OBVIOUS
<1>1. CASE SIGHUP
  BY <1>1, ElsewhereSign, Zenon DEF SIGHUP, env, loader
<1>2. CASE \E r \in Request : Decide(r) \/ Stamp(r)
  BY <1>2, ElsewhereSign, Zenon DEF Decide, Stamp, env, loader
<1>3. CASE UNCHANGED vars
  BY <1>3, ElsewhereSign, Zenon DEF vars, env, loader
<1>4. QED BY <1>1, <1>2, <1>3, EnvSign, LoadSign, Zenon DEF Next, Exited

-----------------------------------------------------------------------------
\* Load of loader.go: however many loads run at a time and whatever the operator
\* writes meanwhile, a reference that was activated was signed with the
\* configured key.
THEOREM ActiveReferencesWereSigned == Spec => []ActiveWasSigned
<1>1. SignInv => ActiveWasSigned
  BY Zenon DEF SignInv
<1>2. QED BY <1>1, InitSign, SignStep, PTL DEF Spec

-----------------------------------------------------------------------------
\* The invariant holds initially.
LEMMA InitLoad == Init => LoadInv
<1> SUFFICES ASSUME Init PROVE LoadInv
  OBVIOUS
<1>1. SignInv
  BY InitSign, Zenon
<1>2. Frame
  BY Zenon DEF Init, Frame
<1>3. ASSUME NEW l \in Loader PROVE OneLoad(l)
  <2>1. lpc[l] = "idle" /\ l \notin failed
    BY Zenon DEF Init
  <2>2. QED BY <2>1, Zenon DEF OneLoad, Consistent, Untouched
<1>4. status # "up" /\ Current
  BY Zenon DEF Init, Current
<1>5. ASSUME NEW r \in Request PROVE Uncrossed(r)
  <2>1. rpc[r] = "idle"
    BY Zenon DEF Init
  <2>2. QED BY <2>1, Zenon DEF Uncrossed
<1>6. QED BY <1>1, <1>2, <1>3, <1>4, <1>5, Zenon DEF LoadInv

\* An edit meets every load under way, and changes nothing else.
LEMMA EnvLoad ==
    ASSUME LoadInv, SignInv', edits' = edits + 1,
           UNCHANGED <<signed, loader, requests, status>>
    PROVE  LoadInv'
<1>1. UNCHANGED <<signed, prepared, active, lpc, ref, read, before, failed, rpc, by,
                  stamp, crossed, overtaken, status>>
  BY Zenon DEF loader, requests
<1>2. edits \in Nat
  BY Zenon DEF LoadInv, SignInv, Shape
<1>3. ASSUME NEW l \in Loader PROVE OneLoad(l)'
  <2>1. OneLoad(l)
    BY Zenon DEF LoadInv
  <2>2. lpc[l] # "idle" => /\ before[l][3] \in Nat /\ before[l][3] <= edits'
                           /\ edits' # before[l][3]
    BY <1>2, <2>1 DEF OneLoad, Consistent
  <2>3. Consistent(l)'
    BY <1>1, <2>1, <2>2 DEF OneLoad, Consistent, Fresh
  <2>4. QED BY <1>1, <2>1, <2>3, Zenon DEF OneLoad, Untouched
<1>4. Frame' /\ Current' /\ (status = "up" => prepared # None)'
  BY <1>1 DEF LoadInv, Frame, Current
<1>5. ASSUME NEW r \in Request PROVE Uncrossed(r)'
  BY <1>1 DEF LoadInv, Uncrossed
<1>6. QED BY <1>3, <1>4, <1>5, Zenon DEF LoadInv

\* Steps that touch neither the bundle, nor the loaders, nor the requests.
LEMMA ElsewhereLoad ==
    ASSUME LoadInv, SignInv', UNCHANGED <<env, loader, requests, status>>
    PROVE  LoadInv'
<1>1. UNCHANGED <<disk, edits, signed, prepared, active, lpc, ref, read, before,
                  failed, rpc, by, stamp, crossed, overtaken, status>>
  BY Zenon DEF env, loader, requests
<1>2. ASSUME NEW l \in Loader PROVE OneLoad(l)'
  BY <1>1, Zenon DEF LoadInv, OneLoad, Consistent, Untouched, Fresh
<1>3. Frame' /\ Current' /\ (status = "up" => prepared # None)'
  BY <1>1, Zenon DEF LoadInv, Frame, Current
<1>4. ASSUME NEW r \in Request PROVE Uncrossed(r)'
  BY <1>1, Zenon DEF LoadInv, Uncrossed
<1>5. QED BY <1>2, <1>3, <1>4, Zenon DEF LoadInv

\* The steps of the only loader that leave the policy and the reference alone.
LEMMA QuietLoad ==
    ASSUME OneLoader, LoadInv, SignInv', NEW l \in Loader, OneLoad(l)',
           lpc[l] # "activate", lpc'[l] # "activate", DOMAIN before' = Loader,
           UNCHANGED <<signed, prepared, active, requests>>, status' \in {status, "exited"}
    PROVE  LoadInv'
<1>1. \A m \in Loader : m = l
  BY Zenon DEF OneLoader
<1>2. UNCHANGED <<signed, prepared, active, rpc, by, stamp, crossed, overtaken>>
  BY Zenon DEF requests
<1>3. \A m \in Loader : OneLoad(m)'
  BY <1>1, Zenon
<1>4. Frame' /\ (status = "up" => prepared # None)'
  BY <1>2, Zenon DEF LoadInv, Frame
<1>5. Current'
  BY <1>1, <1>2 DEF LoadInv, Current
<1>6. ASSUME NEW r \in Request PROVE Uncrossed(r)'
  BY <1>1, <1>2 DEF LoadInv, Uncrossed
<1>7. QED BY <1>3, <1>4, <1>5, <1>6, Zenon DEF LoadInv

\* A load that fails before it compiled leaves everything as it found it.
LEMMA FailsLoad ==
    ASSUME OneLoader, LoadInv, SignInv', NEW l \in Loader, LoadFails(l),
           lpc[l] \in {"manifest", "inventory", "compile"}
    PROVE  LoadInv'
<1>1. /\ lpc' = [lpc EXCEPT ![l] = "idle"] /\ failed' = failed \union {l}
      /\ UNCHANGED <<env, requests, prepared, active, ref, read, before>>
      /\ status' \in {status, "exited"}
  BY Zenon DEF LoadFails
<1>2. lpc'[l] = "idle"
  BY <1>1, Zenon DEF LoadInv, SignInv, Shape
<1>3. OneLoad(l)
  BY Zenon DEF LoadInv
<1>4. Consistent(l)' /\ Untouched(l)'
  BY <1>1, <1>2, <1>3, Zenon DEF OneLoad, Consistent, Untouched
<1>5. OneLoad(l)'
  BY <1>2, <1>4, Zenon DEF OneLoad
<1>6. signed' = signed /\ DOMAIN before' = Loader
  BY <1>1, Zenon DEF env, LoadInv, Frame
<1>7. QED BY <1>1, <1>2, <1>5, <1>6, QuietLoad, Zenon

\* A load begins.
LEMMA BeginLoad ==
    ASSUME OneLoader, LoadInv, SignInv', NEW l \in Loader, Load(l)
    PROVE  LoadInv'
<1>1. /\ lpc[l] = "idle"
      /\ lpc' = [lpc EXCEPT ![l] = IF signed THEN "manifest" ELSE "compile"]
      /\ read' = [read EXCEPT ![l] = Unread]
      /\ before' = [before EXCEPT ![l] = <<prepared, active, edits>>]
      /\ failed' = failed \ {l}
      /\ UNCHANGED <<env, requests, status, prepared, active, ref>>
  BY Zenon DEF Load
<1>2. UNCHANGED <<disk, edits, signed>> /\ edits \in Nat
  BY <1>1, Zenon DEF env, LoadInv, SignInv, Shape
<1>3. /\ lpc'[l] \in {"manifest", "compile"} /\ (signed => lpc'[l] = "manifest")
      /\ \A f \in File : read'[l][f] = None
  BY <1>1, Zenon DEF LoadInv, SignInv, Shape, Unread
<1>4. before'[l] = <<prepared, active, edits>> /\ DOMAIN before' = Loader
  BY <1>1, Zenon DEF LoadInv, Frame
<1>5. Consistent(l)'
  BY <1>2, <1>3, <1>4 DEF Consistent
<1>6. Untouched(l)'
  BY <1>1, <1>4, Zenon DEF Untouched
<1>7. OneLoad(l)'
  BY <1>1, <1>3, <1>5, <1>6, Zenon DEF OneLoad
<1>8. QED BY <1>1, <1>2, <1>3, <1>4, <1>7, QuietLoad, Zenon

\* The manifest is read.
LEMMA ManifestLoad ==
    ASSUME OneLoader, LoadInv, SignInv', NEW l \in Loader, ReadManifest(l)
    PROVE  LoadInv'
<1>1. CASE LoadFails(l)
  BY <1>1, FailsLoad, Zenon DEF ReadManifest
<1>2. CASE ~LoadFails(l)
  <2>1. /\ lpc[l] = "manifest" /\ lpc' = [lpc EXCEPT ![l] = "inventory"]
        /\ UNCHANGED <<env, requests, status, prepared, active, read, before, failed>>
    BY <1>2, Zenon DEF ReadManifest
  <2>2. UNCHANGED <<disk, edits, signed>> /\ DOMAIN before' = Loader
        /\ lpc'[l] = "inventory"
    BY <2>1, Zenon DEF env, LoadInv, Frame, SignInv, Shape
  <2>3. OneLoad(l)
    BY Zenon DEF LoadInv
  <2>4. Consistent(l)' /\ Untouched(l)'
    BY <2>1, <2>2, <2>3, Zenon DEF OneLoad, Consistent, Untouched, Fresh
  <2>5. OneLoad(l)'
    BY <2>1, <2>2, <2>3, <2>4, Zenon DEF OneLoad
  <2>6. QED BY <2>1, <2>2, <2>5, QuietLoad, Zenon
<1>3. QED BY <1>1, <1>2, Zenon

\* A file is read.
LEMMA FileLoad ==
    ASSUME OneLoader, LoadInv, SignInv', NEW l \in Loader, NEW f \in File, ReadFile(l, f)
    PROVE  LoadInv'
<1>1. /\ lpc[l] \in {"inventory", "compile"}
      /\ read' = [read EXCEPT ![l][f] = disk[f]]
      /\ UNCHANGED <<env, requests, status, prepared, active, lpc, ref, before, failed>>
  BY Zenon DEF ReadFile
<1>2. UNCHANGED <<disk, edits, signed>> /\ DOMAIN before' = Loader
  BY <1>1, Zenon DEF env, LoadInv, Frame
<1>3. OneLoad(l)
  BY Zenon DEF LoadInv
<1>4. \A g \in File : read'[l][g] \in {disk[g], read[l][g]}
  BY <1>1, Zenon DEF LoadInv, SignInv, Shape
<1>5. Consistent(l)'
  BY <1>1, <1>2, <1>3, <1>4, Zenon DEF OneLoad, Consistent, Fresh
<1>6. OneLoad(l)'
  BY <1>1, <1>2, <1>3, <1>5, Zenon DEF OneLoad, Untouched
<1>7. QED BY <1>1, <1>2, <1>6, QuietLoad, Zenon

\* The files read are those on disk, if no edit has met the load.
LEMMA ReadIsDisk ==
    ASSUME LoadInv, NEW l \in Loader, lpc[l] \in {"inventory", "compile"},
           AllRead(l), Fresh(l)
    PROVE  read[l] = disk
<1>1. read[l] \in [File -> Content \union {Absent, None}] /\ disk \in Bundle
  BY Zenon DEF LoadInv, SignInv, Shape
<1>2. \A f \in File : read[l][f] = disk[f]
  BY Zenon DEF LoadInv, OneLoad, Consistent, AllRead
<1>3. QED BY <1>1, <1>2 DEF Bundle

\* The bundle verifies or the load fails.
LEMMA VerifyLoad ==
    ASSUME OneLoader, LoadInv, SignInv', NEW l \in Loader, VerifyBundle(l)
    PROVE  LoadInv'
<1>1. CASE LoadFails(l)
  BY <1>1, FailsLoad, Zenon DEF VerifyBundle
<1>2. CASE ~LoadFails(l)
  <2>1. /\ lpc[l] = "inventory" /\ AllRead(l) /\ Verify(ref[l], read[l])
        /\ lpc' = [lpc EXCEPT ![l] = "compile"] /\ read' = [read EXCEPT ![l] = Unread]
        /\ UNCHANGED <<env, requests, status, prepared, active, ref, before, failed>>
    BY <1>2, Zenon DEF VerifyBundle
  <2>2. UNCHANGED <<disk, edits, signed>> /\ DOMAIN before' = Loader
    BY <2>1, Zenon DEF env, LoadInv, Frame
  <2>3. lpc'[l] = "compile" /\ \A f \in File : read'[l][f] = None
    BY <2>1 DEF LoadInv, SignInv, Shape, Unread
  <2>4. OneLoad(l)
    BY Zenon DEF LoadInv
  <2>5. Fresh(l) => ref[l].payload.files = disk
    BY <2>1, ReadIsDisk, Zenon DEF Verify
  <2>6. Fresh(l)' <=> Fresh(l)
    BY <2>1, <2>2, Zenon DEF Fresh
  <2>7. Consistent(l)'
    BY <2>1, <2>2, <2>3, <2>4, <2>5, <2>6, Zenon DEF OneLoad, Consistent
  <2>8. OneLoad(l)'
    BY <2>1, <2>3, <2>4, <2>7, Zenon DEF OneLoad, Untouched
  <2>9. QED BY <2>1, <2>2, <2>3, <2>8, QuietLoad, Zenon
<1>3. QED BY <1>1, <1>2, Zenon

\* The policy compiles and is swapped in, or the load fails.
LEMMA CompileLoad ==
    ASSUME OneLoader, LoadInv, SignInv', NEW l \in Loader, Compile(l)
    PROVE  LoadInv'
<1>1. CASE LoadFails(l)
  BY <1>1, FailsLoad, Zenon DEF Compile
<1>2. CASE ~LoadFails(l)
  <2>1. /\ lpc[l] = "compile" /\ AllRead(l) /\ prepared' = read[l]
        /\ lpc' = [lpc EXCEPT ![l] = IF signed THEN "activate" ELSE "idle"]
        /\ overtaken' = (edits # before[l][3])
        /\ UNCHANGED <<env, active, ref, read, before, failed, rpc, by, stamp>>
    BY <1>2, Zenon DEF Compile
  <2>2. crossed' = [r \in Request |-> crossed[r] \union {x \in {"swap"} : rpc[r] = "decided"}]
    BY <1>2, Zenon DEF Compile
  <2>3. UNCHANGED <<disk, edits, signed>>
    BY <2>1, Zenon DEF env
  <2>4. prepared' \in Bundle /\ prepared' # None
    <3>1. read[l] \in [File -> Content \union {Absent, None}]
      BY Zenon DEF LoadInv, SignInv, Shape
    <3>2. read[l] \in Bundle
      BY <2>1, <3>1, Zenon DEF AllRead, Bundle
    <3>3. QED BY <2>1, <3>2, NoneAssumption, Zenon
  <2>5. lpc'[l] = IF signed THEN "activate" ELSE "idle"
    BY <2>1, Zenon DEF LoadInv, SignInv, Shape
  <2>6. \A m \in Loader : m = l
    BY Zenon DEF OneLoader
  <2>7. OneLoad(l) /\ l \notin failed
    BY <2>1, Zenon DEF LoadInv, OneLoad
  <2>8. signed /\ ~overtaken' => ref[l].payload.files = prepared'
    <3>1. SUFFICES ASSUME signed, ~overtaken' PROVE ref[l].payload.files = prepared'
      OBVIOUS
    <3>2. Fresh(l)
      BY <2>1, <3>1, Zenon DEF Fresh
    <3>3. read[l] = disk
      BY <2>1, <3>2, ReadIsDisk, Zenon
    <3>4. ref[l].payload.files = disk
      BY <2>1, <2>7, <3>1, <3>2, Zenon DEF OneLoad, Consistent
    <3>5. QED BY <2>1, <3>3, <3>4, Zenon
  <2>9. Consistent(l)'
    <3>1. (lpc[l] # "idle" => before[l][3] \in Nat /\ before[l][3] <= edits)'
      BY <2>1, <2>3, <2>7, Zenon DEF OneLoad, Consistent
    <3>2. (lpc[l] = "activate" => signed)'
      BY <2>3, <2>5, Zenon
    <3>3. (lpc[l] = "activate" /\ ~overtaken => ref[l].payload.files = prepared)'
      BY <2>1, <2>3, <2>5, <2>8
    <3>4. lpc'[l] \notin {"manifest", "inventory", "compile"}
      BY <2>5, Zenon
    <3>5. QED BY <3>1, <3>2, <3>3, <3>4, Zenon DEF Consistent
  <2>10. OneLoad(l)'
    <3>1. l \notin failed' /\ lpc'[l] \notin {"manifest", "inventory", "compile"}
      BY <2>1, <2>5, <2>7
    <3>2. QED BY <2>4, <2>9, <3>1, Zenon DEF OneLoad, Untouched
  <2>11. Frame'
    BY <2>1, <2>2, <2>4, Zenon DEF LoadInv, Frame
  <2>12. Current'
    <3>1. signed' => lpc'[l] = "activate"
      BY <2>3, <2>5, Zenon
    <3>2. QED BY <3>1, Zenon DEF Current
  <2>13. ASSUME NEW r \in Request PROVE Uncrossed(r)'
    <3>1. Uncrossed(r)
      BY Zenon DEF LoadInv
    <3>2. CASE rpc[r] = "decided"
      <4>1. "swap" \in crossed'[r]
        BY <2>2, <3>2, Zenon
      <4>2. QED BY <2>1, <2>4, <3>2, <4>1, Zenon DEF Uncrossed
    <3>3. CASE rpc[r] # "decided"
      <4>1. crossed'[r] = crossed[r]
        BY <2>2, <3>3, Zenon
      <4>2. QED BY <2>1, <2>3, <3>1, <3>3, <4>1, Zenon DEF Uncrossed
    <3>4. QED BY <3>2, <3>3, Zenon
  <2>14. QED BY <2>4, <2>6, <2>10, <2>11, <2>12, <2>13, Zenon DEF LoadInv
<1>3. QED BY <1>1, <1>2, Zenon

\* The reference follows the policy.
LEMMA ActivateLoad ==
    ASSUME OneLoader, LoadInv, SignInv', NEW l \in Loader, Activate(l)
    PROVE  LoadInv'
<1>1. /\ lpc[l] = "activate" /\ active' = ref[l].payload
      /\ lpc' = [lpc EXCEPT ![l] = "idle"]
      /\ UNCHANGED <<env, requests, prepared, ref, read, before, failed>>
  BY Zenon DEF Activate
<1>2. UNCHANGED <<disk, edits, signed, rpc, by, stamp, crossed, overtaken>>
  BY <1>1, Zenon DEF env, requests
<1>3. lpc'[l] = "idle" /\ \A m \in Loader : m = l
  BY <1>1, Zenon DEF LoadInv, SignInv, Shape, OneLoader
<1>4. OneLoad(l) /\ l \notin failed
  BY <1>1, Zenon DEF LoadInv, OneLoad
<1>5. OneLoad(l)'
  BY <1>1, <1>3, <1>4, Zenon DEF OneLoad, Consistent, Untouched
<1>6. Frame' /\ prepared' # None
  BY <1>1, <1>2, <1>4, Zenon DEF LoadInv, Frame, OneLoad
<1>7. ref[l].payload # None
  <2>1. ref[l] \in Manifest
    <3>1. ref[l] \in Manifest \union {None} /\ ref[l] # None
      BY <1>1, Zenon DEF LoadInv, SignInv, Shape, Verified
    <3>2. QED BY <3>1, Zenon
  <2>2. ref[l].payload \in Payload
    BY <2>1, Zenon DEF Manifest
  <2>3. QED BY <2>2, NoneAssumption, Zenon
<1>8. Current'
  BY <1>1, <1>2, <1>4, <1>7, Zenon DEF Current, OneLoad, Consistent
<1>9. ASSUME NEW r \in Request PROVE Uncrossed(r)'
  BY <1>1, <1>2, <1>3, Zenon DEF LoadInv, Uncrossed
<1>10. QED BY <1>3, <1>5, <1>6, <1>8, <1>9, Zenon DEF LoadInv

\* A request is decided by the policy in force.
LEMMA DecideLoad ==
    ASSUME LoadInv, SignInv', NEW r \in Request, Decide(r)
    PROVE  LoadInv'
<1>1. /\ status = "up" /\ rpc[r] = "idle" /\ by' = [by EXCEPT ![r] = prepared]
      /\ rpc' = [rpc EXCEPT ![r] = "decided"]
      /\ UNCHANGED <<env, loader, status, stamp, overtaken>>
  BY Zenon DEF Decide
<1>2. crossed' = [crossed EXCEPT ![r] =
                    {x \in {"edit"} : overtaken} \union
                    {x \in {"swap"} : \E l \in Loader : lpc[l] = "activate"}]
  BY Zenon DEF Decide
<1>3. UNCHANGED <<disk, edits, signed, prepared, active, lpc, ref, read, before, failed>>
  BY <1>1, Zenon DEF env, loader
<1>4. \A l \in Loader : OneLoad(l)'
  BY <1>1, <1>3 DEF LoadInv, OneLoad, Consistent, Untouched, Fresh
<1>5. Frame' /\ Current' /\ prepared # None
  BY <1>1, <1>2, <1>3, Zenon DEF LoadInv, Frame, Current
<1>6. /\ rpc'[r] = "decided" /\ by'[r] = prepared
      /\ crossed'[r] = {} => ~overtaken /\ \A l \in Loader : lpc[l] # "activate"
  <2>1. rpc'[r] = "decided" /\ by'[r] = prepared
    BY <1>1, Zenon DEF LoadInv, Frame
  <2>2. crossed'[r] = {x \in {"edit"} : overtaken} \union
                      {x \in {"swap"} : \E l \in Loader : lpc[l] = "activate"}
    BY <1>2, Zenon DEF LoadInv, Frame
  <2>3. overtaken => "edit" \in crossed'[r]
    BY <2>2, Zenon
  <2>4. ASSUME NEW l \in Loader, lpc[l] = "activate" PROVE "swap" \in crossed'[r]
    BY <2>2, <2>4, Zenon
  <2>5. QED BY <2>1, <2>3, <2>4, Zenon
<1>7. ASSUME NEW q \in Request PROVE Uncrossed(q)'
  <2>1. CASE q = r
    BY <1>1, <1>3, <1>5, <1>6, <2>1, Zenon DEF Uncrossed
  <2>2. CASE q # r
    <3>1. rpc'[q] = rpc[q] /\ by'[q] = by[q] /\ crossed'[q] = crossed[q]
      BY <1>1, <1>2, <2>2, Zenon DEF LoadInv, Frame
    <3>2. QED BY <1>1, <1>3, <3>1, Zenon DEF LoadInv, Uncrossed
  <2>3. QED BY <2>1, <2>2, Zenon
<1>8. QED BY <1>1, <1>3, <1>4, <1>5, <1>7, Zenon DEF LoadInv

\* Its record is stamped with the reference active by then.
LEMMA StampLoad ==
    ASSUME LoadInv, SignInv', NEW r \in Request, Stamp(r)
    PROVE  LoadInv'
<1>1. /\ rpc[r] = "decided" /\ stamp' = [stamp EXCEPT ![r] = active]
      /\ rpc' = [rpc EXCEPT ![r] = "recorded"]
      /\ UNCHANGED <<env, loader, status, by, crossed, overtaken>>
  BY Zenon DEF Stamp
<1>2. UNCHANGED <<disk, edits, signed, prepared, active, lpc, ref, read, before, failed>>
  BY <1>1, Zenon DEF env, loader
<1>3. \A l \in Loader : OneLoad(l)'
  BY <1>1, <1>2 DEF LoadInv, OneLoad, Consistent, Untouched, Fresh
<1>4. Frame' /\ Current' /\ (status = "up" => prepared # None)'
  BY <1>1, <1>2, Zenon DEF LoadInv, Frame, Current
<1>5. rpc'[r] = "recorded" /\ stamp'[r] = active
  BY <1>1, Zenon DEF LoadInv, Frame
<1>6. signed /\ crossed[r] = {} => active # None /\ active.files = by[r]
  BY <1>1, Zenon DEF LoadInv, Uncrossed, Current
<1>7. ASSUME NEW q \in Request PROVE Uncrossed(q)'
  <2>1. CASE q = r
    BY <1>1, <1>2, <1>5, <1>6, <2>1, Zenon DEF Uncrossed
  <2>2. CASE q # r
    <3>1. rpc'[q] = rpc[q] /\ stamp'[q] = stamp[q]
      BY <1>1, <2>2, Zenon DEF LoadInv, Frame
    <3>2. QED BY <1>1, <1>2, <3>1, Zenon DEF LoadInv, Uncrossed
  <2>3. QED BY <2>1, <2>2, Zenon
<1>8. QED BY <1>3, <1>4, <1>7, Zenon DEF LoadInv

\* Every step keeps the invariant, if loads do not overlap.
LEMMA LoadInvStep == OneLoader /\ LoadInv /\ [Next]_vars => LoadInv'
<1> SUFFICES ASSUME OneLoader, LoadInv, [Next]_vars PROVE LoadInv'
  OBVIOUS
<1>1. SignInv /\ SignInv'
  BY SignStep, Zenon DEF LoadInv
<1>2. CASE \/ \E f \in File, x \in Content \union {Absent} : EditFile(f, x)
           \/ \E v \in Version, k \in Key : runPolicySign(v, k)
           \/ EditManifest
  BY <1>1, <1>2, EnvSign, EnvLoad, Zenon
<1>3. CASE SIGHUP
  BY <1>1, <1>3, ElsewhereLoad, Zenon DEF SIGHUP
<1>4. CASE UNCHANGED vars
  BY <1>1, <1>4, ElsewhereLoad, Zenon DEF vars
<1>5. ASSUME NEW l \in Loader, LoadStep(l) PROVE LoadInv'
  BY <1>1, <1>5, BeginLoad, ManifestLoad, FileLoad, VerifyLoad, CompileLoad,
     ActivateLoad DEF LoadStep
<1>6. ASSUME NEW r \in Request, Decide(r) \/ Stamp(r) PROVE LoadInv'
  BY <1>1, <1>6, DecideLoad, StampLoad, Zenon
<1>7. QED BY <1>2, <1>3, <1>4, <1>5, <1>6, Zenon DEF Next, Exited

\* The inductive invariant holds in every reachable state of a service whose
\* loads do not overlap.
THEOREM LoadInvariant == ASSUME OneLoader PROVE Spec => []LoadInv
BY InitLoad, LoadInvStep, PTL DEF Spec

\* Load of loader.go and opa.go: a load that returned an error, at whichever of
\* its steps, left the policy and the reference as it had found them.
THEOREM FailedLoadsChangeNothing ==
    ASSUME OneLoader PROVE Spec => []FailedLoadChangesNothing
<1>1. LoadInv => FailedLoadChangesNothing
  BY Zenon DEF LoadInv, OneLoad, Untouched, FailedLoadChangesNothing
<1>2. QED BY <1>1, LoadInvariant, PTL

\* Load of loader.go: between loads the reference is that of the policy in
\* force, if no edit met the load of that policy.
THEOREM ReferencesFollowPolicies ==
    ASSUME OneLoader PROVE Spec => []ActiveIsPrepared
<1>1. LoadInv => ActiveIsPrepared
  BY Zenon DEF LoadInv, Current, Idle, ActiveIsPrepared
<1>2. QED BY <1>1, LoadInvariant, PTL

\* Append of stamp.go: the stamp of a record names the policy that decided its
\* request, if no swap met the request and no edit the load of the policy.
THEOREM UncrossedStampsAreTrue ==
    ASSUME OneLoader PROVE Spec => []UncrossedStampIsTrue
<1>1. LoadInv => UncrossedStampIsTrue
  BY Zenon DEF LoadInv, Uncrossed, UncrossedStampIsTrue
<1>2. QED BY <1>1, LoadInvariant, PTL


-----------------------------------------------------------------------------
\* What SignInv leaves out of the type invariant.
RequestTypes ==
    /\ rpc \in [Request -> {"idle", "decided", "recorded"}]
    /\ by \in [Request -> Bundle \union {None}]
    /\ stamp \in [Request -> Payload \union {None}]
    /\ crossed \in [Request -> SUBSET {"edit", "swap"}] /\ overtaken \in BOOLEAN

LoaderTypes ==
    /\ prepared \in Bundle \union {None} /\ active \in Payload \union {None}
    /\ before \in [Loader -> (Bundle \union {None}) \X (Payload \union {None}) \X Nat]
    /\ failed \subseteq Loader

ProcessTypes ==
    /\ edits \in 0 .. MaxEdits /\ status \in {"starting", "up", "exited"}
    /\ hup \in BOOLEAN /\ asked \in BOOLEAN /\ signed \in BOOLEAN

RestTypes == RequestTypes /\ LoaderTypes /\ ProcessTypes

\* The operator's edits are counted, and touch no other part of the service.
LEMMA EnvTypes ==
    ASSUME RestTypes, MayEdit PROVE RestTypes'
<1>1. edits' \in 0 .. MaxEdits
  BY EditsAssumption DEF MayEdit, RestTypes, ProcessTypes
<1>2. UNCHANGED <<signed, status, hup, asked, prepared, active, before, failed,
                  rpc, by, stamp, crossed, overtaken>>
  BY Zenon DEF MayEdit, loader, requests
<1>3. RequestTypes'
  BY <1>2, Zenon DEF RestTypes, RequestTypes
<1>4. LoaderTypes'
  BY <1>2, Zenon DEF RestTypes, LoaderTypes
<1>5. QED BY <1>1, <1>2, <1>3, <1>4, Zenon DEF RestTypes, ProcessTypes

\* The steps of a load.
LEMMA LoadTypes ==
    ASSUME SignInv, RestTypes, NEW l \in Loader, LoadStep(l) PROVE RestTypes'
<1>1. CASE Load(l)
  <2>1. edits \in Nat
    BY Zenon DEF SignInv, Shape
  <2>2. <<prepared, active, edits>>
           \in (Bundle \union {None}) \X (Payload \union {None}) \X Nat
    BY <2>1, Zenon DEF RestTypes, LoaderTypes
  <2>3. /\ before' = [before EXCEPT ![l] = <<prepared, active, edits>>]
        /\ failed' = failed \ {l}
        /\ UNCHANGED <<env, requests, status, prepared, active>>
        /\ hup' \in BOOLEAN /\ asked' \in BOOLEAN
    BY <1>1, Zenon DEF Load, RestTypes, ProcessTypes
  <2>4. LoaderTypes'
    BY <2>2, <2>3, Zenon DEF RestTypes, LoaderTypes
  <2>5. RequestTypes'
    BY <2>3, Zenon DEF RestTypes, RequestTypes, requests
  <2>6. ProcessTypes'
    BY <2>3, Zenon DEF RestTypes, ProcessTypes, env
  <2>7. QED BY <2>4, <2>5, <2>6, Zenon DEF RestTypes
<1>2. CASE LoadFails(l)
  <2>1. /\ failed' = failed \union {l} /\ status' \in {status, "exited"}
        /\ UNCHANGED <<env, requests, hup, asked, prepared, active, before>>
    BY <1>2, Zenon DEF LoadFails
  <2>2. LoaderTypes'
    BY <2>1, Zenon DEF RestTypes, LoaderTypes
  <2>3. RequestTypes'
    BY <2>1, Zenon DEF RestTypes, RequestTypes, requests
  <2>4. ProcessTypes'
    BY <2>1, Zenon DEF RestTypes, ProcessTypes, env
  <2>5. QED BY <2>2, <2>3, <2>4, Zenon DEF RestTypes
<1>3. CASE \/ ~LoadFails(l) /\ (ReadManifest(l) \/ VerifyBundle(l))
           \/ \E f \in File : ReadFile(l, f)
  <2>1. UNCHANGED <<env, requests, status, hup, asked, prepared, active, before, failed>>
    BY <1>3, Zenon DEF ReadManifest, VerifyBundle, ReadFile
  <2>2. LoaderTypes'
    BY <2>1, Zenon DEF RestTypes, LoaderTypes
  <2>3. RequestTypes'
    BY <2>1, Zenon DEF RestTypes, RequestTypes, requests
  <2>4. ProcessTypes'
    BY <2>1, Zenon DEF RestTypes, ProcessTypes, env
  <2>5. QED BY <2>2, <2>3, <2>4, Zenon DEF RestTypes
<1>4. CASE ~LoadFails(l) /\ Compile(l)
  <2>1. /\ AllRead(l) /\ prepared' = read[l] /\ status' \in {status, "up"}
        /\ crossed' = [r \in Request |-> crossed[r] \union
                         {x \in {"swap"} : rpc[r] = "decided"}]
        /\ overtaken' = (edits # before[l][3])
        /\ UNCHANGED <<env, hup, asked, active, before, failed, rpc, by, stamp>>
    BY <1>4, Zenon DEF Compile
  <2>2. read[l] \in Bundle
    <3>1. read[l] \in [File -> Content \union {Absent, None}]
      BY Zenon DEF SignInv, Shape
    <3>2. QED BY <2>1, <3>1, Zenon DEF AllRead, Bundle
  <2>3. LoaderTypes'
    BY <2>1, <2>2, Zenon DEF RestTypes, LoaderTypes
  <2>4. \A r \in Request : crossed[r] \union {x \in {"swap"} : rpc[r] = "decided"}
                              \in SUBSET {"edit", "swap"}
    BY Zenon DEF RestTypes, RequestTypes
  <2>5. RequestTypes'
    <3>1. crossed' \in [Request -> SUBSET {"edit", "swap"}]
      BY <2>1, <2>4, Zenon
    <3>2. overtaken' \in BOOLEAN
      BY <2>1
    <3>3. QED BY <2>1, <3>1, <3>2, Zenon DEF RestTypes, RequestTypes
  <2>6. ProcessTypes'
    BY <2>1, Zenon DEF RestTypes, ProcessTypes, env
  <2>7. QED BY <2>3, <2>5, <2>6, Zenon DEF RestTypes
<1>5. CASE Activate(l)
  <2>1. /\ lpc[l] = "activate" /\ active' = ref[l].payload /\ status' = "up"
        /\ UNCHANGED <<env, requests, hup, asked, prepared, before, failed>>
    BY <1>5, Zenon DEF Activate
  <2>2. ref[l] \in Manifest
    <3>1. ref[l] \in Manifest \union {None} /\ ref[l] # None
      BY <2>1, Zenon DEF SignInv, Shape, Verified
    <3>2. QED BY <3>1, Zenon
  <2>3. active' \in Payload
    BY <2>1, <2>2, Zenon DEF Manifest
  <2>4. LoaderTypes'
    BY <2>1, <2>3, Zenon DEF RestTypes, LoaderTypes
  <2>5. RequestTypes'
    BY <2>1, Zenon DEF RestTypes, RequestTypes, requests
  <2>6. ProcessTypes'
    BY <2>1, Zenon DEF RestTypes, ProcessTypes, env
  <2>7. QED BY <2>4, <2>5, <2>6, Zenon DEF RestTypes
<1>6. QED BY <1>1, <1>2, <1>3, <1>4, <1>5, Zenon DEF LoadStep

\* Every step keeps the types.
LEMMA TypesStep == SignInv /\ RestTypes /\ [Next]_vars => RestTypes'
<1> SUFFICES ASSUME SignInv, RestTypes, [Next]_vars PROVE RestTypes'
  OBVIOUS
<1>1. CASE \/ \E f \in File, x \in Content \union {Absent} : EditFile(f, x)
           \/ \E v \in Version, k \in Key : runPolicySign(v, k)
           \/ EditManifest
  BY <1>1, EnvTypes, Zenon DEF EditFile, runPolicySign, EditManifest
<1>2. CASE SIGHUP \/ UNCHANGED vars
  <2>1. /\ UNCHANGED <<env, loader, requests, status>>
        /\ hup' \in BOOLEAN /\ asked' \in BOOLEAN
    BY <1>2, Zenon DEF SIGHUP, vars, RestTypes, ProcessTypes
  <2>2. LoaderTypes'
    BY <2>1, Zenon DEF RestTypes, LoaderTypes, loader
  <2>3. RequestTypes'
    BY <2>1, Zenon DEF RestTypes, RequestTypes, requests
  <2>4. ProcessTypes'
    BY <2>1, Zenon DEF RestTypes, ProcessTypes, env
  <2>5. QED BY <2>2, <2>3, <2>4, Zenon DEF RestTypes
<1>3. ASSUME NEW r \in Request, Decide(r) \/ Stamp(r) PROVE RestTypes'
  <2>1. UNCHANGED <<env, loader, status, hup, asked, overtaken>>
    BY <1>3, Zenon DEF Decide, Stamp
  <2>2. LoaderTypes'
    BY <2>1, Zenon DEF RestTypes, LoaderTypes, loader
  <2>3. ProcessTypes'
    BY <2>1, Zenon DEF RestTypes, ProcessTypes, env
  <2>4. RequestTypes'
    <3>1. CASE Decide(r)
      <4>1. {x \in {"edit"} : overtaken} \union
            {x \in {"swap"} : \E l \in Loader : lpc[l] = "activate"}
               \in SUBSET {"edit", "swap"}
        BY Zenon
      <4>2. crossed' \in [Request -> SUBSET {"edit", "swap"}]
        BY <3>1, <4>1, Zenon DEF Decide, RestTypes, RequestTypes
      <4>3. QED BY <3>1, <4>2, Zenon DEF Decide, RestTypes, RequestTypes, LoaderTypes
    <3>2. CASE Stamp(r)
      BY <3>2, Zenon DEF Stamp, RestTypes, RequestTypes, LoaderTypes
    <3>3. QED BY <1>3, <3>1, <3>2, Zenon
  <2>5. QED BY <2>2, <2>3, <2>4, Zenon DEF RestTypes
<1>4. QED BY <1>1, <1>2, <1>3, LoadTypes, Zenon DEF Next, Exited

\* Operator, loaders and requests, in any interleaving and with any number of
\* loads at a time, keep every variable in its type: what is compiled is always
\* a whole bundle, and what is activated the payload of a manifest.
THEOREM TypeCorrect == Spec => []TypeOK
<1>1. Init => RestTypes
  <2> SUFFICES ASSUME Init PROVE RestTypes
    OBVIOUS
  <2>1. 0 \in 0 .. MaxEdits /\ 0 \in Nat
    BY EditsAssumption
  <2>2. edits \in 0 .. MaxEdits
    BY <2>1, Zenon DEF Init
  <2>3. ProcessTypes
    BY <2>2, Zenon DEF Init, ProcessTypes
  <2>4. <<None, None, 0>> \in (Bundle \union {None}) \X (Payload \union {None}) \X Nat
    BY <2>1, Zenon
  <2>5. LoaderTypes
    BY <2>4, Zenon DEF Init, LoaderTypes
  <2>6. RequestTypes
    BY Zenon DEF Init, RequestTypes
  <2>7. QED BY <2>3, <2>5, <2>6, Zenon DEF RestTypes
<1>2. SignInv /\ RestTypes => TypeOK
  BY Zenon DEF SignInv, Shape, RestTypes, RequestTypes, LoaderTypes, ProcessTypes, TypeOK
<1>3. QED BY <1>1, <1>2, InitSign, SignStep, TypesStep, PTL DEF Spec
=============================================================================
