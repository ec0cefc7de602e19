----------------------------- MODULE AuditTrail -----------------------------
(***************************************************************************)
(* What an audit.Recorder promises its callers, without files, locks or    *)
(* hashes: a trail of records that only grows by one record at a time, of  *)
(* which a prefix has been promised (Append returned success) and can no   *)
(* longer be lost.  A record that was written and never promised may stay  *)
(* or may disappear in a crash.                                            *)
(***************************************************************************)
EXTENDS Naturals, Sequences

CONSTANT Body       \* what a record says: subject, action, decision, outcome

VARIABLES trail,    \* the records a reader of the log finds, oldest first
          promised  \* how many of them Append has reported as durable

trailVars == <<trail, promised>>

TrailInit == trail = <<>> /\ promised = 0

\* A record reaches the log; its Append has not returned yet.
Log(b) ==
    /\ trail' = Append(trail, b)
    /\ UNCHANGED promised

\* Append returns success: everything logged so far is durable.
Promise ==
    /\ promised' = Len(trail)
    /\ UNCHANGED trail

\* A crash takes back records that were not promised.
Lose ==
    /\ \E k \in promised .. Len(trail) : trail' = SubSeq(trail, 1, k)
    /\ UNCHANGED promised

TrailNext == (\E b \in Body : Log(b)) \/ Promise \/ Lose

TrailSpec == TrailInit /\ [][TrailNext]_trailVars
=============================================================================
