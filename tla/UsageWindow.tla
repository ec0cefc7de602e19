---------------------------- MODULE UsageWindow -----------------------------
(***************************************************************************)
(* internal/gateway/usage.go: the fixed call-rate window of one subject.   *)
(* A subject without an entry in the tracker's map has count 0: a stored   *)
(* window has counted at least one call.                                   *)
(***************************************************************************)
EXTENDS Integers

CONSTANT Window     \* usageTracker.window

ASSUME WindowAssumption == Window \in Nat \ {0}

WindowState == [start : Nat, count : Nat]

NoWindow == [start |-> 0, count |-> 0]

\* The window is absent or over for a call made at now.
Expired(s, now) == s.count = 0 \/ now - s.start >= Window

\* The window after a call at now has been counted; its count is what the
\* policy is shown.
recordAndCount(s, now) ==
    IF Expired(s, now) THEN [start |-> now, count |-> 1]
                       ELSE [s EXCEPT !.count = @ + 1]

\* What tools/list shows the policy; nothing is counted.
peek(s, now) == IF Expired(s, now) THEN 0 ELSE s.count
=============================================================================
