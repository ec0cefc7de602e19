--------------------------- MODULE ProvenanceMap ----------------------------
(***************************************************************************)
(* internal/gateway/provenance.go: one subject's map from the strings its  *)
(* tool results contained to the upstream that returned them.              *)
(***************************************************************************)
EXTENDS Integers, FiniteSets

CONSTANTS TTL,          \* provenanceCacheTTL
          MaxEntries,   \* provenanceCacheMaxSize
          EmptyString   \* the value ""

ASSUME TTLAssumption == TTL \in Nat \ {0}
ASSUME MaxEntriesAssumption == MaxEntries \in Nat \ {0}

\* The label of anything the gateway cannot trace.
untrustedProvenance == [source |-> "unspecified", trusted |-> FALSE]

\* A subject that has no map yet.
NoEntries == [v \in {} |-> 0]

\* Mutant: the map is emptied one entry too early.
recordUnder(m, value, prov, now) ==
    LET base == IF Cardinality(DOMAIN m) + 1 >= MaxEntries THEN NoEntries ELSE m
    IN  IF value = EmptyString THEN m
        ELSE [v \in DOMAIN base \union {value} |->
                 IF v = value THEN [prov |-> prov, expiresAt |-> now + TTL]
                              ELSE base[v]]

\* record: a full map is emptied before the value is put in, even when the
\* value is already one of its keys.
record(m, value, prov, now) ==
    LET base == IF Cardinality(DOMAIN m) >= MaxEntries THEN NoEntries ELSE m
    IN  IF value = EmptyString THEN m
        ELSE [v \in DOMAIN base \union {value} |->
                 IF v = value THEN [prov |-> prov, expiresAt |-> now + TTL]
                              ELSE base[v]]

\* Mutant: entries do not expire.
resolveStale(m, value, now) ==
    IF value \in DOMAIN m THEN m[value].prov ELSE untrustedProvenance

\* resolve: the label of a live entry, or the untrusted default.
resolve(m, value, now) ==
    IF value \in DOMAIN m /\ now < m[value].expiresAt
    THEN m[value].prov
    ELSE untrustedProvenance
=============================================================================
