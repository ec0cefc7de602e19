---------------------------- MODULE Obligations -----------------------------
(***************************************************************************)
(* internal/gateway/obligations.go: the redactions a decision may ask for, *)
(* carried out on a tool result before the agent sees it.                  *)
(*                                                                         *)
(* A JSON value is a record with one field: obj (a function from keys),    *)
(* arr (a sequence), str, num (a number as it is spelled), or other, which *)
(* stands for booleans, null and absent fields.  A path is the sequence of *)
(* its dot-separated segments.                                             *)
(*                                                                         *)
(* A field of a result is raw text, here [json, written].  Decoding makes  *)
(* every number a float64, so what json.Marshal has written shows Float[n] *)
(* where json has the number n; what an upstream sent shows n itself.      *)
(***************************************************************************)
EXTENDS Integers, Sequences

CONSTANTS Redacted,   \* redactedPlaceholder
          Atoi,       \* strconv.Atoi, on the segments that are numbers
          Float,      \* the numbers a float64 can hold, as Go writes them again
          MaxDepth    \* bound: how deep values nest

ASSUME AtoiAssumption == \A s \in DOMAIN Atoi : Atoi[s] \in Int
\* What Go writes for a float64 is that float64 when it is read again.
ASSUME FloatAssumption ==
    \A n \in DOMAIN Float : Float[n] \in DOMAIN Float /\ Float[Float[n]] = Float[n]
ASSUME DepthAssumption == MaxDepth \in Nat

Is(kind, v) == kind \in DOMAIN v
Str(s) == [str |-> s]
Sent(v) == [json |-> v, written |-> FALSE]

\* The values directly inside a value, and those at each depth.
Kids(v) ==
    IF Is("obj", v) THEN {v.obj[k] : k \in DOMAIN v.obj}
    ELSE IF Is("arr", v) THEN {v.arr[i] : i \in DOMAIN v.arr} ELSE {}

Level(v) ==
    LET level[i \in 0 .. MaxDepth] ==
            IF i = 0 THEN {v} ELSE UNION {Kids(x) : x \in level[i - 1]}
    IN  level

\* json.Unmarshal into an any fails on a number that no float64 can hold,
\* wherever in the value it is.  What Marshal wrote can be read again.
Unmarshals(raw) ==
    \/ raw.written
    \/ \A i \in 0 .. MaxDepth : \A x \in Level(raw.json)[i] :
            Is("num", x) => x.num \in DOMAIN Float

\* One segment leads somewhere: a key of the object, an index of the array.
Leads(v, seg) ==
    IF Is("obj", v) THEN seg \in DOMAIN v.obj
    ELSE Is("arr", v) /\ seg \in DOMAIN Atoi /\ Atoi[seg] + 1 \in DOMAIN v.arr

Child(v, seg) == IF Is("obj", v) THEN v.obj[seg] ELSE v.arr[Atoi[seg] + 1]

Replace(v, seg, x) ==
    IF Is("obj", v) THEN [obj |-> [v.obj EXCEPT ![seg] = x]]
                    ELSE [arr |-> [v.arr EXCEPT ![Atoi[seg] + 1] = x]]

\* setAtPath's cur after each number of segments, as far as they lead.
Cur(root, segments) ==
    LET cur[i \in 0 .. Len(segments)] ==
            IF i = 0 THEN root ELSE Child(cur[i - 1], segments[i])
    IN  cur

Resolves(root, segments) ==
    /\ segments # <<>>
    /\ \A i \in 1 .. Len(segments) : Leads(Cur(root, segments)[i - 1], segments[i])

\* The same with the last one replaced, from the end of the path: rebuilt[i] is
\* what all but the last i segments lead to.
Rebuilt(root, segments) ==
    LET n == Len(segments)
        rebuilt[i \in 0 .. n] ==
            IF i = 0 THEN Str(Redacted)
            ELSE Replace(Cur(root, segments)[n - i], segments[n - i + 1], rebuilt[i - 1])
    IN  rebuilt

\* setAtPath, which changes the decoded value in place: the value afterwards.
\* A path that does not resolve to its end changes nothing.
setAtPath(root, segments) ==
    IF Resolves(root, segments) THEN Rebuilt(root, segments)[Len(segments)] ELSE root

\* Mutant: the decoded value is written back whether or not the path resolved.
redactInJSONAlways(raw, segments) ==
    IF Unmarshals(raw) THEN [json |-> setAtPath(raw.json, segments), written |-> TRUE]
    ELSE raw

\* redactInJSON: the field is written anew, or stays the text it was.
redactInJSON(raw, segments) ==
    IF Unmarshals(raw) /\ Resolves(raw.json, segments)
    THEN [json |-> setAtPath(raw.json, segments), written |-> TRUE]
    ELSE raw

\* redactPath: the first segment selects the field, and is not enough.
redactPath(result, path) ==
    IF Len(path) < 2 \/ Head(path) \notin {"structuredContent", "content"} THEN result
    ELSE [result EXCEPT ![Head(path)] = redactInJSON(@, Tail(path))]

\* The result after each number of obligations; types other than redact are
\* ignored.
After(result, obligations) ==
    LET after[i \in 0 .. Len(obligations)] ==
            IF i = 0 THEN result
            ELSE IF obligations[i].type # "redact" THEN after[i - 1]
            ELSE redactPath(after[i - 1], obligations[i].target)
    IN  after

applyObligations(result, obligations) == After(result, obligations)[Len(obligations)]

-----------------------------------------------------------------------------
\* The reference.  A step goes to one child, by its key or by its place from 1
\* on; an address is a sequence of steps.
Step == [key : STRING] \union [at : Int]

Has(v, s) ==
    IF Is("obj", v) THEN Is("key", s) /\ s.key \in DOMAIN v.obj
    ELSE Is("arr", v) /\ Is("at", s) /\ s.at \in DOMAIN v.arr

Kid(v, s) == IF Is("obj", v) THEN v.obj[s.key] ELSE v.arr[s.at]

\* The values along an address, and whether it exists.
Along(v, a) ==
    LET along[i \in 0 .. Len(a)] == IF i = 0 THEN v ELSE Kid(along[i - 1], a[i])
    IN  along

Reaches(v, a) == \A i \in 1 .. Len(a) : Has(Along(v, a)[i - 1], a[i])

\* What stands at an address, the children apart.
Node(v) ==
    IF Is("obj", v) THEN [keys |-> DOMAIN v.obj]
    ELSE IF Is("arr", v) THEN [places |-> DOMAIN v.arr] ELSE v

Spells(seg, s) ==
    IF Is("key", s) THEN seg = s.key ELSE seg \in DOMAIN Atoi /\ Atoi[seg] + 1 = s.at

\* The path names what is at this address, or something it is a part of.
Covers(path, a) ==
    /\ Len(path) <= Len(a)
    /\ \A i \in 1 .. Len(path) : Spells(path[i], a[i])

\* What the agent reads at an address of a field.
Rounded(n) == IF Is("num", n) THEN [num |-> Float[n.num]] ELSE n
Text(raw, a) ==
    LET n == Node(Along(raw.json, a)[Len(a)]) IN IF raw.written THEN Rounded(n) ELSE n

\* new is old with everything that the paths name masked, each thing as a whole
\* and whatever the order, and nothing else changed, but for the numbers if the
\* paths name anything at all.
Masked(new, old, paths, addresses) ==
    \A a \in addresses :
        IF Reaches(old.json, a) /\ \A p \in paths : Covers(p, a) => Len(p) = Len(a)
        THEN /\ Reaches(new.json, a)
             /\ Text(new, a) =
                   IF \E p \in paths : Covers(p, a) THEN Str(Redacted)
                   ELSE IF \E p \in paths : Resolves(old.json, p) THEN Rounded(Text(old, a))
                   ELSE Text(old, a)
        ELSE ~Reaches(new.json, a)
=============================================================================
