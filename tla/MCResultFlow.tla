---------------------------- MODULE MCResultFlow ----------------------------
(***************************************************************************)
(* Two calls, to a trusted and to an unlisted upstream, with the shapes of *)
(* result and the spellings of a path that the walk tells apart.           *)
(***************************************************************************)
EXTENDS ResultFlow, TLC

\* "00" and "+1" are numbers to Atoi; "2" is past the end of a two-element array.
MCAtoi == [s \in {"0", "00", "1", "+1", "2", "-1"} |->
              CASE s \in {"0", "00"} -> 0 [] s \in {"1", "+1"} -> 1
                [] s = "2" -> 2 [] OTHER -> -1]

MCFrom == [c1 |-> "crm", c2 |-> "web"]
MCUpstreamProvenance == [crm |-> [source |-> "crm", trusted |-> TRUE]]

\* "2^53+1" is the first whole number that a float64 does not hold; "1e400" is
\* out of its range.
MCFloat == [n \in {"7", "2^53", "2^53+1"} |-> IF n = "7" THEN "7" ELSE "2^53"]

Other == [other |-> 0]
Num(n) == [num |-> n]
Arr(s) == [arr |-> s]
Res(s, c) == [structuredContent |-> s, content |-> c]

Nested == [obj |-> ("a" :> [obj |-> [b |-> Str("x"), c |-> Str("y")]]
                    @@ "0" :> Str("z"))]
Rounds == [obj |-> [a |-> Str("x"), b |-> Num("7"), c |-> Arr(<<Num("2^53+1")>>)]]
Overflows == [obj |-> [a |-> Str("x"), c |-> Arr(<<Num("2^53+1"), Num("1e400")>>)]]

MCResult ==
    [c1 |-> {Res([obj |-> [a |-> Str("x"), b |-> Str("y")]], Arr(<<[obj |-> [t |-> Str("x")]]>>)),
             Res(Nested, Overflows), Res(Overflows, Rounds),
             Res(Arr(<<Str("x"), Arr(<<Str("y"), Str("z")>>)>>), Str("x")),
             Res(Arr(<<Str("x"), Str("y"), Str("z"), Other>>), Other)},
     c2 |-> {Res([obj |-> [a |-> Str("x"), b |-> Str("")]], Other),
             Res(Str("y"), Arr(<<>>)),
             Res([obj |-> [a |-> Str("x"), b |-> Str("z"), c |-> [obj |-> <<>>]]], Other)}]

Redact(t) == [type |-> "redact", target |-> t]
SC(p) == <<"structuredContent">> \o p

MCObligation ==
    [c1 |-> {<<>>,
             <<Redact(SC(<<"a", "b">>)), Redact(SC(<<"a">>))>>,
             <<Redact(SC(<<"a">>)), Redact(SC(<<"a", "b">>))>>,
             <<Redact(SC(<<"a", "c">>)), Redact(SC(<<"00">>))>>,
             <<Redact(<<"content", "c", "0">>), Redact(SC(<<"c", "b">>)),
               Redact(SC(<<"+1", "0">>)), Redact(SC(<<"2">>))>>,
             <<Redact(<<"content", "0", "t">>), Redact(SC(<<"0">>)), Redact(SC(<<"-1">>))>>,
             <<Redact(<<"structuredContent">>), Redact(<<"meta", "a">>),
               [type |-> "mask", target |-> SC(<<"a">>)]>>},
     c2 |-> {<<>>, <<Redact(SC(<<"a">>)), Redact(SC(<<"c", "a">>))>>}]

\* Every address in a result of an upstream.
RECURSIVE AddressesIn(_)
AddressesIn(v) ==
    {<<>>} \union
    IF Is("obj", v)
    THEN UNION {{<<[key |-> k]>> \o a : a \in AddressesIn(v.obj[k])} : k \in DOMAIN v.obj}
    ELSE IF Is("arr", v)
    THEN UNION {{<<[at |-> i]>> \o a : a \in AddressesIn(v.arr[i])} : i \in DOMAIN v.arr}
    ELSE {}

MCAddress ==
    UNION {UNION {AddressesIn(r.structuredContent) \union AddressesIn(r.content) :
                     r \in MCResult[c]} : c \in DOMAIN MCResult}
=============================================================================
