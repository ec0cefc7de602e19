-------------------------- MODULE ResultFlowProofs --------------------------
(***************************************************************************)
(* For any results, lists of obligations and number of concurrent calls:   *)
(* redaction masks exactly what the paths name, and the provenance cache   *)
(* traces strings to results that showed them.                             *)
(***************************************************************************)
EXTENDS ResultFlow, WellFoundedInduction, TLAPS

-----------------------------------------------------------------------------
\* Induction, on the set of the numbers for which a claim holds.
LEMMA Induction ==
    ASSUME NEW S, 0 \in S, \A n \in Nat : n \in S => n + 1 \in S
    PROVE  \A n \in Nat : n \in S
<1> DEFINE T == {n \in Nat : n \notin S}
<1>1. SUFFICES ASSUME T # {} PROVE FALSE
  OBVIOUS
<1> DEFINE R == {ss \in Nat \X Nat : ss[1] < ss[2]}
<1>2. PICK x \in T : \A y \in T : ~(<<y, x>> \in R)
  <2>1. T \subseteq Nat
    OBVIOUS
  <2>2. IsWellFoundedOn(R, Nat)
    BY NatLessThanWellFounded, Zenon DEF OpToRel
  <2> HIDE DEF T, R
  <2> QED BY <1>1, <2>1, <2>2, WFMin, Zenon
<1>3. x \in Nat /\ x # 0 /\ x - 1 \in Nat
  BY <1>2
<1>4. x - 1 \in T
  BY <1>3
<1>5. <<x - 1, x>> \in R
  BY <1>3
<1> QED BY <1>2, <1>4, <1>5

\* Cur is the function its recursion describes.
LEMMA CurStep ==
    ASSUME NEW root, NEW segments, Len(segments) \in Nat
    PROVE  /\ Cur(root, segments)[0] = root
           /\ \A i \in 1 .. Len(segments) :
                 Cur(root, segments)[i] = Child(Cur(root, segments)[i - 1], segments[i])
<1> DEFINE Body(f, i) == IF i = 0 THEN root ELSE Child(f[i - 1], segments[i])
           S == {n \in Nat : \E f : f = [i \in 0 .. n |-> Body(f, i)]}
<1>1. 0 \in S
  <2> DEFINE f == [i \in 0 .. 0 |-> root]
  <2>1. f = [i \in 0 .. 0 |-> Body(f, i)]
    OBVIOUS
  <2> QED BY <2>1, Zenon
<1>2. ASSUME NEW n \in Nat, n \in S PROVE n + 1 \in S
  <2>1. PICK f : f = [i \in 0 .. n |-> Body(f, i)]
    BY <1>2
  <2> DEFINE g == [i \in 0 .. n + 1 |-> IF i <= n THEN f[i] ELSE Body(f, i)]
  <2>2. \A i \in 0 .. n : g[i] = f[i]
    OBVIOUS
  <2>3. \A i \in 0 .. n : f[i] = Body(f, i)
    BY <2>1
  <2>4. \A i \in 0 .. n + 1 : Body(g, i) = Body(f, i)
    BY <2>2
  <2>5. \A i \in 0 .. n + 1 : g[i] = Body(g, i)
    BY <2>2, <2>3, <2>4
  <2>6. g = [i \in 0 .. n + 1 |-> Body(g, i)]
    BY <2>5
  <2> HIDE DEF g, Body
  <2>7. \E h : h = [i \in 0 .. n + 1 |-> Body(h, i)]
    BY <2>6, Zenon
  <2>8. n + 1 \in Nat
    OBVIOUS
  <2> QED BY <2>7, <2>8, Zenon
<1>3. Len(segments) \in S
  <2>1. \A n \in Nat : n \in S => n + 1 \in S
    BY <1>2, Zenon
  <2> HIDE DEF S
  <2> QED BY <1>1, <2>1, Induction, Zenon
<1>4. PICK f : f = [i \in 0 .. Len(segments) |-> Body(f, i)]
  BY <1>3
<1>5. Cur(root, segments) = [i \in 0 .. Len(segments) |-> Body(Cur(root, segments), i)]
  BY <1>4, Zenon DEF Cur
<1> HIDE DEF Body
<1>6. \A i \in 0 .. Len(segments) : Cur(root, segments)[i] = Body(Cur(root, segments), i)
  BY <1>5, Zenon
<1> USE DEF Body
<1> QED BY <1>6
\* Rebuilt is the function its recursion describes.
LEMMA RebuiltStep ==
    ASSUME NEW root, NEW segments, Len(segments) \in Nat
    PROVE  /\ Rebuilt(root, segments)[0] = Str(Redacted)
           /\ \A i \in 1 .. Len(segments) :
                 Rebuilt(root, segments)[i] =
                     Replace(Cur(root, segments)[Len(segments) - i],
                             segments[Len(segments) - i + 1],
                             Rebuilt(root, segments)[i - 1])
<1> DEFINE Body(f, i) == IF i = 0 THEN Str(Redacted)
                         ELSE Replace(Cur(root, segments)[Len(segments) - i],
                                      segments[Len(segments) - i + 1], f[i - 1])
           S == {n \in Nat : \E f : f = [i \in 0 .. n |-> Body(f, i)]}
<1>1. 0 \in S
  <2> DEFINE f == [i \in 0 .. 0 |-> Str(Redacted)]
  <2>1. f = [i \in 0 .. 0 |-> Body(f, i)]
    OBVIOUS
  <2> QED BY <2>1, Zenon
<1>2. ASSUME NEW n \in Nat, n \in S PROVE n + 1 \in S
  <2>1. PICK f : f = [i \in 0 .. n |-> Body(f, i)]
    BY <1>2
  <2> DEFINE g == [i \in 0 .. n + 1 |-> IF i <= n THEN f[i] ELSE Body(f, i)]
  <2>2. \A i \in 0 .. n : g[i] = f[i]
    OBVIOUS
  <2>3. \A i \in 0 .. n : f[i] = Body(f, i)
    BY <2>1
  <2>4. \A i \in 0 .. n + 1 : Body(g, i) = Body(f, i)
    BY <2>2
  <2>5. \A i \in 0 .. n + 1 : g[i] = Body(g, i)
    BY <2>2, <2>3, <2>4
  <2>6. g = [i \in 0 .. n + 1 |-> Body(g, i)]
    BY <2>5, SMTT(30)
  <2> HIDE DEF g, Body
  <2>7. \E h : h = [i \in 0 .. n + 1 |-> Body(h, i)]
    BY <2>6, Zenon
  <2>8. n + 1 \in Nat
    OBVIOUS
  <2> QED BY <2>7, <2>8, Zenon
<1>3. Len(segments) \in S
  <2>1. \A n \in Nat : n \in S => n + 1 \in S
    BY <1>2, Zenon
  <2> HIDE DEF S
  <2> QED BY <1>1, <2>1, Induction, Zenon
<1>4. PICK f : f = [i \in 0 .. Len(segments) |-> Body(f, i)]
  BY <1>3
<1>5. Rebuilt(root, segments) = [i \in 0 .. Len(segments) |-> Body(Rebuilt(root, segments), i)]
  BY <1>4, Zenon DEF Rebuilt
<1> HIDE DEF Body
<1>6. \A i \in 0 .. Len(segments) : Rebuilt(root, segments)[i] = Body(Rebuilt(root, segments), i)
  BY <1>5, Zenon
<1> USE DEF Body
<1> QED BY <1>6
\* Along is the function its recursion describes.
LEMMA AlongStep ==
    ASSUME NEW v, NEW a, Len(a) \in Nat
    PROVE  /\ Along(v, a)[0] = v
           /\ \A i \in 1 .. Len(a) :
                 Along(v, a)[i] = Kid(Along(v, a)[i - 1], a[i])
<1> DEFINE Body(f, i) == IF i = 0 THEN v ELSE Kid(f[i - 1], a[i])
           S == {n \in Nat : \E f : f = [i \in 0 .. n |-> Body(f, i)]}
<1>1. 0 \in S
  <2> DEFINE f == [i \in 0 .. 0 |-> v]
  <2>1. f = [i \in 0 .. 0 |-> Body(f, i)]
    OBVIOUS
  <2> QED BY <2>1, Zenon
<1>2. ASSUME NEW n \in Nat, n \in S PROVE n + 1 \in S
  <2>1. PICK f : f = [i \in 0 .. n |-> Body(f, i)]
    BY <1>2
  <2> DEFINE g == [i \in 0 .. n + 1 |-> IF i <= n THEN f[i] ELSE Body(f, i)]
  <2>2. \A i \in 0 .. n : g[i] = f[i]
    OBVIOUS
  <2>3. \A i \in 0 .. n : f[i] = Body(f, i)
    BY <2>1
  <2>4. \A i \in 0 .. n + 1 : Body(g, i) = Body(f, i)
    BY <2>2
  <2>5. \A i \in 0 .. n + 1 : g[i] = Body(g, i)
    BY <2>2, <2>3, <2>4
  <2>6. g = [i \in 0 .. n + 1 |-> Body(g, i)]
    BY <2>5
  <2> HIDE DEF g, Body
  <2>7. \E h : h = [i \in 0 .. n + 1 |-> Body(h, i)]
    BY <2>6, Zenon
  <2>8. n + 1 \in Nat
    OBVIOUS
  <2> QED BY <2>7, <2>8, Zenon
<1>3. Len(a) \in S
  <2>1. \A n \in Nat : n \in S => n + 1 \in S
    BY <1>2, Zenon
  <2> HIDE DEF S
  <2> QED BY <1>1, <2>1, Induction, Zenon
<1>4. PICK f : f = [i \in 0 .. Len(a) |-> Body(f, i)]
  BY <1>3
<1>5. Along(v, a) = [i \in 0 .. Len(a) |-> Body(Along(v, a), i)]
  BY <1>4, Zenon DEF Along
<1> HIDE DEF Body
<1>6. \A i \in 0 .. Len(a) : Along(v, a)[i] = Body(Along(v, a), i)
  BY <1>5, Zenon
<1> USE DEF Body
<1> QED BY <1>6
\* After is the function its recursion describes.
LEMMA AfterStep ==
    ASSUME NEW r, NEW os, Len(os) \in Nat
    PROVE  /\ After(r, os)[0] = r
           /\ \A i \in 1 .. Len(os) :
                 After(r, os)[i] =
                     IF os[i].type # "redact" THEN After(r, os)[i - 1]
                     ELSE redactPath(After(r, os)[i - 1], os[i].target)
<1> DEFINE Body(f, i) == IF i = 0 THEN r
                         ELSE IF os[i].type # "redact" THEN f[i - 1]
                         ELSE redactPath(f[i - 1], os[i].target)
           S == {n \in Nat : \E f : f = [i \in 0 .. n |-> Body(f, i)]}
<1>1. 0 \in S
  <2> DEFINE f == [i \in 0 .. 0 |-> r]
  <2>1. f = [i \in 0 .. 0 |-> Body(f, i)]
    OBVIOUS
  <2> QED BY <2>1, Zenon
<1>2. ASSUME NEW n \in Nat, n \in S PROVE n + 1 \in S
  <2>1. PICK f : f = [i \in 0 .. n |-> Body(f, i)]
    BY <1>2
  <2> DEFINE g == [i \in 0 .. n + 1 |-> IF i <= n THEN f[i] ELSE Body(f, i)]
  <2>2. \A i \in 0 .. n : g[i] = f[i]
    OBVIOUS
  <2>3. \A i \in 0 .. n : f[i] = Body(f, i)
    BY <2>1
  <2>4. \A i \in 0 .. n + 1 : Body(g, i) = Body(f, i)
    BY <2>2
  <2>5. \A i \in 0 .. n + 1 : g[i] = Body(g, i)
    BY <2>2, <2>3, <2>4
  <2>6. g = [i \in 0 .. n + 1 |-> Body(g, i)]
    BY <2>5
  <2> HIDE DEF g, Body
  <2>7. \E h : h = [i \in 0 .. n + 1 |-> Body(h, i)]
    BY <2>6, Zenon
  <2>8. n + 1 \in Nat
    OBVIOUS
  <2> QED BY <2>7, <2>8, Zenon
<1>3. Len(os) \in S
  <2>1. \A n \in Nat : n \in S => n + 1 \in S
    BY <1>2, Zenon
  <2> HIDE DEF S
  <2> QED BY <1>1, <2>1, Induction, Zenon
<1>4. PICK f : f = [i \in 0 .. Len(os) |-> Body(f, i)]
  BY <1>3
<1>5. After(r, os) = [i \in 0 .. Len(os) |-> Body(After(r, os), i)]
  BY <1>4, Zenon DEF After
<1> HIDE DEF Body
<1>6. \A i \in 0 .. Len(os) : After(r, os)[i] = Body(After(r, os), i)
  BY <1>5, Zenon
<1> USE DEF Body
<1> QED BY <1>6

-----------------------------------------------------------------------------
\* A segment that spells an existing step leads where the step goes.
LEMMA SpelledLeads ==
    ASSUME NEW v, NEW seg, NEW s \in Step, Has(v, s), Spells(seg, s)
    PROVE  Leads(v, seg) /\ Child(v, seg) = Kid(v, s)
<1>1. CASE Is("obj", v)
  BY <1>1, Zenon DEF Has, Spells, Leads, Child, Kid
<1>2. CASE ~Is("obj", v)
  <2>1. Is("arr", v) /\ Is("at", s) /\ s.at \in DOMAIN v.arr
    BY <1>2, Zenon DEF Has
  <2>2. ~Is("key", s)
    BY <2>1 DEF Step, Is
  <2> QED BY <1>2, <2>1, <2>2, Zenon DEF Spells, Leads, Child, Kid
<1> QED BY <1>1, <1>2, Zenon

\* Replacing a child changes that child, and neither what the value is nor its
\* other children.
LEMMA ReplaceOne ==
    ASSUME NEW v, NEW seg, NEW x, NEW s \in Step, Leads(v, seg)
    PROVE  /\ Has(Replace(v, seg, x), s) <=> Has(v, s)
           /\ Has(v, s) => Kid(Replace(v, seg, x), s) =
                               IF Spells(seg, s) THEN x ELSE Kid(v, s)
           /\ Node(Replace(v, seg, x)) = Node(v)
<1>1. CASE Is("obj", v)
  <2> DEFINE f == [v.obj EXCEPT ![seg] = x]
  <2>1. DOMAIN f = DOMAIN v.obj /\ seg \in DOMAIN v.obj
        /\ \A k \in DOMAIN v.obj : f[k] = IF k = seg THEN x ELSE v.obj[k]
    BY <1>1 DEF Leads
  <2> HIDE DEF f
  <2> DEFINE w == [obj |-> f]
  <2>2. Is("obj", w) /\ w.obj = f
    BY DEF Is
  <2>3. Replace(v, seg, x) = w
    BY <1>1, Zenon DEF Replace, f
  <2> HIDE DEF w
  <2>4. Has(w, s) <=> Has(v, s)
    BY <1>1, <2>1, <2>2, Zenon DEF Has
  <2>5. Has(v, s) => Kid(w, s) = IF Spells(seg, s) THEN x ELSE Kid(v, s)
    BY <1>1, <2>1, <2>2, Zenon DEF Has, Kid, Spells
  <2>6. Node(w) = Node(v)
    BY <1>1, <2>1, <2>2, Zenon DEF Node
  <2> QED BY <2>3, <2>4, <2>5, <2>6, Zenon
<1>2. CASE ~Is("obj", v)
  <2> DEFINE i == Atoi[seg] + 1
  <2> DEFINE f == [v.arr EXCEPT ![i] = x]
  <2>1. Is("arr", v) /\ seg \in DOMAIN Atoi /\ i \in DOMAIN v.arr
    BY <1>2, Zenon DEF Leads
  <2> HIDE DEF i
  <2>2. DOMAIN f = DOMAIN v.arr /\ \A k \in DOMAIN v.arr : f[k] = IF k = i THEN x ELSE v.arr[k]
    OBVIOUS
  <2> HIDE DEF f
  <2> DEFINE w == [arr |-> f]
  <2>3. ~Is("obj", w) /\ Is("arr", w) /\ w.arr = f
    BY DEF Is
  <2>4. Replace(v, seg, x) = w
    BY <1>2, Zenon DEF Replace, f, i
  <2>5. Is("at", s) => ~Is("key", s)
    BY DEF Step, Is
  <2> HIDE DEF w
  <2>6. Has(w, s) <=> Has(v, s)
    BY <1>2, <2>1, <2>2, <2>3, Zenon DEF Has
  <2>7. Has(v, s) => (Spells(seg, s) <=> i = s.at)
    BY <1>2, <2>1, <2>5, Zenon DEF Has, Spells, i
  <2>8. Has(v, s) => Kid(w, s) = IF Spells(seg, s) THEN x ELSE Kid(v, s)
    BY <1>2, <2>2, <2>3, <2>7, Zenon DEF Has, Kid
  <2>9. Node(w) = Node(v)
    BY <1>2, <2>1, <2>2, <2>3, Zenon DEF Node
  <2> QED BY <2>4, <2>6, <2>8, <2>9, Zenon
<1> QED BY <1>1, <1>2, Zenon

\* A string has no children.
LEMMA StringIsLeaf ==
    ASSUME NEW x, NEW s
    PROVE  ~Has(Str(x), s) /\ Node(Str(x)) = Str(x)
BY DEF Has, Node, Str, Is

\* The first j steps of an address exist; the first j are what the path spells,
\* or all of the path and more.
Upto(v, a, j) == \A i \in 1 .. j : Has(Along(v, a)[i - 1], a[i])
On(p, a, j) == j <= Len(p) /\ \A i \in 1 .. j : Spells(p[i], a[i])
Below(p, a, j) == Len(p) < j /\ \A i \in 1 .. Len(p) : Spells(p[i], a[i])

\* One step more.
LEMMA OneMore ==
    ASSUME NEW v, NEW a, NEW p, NEW j \in Nat, Len(p) \in Nat
    PROVE  /\ Upto(v, a, 0) /\ On(p, a, 0) /\ ~Below(p, a, 0)
           /\ Upto(v, a, j + 1) <=> Upto(v, a, j) /\ Has(Along(v, a)[j], a[j + 1])
           /\ On(p, a, j + 1) <=> On(p, a, j) /\ j < Len(p) /\ Spells(p[j + 1], a[j + 1])
           /\ Below(p, a, j + 1) <=> Below(p, a, j) \/ (On(p, a, j) /\ j = Len(p))
<1>1. \A i : i \in 1 .. j + 1 <=> i \in 1 .. j \/ i = j + 1
  OBVIOUS
<1>2. Upto(v, a, j + 1) <=> Upto(v, a, j) /\ Has(Along(v, a)[j], a[j + 1])
  <2>1. (j + 1) - 1 = j
    OBVIOUS
  <2> QED BY <1>1, <2>1, Zenon DEF Upto
<1>3. On(p, a, j + 1) <=> On(p, a, j) /\ j < Len(p) /\ Spells(p[j + 1], a[j + 1])
  <2>1. j + 1 <= Len(p) <=> j <= Len(p) /\ j < Len(p)
    OBVIOUS
  <2> QED BY <1>1, <2>1, Zenon DEF On
<1>4. Below(p, a, j + 1) <=> Below(p, a, j) \/ (On(p, a, j) /\ j = Len(p))
  <2>1. Len(p) < j + 1 <=> Len(p) < j \/ j = Len(p)
    OBVIOUS
  <2>2. j = Len(p) => j <= Len(p)
    OBVIOUS
  <2> QED BY <2>1, <2>2, Zenon DEF On, Below
<1> QED
  BY <1>2, <1>3, <1>4 DEF Upto, On, Below

\* Where an address is spelled by the path, both walk through the same values.
LEMMA WalkTogether ==
    ASSUME NEW v, NEW p \in Seq(STRING), NEW a \in Seq(Step)
    PROVE  \A j \in Nat : j <= Len(a) /\ Upto(v, a, j) /\ On(p, a, j)
                             => Along(v, a)[j] = Cur(v, p)[j]
<1> DEFINE P(j) == j <= Len(a) /\ Upto(v, a, j) /\ On(p, a, j)
                      => Along(v, a)[j] = Cur(v, p)[j]
           S == {j \in Nat : P(j)}
<1>1. Len(a) \in Nat /\ Len(p) \in Nat
  OBVIOUS
<1>2. 0 \in S
  <2>1. Along(v, a)[0] = Cur(v, p)[0]
    BY <1>1, AlongStep, CurStep
  <2> QED BY <2>1
<1>3. ASSUME NEW j \in Nat, j \in S PROVE j + 1 \in S
  <2>1. SUFFICES ASSUME j + 1 <= Len(a), Upto(v, a, j + 1), On(p, a, j + 1)
                 PROVE  Along(v, a)[j + 1] = Cur(v, p)[j + 1]
    OBVIOUS
  <2>2. /\ j <= Len(a) /\ j + 1 \in 1 .. Len(a) /\ (j + 1) - 1 = j
        /\ a[j + 1] \in Step
    BY <1>1, <2>1
  <2>3. /\ Upto(v, a, j) /\ Has(Along(v, a)[j], a[j + 1])
        /\ On(p, a, j) /\ j < Len(p) /\ Spells(p[j + 1], a[j + 1])
    BY <1>1, <2>1, OneMore, Zenon
  <2>4. j + 1 \in 1 .. Len(p)
    BY <1>1, <2>3
  <2>5. Along(v, a)[j] = Cur(v, p)[j]
    BY <1>3, <2>2, <2>3, Zenon
  <2>6. Kid(Along(v, a)[j], a[j + 1]) = Child(Along(v, a)[j], p[j + 1])
    BY <2>2, <2>3, SpelledLeads, Zenon
  <2>7. Along(v, a)[j + 1] = Kid(Along(v, a)[j], a[j + 1])
    BY <1>1, <2>2, AlongStep
  <2>8. Cur(v, p)[j + 1] = Child(Cur(v, p)[j], p[j + 1])
    BY <1>1, <2>2, <2>4, CurStep
  <2> QED BY <2>5, <2>6, <2>7, <2>8, Zenon
<1>4. \A j \in Nat : j \in S
  <2>1. \A j \in Nat : j \in S => j + 1 \in S
    BY <1>3, Zenon
  <2> HIDE DEF S
  <2> QED BY <1>2, <2>1, Induction, Zenon
<1> QED BY <1>4, Zenon

\* A path that does not resolve covers no existing address.
LEMMA UnresolvedCoversNothing ==
    ASSUME NEW v, NEW p \in Seq(STRING), NEW a \in Seq(Step), p # <<>>,
           Reaches(v, a), Covers(p, a)
    PROVE  Resolves(v, p)
<1>1. Len(a) \in Nat /\ Len(p) \in Nat /\ Len(p) <= Len(a)
  BY DEF Covers
<1>2. SUFFICES ASSUME NEW i \in 1 .. Len(p)
               PROVE  Leads(Cur(v, p)[i - 1], p[i])
  BY Zenon DEF Resolves
<1>3. /\ i - 1 \in Nat /\ i - 1 <= Len(a) /\ i - 1 <= Len(p) /\ i \in 1 .. Len(a)
      /\ \A k \in 1 .. i - 1 : k \in 1 .. Len(a) /\ k \in 1 .. Len(p)
      /\ a[i] \in Step
  BY <1>1
<1>4. Upto(v, a, i - 1) /\ Has(Along(v, a)[i - 1], a[i])
  BY <1>3, Zenon DEF Upto, Reaches
<1>5. On(p, a, i - 1) /\ Spells(p[i], a[i])
  BY <1>3, Zenon DEF On, Covers
<1>6. Along(v, a)[i - 1] = Cur(v, p)[i - 1]
  BY <1>3, <1>4, <1>5, WalkTogether, Zenon
<1> QED BY <1>3, <1>4, <1>5, <1>6, SpelledLeads, Zenon

\* Along an address, the value with the end of the path replaced: what Rebuilt
\* built as far as the path spells it, nothing below the end of the path, and
\* the old value elsewhere.
LEMMA WalkRebuilt ==
    ASSUME NEW v, NEW p \in Seq(STRING), NEW a \in Seq(Step), Resolves(v, p),
           NEW w, w = Rebuilt(v, p)[Len(p)]
    PROVE  \A j \in Nat : j <= Len(a) =>
              /\ Upto(w, a, j) <=> Upto(v, a, j) /\ ~Below(p, a, j)
              /\ Upto(v, a, j) /\ On(p, a, j) => Along(w, a)[j] = Rebuilt(v, p)[Len(p) - j]
              /\ Upto(v, a, j) /\ ~On(p, a, j) /\ ~Below(p, a, j)
                    => Along(w, a)[j] = Along(v, a)[j]
<1> DEFINE New(j) == Along(w, a)[j]
           Old(j) == Along(v, a)[j]
           Q(j) == /\ Upto(w, a, j) <=> Upto(v, a, j) /\ ~Below(p, a, j)
                   /\ Upto(v, a, j) /\ On(p, a, j) => New(j) = Rebuilt(v, p)[Len(p) - j]
                   /\ Upto(v, a, j) /\ ~On(p, a, j) /\ ~Below(p, a, j) => New(j) = Old(j)
           S == {j \in Nat : j <= Len(a) => Q(j)}
<1>1. Len(a) \in Nat /\ Len(p) \in Nat
  OBVIOUS
<1>2. 0 \in S
  <2>1. New(0) = w /\ Len(p) - 0 = Len(p) /\ 0 \in Nat
    BY <1>1, AlongStep
  <2>2. Upto(w, a, 0) /\ Upto(v, a, 0) /\ On(p, a, 0) /\ ~Below(p, a, 0)
    BY <1>1, <2>1, OneMore, ZenonT(40)
  <2> QED BY <2>1, <2>2, Zenon
<1>3. ASSUME NEW j \in Nat, j \in S PROVE j + 1 \in S
  <2>1. SUFFICES ASSUME j + 1 <= Len(a) PROVE Q(j + 1)
    OBVIOUS
  <2>2. /\ j <= Len(a) /\ j + 1 \in 1 .. Len(a) /\ (j + 1) - 1 = j
        /\ a[j + 1] \in Step
    BY <1>1, <2>1
  <2>3. Q(j)
    BY <1>3, <2>2, Zenon
  <2>4. /\ New(j + 1) = Kid(New(j), a[j + 1])
        /\ Old(j + 1) = Kid(Old(j), a[j + 1])
    BY <1>1, <2>2, AlongStep
  <2>5. /\ Upto(v, a, j + 1) <=> Upto(v, a, j) /\ Has(Old(j), a[j + 1])
        /\ Upto(w, a, j + 1) <=> Upto(w, a, j) /\ Has(New(j), a[j + 1])
        /\ On(p, a, j + 1) <=> On(p, a, j) /\ j < Len(p) /\ Spells(p[j + 1], a[j + 1])
        /\ Below(p, a, j + 1) <=> Below(p, a, j) \/ (On(p, a, j) /\ j = Len(p))
    BY <1>1, OneMore, Zenon
  <2>6. On(p, a, j) => ~Below(p, a, j) /\ j <= Len(p)
    BY <1>1 DEF On, Below
  <2>7. CASE ~Upto(v, a, j)
    BY <2>3, <2>5, <2>7, Zenon
  <2>8. CASE Upto(v, a, j) /\ Below(p, a, j)
    BY <2>3, <2>5, <2>6, <2>8, Zenon
  <2>9. CASE Upto(v, a, j) /\ ~On(p, a, j) /\ ~Below(p, a, j)
    BY <2>3, <2>4, <2>5, <2>9, Zenon
  <2>10. CASE Upto(v, a, j) /\ On(p, a, j) /\ j = Len(p)
    <3>1. Len(p) - j = 0 /\ ~(j < Len(p))
      BY <1>1, <2>10
    <3>2. New(j) = Str(Redacted)
      BY <1>1, <2>3, <2>10, <3>1, RebuiltStep, ZenonT(40)
    <3>3. ~Has(New(j), a[j + 1])
      BY <3>2, StringIsLeaf, Zenon
    <3> QED BY <2>5, <2>10, <3>1, <3>3, Zenon
  <2>11. CASE Upto(v, a, j) /\ On(p, a, j) /\ j < Len(p)
    <3>1. /\ Len(p) - j \in 1 .. Len(p) /\ Len(p) - (Len(p) - j) = j
          /\ (Len(p) - j) - 1 = Len(p) - (j + 1)
          /\ Len(p) - (Len(p) - j) + 1 = j + 1
          /\ j # Len(p) /\ j + 1 \in 1 .. Len(p)
      BY <1>1, <2>11
    <3> DEFINE x == Rebuilt(v, p)[Len(p) - (j + 1)]
    <3>2. New(j) = Replace(Cur(v, p)[j], p[j + 1], x)
      <4>1. \A i \in 1 .. Len(p) :
               Rebuilt(v, p)[i] = Replace(Cur(v, p)[Len(p) - i], p[Len(p) - i + 1],
                                          Rebuilt(v, p)[i - 1])
        BY <1>1, RebuiltStep, Zenon
      <4>2. Len(p) - j \in 1 .. Len(p)
        BY <3>1, Zenon
      <4>3. Rebuilt(v, p)[Len(p) - j] =
              Replace(Cur(v, p)[Len(p) - (Len(p) - j)],
                      p[Len(p) - (Len(p) - j) + 1],
                      Rebuilt(v, p)[(Len(p) - j) - 1])
        BY <4>1, <4>2, Zenon
      <4> QED BY <2>3, <2>11, <3>1, <4>3, Zenon
    <3>3. Cur(v, p)[j] = Old(j)
      BY <2>2, <2>11, WalkTogether, Zenon
    <3>4. Leads(Old(j), p[j + 1])
      BY <2>2, <3>1, <3>3, ZenonT(40) DEF Resolves
    <3>5. /\ Has(New(j), a[j + 1]) <=> Has(Old(j), a[j + 1])
          /\ Has(Old(j), a[j + 1]) =>
                Kid(New(j), a[j + 1]) = IF Spells(p[j + 1], a[j + 1]) THEN x
                                        ELSE Kid(Old(j), a[j + 1])
      BY <2>2, <3>2, <3>3, <3>4, ReplaceOne
    <3> QED BY <2>3, <2>4, <2>5, <2>6, <2>11, <3>1, <3>5, Zenon
  <2> QED BY <1>1, <2>6, <2>7, <2>8, <2>9, <2>10, <2>11, SMTT(30)
<1>4. \A j \in Nat : j \in S
  <2>1. \A j \in Nat : j \in S => j + 1 \in S
    BY <1>3, Zenon
  <2> HIDE DEF S
  <2> QED BY <1>2, <2>1, Induction, Zenon
<1> QED BY <1>4, Zenon

\* new is the value old with what the paths name masked; its numbers aside.
MaskedJSON(new, old, paths, addresses) ==
    \A a \in addresses :
        IF Reaches(old, a) /\ \A p \in paths : Covers(p, a) => Len(p) = Len(a)
        THEN /\ Reaches(new, a)
             /\ Node(Along(new, a)[Len(a)]) =
                   IF \E p \in paths : Covers(p, a) THEN Str(Redacted)
                   ELSE Node(Along(old, a)[Len(a)])
        ELSE ~Reaches(new, a)

\* setAtPath masks what one path names (obligations.go, setAtPath).
LEMMA SetMasksPath ==
    ASSUME NEW v, NEW p \in Seq(STRING), p # <<>>, NEW A, A \subseteq Seq(Step)
    PROVE  MaskedJSON(setAtPath(v, p), v, {p}, A)
<1> DEFINE w == setAtPath(v, p)
<1>1. SUFFICES ASSUME NEW a \in A
               PROVE  IF Reaches(v, a) /\ (Covers(p, a) => Len(p) = Len(a))
                      THEN /\ Reaches(w, a)
                           /\ Node(Along(w, a)[Len(a)]) =
                                 IF Covers(p, a) THEN Str(Redacted)
                                 ELSE Node(Along(v, a)[Len(a)])
                      ELSE ~Reaches(w, a)
  BY Zenon DEF MaskedJSON
<1>2. a \in Seq(Step) /\ Len(a) \in Nat /\ Len(p) \in Nat /\ Len(a) <= Len(a)
  OBVIOUS
<1>3. Reaches(v, a) <=> Upto(v, a, Len(a))
  BY Zenon DEF Reaches, Upto
<1>4. Reaches(w, a) <=> Upto(w, a, Len(a))
  BY Zenon DEF Reaches, Upto
<1>5. /\ Below(p, a, Len(a)) <=> Covers(p, a) /\ Len(p) # Len(a)
      /\ On(p, a, Len(a)) => (Covers(p, a) <=> Len(p) = Len(a)) /\ Len(a) <= Len(p)
      /\ Covers(p, a) => On(p, a, Len(a)) \/ Below(p, a, Len(a))
  BY <1>2 DEF Below, On, Covers
<1>6. CASE ~Resolves(v, p)
  <2>1. w = v
    BY <1>6, Zenon DEF setAtPath
  <2>2. Reaches(v, a) => ~Covers(p, a)
    BY <1>2, <1>6, UnresolvedCoversNothing
  <2> QED BY <2>1, <2>2, Zenon
<1>7. CASE Resolves(v, p)
  <2>1. w = Rebuilt(v, p)[Len(p)]
    BY <1>7, Zenon DEF setAtPath
  <2> HIDE DEF w
  <2>2. /\ Upto(w, a, Len(a)) <=> Upto(v, a, Len(a)) /\ ~Below(p, a, Len(a))
        /\ Upto(v, a, Len(a)) /\ On(p, a, Len(a))
              => Along(w, a)[Len(a)] = Rebuilt(v, p)[Len(p) - Len(a)]
        /\ Upto(v, a, Len(a)) /\ ~On(p, a, Len(a)) /\ ~Below(p, a, Len(a))
              => Along(w, a)[Len(a)] = Along(v, a)[Len(a)]
    BY <1>2, <1>7, <2>1, WalkRebuilt
  <2>3. ASSUME Upto(v, a, Len(a)), On(p, a, Len(a)), Len(p) = Len(a)
        PROVE  Node(Along(w, a)[Len(a)]) = Str(Redacted)
    <3>1. Len(p) - Len(a) = 0
      BY <1>2, <2>3
    <3>2. Along(w, a)[Len(a)] = Str(Redacted)
      BY <1>2, <2>2, <2>3, <3>1, RebuiltStep, Zenon
    <3> QED BY <3>2, StringIsLeaf, Zenon
  <2>4. ASSUME Upto(v, a, Len(a)), On(p, a, Len(a)), Len(p) # Len(a)
        PROVE  Node(Along(w, a)[Len(a)]) = Node(Along(v, a)[Len(a)])
    <3> DEFINE m == Len(a)
               n == Len(p)
    <3>1. /\ n - m \in 1 .. n /\ n - (n - m) = m /\ n - (n - m) + 1 = m + 1
          /\ m + 1 \in 1 .. n /\ (m + 1) - 1 = m
      BY <1>2, <1>5, <2>4
    <3>2. Along(v, a)[m] = Cur(v, p)[m]
      BY <1>2, <2>4, WalkTogether, Zenon
    <3>3. PICK x : Along(w, a)[m] = Replace(Cur(v, p)[m], p[m + 1], x)
      <4>1. \A i \in 1 .. n : Rebuilt(v, p)[i] = Replace(Cur(v, p)[n - i], p[n - i + 1],
                                                         Rebuilt(v, p)[i - 1])
        BY <1>2, RebuiltStep, Zenon
      <4>2. n - m \in 1 .. n
        BY <3>1, Zenon
      <4>3. Rebuilt(v, p)[n - m] = Replace(Cur(v, p)[n - (n - m)], p[n - (n - m) + 1],
                                           Rebuilt(v, p)[(n - m) - 1])
        BY <4>1, <4>2, Zenon
      <4> QED BY <2>2, <2>4, <3>1, <4>3, Zenon
    <3>4. Leads(Cur(v, p)[m], p[m + 1])
      BY <1>7, <3>1, Zenon DEF Resolves
    <3>5. [at |-> 1] \in Step
      BY DEF Step
    <3>6. Node(Replace(Cur(v, p)[m], p[m + 1], x)) = Node(Cur(v, p)[m])
      BY <3>4, <3>5, ReplaceOne, Zenon
    <3> QED BY <3>2, <3>3, <3>6, Zenon
  <2> QED BY <1>3, <1>4, <1>5, <2>2, <2>3, <2>4, Zenon
<1> QED BY <1>6, <1>7, Zenon

\* Nothing is masked by no path.
LEMMA NothingMasked ==
    ASSUME NEW v, NEW A
    PROVE  MaskedJSON(v, v, {}, A)
BY Zenon DEF MaskedJSON

\* One path more: what was masked stays masked, as a whole.
LEMMA MaskOneMore ==
    ASSUME NEW u, NEW v, NEW w, NEW P, NEW p, NEW A,
           MaskedJSON(v, u, P, A), MaskedJSON(w, v, {p}, A)
    PROVE  MaskedJSON(w, u, P \union {p}, A)
<1>1. SUFFICES ASSUME NEW a \in A
               PROVE  IF Reaches(u, a) /\ \A q \in P \union {p} : Covers(q, a) => Len(q) = Len(a)
                      THEN /\ Reaches(w, a)
                           /\ Node(Along(w, a)[Len(a)]) =
                                 IF \E q \in P \union {p} : Covers(q, a) THEN Str(Redacted)
                                 ELSE Node(Along(u, a)[Len(a)])
                      ELSE ~Reaches(w, a)
  BY Zenon DEF MaskedJSON
<1>2. IF Reaches(u, a) /\ \A q \in P : Covers(q, a) => Len(q) = Len(a)
      THEN /\ Reaches(v, a)
           /\ Node(Along(v, a)[Len(a)]) =
                 IF \E q \in P : Covers(q, a) THEN Str(Redacted)
                 ELSE Node(Along(u, a)[Len(a)])
      ELSE ~Reaches(v, a)
  BY Zenon DEF MaskedJSON
<1>3. IF Reaches(v, a) /\ (Covers(p, a) => Len(p) = Len(a))
      THEN /\ Reaches(w, a)
           /\ Node(Along(w, a)[Len(a)]) =
                 IF Covers(p, a) THEN Str(Redacted) ELSE Node(Along(v, a)[Len(a)])
      ELSE ~Reaches(w, a)
  BY Zenon DEF MaskedJSON
<1> QED BY <1>2, <1>3, Zenon

\* A path that resolves spells an address that exists.
LEMMA ResolvedIsReached ==
    ASSUME NEW v, NEW p \in Seq(STRING), Resolves(v, p)
    PROVE  \E a \in Seq(Step) : Reaches(v, a) /\ Covers(p, a) /\ Len(p) = Len(a)
<1> DEFINE n == Len(p)
           c == Cur(v, p)
           step(i) == IF Is("obj", c[i - 1]) THEN [key |-> p[i]] ELSE [at |-> Atoi[p[i]] + 1]
           a == [i \in 1 .. n |-> step(i)]
<1>1. n \in Nat
  OBVIOUS
<1> HIDE DEF c
<1>2. ASSUME NEW i \in 1 .. n
      PROVE  step(i) \in Step /\ Has(c[i - 1], step(i)) /\ Spells(p[i], step(i))
  <2>1. Leads(c[i - 1], p[i])
    BY Zenon DEF Resolves, c
  <2>2. p[i] \in STRING
    BY <1>1
  <2>3. CASE Is("obj", c[i - 1])
    <3> DEFINE s == [key |-> p[i]]
    <3>1. step(i) = s
      BY <2>3, Zenon
    <3>2. s \in Step /\ Is("key", s) /\ s.key = p[i]
      BY <2>2 DEF Step, Is
    <3>3. p[i] \in DOMAIN c[i - 1].obj
      BY <2>1, <2>3, Zenon DEF Leads
    <3> HIDE DEF s
    <3> QED BY <2>3, <3>1, <3>2, <3>3, Zenon DEF Has, Spells
  <2>4. CASE ~Is("obj", c[i - 1])
    <3> DEFINE k == Atoi[p[i]] + 1
               s == [at |-> k]
    <3>1. step(i) = s
      BY <2>4, Zenon
    <3>2. Is("arr", c[i - 1]) /\ p[i] \in DOMAIN Atoi /\ k \in DOMAIN c[i - 1].arr
      BY <2>1, <2>4, Zenon DEF Leads
    <3>3. k \in Int
      BY <3>2, AtoiAssumption
    <3> HIDE DEF k
    <3>4. s \in Step /\ Is("at", s) /\ ~Is("key", s) /\ s.at = k
      BY <3>3 DEF Step, Is
    <3> HIDE DEF s
    <3> QED BY <2>4, <3>1, <3>2, <3>4, Zenon DEF Has, Spells, k
  <2> QED BY <2>3, <2>4, Zenon
<1> HIDE DEF step
<1>3. a \in Seq(Step) /\ Len(a) = n /\ \A i \in 1 .. n : a[i] = step(i)
  <2>1. \A i \in 1 .. n : step(i) \in Step
    BY <1>2, Zenon
  <2> QED BY <1>1, <2>1
<1> HIDE DEF a
<1> DEFINE S == {j \in Nat : j <= n => Along(v, a)[j] = c[j]}
<1>4. 0 \in S
  <2>1. Along(v, a)[0] = v /\ c[0] = v
    BY <1>1, <1>3, AlongStep, CurStep, Zenon DEF c
  <2> QED BY <2>1
<1>5. ASSUME NEW j \in Nat, j \in S PROVE j + 1 \in S
  <2>1. SUFFICES ASSUME j + 1 <= n PROVE Along(v, a)[j + 1] = c[j + 1]
    OBVIOUS
  <2>2. j <= n /\ j + 1 \in 1 .. n /\ (j + 1) - 1 = j
    BY <1>1, <2>1
  <2>3. Along(v, a)[j] = c[j]
    BY <1>5, <2>2, Zenon
  <2>4. Along(v, a)[j + 1] = Kid(Along(v, a)[j], a[j + 1])
    BY <1>1, <1>3, <2>2, AlongStep
  <2>5. c[j + 1] = Child(c[j], p[j + 1])
    BY <1>1, <2>2, CurStep DEF c
  <2>6. /\ a[j + 1] \in Step /\ Has(c[j], a[j + 1]) /\ Spells(p[j + 1], a[j + 1])
    BY <1>2, <1>3, <2>2, Zenon
  <2>7. Child(c[j], p[j + 1]) = Kid(c[j], a[j + 1])
    BY <2>6, SpelledLeads, Zenon
  <2> QED BY <2>3, <2>4, <2>5, <2>7, Zenon
<1>6. \A j \in Nat : j \in S
  <2>1. \A j \in Nat : j \in S => j + 1 \in S
    BY <1>5, Zenon
  <2> HIDE DEF S
  <2> QED BY <1>4, <2>1, Induction, Zenon
<1>7. Reaches(v, a)
  <2>1. SUFFICES ASSUME NEW i \in 1 .. n PROVE Has(Along(v, a)[i - 1], a[i])
    BY <1>3, Zenon DEF Reaches
  <2>2. i - 1 \in Nat /\ i - 1 <= n
    BY <1>1
  <2>3. Along(v, a)[i - 1] = c[i - 1]
    BY <1>6, <2>2, Zenon
  <2> QED BY <1>2, <1>3, <2>3, Zenon
<1>8. Covers(p, a)
  <2>1. Len(p) <= Len(a)
    BY <1>1, <1>3
  <2> QED BY <1>2, <1>3, <2>1, Zenon DEF Covers
<1> QED BY <1>3, <1>7, <1>8, Zenon

\* Masking makes no path resolve that did not.
LEMMA MaskingResolvesNoMore ==
    ASSUME NEW w, NEW v, NEW P, MaskedJSON(w, v, P, Seq(Step)),
           NEW p \in Seq(STRING), Resolves(w, p)
    PROVE  Resolves(v, p)
<1>1. PICK a \in Seq(Step) : Reaches(w, a) /\ Covers(p, a)
  BY ResolvedIsReached, Zenon
<1>2. Reaches(v, a)
  BY <1>1, Zenon DEF MaskedJSON
<1>3. p # <<>>
  BY Zenon DEF Resolves
<1> QED BY <1>1, <1>2, <1>3, UnresolvedCoversNothing, Zenon

\* What the obligations so far have made of a field that can be decoded: it was
\* written anew if and only if one of their paths resolves in what was sent.
Reworked(new, old, P) ==
    /\ MaskedJSON(new.json, old.json, P, Seq(Step))
    /\ new.written <=> \E p \in P : Resolves(old.json, p)
    /\ ~new.written => new = old

\* redactInJSON takes one path more into account.
LEMMA ReworkOneMore ==
    ASSUME NEW new, NEW old, NEW P, NEW p \in Seq(STRING), p # <<>>,
           Unmarshals(old), Reworked(new, old, P)
    PROVE  Reworked(redactInJSON(new, p), old, P \union {p})
<1> DEFINE w == redactInJSON(new, p)
           x == setAtPath(new.json, p)
<1>1. Unmarshals(new)
  BY Zenon DEF Reworked, Unmarshals
<1>2. MaskedJSON(x, old.json, P \union {p}, Seq(Step))
  <2> HIDE DEF x
  <2>1. MaskedJSON(x, new.json, {p}, Seq(Step))
    BY SetMasksPath, Zenon DEF x
  <2> QED BY <2>1, MaskOneMore, Zenon DEF Reworked
<1>3. CASE Resolves(new.json, p)
  <2> DEFINE rec == [json |-> x, written |-> TRUE]
  <2> HIDE DEF x
  <2>1. rec.json = x /\ rec.written
    OBVIOUS
  <2>2. w = rec
    BY <1>1, <1>3, Zenon DEF redactInJSON, x
  <2> HIDE DEF w, rec
  <2>3. Resolves(old.json, p)
    BY <1>3, MaskingResolvesNoMore, Zenon DEF Reworked
  <2>4. \E q \in P \union {p} : Resolves(old.json, q)
    BY <2>3, Zenon
  <2>5. Reworked(w, old, P \union {p})
    BY <1>2, <2>1, <2>2, <2>4, Zenon DEF Reworked
  <2> QED BY <2>5, Zenon DEF w
<1>4. CASE ~Resolves(new.json, p)
  <2>1. w = new /\ x = new.json
    BY <1>4, Zenon DEF redactInJSON, setAtPath
  <2>2. MaskedJSON(new.json, old.json, P \union {p}, Seq(Step))
    BY <1>2, <2>1, Zenon
  <2> HIDE DEF w, x
  <2>3. ~new.written => ~Resolves(old.json, p)
    BY <1>4, Zenon DEF Reworked
  <2>4. new.written <=> \E q \in P \union {p} : Resolves(old.json, q)
    BY <2>3, Zenon DEF Reworked
  <2>5. Reworked(new, old, P \union {p})
    BY <2>2, <2>4, Zenon DEF Reworked
  <2> QED BY <2>1, <2>5, Zenon DEF w
<1> QED BY <1>3, <1>4, Zenon

\* What the agent reads of a field after that.
LEMMA ReworkedReads ==
    ASSUME NEW new, NEW old, NEW P, NEW A, A \subseteq Seq(Step),
           ~old.written, Reworked(new, old, P)
    PROVE  Masked(new, old, P, A)
<1>1. SUFFICES ASSUME NEW a \in A
               PROVE  IF Reaches(old.json, a) /\ \A p \in P : Covers(p, a) => Len(p) = Len(a)
                      THEN /\ Reaches(new.json, a)
                           /\ Text(new, a) =
                                 IF \E p \in P : Covers(p, a) THEN Str(Redacted)
                                 ELSE IF \E p \in P : Resolves(old.json, p)
                                 THEN Rounded(Text(old, a)) ELSE Text(old, a)
                      ELSE ~Reaches(new.json, a)
  BY Zenon DEF Masked
<1>2. IF Reaches(old.json, a) /\ \A p \in P : Covers(p, a) => Len(p) = Len(a)
      THEN /\ Reaches(new.json, a)
           /\ Node(Along(new.json, a)[Len(a)]) =
                 IF \E p \in P : Covers(p, a) THEN Str(Redacted)
                 ELSE Node(Along(old.json, a)[Len(a)])
      ELSE ~Reaches(new.json, a)
  BY Zenon DEF Reworked, MaskedJSON
<1>3. Rounded(Str(Redacted)) = Str(Redacted)
  BY DEF Rounded, Str, Is
<1>4. Text(old, a) = Node(Along(old.json, a)[Len(a)])
  BY Zenon DEF Text
<1>5. Text(new, a) = IF \E p \in P : Resolves(old.json, p)
                     THEN Rounded(Node(Along(new.json, a)[Len(a)]))
                     ELSE Node(Along(new.json, a)[Len(a)])
  BY Zenon DEF Text, Reworked
<1> QED BY <1>2, <1>3, <1>4, <1>5, Zenon

\* redactPath applies redactInJSON to the field that the path starts with.
LEMMA RedactField ==
    ASSUME NEW r, DOMAIN r = Field, NEW t \in Seq(STRING), NEW f \in Field
    PROVE  /\ DOMAIN redactPath(r, t) = Field
           /\ Len(t) > 1 /\ Head(t) = f
                 => /\ redactPath(r, t)[f] = redactInJSON(r[f], Tail(t))
                    /\ Tail(t) \in Seq(STRING) /\ Tail(t) # <<>>
           /\ ~(Len(t) > 1 /\ Head(t) = f) => redactPath(r, t)[f] = r[f]
<1>1. Len(t) \in Nat /\ (Len(t) < 2 <=> ~(Len(t) > 1))
  OBVIOUS
<1>2. CASE Len(t) < 2 \/ Head(t) \notin Field
  <2>1. redactPath(r, t) = r
    BY <1>2, Zenon DEF redactPath, Field
  <2> QED BY <1>1, <1>2, <2>1, Zenon
<1>3. CASE Len(t) > 1 /\ Head(t) \in Field
  <2> DEFINE h == Head(t)
             x == redactInJSON(r[h], Tail(t))
  <2>1. redactPath(r, t) = [r EXCEPT ![h] = x]
    BY <1>1, <1>3, Zenon DEF redactPath, Field
  <2>2. Tail(t) \in Seq(STRING) /\ Tail(t) # <<>>
    <3>1. t # <<>>
      BY <1>1, <1>3
    <3>2. Tail(t) \in Seq(STRING)
      BY <3>1
    <3>3. Len(Tail(t)) = Len(t) - 1
      BY <3>1
    <3>4. Len(t) - 1 # 0
      <4>1. \A n \in Nat : n > 1 => n - 1 # 0
        OBVIOUS
      <4> QED BY <1>1, <1>3, <4>1, Zenon
    <3> QED BY <3>2, <3>3, <3>4, Zenon
  <2> HIDE DEF h
  <2>3. f = h => [r EXCEPT ![h] = x][f] = x
    BY Zenon
  <2>4. f # h => [r EXCEPT ![h] = x][f] = r[f]
    BY Zenon
  <2>5. DOMAIN [r EXCEPT ![h] = x] = Field
    BY Zenon
  <2>6. CASE f = h
    BY <1>3, <2>1, <2>2, <2>3, <2>5, <2>6, Zenon DEF h
  <2>7. CASE f # h
    BY <1>3, <2>1, <2>4, <2>5, <2>7, Zenon DEF h
  <2> QED BY <2>6, <2>7, Zenon
<1> QED BY <1>1, <1>2, <1>3, Zenon

\* The elements of a sequence.
LEMMA ElementIn ==
    ASSUME NEW R, NEW s \in Seq(R), NEW i \in 1 .. Len(s)
    PROVE  s[i] \in R
OBVIOUS

ObligationList == Seq([type : STRING, target : Seq(STRING)])

\* The paths of one obligation more.
LEMMA PathsOneMore ==
    ASSUME NEW os, NEW f, NEW n \in Nat
    PROVE  LET o == os[n + 1]
               names == o.type = "redact" /\ Len(o.target) > 1 /\ Head(o.target) = f
           IN  /\ Paths(os, 0, f) = {}
               /\ names => Paths(os, n + 1, f) = Paths(os, n, f) \union {Tail(o.target)}
               /\ ~names => Paths(os, n + 1, f) = Paths(os, n, f)
<1>1. \A i : i \in 1 .. n + 1 <=> i \in 1 .. n \/ i = n + 1
  OBVIOUS
<1>2. 1 .. 0 = {}
  OBVIOUS
<1> QED BY <1>1, <1>2, Zenon DEF Paths

\* All obligations of a list, in order, mask what they name (obligations.go,
\* applyObligations).
LEMMA ObligationsMask ==
    ASSUME NEW r, DOMAIN r = Field, \A f \in Field : ~r[f].written, NEW os \in ObligationList
    PROVE  \A f \in Field :
              IF Unmarshals(r[f])
              THEN Reworked(applyObligations(r, os)[f], r[f], Paths(os, Len(os), f))
              ELSE applyObligations(r, os)[f] = r[f]
<1> DEFINE Done(x, f, P) == IF Unmarshals(r[f]) THEN Reworked(x, r[f], P) ELSE x = r[f]
           Q(n) == /\ DOMAIN After(r, os)[n] = Field
                   /\ \A f \in Field : Done(After(r, os)[n][f], f, Paths(os, n, f))
           S == {n \in Nat : n <= Len(os) => Q(n)}
<1>1. Len(os) \in Nat
  BY DEF ObligationList
<1>2. 0 \in S
  <2>1. After(r, os)[0] = r
    BY <1>1, AfterStep, Zenon
  <2>2. \A f \in Field : Paths(os, 0, f) = {}
    BY PathsOneMore, Zenon
  <2>3. \A f \in Field : Reworked(r[f], r[f], {})
    BY NothingMasked, Zenon DEF Reworked
  <2> QED BY <2>1, <2>2, <2>3, Zenon
<1>3. ASSUME NEW n \in Nat, n \in S PROVE n + 1 \in S
  <2>1. SUFFICES ASSUME n + 1 <= Len(os) PROVE Q(n + 1)
    OBVIOUS
  <2>2. n <= Len(os) /\ n + 1 \in 1 .. Len(os) /\ (n + 1) - 1 = n
    BY <1>1, <2>1
  <2>3. Q(n)
    BY <1>3, <2>2, Zenon
  <2> DEFINE o == os[n + 1]
             before == After(r, os)[n]
             after == After(r, os)[n + 1]
  <2>4. o.target \in Seq(STRING)
    <3>1. os[n + 1] \in [type : STRING, target : Seq(STRING)]
      BY <2>2, ElementIn, Zenon DEF ObligationList
    <3> QED BY <3>1
  <2>5. after = IF o.type # "redact" THEN before ELSE redactPath(before, o.target)
    BY <1>1, <2>2, AfterStep
  <2> HIDE DEF o, before, after
  <2>6. DOMAIN before = Field
    BY <2>3, Zenon DEF before
  <2>7. DOMAIN after = Field
    <3>1. "content" \in Field
      BY DEF Field
    <3> QED BY <2>4, <2>5, <2>6, <3>1, RedactField
  <2>8. ASSUME NEW f \in Field
        PROVE  Done(after[f], f, Paths(os, n + 1, f))
    <3>1. Done(before[f], f, Paths(os, n, f))
      BY <2>3, Zenon DEF before
    <3>2. CASE o.type = "redact" /\ Len(o.target) > 1 /\ Head(o.target) = f
      <4> DEFINE p == Tail(o.target)
      <4>1. after[f] = redactInJSON(before[f], p) /\ p \in Seq(STRING) /\ p # <<>>
        BY <2>4, <2>5, <2>6, <3>2, RedactField, ZenonT(40)
      <4>2. Paths(os, n + 1, f) = Paths(os, n, f) \union {p}
        BY <3>2, PathsOneMore, ZenonT(40) DEF o
      <4> HIDE DEF p
      <4>3. CASE Unmarshals(r[f])
        <5>1. Reworked(before[f], r[f], Paths(os, n, f))
          BY <3>1, <4>3, Zenon
        <5>2. Reworked(redactInJSON(before[f], p), r[f], Paths(os, n, f) \union {p})
          BY <4>1, <4>3, <5>1, ReworkOneMore, Zenon
        <5> QED BY <4>1, <4>2, <4>3, <5>2, Zenon
      <4>4. CASE ~Unmarshals(r[f])
        BY <3>1, <4>1, <4>4, Zenon DEF redactInJSON
      <4> QED BY <4>3, <4>4, Zenon
    <3>3. CASE ~(o.type = "redact" /\ Len(o.target) > 1 /\ Head(o.target) = f)
      <4>1. after[f] = before[f]
        BY <2>4, <2>5, <2>6, <3>3, RedactField
      <4>2. Paths(os, n + 1, f) = Paths(os, n, f)
        BY <3>3, PathsOneMore, ZenonT(40) DEF o
      <4> QED BY <3>1, <4>1, <4>2, Zenon
    <3> QED BY <3>2, <3>3, Zenon
  <2> QED BY <2>7, <2>8, Zenon DEF after
<1>4. \A n \in Nat : n \in S
  <2>1. \A n \in Nat : n \in S => n + 1 \in S
    BY <1>3, Zenon
  <2> HIDE DEF S
  <2> QED BY <1>2, <2>1, Induction, Zenon
<1>5. Q(Len(os))
  BY <1>1, <1>4
<1> QED BY <1>5, Zenon DEF applyObligations

-----------------------------------------------------------------------------
\* What a request carries: the agent's result is the answer after its obligations.
Carried(c) ==
    /\ obligations[c] \in ObligationList
    /\ DOMAIN answer[c] = Field /\ \A f \in Field : ~answer[c][f].written
    /\ Given(c) => result[c] = applyObligations(answer[c], obligations[c])

\* An entry of the cache is what some request that showed the string recorded.
Entry(v) ==
    \E c \in Call : /\ Given(c) /\ v \in Shown(c)
                    /\ cache[v] = [prov |-> Label(c), expiresAt |-> now[c] + TTL]

\* A request has recorded its strings, except those that are left.
Kept(c) ==
    Given(c) => \A p \in TopLevel(result[c].structuredContent) \ left[c] :
                    LET v == StringAt(result[c].structuredContent, p) IN
                    v # EmptyString => v \in DOMAIN cache

\* The inductive invariant.  The cache is not emptied while it has room, since
\* it holds nothing but strings that were shown.
FlowInv ==
    /\ DOMAIN pc = Call /\ DOMAIN now = Call /\ DOMAIN obligations = Call
    /\ DOMAIN answer = Call /\ DOMAIN result = Call /\ DOMAIN left = Call
    /\ \A c \in Call : /\ Carried(c)
                       /\ Given(c) => left[c] \subseteq TopLevel(result[c].structuredContent)
                       /\ pc[c] = "done" => left[c] = {}
    /\ \A v \in DOMAIN cache : v # EmptyString /\ Entry(v)
    /\ HasRoom => \A c \in Call : Kept(c)

\* The invariant holds initially.
LEMMA InitEstablishes == Init => FlowInv
<1> SUFFICES ASSUME Init PROVE FlowInv
  OBVIOUS
<1>1. \A c \in Call : pc[c] = "idle" /\ ~Given(c)
  BY DEF Init, Given
<1>2. <<>> \in ObligationList
  BY DEF ObligationList
<1>3. DOMAIN NoResult = Field /\ \A f \in Field : ~NoResult[f].written
  BY DEF NoResult, Sent
<1>4. \A c \in Call : Carried(c)
  BY <1>1, <1>2, <1>3, Zenon DEF Init, Carried
<1>5. DOMAIN cache = {}
  BY DEF Init, NoEntries
<1>6. \A c \in Call : Kept(c)
  BY <1>1, Zenon DEF Kept
<1>7. \A c \in Call : pc[c] # "done"
  BY <1>1
<1> QED
  BY <1>1, <1>4, <1>5, <1>6, <1>7, Zenon DEF Init, FlowInv

\* What is shown stays shown.
Grows ==
    \A d \in Call : Given(d) => Given(d)' /\ result'[d] = result[d] /\ now'[d] = now[d]

\* So an entry keeps its origin,
LEMMA EntryStays ==
    ASSUME Grows, NEW v, Entry(v), cache'[v] = cache[v]
    PROVE  Entry(v)'
BY Zenon DEF Grows, Entry, Shown, Label

\* and room now was room before.
LEMMA RoomBefore ==
    ASSUME Grows, HasRoom'
    PROVE  HasRoom
<1>1. Strings \subseteq Strings'
  <2>1. SUFFICES ASSUME NEW v \in Strings PROVE v \in Strings'
    BY Zenon
  <2>2. PICK c \in Call : Given(c) /\ v \in Shown(c)
    BY Zenon DEF Strings
  <2>3. Given(c)' /\ result'[c] = result[c]
    BY <2>2, Zenon DEF Grows
  <2>4. v \in Shown(c)'
    BY <2>2, <2>3, Zenon DEF Shown
  <2>5. v # EmptyString
    BY <2>1 DEF Strings
  <2>6. v \in UNION {Shown(d)' : d \in {d \in Call : Given(d)'}}
    BY <2>3, <2>4, Zenon
  <2> QED BY <2>5, <2>6 DEF Strings
<1> QED BY <1>1, Zenon DEF HasRoom

\* Steps that record nothing and move no positions.
LEMMA QuietStep ==
    ASSUME FlowInv, Grows, UNCHANGED <<cache, left, result>>,
           DOMAIN pc' = Call, DOMAIN now' = Call, DOMAIN obligations' = Call,
           DOMAIN answer' = Call,
           \A d \in Call : /\ Carried(d)'
                           /\ Given(d)' => Given(d)
                           /\ pc'[d] = "done" => left[d] = {}
    PROVE  FlowInv'
<1>1. \A v \in DOMAIN cache' : v # EmptyString /\ Entry(v)'
  BY EntryStays, Zenon DEF FlowInv
<1>2. HasRoom' => \A d \in Call : Kept(d)'
  BY RoomBefore, Zenon DEF FlowInv, Kept
<1>3. \A d \in Call : /\ Given(d)' => left'[d] \subseteq TopLevel(result'[d].structuredContent)
                      /\ pc'[d] = "done" => left'[d] = {}
  BY Zenon DEF FlowInv
<1>4. DOMAIN result' = Call /\ DOMAIN left' = Call
  BY Zenon DEF FlowInv
<1> QED BY <1>1, <1>2, <1>3, <1>4, Zenon DEF FlowInv

\* CallTool: the request has shown nothing yet.
LEMMA CallToolStep ==
    ASSUME FlowInv, NEW c \in Call, NEW o \in Obligation[c], CallTool(c, o)
    PROVE  FlowInv'
<1>1. /\ pc[c] = "idle" /\ pc' = [pc EXCEPT ![c] = "forward"]
      /\ now' = [now EXCEPT ![c] = clock]
      /\ obligations' = [obligations EXCEPT ![c] = o]
      /\ UNCHANGED <<cache, answer, result, left>>
  BY Zenon DEF CallTool
<1>2. /\ DOMAIN pc' = Call /\ DOMAIN now' = Call /\ DOMAIN obligations' = Call
      /\ DOMAIN answer' = Call
  BY <1>1, Zenon DEF FlowInv
<1>3. /\ pc'[c] = "forward" /\ obligations'[c] = o
      /\ \A d \in Call \ {c} : /\ pc'[d] = pc[d] /\ now'[d] = now[d]
                               /\ obligations'[d] = obligations[d]
  BY <1>1, Zenon DEF FlowInv
<1>4. ~Given(c) /\ ~Given(c)' /\ pc'[c] # "done"
  BY <1>1, <1>3 DEF Given
<1>5. \A d \in Call \ {c} : Given(d)' <=> Given(d)
  BY <1>3, Zenon DEF Given
<1>6. Grows
  BY <1>1, <1>3, <1>4, <1>5, Zenon DEF Grows
<1>7. Carried(c)'
  <2>1. o \in ObligationList
    BY ObligationAssumption, Zenon DEF ObligationList
  <2> QED BY <1>1, <1>3, <1>4, <2>1, Zenon DEF Carried, FlowInv
<1>8. \A d \in Call \ {c} : Carried(d)'
  BY <1>1, <1>3, <1>5, Zenon DEF Carried, FlowInv
<1>9. \A d \in Call : pc'[d] = "done" => left[d] = {}
  BY <1>3, <1>4, Zenon DEF FlowInv
<1> QED
  BY <1>1, <1>2, <1>4, <1>5, <1>6, <1>7, <1>8, <1>9, QuietStep, Zenon

\* Answer: nor when the upstream has answered.
LEMMA AnswerStep ==
    ASSUME FlowInv, NEW c \in Call, NEW r \in Result[c], Answer(c, r)
    PROVE  FlowInv'
<1> DEFINE sent == [f \in Field |-> Sent(r[f])]
<1>1. /\ pc[c] = "forward" /\ pc' = [pc EXCEPT ![c] = "oblige"]
      /\ answer' = [answer EXCEPT ![c] = sent]
      /\ UNCHANGED <<cache, now, obligations, result, left>>
  BY Zenon DEF Answer
<1>10. DOMAIN sent = Field /\ \A f \in Field : ~sent[f].written
  BY DEF Sent
<1> HIDE DEF sent
<1>2. /\ DOMAIN pc' = Call /\ DOMAIN now' = Call /\ DOMAIN obligations' = Call
      /\ DOMAIN answer' = Call
  BY <1>1, Zenon DEF FlowInv
<1>3. /\ pc'[c] = "oblige" /\ answer'[c] = sent
      /\ \A d \in Call \ {c} : pc'[d] = pc[d] /\ answer'[d] = answer[d]
  BY <1>1, Zenon DEF FlowInv
<1>4. ~Given(c) /\ ~Given(c)' /\ pc'[c] # "done"
  BY <1>1, <1>3 DEF Given
<1>5. \A d \in Call \ {c} : Given(d)' <=> Given(d)
  BY <1>3, Zenon DEF Given
<1>6. Grows
  BY <1>1, <1>4, <1>5, Zenon DEF Grows
<1>7. Carried(c)'
  BY <1>1, <1>3, <1>4, <1>10, Zenon DEF Carried, FlowInv
<1>8. \A d \in Call \ {c} : Carried(d)'
  BY <1>1, <1>3, <1>5, Zenon DEF Carried, FlowInv
<1>9. \A d \in Call : pc'[d] = "done" => left[d] = {}
  BY <1>3, <1>4, Zenon DEF FlowInv
<1> QED
  BY <1>1, <1>2, <1>4, <1>5, <1>6, <1>7, <1>8, <1>9, QuietStep, Zenon

\* Oblige: the result is fixed, and all of its strings are still to be recorded.
LEMMA ObligeStep ==
    ASSUME FlowInv, NEW c \in Call, Oblige(c)
    PROVE  FlowInv'
<1> DEFINE r == applyObligations(answer[c], obligations[c])
<1>1. /\ pc[c] = "oblige" /\ pc' = [pc EXCEPT ![c] = "remember"]
      /\ result' = [result EXCEPT ![c] = r]
      /\ left' = [left EXCEPT ![c] = TopLevel(r.structuredContent)]
      /\ UNCHANGED <<cache, now, obligations, answer>>
  BY Zenon DEF Oblige
<1> HIDE DEF r
<1>2. /\ DOMAIN pc' = Call /\ DOMAIN now' = Call /\ DOMAIN obligations' = Call
      /\ DOMAIN answer' = Call /\ DOMAIN result' = Call /\ DOMAIN left' = Call
  BY <1>1, Zenon DEF FlowInv
<1>3. /\ pc'[c] = "remember" /\ result'[c] = r /\ left'[c] = TopLevel(r.structuredContent)
      /\ \A d \in Call \ {c} : /\ pc'[d] = pc[d] /\ result'[d] = result[d]
                               /\ left'[d] = left[d]
  BY <1>1, Zenon DEF FlowInv
<1>4. ~Given(c) /\ Given(c)' /\ pc'[c] # "done"
  BY <1>1, <1>3 DEF Given
<1>5. \A d \in Call \ {c} : Given(d)' <=> Given(d)
  BY <1>3, Zenon DEF Given
<1>6. Grows
  BY <1>1, <1>3, <1>4, <1>5, Zenon DEF Grows
<1>7. \A d \in Call : Carried(d)'
  <2>1. Carried(c)'
    BY <1>1, <1>3, Zenon DEF Carried, FlowInv, r
  <2>2. \A d \in Call \ {c} : Carried(d)'
    BY <1>1, <1>3, <1>5, Zenon DEF Carried, FlowInv
  <2> QED BY <2>1, <2>2, Zenon
<1>8. \A v \in DOMAIN cache' : v # EmptyString /\ Entry(v)'
  BY <1>1, <1>6, EntryStays, Zenon DEF FlowInv
<1>9. HasRoom' => \A d \in Call : Kept(d)'
  <2>1. Kept(c)'
    BY <1>3, Zenon DEF Kept
  <2>2. HasRoom => \A d \in Call \ {c} : Kept(d)'
    BY <1>1, <1>3, <1>5, Zenon DEF Kept, FlowInv
  <2> QED BY <1>6, <2>1, <2>2, RoomBefore, Zenon
<1>10. \A d \in Call : /\ Given(d)' => left'[d] \subseteq TopLevel(result'[d].structuredContent)
                       /\ pc'[d] = "done" => left'[d] = {}
  BY <1>3, <1>4, <1>5, Zenon DEF FlowInv
<1> QED
  BY <1>2, <1>7, <1>8, <1>9, <1>10, Zenon DEF FlowInv

\* record puts one entry in, and keeps or drops the others; it keeps them while
\* there is room.
LEMMA RecordEntries ==
    ASSUME NEW m, NEW v, NEW l, NEW t, NEW n, n = record(m, v, l, t)
    PROVE  /\ \A w \in DOMAIN n :
                 \/ w = v /\ v # EmptyString /\ n[w] = [prov |-> l, expiresAt |-> t + TTL]
                 \/ w \in DOMAIN m /\ n[w] = m[w]
           /\ ~(Cardinality(DOMAIN m) >= MaxEntries) => DOMAIN m \subseteq DOMAIN n
           /\ v # EmptyString => v \in DOMAIN n
<1>1. CASE v = EmptyString
  BY <1>1, Zenon DEF record
<1>2. CASE v # EmptyString
  BY <1>2, Zenon DEF record, NoEntries
<1> QED BY <1>1, <1>2, Zenon

\* Remember: one string more is recorded, with the label and time of its request.
LEMMA RememberStep ==
    ASSUME FlowInv, NEW c \in Call, NEW p \in left[c], Remember(c, p)
    PROVE  FlowInv'
<1> DEFINE s == result[c].structuredContent
           v == StringAt(s, p)
<1>1. /\ pc[c] = "remember" /\ cache' = record(cache, v, Label(c), now[c])
      /\ left' = [left EXCEPT ![c] = left[c] \ {p}]
      /\ UNCHANGED <<pc, now, obligations, answer, result>>
  BY Zenon DEF Remember
<1>2. /\ DOMAIN pc' = Call /\ DOMAIN now' = Call /\ DOMAIN obligations' = Call
      /\ DOMAIN answer' = Call /\ DOMAIN result' = Call /\ DOMAIN left' = Call
  BY <1>1, Zenon DEF FlowInv
<1>3. left'[c] = left[c] \ {p} /\ \A d \in Call \ {c} : left'[d] = left[d]
  BY <1>1, Zenon DEF FlowInv
<1>4. Given(c) /\ pc[c] # "done" /\ \A d \in Call : Given(d)' <=> Given(d)
  BY <1>1 DEF Given
<1>5. Grows
  BY <1>1, <1>4, Zenon DEF Grows
<1>6. \A d \in Call : Carried(d)'
  BY <1>1, <1>4, Zenon DEF Carried, FlowInv
<1>7. v \in Shown(c)
  BY <1>4, Zenon DEF FlowInv, Shown
<1>8. /\ \A w \in DOMAIN cache' :
            \/ /\ w = v /\ v # EmptyString
               /\ cache'[w] = [prov |-> Label(c), expiresAt |-> now[c] + TTL]
            \/ w \in DOMAIN cache /\ cache'[w] = cache[w]
      /\ ~(Cardinality(DOMAIN cache) >= MaxEntries) => DOMAIN cache \subseteq DOMAIN cache'
      /\ v # EmptyString => v \in DOMAIN cache'
  <2> HIDE DEF v
  <2> DEFINE n == cache'
             l == Label(c)
             t == now[c]
  <2>1. n = record(cache, v, l, t)
    BY <1>1, Zenon
  <2> HIDE DEF n, l, t
  <2>2. /\ \A w \in DOMAIN n :
             \/ w = v /\ v # EmptyString /\ n[w] = [prov |-> l, expiresAt |-> t + TTL]
             \/ w \in DOMAIN cache /\ n[w] = cache[w]
        /\ ~(Cardinality(DOMAIN cache) >= MaxEntries) => DOMAIN cache \subseteq DOMAIN n
        /\ v # EmptyString => v \in DOMAIN n
    BY <2>1, RecordEntries
  <2> QED BY <2>2, Zenon DEF n, l, t
<1>9. ASSUME NEW w \in DOMAIN cache' PROVE w # EmptyString /\ Entry(w)'
  <2>1. CASE w \in DOMAIN cache /\ cache'[w] = cache[w]
    BY <1>5, <2>1, EntryStays, Zenon DEF FlowInv
  <2>2. CASE w = v /\ v # EmptyString
             /\ cache'[w] = [prov |-> Label(c), expiresAt |-> now[c] + TTL]
    <3>1. v \in Shown(c)' /\ Given(c)' /\ now'[c] = now[c]
      BY <1>1, <1>4, <1>7, Zenon DEF Shown
    <3>2. Label(c)' = Label(c)
      BY Zenon DEF Label
    <3> QED BY <2>2, <3>1, <3>2, Zenon DEF Entry
  <2> QED BY <1>8, <2>1, <2>2, Zenon
<1>10. ASSUME HasRoom' PROVE \A d \in Call : Kept(d)'
  <2>1. HasRoom
    BY <1>5, <1>10, RoomBefore, Zenon
  <2>2. DOMAIN cache \in SUBSET Strings
    <3>1. ASSUME NEW w \in DOMAIN cache PROVE w \in Strings
      <4>1. w # EmptyString /\ Entry(w)
        BY Zenon DEF FlowInv
      <4>2. PICK d \in Call : Given(d) /\ w \in Shown(d)
        BY <4>1, Zenon DEF Entry
      <4> QED BY <4>1, <4>2 DEF Strings
    <3> QED BY <3>1, Zenon
  <2>3. DOMAIN cache \subseteq DOMAIN cache' /\ (v # EmptyString => v \in DOMAIN cache')
    BY <1>8, <2>1, <2>2, Zenon DEF HasRoom
  <2>4. \A d \in Call \ {c} : Kept(d)'
    BY <1>1, <1>3, <1>4, <2>1, <2>3, Zenon DEF FlowInv, Kept
  <2>5. Kept(c)'
    <3>1. ASSUME NEW q \in TopLevel(s) \ left'[c], StringAt(s, q) # EmptyString
          PROVE  StringAt(s, q) \in DOMAIN cache'
      <4>1. CASE q = p
        BY <2>3, <3>1, <4>1, Zenon
      <4>2. CASE q # p
        BY <1>3, <1>4, <2>1, <2>3, <3>1, <4>2, Zenon DEF FlowInv, Kept
      <4> QED BY <4>1, <4>2, Zenon
    <3> QED BY <1>1, <3>1, Zenon DEF Kept
  <2> QED BY <2>4, <2>5, Zenon
<1>11. \A d \in Call : /\ Given(d)' => left'[d] \subseteq TopLevel(result'[d].structuredContent)
                       /\ pc'[d] = "done" => left'[d] = {}
  BY <1>1, <1>3, <1>4, Zenon DEF FlowInv
<1> QED
  BY <1>2, <1>6, <1>9, <1>10, <1>11, Zenon DEF FlowInv

\* Return: nothing is left to record.
LEMMA ReturnStep ==
    ASSUME FlowInv, NEW c \in Call, Return(c)
    PROVE  FlowInv'
<1>1. /\ pc[c] = "remember" /\ left[c] = {} /\ pc' = [pc EXCEPT ![c] = "done"]
      /\ UNCHANGED <<cache, now, obligations, answer, result, left>>
  BY Zenon DEF Return
<1>2. DOMAIN pc' = Call /\ pc'[c] = "done" /\ \A d \in Call \ {c} : pc'[d] = pc[d]
  BY <1>1, Zenon DEF FlowInv
<1>3. \A d \in Call : Given(d)' <=> Given(d)
  BY <1>1, <1>2 DEF Given
<1>4. Grows
  BY <1>1, <1>3, Zenon DEF Grows
<1>5. \A d \in Call : Carried(d)'
  BY <1>1, <1>3, Zenon DEF Carried, FlowInv
<1>6. \A d \in Call : pc'[d] = "done" => left[d] = {}
  BY <1>1, <1>2, Zenon DEF FlowInv
<1>7. DOMAIN now' = Call /\ DOMAIN obligations' = Call /\ DOMAIN answer' = Call
  BY <1>1, Zenon DEF FlowInv
<1> QED BY <1>1, <1>2, <1>3, <1>4, <1>5, <1>6, <1>7, QuietStep, Zenon

\* A tick, and a stuttering step.
LEMMA IdleStep ==
    ASSUME FlowInv, UNCHANGED <<cache, pc, now, obligations, answer, result, left>>
    PROVE  FlowInv'
<1>1. \A d \in Call : Given(d)' <=> Given(d)
  BY Zenon DEF Given
<1>2. Grows
  BY <1>1, Zenon DEF Grows
<1>3. \A d \in Call : Carried(d)'
  BY <1>1, Zenon DEF Carried, FlowInv
<1>4. \A d \in Call : pc'[d] = "done" => left[d] = {}
  BY Zenon DEF FlowInv
<1>5. /\ DOMAIN pc' = Call /\ DOMAIN now' = Call /\ DOMAIN obligations' = Call
      /\ DOMAIN answer' = Call
  BY Zenon DEF FlowInv
<1> QED BY <1>1, <1>2, <1>3, <1>4, <1>5, QuietStep, Zenon

\* Every step preserves the invariant.
LEMMA NextPreserves == FlowInv /\ [Next]_vars => FlowInv'
<1> SUFFICES ASSUME FlowInv, [Next]_vars PROVE FlowInv'
  OBVIOUS
<1>1. CASE \E c \in Call : \E o \in Obligation[c] : CallTool(c, o)
  BY <1>1, CallToolStep, Zenon
<1>2. CASE \E c \in Call : \E r \in Result[c] : Answer(c, r)
  BY <1>2, AnswerStep, Zenon
<1>3. CASE \E c \in Call : Oblige(c)
  BY <1>3, ObligeStep, Zenon
<1>4. CASE \E c \in Call : \E p \in left[c] : Remember(c, p)
  BY <1>4, RememberStep, Zenon
<1>5. CASE \E c \in Call : Return(c)
  BY <1>5, ReturnStep, Zenon
<1>6. CASE Tick
  BY <1>6, IdleStep, Zenon DEF Tick
<1>7. CASE Finished \/ UNCHANGED vars
  BY <1>7, IdleStep, Zenon DEF Finished, vars
<1> QED BY <1>1, <1>2, <1>3, <1>4, <1>5, <1>6, <1>7, Zenon DEF Next

\* FlowInv holds in every reachable state.
THEOREM FlowInvariant == Spec => []FlowInv
  BY InitEstablishes, NextPreserves, PTL DEF Spec

\* Whatever the upstreams answer and whatever lists of paths the decisions ask
\* to redact, the agent gets each field of the answer that can be decoded with
\* exactly the named parts masked, its numbers as float64s if there was such a
\* part, and a field that cannot be decoded as it was sent (obligations.go,
\* applyObligations, redactInJSON and setAtPath).
THEOREM ObligationsAreCarriedOut == Spec => []RedactionIsExact
<1>1. FlowInv => RedactionIsExact
  <2> SUFFICES ASSUME FlowInv, NEW c \in Call, Given(c), NEW f \in Field
               PROVE  IF Unmarshals(answer[c][f])
                      THEN Masked(result[c][f], answer[c][f],
                                  Paths(obligations[c], Len(obligations[c]), f), Address)
                      ELSE result[c][f] = answer[c][f]
    BY Zenon DEF RedactionIsExact
  <2> DEFINE P == Paths(obligations[c], Len(obligations[c]), f)
  <2>1. /\ obligations[c] \in ObligationList /\ DOMAIN answer[c] = Field
        /\ \A g \in Field : ~answer[c][g].written
        /\ result[c] = applyObligations(answer[c], obligations[c])
    BY Zenon DEF FlowInv, Carried
  <2>2. IF Unmarshals(answer[c][f]) THEN Reworked(result[c][f], answer[c][f], P)
        ELSE result[c][f] = answer[c][f]
    BY <2>1, ObligationsMask, ZenonT(40)
  <2> HIDE DEF P
  <2>3. Reworked(result[c][f], answer[c][f], P)
        => Masked(result[c][f], answer[c][f], P, Address)
    BY <2>1, ReworkedReads, AddressAssumption, Zenon
  <2> QED BY <2>2, <2>3, Zenon DEF P
<1> QED BY <1>1, FlowInvariant, PTL

\* However many requests finish at once and in whatever order their strings are
\* recorded, a label given out is that of an upstream that showed the string
\* (provenance.go, recordTopLevelStrings and resolve).
THEOREM LabelsAreShown == Spec => []LabelIsShown
<1>1. FlowInv => LabelIsShown
  <2> SUFFICES ASSUME FlowInv, NEW v \in DOMAIN cache,
                      resolve(cache, v, clock) # untrustedProvenance
               PROVE  \E c \in Call : /\ Given(c) /\ v \in Shown(c)
                                      /\ Label(c) = resolve(cache, v, clock)
                                      /\ clock < now[c] + TTL
    BY Zenon DEF LabelIsShown
  <2>1. clock < cache[v].expiresAt /\ resolve(cache, v, clock) = cache[v].prov
    BY Zenon DEF resolve
  <2>2. PICK c \in Call : /\ Given(c) /\ v \in Shown(c)
                          /\ cache[v] = [prov |-> Label(c), expiresAt |-> now[c] + TTL]
    BY Zenon DEF FlowInv, Entry
  <2>3. cache[v].prov = Label(c) /\ cache[v].expiresAt = now[c] + TTL
    BY <2>2
  <2> QED BY <2>1, <2>2, <2>3, Zenon
<1> QED BY <1>1, FlowInvariant, PTL

\* Until the strings shown fill the cache, none of them is forgotten before the
\* first request that showed it is TTL old (provenance.go, record).
THEOREM RoomKeepsMemory == Spec => []RoomMeansMemory
<1>1. FlowInv => RoomMeansMemory
  <2> SUFFICES ASSUME FlowInv, HasRoom, NEW c \in Call, pc[c] = "done",
                      NEW v \in Shown(c) \ {EmptyString},
                      \A d \in Call : Given(d) /\ v \in Shown(d) => clock < now[d] + TTL
               PROVE  resolve(cache, v, clock) \in {Label(d) : d \in Call}
    BY Zenon DEF RoomMeansMemory
  <2>1. Given(c) /\ left[c] = {} /\ Kept(c)
    BY Zenon DEF FlowInv, Given
  <2>2. v \in DOMAIN cache
    BY <2>1, Zenon DEF Kept, Shown
  <2>3. PICK d \in Call : /\ Given(d) /\ v \in Shown(d)
                          /\ cache[v] = [prov |-> Label(d), expiresAt |-> now[d] + TTL]
    BY <2>2, Zenon DEF FlowInv, Entry
  <2>4. cache[v].prov = Label(d) /\ cache[v].expiresAt = now[d] + TTL
    BY <2>3
  <2>5. resolve(cache, v, clock) = Label(d)
    BY <2>2, <2>3, <2>4, Zenon DEF resolve
  <2> QED BY <2>5, Zenon
<1> QED BY <1>1, FlowInvariant, PTL

-----------------------------------------------------------------------------
\* The types: a request is never from the future, so no entry outlives the last
\* request by more than TTL.
Places == {"idle", "forward", "oblige", "remember", "done"}

Timed ==
    /\ clock \in 0 .. MaxClock
    /\ pc \in [Call -> Places] /\ now \in [Call -> 0 .. clock]

LEMMA TimedStep == Timed /\ [Next]_vars => Timed'
<1> SUFFICES ASSUME Timed, [Next]_vars PROVE Timed'
  OBVIOUS
<1>1. clock \in 0 .. clock
  BY ClockAssumption DEF Timed
<1>2. CASE Tick
  <2>1. clock' \in 0 .. MaxClock /\ 0 .. clock \subseteq 0 .. clock'
    BY <1>2, ClockAssumption DEF Tick, Timed
  <2> QED BY <1>2, <2>1, Zenon DEF Tick, Timed
<1>3. ASSUME NEW c \in Call, NEW o \in Obligation[c], CallTool(c, o) PROVE Timed'
  BY <1>1, <1>3, Zenon DEF CallTool, Timed, Places
<1>4. ASSUME NEW c \in Call, NEW r \in Result[c], Answer(c, r) PROVE Timed'
  BY <1>4, Zenon DEF Answer, Timed, Places
<1>5. ASSUME NEW c \in Call, Oblige(c) \/ Return(c) PROVE Timed'
  BY <1>5, Zenon DEF Oblige, Return, Timed, Places
<1>6. ASSUME NEW c \in Call, NEW p \in left[c], Remember(c, p) PROVE Timed'
  BY <1>6, Zenon DEF Remember, Timed
<1>7. CASE Finished \/ UNCHANGED vars
  BY <1>7, Zenon DEF Finished, vars, Timed
<1> QED BY <1>2, <1>3, <1>4, <1>5, <1>6, <1>7, Zenon DEF Next

\* Nothing is left to record before there is a result.
Waits == \A c \in Call : ~Given(c) => left[c] = {}

LEMMA WaitsStep == FlowInv /\ Waits /\ [Next]_vars => Waits'
<1> SUFFICES ASSUME FlowInv, Waits, [Next]_vars PROVE Waits'
  OBVIOUS
<1>1. DOMAIN pc = Call /\ DOMAIN left = Call
  BY Zenon DEF FlowInv
<1>2. ASSUME UNCHANGED left, \A c \in Call : Given(c) => Given(c)' PROVE Waits'
  BY <1>2, Zenon DEF Waits
<1>3. ASSUME NEW c \in Call, NEW o \in Obligation[c], CallTool(c, o) PROVE Waits'
  BY <1>1, <1>2, <1>3, Zenon DEF CallTool, Given
<1>4. ASSUME NEW c \in Call, NEW r \in Result[c], Answer(c, r) PROVE Waits'
  BY <1>1, <1>2, <1>4, Zenon DEF Answer, Given
<1>5. ASSUME NEW c \in Call, Oblige(c) PROVE Waits'
  <2>1. Given(c)' /\ \A d \in Call \ {c} : (Given(d)' <=> Given(d)) /\ left'[d] = left[d]
    BY <1>1, <1>5, Zenon DEF Oblige, Given
  <2> QED BY <2>1, Zenon DEF Waits
<1>6. ASSUME NEW c \in Call, NEW p \in left[c], Remember(c, p) PROVE Waits'
  <2>1. Given(c) /\ UNCHANGED pc /\ \A d \in Call \ {c} : left'[d] = left[d]
    BY <1>1, <1>6, Zenon DEF Remember, Given
  <2> QED BY <2>1, Zenon DEF Waits, Given
<1>7. ASSUME NEW c \in Call, Return(c) PROVE Waits'
  BY <1>1, <1>2, <1>7, Zenon DEF Return, Given
<1>8. CASE Tick \/ Finished \/ UNCHANGED vars
  BY <1>2, <1>8, Zenon DEF Tick, Finished, vars, Given
<1> QED BY <1>3, <1>4, <1>5, <1>6, <1>7, <1>8, Zenon DEF Next

\* Clock, cache and requests keep their types: what the cache holds expires
\* within TTL of the present (provenance.go, record).
THEOREM TypeCorrect == Spec => []TypeOK
<1>1. Init => Timed /\ Waits
  <2> SUFFICES ASSUME Init PROVE Timed /\ Waits
    OBVIOUS
  <2>1. clock = 0 /\ 0 \in 0 .. MaxClock /\ 0 \in 0 .. clock
    BY ClockAssumption DEF Init
  <2>2. Timed
    BY <2>1, Zenon DEF Init, Timed, Places
  <2>3. Waits
    BY Zenon DEF Init, Waits
  <2> QED BY <2>2, <2>3, Zenon
<1>2. FlowInv /\ Timed /\ Waits => TypeOK
  <2> SUFFICES ASSUME FlowInv, Timed, Waits PROVE TypeOK
    OBVIOUS
  <2>1. ASSUME NEW v \in DOMAIN cache PROVE cache[v].expiresAt \in 0 .. MaxClock + TTL
    <3>1. PICK c \in Call : cache[v] = [prov |-> Label(c), expiresAt |-> now[c] + TTL]
      BY Zenon DEF FlowInv, Entry
    <3>2. cache[v].expiresAt = now[c] + TTL
      BY <3>1
    <3>3. now[c] \in 0 .. clock
      BY Zenon DEF Timed
    <3> QED BY <3>2, <3>3, ClockAssumption, TTLAssumption DEF Timed
  <2>2. \A c \in Call : left[c] \subseteq TopLevel(result[c].structuredContent)
    BY Zenon DEF FlowInv, Waits
  <2> QED BY <2>1, <2>2, Zenon DEF Timed, Places, TypeOK
<1> QED BY <1>1, <1>2, InitEstablishes, NextPreserves, TimedStep, WaitsStep, PTL DEF Spec
=============================================================================
