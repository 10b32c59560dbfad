----------------------------- MODULE TextProofs -----------------------------
(***************************************************************************)
(* Theorems about the texts of the C++ core, for strings of any length     *)
(* over any symbols.                                                       *)
(***************************************************************************)
EXTENDS TextFlow, SequenceTheorems, WellFoundedInduction, TLAPS

(***************************************************************************)
(* Induction over positions: a set of naturals has a least element.        *)
(***************************************************************************)

LEMMA Least ==
  ASSUME NEW T \in SUBSET Nat, T # {}
  PROVE \E m \in T : \A k \in T : m <= k
<1>1. IsWellFoundedOn(OpToRel(<, Nat), Nat)
  BY NatLessThanWellFounded, Zenon
<1>2. PICK m \in T : \A k \in T : ~ (<<k, m>> \in OpToRel(<, Nat))
  BY <1>1, WFMin, Zenon
<1>3. \A k \in T : ~(k < m)
  BY <1>2 DEF OpToRel
<1> QED BY <1>3

LEMMA UpTo ==
  ASSUME NEW n \in Nat, NEW T \in SUBSET (0 .. n), 0 \in T,
         \A k \in 0 .. n - 1 : k \in T => k + 1 \in T
  PROVE T = 0 .. n
<1> DEFINE Left == (0 .. n) \ T
<1>1. SUFFICES ASSUME Left # {} PROVE FALSE
  OBVIOUS
<1>2. Left \in SUBSET Nat
  OBVIOUS
<1> HIDE DEF Left
<1>3. PICK m \in Left : \A k \in Left : m <= k
  BY <1>1, <1>2, Least
<1> USE DEF Left
<1>4. m # 0 /\ m - 1 \in 0 .. n - 1
  BY <1>3
<1>5. m - 1 \in T
  BY <1>3, <1>4
<1> QED BY <1>3, <1>4, <1>5

(***************************************************************************)
(* Loops                                                                   *)
(***************************************************************************)

Text == Seq(Symbol)

\* f is what a loop has come to after each position of s.
Runs(f, S, step, first, s) ==
  /\ f \in [0 .. Len(s) -> S]
  /\ f[0] = first
  /\ \A i \in 1 .. Len(s) : f[i] = step[<<f[i - 1], s[i]>>]

\* A loop whose step keeps to a set of states runs to the end.
LEMMA LoopFunction ==
  ASSUME NEW S, NEW X, NEW step \in [S \X X -> S], NEW first \in S,
         NEW s \in Seq(X)
  PROVE \E f : Runs(f, S, step, first, s)
<1> DEFINE n == Len(s)
           Ran(f, k) == /\ f[0] = first
                         /\ \A i \in 1 .. k : f[i] = step[<<f[i - 1], s[i]>>]
           T == {k \in 0 .. n : \E f \in [0 .. k -> S] : Ran(f, k)}
<1>1. n \in Nat /\ \A i \in 1 .. n : s[i] \in X
  BY LenProperties, ElementOfSeq
<1>2. 0 \in T
  <2>1. [i \in 0 .. 0 |-> first] \in [0 .. 0 -> S]
    OBVIOUS
  <2>2. Ran([i \in 0 .. 0 |-> first], 0)
    OBVIOUS
  <2> HIDE DEF Ran
  <2>3. \E f \in [0 .. 0 -> S] : Ran(f, 0)
    BY <2>1, <2>2
  <2> QED BY <1>1, <2>3
<1>3. ASSUME NEW k \in 0 .. n - 1, k \in T PROVE k + 1 \in T
  <2>1. PICK f \in [0 .. k -> S] : Ran(f, k)
    BY <1>3
  <2> DEFINE g == [i \in 0 .. k + 1 |->
                     IF i = k + 1 THEN step[<<f[k], s[k + 1]>>] ELSE f[i]]
  <2>2. k \in Nat /\ k + 1 \in 1 .. n /\ s[k + 1] \in X /\ f[k] \in S
    BY <1>1
  <2>3. step[<<f[k], s[k + 1]>>] \in S
    BY <2>2
  <2>4. g \in [0 .. k + 1 -> S]
    BY <2>2, <2>3
  <2>5. g[0] = first
    BY <2>1, <2>2
  <2>6. ASSUME NEW i \in 1 .. k + 1 PROVE g[i] = step[<<g[i - 1], s[i]>>]
    <3>1. CASE i = k + 1
      <4>1. g[i] = step[<<f[k], s[k + 1]>>] /\ g[i - 1] = f[k]
        BY <2>2, <3>1
      <4> QED BY <3>1, <4>1
    <3>2. CASE i # k + 1
      <4>1. i \in 1 .. k /\ g[i] = f[i] /\ g[i - 1] = f[i - 1]
        BY <2>2, <3>2
      <4>2. f[i] = step[<<f[i - 1], s[i]>>]
        BY <2>1, <4>1
      <4> QED BY <4>1, <4>2
    <3> QED BY <3>1, <3>2
  <2>7. Ran(g, k + 1)
    BY <2>5, <2>6
  <2> HIDE DEF Ran, g
  <2>8. \E f1 \in [0 .. k + 1 -> S] : Ran(f1, k + 1)
    BY <2>4, <2>7
  <2> QED BY <1>1, <2>2, <2>8
<1>4. n \in T
  <2> HIDE DEF T
  <2>1. T \in SUBSET (0 .. n)
    BY DEF T
  <2> QED BY <1>1, <1>2, <1>3, <2>1, UpTo
<1>5. PICK f \in [0 .. n -> S] : Ran(f, n)
  BY <1>4
<1> QED BY <1>5 DEF Runs

\* What FlattenSeq() puts together, part after part.
LEMMA Flattens ==
  ASSUME NEW ts \in Seq(Text)
  PROVE \E f \in [0 .. Len(ts) -> Text] :
          /\ f[0] = <<>>
          /\ \A i \in 1 .. Len(ts) : f[i] = f[i - 1] \o ts[i]
          /\ FlattenSeq(ts) = f[Len(ts)]
<1> DEFINE n == Len(ts)
           step == [x \in Text \X Text |-> x[1] \o x[2]]
           Def(g) == [i \in 1 .. n |-> IF i = 1 THEN ts[i]
                                      ELSE g[i - 1] \o ts[i]]
           flat == CHOOSE g : g = Def(g)
<1>1. n \in Nat /\ \A i \in 1 .. n : ts[i] \in Text
  BY LenProperties, ElementOfSeq
<1>2. step \in [Text \X Text -> Text] /\ <<>> \in Text
  BY DEF Text
<1>3. PICK f : Runs(f, Text, step, <<>>, ts)
  <2> HIDE DEF step
  <2> QED BY <1>2, LoopFunction, Zenon
<1>4. FlattenSeq(ts) = IF n = 0 THEN ts ELSE flat[n]
  BY DEF FlattenSeq
<1>5. n = 0 => ts = <<>>
  BY EmptySeq
<1> HIDE DEF n
<1>6. f \in [0 .. n -> Text] /\ f[0] = <<>>
  BY <1>3 DEF n, Runs
<1>7. ASSUME NEW i \in 1 .. n PROVE f[i] = f[i - 1] \o ts[i]
  <2>1. f[i] = step[<<f[i - 1], ts[i]>>]
    BY <1>3 DEF n, Runs
  <2>2. f[i - 1] \in Text /\ ts[i] \in Text
    BY <1>1, <1>6
  <2> QED BY <2>1, <2>2
<1>8. ASSUME n # 0 PROVE flat[n] = f[n]
  <2> DEFINE h == [i \in 1 .. n |-> f[i]]
             T == {k \in 0 .. n : k = 0 \/ flat[k] = f[k]}
  <2>1. f[1] = ts[1]
    <3>1. f[1] = <<>> \o ts[1] /\ ts[1] \in Text
      BY <1>1, <1>6, <1>7, <1>8
    <3> QED BY <3>1, ConcatEmptySeq DEF Text
  <2>2. h = Def(h)
    <3>1. ASSUME NEW i \in 1 .. n
          PROVE f[i] = IF i = 1 THEN ts[i] ELSE h[i - 1] \o ts[i]
      <4>1. i # 1 => i - 1 \in 1 .. n
        BY <1>1
      <4> QED BY <1>7, <2>1, <4>1
    <3> QED BY <3>1
  <2>3. flat = Def(flat)
    BY <2>2
  <2>4. \A i \in 1 .. n : flat[i] = IF i = 1 THEN ts[i]
                                     ELSE flat[i - 1] \o ts[i]
    BY <2>3
  <2> HIDE DEF flat
  <2>5. ASSUME NEW k \in 0 .. n - 1, k \in T PROVE k + 1 \in T
    <3>1. k + 1 \in 1 .. n /\ (k + 1) - 1 = k
      BY <1>1
    <3>2. flat[k + 1] = IF k + 1 = 1 THEN ts[k + 1] ELSE flat[k] \o ts[k + 1]
      BY <2>4, <3>1
    <3>3. f[k + 1] = f[k] \o ts[k + 1]
      BY <1>7, <3>1
    <3>4. flat[k + 1] = f[k + 1]
      <4>1. CASE k = 0
        BY <2>1, <3>1, <3>2, <4>1
      <4>2. CASE k # 0
        <5>1. k + 1 # 1 /\ flat[k] = f[k]
          BY <1>1, <2>5, <4>2
        <5> QED BY <3>2, <3>3, <5>1
      <4> QED BY <4>1, <4>2
    <3> QED BY <1>1, <3>1, <3>4
  <2> HIDE DEF T
  <2>6. T \in SUBSET (0 .. n) /\ 0 \in T
    BY <1>1 DEF T
  <2>7. T = 0 .. n
    BY <1>1, <2>5, <2>6, UpTo
  <2> QED BY <1>1, <1>8, <2>7 DEF T
<1>9. FlattenSeq(ts) = f[n]
  BY <1>4, <1>5, <1>6, <1>8
<1> QED BY <1>6, <1>7, <1>9 DEF n

(***************************************************************************)
(* Texts in texts                                                          *)
(***************************************************************************)

LEMMA Symbols ==
  ASSUME NEW t \in Text
  PROVE /\ Len(t) \in Nat
        /\ \A i \in 1 .. Len(t) : t[i] \in Symbol
        /\ DOMAIN t = 1 .. Len(t)
BY LenProperties, ElementOfSeq DEF Text

\* v stands in t behind its first k symbols.
Occurs(v, t, k) ==
  /\ k \in Nat
  /\ k + Len(v) <= Len(t)
  /\ \A i \in 1 .. Len(v) : t[k + i] = v[i]

LEMMA Joined ==
  ASSUME NEW a \in Text, NEW b \in Text
  PROVE /\ a \o b \in Text
        /\ Len(a \o b) = Len(a) + Len(b)
        /\ Occurs(a, a \o b, 0)
        /\ Occurs(b, a \o b, Len(a))
<1>1. Len(a) \in Nat /\ Len(b) \in Nat
  BY Symbols
<1>2. /\ a \o b \in Text
      /\ Len(a \o b) = Len(a) + Len(b)
      /\ \A i \in 1 .. Len(a) + Len(b) :
           (a \o b)[i] = IF i <= Len(a) THEN a[i] ELSE b[i - Len(a)]
  BY ConcatProperties DEF Text
<1>3. \A i \in 1 .. Len(a) : (a \o b)[0 + i] = a[i]
  BY <1>1, <1>2
<1>4. \A i \in 1 .. Len(b) : (a \o b)[Len(a) + i] = b[i]
  BY <1>1, <1>2
<1> QED BY <1>1, <1>2, <1>3, <1>4 DEF Occurs

LEMMA OccursWithin ==
  ASSUME NEW v \in Text, NEW u \in Text, NEW t \in Text, NEW j, NEW k,
         Occurs(v, u, j), Occurs(u, t, k)
  PROVE Occurs(v, t, k + j)
<1>1. /\ Len(v) \in Nat /\ Len(u) \in Nat /\ Len(t) \in Nat
      /\ j \in Nat /\ k \in Nat
  BY Symbols DEF Occurs
<1>2. ASSUME NEW i \in 1 .. Len(v) PROVE t[(k + j) + i] = v[i]
  <2>1. j + i \in 1 .. Len(u) /\ k + (j + i) = (k + j) + i
    BY <1>1 DEF Occurs
  <2> QED BY <1>1, <2>1 DEF Occurs
<1> QED BY <1>1, <1>2 DEF Occurs

LEMMA OccursTwice ==
  ASSUME NEW v \in Text, NEW u \in Text, NEW t \in Text, NEW k,
         Occurs(v, t, k), Occurs(u, t, k), Len(v) = Len(u)
  PROVE v = u
<1>1. \A i \in 1 .. Len(v) : v[i] = u[i]
  BY DEF Occurs
<1> QED BY <1>1, SeqEqual DEF Text

LEMMA CutOut ==
  ASSUME NEW v \in Text, NEW t \in Text, NEW k, Occurs(v, t, k)
  PROVE SubSeq(t, k + 1, k + Len(v)) = v
<1> DEFINE u == SubSeq(t, k + 1, k + Len(v))
<1>1. Len(v) \in Nat /\ Len(t) \in Nat /\ k \in Nat
  BY Symbols DEF Occurs
<1>2. \A i \in k + 1 .. k + Len(v) : t[i] \in Symbol
  BY <1>1, Symbols DEF Occurs
<1>3. /\ u \in Text
      /\ Len(u) = Len(v)
      /\ \A i \in 1 .. Len(v) : u[i] = t[(k + 1) + i - 1]
  <2>1. k + 1 \in Int /\ k + Len(v) \in Int
    BY <1>1
  <2>2. /\ u \in Seq(Symbol)
        /\ Len(u) = IF k + 1 <= k + Len(v) THEN (k + Len(v)) - (k + 1) + 1
                    ELSE 0
        /\ \A i \in 1 .. (k + Len(v)) - (k + 1) + 1 :
             u[i] = t[(k + 1) + i - 1]
    BY <1>2, <2>1, SubSeqProperties
  <2> QED BY <1>1, <2>2 DEF Text
<1>4. \A i \in 1 .. Len(v) : u[i] = v[i]
  <2> SUFFICES ASSUME NEW i \in 1 .. Len(v) PROVE u[i] = v[i]
    OBVIOUS
  <2>1. (k + 1) + i - 1 = k + i
    BY <1>1
  <2> QED BY <1>3, <2>1 DEF Occurs
<1> QED BY <1>3, <1>4, SeqEqual DEF Text

(***************************************************************************)
(* Scanning                                                                *)
(***************************************************************************)

Place == [depth : Int, mode : {"bare", "quoted", "escaped"}]

Level(d) == [depth |-> d, mode |-> "bare"]

Deeper(p, d) == [depth |-> p.depth + d, mode |-> p.mode]

\* places are the places a scan of t notes.
Path(places, t, opens, closes) ==
  /\ places \in Seq(Place)
  /\ Len(places) = Len(t) + 1
  /\ places[1] = Outside
  /\ \A i \in 1 .. Len(t) : places[i + 1] = Past(places[i], t[i], opens, closes)

LEMMA PastType ==
  ASSUME NEW p \in Place, NEW c, NEW opens, NEW closes
  PROVE Past(p, c, opens, closes) \in Place
BY DEF Past, Place

LEMMA ScanPath ==
  ASSUME NEW t \in Text, NEW opens, NEW closes
  PROVE Path(Scan(t, opens, closes), t, opens, closes)
<1> DEFINE n == Len(t)
           Note(at1, c) == Append(at1, Past(at1[Len(at1)], c, opens, closes))
           S == {a \in Seq(Place) : a # <<>>}
           step == [x \in S \X Symbol |-> Note(x[1], x[2])]
           Def(g) == [i \in 0 .. n |-> IF i = 0 THEN <<Outside>>
                                      ELSE Note(g[i - 1], t[i])]
           was == CHOOSE g : g = Def(g)
<1>1. n \in Nat /\ \A i \in 1 .. n : t[i] \in Symbol
  BY Symbols
<1>2. Outside \in Place /\ <<Outside>> \in S
  BY DEF Outside, Place
<1>3. \A a \in S, c \in Symbol :
        /\ Len(a) \in Nat \ {0}
        /\ Note(a, c) \in S
        /\ Len(Note(a, c)) = Len(a) + 1
        /\ \A i \in 1 .. Len(a) : Note(a, c)[i] = a[i]
        /\ Note(a, c)[Len(a) + 1] = Past(a[Len(a)], c, opens, closes)
  <2> SUFFICES ASSUME NEW a \in S, NEW c \in Symbol
               PROVE  /\ Len(a) \in Nat \ {0}
                      /\ Note(a, c) \in S
                      /\ Len(Note(a, c)) = Len(a) + 1
                      /\ \A i \in 1 .. Len(a) : Note(a, c)[i] = a[i]
                      /\ Note(a, c)[Len(a) + 1]
                           = Past(a[Len(a)], c, opens, closes)
    OBVIOUS
  <2>1. a \in Seq(Place) /\ Len(a) \in Nat \ {0}
    BY EmptySeq
  <2>2. a[Len(a)] \in Place
    BY <2>1, ElementOfSeq
  <2>3. Past(a[Len(a)], c, opens, closes) \in Place
    BY <2>2, PastType
  <2>4. /\ Note(a, c) \in Seq(Place)
        /\ Note(a, c) # <<>>
        /\ Len(Note(a, c)) = Len(a) + 1
        /\ \A i \in 1 .. Len(a) : Note(a, c)[i] = a[i]
        /\ Note(a, c)[Len(a) + 1] = Past(a[Len(a)], c, opens, closes)
    BY <2>1, <2>3, AppendProperties
  <2> QED BY <2>1, <2>4
<1>4. Scan(t, opens, closes) = was[n]
  BY DEF Scan, Loop
<1>5. was = Def(was)
  <2>1. step \in [S \X Symbol -> S]
    BY <1>3
  <2>2. PICK f : Runs(f, S, step, <<Outside>>, t)
    <3> HIDE DEF step, S
    <3> QED BY <1>2, <2>1, LoopFunction, Zenon DEF Text
  <2>3. f = Def(f)
    <3>1. f \in [0 .. n -> S] /\ f[0] = <<Outside>>
      BY <2>2 DEF Runs
    <3>2. ASSUME NEW i \in 1 .. n PROVE f[i] = Note(f[i - 1], t[i])
      <4>1. f[i - 1] \in S /\ t[i] \in Symbol
        BY <1>1, <3>1
      <4>2. f[i] = step[<<f[i - 1], t[i]>>]
        BY <2>2 DEF Runs
      <4> HIDE DEF S, Note
      <4> QED BY <4>1, <4>2
    <3> HIDE DEF Note, S, n
    <3>3. ASSUME NEW i \in 0 .. n
          PROVE f[i] = IF i = 0 THEN <<Outside>> ELSE Note(f[i - 1], t[i])
      <4>1. CASE i = 0
        BY <3>1, <4>1
      <4>2. CASE i # 0
        <5>1. i \in 1 .. n
          BY <1>1, <4>2
        <5> QED BY <3>2, <4>2, <5>1
      <4> QED BY <4>1, <4>2
    <3> QED BY <3>1, <3>3
  <2> QED BY <2>3
<1>6. was[0] = <<Outside>>
  <2> HIDE DEF was, Note
  <2> QED BY <1>1, <1>5
<1>7. \A i \in 1 .. n : was[i] = Note(was[i - 1], t[i])
  <2> HIDE DEF was, Note
  <2> QED BY <1>1, <1>5, SMTT(30)
<1> DEFINE Good(k) == /\ was[k] \in S
                      /\ Len(was[k]) = k + 1
                      /\ was[k][1] = Outside
                      /\ \A i \in 1 .. k : was[k][i + 1]
                                       = Past(was[k][i], t[i], opens, closes)
           T == {k \in 0 .. n : Good(k)}
<1> HIDE DEF was, n, Note, S
<1>8. Good(0)
  BY <1>2, <1>6
<1>9. ASSUME NEW k \in 0 .. n - 1, k \in T PROVE k + 1 \in T
  <2>1. k \in Nat /\ k + 1 \in 1 .. n /\ (k + 1) - 1 = k /\ Good(k)
    BY <1>1, <1>9
  <2>2. was[k + 1] = Note(was[k], t[k + 1]) /\ t[k + 1] \in Symbol
    BY <1>1, <1>7, <2>1
  <2>3. /\ was[k + 1] \in S
        /\ Len(was[k + 1]) = k + 2
        /\ \A i \in 1 .. k + 1 : was[k + 1][i] = was[k][i]
        /\ was[k + 1][k + 2] = Past(was[k][k + 1], t[k + 1], opens, closes)
    <3>1. /\ was[k] \in S
          /\ Len(was[k]) = k + 1
      BY <2>1
    <3>2. /\ Note(was[k], t[k + 1]) \in S
          /\ Len(Note(was[k], t[k + 1])) = Len(was[k]) + 1
          /\ \A i \in 1 .. Len(was[k]) : Note(was[k], t[k + 1])[i] = was[k][i]
          /\ Note(was[k], t[k + 1])[Len(was[k]) + 1]
               = Past(was[k][Len(was[k])], t[k + 1], opens, closes)
      BY <1>3, <2>2, <3>1
    <3> QED BY <2>1, <2>2, <3>1, <3>2
  <2>4. was[k + 1][1] = Outside
    BY <2>1, <2>3
  <2>5. ASSUME NEW i \in 1 .. k + 1
        PROVE was[k + 1][i + 1] = Past(was[k + 1][i], t[i], opens, closes)
    <3>1. CASE i = k + 1
      <4>1. i + 1 = k + 2 /\ was[k + 1][i] = was[k][k + 1]
        BY <2>1, <2>3, <3>1
      <4> QED BY <2>3, <3>1, <4>1
    <3>2. CASE i # k + 1
      <4>1. i \in 1 .. k /\ i + 1 \in 1 .. k + 1
        BY <2>1, <3>2
      <4>2. was[k + 1][i + 1] = was[k][i + 1] /\ was[k + 1][i] = was[k][i]
        BY <2>3, <4>1
      <4> QED BY <2>1, <4>1, <4>2
    <3> QED BY <3>1, <3>2
  <2>6. Len(was[k + 1]) = (k + 1) + 1 /\ k + 1 \in 0 .. n
    BY <1>1, <2>1, <2>3
  <2> QED BY <2>3, <2>4, <2>5, <2>6
<1>10. Good(n)
  <2>1. T \in SUBSET (0 .. n) /\ 0 \in T
    BY <1>1, <1>8
  <2>2. n \in T
    <3> HIDE DEF T
    <3> QED BY <1>1, <1>9, <2>1, UpTo
  <2> QED BY <2>2
<1>11. was[n] \in Seq(Place)
  BY <1>10 DEF S
<1> QED BY <1>4, <1>10, <1>11 DEF Path, n

\* A text is scanned in another as on its own, only deeper, where the other
\* is outside of strings when it begins.
LEMMA ScanShift ==
  ASSUME NEW t \in Text, NEW v \in Text, NEW k, Occurs(v, t, k),
         NEW opens, NEW closes, NEW at1, NEW av, NEW d \in Int,
         Path(at1, t, opens, closes), Path(av, v, opens, closes),
         at1[k + 1] = Level(d)
  PROVE \A i \in 1 .. Len(v) + 1 : at1[k + i] = Deeper(av[i], d)
<1> DEFINE n == Len(v)
           T == {j \in 0 .. n : at1[k + (j + 1)] = Deeper(av[j + 1], d)}
<1>1. n \in Nat /\ Len(t) \in Nat /\ k \in Nat /\ k + n <= Len(t)
  BY Symbols DEF Occurs
<1> HIDE DEF n
<1>2. 0 \in T
  <2>1. av[0 + 1] = Outside /\ k + (0 + 1) = k + 1
    BY <1>1 DEF Path
  <2> QED BY <1>1, <2>1 DEF Deeper, Level, Outside
<1>3. ASSUME NEW j \in 0 .. n - 1, j \in T PROVE j + 1 \in T
  <2>1. /\ j \in Nat /\ j + 1 \in 1 .. n /\ j + 1 \in 1 .. n + 1
        /\ k + (j + 1) \in 1 .. Len(t)
        /\ (k + (j + 1)) + 1 = k + ((j + 1) + 1)
    BY <1>1
  <2>2. t[k + (j + 1)] = v[j + 1]
    BY <2>1 DEF Occurs, n
  <2>3. /\ at1[k + ((j + 1) + 1)]
             = Past(at1[k + (j + 1)], v[j + 1], opens, closes)
        /\ av[(j + 1) + 1] = Past(av[j + 1], v[j + 1], opens, closes)
    BY <2>1, <2>2 DEF Path, n
  <2>4. at1[k + (j + 1)] = Deeper(av[j + 1], d)
    BY <1>3
  <2>5. av[j + 1] \in Place
    <3>1. av \in Seq(Place) /\ Len(av) = n + 1
      BY DEF Path, n
    <3> QED BY <2>1, <3>1, ElementOfSeq
  <2>6. Past(Deeper(av[j + 1], d), v[j + 1], opens, closes)
          = Deeper(Past(av[j + 1], v[j + 1], opens, closes), d)
    BY <2>5 DEF Past, Deeper, Place
  <2> QED BY <2>1, <2>3, <2>4, <2>6
<1>4. T = 0 .. n
  <2>1. T \in SUBSET (0 .. n)
    OBVIOUS
  <2> HIDE DEF T
  <2> QED BY <1>1, <1>2, <1>3, <2>1, UpTo
<1>5. ASSUME NEW i \in 1 .. n + 1 PROVE at1[k + i] = Deeper(av[i], d)
  <2>1. i - 1 \in 0 .. n /\ (i - 1) + 1 = i
    BY <1>1
  <2>2. i - 1 \in T
    <3> HIDE DEF T
    <3> QED BY <1>4, <2>1
  <2> QED BY <2>1, <2>2
<1> QED BY <1>5 DEF n

(***************************************************************************)
(* Strings: what is written between quotes                                 *)
(***************************************************************************)

\* e spells s for a reader that knows some escapes: symbol after symbol, a
\* quote or a backslash only behind a backslash.
Spells(p, e, s, known) ==
  /\ p \in [0 .. Len(s) -> 0 .. Len(e)]
  /\ p[0] = 0
  /\ p[Len(s)] = Len(e)
  /\ \A i \in 1 .. Len(s) :
       \/ /\ p[i] = p[i - 1] + 1
          /\ e[p[i]] = s[i]
          /\ s[i] \notin {Quote, Backslash}
       \/ /\ p[i] = p[i - 1] + 2
          /\ e[p[i - 1] + 1] = Backslash
          /\ Meant(e[p[i]], known) = s[i]

Codes(e, s, known) ==
  /\ e \in Text
  /\ s \in Text
  /\ \E p : Spells(p, e, s, known)

Table(known) == \A c \in Symbol : Meant(c, known) \in Symbol

\* What a reader of strings has come to.
Got == [out : Text, mode : {"open", "escaped", "closed"}]

Reads(r, t, known) ==
  /\ r \in [0 .. Len(t) -> Got]
  /\ r[0] = [out |-> <<>>, mode |-> "open"]
  /\ \A i \in 1 .. Len(t) : r[i] = Read(r[i - 1], t[i], known)
  /\ Spelled(t, known) = r[Len(t)].out

LEMMA ReadType ==
  ASSUME NEW g \in Got, NEW c \in Symbol, NEW known, Table(known)
  PROVE Read(g, c, known) \in Got
<1>1. g.out \in Seq(Symbol) /\ Meant(c, known) \in Symbol
  BY DEF Got, Text, Table
<1>2. Append(g.out, Meant(c, known)) \in Text /\ Append(g.out, c) \in Text
  BY <1>1, AppendProperties DEF Text
<1> QED BY <1>2 DEF Read, Got

LEMMA SpelledReads ==
  ASSUME NEW t \in Text, NEW known, Table(known)
  PROVE \E r : Reads(r, t, known)
<1> DEFINE n == Len(t)
           first == [out |-> <<>>, mode |-> "open"]
           step == [x \in Got \X Symbol |-> Read(x[1], x[2], known)]
           Def(g) == [i \in 0 .. n |-> IF i = 0 THEN first
                                      ELSE Read(g[i - 1], t[i], known)]
           was == CHOOSE g : g = Def(g)
<1>1. n \in Nat /\ \A i \in 1 .. n : t[i] \in Symbol
  BY Symbols
<1>2. first \in Got
  BY DEF Got, Text
<1>3. step \in [Got \X Symbol -> Got]
  BY ReadType
<1>4. Spelled(t, known) = was[n].out
  BY DEF Spelled, Loop
<1>5. PICK f : Runs(f, Got, step, first, t)
  <2> HIDE DEF step, first
  <2> QED BY <1>2, <1>3, LoopFunction, Zenon DEF Text
<1> HIDE DEF n, first
<1>6. f \in [0 .. n -> Got] /\ f[0] = first
  BY <1>5 DEF Runs, n
<1>7. ASSUME NEW i \in 1 .. n PROVE f[i] = Read(f[i - 1], t[i], known)
  <2>1. f[i - 1] \in Got /\ t[i] \in Symbol
    BY <1>1, <1>6
  <2>2. f[i] = step[<<f[i - 1], t[i]>>]
    BY <1>5 DEF Runs, n
  <2> QED BY <2>1, <2>2
<1>8. f = Def(f)
  <2>1. ASSUME NEW i \in 0 .. n
        PROVE f[i] = IF i = 0 THEN first ELSE Read(f[i - 1], t[i], known)
    <3>1. i # 0 => i \in 1 .. n
      BY <1>1
    <3> QED BY <1>6, <1>7, <3>1
  <2> QED BY <1>6, <2>1
<1>9. was = Def(was)
  BY <1>8
<1> HIDE DEF was
<1>10. was[0] = first
  BY <1>1, <1>9
<1>11. \A i \in 1 .. n : was[i] = Read(was[i - 1], t[i], known)
  BY <1>1, <1>9
<1> DEFINE T == {k \in 0 .. n : was[k] \in Got}
<1>12. 0 \in T
  BY <1>1, <1>2, <1>10
<1>13. ASSUME NEW k \in 0 .. n - 1, k \in T PROVE k + 1 \in T
  <2>1. k + 1 \in 1 .. n /\ (k + 1) - 1 = k /\ k + 1 \in 0 .. n
    BY <1>1
  <2>2. was[k + 1] = Read(was[k], t[k + 1], known)
    BY <1>11, <2>1
  <2> QED BY <1>1, <1>13, <2>1, <2>2, ReadType
<1>14. T = 0 .. n
  <2>1. T \in SUBSET (0 .. n)
    OBVIOUS
  <2> HIDE DEF T
  <2> QED BY <1>1, <1>12, <1>13, <2>1, UpTo
<1>15. was \in [0 .. n -> Got]
  BY <1>9, <1>14
<1> QED BY <1>4, <1>10, <1>11, <1>15 DEF Reads, first, n

\* The first k symbols of a text, and the first k + 1.
LEMMA FirstSymbols ==
  ASSUME NEW s \in Text
  PROVE /\ SubSeq(s, 1, 0) = <<>>
        /\ SubSeq(s, 1, Len(s)) = s
        /\ \A k \in 0 .. Len(s) - 1 :
             SubSeq(s, 1, k + 1) = Append(SubSeq(s, 1, k), s[k + 1])
<1>1. SubSeq(s, 1, 0) = <<>>
  BY SubSeqEmpty
<1>2. SubSeq(s, 1, Len(s)) = s
  BY SubSeqFull DEF Text
<1>3. ASSUME NEW k \in 0 .. Len(s) - 1
      PROVE SubSeq(s, 1, k + 1) = Append(SubSeq(s, 1, k), s[k + 1])
  <2>1. /\ Len(s) \in Nat /\ k \in Nat /\ k + 1 \in 1 .. Len(s)
        /\ 1 \in 1 .. Len(s) /\ (k + 1) - 1 = k
    BY Symbols
  <2>2. SubSeq(s, 1, k + 1) = SubSeq(s, 1, (k + 1) - 1) \o <<s[k + 1]>>
    <3>1. k + 1 \in 1 .. Len(s) /\ s \in Seq(Symbol)
      BY <2>1 DEF Text
    <3> QED BY <2>1, <3>1, SubSeqRecursiveSecond
  <2>3. SubSeq(s, 1, k) \in Seq(Symbol) /\ s[k + 1] \in Symbol
    <3>1. \A i \in 1 .. k : s[i] \in Symbol
      BY <2>1, Symbols
    <3> QED BY <2>1, <3>1, SubSeqProperties, Symbols
  <2> QED BY <2>1, <2>2, <2>3, AppendIsConcat
<1> QED BY <1>1, <1>2, <1>3

\* What reading one more symbol comes to.
LEMMA ReadCases ==
  ASSUME NEW o, NEW c, NEW known
  PROVE /\ c \notin {Quote, Backslash} =>
             Read([out |-> o, mode |-> "open"], c, known)
               = [out |-> Append(o, c), mode |-> "open"]
        /\ Read([out |-> o, mode |-> "open"], Backslash, known)
             = [out |-> o, mode |-> "escaped"]
        /\ Read([out |-> o, mode |-> "open"], Quote, known)
             = [out |-> o, mode |-> "closed"]
        /\ Read([out |-> o, mode |-> "escaped"], c, known)
             = [out |-> Append(o, Meant(c, known)), mode |-> "open"]
        /\ Read([out |-> o, mode |-> "closed"], c, known)
             = [out |-> o, mode |-> "closed"]
<1>1. Quote # Backslash
  BY DEF Quote, Backslash
<1> QED BY <1>1 DEF Read

\* What was spelled is read, up to the quote that closes it.
LEMMA ReadBack ==
  ASSUME NEW e, NEW s, NEW t \in Text, NEW known, Table(known),
         Codes(e, s, known), Occurs(e, t, 0),
         Len(e) < Len(t), t[Len(e) + 1] = Quote
  PROVE Spelled(t, known) = s
<1>1. PICK r : Reads(r, t, known)
  BY SpelledReads
<1>2. PICK p : Spells(p, e, s, known)
  BY DEF Codes
<1> DEFINE n == Len(s)
           m == Len(e)
           First(k) == SubSeq(s, 1, k)
           T == {k \in 0 .. n :
                   r[p[k]] = [out |-> First(k), mode |-> "open"]}
<1>3. /\ e \in Text /\ s \in Text
      /\ n \in Nat /\ m \in Nat /\ Len(t) \in Nat /\ m + 1 \in 1 .. Len(t)
  <2>1. e \in Text /\ s \in Text
    BY DEF Codes
  <2> QED BY <2>1, Symbols
<1>4. \A j \in 1 .. m : t[j] = e[j]
  BY <1>3 DEF Occurs
<1>5. \A j \in 1 .. Len(t) : r[j] = Read(r[j - 1], t[j], known)
  BY <1>1 DEF Reads
<1> HIDE DEF n, m, First
<1>6. 0 \in T
  BY <1>1, <1>2, <1>3, FirstSymbols DEF Reads, Spells, First
<1>7. ASSUME NEW k \in 0 .. n - 1, k \in T PROVE k + 1 \in T
  <2>1. /\ k \in Nat /\ k + 1 \in 1 .. n /\ k + 1 \in 0 .. n /\ (k + 1) - 1 = k
    BY <1>3
  <2>2. /\ p[k] \in 0 .. m /\ p[k + 1] \in 0 .. m
        /\ \/ /\ p[k + 1] = p[k] + 1
              /\ e[p[k + 1]] = s[k + 1]
              /\ s[k + 1] \notin {Quote, Backslash}
           \/ /\ p[k + 1] = p[k] + 2
              /\ e[p[k] + 1] = Backslash
              /\ Meant(e[p[k + 1]], known) = s[k + 1]
    <3>1. p \in [0 .. n -> 0 .. m]
      BY <1>2 DEF Spells, n, m
    <3>2. \/ /\ p[k + 1] = p[(k + 1) - 1] + 1
             /\ e[p[k + 1]] = s[k + 1]
             /\ s[k + 1] \notin {Quote, Backslash}
          \/ /\ p[k + 1] = p[(k + 1) - 1] + 2
             /\ e[p[(k + 1) - 1] + 1] = Backslash
             /\ Meant(e[p[k + 1]], known) = s[k + 1]
      BY <1>2, <2>1 DEF Spells, n
    <3>3. p[k] \in 0 .. m /\ p[k + 1] \in 0 .. m
      BY <1>3, <2>1, <3>1
    <3> QED BY <2>1, <3>2, <3>3
  <2>3. r[p[k]] = [out |-> First(k), mode |-> "open"]
    BY <1>7
  <2>4. First(k + 1) = Append(First(k), s[k + 1])
    BY <1>3, FirstSymbols DEF n, First
  <2>5. \A j \in 0 .. m - 1 : /\ r[j + 1] = Read(r[j], e[j + 1], known)
                              /\ (j + 1) - 1 = j
    <3> SUFFICES ASSUME NEW j \in 0 .. m - 1
                 PROVE r[j + 1] = Read(r[j], e[j + 1], known) /\ (j + 1) - 1 = j
      OBVIOUS
    <3>1. j + 1 \in 1 .. m /\ j + 1 \in 1 .. Len(t) /\ (j + 1) - 1 = j
      BY <1>3
    <3> QED BY <1>4, <1>5, <3>1
  <2>6. CASE /\ p[k + 1] = p[k] + 1
             /\ e[p[k + 1]] = s[k + 1]
             /\ s[k + 1] \notin {Quote, Backslash}
    <3>1. p[k] \in 0 .. m - 1
      BY <1>3, <2>2, <2>6
    <3>2. r[p[k + 1]] = Read(r[p[k]], s[k + 1], known)
      BY <2>5, <2>6, <3>1
    <3>3. r[p[k + 1]] = [out |-> First(k + 1), mode |-> "open"]
      <4>1. Read([out |-> First(k), mode |-> "open"], s[k + 1], known)
              = [out |-> Append(First(k), s[k + 1]), mode |-> "open"]
        BY <2>6 DEF Read
      <4> QED BY <2>3, <2>4, <3>2, <4>1
    <3> QED BY <2>1, <3>3
  <2>7. CASE /\ p[k + 1] = p[k] + 2
             /\ e[p[k] + 1] = Backslash
             /\ Meant(e[p[k + 1]], known) = s[k + 1]
    <3>1. p[k] \in 0 .. m - 1 /\ p[k] + 1 \in 0 .. m - 1
          /\ (p[k] + 1) + 1 = p[k + 1]
      BY <1>3, <2>2, <2>7, SMTT(30)
    <3>2. /\ r[p[k] + 1] = Read(r[p[k]], Backslash, known)
          /\ r[p[k + 1]] = Read(r[p[k] + 1], e[p[k + 1]], known)
      BY <2>5, <2>7, <3>1
    <3>3. r[p[k] + 1] = [out |-> First(k), mode |-> "escaped"]
      BY <2>3, <3>2, ReadCases
    <3>4. r[p[k + 1]] = [out |-> First(k + 1), mode |-> "open"]
      <4>1. Read([out |-> First(k), mode |-> "escaped"],
                 e[p[k + 1]], known)
              = [out |-> Append(First(k), Meant(e[p[k + 1]], known)),
                 mode |-> "open"]
        BY DEF Read
      <4> QED BY <2>4, <2>7, <3>2, <3>3, <4>1
    <3> QED BY <2>1, <3>4
  <2> QED BY <2>2, <2>6, <2>7
<1>8. r[m] = [out |-> s, mode |-> "open"]
  <2>1. T \in SUBSET (0 .. n)
    OBVIOUS
  <2>2. T = 0 .. n
    <3> HIDE DEF T
    <3> QED BY <1>3, <1>6, <1>7, <2>1, UpTo
  <2>3. n \in T
    <3> HIDE DEF T
    <3>1. n \in 0 .. n
      BY <1>3
    <3> QED BY <2>2, <3>1
  <2>4. r[p[n]] = [out |-> First(n), mode |-> "open"]
    BY <2>3
  <2> QED BY <1>2, <1>3, <2>4, FirstSymbols DEF Spells, n, m, First
<1>9. r[m + 1] = [out |-> s, mode |-> "closed"]
  <2>1. r[m + 1] = Read(r[m], Quote, known)
    <3>1. (m + 1) - 1 = m /\ m + 1 \in 1 .. Len(t) /\ t[m + 1] = Quote
      BY <1>3 DEF m
    <3> QED BY <1>5, <3>1
  <2> QED BY <1>8, <2>1, ReadCases
<1> DEFINE q == Len(t) - (m + 1)
           U == {j \in 0 .. q : r[m + 1 + j] = [out |-> s, mode |-> "closed"]}
<1>10. q \in Nat /\ m + 1 + q = Len(t)
  BY <1>3
<1> HIDE DEF q
<1>11. 0 \in U
  <2>1. m + 1 + 0 = m + 1
    BY <1>3
  <2> QED BY <1>9, <1>10, <2>1
<1>12. ASSUME NEW j \in 0 .. q - 1, j \in U PROVE j + 1 \in U
  <2>1. /\ m + 1 + (j + 1) \in 1 .. Len(t) /\ j + 1 \in 0 .. q
        /\ (m + 1 + (j + 1)) - 1 = m + 1 + j
    BY <1>3, <1>10
  <2>2. r[m + 1 + (j + 1)]
          = Read(r[m + 1 + j], t[m + 1 + (j + 1)], known)
    BY <1>5, <2>1
  <2>3. r[m + 1 + j] = [out |-> s, mode |-> "closed"]
    BY <1>12
  <2>4. r[m + 1 + (j + 1)] = [out |-> s, mode |-> "closed"]
    <3>1. Read([out |-> s, mode |-> "closed"], t[m + 1 + (j + 1)], known)
            = [out |-> s, mode |-> "closed"]
      BY ReadCases, ZenonT(30)
    <3> QED BY <2>2, <2>3, <3>1, Zenon
  <2> QED BY <2>1, <2>4
<1>13. q \in U
  <2>1. U \in SUBSET (0 .. q)
    OBVIOUS
  <2> HIDE DEF U
  <2>2. U = 0 .. q
    BY <1>10, <1>11, <1>12, <2>1, UpTo
  <2>3. q \in 0 .. q
    BY <1>10
  <2> QED BY <2>2, <2>3
<1>14. Spelled(t, known) = r[Len(t)].out
  BY <1>1 DEF Reads
<1> QED BY <1>10, <1>13, <1>14

\* Between its quotes a string is never out of them.
LEMMA CodesScan ==
  ASSUME NEW e, NEW s, NEW known, Codes(e, s, known),
         NEW t \in Text, NEW k, Occurs(e, t, k),
         NEW opens, NEW closes, NEW at1, NEW d \in Int,
         Path(at1, t, opens, closes),
         at1[k + 1] = [depth |-> d, mode |-> "quoted"]
  PROVE /\ \A i \in 1 .. Len(e) + 1 : /\ at1[k + i].depth = d
                                      /\ at1[k + i].mode # "bare"
        /\ at1[k + Len(e) + 1] = [depth |-> d, mode |-> "quoted"]
<1>1. PICK p : Spells(p, e, s, known)
  BY DEF Codes
<1> DEFINE n == Len(s)
           m == Len(e)
           Held(i) == at1[k + i].depth = d /\ at1[k + i].mode # "bare"
           T == {j \in 0 .. n :
                   /\ at1[k + (p[j] + 1)] = [depth |-> d, mode |-> "quoted"]
                   /\ \A i \in 1 .. p[j] + 1 : Held(i)}
<1>2. /\ e \in Text /\ s \in Text
      /\ n \in Nat /\ m \in Nat /\ k \in Nat /\ Len(t) \in Nat
      /\ k + m <= Len(t)
  <2>1. e \in Text /\ s \in Text
    BY DEF Codes
  <2> QED BY <2>1, Symbols DEF Occurs
<1>3. \A i \in 1 .. m : t[k + i] = e[i]
  BY DEF Occurs
<1>4. p \in [0 .. n -> 0 .. m] /\ p[0] = 0 /\ p[n] = m
  BY <1>1 DEF Spells
<1>5. \A i \in 1 .. m : at1[k + (i + 1)] = Past(at1[k + i], e[i], opens, closes)
  <2> SUFFICES ASSUME NEW i \in 1 .. m
               PROVE at1[k + (i + 1)] = Past(at1[k + i], e[i], opens, closes)
    OBVIOUS
  <2>1. k + i \in 1 .. Len(t) /\ (k + i) + 1 = k + (i + 1)
    BY <1>2
  <2>2. at1[(k + i) + 1] = Past(at1[k + i], t[k + i], opens, closes)
    BY <2>1 DEF Path
  <2> QED BY <1>3, <2>1, <2>2
<1>6. \A i \in 1 .. n :
       \/ /\ p[i] = p[i - 1] + 1
          /\ e[p[i]] = s[i]
          /\ s[i] \notin {Quote, Backslash}
       \/ /\ p[i] = p[i - 1] + 2
          /\ e[p[i - 1] + 1] = Backslash
          /\ Meant(e[p[i]], known) = s[i]
  BY <1>1 DEF Spells
<1> HIDE DEF n, m
<1>7. 0 \in T
  BY <1>2, <1>4
<1>8. ASSUME NEW j \in 0 .. n - 1, j \in T PROVE j + 1 \in T
  <2>1. /\ j \in Nat /\ j + 1 \in 1 .. n /\ j \in 0 .. n /\ j + 1 \in 0 .. n
        /\ (j + 1) - 1 = j
    BY <1>2
  <2>2. p[j] \in 0 .. m /\ p[j + 1] \in 0 .. m
    BY <1>4, <2>1
  <2>3. /\ at1[k + (p[j] + 1)] = [depth |-> d, mode |-> "quoted"]
        /\ \A i \in 1 .. p[j] + 1 : Held(i)
    BY <1>8
  <2>4. CASE /\ p[j + 1] = p[j] + 1
             /\ e[p[j + 1]] = s[j + 1]
             /\ s[j + 1] \notin {Quote, Backslash}
    <3>1. p[j] + 1 \in 1 .. m
      BY <1>2, <2>2, <2>4
    <3>2. at1[k + ((p[j] + 1) + 1)]
            = Past(at1[k + (p[j] + 1)], s[j + 1], opens, closes)
      BY <1>5, <2>4, <3>1
    <3>3. at1[k + (p[j + 1] + 1)] = [depth |-> d, mode |-> "quoted"]
      BY <2>3, <2>4, <3>2 DEF Past
    <3>4. ASSUME NEW i \in 1 .. p[j + 1] + 1 PROVE Held(i)
      <4>1. i \in 1 .. p[j] + 1 \/ i = p[j + 1] + 1
        BY <1>2, <2>2, <2>4, SMTT(30)
      <4> QED BY <2>3, <3>3, <4>1
    <3> QED BY <2>1, <3>3, <3>4
  <2>5. CASE /\ p[j + 1] = p[j] + 2
             /\ e[p[j] + 1] = Backslash
             /\ Meant(e[p[j + 1]], known) = s[j + 1]
    <3> DEFINE a == p[j]
               b == p[j + 1]
    <3>0. a \in 0 .. m /\ b \in 0 .. m /\ b = a + 2 /\ m \in Nat
      BY <1>2, <2>2, <2>5
    <3> HIDE DEF a, b
    <3>1. a + 1 \in 1 .. m /\ a + 2 \in 1 .. m
      BY <3>0
    <3>2. (a + 1) + 1 = a + 2 /\ (a + 2) + 1 = b + 1
      BY <3>0
    <3> USE DEF a, b
    <3>3. at1[k + (p[j] + 2)] = [depth |-> d, mode |-> "escaped"]
      <4>1. at1[k + (p[j] + 2)]
              = Past(at1[k + (p[j] + 1)], Backslash, opens, closes)
        BY <1>5, <2>5, <3>1, <3>2
      <4> QED BY <2>3, <4>1 DEF Past, Quote, Backslash
    <3>4. at1[k + (p[j + 1] + 1)] = [depth |-> d, mode |-> "quoted"]
      <4>1. at1[k + (p[j + 1] + 1)]
              = Past(at1[k + (p[j] + 2)], e[p[j] + 2], opens, closes)
        BY <1>5, <3>1, <3>2
      <4> QED BY <3>3, <4>1 DEF Past
    <3>5. ASSUME NEW i \in 1 .. p[j + 1] + 1 PROVE Held(i)
      <4>1. \/ i \in 1 .. p[j] + 1
            \/ i = p[j] + 2
            \/ i = p[j + 1] + 1
        BY <1>2, <2>2, <2>5, SMTT(30)
      <4> QED BY <2>3, <3>3, <3>4, <4>1
    <3> QED BY <2>1, <3>4, <3>5
  <2> QED BY <1>6, <2>1, <2>4, <2>5
<1>9. n \in T
  <2>1. T \in SUBSET (0 .. n)
    OBVIOUS
  <2> HIDE DEF T
  <2>2. T = 0 .. n
    BY <1>2, <1>7, <1>8, <2>1, UpTo
  <2>3. n \in 0 .. n
    BY <1>2
  <2> QED BY <2>2, <2>3
<1>10. /\ at1[k + (m + 1)] = [depth |-> d, mode |-> "quoted"]
       /\ \A i \in 1 .. m + 1 : Held(i)
  BY <1>4, <1>9
<1>11. k + m + 1 = k + (m + 1)
  BY <1>2
<1> QED BY <1>10, <1>11 DEF m

(***************************************************************************)
(* Parts put together                                                      *)
(***************************************************************************)

\* Where each part stands, and that there is nothing but parts.
LEMMA FlatParts ==
  ASSUME NEW ts \in Seq(Text)
  PROVE /\ FlattenSeq(ts) \in Text
        /\ \E p \in [0 .. Len(ts) -> 0 .. Len(FlattenSeq(ts))] :
             /\ p[0] = 0
             /\ p[Len(ts)] = Len(FlattenSeq(ts))
             /\ \A i \in 1 .. Len(ts) :
                  /\ p[i] = p[i - 1] + Len(ts[i])
                  /\ Occurs(ts[i], FlattenSeq(ts), p[i - 1])
        /\ \A c \in ToSet(FlattenSeq(ts)) :
             \E i \in 1 .. Len(ts) : c \in ToSet(ts[i])
<1> DEFINE n == Len(ts)
           e == FlattenSeq(ts)
<1>1. PICK f \in [0 .. n -> Text] :
        /\ f[0] = <<>>
        /\ \A i \in 1 .. n : f[i] = f[i - 1] \o ts[i]
        /\ e = f[n]
  BY Flattens
<1>2. n \in Nat /\ \A i \in 1 .. n : ts[i] \in Text
  BY LenProperties, ElementOfSeq
<1>3. \A i \in 0 .. n : f[i] \in Text /\ Len(f[i]) \in Nat
  BY <1>1, Symbols
<1> DEFINE p == [i \in 0 .. n |-> Len(f[i])]
           Whole(k) == \A i \in 0 .. k : Occurs(f[i], f[k], 0)
           Only(k) == \A j \in 1 .. Len(f[k]) :
                        \E i \in 1 .. n : \E x \in 1 .. Len(ts[i]) :
                          f[k][j] = ts[i][x]
           T == {k \in 0 .. n : Whole(k) /\ Only(k)}
<1> HIDE DEF n, e
<1>4. \A i \in 1 .. n : /\ Occurs(f[i - 1], f[i], 0)
                        /\ Occurs(ts[i], f[i], Len(f[i - 1]))
                        /\ Len(f[i]) = Len(f[i - 1]) + Len(ts[i])
  <2> SUFFICES ASSUME NEW i \in 1 .. n
               PROVE  /\ Occurs(f[i - 1], f[i], 0)
                      /\ Occurs(ts[i], f[i], Len(f[i - 1]))
                      /\ Len(f[i]) = Len(f[i - 1]) + Len(ts[i])
    OBVIOUS
  <2>1. i - 1 \in 0 .. n
    BY <1>2
  <2>2. f[i - 1] \in Text /\ ts[i] \in Text
    BY <1>2, <1>3, <2>1
  <2>3. f[i] = f[i - 1] \o ts[i]
    BY <1>1
  <2> QED BY <2>2, <2>3, Joined
<1>5. 0 \in T
  <2>1. f[0] \in Text /\ Len(f[0]) = 0
    BY <1>1, <1>2
  <2>2. Occurs(f[0], f[0], 0)
    BY <2>1 DEF Occurs
  <2> QED BY <1>2, <2>1, <2>2
<1>6. ASSUME NEW k \in 0 .. n - 1, k \in T PROVE k + 1 \in T
  <2>1. /\ k \in 0 .. n /\ k + 1 \in 1 .. n /\ k + 1 \in 0 .. n
        /\ (k + 1) - 1 = k
    BY <1>2
  <2>2. f[k] \in Text /\ f[k + 1] \in Text /\ ts[k + 1] \in Text
    BY <1>2, <1>3, <2>1
  <2>3. /\ Occurs(f[k], f[k + 1], 0)
        /\ Occurs(ts[k + 1], f[k + 1], Len(f[k]))
        /\ Len(f[k + 1]) = Len(f[k]) + Len(ts[k + 1])
    BY <1>4, <2>1
  <2>4. /\ Len(f[k]) \in Nat /\ Len(f[k + 1]) \in Nat
        /\ Len(ts[k + 1]) \in Nat
    BY <2>2, Symbols
  <2>5. ASSUME NEW i \in 0 .. k + 1 PROVE Occurs(f[i], f[k + 1], 0)
    <3>1. CASE i \in 0 .. k
      <4>1. i \in 0 .. n /\ Whole(k)
        BY <1>2, <1>6, <2>1, <3>1
      <4>2. f[i] \in Text /\ Occurs(f[i], f[k], 0)
        BY <1>3, <3>1, <4>1
      <4>3. Occurs(f[i], f[k + 1], 0 + 0)
        BY <2>2, <2>3, <4>2, OccursWithin
      <4> QED BY <4>3
    <3>2. CASE i = k + 1
      BY <2>4, <3>2 DEF Occurs
    <3> QED BY <2>1, <3>1, <3>2
  <2>6. ASSUME NEW j \in 1 .. Len(f[k + 1])
        PROVE \E i \in 1 .. n : \E x \in 1 .. Len(ts[i]) :
                f[k + 1][j] = ts[i][x]
    <3>1. CASE j <= Len(f[k])
      <4>1. j \in 1 .. Len(f[k])
        BY <2>4, <3>1
      <4>2. f[k + 1][j] = f[k][j]
        <5>1. f[k + 1][0 + j] = f[k][j]
          BY <2>3, <4>1 DEF Occurs
        <5> QED BY <2>4, <5>1
      <4>3. Only(k)
        BY <1>6
      <4> HIDE DEF T
      <4> QED BY <4>1, <4>2, <4>3, SMTT(30)
    <3>2. CASE j > Len(f[k])
      <4>1. j - Len(f[k]) \in 1 .. Len(ts[k + 1])
            /\ Len(f[k]) + (j - Len(f[k])) = j
        <5>1. \A a, b \in Nat : \A x \in 1 .. a + b :
                x > a => x - a \in 1 .. b /\ a + (x - a) = x
          OBVIOUS
        <5>2. j \in 1 .. Len(f[k]) + Len(ts[k + 1])
          BY <2>3
        <5> QED BY <2>4, <3>2, <5>1, <5>2
      <4>2. f[k + 1][j] = ts[k + 1][j - Len(f[k])]
        <5>1. f[k + 1][Len(f[k]) + (j - Len(f[k]))] = ts[k + 1][j - Len(f[k])]
          BY <2>3, <4>1 DEF Occurs
        <5> QED BY <4>1, <5>1
      <4> QED BY <2>1, <4>1, <4>2
    <3> QED BY <2>4, <3>1, <3>2
  <2> QED BY <2>1, <2>5, <2>6
<1>7. Whole(n) /\ Only(n)
  <2>1. T \in SUBSET (0 .. n)
    OBVIOUS
  <2>2. n \in T
    <3> HIDE DEF T
    <3>1. T = 0 .. n
      BY <1>2, <1>5, <1>6, <2>1, UpTo
    <3> QED BY <1>2, <3>1
  <2> QED BY <2>2
<1>8. e \in Text /\ Len(e) \in Nat
  BY <1>1, <1>2, <1>3
<1>9. p \in [0 .. n -> 0 .. Len(e)] /\ p[0] = 0 /\ p[n] = Len(e)
  <2>1. ASSUME NEW i \in 0 .. n PROVE Len(f[i]) \in 0 .. Len(e)
    <3>1. Occurs(f[i], e, 0) /\ Len(f[i]) \in Nat
      BY <1>1, <1>3, <1>7
    <3> QED BY <1>8, <3>1 DEF Occurs
  <2>2. Len(f[0]) = 0 /\ Len(f[n]) = Len(e)
    BY <1>1
  <2> QED BY <1>2, <2>1, <2>2
<1>10. ASSUME NEW i \in 1 .. n
       PROVE p[i] = p[i - 1] + Len(ts[i]) /\ Occurs(ts[i], e, p[i - 1])
  <2>1. i - 1 \in 0 .. n /\ i \in 0 .. n
    BY <1>2
  <2>2. p[i] = Len(f[i]) /\ p[i - 1] = Len(f[i - 1])
    BY <2>1
  <2>3. Occurs(ts[i], f[i], Len(f[i - 1])) /\ Occurs(f[i], e, 0)
    BY <1>1, <1>4, <1>7, <2>1
  <2>4. Occurs(ts[i], e, 0 + Len(f[i - 1]))
    BY <1>2, <1>3, <1>8, <2>1, <2>3, OccursWithin
  <2>5. 0 + Len(f[i - 1]) = Len(f[i - 1])
    BY <1>3, <2>1
  <2> QED BY <1>4, <2>2, <2>4, <2>5
<1>11. ASSUME NEW c \in ToSet(e)
       PROVE \E i \in 1 .. n : c \in ToSet(ts[i])
  <2>1. PICK j \in 1 .. Len(e) : c = e[j]
    BY <1>8, Symbols DEF ToSet
  <2>2. PICK i \in 1 .. n : \E x \in 1 .. Len(ts[i]) : e[j] = ts[i][x]
    BY <1>1, <1>7, <2>1
  <2>3. ts[i] \in Text
    BY <1>2
  <2> QED BY <2>1, <2>2, <2>3, Symbols DEF ToSet
<1> HIDE DEF p
<1> QED BY <1>8, <1>9, <1>10, <1>11 DEF e, n

\* A string is spelled by a piece for each of its symbols.
LEMMA PiecesCode ==
  ASSUME NEW s \in Text, NEW ts \in Seq(Text), Len(ts) = Len(s), NEW known,
         \A i \in 1 .. Len(s) :
           \/ ts[i] = <<s[i]>> /\ s[i] \notin {Quote, Backslash}
           \/ \E x \in Symbol : /\ ts[i] = <<Backslash, x>>
                                /\ Meant(x, known) = s[i]
  PROVE Codes(FlattenSeq(ts), s, known)
<1> DEFINE n == Len(s)
           e == FlattenSeq(ts)
<1>1. PICK p \in [0 .. n -> 0 .. Len(e)] :
        /\ p[0] = 0
        /\ p[n] = Len(e)
        /\ \A i \in 1 .. n : p[i] = p[i - 1] + Len(ts[i])
                             /\ Occurs(ts[i], e, p[i - 1])
  BY FlatParts
<1>2. e \in Text /\ n \in Nat
  BY FlatParts, Symbols
<1> HIDE DEF e, n
<1>3. ASSUME NEW i \in 1 .. n
      PROVE \/ /\ p[i] = p[i - 1] + 1
               /\ e[p[i]] = s[i]
               /\ s[i] \notin {Quote, Backslash}
            \/ /\ p[i] = p[i - 1] + 2
               /\ e[p[i - 1] + 1] = Backslash
               /\ Meant(e[p[i]], known) = s[i]
  <2>1. p[i - 1] \in Nat
    <3>1. i - 1 \in 0 .. n /\ Len(e) \in Nat
      BY <1>2, Symbols
    <3> QED BY <1>1, <3>1
  <2>2. p[i] = p[i - 1] + Len(ts[i]) /\ Occurs(ts[i], e, p[i - 1])
    BY <1>1
  <2>3. CASE ts[i] = <<s[i]>> /\ s[i] \notin {Quote, Backslash}
    <3>1. Len(ts[i]) = 1 /\ ts[i][1] = s[i]
      BY <2>3
    <3>2. e[p[i - 1] + 1] = s[i]
      BY <2>2, <3>1 DEF Occurs
    <3> QED BY <2>2, <2>3, <3>1, <3>2
  <2>4. CASE \E x \in Symbol : ts[i] = <<Backslash, x>>
                               /\ Meant(x, known) = s[i]
    <3>1. PICK x \in Symbol : ts[i] = <<Backslash, x>>
                              /\ Meant(x, known) = s[i]
      BY <2>4
    <3>2. Len(ts[i]) = 2 /\ ts[i][1] = Backslash /\ ts[i][2] = x
      BY <3>1
    <3>3. e[p[i - 1] + 1] = ts[i][1] /\ e[p[i - 1] + 2] = ts[i][2]
      <4>1. 1 \in 1 .. Len(ts[i]) /\ 2 \in 1 .. Len(ts[i])
        BY <3>2
      <4> HIDE <3>2
      <4> QED BY <2>2, <4>1 DEF Occurs
    <3>4. e[p[i - 1] + 1] = Backslash /\ e[p[i]] = x
      BY <2>2, <3>2, <3>3
    <3> QED BY <2>2, <3>1, <3>2, <3>4
  <2> QED BY <2>3, <2>4 DEF n
<1>4. Spells(p, e, s, known)
  BY <1>1, <1>3 DEF Spells, n
<1> QED BY <1>2, <1>4 DEF Codes, e

(***************************************************************************)
(* The escapers                                                            *)
(***************************************************************************)

\* A reader that knows these escapes understands what an escaper makes of s.
Undone(s, known) ==
  /\ Table(known)
  /\ Meant(Quote, known) = Quote
  /\ Meant(Backslash, known) = Backslash
  /\ \A c \in Control \cap ToSet(s) : Meant(ControlEscape[c], known) = c

LEMMA Controls ==
  /\ Control \subseteq Symbol /\ Quote \in Symbol /\ Backslash \in Symbol
  /\ Quote # Backslash /\ Quote \notin Control /\ Backslash \notin Control
  /\ \A c \in Control : ControlEscape[c] \in Symbol \ Control
  /\ "newline" \in Control /\ ControlEscape["newline"] = "n"
<1>1. Control = {"newline", "return", "tab", "ctl"}
  BY DEF Control, ControlEscape
<1>2. /\ ControlEscape["newline"] = "n" /\ ControlEscape["return"] = "r"
      /\ ControlEscape["tab"] = "t" /\ ControlEscape["ctl"] = "u0001"
  BY DEF ControlEscape
<1>3. Control \subseteq Symbol /\ Quote \in Symbol /\ Backslash \in Symbol
  BY DEF Symbol, Punctuation
<1>4. Quote # Backslash /\ Quote \notin Control /\ Backslash \notin Control
  BY <1>1 DEF Quote, Backslash
<1>5. \A c \in Control : ControlEscape[c] \in {"n", "r", "t", "u0001"}
  BY <1>1, <1>2
<1>6. {"n", "r", "t", "u0001"} \subseteq Symbol
  BY DEF Symbol
<1>7. {"n", "r", "t", "u0001"} \cap Control = {} /\ "newline" \in Control
  BY <1>1
<1> QED BY <1>2, <1>3, <1>4, <1>5, <1>6, <1>7

\* Texts of one symbol and of two.
LEMMA Few ==
  ASSUME NEW S, NEW x \in S, NEW y \in S
  PROVE /\ <<>> \in Seq(S) /\ <<x>> \in Seq(S) /\ <<x, y>> \in Seq(S)
        /\ Len(<<x>>) = 1 /\ Len(<<x, y>>) = 2
        /\ ToSet(<<x>>) = {x} /\ ToSet(<<x, y>>) = {x, y}
<1>1. ToSet(<<x>>) = {x}
  BY DEF ToSet
<1>2. ToSet(<<x, y>>) = {x, y}
  <2>1. DOMAIN <<x, y>> = {1, 2}
    OBVIOUS
  <2> QED BY <2>1 DEF ToSet
<1> QED BY <1>1, <1>2

LEMMA EscapeCodes ==
  ASSUME NEW s \in Text
  PROVE /\ Escape(s) \in Text
        /\ ToSet(Escape(s)) \cap Control = {}
        /\ \A known : Undone(s, known) => Codes(Escape(s), s, known)
<1> DEFINE Piece(c) == IF c \in Control THEN <<Backslash, ControlEscape[c]>>
                       ELSE IF c \in {Quote, Backslash} THEN <<Backslash, c>>
                       ELSE <<c>>
           ts == [i \in DOMAIN s |-> Piece(s[i])]
<1>1. Len(s) \in Nat /\ DOMAIN s = 1 .. Len(s)
      /\ \A i \in 1 .. Len(s) : s[i] \in Symbol
  BY Symbols
<1>2. ASSUME NEW c \in Symbol PROVE Piece(c) \in Text
  <2>1. CASE c \in Control
    <3>1. <<Backslash, ControlEscape[c]>> \in Text
      BY <2>1, Controls, Few DEF Text
    <3> QED BY <2>1, <3>1
  <2>2. CASE c \notin Control
    <3>1. <<Backslash, c>> \in Text /\ <<c>> \in Text
      BY Controls, Few DEF Text
    <3> QED BY <2>2, <3>1
  <2> QED BY <2>1, <2>2
<1>3. ts \in Seq(Text) /\ Len(ts) = Len(s)
      /\ \A i \in 1 .. Len(s) : ts[i] = Piece(s[i])
  <2>1. \A i \in 1 .. Len(s) : Piece(s[i]) \in Text
    BY <1>1, <1>2
  <2> HIDE DEF Piece
  <2>2. Len(ts) = Len(s) /\ ts \in Seq(Text)
    BY <1>1, <2>1, IsASeq
  <2> QED BY <1>1, <2>2
<1>4. Escape(s) = FlattenSeq(ts)
  BY DEF Escape
<1> HIDE DEF ts
<1>5. Escape(s) \in Text
  BY <1>3, <1>4, FlatParts
<1>6. ASSUME NEW c \in ToSet(Escape(s)) PROVE c \notin Control
  <2>1. PICK i \in 1 .. Len(ts) : c \in ToSet(ts[i])
    BY <1>3, <1>4, FlatParts
  <2>2. c \in ToSet(Piece(s[i]))
    BY <1>3, <2>1
  <2>3. \A x, y \in Symbol : ToSet(<<x>>) = {x} /\ ToSet(<<x, y>>) = {x, y}
    BY Few
  <2>4. CASE s[i] \in Control
    <3>1. Piece(s[i]) = <<Backslash, ControlEscape[s[i]]>>
      BY <2>4
    <3>2. c \in {Backslash, ControlEscape[s[i]]}
      BY <2>2, <2>3, <2>4, <3>1, Controls, Zenon
    <3> QED BY <2>4, <3>2, Controls
  <2>5. CASE s[i] \notin Control
    <3>1. Piece(s[i]) = <<Backslash, s[i]>> \/ Piece(s[i]) = <<s[i]>>
      BY <2>5
    <3>2. s[i] \in Symbol
      BY <1>1, <1>3, <2>1
    <3>3. c \in {Backslash, s[i]}
      BY <2>2, <2>3, <3>1, <3>2, Controls, Zenon
    <3> QED BY <2>5, <3>3, Controls
  <2> QED BY <2>4, <2>5
<1>7. ASSUME NEW known, Undone(s, known) PROVE Codes(Escape(s), s, known)
  <2>1. ASSUME NEW i \in 1 .. Len(s)
        PROVE \/ ts[i] = <<s[i]>> /\ s[i] \notin {Quote, Backslash}
              \/ \E x \in Symbol : ts[i] = <<Backslash, x>>
                                   /\ Meant(x, known) = s[i]
    <3>1. ts[i] = Piece(s[i]) /\ s[i] \in Symbol /\ s[i] \in ToSet(s)
      BY <1>1, <1>3 DEF ToSet
    <3>2. CASE s[i] \in Control
      BY <1>7, <3>1, <3>2, Controls DEF Undone
    <3>3. CASE s[i] \notin Control /\ s[i] \in {Quote, Backslash}
      BY <1>7, <3>1, <3>3 DEF Undone
    <3>4. CASE s[i] \notin Control /\ s[i] \notin {Quote, Backslash}
      BY <3>1, <3>4
    <3> QED BY <3>2, <3>3, <3>4
  <2> HIDE DEF Piece
  <2> QED BY <1>3, <1>4, <2>1, PiecesCode
<1> QED BY <1>5, <1>6, <1>7

LEMMA EscCodes ==
  ASSUME NEW s \in Text, "return" \notin ToSet(s)
  PROVE /\ Esc(s) \in Text
        /\ ToSet(Esc(s)) \cap Control \subseteq ToSet(s) \ {"newline"}
        /\ \A known : Undone(s, known) => Codes(Esc(s), s, known)
<1> DEFINE Piece(c) ==
             CASE c \in {Quote, Backslash} -> <<Backslash, c>>
               [] c = "newline" -> <<Backslash, "n">>
               [] c = "return" -> <<>>
               [] OTHER -> <<c>>
           ts == [i \in DOMAIN s |-> Piece(s[i])]
<1>1. Len(s) \in Nat /\ DOMAIN s = 1 .. Len(s)
      /\ \A i \in 1 .. Len(s) : s[i] \in Symbol /\ s[i] # "return"
                                /\ s[i] \in ToSet(s)
  BY Symbols DEF ToSet
<1>2. ASSUME NEW c \in Symbol \ {"return"}
      PROVE /\ c \in {Quote, Backslash} => Piece(c) = <<Backslash, c>>
            /\ c = "newline" => Piece(c) = <<Backslash, "n">>
            /\ c \notin {Quote, Backslash, "newline"} => Piece(c) = <<c>>
  BY DEF Quote, Backslash
<1> HIDE DEF Piece
<1>3. ASSUME NEW c \in Symbol \ {"return"} PROVE Piece(c) \in Text
  <2>1. /\ <<Backslash, c>> \in Text /\ <<c>> \in Text
        /\ c = "newline" => <<Backslash, "n">> \in Text
    BY Controls, Few DEF Text
  <2> QED BY <1>2, <2>1
<1>4. ts \in Seq(Text) /\ Len(ts) = Len(s)
      /\ \A i \in 1 .. Len(s) : ts[i] = Piece(s[i])
  <2>1. \A i \in 1 .. Len(s) : Piece(s[i]) \in Text
    BY <1>1, <1>3
  <2>2. Len(ts) = Len(s) /\ ts \in Seq(Text)
    BY <1>1, <2>1, IsASeq
  <2> QED BY <1>1, <2>2
<1>5. Esc(s) = FlattenSeq(ts)
  BY DEF Esc, Piece
<1> HIDE DEF ts
<1>6. Esc(s) \in Text
  BY <1>4, <1>5, FlatParts
<1>7. ASSUME NEW c \in ToSet(Esc(s)) \cap Control
      PROVE c \in ToSet(s) \ {"newline"}
  <2>1. PICK i \in 1 .. Len(ts) : c \in ToSet(ts[i])
    BY <1>4, <1>5, FlatParts
  <2>2. c \in ToSet(Piece(s[i])) /\ s[i] \in Symbol \ {"return"}
        /\ s[i] \in ToSet(s)
    BY <1>1, <1>4, <2>1
  <2>3. \A x, y \in Symbol : ToSet(<<x>>) = {x} /\ ToSet(<<x, y>>) = {x, y}
    BY Few
  <2>4. CASE s[i] = "newline"
    <3>1. Piece(s[i]) = <<Backslash, "n">>
      BY <1>2, <2>2, <2>4
    <3>2. c \in {Backslash, "n"}
      BY <2>2, <2>3, <3>1, Controls
    <3> QED BY <3>2, Controls
  <2>5. CASE s[i] \in {Quote, Backslash}
    <3>1. Piece(s[i]) = <<Backslash, s[i]>>
      BY <1>2, <2>2, <2>5
    <3>2. c \in {Backslash, s[i]}
      BY <2>2, <2>3, <3>1, Controls
    <3> QED BY <2>5, <3>2, Controls
  <2>6. CASE s[i] \notin {Quote, Backslash, "newline"}
    <3>1. Piece(s[i]) = <<s[i]>>
      BY <1>2, <2>2, <2>6
    <3>2. ToSet(<<s[i]>>) = {s[i]}
      BY <2>2, Few
    <3>3. c = s[i]
      BY <2>2, <3>1, <3>2
    <3> QED BY <2>2, <2>6, <3>3
  <2> QED BY <2>4, <2>5, <2>6
<1>8. ASSUME NEW known, Undone(s, known) PROVE Codes(Esc(s), s, known)
  <2>1. ASSUME NEW i \in 1 .. Len(s)
        PROVE \/ ts[i] = <<s[i]>> /\ s[i] \notin {Quote, Backslash}
              \/ \E x \in Symbol : ts[i] = <<Backslash, x>>
                                   /\ Meant(x, known) = s[i]
    <3>1. ts[i] = Piece(s[i]) /\ s[i] \in Symbol \ {"return"}
          /\ s[i] \in ToSet(s)
      BY <1>1, <1>4
    <3>2. CASE s[i] = "newline"
      BY <1>2, <1>8, <3>1, <3>2, Controls DEF Undone
    <3>3. CASE s[i] \in {Quote, Backslash}
      BY <1>2, <1>8, <3>1, <3>3 DEF Undone
    <3>4. CASE s[i] \notin {Quote, Backslash, "newline"}
      BY <1>2, <3>1, <3>4
    <3> QED BY <3>2, <3>3, <3>4
  <2> QED BY <1>4, <1>5, <2>1, PiecesCode
<1> QED BY <1>6, <1>7, <1>8

(***************************************************************************)
(* A string in its quotes                                                  *)
(***************************************************************************)

\* What is left of a text behind its first k symbols.
LEMMA Rest ==
  ASSUME NEW t \in Text, NEW k \in 0 .. Len(t)
  PROVE /\ SubSeq(t, k + 1, Len(t)) \in Text
        /\ Len(SubSeq(t, k + 1, Len(t))) = Len(t) - k
        /\ \A i \in 1 .. Len(t) - k :
             SubSeq(t, k + 1, Len(t))[i] = t[k + i]
<1> DEFINE u == SubSeq(t, k + 1, Len(t))
<1>1. Len(t) \in Nat /\ k \in Nat /\ k <= Len(t) /\ k + 1 \in Int
  BY Symbols
<1>2. \A i \in k + 1 .. Len(t) : t[i] \in Symbol
  BY <1>1, Symbols
<1>3. /\ u \in Seq(Symbol)
      /\ Len(u)
           = IF k + 1 <= Len(t) THEN Len(t) - (k + 1) + 1 ELSE 0
      /\ \A i \in 1 .. Len(t) - (k + 1) + 1 :
           u[i] = t[(k + 1) + i - 1]
  BY <1>1, <1>2, SubSeqProperties
<1>4. Len(t) - (k + 1) + 1 = Len(t) - k
  BY <1>1
<1>5. \A i \in 1 .. Len(t) - k : (k + 1) + i - 1 = k + i
  BY <1>1
<1> HIDE DEF u
<1>6. u \in Text /\ Len(u) = Len(t) - k
  <2>1. u \in Text
    BY <1>3 DEF Text
  <2>2. CASE k + 1 <= Len(t)
    BY <1>3, <1>4, <2>1, <2>2
  <2>3. CASE ~(k + 1 <= Len(t))
    <3>1. Len(u) = 0 /\ Len(t) - k = 0
      BY <1>1, <1>3, <2>3
    <3> QED BY <2>1, <3>1
  <2> QED BY <2>2, <2>3
<1>7. \A i \in 1 .. Len(t) - k : u[i] = t[k + i]
  BY <1>3, <1>4, <1>5
<1> QED BY <1>6, <1>7 DEF u

LEMMA QuotedText ==
  ASSUME NEW e \in Text
  PROVE /\ Quoted(e) \in Text
        /\ Len(e) \in Nat
        /\ Len(Quoted(e)) = Len(e) + 2
        /\ Quoted(e)[1] = Quote
        /\ Quoted(e)[Len(e) + 2] = Quote
        /\ Occurs(e, Quoted(e), 1)
        /\ ToSet(Quoted(e)) = ToSet(e) \cup {Quote}
<1> DEFINE a == <<Quote>> \o e
<1>1. <<Quote>> \in Text /\ Len(<<Quote>>) = 1 /\ <<Quote>>[1] = Quote
  BY Controls, Few DEF Text
<1>2. /\ a \in Text /\ Len(a) = 1 + Len(e)
      /\ Occurs(<<Quote>>, a, 0) /\ Occurs(e, a, 1)
  BY <1>1, Joined
<1> HIDE DEF a
<1>3. Quoted(e) = a \o <<Quote>>
  BY DEF Quoted, a
<1>4. /\ Quoted(e) \in Text /\ Len(Quoted(e)) = Len(a) + 1
      /\ Occurs(a, Quoted(e), 0) /\ Occurs(<<Quote>>, Quoted(e), Len(a))
  BY <1>1, <1>2, <1>3, Joined
<1>5. Len(e) \in Nat
  BY Symbols
<1>6. Occurs(<<Quote>>, Quoted(e), 0) /\ Occurs(e, Quoted(e), 1)
  <2>1. Occurs(<<Quote>>, Quoted(e), 0 + 0)
    BY <1>1, <1>2, <1>4, OccursWithin
  <2>2. Occurs(e, Quoted(e), 0 + 1)
    BY <1>2, <1>4, OccursWithin
  <2> QED BY <2>1, <2>2
<1>7. Quoted(e)[1] = Quote /\ Quoted(e)[Len(e) + 2] = Quote
  <2>1. 1 \in 1 .. Len(<<Quote>>)
    BY <1>1
  <2>2. Quoted(e)[0 + 1] = Quote /\ Quoted(e)[Len(a) + 1] = Quote
    BY <1>1, <1>4, <1>6, <2>1 DEF Occurs
  <2>3. Len(a) + 1 = Len(e) + 2
    BY <1>2, <1>5
  <2> QED BY <2>2, <2>3
<1>8. Len(Quoted(e)) = Len(e) + 2
  BY <1>2, <1>4, <1>5
<1>9. \A i \in 1 .. Len(e) + 2 :
        Quoted(e)[i] = IF i \in {1, Len(e) + 2} THEN Quote ELSE e[i - 1]
  <2> SUFFICES ASSUME NEW i \in 1 .. Len(e) + 2, i \notin {1, Len(e) + 2}
               PROVE Quoted(e)[i] = e[i - 1]
    BY <1>7
  <2>1. i - 1 \in 1 .. Len(e) /\ 1 + (i - 1) = i
    BY <1>5
  <2>2. Quoted(e)[1 + (i - 1)] = e[i - 1]
    BY <1>6, <2>1 DEF Occurs
  <2> QED BY <2>1, <2>2
<1>10. ToSet(Quoted(e)) \subseteq ToSet(e) \cup {Quote}
  <2> SUFFICES ASSUME NEW i \in 1 .. Len(e) + 2, i \notin {1, Len(e) + 2}
               PROVE e[i - 1] \in ToSet(e)
    BY <1>4, <1>8, <1>9, Symbols DEF ToSet
  <2>1. i - 1 \in 1 .. Len(e)
    BY <1>5
  <2> QED BY <2>1, Symbols DEF ToSet
<1>11. ToSet(e) \cup {Quote} \subseteq ToSet(Quoted(e))
  <2>1. \A i \in 1 .. Len(Quoted(e)) : Quoted(e)[i] \in ToSet(Quoted(e))
    BY <1>4, Symbols DEF ToSet
  <2>2. Quote \in ToSet(Quoted(e))
    <3>1. 1 \in 1 .. Len(Quoted(e))
      BY <1>5, <1>8
    <3> QED BY <1>7, <2>1, <3>1
  <2>3. ASSUME NEW i \in 1 .. Len(e) PROVE e[i] \in ToSet(Quoted(e))
    <3>1. 1 + i \in 1 .. Len(Quoted(e)) /\ Quoted(e)[1 + i] = e[i]
      BY <1>5, <1>6, <1>8 DEF Occurs
    <3> QED BY <2>1, <3>1
  <2> QED BY <2>2, <2>3, Symbols DEF ToSet
<1> QED BY <1>4, <1>5, <1>6, <1>7, <1>8, <1>10, <1>11

\* A text with a string in it, scanned: bare before and behind the string, at
\* the same depth, and nowhere between its quotes.
LEMMA QuotedPath ==
  ASSUME NEW e, NEW s, NEW known, Codes(e, s, known),
         NEW t \in Text, NEW k, Occurs(Quoted(e), t, k),
         NEW opens, NEW closes, Quote \notin opens, Quote \notin closes,
         NEW at1, NEW d \in Int, Path(at1, t, opens, closes),
         at1[k + 1] = Level(d)
  PROVE /\ \A i \in 2 .. Len(Quoted(e)) : /\ at1[k + i].depth = d
                                         /\ at1[k + i].mode # "bare"
        /\ at1[k + Len(Quoted(e)) + 1] = Level(d)
<1> DEFINE m == Len(e)
           v == Quoted(e)
<1>1. /\ e \in Text /\ v \in Text /\ m \in Nat /\ Len(v) = m + 2
      /\ v[1] = Quote /\ v[m + 2] = Quote /\ Occurs(e, v, 1)
  <2>1. e \in Text
    BY DEF Codes
  <2> QED BY <2>1, QuotedText
<1>2. k \in Nat /\ Len(t) \in Nat /\ k + (m + 2) <= Len(t)
  BY <1>1, Symbols DEF Occurs
<1>3. t[k + 1] = Quote /\ t[k + (m + 2)] = Quote
  <2>1. 1 \in 1 .. Len(v) /\ m + 2 \in 1 .. Len(v)
    BY <1>1
  <2> QED BY <1>1, <2>1 DEF Occurs
<1>4. at1[(k + 1) + 1] = [depth |-> d, mode |-> "quoted"]
  <2>1. k + 1 \in 1 .. Len(t)
    BY <1>1, <1>2
  <2>2. at1[(k + 1) + 1] = Past(at1[k + 1], Quote, opens, closes)
    BY <1>3, <2>1 DEF Path
  <2> QED BY <2>2 DEF Past, Level
<1>5. Occurs(e, t, k + 1)
  BY <1>1, OccursWithin
<1> HIDE DEF m, v
<1>6. /\ \A i \in 1 .. m + 1 : /\ at1[(k + 1) + i].depth = d
                               /\ at1[(k + 1) + i].mode # "bare"
      /\ at1[(k + 1) + m + 1] = [depth |-> d, mode |-> "quoted"]
  BY <1>4, <1>5, CodesScan DEF m
<1>7. ASSUME NEW i \in 2 .. m + 2
      PROVE at1[k + i].depth = d /\ at1[k + i].mode # "bare"
  <2>1. i - 1 \in 1 .. m + 1 /\ (k + 1) + (i - 1) = k + i
    BY <1>1, <1>2
  <2> QED BY <1>6, <2>1
<1>8. at1[k + (m + 2) + 1] = Level(d)
  <2>1. k + (m + 2) \in 1 .. Len(t) /\ (k + 1) + m + 1 = k + (m + 2)
    BY <1>1, <1>2
  <2>2. at1[k + (m + 2) + 1] = Past(at1[k + (m + 2)], Quote, opens, closes)
    BY <1>3, <2>1 DEF Path
  <2> QED BY <1>6, <2>1, <2>2 DEF Past, Level
<1> QED BY <1>1, <1>7, <1>8 DEF v

\* What is spelled between quotes is one string, and is read back.
LEMMA StringRead ==
  ASSUME NEW e, NEW s, Codes(e, s, JsonEscape), ToSet(e) \cap Control = {},
         Table(JsonEscape)
  PROVE IsString(Quoted(e)) /\ StringOf(Quoted(e)) = s
<1> DEFINE v == Quoted(e)
           at1 == Scan(v, {}, {})
<1>1. /\ e \in Text /\ v \in Text /\ Len(e) \in Nat /\ Len(v) = Len(e) + 2
      /\ v[Len(e) + 2] = Quote /\ Occurs(e, v, 1)
      /\ ToSet(v) = ToSet(e) \cup {Quote}
  <2>1. e \in Text
    BY DEF Codes
  <2> QED BY <2>1, QuotedText
<1>2. Path(at1, v, {}, {})
  BY <1>1, ScanPath
<1>3. at1[0 + 1] = Level(0) /\ Occurs(v, v, 0)
  <2>1. at1[1] = Level(0)
    BY <1>2 DEF Path, Level, Outside
  <2>2. Occurs(v, v, 0)
    BY <1>1 DEF Occurs
  <2> QED BY <2>1, <2>2
<1> HIDE DEF at1, v
<1>4. /\ \A i \in 2 .. Len(v) : at1[0 + i].mode # "bare"
      /\ at1[0 + Len(v) + 1] = Level(0)
  <2> DEFINE k == 0
             none == {}
  <2>1. k \in Int /\ Quote \notin none
    OBVIOUS
  <2>2. /\ Quoted(e) \in Text /\ Occurs(Quoted(e), Quoted(e), k)
        /\ Path(at1, Quoted(e), none, none) /\ at1[k + 1] = Level(k)
    BY <1>1, <1>2, <1>3 DEF v
  <2> HIDE DEF k, none
  <2>3. /\ \A i \in 2 .. Len(Quoted(e)) : /\ at1[k + i].depth = k
                                           /\ at1[k + i].mode # "bare"
        /\ at1[k + Len(Quoted(e)) + 1] = Level(k)
    BY <2>1, <2>2, QuotedPath
  <2> QED BY <2>3 DEF v, k
<1>5. \A i \in 1 .. Len(v) + 1 : at1[i].mode = "bare" <=> i \notin 2 .. Len(v)
  <2> SUFFICES ASSUME NEW i \in 1 .. Len(v) + 1
               PROVE at1[i].mode = "bare" <=> i \notin 2 .. Len(v)
    OBVIOUS
  <2>1. CASE i \in 2 .. Len(v)
    <3>1. 0 + i = i
      BY <1>1
    <3> QED BY <1>4, <2>1, <3>1
  <2>2. CASE i = 1
    BY <1>1, <1>3, <2>2 DEF Level
  <2>3. CASE i = Len(v) + 1
    <3>1. 0 + Len(v) + 1 = i
      BY <1>1, <2>3
    <3> QED BY <1>1, <1>4, <2>3, <3>1 DEF Level
  <2> QED BY <1>1, <2>1, <2>2, <2>3
<1>6. v # NoText /\ ToSet(v) \cap Control = {}
  BY <1>1, Controls, NoTextAssumption DEF Text
<1>7. IsString(v)
  BY <1>5, <1>6 DEF IsString, at1
<1> DEFINE u == SubSeq(v, 1 + 1, Len(v))
<1>8. /\ u \in Text /\ Len(u) = Len(e) + 1
      /\ \A i \in 1 .. Len(e) + 1 : u[i] = v[1 + i]
  <2>1. 1 \in 0 .. Len(v) /\ Len(v) - 1 = Len(e) + 1
    BY <1>1
  <2> QED BY <1>1, <2>1, Rest
<1> HIDE DEF u
<1>9. Occurs(e, u, 0) /\ u[Len(e) + 1] = Quote
  <2>1. \A i \in 1 .. Len(e) : u[0 + i] = e[i]
    BY <1>1, <1>8 DEF Occurs
  <2>2. u[Len(e) + 1] = v[1 + (Len(e) + 1)] /\ 1 + (Len(e) + 1) = Len(e) + 2
    BY <1>1, <1>8
  <2>3. 0 + Len(e) <= Len(u)
    BY <1>1, <1>8
  <2> QED BY <1>1, <2>1, <2>2, <2>3 DEF Occurs
<1>10. Spelled(u, JsonEscape) = s
  <2>1. Len(e) < Len(u)
    BY <1>1, <1>8
  <2> QED BY <1>8, <1>9, <2>1, ReadBack
<1> QED BY <1>7, <1>10 DEF StringOf, u, v

\* What escape() writes, whatever it is about, the Gateway reads back.
LEMMA Tables ==
  /\ Table(JsonEscape)
  /\ \A s \in Text : Undone(s, JsonEscape)
<1> DEFINE J == JsonEscape
<1>1. /\ Meant("n", J) = "newline" /\ Meant("r", J) = "return"
      /\ Meant("t", J) = "tab" /\ Meant("u0001", J) = "ctl"
      /\ Meant(Quote, J) = Quote /\ Meant(Backslash, J) = Backslash
      /\ \A c : c \notin {"n", "r", "t", "u0001"} => Meant(c, J) = c
  BY DEF Meant, JsonEscape, Quote, Backslash
<1>2. Control = {"newline", "return", "tab", "ctl"}
  BY DEF Control, ControlEscape
<1>3. /\ ControlEscape["newline"] = "n" /\ ControlEscape["return"] = "r"
      /\ ControlEscape["tab"] = "t" /\ ControlEscape["ctl"] = "u0001"
  BY DEF ControlEscape
<1> HIDE DEF J
<1>4. Table(J)
  BY <1>1, <1>2, Controls DEF Table
<1>5. \A c \in Control : Meant(ControlEscape[c], J) = c
  BY <1>1, <1>2, <1>3
<1> QED BY <1>1, <1>4, <1>5 DEF Undone, J

THEOREM EscapeIsRead ==
  \A s \in Text : /\ IsString(Quoted(Escape(s)))
                  /\ StringOf(Quoted(Escape(s))) = s
BY Tables, EscapeCodes, StringRead

(***************************************************************************)
(* Objects                                                                 *)
(***************************************************************************)

Comma == ","
Colon == ":"
LeftBrace == "{"
RightBrace == "}"

\* raw() of the core counts brackets of one kind only.
Reader == {"core", "gateway"}
Opens(b) == IF b = "core" THEN {"{"} ELSE {"{", "["}
Closes(b) == IF b = "core" THEN {"}"} ELSE {"}", "]"}

Name == Symbol \ {Quote, Backslash}

\* Among the members of an object.
Inner == [depth |-> 1, mode |-> "bare"]

LEMMA Brackets ==
  ASSUME NEW b \in Reader
  PROVE /\ LeftBrace \in Opens(b) /\ RightBrace \in Closes(b)
        /\ RightBrace \notin Opens(b)
        /\ \A c \in {Quote, Backslash, Comma, Colon} :
             c \notin Opens(b) /\ c \notin Closes(b)
        /\ {LeftBrace, RightBrace} \cap {Quote, Backslash} = {}
        /\ {Comma, Colon} \cap {Quote, Backslash} = {}
        /\ Quote # Backslash
BY DEF Reader, Opens, Closes, Quote, Backslash, Comma, Colon, LeftBrace,
       RightBrace

LEMMA Levels ==
  /\ Inner.depth = 1 /\ Inner.mode = "bare" /\ Outside.depth = 0
  /\ Outside.mode = "bare"
  /\ Quote \notin {Comma, Colon, RightBrace}
BY DEF Inner, Outside, Quote, Comma, Colon, RightBrace

LEMMA PastCases ==
  ASSUME NEW b \in Reader
  PROVE
  /\ Past(Outside, LeftBrace, Opens(b), Closes(b)) = Inner
  /\ Past(Inner, RightBrace, Opens(b), Closes(b)) = Outside
  /\ Past(Inner, Comma, Opens(b), Closes(b)) = Inner
  /\ Past(Inner, Colon, Opens(b), Closes(b)) = Inner
  /\ Past(Inner, Quote, Opens(b), Closes(b)) = [depth |-> 1, mode |-> "quoted"]
  /\ Past([depth |-> 1, mode |-> "quoted"], Quote, Opens(b), Closes(b)) = Inner
  /\ \A c : c \notin {Quote, Backslash} =>
       Past([depth |-> 1, mode |-> "quoted"], c, Opens(b), Closes(b))
         = [depth |-> 1, mode |-> "quoted"]
<1>1. Past(Outside, LeftBrace, Opens(b), Closes(b)) = Inner
  BY Brackets DEF Past, Inner, Outside
<1>2. Past(Inner, RightBrace, Opens(b), Closes(b)) = Outside
  BY Brackets DEF Past, Inner, Outside
<1>3. Past(Inner, Comma, Opens(b), Closes(b)) = Inner
  BY Brackets DEF Past, Inner
<1>4. Past(Inner, Colon, Opens(b), Closes(b)) = Inner
  BY Brackets DEF Past, Inner
<1>5. Past(Inner, Quote, Opens(b), Closes(b)) = [depth |-> 1, mode |-> "quoted"]
  BY Brackets DEF Past, Inner
<1>6. Past([depth |-> 1, mode |-> "quoted"], Quote, Opens(b), Closes(b)) = Inner
  BY DEF Past, Inner
<1>7. \A c : c \notin {Quote, Backslash} =>
        Past([depth |-> 1, mode |-> "quoted"], c, Opens(b), Closes(b))
          = [depth |-> 1, mode |-> "quoted"]
  BY DEF Past
<1> QED BY <1>1, <1>2, <1>3, <1>4, <1>5, <1>6, <1>7

\* What is written within brackets is one deeper in.
LEMMA ScanInner ==
  ASSUME NEW b \in Reader,
         NEW t \in Text, NEW v \in Text, NEW k, Occurs(v, t, k),
         NEW at1, Path(at1, t, Opens(b), Closes(b)),
         NEW av, Path(av, v, Opens(b), Closes(b)),
         at1[k + 1] = Inner
  PROVE \A i \in 1 .. Len(v) + 1 :
          /\ at1[k + i].depth = av[i].depth + 1
          /\ at1[k + i].mode = av[i].mode
<1>1. PICK d \in Int : d = 1
  OBVIOUS
<1>2. at1[k + 1] = Level(d)
  BY <1>1 DEF Inner, Level
<1>3. \A i \in 1 .. Len(v) + 1 : at1[k + i] = Deeper(av[i], d)
  BY <1>2, ScanShift
<1> SUFFICES ASSUME NEW i \in 1 .. Len(v) + 1
             PROVE  /\ at1[k + i].depth = av[i].depth + 1
                    /\ at1[k + i].mode = av[i].mode
  OBVIOUS
<1>4. at1[k + i] = Deeper(av[i], d)
  BY <1>3
<1> QED BY <1>1, <1>4 DEF Deeper

\* A symbol at a place that neither ends a member nor begins its value, of
\* an object or of the object a value stands in.
Calm(p, c) == p.depth >= 1 /\ (p = Inner => c \notin {Comma, Colon, RightBrace})
Quiet(p, c) == /\ p.depth >= 0
               /\ p = Outside => c \notin {Comma, Colon, RightBrace}

LEMMA CalmCases ==
  /\ \A c : c \notin {Comma, Colon, RightBrace} => Calm(Inner, c)
  /\ \A c : Calm([depth |-> 1, mode |-> "quoted"], c)
<1>1. ASSUME NEW c, c \notin {Comma, Colon, RightBrace} PROVE Calm(Inner, c)
  <2>1. Inner.depth = 1
    BY Levels, Zenon
  <2>2. Inner.depth >= 1
    BY <2>1
  <2> QED BY <1>1, <2>2, Zenon DEF Calm
<1> DEFINE p == [depth |-> 1, mode |-> "quoted"]
<1>2. p.depth = 1 /\ p.mode = "quoted"
  OBVIOUS
<1> HIDE DEF p
<1>3. p # Inner
  <2>1. Inner.mode = "bare"
    BY Levels
  <2> QED BY <1>2, <2>1
<1>4. ASSUME NEW c PROVE Calm(p, c)
  <2>1. p.depth >= 1
    BY <1>2
  <2> QED BY <1>3, <2>1, Zenon DEF Calm
<1> QED BY <1>1, <1>4 DEF p

LEMMA CalmWithin ==
  ASSUME NEW p \in Place, NEW q, NEW c, Quiet(p, c),
         q.depth = p.depth + 1, q.mode = p.mode
  PROVE Calm(q, c)
<1>1. p.depth \in Int /\ p.depth >= 0
  BY DEF Place, Quiet
<1>2. q.depth >= 1
  BY <1>1
<1>3. ASSUME q = Inner PROVE p = Outside
  <2>1. q.depth = 1 /\ q.mode = "bare"
    BY <1>3, Levels, Zenon
  <2>2. p.depth = 0 /\ p.mode = "bare"
    BY <1>1, <2>1
  <2> QED BY <2>2 DEF Place, Outside
<1> QED BY <1>2, <1>3 DEF Calm, Quiet

\* v can stand as a value: brackets and quotes closed, and nothing at its own
\* level that ends a member or begins its value.
Balanced(v, b) ==
  \E a : /\ Path(a, v, Opens(b), Closes(b))
         /\ a[Len(v) + 1] = Outside
         /\ \A i \in 1 .. Len(v) : Quiet(a[i], v[i])
Value(v) ==
  /\ v \in Text
  /\ Len(v) > 0
  /\ \A b \in Reader : Balanced(v, b)

LEMMA MemberText ==
  ASSUME NEW name \in Name, NEW v \in Text
  PROVE /\ Member(name, v) \in Text
        /\ Len(Member(name, v)) = 4 + Len(v)
        /\ Member(name, v)[1] = Quote
        /\ Member(name, v)[2] = name
        /\ Member(name, v)[3] = Quote
        /\ Member(name, v)[4] = Colon
        /\ Occurs(v, Member(name, v), 4)
<1> DEFINE key == Quoted(<<name>>)
           head == key \o <<Colon>>
<1>1. /\ <<name>> \in Text /\ Len(<<name>>) = 1 /\ <<name>>[1] = name
      /\ <<Colon>> \in Text /\ Len(<<Colon>>) = 1 /\ <<Colon>>[1] = Colon
  <2>1. name \in Symbol /\ Colon \in Symbol
    BY DEF Name, Symbol, Punctuation, Colon
  <2> QED BY <2>1, Few DEF Text
<1>2. /\ key \in Text /\ Len(key) = 3
      /\ key[1] = Quote /\ key[2] = name /\ key[3] = Quote
  <2>1. /\ key \in Text /\ Len(key) = Len(<<name>>) + 2
        /\ key[1] = Quote /\ key[Len(<<name>>) + 2] = Quote
        /\ Occurs(<<name>>, key, 1)
    BY <1>1, QuotedText
  <2>2. Len(key) = 3 /\ key[3] = Quote
    BY <1>1, <2>1
  <2>3. key[1 + 1] = <<name>>[1]
    <3>1. 1 \in 1 .. Len(<<name>>)
      BY <1>1
    <3> QED BY <2>1, <3>1 DEF Occurs
  <2> QED BY <1>1, <2>1, <2>2, <2>3
<1> HIDE DEF key
<1>3. /\ head \in Text /\ Len(head) = 4
      /\ Occurs(key, head, 0) /\ Occurs(<<Colon>>, head, 3)
  <2>1. /\ head \in Text /\ Len(head) = Len(key) + Len(<<Colon>>)
        /\ Occurs(key, head, 0) /\ Occurs(<<Colon>>, head, Len(key))
    BY <1>1, <1>2, Joined
  <2> HIDE DEF head
  <2> QED BY <1>1, <1>2, <2>1
<1> HIDE DEF head
<1>4. /\ head[1] = Quote /\ head[2] = name /\ head[3] = Quote /\ head[4] = Colon
  <2>1. /\ head[0 + 1] = key[1] /\ head[0 + 2] = key[2] /\ head[0 + 3] = key[3]
    <3>1. 1 \in 1 .. Len(key) /\ 2 \in 1 .. Len(key) /\ 3 \in 1 .. Len(key)
      BY <1>2
    <3> QED BY <1>3, <3>1 DEF Occurs
  <2>2. head[3 + 1] = <<Colon>>[1]
    <3>1. 1 \in 1 .. Len(<<Colon>>)
      BY <1>1
    <3> QED BY <1>3, <3>1 DEF Occurs
  <2> QED BY <1>1, <1>2, <2>1, <2>2
<1> DEFINE m == Member(name, v)
<1>5. /\ m \in Text /\ Len(m) = 4 + Len(v)
      /\ Occurs(head, m, 0) /\ Occurs(v, m, 4)
  <2>1. m = head \o v
    BY DEF Member, head, key, Colon
  <2> HIDE DEF m
  <2> QED BY <1>3, <2>1, Joined
<1> HIDE DEF m
<1>6. /\ m[0 + 1] = head[1] /\ m[0 + 2] = head[2]
      /\ m[0 + 3] = head[3] /\ m[0 + 4] = head[4]
  <2>1. 1 \in 1 .. Len(head) /\ 2 \in 1 .. Len(head) /\ 3 \in 1 .. Len(head)
        /\ 4 \in 1 .. Len(head)
    BY <1>3
  <2> QED BY <1>5, <2>1 DEF Occurs
<1> QED BY <1>4, <1>5, <1>6 DEF m

\* A member of an object, scanned.
LEMMA MemberPath ==
  ASSUME NEW b \in Reader,
         NEW name \in Name, NEW v, Value(v), NEW t \in Text, NEW k,
         Occurs(Member(name, v), t, k),
         NEW at1, Path(at1, t, Opens(b), Closes(b)), at1[k + 1] = Inner
  PROVE /\ at1[k + 4] = Inner
        /\ at1[k + Len(Member(name, v)) + 1] = Inner
        /\ \A i \in 1 .. Len(Member(name, v)) :
             i = 4 \/ Calm(at1[k + i], t[k + i])
<1> DEFINE m == Member(name, v)
<1>1. /\ v \in Text /\ Len(v) \in Nat /\ m \in Text /\ Len(m) = 4 + Len(v)
      /\ m[1] = Quote /\ m[2] = name /\ m[3] = Quote /\ m[4] = Colon
      /\ Occurs(v, m, 4) /\ Occurs(m, t, k)
      /\ k \in Nat /\ Len(t) \in Nat /\ k + Len(m) <= Len(t)
  <2>1. v \in Text
    BY DEF Value
  <2> QED BY <2>1, MemberText, Symbols DEF Occurs
<1> HIDE DEF m
<1>2. \A i \in 1 .. Len(m) : t[k + i] = m[i]
  BY <1>1 DEF Occurs
<1>3. \A i \in 1 .. Len(m) :
        at1[(k + i) + 1] = Past(at1[k + i], m[i], Opens(b), Closes(b))
  <2> SUFFICES ASSUME NEW i \in 1 .. Len(m)
               PROVE at1[(k + i) + 1]
                       = Past(at1[k + i], m[i], Opens(b), Closes(b))
    OBVIOUS
  <2>1. k + i \in 1 .. Len(t)
    BY <1>1
  <2> QED BY <1>2, <2>1 DEF Path
<1>4. /\ at1[k + 2] = [depth |-> 1, mode |-> "quoted"]
      /\ at1[k + 3] = [depth |-> 1, mode |-> "quoted"]
      /\ at1[k + 4] = Inner
      /\ at1[k + 5] = Inner
  <2>1. 1 \in 1 .. Len(m) /\ 2 \in 1 .. Len(m) /\ 3 \in 1 .. Len(m)
        /\ 4 \in 1 .. Len(m)
    BY <1>1
  <2>2. at1[k + 2] = Past(at1[k + 1], Quote, Opens(b), Closes(b))
    <3>1. (k + 1) + 1 = k + 2
      BY <1>1
    <3> QED BY <1>1, <1>3, <2>1, <3>1
  <2>3. at1[k + 3] = Past(at1[k + 2], name, Opens(b), Closes(b))
    <3>1. (k + 2) + 1 = k + 3
      BY <1>1
    <3> QED BY <1>1, <1>3, <2>1, <3>1
  <2>4. at1[k + 4] = Past(at1[k + 3], Quote, Opens(b), Closes(b))
    <3>1. (k + 3) + 1 = k + 4
      BY <1>1
    <3> QED BY <1>1, <1>3, <2>1, <3>1
  <2>5. at1[k + 5] = Past(at1[k + 4], Colon, Opens(b), Closes(b))
    <3>1. (k + 4) + 1 = k + 5
      BY <1>1
    <3> QED BY <1>1, <1>3, <2>1, <3>1
  <2>6. at1[k + 2] = [depth |-> 1, mode |-> "quoted"]
    BY <2>2, PastCases
  <2>7. at1[k + 3] = [depth |-> 1, mode |-> "quoted"]
    BY <2>3, <2>6, PastCases DEF Name
  <2>8. at1[k + 4] = Inner
    BY <2>4, <2>7, PastCases
  <2>9. at1[k + 5] = Inner
    BY <2>5, <2>8, PastCases
  <2> QED BY <2>6, <2>7, <2>8, <2>9
<1>5. PICK a : /\ Path(a, v, Opens(b), Closes(b))
               /\ a[Len(v) + 1] = Outside
               /\ \A i \in 1 .. Len(v) : Quiet(a[i], v[i])
  BY DEF Value, Balanced
<1>6. Occurs(v, t, k + 4)
  BY <1>1, OccursWithin
<1>7. \A i \in 1 .. Len(v) + 1 : /\ at1[(k + 4) + i].depth = a[i].depth + 1
        /\ at1[(k + 4) + i].mode = a[i].mode
  <2> DEFINE h == k + 4
  <2>1. at1[h + 1] = Inner
    <3>1. h + 1 = k + 5
      BY <1>1
    <3> QED BY <1>4, <3>1
  <2>2. Occurs(v, t, h) /\ v \in Text /\ Path(a, v, Opens(b), Closes(b))
    BY <1>1, <1>5, <1>6
  <2> HIDE DEF h
  <2>3. \A i \in 1 .. Len(v) + 1 :
          /\ at1[h + i].depth = a[i].depth + 1
          /\ at1[h + i].mode = a[i].mode
    BY <2>1, <2>2, ScanInner
  <2> QED BY <2>3 DEF h
<1>8. at1[k + Len(m) + 1] = Inner
  <2>1. /\ (k + 4) + (Len(v) + 1) = k + Len(m) + 1
        /\ Len(v) + 1 \in 1 .. Len(v) + 1
    BY <1>1
  <2>2. /\ at1[k + Len(m) + 1].depth = a[Len(v) + 1].depth + 1
        /\ at1[k + Len(m) + 1].mode = a[Len(v) + 1].mode
    BY <1>7, <2>1
  <2>3. a[Len(v) + 1].depth = 0 /\ a[Len(v) + 1].mode = "bare"
    <3>1. a[Len(v) + 1] = Outside
      BY <1>5
    <3>2. Outside.depth = 0 /\ Outside.mode = "bare"
      BY DEF Outside
    <3> QED BY <3>1, <3>2, Zenon
  <2>4. at1[k + Len(m) + 1] \in Place
    <3>1. k + Len(m) + 1 \in 1 .. Len(t) + 1
      BY <1>1
    <3>2. at1 \in Seq(Place) /\ Len(at1) = Len(t) + 1
      BY DEF Path
    <3> QED BY <3>1, <3>2, ElementOfSeq
  <2> QED BY <2>2, <2>3, <2>4 DEF Inner, Place
<1>9. ASSUME NEW i \in 1 .. Len(m), i # 4 PROVE Calm(at1[k + i], t[k + i])
  <2>1. t[k + i] = m[i]
    BY <1>2
  <2>2. CASE i = 1
    <3>1. at1[k + i] = Inner /\ t[k + i] = Quote
      BY <1>1, <2>1, <2>2
    <3> QED BY <3>1, Levels, CalmCases
  <2>3. CASE i = 2 \/ i = 3
    <3>1. at1[k + i] = [depth |-> 1, mode |-> "quoted"]
      BY <1>4, <2>3
    <3> QED BY <3>1, CalmCases, Zenon
  <2>4. CASE i > 4
    <3>1. i - 4 \in 1 .. Len(v) /\ (k + 4) + (i - 4) = k + i
          /\ 4 + (i - 4) = i /\ i - 4 \in 1 .. Len(v) + 1
      BY <1>1, <2>4
    <3>2. m[i] = v[i - 4]
      BY <1>1, <3>1 DEF Occurs
    <3>3. /\ at1[k + i].depth = a[i - 4].depth + 1
          /\ at1[k + i].mode = a[i - 4].mode
      BY <1>7, <3>1
    <3>4. a[i - 4] \in Place
      <4>1. a \in Seq(Place) /\ Len(a) = Len(v) + 1
        BY <1>5 DEF Path
      <4> QED BY <1>1, <3>1, <4>1, ElementOfSeq
    <3>5. Quiet(a[i - 4], t[k + i])
      BY <1>5, <2>1, <3>1, <3>2
    <3> QED BY <3>3, <3>4, <3>5, CalmWithin
  <2> QED BY <1>1, <1>9, <2>2, <2>3, <2>4
<1> QED BY <1>4, <1>8, <1>9 DEF m

\* Each member of the object t stands behind its first w[i] symbols: after the
\* brace, the first, and after a comma, each of the others.
Laid(t, ms, w) ==
  /\ t \in Text
  /\ Len(t) >= 2
  /\ w \in [1 .. Len(ms) -> Nat]
  /\ t[1] = LeftBrace
  /\ t[Len(t)] = RightBrace
  /\ w[1] = 1
  /\ w[Len(ms)] + Len(ms[Len(ms)]) + 1 = Len(t)
  /\ \A i \in 1 .. Len(ms) : Occurs(ms[i], t, w[i])
  /\ \A i \in 1 .. Len(ms) - 1 : /\ w[i + 1] = w[i] + Len(ms[i]) + 1
                                 /\ t[w[i + 1]] = Comma

LEMMA ObjectParts ==
  ASSUME NEW ms \in Seq(Text), Len(ms) > 0
  PROVE \E w : Laid(Object(ms), ms, w)
<1> DEFINE n == Len(ms)
           comma == <<Comma>>
           brace == <<LeftBrace>>
           close == <<RightBrace>>
           ts == [i \in DOMAIN ms |-> IF i = 1 THEN ms[i] ELSE comma \o ms[i]]
           e == Commas(ms)
           a == brace \o e
           t == Object(ms)
<1>1. /\ n \in Nat /\ n > 0 /\ DOMAIN ms = 1 .. n
      /\ \A i \in 1 .. n : ms[i] \in Text /\ Len(ms[i]) \in Nat
  BY LenProperties, ElementOfSeq, Symbols
<1>2. /\ comma \in Text /\ Len(comma) = 1 /\ comma[1] = Comma
      /\ brace \in Text /\ Len(brace) = 1 /\ brace[1] = LeftBrace
      /\ close \in Text /\ Len(close) = 1 /\ close[1] = RightBrace
  <2>1. Comma \in Symbol /\ LeftBrace \in Symbol /\ RightBrace \in Symbol
    BY DEF Symbol, Punctuation, Comma, LeftBrace, RightBrace
  <2> QED BY <2>1, Few DEF Text
<1>6. e = FlattenSeq(ts)
  BY DEF Commas, Comma
<1>10. t = a \o close
  BY DEF Object, e, LeftBrace, RightBrace
<1> HIDE DEF comma, brace, close, a, t
<1>3. ASSUME NEW i \in 1 .. n, i # 1
      PROVE /\ ts[i] \in Text
            /\ Len(ts[i]) = 1 + Len(ms[i])
            /\ ts[i][1] = Comma
            /\ Occurs(ms[i], ts[i], 1)
  <2>1. ts[i] = comma \o ms[i]
    BY <1>1, <1>3
  <2> HIDE DEF ts
  <2>2. /\ ts[i] \in Text /\ Len(ts[i]) = Len(comma) + Len(ms[i])
        /\ Occurs(comma, ts[i], 0) /\ Occurs(ms[i], ts[i], Len(comma))
    <3>1. comma \in Text /\ ms[i] \in Text
      BY <1>1, <1>2
    <3> QED BY <2>1, <3>1, Joined, Zenon
  <2>3. ts[i][0 + 1] = comma[1]
    <3>1. 1 \in 1 .. Len(comma)
      BY <1>2
    <3> QED BY <2>2, <3>1 DEF Occurs
  <2> QED BY <1>2, <2>2, <2>3
<1>4. ts[1] = ms[1]
  BY <1>1
<1>5. ts \in Seq(Text) /\ Len(ts) = n
  <2>1. \A i \in 1 .. n : ts[i] \in Text
    BY <1>1, <1>3, <1>4
  <2> QED BY <1>1, <2>1, IsASeq
<1> HIDE DEF ts, n, e
<1>7. PICK p \in [0 .. n -> 0 .. Len(e)] :
        /\ p[0] = 0
        /\ p[n] = Len(e)
        /\ \A i \in 1 .. n : p[i] = p[i - 1] + Len(ts[i])
                             /\ Occurs(ts[i], e, p[i - 1])
  <2>1. \E p \in [0 .. Len(ts) -> 0 .. Len(FlattenSeq(ts))] :
          /\ p[0] = 0
          /\ p[Len(ts)] = Len(FlattenSeq(ts))
          /\ \A i \in 1 .. Len(ts) :
               /\ p[i] = p[i - 1] + Len(ts[i])
               /\ Occurs(ts[i], FlattenSeq(ts), p[i - 1])
    BY <1>5, FlatParts, Zenon
  <2> QED BY <1>5, <1>6, <2>1, Zenon
<1>8. e \in Text /\ Len(e) \in Nat
  BY <1>5, <1>6, FlatParts, Symbols
<1>9. /\ a \in Text /\ Len(a) = 1 + Len(e)
      /\ Occurs(brace, a, 0) /\ Occurs(e, a, 1)
  BY <1>2, <1>8, Joined DEF a
<1>11. /\ t \in Text /\ Len(t) = Len(a) + 1
       /\ Occurs(a, t, 0) /\ Occurs(close, t, Len(a))
  <2>1. /\ a \o close \in Text /\ Len(a \o close) = Len(a) + Len(close)
        /\ Occurs(a, a \o close, 0) /\ Occurs(close, a \o close, Len(a))
    BY <1>2, <1>9, Joined
  <2> QED BY <1>2, <1>10, <2>1
<1>12. Len(t) = Len(e) + 2
  BY <1>8, <1>9, <1>11
<1>13. Occurs(brace, t, 0) /\ Occurs(e, t, 1)
  <2>1. Occurs(brace, t, 0 + 0)
    BY <1>2, <1>9, <1>11, OccursWithin
  <2>2. Occurs(e, t, 0 + 1)
    BY <1>8, <1>9, <1>11, OccursWithin
  <2> QED BY <2>1, <2>2
<1>14. t[1] = LeftBrace /\ t[Len(t)] = RightBrace
  <2>1. 1 \in 1 .. Len(brace) /\ 1 \in 1 .. Len(close)
    BY <1>2
  <2>2. t[0 + 1] = brace[1] /\ t[Len(a) + 1] = close[1]
    BY <1>11, <1>13, <2>1 DEF Occurs
  <2> QED BY <1>2, <1>11, <2>2
<1> DEFINE w == [i \in 1 .. n |-> IF i = 1 THEN 1 ELSE p[i - 1] + 2]
<1>15. \A i \in 0 .. n : p[i] \in Nat
  BY <1>1, <1>7, <1>8
<1>16. w \in [1 .. n -> Nat] /\ w[1] = 1
       /\ \A i \in 1 .. n : i # 1 => w[i] = p[i - 1] + 2
  <2>1. ASSUME NEW i \in 1 .. n PROVE p[i - 1] + 2 \in Nat
    <3>1. i - 1 \in 0 .. n
      BY <1>1
    <3>2. p[i - 1] \in Nat
      BY <1>15, <3>1
    <3> QED BY <3>2
  <2>2. 1 \in 1 .. n /\ 1 \in Nat
    BY <1>1
  <2>3. w \in [1 .. n -> Nat]
    BY <2>1, <2>2, Zenon
  <2>4. \A i \in 1 .. n : w[i] = IF i = 1 THEN 1 ELSE p[i - 1] + 2
    BY Zenon
  <2> HIDE DEF w
  <2> QED BY <2>2, <2>3, <2>4
<1> HIDE DEF w
<1>17. \A i \in 1 .. n : p[i] + 2 = w[i] + Len(ms[i]) + 1
  <2> SUFFICES ASSUME NEW i \in 1 .. n
               PROVE p[i] + 2 = w[i] + Len(ms[i]) + 1
    OBVIOUS
  <2>1. p[i] = p[i - 1] + Len(ts[i]) /\ p[i - 1] \in Nat /\ Len(ms[i]) \in Nat
    <3>1. i - 1 \in 0 .. n
      BY <1>1
    <3> QED BY <1>1, <1>7, <1>15, <3>1
  <2>2. CASE i = 1
    <3>1. p[i] = Len(ms[i]) /\ w[i] = 1
      BY <1>4, <1>7, <1>16, <2>1, <2>2
    <3> QED BY <2>1, <3>1
  <2>3. CASE i # 1
    <3>1. Len(ts[i]) = 1 + Len(ms[i]) /\ w[i] = p[i - 1] + 2
      BY <1>3, <1>16, <2>3
    <3>2. p[i] = p[i - 1] + (1 + Len(ms[i]))
      BY <2>1, <3>1, Zenon
    <3>3. w[i] + Len(ms[i]) + 1 = (p[i - 1] + 2) + Len(ms[i]) + 1
      BY <3>1, Zenon
    <3>4. \A x, y \in Nat : (x + (1 + y)) + 2 = (x + 2) + y + 1
      OBVIOUS
    <3> QED BY <2>1, <3>2, <3>3, <3>4, Zenon
  <2> QED BY <2>2, <2>3
<1>18. ASSUME NEW i \in 1 .. n PROVE Occurs(ms[i], t, w[i])
  <2>1. ts[i] \in Text /\ ms[i] \in Text /\ Occurs(ts[i], e, p[i - 1])
        /\ p[i - 1] \in Nat
    <3>1. i - 1 \in 0 .. n
      BY <1>1
    <3> QED BY <1>1, <1>3, <1>4, <1>7, <1>15, <3>1
  <2>2. Occurs(ts[i], t, 1 + p[i - 1])
    BY <1>8, <1>11, <1>13, <2>1, OccursWithin
  <2>3. CASE i = 1
    <3>1. 1 + p[i - 1] = w[i]
      BY <1>7, <1>16, <2>3
    <3> QED BY <1>4, <2>2, <2>3, <3>1
  <2>4. CASE i # 1
    <3>1. Occurs(ms[i], t, (1 + p[i - 1]) + 1)
      BY <1>3, <1>11, <2>1, <2>2, <2>4, OccursWithin
    <3>2. (1 + p[i - 1]) + 1 = w[i]
      BY <1>16, <2>1, <2>4
    <3> QED BY <3>1, <3>2
  <2> QED BY <2>3, <2>4
<1>19. ASSUME NEW i \in 1 .. n - 1
       PROVE w[i + 1] = w[i] + Len(ms[i]) + 1 /\ t[w[i + 1]] = Comma
  <2>1. i \in 1 .. n /\ i + 1 \in 1 .. n /\ i + 1 # 1 /\ (i + 1) - 1 = i
        /\ i \in 0 .. n
    BY <1>1
  <2>2. w[i + 1] = p[i] + 2 /\ p[i] \in Nat
    BY <1>15, <1>16, <2>1
  <2>3. Occurs(ts[i + 1], e, p[i]) /\ ts[i + 1][1] = Comma
        /\ 1 \in 1 .. Len(ts[i + 1])
    <3>1. Occurs(ts[i + 1], e, p[(i + 1) - 1])
      BY <1>7, <2>1
    <3>2. Len(ts[i + 1]) = 1 + Len(ms[i + 1]) /\ ts[i + 1][1] = Comma
      BY <1>3, <2>1
    <3>3. 1 \in 1 .. Len(ts[i + 1])
      BY <1>1, <2>1, <3>2
    <3> QED BY <2>1, <3>1, <3>2, <3>3
  <2>4. e[p[i] + 1] = Comma /\ p[i] + 1 \in 1 .. Len(e)
    BY <1>8, <2>2, <2>3, SMTT(30) DEF Occurs
  <2>5. t[1 + (p[i] + 1)] = Comma
    BY <1>13, <2>4 DEF Occurs
  <2> QED BY <1>17, <2>1, <2>2, <2>5
<1>20. w[n] + Len(ms[n]) + 1 = Len(t)
  BY <1>1, <1>7, <1>12, <1>17
<1>21. Laid(t, ms, w)
  BY <1>8, <1>11, <1>12, <1>14, <1>16, <1>18, <1>19, <1>20 DEF Laid, n
<1> QED BY <1>21 DEF t

\* ms are the members of an object, of these names and values.
Members(ms, names, values) ==
  /\ ms \in Seq(Text)
  /\ Len(ms) > 0
  /\ \A i \in 1 .. Len(ms) : /\ names[i] \in Name
                             /\ Value(values[i])
                             /\ ms[i] = Member(names[i], values[i])

LEMMA Lengths ==
  ASSUME NEW ms, NEW names, NEW values, Members(ms, names, values),
         NEW t, NEW w, Laid(t, ms, w)
  PROVE /\ Len(ms) \in Nat /\ Len(ms) > 0
        /\ \A i \in 1 .. Len(ms) :
             /\ ms[i] \in Text /\ Len(ms[i]) \in Nat /\ Len(ms[i]) > 4
             /\ Len(values[i]) \in Nat /\ Len(ms[i]) = Len(values[i]) + 4
             /\ w[i] \in Nat /\ w[i] >= 1
        /\ Len(t) \in Nat /\ Len(t) >= 2
<1>1. /\ Len(ms) \in Nat /\ Len(ms) > 0
      /\ \A i \in 1 .. Len(ms) : ms[i] \in Text /\ Len(ms[i]) \in Nat
  BY LenProperties, ElementOfSeq, Symbols DEF Members
<1>2. Len(t) \in Nat /\ Len(t) >= 2
  BY Symbols DEF Laid
<1>3. ASSUME NEW i \in 1 .. Len(ms)
      PROVE Len(values[i]) \in Nat /\ Len(ms[i]) = Len(values[i]) + 4
            /\ Len(ms[i]) > 4
  <2>1. values[i] \in Text /\ Len(values[i]) > 0 /\ names[i] \in Name
        /\ ms[i] = Member(names[i], values[i])
    BY DEF Members, Value
  <2>2. Len(ms[i]) = 4 + Len(values[i]) /\ Len(values[i]) \in Nat
    BY <2>1, MemberText, Symbols
  <2> QED BY <2>1, <2>2
<1>4. ASSUME NEW i \in 1 .. Len(ms) PROVE w[i] \in Nat /\ w[i] >= 1
  <2>1. w[i] \in Nat
    BY DEF Laid
  <2>2. CASE i = 1
    BY <2>1, <2>2 DEF Laid
  <2>3. CASE i # 1
    <3>1. /\ i - 1 \in 1 .. Len(ms) - 1 /\ (i - 1) + 1 = i
          /\ i - 1 \in 1 .. Len(ms)
      BY <1>1, <2>3
    <3>2. w[i] = w[i - 1] + Len(ms[i - 1]) + 1 /\ w[i - 1] \in Nat
      BY <3>1 DEF Laid
    <3> QED BY <1>1, <3>1, <3>2
  <2> QED BY <2>2, <2>3
<1> QED BY <1>1, <1>2, <1>3, <1>4

\* An object, scanned: it is closed where it ends, and among its members stand
\* only the colons and the ends of its own.
LEMMA ObjectPath ==
  ASSUME NEW b \in Reader,
         NEW ms, NEW names, NEW values, Members(ms, names, values),
         NEW t, NEW w, Laid(t, ms, w),
         NEW at1, Path(at1, t, Opens(b), Closes(b))
  PROVE /\ at1[1] = Outside
        /\ at1[Len(t) + 1] = Outside
        /\ \A i \in 1 .. Len(ms) :
             /\ at1[w[i] + 1] = Inner
             /\ at1[w[i] + 4] = Inner
             /\ at1[w[i] + Len(ms[i]) + 1] = Inner
             /\ \A c \in w[i] + 5 .. w[i] + Len(ms[i]) : Calm(at1[c], t[c])
        /\ \A c \in 2 .. Len(t) :
             \/ Calm(at1[c], t[c])
             \/ \E i \in 1 .. Len(ms) :
                  c = w[i] + 4 \/ c = w[i] + Len(ms[i]) + 1
<1> DEFINE n == Len(ms)
           Seam(c) == \E i \in 1 .. n :
                        c = w[i] + 4 \/ c = w[i] + Len(ms[i]) + 1
           Known(k) == \A c \in 2 .. k : Calm(at1[c], t[c]) \/ Seam(c)
           T == {i \in 0 .. n :
                   i = 0 \/ (at1[w[i] + 1] = Inner /\ Known(w[i]))}
<1>1. /\ n \in Nat /\ n > 0
      /\ \A i \in 1 .. n :
           /\ ms[i] \in Text /\ Len(ms[i]) \in Nat /\ Len(ms[i]) > 4
           /\ w[i] \in Nat /\ w[i] >= 1
      /\ Len(t) \in Nat /\ Len(t) >= 2
  BY Lengths
<1> HIDE DEF n
<1>2. /\ \A i \in 1 .. n : Occurs(ms[i], t, w[i])
      /\ \A i \in 1 .. n - 1 : /\ w[i + 1] = w[i] + Len(ms[i]) + 1
                               /\ t[w[i + 1]] = Comma
      /\ t[1] = LeftBrace /\ t[Len(t)] = RightBrace /\ t \in Text
      /\ w[1] = 1 /\ w[n] + Len(ms[n]) + 1 = Len(t)
  BY DEF Laid, n
<1>3. /\ at1[1] = Outside
      /\ \A i \in 1 .. Len(t) :
           at1[i + 1] = Past(at1[i], t[i], Opens(b), Closes(b))
  BY DEF Path
<1>4. ASSUME NEW i \in 1 .. n, at1[w[i] + 1] = Inner
      PROVE /\ at1[w[i] + 4] = Inner
            /\ at1[w[i] + Len(ms[i]) + 1] = Inner
            /\ \A j \in 1 .. Len(ms[i]) :
                 j = 4 \/ Calm(at1[w[i] + j], t[w[i] + j])
  <2>1. names[i] \in Name /\ Value(values[i])
        /\ ms[i] = Member(names[i], values[i])
    BY DEF Members, n
  <2>2. Occurs(Member(names[i], values[i]), t, w[i]) /\ t \in Text
    BY <1>2, <2>1
  <2>3. /\ at1[w[i] + 4] = Inner
        /\ at1[w[i] + Len(Member(names[i], values[i])) + 1] = Inner
        /\ \A j \in 1 .. Len(Member(names[i], values[i])) :
             j = 4 \/ Calm(at1[w[i] + j], t[w[i] + j])
    BY <1>4, <2>1, <2>2, MemberPath
  <2> QED BY <2>1, <2>3
<1>5. ASSUME NEW i \in 1 .. n, at1[w[i] + 1] = Inner, Known(w[i])
      PROVE Known(w[i] + Len(ms[i]) + 1)
  <2> SUFFICES ASSUME NEW c \in 2 .. w[i] + Len(ms[i]) + 1
               PROVE Calm(at1[c], t[c]) \/ Seam(c)
    OBVIOUS
  <2>1. w[i] \in Nat /\ Len(ms[i]) \in Nat
    BY <1>1
  <2>2. CASE c <= w[i]
    BY <1>5, <2>1, <2>2
  <2>3. CASE c = w[i] + Len(ms[i]) + 1
    BY <2>3
  <2>4. CASE c > w[i] /\ c # w[i] + Len(ms[i]) + 1
    <3>1. c - w[i] \in 1 .. Len(ms[i]) /\ w[i] + (c - w[i]) = c
      BY <2>1, <2>4
    <3>2. c - w[i] = 4 \/ Calm(at1[w[i] + (c - w[i])], t[w[i] + (c - w[i])])
      BY <1>4, <1>5, <3>1
    <3>3. c - w[i] = 4 => c = w[i] + 4
      BY <2>1
    <3> QED BY <3>1, <3>2, <3>3
  <2> QED BY <2>1, <2>2, <2>3, <2>4
<1> HIDE DEF Seam
<1>6. ASSUME NEW i \in 0 .. n - 1, i \in T PROVE i + 1 \in T
  <2>1. i + 1 \in 1 .. n /\ i + 1 \in 0 .. n
    BY <1>1
  <2>2. CASE i = 0
    <3>1. at1[1 + 1] = Past(at1[1], t[1], Opens(b), Closes(b)) /\ 1 + 1 = 2
      BY <1>1, <1>3
    <3>2. at1[1 + 1] = Inner
      BY <1>2, <1>3, <3>1, PastCases
    <3>3. Known(1)
      OBVIOUS
    <3>4. w[i + 1] = 1
      BY <1>2, <2>2
    <3> QED BY <2>1, <3>2, <3>3, <3>4
  <2>3. CASE i # 0
    <3>1. i \in 1 .. n /\ i \in 1 .. n - 1
      BY <1>1, <2>3
    <3>2. at1[w[i] + 1] = Inner /\ Known(w[i])
      BY <1>6, <2>3
    <3> HIDE DEF Known, T
    <3>3. at1[w[i] + Len(ms[i]) + 1] = Inner /\ Known(w[i] + Len(ms[i]) + 1)
      BY <1>4, <1>5, <3>1, <3>2
    <3>4. w[i + 1] = w[i] + Len(ms[i]) + 1 /\ t[w[i + 1]] = Comma
      BY <1>2, <3>1
    <3>5. w[i + 1] \in 1 .. Len(t)
      <4>1. w[i + 1] \in Nat /\ w[i + 1] >= 1 /\ Len(ms[i + 1]) \in Nat
        BY <1>1, <2>1
      <4>2. w[i + 1] + Len(ms[i + 1]) <= Len(t)
        BY <1>2, <2>1 DEF Occurs
      <4> QED BY <1>1, <4>1, <4>2
    <3>6. at1[w[i + 1] + 1] = Past(Inner, Comma, Opens(b), Closes(b))
      <4>1. at1[w[i + 1]] = Inner
        BY <3>3, <3>4, Zenon
      <4> QED BY <1>3, <3>4, <3>5, <4>1
    <3>7. at1[w[i + 1] + 1] = Inner
      BY <3>6, PastCases
    <3>8. Known(w[i + 1])
      BY <3>3, <3>4, Zenon
    <3> QED BY <2>1, <3>7, <3>8 DEF T
  <2> QED BY <2>2, <2>3
<1>7. 0 \in T /\ T \in SUBSET (0 .. n)
  BY <1>1
<1>8. T = 0 .. n
  <2> HIDE DEF T
  <2> QED BY <1>1, <1>6, <1>7, UpTo
<1>9. ASSUME NEW i \in 1 .. n PROVE at1[w[i] + 1] = Inner /\ Known(w[i])
  <2>1. i \in 0 .. n /\ i # 0
    BY <1>1
  <2>2. i \in T
    <3> HIDE DEF T
    <3> QED BY <1>8, <2>1
  <2> QED BY <2>1, <2>2
<1>10. n \in 1 .. n
  BY <1>1
<1>11. Known(Len(t)) /\ at1[Len(t)] = Inner
  <2> HIDE DEF Known, T
  <2>1. at1[w[n] + 1] = Inner /\ Known(w[n])
    BY <1>9, <1>10
  <2>2. at1[w[n] + Len(ms[n]) + 1] = Inner /\ Known(w[n] + Len(ms[n]) + 1)
    BY <1>4, <1>5, <1>10, <2>1
  <2> QED BY <1>2, <2>2, Zenon
<1>12. at1[Len(t) + 1] = Outside
  <2>1. Len(t) \in 1 .. Len(t)
    BY <1>1
  <2>2. at1[Len(t) + 1] = Past(at1[Len(t)], t[Len(t)], Opens(b), Closes(b))
    BY <1>3, <2>1
  <2> QED BY <1>2, <1>11, <2>2, PastCases
<1>13. ASSUME NEW i \in 1 .. n, NEW c \in w[i] + 5 .. w[i] + Len(ms[i])
       PROVE Calm(at1[c], t[c])
  <2>1. w[i] \in Nat /\ Len(ms[i]) \in Nat
    BY <1>1
  <2>2. c - w[i] \in 1 .. Len(ms[i]) /\ w[i] + (c - w[i]) = c /\ c - w[i] # 4
    BY <2>1
  <2>3. Calm(at1[w[i] + (c - w[i])], t[w[i] + (c - w[i])])
    BY <1>4, <1>9, <2>2
  <2> QED BY <2>2, <2>3
<1>14. \A i \in 1 .. n : /\ at1[w[i] + 4] = Inner
                         /\ at1[w[i] + Len(ms[i]) + 1] = Inner
  BY <1>4, <1>9
<1>15. \A c \in 2 .. Len(t) : Calm(at1[c], t[c]) \/ Seam(c)
  BY <1>11
<1> QED BY <1>3, <1>9, <1>12, <1>13, <1>14, <1>15 DEF n, Seam

(***************************************************************************)
(* Values                                                                  *)
(***************************************************************************)

LEMMA ObjectValue ==
  ASSUME NEW ms, NEW names, NEW values, Members(ms, names, values),
         NEW t, NEW w, Laid(t, ms, w)
  PROVE Value(t)
<1>0. t \in Text /\ Len(t) > 0
  BY Lengths DEF Laid
<1> SUFFICES ASSUME NEW b \in Reader PROVE Balanced(t, b)
  BY <1>0 DEF Value
<1> DEFINE a == Scan(t, Opens(b), Closes(b))
<1>1. t \in Text /\ Len(t) > 0 /\ Len(t) \in Nat /\ t[1] = LeftBrace
  BY Lengths DEF Laid
<1>2. Path(a, t, Opens(b), Closes(b))
  BY <1>1, ScanPath
<1> HIDE DEF a
<1>3. /\ a[1] = Outside /\ a[Len(t) + 1] = Outside
      /\ \A i \in 1 .. Len(ms) : /\ a[w[i] + 4] = Inner
                                 /\ a[w[i] + Len(ms[i]) + 1] = Inner
      /\ \A c \in 2 .. Len(t) :
           \/ Calm(a[c], t[c])
           \/ \E i \in 1 .. Len(ms) :
                c = w[i] + 4 \/ c = w[i] + Len(ms[i]) + 1
  BY <1>2, ObjectPath
<1>4. Outside.depth = 0 /\ Inner.depth = 1
  BY Levels, Zenon
<1>5. ASSUME NEW c \in 1 .. Len(t) PROVE Quiet(a[c], t[c])
  <2>1. CASE c = 1
    <3>1. LeftBrace \notin {Comma, Colon, RightBrace}
      BY DEF LeftBrace, Comma, Colon, RightBrace
    <3>2. Outside.depth >= 0
      BY <1>4
    <3> QED BY <1>1, <1>3, <2>1, <3>1, <3>2, Zenon DEF Quiet
  <2>2. CASE c # 1
    <3>1. c \in 2 .. Len(t)
      BY <1>1, <2>2
    <3>2. a[c].depth >= 1
      <4>1. CASE Calm(a[c], t[c])
        BY <4>1 DEF Calm
      <4>2. CASE a[c] = Inner
        BY <1>4, <4>2
      <4> QED BY <1>3, <3>1, <4>1, <4>2
    <3>3. a[c].depth \in Int
      <4>1. a \in Seq(Place) /\ Len(a) = Len(t) + 1
        BY <1>2 DEF Path
      <4>2. a[c] \in Place
        BY <1>1, <4>1, ElementOfSeq
      <4> QED BY <4>2 DEF Place
    <3>4. a[c] # Outside /\ a[c].depth >= 0
      BY <1>4, <3>2, <3>3
    <3> QED BY <3>4 DEF Quiet
  <2> QED BY <2>1, <2>2
<1> QED BY <1>2, <1>3, <1>5 DEF Balanced

LEMMA QuotedValue ==
  ASSUME NEW e, NEW s, NEW known, Codes(e, s, known)
  PROVE Value(Quoted(e))
<1> DEFINE v == Quoted(e)
<1>1. /\ v \in Text /\ Len(v) > 0 /\ Len(v) \in Nat /\ v[1] = Quote
      /\ Occurs(v, v, 0)
  <2>1. e \in Text
    BY DEF Codes
  <2>2. v \in Text /\ Len(e) \in Nat /\ Len(v) = Len(e) + 2 /\ v[1] = Quote
    BY <2>1, QuotedText
  <2> HIDE DEF v
  <2>3. Occurs(v, v, 0)
    BY <2>2 DEF Occurs
  <2> QED BY <2>2, <2>3
<1> SUFFICES ASSUME NEW b \in Reader PROVE Balanced(v, b)
  BY <1>1 DEF Value
<1> DEFINE a == Scan(v, Opens(b), Closes(b))
<1>2. Path(a, v, Opens(b), Closes(b))
  BY <1>1, ScanPath
<1>3. a[1] = Outside /\ a \in Seq(Place) /\ Len(a) = Len(v) + 1
  BY <1>2 DEF Path
<1> HIDE DEF a
<1>4. /\ \A i \in 2 .. Len(v) : a[i].depth = 0 /\ a[i].mode # "bare"
      /\ a[Len(v) + 1] = Outside
  <2> DEFINE k == 0
  <2>1. k \in Int /\ Quote \notin Opens(b) /\ Quote \notin Closes(b)
    BY Brackets
  <2>2. a[k + 1] = Level(k)
    BY <1>3 DEF Level, Outside
  <2>3. Quoted(e) \in Text /\ Occurs(Quoted(e), Quoted(e), k)
        /\ Path(a, Quoted(e), Opens(b), Closes(b))
    BY <1>1, <1>2
  <2> HIDE DEF k
  <2>4. /\ \A i \in 2 .. Len(Quoted(e)) : /\ a[k + i].depth = k
                                           /\ a[k + i].mode # "bare"
        /\ a[k + Len(Quoted(e)) + 1] = Level(k)
    BY <2>1, <2>2, <2>3, QuotedPath
  <2>5. Level(k) = Outside
    BY DEF Level, Outside, k
  <2>6. 0 + Len(v) + 1 = Len(v) + 1 /\ \A i \in 2 .. Len(v) : 0 + i = i
    BY <1>1
  <2> HIDE DEF v
  <2>7. a[Len(v) + 1] = Outside
    BY <2>4, <2>5, <2>6 DEF k, v
  <2>8. ASSUME NEW i \in 2 .. Len(v) PROVE a[i].depth = 0 /\ a[i].mode # "bare"
    <3>1. a[k + i].depth = k /\ a[k + i].mode # "bare"
      BY <2>4 DEF v
    <3> QED BY <2>6, <3>1 DEF k
  <2> QED BY <2>7, <2>8
<1>5. ASSUME NEW c \in 1 .. Len(v) PROVE Quiet(a[c], v[c])
  <2>1. CASE c = 1
    <3>1. Outside.depth >= 0
      <4>1. Outside.depth = 0
        BY Levels, Zenon
      <4> QED BY <4>1
    <3> QED BY <1>1, <1>3, <2>1, <3>1, Levels, Zenon DEF Quiet
  <2>2. CASE c # 1
    <3>1. c \in 2 .. Len(v)
      BY <1>1, <2>2
    <3>2. a[c].depth >= 0
      BY <1>4, <3>1
    <3>3. a[c] # Outside
      <4>1. Outside.mode = "bare"
        BY DEF Outside
      <4> QED BY <1>4, <3>1, <4>1
    <3> QED BY <3>2, <3>3 DEF Quiet
  <2> QED BY <2>1, <2>2
<1> QED BY <1>2, <1>4, <1>5 DEF Balanced

\* A number, or true.
Mark == {"{", "[", "}", "]", ",", ":"}

LEMMA WordValue ==
  ASSUME NEW c \in Name, c \notin Mark
  PROVE Value(<<c>>)
<1> DEFINE v == <<c>>
<1>1. v \in Text /\ Len(v) = 1 /\ v[1] = c
  BY Few DEF Text, Name
<1> HIDE DEF v
<1> SUFFICES ASSUME NEW b \in Reader PROVE Balanced(v, b)
  BY <1>1 DEF Value, v
<1> DEFINE a == Scan(v, Opens(b), Closes(b))
<1>2. Path(a, v, Opens(b), Closes(b))
  BY <1>1, ScanPath
<1> HIDE DEF a
<1>3. a[1] = Outside /\ a[1 + 1] = Past(Outside, c, Opens(b), Closes(b))
  <2>1. 1 \in 1 .. Len(v)
    BY <1>1
  <2> QED BY <1>1, <1>2, <2>1 DEF Path
<1>4. Past(Outside, c, Opens(b), Closes(b)) = Outside
  <2>1. c \notin Opens(b) /\ c \notin Closes(b)
    BY DEF Opens, Closes, Mark
  <2> QED BY <2>1 DEF Past, Outside, Name
<1>5. Quiet(Outside, c)
  <2>1. Outside.depth = 0
    BY Levels, Zenon
  <2>2. Outside.depth >= 0
    BY <2>1
  <2>3. c \notin {Comma, Colon, RightBrace}
    BY DEF Mark, Comma, Colon, RightBrace
  <2> QED BY <2>2, <2>3, Zenon DEF Quiet
<1>6. \A i \in 1 .. Len(v) : Quiet(a[i], v[i])
  <2>1. \A i \in 1 .. Len(v) : i = 1
    BY <1>1
  <2> QED BY <1>1, <1>3, <1>5, <2>1
<1> QED BY <1>1, <1>2, <1>3, <1>4, <1>6 DEF Balanced

(***************************************************************************)
(* Reading a member of an object                                           *)
(***************************************************************************)

Open == {"{", "["}
Close == {"}", "]"}

LEMMA GatewayBrackets ==
  /\ "gateway" \in Reader
  /\ Opens("gateway") = Open
  /\ Closes("gateway") = Close
BY DEF Reader, Opens, Closes, Open, Close

LEMMA MinIs ==
  ASSUME NEW S \in SUBSET Nat, NEW x \in S, \A y \in S : x <= y
  PROVE Min(S) = x
<1> DEFINE Low(m) == \A y \in S : m <= y
<1>1. Low(x)
  OBVIOUS
<1>2. \A m \in S : Low(m) => m <= x /\ x <= m
  OBVIOUS
<1>3. \A m \in S : Low(m) => m = x
  BY <1>2
<1> DEFINE m == CHOOSE z \in S : Low(z)
<1>4. Min(S) = m
  BY DEF Min
<1> HIDE DEF Low
<1>5. m \in S /\ Low(m)
  BY <1>1
<1> QED BY <1>3, <1>4, <1>5, Zenon

LEMMA CutAt ==
  ASSUME NEW t \in Text, NEW k \in Nat, NEW m \in Nat, k + m <= Len(t)
  PROVE /\ SubSeq(t, k + 1, k + m) \in Text
        /\ Occurs(SubSeq(t, k + 1, k + m), t, k)
<1> DEFINE u == SubSeq(t, k + 1, k + m)
<1>1. Len(t) \in Nat /\ \A i \in 1 .. Len(t) : t[i] \in Symbol
  BY Symbols
<1>2. \A i \in k + 1 .. k + m : t[i] \in Symbol
  BY <1>1
<1>3. /\ u \in Text
      /\ Len(u) = m
      /\ \A i \in 1 .. m : u[i] = t[(k + 1) + i - 1]
  <2>1. k + 1 \in Int /\ k + m \in Int
    OBVIOUS
  <2>2. /\ u \in Seq(Symbol)
        /\ Len(u) = IF k + 1 <= k + m THEN (k + m) - (k + 1) + 1 ELSE 0
        /\ \A i \in 1 .. (k + m) - (k + 1) + 1 :
             u[i] = t[(k + 1) + i - 1]
    BY <1>2, <2>1, SubSeqProperties
  <2> QED BY <2>2 DEF Text
<1> HIDE DEF u
<1>4. \A i \in 1 .. m : t[k + i] = u[i]
  <2> SUFFICES ASSUME NEW i \in 1 .. m PROVE t[k + i] = u[i]
    OBVIOUS
  <2>1. (k + 1) + i - 1 = k + i
    OBVIOUS
  <2> QED BY <1>3, <2>1
<1> QED BY <1>3, <1>4 DEF Occurs, u

\* What ValueOf() looks for: a name of the object's own with its colon, and
\* the next end of a member behind it.
Key(name) == Quoted(<<name>>) \o <<Colon>>
Starts(t, at1, name) ==
  {i \in 5 .. Len(t) : /\ at1[i - 4] = Inner
                       /\ SubSeq(t, i - 4, i - 1) = Key(name)}
Ends(t, at1, from) ==
  {j \in DOMAIN t : /\ t[j] \in {Comma, RightBrace} /\ at1[j] = Inner
                    /\ j >= from}

LEMMA ValueOfIs ==
  ASSUME NEW t \in Text, NEW name
  PROVE LET at1 == Scan(t, Open, Close)
            S == Starts(t, at1, name)
            E == Ends(t, at1, Min(S))
        IN  ValueOf(t, name) = IF S = {} \/ E = {} THEN NoText
                               ELSE SubSeq(t, Min(S), Min(E) - 1)
<1> DEFINE at1 == Scan(t, Open, Close)
           S == Starts(t, at1, name)
           F == {j \in DOMAIN t : t[j] \in {Comma, RightBrace}
                                   /\ at1[j] = Inner}
           E == {j \in F : j >= Min(S)}
<1>1. t # NoText
  BY NoTextAssumption DEF Text
<1>2. ValueOf(t, name) = IF t = NoText \/ S = {} \/ E = {} THEN NoText
                         ELSE SubSeq(t, Min(S), Min(E) - 1)
  BY DEF ValueOf, Starts, Key, Open, Close, Inner, Comma, Colon, RightBrace
<1>3. E = Ends(t, at1, Min(S))
  BY DEF Ends
<1> QED BY <1>1, <1>2, <1>3

\* In an object, a name with its colon stands where a member begins.
LEMMA StartsAre ==
  ASSUME NEW ms, NEW names, NEW values, Members(ms, names, values),
         NEW t, NEW w, Laid(t, ms, w),
         NEW at1, Path(at1, t, Open, Close), NEW name \in Name
  PROVE \A x : x \in Starts(t, at1, name)
               <=> \E i \in 1 .. Len(ms) : names[i] = name /\ x = w[i] + 5
<1> DEFINE key == Key(name)
<1>1. t \in Text /\ Len(t) \in Nat
  BY Lengths DEF Laid
<1>2. /\ key \in Text /\ Len(key) = 4 /\ key[1] = Quote /\ key[2] = name
      /\ key[3] = Quote /\ key[4] = Colon
  <2>1. <<>> \in Text /\ Len(<<>>) = 0
    BY Few, Controls DEF Text
  <2>2. Member(name, <<>>) = key \o <<>>
    BY DEF Member, Key, Colon
  <2>3. key \in Text
    <3>1. <<name>> \in Text /\ <<Colon>> \in Text
      <4>1. name \in Symbol /\ Colon \in Symbol
        BY DEF Name, Symbol, Punctuation, Colon
      <4> QED BY <4>1, Few DEF Text
    <3>2. Quoted(<<name>>) \in Text
      BY <3>1, QuotedText
    <3> QED BY <3>1, <3>2, Joined DEF Key
  <2> HIDE DEF key
  <2>4. Member(name, <<>>) = key
    BY <2>2, <2>3, ConcatEmptySeq DEF Text
  <2> DEFINE empty == <<>>
             m == Member(name, empty)
  <2>5. empty \in Text /\ Len(empty) = 0 /\ m = key
    BY <2>1, <2>4
  <2> HIDE DEF empty, m
  <2>6. /\ Len(m) = 4 + Len(empty)
        /\ m[1] = Quote /\ m[2] = name /\ m[3] = Quote /\ m[4] = Colon
    BY <2>5, MemberText DEF m
  <2> QED BY <2>3, <2>5, <2>6
<1> HIDE DEF key
<1>3. /\ at1[Len(t) + 1] = Outside
      /\ \A i \in 1 .. Len(ms) : /\ at1[w[i] + 1] = Inner
                                 /\ at1[w[i] + 4] = Inner
      /\ \A c \in 2 .. Len(t) :
           \/ Calm(at1[c], t[c])
           \/ \E i \in 1 .. Len(ms) :
                c = w[i] + 4 \/ c = w[i] + Len(ms[i]) + 1
      /\ at1[1] = Outside
  BY GatewayBrackets, ObjectPath
<1>4. /\ Len(ms) \in Nat
      /\ \A i \in 1 .. Len(ms) : /\ ms[i] \in Text /\ Len(ms[i]) \in Nat
                                 /\ Len(ms[i]) > 4
                                 /\ w[i] \in Nat /\ w[i] >= 1
                                 /\ Len(ms[i]) = Len(values[i]) + 4
                                 /\ Occurs(ms[i], t, w[i])
  <2>1. \A i \in 1 .. Len(ms) : Occurs(ms[i], t, w[i])
    BY DEF Laid
  <2> QED BY <2>1, Lengths
<1>5. ASSUME NEW i \in 1 .. Len(ms)
      PROVE /\ t[w[i] + 1] = Quote /\ t[w[i] + 2] = names[i]
            /\ t[w[i] + 3] = Quote /\ t[w[i] + 4] = Colon
            /\ w[i] + Len(ms[i]) <= Len(t)
  <2>1. names[i] \in Name /\ values[i] \in Text
        /\ ms[i] = Member(names[i], values[i])
    BY DEF Members, Value
  <2>2. ms[i][1] = Quote /\ ms[i][2] = names[i] /\ ms[i][3] = Quote
        /\ ms[i][4] = Colon
    BY <2>1, MemberText
  <2>3. 1 \in 1 .. Len(ms[i]) /\ 2 \in 1 .. Len(ms[i]) /\ 3 \in 1 .. Len(ms[i])
        /\ 4 \in 1 .. Len(ms[i])
    BY <1>4
  <2> QED BY <1>4, <2>2, <2>3 DEF Occurs
<1>6. ASSUME NEW i \in 1 .. Len(ms)
      PROVE t[w[i] + Len(ms[i]) + 1] \in {Comma, RightBrace}
  <2>1. CASE i = Len(ms)
    BY <2>1 DEF Laid
  <2>2. CASE i # Len(ms)
    <3>1. i \in 1 .. Len(ms) - 1
      BY <1>4, <2>2
    <3>2. w[i + 1] = w[i] + Len(ms[i]) + 1 /\ t[w[i + 1]] = Comma
      BY <3>1 DEF Laid
    <3> QED BY <3>2
  <2> QED BY <2>1, <2>2
\* What the key stands behind.
<1>7. ASSUME NEW c \in 5 .. Len(t)
      PROVE LET u == SubSeq(t, c - 4, c - 1)
            IN  /\ u \in Text
                /\ Len(u) = 4
                /\ u[1] = t[c - 4] /\ u[2] = t[c - 3]
                /\ u[3] = t[c - 2] /\ u[4] = t[c - 1]
  <2> DEFINE k == c - 5
             u == SubSeq(t, k + 1, k + 4)
  <2>1. k \in Nat /\ k + 4 <= Len(t) /\ k + 1 = c - 4 /\ k + 2 = c - 3
        /\ k + 3 = c - 2 /\ k + 4 = c - 1
    BY <1>1
  <2> HIDE DEF k
  <2>2. u \in Text /\ Occurs(u, t, k)
    BY <1>1, <2>1, CutAt
  <2>3. Len(u) = 4
    <3>1. k + 1 \in Int /\ k + 4 \in Int
      BY <2>1
    <3>2. \A i \in k + 1 .. k + 4 : t[i] \in Symbol
      BY <1>1, <2>1, Symbols
    <3>3. Len(u) = IF k + 1 <= k + 4 THEN (k + 4) - (k + 1) + 1 ELSE 0
      BY <3>1, <3>2, SubSeqProperties
    <3> QED BY <2>1, <3>3
  <2> HIDE DEF u
  <2>4. u[1] = t[k + 1] /\ u[2] = t[k + 2] /\ u[3] = t[k + 3] /\ u[4] = t[k + 4]
    <3>1. 1 \in 1 .. Len(u) /\ 2 \in 1 .. Len(u) /\ 3 \in 1 .. Len(u)
          /\ 4 \in 1 .. Len(u)
      BY <2>3
    <3> QED BY <2>2, <3>1 DEF Occurs
  <2> QED BY <2>1, <2>2, <2>3, <2>4 DEF u
<1>8. ASSUME NEW c \in Starts(t, at1, name)
      PROVE \E i \in 1 .. Len(ms) : names[i] = name /\ c = w[i] + 5
  <2>1. c \in 5 .. Len(t) /\ at1[c - 4] = Inner
        /\ SubSeq(t, c - 4, c - 1) = key
    BY DEF Starts, key
  <2>2. t[c - 4] = Quote /\ t[c - 3] = name /\ t[c - 2] = Quote
        /\ t[c - 1] = Colon
    BY <1>2, <1>7, <2>1
  <2>3. at1[c - 1] = Inner
    <3>1. /\ c - 4 \in 1 .. Len(t) /\ c - 3 \in 1 .. Len(t)
          /\ c - 2 \in 1 .. Len(t)
          /\ (c - 4) + 1 = c - 3 /\ (c - 3) + 1 = c - 2 /\ (c - 2) + 1 = c - 1
      BY <1>1, <2>1
    <3>2. /\ at1[c - 3] = Past(at1[c - 4], Quote, Open, Close)
          /\ at1[c - 2] = Past(at1[c - 3], name, Open, Close)
          /\ at1[c - 1] = Past(at1[c - 2], Quote, Open, Close)
      BY <2>2, <3>1 DEF Path
    <3>3. at1[c - 3] = [depth |-> 1, mode |-> "quoted"]
      BY <2>1, <3>2, GatewayBrackets, PastCases
    <3>4. at1[c - 2] = [depth |-> 1, mode |-> "quoted"]
      BY <3>2, <3>3, GatewayBrackets, PastCases DEF Name
    <3> QED BY <3>2, <3>4, GatewayBrackets, PastCases
  <2>4. ~Calm(at1[c - 1], t[c - 1])
    BY <2>2, <2>3, Zenon DEF Calm
  <2>5. c - 1 \in 2 .. Len(t)
    BY <1>1, <2>1
  <2>6. PICK i \in 1 .. Len(ms) :
          c - 1 = w[i] + 4 \/ c - 1 = w[i] + Len(ms[i]) + 1
    BY <1>3, <2>4, <2>5
  <2>7. c - 1 # w[i] + Len(ms[i]) + 1
    <3>1. Colon \notin {Comma, RightBrace}
      BY DEF Colon, Comma, RightBrace
    <3> QED BY <1>6, <2>2, <3>1
  <2>8. c = w[i] + 5 /\ c - 3 = w[i] + 2
    BY <1>4, <2>1, <2>6, <2>7
  <2> QED BY <1>5, <2>2, <2>8
<1>9. ASSUME NEW i \in 1 .. Len(ms), names[i] = name
      PROVE w[i] + 5 \in Starts(t, at1, name)
  <2> DEFINE c == w[i] + 5
  <2>1. /\ c \in 5 .. Len(t) /\ c - 4 = w[i] + 1 /\ c - 3 = w[i] + 2
        /\ c - 2 = w[i] + 3 /\ c - 1 = w[i] + 4
    <3>1. w[i] \in Nat /\ Len(ms[i]) \in Nat /\ Len(ms[i]) > 4
      BY <1>4
    <3>2. w[i] + Len(ms[i]) <= Len(t)
      BY <1>5
    <3> QED BY <1>1, <3>1, <3>2, SMTT(30)
  <2> HIDE DEF c
  <2> DEFINE u == SubSeq(t, c - 4, c - 1)
  <2>2. /\ u \in Text /\ Len(u) = 4 /\ u[1] = t[c - 4] /\ u[2] = t[c - 3]
        /\ u[3] = t[c - 2] /\ u[4] = t[c - 1]
    BY <1>7, <2>1
  <2> HIDE DEF u
  <2>3. u[1] = Quote /\ u[2] = name /\ u[3] = Quote /\ u[4] = Colon
    BY <1>5, <1>9, <2>1, <2>2
  <2>4. \A j \in 1 .. 4 : u[j] = key[j]
    <3>1. \A j \in 1 .. 4 : j = 1 \/ j = 2 \/ j = 3 \/ j = 4
      OBVIOUS
    <3> QED BY <1>2, <2>3, <3>1
  <2>5. u = key
    BY <1>2, <2>2, <2>4, SeqEqual DEF Text
  <2>6. at1[c - 4] = Inner
    BY <1>3, <2>1
  <2> QED BY <2>1, <2>5, <2>6 DEF Starts, u, key, c
<1> QED BY <1>8, <1>9

LEMMA MemberFound ==
  ASSUME NEW ms, NEW names, NEW values, Members(ms, names, values),
         NEW t, NEW w, Laid(t, ms, w), NEW j \in 1 .. Len(ms),
         \A i \in 1 .. Len(ms) : names[i] = names[j] => i = j
  PROVE ValueOf(t, names[j]) = values[j]
<1> DEFINE at1 == Scan(t, Open, Close)
           name == names[j]
           v == values[j]
           k == w[j] + 4
           end == w[j] + Len(ms[j]) + 1
<1>1. /\ t \in Text /\ Len(t) \in Nat /\ v \in Text /\ name \in Name
      /\ w[j] \in Nat /\ Len(ms[j]) \in Nat /\ Len(v) \in Nat
      /\ Len(ms[j]) = Len(v) + 4 /\ Len(v) > 0
      /\ ms[j] \in Text /\ Occurs(ms[j], t, w[j])
      /\ ms[j] = Member(name, v)
  <2>1. t \in Text /\ Occurs(ms[j], t, w[j])
    BY DEF Laid
  <2>2. v \in Text /\ Len(v) > 0 /\ name \in Name /\ ms[j] = Member(name, v)
    BY DEF Members, Value
  <2> QED BY <2>1, <2>2, Lengths
<1>2. Path(at1, t, Open, Close)
  BY <1>1, ScanPath
<1> DEFINE S == Starts(t, at1, name)
           E == Ends(t, at1, Min(S))
<1>3. ValueOf(t, name) = IF S = {} \/ E = {} THEN NoText
                         ELSE SubSeq(t, Min(S), Min(E) - 1)
  BY <1>1, ValueOfIs
<1> HIDE DEF at1, name, v
<1>4. S = {w[j] + 5}
  <2> HIDE DEF S
  <2>1. \A x : x \in S
                <=> \E i \in 1 .. Len(ms) : names[i] = name /\ x = w[i] + 5
    BY <1>1, <1>2, StartsAre DEF S
  <2>2. \A i \in 1 .. Len(ms) : names[i] = name <=> i = j
    BY DEF name
  <2> DEFINE five == w[j] + 5
  <2>3. \A x : x \in S <=> x = five
    BY <2>1, <2>2
  <2> HIDE DEF five
  <2>4. S = {five}
    BY <2>3
  <2> QED BY <2>4 DEF five
<1>5. Min(S) = k + 1
  <2>1. w[j] + 5 = k + 1 /\ w[j] + 5 \in Nat
    BY <1>1
  <2>2. S = {k + 1} /\ k + 1 \in Nat
    BY <1>4, <2>1
  <2> HIDE DEF S, k
  <2>3. S \in SUBSET Nat /\ k + 1 \in S /\ \A y \in S : k + 1 <= y
    BY <2>2
  <2> QED BY <2>3, MinIs
<1>6. /\ at1[end] = Inner
      /\ \A c \in w[j] + 5 .. w[j] + Len(ms[j]) : Calm(at1[c], t[c])
  BY <1>2, GatewayBrackets, ObjectPath
<1>7. t[end] \in {Comma, RightBrace} /\ end \in 1 .. Len(t)
  <2>1. Len(ms) \in Nat
    BY Lengths
  <2>2. CASE j = Len(ms)
    <3>1. end = Len(t) /\ t[Len(t)] = RightBrace /\ Len(t) >= 2
      BY <2>2 DEF Laid
    <3> QED BY <1>1, <3>1
  <2>3. CASE j # Len(ms)
    <3>1. j \in 1 .. Len(ms) - 1 /\ j + 1 \in 1 .. Len(ms)
      BY <2>1, <2>3
    <3>2. end = w[j + 1] /\ t[w[j + 1]] = Comma
          /\ Occurs(ms[j + 1], t, w[j + 1])
      BY <3>1 DEF Laid
    <3>3. Len(ms[j + 1]) \in Nat /\ w[j + 1] \in Nat /\ w[j + 1] >= 1
      BY <3>1, Lengths
    <3>4. w[j + 1] + Len(ms[j + 1]) <= Len(t)
      BY <3>2 DEF Occurs
    <3>5. w[j + 1] \in 1 .. Len(t)
      BY <1>1, <3>3, <3>4
    <3> HIDE DEF end
    <3> QED BY <3>2, <3>5
  <2> QED BY <2>2, <2>3
<1>8. end = k + Len(v) + 1 /\ end \in Nat /\ k \in Nat
  <2>1. \A x, y \in Nat : x + (y + 4) + 1 = (x + 4) + y + 1
    OBVIOUS
  <2>2. w[j] + (Len(v) + 4) + 1 = (w[j] + 4) + Len(v) + 1
    BY <1>1, <2>1
  <2>3. end = w[j] + (Len(v) + 4) + 1
    BY <1>1, Zenon
  <2>4. end \in Nat /\ k \in Nat
    BY <1>1
  <2> QED BY <2>2, <2>3, <2>4
<1>9. E \in SUBSET Nat /\ end \in E /\ \A y \in E : end <= y
  <2>1. DOMAIN t = 1 .. Len(t)
    BY <1>1, Symbols
  <2>2. E = {c \in 1 .. Len(t) : /\ t[c] \in {Comma, RightBrace}
                                 /\ at1[c] = Inner /\ c >= k + 1}
    BY <1>5, <2>1 DEF Ends
  <2> HIDE DEF E, S
  <2>3. end >= k + 1
    BY <1>1, <1>8
  <2>4. ASSUME NEW c \in E PROVE end <= c
    <3>1. c \in 1 .. Len(t) /\ c >= k + 1 /\ at1[c] = Inner
          /\ t[c] \in {Comma, RightBrace}
      BY <2>2
    <3>2. ~Calm(at1[c], t[c])
      <4>1. t[c] \in {Comma, Colon, RightBrace}
        BY <3>1
      <4> QED BY <3>1, <4>1, Zenon DEF Calm
    <3>3. c \notin w[j] + 5 .. w[j] + Len(ms[j])
      BY <1>6, <3>2
    <3>4. c \in Nat /\ c >= w[j] + 5
      <4>1. k + 1 = w[j] + 5
        BY <1>1
      <4> QED BY <1>1, <3>1, <4>1
    <3> QED BY <1>1, <3>3, <3>4
  <2>5. end \in E
    BY <1>6, <1>7, <2>2, <2>3
  <2>6. E \in SUBSET Nat
    BY <2>2
  <2> QED BY <2>4, <2>5, <2>6
<1>10. Min(E) = end
  <2> HIDE DEF E, end
  <2> QED BY <1>9, MinIs
<1>11. ValueOf(t, name) = SubSeq(t, k + 1, k + Len(v))
  <2>1. S # {} /\ E # {}
    BY <1>4, <1>9
  <2>2. end - 1 = k + Len(v)
    BY <1>8
  <2> HIDE DEF S, E, end, k
  <2> QED BY <1>3, <1>5, <1>10, <2>1, <2>2
<1>12. Occurs(v, t, k)
  <2>1. Occurs(v, ms[j], 4)
    BY <1>1, MemberText
  <2> QED BY <1>1, <2>1, OccursWithin
<1>13. SubSeq(t, k + 1, k + Len(v)) = v
  <2> HIDE DEF k
  <2> QED BY <1>1, <1>12, CutOut
<1> QED BY <1>11, <1>13 DEF name, v

LEMMA MemberAbsent ==
  ASSUME NEW ms, NEW names, NEW values, Members(ms, names, values),
         NEW t, NEW w, Laid(t, ms, w), NEW name \in Name,
         \A i \in 1 .. Len(ms) : names[i] # name
  PROVE ValueOf(t, name) = NoText
<1> DEFINE at1 == Scan(t, Open, Close)
           S == Starts(t, at1, name)
<1>1. t \in Text
  BY DEF Laid
<1>2. Path(at1, t, Open, Close)
  BY <1>1, ScanPath
<1>3. S = {}
  BY <1>2, StartsAre
<1> QED BY <1>1, <1>3, ValueOfIs

\* Whatever an object's members are called and hold, and however deep their
\* values are, a reader finds each of them under its name, and none under a
\* name that is not among them: nothing in a value passes for a member.
THEOREM MembersAreRead ==
  ASSUME NEW ms, NEW names, NEW values, Members(ms, names, values)
  PROVE /\ Value(Object(ms))
        /\ \A j \in 1 .. Len(ms) :
             (\A i \in 1 .. Len(ms) : names[i] = names[j] => i = j)
               => ValueOf(Object(ms), names[j]) = values[j]
        /\ \A name \in Name : (\A i \in 1 .. Len(ms) : names[i] # name)
             => ValueOf(Object(ms), name) = NoText
<1>1. PICK w : Laid(Object(ms), ms, w)
  BY ObjectParts DEF Members
<1> DEFINE t == Object(ms)
<1>2. Laid(t, ms, w)
  BY <1>1
<1> HIDE DEF t
<1>3. Value(t)
  BY <1>2, ObjectValue
<1>4. ASSUME NEW j \in 1 .. Len(ms),
             \A i \in 1 .. Len(ms) : names[i] = names[j] => i = j
      PROVE ValueOf(t, names[j]) = values[j]
  BY <1>2, <1>4, MemberFound
<1>5. ASSUME NEW name \in Name, \A i \in 1 .. Len(ms) : names[i] # name
      PROVE ValueOf(t, name) = NoText
  BY <1>2, <1>5, MemberAbsent
<1> QED BY <1>3, <1>4, <1>5 DEF t

LEMMA OneMember ==
  ASSUME NEW n1 \in Name, NEW v1, Value(v1)
  PROVE LET o == Object(<<Member(n1, v1)>>)
        IN  /\ Value(o)
            /\ ValueOf(o, n1) = v1
            /\ \A name \in Name \ {n1} : ValueOf(o, name) = NoText
<1> DEFINE m1 == Member(n1, v1)
<1>1. m1 \in Text
  BY MemberText DEF Value
<1> DEFINE ms == <<m1>>
           names == <<n1>>
           values == <<v1>>
<1>2. /\ ms \in Seq(Text) /\ Len(ms) = 1 /\ ms[1] = m1
      /\ names[1] = n1 /\ values[1] = v1
  <2> HIDE DEF m1
  <2> QED BY <1>1
<1>3. m1 = Member(n1, v1)
  OBVIOUS
<1>4. Object(ms) = Object(<<Member(n1, v1)>>)
  OBVIOUS
<1> HIDE DEF ms, names, values, m1
<1>5. \A i \in 1 .. Len(ms) : i = 1
  BY <1>2
<1>6. Members(ms, names, values)
  BY <1>2, <1>3, <1>5 DEF Members
<1>7. 1 \in 1 .. Len(ms)
  BY <1>2
<1>8. /\ Value(Object(ms))
      /\ ValueOf(Object(ms), names[1]) = values[1]
      /\ \A name \in Name : (\A i \in 1 .. Len(ms) : names[i] # name)
           => ValueOf(Object(ms), name) = NoText
  BY <1>5, <1>6, <1>7, MembersAreRead
<1> QED BY <1>2, <1>4, <1>5, <1>8

LEMMA TwoMembers ==
  ASSUME NEW n1 \in Name, NEW n2 \in Name, n1 # n2,
         NEW v1, NEW v2, Value(v1), Value(v2)
  PROVE LET o == Object(<<Member(n1, v1), Member(n2, v2)>>)
        IN  /\ Value(o)
            /\ ValueOf(o, n1) = v1 /\ ValueOf(o, n2) = v2
            /\ \A name \in Name \ {n1, n2} : ValueOf(o, name) = NoText
<1> DEFINE m1 == Member(n1, v1)
           m2 == Member(n2, v2)
<1>1. m1 \in Text /\ m2 \in Text
  BY MemberText DEF Value
<1> DEFINE ms == <<m1, m2>>
           names == <<n1, n2>>
           values == <<v1, v2>>
<1>2. /\ ms \in Seq(Text) /\ Len(ms) = 2 /\ ms[1] = m1 /\ ms[2] = m2
      /\ names[1] = n1 /\ values[1] = v1 /\ names[2] = n2 /\ values[2] = v2
  <2> HIDE DEF m1, m2
  <2> QED BY <1>1
<1>3. m1 = Member(n1, v1) /\ m2 = Member(n2, v2)
  OBVIOUS
<1>4. Object(ms) = Object(<<Member(n1, v1), Member(n2, v2)>>)
  OBVIOUS
<1> HIDE DEF ms, names, values, m1, m2
<1>5. \A i \in 1 .. Len(ms) : i = 1 \/ i = 2
  BY <1>2
<1>6. Members(ms, names, values)
  BY <1>2, <1>3, <1>5 DEF Members
<1>7. 1 \in 1 .. Len(ms) /\ 2 \in 1 .. Len(ms)
  BY <1>2
<1>8. \A i \in 1 .. Len(ms) : /\ names[i] = names[1] => i = 1
                              /\ names[i] = names[2] => i = 2
  BY <1>2, <1>5
<1>9. /\ Value(Object(ms))
      /\ ValueOf(Object(ms), names[1]) = values[1]
      /\ ValueOf(Object(ms), names[2]) = values[2]
      /\ \A name \in Name : (\A i \in 1 .. Len(ms) : names[i] # name)
           => ValueOf(Object(ms), name) = NoText
  BY <1>6, <1>7, <1>8, MembersAreRead
<1> QED BY <1>2, <1>4, <1>5, <1>9

LEMMA ThreeMembers ==
  ASSUME NEW n1 \in Name, NEW n2 \in Name, NEW n3 \in Name,
         n1 # n2, n1 # n3, n2 # n3,
         NEW v1, NEW v2, NEW v3, Value(v1), Value(v2), Value(v3)
  PROVE LET o == Object(<<Member(n1, v1), Member(n2, v2), Member(n3, v3)>>)
        IN  /\ Value(o)
            /\ ValueOf(o, n1) = v1 /\ ValueOf(o, n2) = v2
            /\ ValueOf(o, n3) = v3
            /\ \A name \in Name \ {n1, n2, n3} : ValueOf(o, name) = NoText
<1> DEFINE m1 == Member(n1, v1)
           m2 == Member(n2, v2)
           m3 == Member(n3, v3)
<1>1. m1 \in Text /\ m2 \in Text /\ m3 \in Text
  BY MemberText DEF Value
<1> DEFINE ms == <<m1, m2, m3>>
           names == <<n1, n2, n3>>
           values == <<v1, v2, v3>>
<1>2. /\ ms \in Seq(Text) /\ Len(ms) = 3
      /\ ms[1] = m1 /\ ms[2] = m2 /\ ms[3] = m3
      /\ names[1] = n1 /\ values[1] = v1 /\ names[2] = n2 /\ values[2] = v2
      /\ names[3] = n3 /\ values[3] = v3
  <2> HIDE DEF m1, m2, m3
  <2> QED BY <1>1
<1>3. m1 = Member(n1, v1) /\ m2 = Member(n2, v2) /\ m3 = Member(n3, v3)
  OBVIOUS
<1>4. Object(ms) = Object(<<Member(n1, v1), Member(n2, v2), Member(n3, v3)>>)
  OBVIOUS
<1> HIDE DEF ms, names, values, m1, m2, m3
<1>5. \A i \in 1 .. Len(ms) : i = 1 \/ i = 2 \/ i = 3
  BY <1>2
<1>6. Members(ms, names, values)
  BY <1>2, <1>3, <1>5 DEF Members
<1>7. 1 \in 1 .. Len(ms) /\ 2 \in 1 .. Len(ms) /\ 3 \in 1 .. Len(ms)
  BY <1>2
<1>8. \A i \in 1 .. Len(ms) : /\ names[i] = names[1] => i = 1
                              /\ names[i] = names[2] => i = 2
                              /\ names[i] = names[3] => i = 3
  BY <1>2, <1>5
<1>9. /\ Value(Object(ms))
      /\ ValueOf(Object(ms), names[1]) = values[1]
      /\ ValueOf(Object(ms), names[2]) = values[2]
      /\ ValueOf(Object(ms), names[3]) = values[3]
      /\ \A name \in Name : (\A i \in 1 .. Len(ms) : names[i] # name)
           => ValueOf(Object(ms), name) = NoText
  BY <1>6, <1>7, <1>8, MembersAreRead
<1> QED BY <1>2, <1>4, <1>5, <1>9

LEMMA FourMembers ==
  ASSUME NEW n1 \in Name, NEW n2 \in Name, NEW n3 \in Name, NEW n4 \in Name,
         n1 # n2, n1 # n3, n1 # n4, n2 # n3, n2 # n4, n3 # n4,
         NEW v1, NEW v2, NEW v3, NEW v4,
         Value(v1), Value(v2), Value(v3), Value(v4)
  PROVE LET o == Object(<<Member(n1, v1), Member(n2, v2), Member(n3, v3),
                          Member(n4, v4)>>)
        IN  /\ Value(o)
            /\ ValueOf(o, n1) = v1 /\ ValueOf(o, n2) = v2
            /\ ValueOf(o, n3) = v3 /\ ValueOf(o, n4) = v4
            /\ \A name \in Name \ {n1, n2, n3, n4} : ValueOf(o, name) = NoText
<1> DEFINE m1 == Member(n1, v1)
           m2 == Member(n2, v2)
           m3 == Member(n3, v3)
           m4 == Member(n4, v4)
<1>1. m1 \in Text /\ m2 \in Text /\ m3 \in Text /\ m4 \in Text
  BY MemberText DEF Value
<1> DEFINE ms == <<m1, m2, m3, m4>>
           names == <<n1, n2, n3, n4>>
           values == <<v1, v2, v3, v4>>
<1>2. /\ ms \in Seq(Text) /\ Len(ms) = 4
      /\ ms[1] = m1 /\ ms[2] = m2 /\ ms[3] = m3 /\ ms[4] = m4
      /\ names[1] = n1 /\ values[1] = v1 /\ names[2] = n2 /\ values[2] = v2
      /\ names[3] = n3 /\ values[3] = v3 /\ names[4] = n4 /\ values[4] = v4
  <2> HIDE DEF m1, m2, m3, m4
  <2> QED BY <1>1
<1>3. /\ m1 = Member(n1, v1) /\ m2 = Member(n2, v2) /\ m3 = Member(n3, v3)
      /\ m4 = Member(n4, v4)
  OBVIOUS
<1>4. Object(ms) = Object(<<Member(n1, v1), Member(n2, v2), Member(n3, v3),
                            Member(n4, v4)>>)
  OBVIOUS
<1> HIDE DEF ms, names, values, m1, m2, m3, m4
<1>5. \A i \in 1 .. Len(ms) : i = 1 \/ i = 2 \/ i = 3 \/ i = 4
  BY <1>2
<1>6. Members(ms, names, values)
  BY <1>2, <1>3, <1>5 DEF Members
<1>7. 1 \in 1 .. Len(ms) /\ 2 \in 1 .. Len(ms) /\ 3 \in 1 .. Len(ms)
      /\ 4 \in 1 .. Len(ms)
  BY <1>2
<1>8. \A i \in 1 .. Len(ms) : /\ names[i] = names[1] => i = 1
                              /\ names[i] = names[2] => i = 2
                              /\ names[i] = names[3] => i = 3
                              /\ names[i] = names[4] => i = 4
  BY <1>2, <1>5
<1>9. /\ Value(Object(ms))
      /\ ValueOf(Object(ms), names[1]) = values[1]
      /\ ValueOf(Object(ms), names[2]) = values[2]
      /\ ValueOf(Object(ms), names[3]) = values[3]
      /\ ValueOf(Object(ms), names[4]) = values[4]
      /\ \A name \in Name : (\A i \in 1 .. Len(ms) : names[i] # name)
           => ValueOf(Object(ms), name) = NoText
  BY <1>6, <1>7, <1>8, MembersAreRead
<1> QED BY <1>2, <1>4, <1>5, <1>9

(***************************************************************************)
(* Requests                                                                *)
(***************************************************************************)

\* A string as escape() writes it is a value, and is read as it was.
LEMMA Escaping ==
  ASSUME NEW s \in Text
  PROVE Value(Quoted(Escape(s))) /\ StringOf(Quoted(Escape(s))) = s
<1>1. Codes(Escape(s), s, JsonEscape)
  BY EscapeCodes, Tables
<1> QED BY <1>1, QuotedValue, EscapeIsRead

\* What needs no escapes spells itself.
LEMMA PlainCodes ==
  ASSUME NEW s \in Seq(Name), NEW known
  PROVE Codes(s, s, known)
<1> DEFINE n == Len(s)
           p == [i \in 0 .. n |-> i]
<1>1. n \in Nat /\ \A i \in 1 .. n : s[i] \in Name
  BY LenProperties, ElementOfSeq
<1>2. s \in Text
  <2>1. \A i \in 1 .. n : s[i] \in Symbol
    BY <1>1 DEF Name
  <2> QED BY <1>1, <2>1, SeqDef DEF Text
<1>3. p \in [0 .. n -> 0 .. n] /\ p[0] = 0 /\ p[n] = n
  BY <1>1
<1>4. ASSUME NEW i \in 1 .. n PROVE p[i] = i /\ p[i - 1] = i - 1
  BY <1>1
<1> HIDE DEF p, n
<1>5. ASSUME NEW i \in 1 .. n
      PROVE p[i] = p[i - 1] + 1 /\ s[p[i]] = s[i]
            /\ s[i] \notin {Quote, Backslash}
  <2>1. s[i] \notin {Quote, Backslash}
    BY <1>1 DEF Name
  <2>2. p[i] = p[i - 1] + 1
    BY <1>1, <1>4
  <2> QED BY <1>4, <2>1, <2>2
<1>6. Spells(p, s, s, known)
  BY <1>3, <1>5 DEF Spells, n
<1> QED BY <1>2, <1>6 DEF Codes

LEMMA Words ==
  /\ {"type", "req", "id", "method", "params", "connect", "chat.send",
      "chat.abort", "chat.history", "sessionKey", "message",
      "idempotencyKey", "sessionId", "runId", "limit"} \subseteq Name
  /\ "2" \in Name /\ "a" \in Name
<1>1. \A c \in Word : c \in Name
  <2>1. Word \subseteq Symbol
    BY DEF Symbol
  <2>2. \A c \in Word : c # "\""
    BY Zenon DEF Word
  <2>3. \A c \in Word : c # "\\"
    BY Zenon DEF Word
  <2> QED BY <2>1, <2>2, <2>3 DEF Name, Quote, Backslash
<1>2. {"type", "req", "id", "method", "params", "connect", "chat.send",
       "chat.abort", "chat.history", "sessionKey", "message",
       "idempotencyKey", "sessionId", "runId", "limit"} \subseteq Word
  BY DEF Word
<1>3. "2" \in Word /\ "a" \in Word
  BY DEF Word
<1> QED BY <1>1, <1>2, <1>3

LEMMA OneName ==
  ASSUME NEW c \in Name
  PROVE <<c>> \in Text /\ <<c>> \in Seq(Name)
BY Few DEF Text, Name

\* The fixed part of every request.
LEMMA RequestIsRead ==
  ASSUME NEW method \in Name, NEW params, Value(params)
  PROVE LET t == Request(Id, method, params)
        IN  /\ StringOf(ValueOf(t, "id")) = Id
            /\ StringOf(ValueOf(t, "method")) = <<method>>
            /\ ValueOf(t, "params") = params
<1> DEFINE v1 == Quoted(<<"req">>)
           v2 == Quoted(Escape(Id))
           v3 == Quoted(Escape(<<method>>))
<1>1. Id \in Text /\ <<method>> \in Text /\ <<"req">> \in Seq(Name)
  BY Words, OneName DEF Id
<1>2. /\ Value(v2) /\ StringOf(v2) = Id
      /\ Value(v3) /\ StringOf(v3) = <<method>>
  BY <1>1, Escaping
<1>3. Value(v1)
  BY <1>1, PlainCodes, QuotedValue
<1>4. Request(Id, method, params)
        = Object(<<Member("type", v1), Member("id", v2),
                   Member("method", v3), Member("params", params)>>)
  BY DEF Request
<1> HIDE DEF v1, v2, v3
<1>5. /\ "type" \in Name /\ "id" \in Name /\ "method" \in Name
      /\ "params" \in Name
  BY Words
<1> DEFINE o == Object(<<Member("type", v1), Member("id", v2),
                         Member("method", v3), Member("params", params)>>)
<1>6. /\ ValueOf(o, "id") = v2 /\ ValueOf(o, "method") = v3
      /\ ValueOf(o, "params") = params
  BY <1>2, <1>3, <1>5, FourMembers
<1> QED BY <1>2, <1>4, <1>6

\* The Gateway finds in t the request that was told.
Told(t, method, p) ==
  /\ StringOf(ValueOf(t, "id")) = Id
  /\ StringOf(ValueOf(t, "method")) = <<method>>
  /\ \A name \in DOMAIN p :
       StringOf(ValueOf(ValueOf(t, "params"), name)) =
         IF name \in {"sessionId", "runId"} /\ p[name] = <<>>
         THEN NoText
         ELSE p[name]

\* An optional member is put behind the others, or is not.
LEMMA Behind ==
  /\ \A a : <<a>> \o <<>> = <<a>>
  /\ \A a, b : <<a>> \o <<b>> = <<a, b>>
  /\ \A a, b, c : <<a, b, c>> \o <<>> = <<a, b, c>>
  /\ \A a, b, c, d : <<a, b, c>> \o <<d>> = <<a, b, c, d>>
<1>1. ASSUME NEW a, NEW b
      PROVE <<a>> \o <<>> = <<a>> /\ <<a>> \o <<b>> = <<a, b>>
  <2> DEFINE S == {a, b}
             s == <<a>>
             t == <<b>>
             u == <<a, b>>
  <2>1. /\ s \in Seq(S) /\ Len(s) = 1 /\ t \in Seq(S) /\ Len(t) = 1
        /\ u \in Seq(S) /\ Len(u) = 2
        /\ s[1] = a /\ t[1] = b /\ u[1] = a /\ u[2] = b
    OBVIOUS
  <2> HIDE DEF S, s, t, u
  <2>2. /\ s \o t \in Seq(S) /\ Len(s \o t) = 2
        /\ \A i \in 1 .. 2 : (s \o t)[i] = IF i <= 1 THEN s[i] ELSE t[i - 1]
    BY <2>1, ConcatProperties
  <2>3. \A i \in 1 .. 2 : i = 1 \/ i = 2
    OBVIOUS
  <2>4. (s \o t)[1] = u[1] /\ (s \o t)[2] = u[2]
    BY <2>1, <2>2
  <2>5. s \o t = u
    BY <2>1, <2>2, <2>3, <2>4, SeqEqual
  <2>6. s \o <<>> = s
    BY <2>1, ConcatEmptySeq
  <2> QED BY <2>5, <2>6 DEF s, t, u
<1>2. ASSUME NEW a, NEW b, NEW c, NEW d
      PROVE /\ <<a, b, c>> \o <<>> = <<a, b, c>>
            /\ <<a, b, c>> \o <<d>> = <<a, b, c, d>>
  <2> DEFINE S == {a, b, c, d}
             s == <<a, b, c>>
             t == <<d>>
             u == <<a, b, c, d>>
  <2>1. /\ s \in Seq(S) /\ Len(s) = 3 /\ t \in Seq(S) /\ Len(t) = 1
        /\ u \in Seq(S) /\ Len(u) = 4
        /\ s[1] = a /\ s[2] = b /\ s[3] = c /\ t[1] = d
        /\ u[1] = a /\ u[2] = b /\ u[3] = c /\ u[4] = d
    OBVIOUS
  <2> HIDE DEF S, s, t, u
  <2>2. /\ s \o t \in Seq(S) /\ Len(s \o t) = 4
        /\ \A i \in 1 .. 4 : (s \o t)[i] = IF i <= 3 THEN s[i] ELSE t[i - 3]
    <3>1. s \in Seq(S) /\ t \in Seq(S) /\ Len(s) = 3 /\ Len(t) = 1
      BY <2>1
    <3>2. /\ s \o t \in Seq(S) /\ Len(s \o t) = Len(s) + Len(t)
          /\ \A i \in 1 .. Len(s) + Len(t) :
               (s \o t)[i] = IF i <= Len(s) THEN s[i] ELSE t[i - Len(s)]
      BY <3>1, ConcatProperties
    <3> QED BY <3>1, <3>2
  <2>3. \A i \in 1 .. 4 : i = 1 \/ i = 2 \/ i = 3 \/ i = 4
    OBVIOUS
  <2>4. /\ (s \o t)[1] = u[1] /\ (s \o t)[2] = u[2] /\ (s \o t)[3] = u[3]
        /\ (s \o t)[4] = u[4]
    BY <2>1, <2>2
  <2>5. s \o t = u
    BY <2>1, <2>2, <2>3, <2>4, SeqEqual
  <2>6. s \o <<>> = s
    BY <2>1, ConcatEmptySeq
  <2> QED BY <2>5, <2>6 DEF s, t, u
<1> QED BY <1>1, <1>2

LEMMA NothingRead == StringOf(NoText) = NoText
BY DEF StringOf, IsString

LEMMA SendIsRead ==
  ASSUME NEW key \in Text, NEW message \in Text, NEW session \in Text
  PROVE LET p == [sessionKey |-> key, message |-> message,
                  sessionId |-> session]
        IN  Told(ChatSend(Id, p), "chat.send", p)
<1> DEFINE p == [sessionKey |-> key, message |-> message,
                 sessionId |-> session]
           v1 == Quoted(Escape(key))
           v2 == Quoted(Escape(message))
           v3 == Quoted(Escape(Id))
           v4 == Quoted(Escape(session))
           three == <<Member("sessionKey", v1), Member("message", v2),
                      Member("idempotencyKey", v3)>>
           four == <<Member("sessionKey", v1), Member("message", v2),
                     Member("idempotencyKey", v3), Member("sessionId", v4)>>
           o == Object(IF session = <<>> THEN three ELSE four)
<1>1. Id \in Text
  BY Words, OneName DEF Id
<1>2. /\ Value(v1) /\ StringOf(v1) = key
      /\ Value(v2) /\ StringOf(v2) = message
      /\ Value(v3)
      /\ Value(v4) /\ StringOf(v4) = session
  BY <1>1, Escaping
<1>3. p.sessionKey = key /\ p.message = message /\ p.sessionId = session
  OBVIOUS
<1>4. ChatSend(Id, p) = Request(Id, "chat.send", o)
  <2>1. CASE session = <<>>
    <3>1. Optional("sessionId", p.sessionId) = <<>>
      BY <2>1 DEF Optional
    <3>2. three \o <<>> = three
      BY Behind
    <3> QED BY <2>1, <3>1, <3>2 DEF ChatSend, Escaped
  <2>2. CASE session # <<>>
    <3>1. Optional("sessionId", p.sessionId) = <<Member("sessionId", v4)>>
      BY <2>2 DEF Optional, Escaped
    <3>2. three \o <<Member("sessionId", v4)>> = four
      BY Behind
    <3> QED BY <2>2, <3>1, <3>2 DEF ChatSend, Escaped
  <2> QED BY <2>1, <2>2
<1> HIDE DEF v1, v2, v3, v4
<1>5. /\ "sessionKey" \in Name /\ "message" \in Name
      /\ "idempotencyKey" \in Name /\ "sessionId" \in Name
      /\ "chat.send" \in Name
  BY Words
<1>6. /\ Value(o)
      /\ ValueOf(o, "sessionKey") = v1 /\ ValueOf(o, "message") = v2
      /\ ValueOf(o, "sessionId") = IF session = <<>> THEN NoText ELSE v4
  <2>1. CASE session = <<>>
    <3>1. /\ Value(Object(three))
          /\ ValueOf(Object(three), "sessionKey") = v1
          /\ ValueOf(Object(three), "message") = v2
          /\ \A name \in Name \ {"sessionKey", "message", "idempotencyKey"} :
               ValueOf(Object(three), name) = NoText
      BY <1>2, <1>5, ThreeMembers
    <3>2. ValueOf(Object(three), "sessionId") = NoText
      BY <1>5, <3>1
    <3> HIDE DEF three, four
    <3> QED BY <2>1, <3>1, <3>2
  <2>2. CASE session # <<>>
    <3>1. /\ Value(Object(four))
          /\ ValueOf(Object(four), "sessionKey") = v1
          /\ ValueOf(Object(four), "message") = v2
          /\ ValueOf(Object(four), "sessionId") = v4
      BY <1>2, <1>5, FourMembers
    <3> HIDE DEF three, four
    <3> QED BY <2>2, <3>1
  <2> QED BY <2>1, <2>2
<1> HIDE DEF o
<1>7. /\ StringOf(ValueOf(Request(Id, "chat.send", o), "id")) = Id
      /\ StringOf(ValueOf(Request(Id, "chat.send", o), "method"))
           = <<"chat.send">>
      /\ ValueOf(Request(Id, "chat.send", o), "params") = o
  BY <1>5, <1>6, RequestIsRead
<1>8. DOMAIN p = {"sessionKey", "message", "sessionId"}
  OBVIOUS
<1>9. ASSUME NEW name \in DOMAIN p
      PROVE StringOf(ValueOf(o, name)) =
              IF name \in {"sessionId", "runId"} /\ p[name] = <<>>
              THEN NoText
              ELSE p[name]
  BY <1>2, <1>3, <1>6, <1>8, NothingRead
<1> QED BY <1>4, <1>7, <1>9 DEF Told

LEMMA AbortIsRead ==
  ASSUME NEW key \in Text, NEW run \in Text
  PROVE LET p == [sessionKey |-> key, runId |-> run]
        IN  Told(ChatAbort(Id, p), "chat.abort", p)
<1> DEFINE p == [sessionKey |-> key, runId |-> run]
           v1 == Quoted(Escape(key))
           v2 == Quoted(Escape(run))
           one == <<Member("sessionKey", v1)>>
           two == <<Member("sessionKey", v1), Member("runId", v2)>>
           o == Object(IF run = <<>> THEN one ELSE two)
<1>1. /\ Value(v1) /\ StringOf(v1) = key
      /\ Value(v2) /\ StringOf(v2) = run
  BY Escaping
<1>2. p.sessionKey = key /\ p.runId = run
  OBVIOUS
<1>3. ChatAbort(Id, p) = Request(Id, "chat.abort", o)
  <2>1. CASE run = <<>>
    <3>1. Optional("runId", p.runId) = <<>>
      BY <2>1 DEF Optional
    <3>2. one \o <<>> = one
      BY Behind
    <3> QED BY <2>1, <3>1, <3>2 DEF ChatAbort, Escaped
  <2>2. CASE run # <<>>
    <3>1. Optional("runId", p.runId) = <<Member("runId", v2)>>
      BY <2>2 DEF Optional, Escaped
    <3>2. one \o <<Member("runId", v2)>> = two
      BY Behind
    <3> QED BY <2>2, <3>1, <3>2 DEF ChatAbort, Escaped
  <2> QED BY <2>1, <2>2
<1> HIDE DEF v1, v2
<1>4. "sessionKey" \in Name /\ "runId" \in Name /\ "chat.abort" \in Name
  BY Words
<1>5. /\ Value(o)
      /\ ValueOf(o, "sessionKey") = v1
      /\ ValueOf(o, "runId") = IF run = <<>> THEN NoText ELSE v2
  <2>1. CASE run = <<>>
    <3>1. /\ Value(Object(one))
          /\ ValueOf(Object(one), "sessionKey") = v1
          /\ \A name \in Name \ {"sessionKey"} :
               ValueOf(Object(one), name) = NoText
      BY <1>1, <1>4, OneMember
    <3>2. ValueOf(Object(one), "runId") = NoText
      BY <1>4, <3>1
    <3> HIDE DEF one, two
    <3> QED BY <2>1, <3>1, <3>2
  <2>2. CASE run # <<>>
    <3>1. /\ Value(Object(two))
          /\ ValueOf(Object(two), "sessionKey") = v1
          /\ ValueOf(Object(two), "runId") = v2
      BY <1>1, <1>4, TwoMembers
    <3> HIDE DEF one, two
    <3> QED BY <2>2, <3>1
  <2> QED BY <2>1, <2>2
<1> HIDE DEF o
<1>6. /\ StringOf(ValueOf(Request(Id, "chat.abort", o), "id")) = Id
      /\ StringOf(ValueOf(Request(Id, "chat.abort", o), "method"))
           = <<"chat.abort">>
      /\ ValueOf(Request(Id, "chat.abort", o), "params") = o
  BY <1>4, <1>5, RequestIsRead
<1>7. DOMAIN p = {"sessionKey", "runId"}
  OBVIOUS
<1>8. ASSUME NEW name \in DOMAIN p
      PROVE StringOf(ValueOf(o, name)) =
              IF name \in {"sessionId", "runId"} /\ p[name] = <<>>
              THEN NoText
              ELSE p[name]
  BY <1>1, <1>2, <1>5, <1>7, NothingRead
<1> QED BY <1>3, <1>6, <1>8 DEF Told

LEMMA HistoryIsRead ==
  ASSUME NEW key \in Text
  PROVE LET p == [sessionKey |-> key]
        IN  Told(ChatHistory(Id, p), "chat.history", p)
<1> DEFINE p == [sessionKey |-> key]
           v1 == Quoted(Escape(key))
           v2 == <<"2">>
           o == Object(<<Member("sessionKey", v1), Member("limit", v2)>>)
<1>1. Value(v1) /\ StringOf(v1) = key
  BY Escaping
<1>2. Value(v2)
  <2>1. "2" \notin Mark
    BY DEF Mark
  <2> QED BY <2>1, Words, WordValue
<1>3. p.sessionKey = key /\ DOMAIN p = {"sessionKey"}
  OBVIOUS
<1>4. ChatHistory(Id, p) = Request(Id, "chat.history", o)
  BY DEF ChatHistory, Escaped
<1> HIDE DEF v1, v2
<1>5. "sessionKey" \in Name /\ "limit" \in Name /\ "chat.history" \in Name
  BY Words
<1>6. Value(o) /\ ValueOf(o, "sessionKey") = v1
  BY <1>1, <1>2, <1>5, TwoMembers
<1> HIDE DEF o
<1>7. /\ StringOf(ValueOf(Request(Id, "chat.history", o), "id")) = Id
      /\ StringOf(ValueOf(Request(Id, "chat.history", o), "method"))
           = <<"chat.history">>
      /\ ValueOf(Request(Id, "chat.history", o), "params") = o
  BY <1>5, <1>6, RequestIsRead
<1>8. ASSUME NEW name \in DOMAIN p
      PROVE StringOf(ValueOf(o, name)) =
              IF name \in {"sessionId", "runId"} /\ p[name] = <<>>
              THEN NoText
              ELSE p[name]
  BY <1>1, <1>3, <1>6
<1> QED BY <1>4, <1>7, <1>8 DEF Told

LEMMA StringsAreTexts ==
  /\ Strings \subseteq Text
  /\ Shorts \subseteq Text
<1>1. ASSUME NEW n \in Nat, NEW s \in BoundedSeq(Letter, n) PROVE s \in Text
  <2>1. PICK m \in 0 .. n : s \in [1 .. m -> Letter]
    BY DEF BoundedSeq, SeqOf
  <2>2. m \in Nat /\ \A i \in 1 .. m : s[i] \in Symbol
    BY <2>1 DEF Symbol
  <2>3. s \in [1 .. m -> Symbol]
    BY <2>1, <2>2
  <2> QED BY <2>2, <2>3, SeqDef DEF Text
<1> QED BY <1>1, MaxStringAssumption DEF Strings, Shorts

\* What is on its way to the Gateway is what was asked.
Carried ==
  at = "gateway" /\ told.what = "request" =>
    Told(text, told.method, told.params)

RequestInv == Carried /\ RequestArrives

LEMMA RequestWritten ==
  ASSUME WriteRequest
  PROVE Carried' /\ RequestArrives'
<1> DEFINE Sent(method, p, t) ==
      /\ at' = "gateway"
      /\ told' = [what |-> "request", method |-> method, params |-> p]
      /\ text' = t
<1>1. ASSUME NEW method, NEW p, NEW t, Sent(method, p, t), Told(t, method, p)
      PROVE Carried' /\ RequestArrives'
  <2>1. told'.method = method /\ told'.params = p
    BY <1>1
  <2>2. Carried'
    BY <1>1, <2>1 DEF Carried, Told
  <2>3. RequestArrives'
    BY <1>1 DEF RequestArrives
  <2> QED BY <2>2, <2>3
<1>2. PICK s \in Strings, short \in Shorts :
        \/ LET p == [sessionKey |-> short, message |-> s, sessionId |-> short]
           IN  Asks("chat.send", p, ChatSend(Id, p))
        \/ LET p == [sessionKey |-> s, runId |-> short]
           IN  Asks("chat.abort", p, ChatAbort(Id, p))
        \/ LET p == [sessionKey |-> s]
           IN  Asks("chat.history", p, ChatHistory(Id, p))
  BY DEF WriteRequest
<1>3. s \in Text /\ short \in Text
  BY StringsAreTexts
<1>4. \A method, p, t : Asks(method, p, t) => Sent(method, p, t)
  BY DEF Asks, Write
<1> HIDE DEF Sent
<1> DEFINE p1 == [sessionKey |-> short, message |-> s, sessionId |-> short]
           p2 == [sessionKey |-> s, runId |-> short]
           p3 == [sessionKey |-> s]
<1>5. CASE Asks("chat.send", p1, ChatSend(Id, p1))
  <2>1. Told(ChatSend(Id, p1), "chat.send", p1)
    BY <1>3, SendIsRead
  <2> QED BY <1>1, <1>4, <1>5, <2>1
<1>6. CASE Asks("chat.abort", p2, ChatAbort(Id, p2))
  <2>1. Told(ChatAbort(Id, p2), "chat.abort", p2)
    BY <1>3, AbortIsRead
  <2> QED BY <1>1, <1>4, <1>6, <2>1
<1>7. CASE Asks("chat.history", p3, ChatHistory(Id, p3))
  <2>1. Told(ChatHistory(Id, p3), "chat.history", p3)
    BY <1>3, HistoryIsRead
  <2> QED BY <1>1, <1>4, <1>7, <2>1
<1> QED BY <1>2, <1>5, <1>6, <1>7

\* Whatever the user types or a session is called, of any length and in any
\* symbols, the Gateway reads it so in chat.send, chat.abort and chat.history,
\* and nothing in it passes for a member of its own.
THEOREM RequestArrivesAlways == FlowSpec => []RequestArrives
<1>1. FlowInit => RequestInv
  BY DEF FlowInit, RequestInv, Carried, RequestArrives
<1>2. RequestInv /\ [FlowNext]_flowVars => RequestInv'
  <2> SUFFICES ASSUME RequestInv, [FlowNext]_flowVars PROVE RequestInv'
    OBVIOUS
  <2> USE DEF RequestInv
  <2>1. CASE WriteRequest
    BY <2>1, RequestWritten
  <2>2. CASE WriteEvent \/ WriteReply \/ WriteChallenge \/ WriteHello
    <3>1. at' = "client"
      BY <2>2 DEF WriteEvent, WriteReply, WriteChallenge, WriteHello, Write
    <3> QED BY <3>1 DEF Carried, RequestArrives
  <2>3. CASE GatewayReads
    <3>1. /\ told.what = "request" /\ at = "gateway" /\ at' = "read"
          /\ told' = told
          /\ heard' = [id |-> StringOf(ValueOf(text, "id")),
                       method |-> StringOf(ValueOf(text, "method")),
                       params |-> [name \in DOMAIN told.params |->
                         StringOf(ValueOf(ValueOf(text, "params"), name))]]
      BY <2>3 DEF GatewayReads, Hear
    <3>2. Told(text, told.method, told.params)
      BY <3>1 DEF Carried
    <3>3. /\ heard'.id = Id /\ heard'.method = <<told.method>>
          /\ \A name \in DOMAIN told.params :
               heard'.params[name] =
                 IF name \in {"sessionId", "runId"}
                      /\ told.params[name] = <<>>
                 THEN NoText
                 ELSE told.params[name]
      BY <3>1, <3>2 DEF Told
    <3>4. RequestArrives'
      BY <3>1, <3>3 DEF RequestArrives
    <3>5. Carried'
      BY <3>1 DEF Carried
    <3> QED BY <3>4, <3>5
  <2>4. CASE ReadEvent \/ ReadReply \/ AnswerChallenge \/ GatewayReadsAnswer
               \/ StoreToken \/ LoadToken
    <3>1. told.what # "request" /\ told' = told
      BY <2>4 DEF ReadEvent, ReadReply, AnswerChallenge, GatewayReadsAnswer,
                  StoreToken, LoadToken, Hear, Pass
    <3> QED BY <3>1 DEF Carried, RequestArrives
  <2>5. CASE Forget
    <3>1. at' = "nowhere"
      BY <2>5 DEF Forget
    <3> QED BY <3>1 DEF Carried, RequestArrives
  <2>6. CASE UNCHANGED flowVars
    BY <2>6 DEF flowVars, Carried, RequestArrives, Told
  <2> QED BY <2>1, <2>2, <2>3, <2>4, <2>5, <2>6 DEF FlowNext
<1>3. RequestInv => RequestArrives
  BY DEF RequestInv
<1> QED BY <1>1, <1>2, <1>3, PTL DEF FlowSpec

(***************************************************************************)
(* Searching: where the core finds a member, and what it reads there       *)
(***************************************************************************)

\* A name stands in quotes at position i.
Named(t, key, i) ==
  /\ i \in 2 .. Len(t) - 1
  /\ t[i] = key
  /\ t[i - 1] = Quote
  /\ t[i + 1] = Quote

LEMMA KeyAtIs ==
  ASSUME NEW t \in Text, NEW key, NEW i, Named(t, key, i),
         \A j \in 2 .. i - 1 : ~Named(t, key, j)
  PROVE KeyAt(t, key) = i - 1
<1> DEFINE S == {j \in 2 .. Len(t) - 1 : /\ t[j] = key
                                         /\ t[j - 1] = Quote
                                         /\ t[j + 1] = Quote}
<1>1. Len(t) \in Nat
  BY Symbols
<1>2. S \in SUBSET Nat /\ i \in S
  BY <1>1 DEF Named
<1>3. \A j \in S : i <= j
  <2> SUFFICES ASSUME NEW j \in S, ~(i <= j) PROVE FALSE
    OBVIOUS
  <2>1. Named(t, key, j)
    BY DEF Named
  <2>2. j \in 2 .. i - 1
    BY <1>1, <1>2
  <2> QED BY <2>1, <2>2
<1>4. KeyAt(t, key) = IF S = {} THEN 0 ELSE Min(S) - 1
  BY DEF KeyAt
<1> HIDE DEF S
<1>5. Min(S) = i
  BY <1>2, <1>3, MinIs
<1> QED BY <1>2, <1>4, <1>5

LEMMA KeyAtNone ==
  ASSUME NEW t \in Text, NEW key
  PROVE KeyAt(t, key) = 0 <=> \A i \in 2 .. Len(t) - 1 : ~Named(t, key, i)
<1> DEFINE S == {j \in 2 .. Len(t) - 1 : /\ t[j] = key
                                         /\ t[j - 1] = Quote
                                         /\ t[j + 1] = Quote}
<1>1. Len(t) \in Nat
  BY Symbols
<1>2. S = {} <=> \A i \in 2 .. Len(t) - 1 : ~Named(t, key, i)
  BY DEF Named
<1>3. KeyAt(t, key) = IF S = {} THEN 0 ELSE Min(S) - 1
  BY DEF KeyAt
<1>4. S \in SUBSET Nat /\ \A x \in S : x >= 2
  BY <1>1
<1> HIDE DEF S
<1>5. ASSUME S # {} PROVE Min(S) - 1 # 0
  <2>1. PICK m \in S : \A k \in S : m <= k
    BY <1>4, <1>5, Least
  <2>2. Min(S) = m
    BY <1>4, <2>1, MinIs
  <2> QED BY <1>4, <2>1, <2>2
<1> QED BY <1>2, <1>3, <1>5

LEMMA FindIs ==
  ASSUME NEW t \in Text, NEW c, NEW i \in Nat \ {0}, NEW k \in Nat,
         i <= k, k <= Len(t), t[k] = c,
         \A j \in i .. k - 1 : t[j] # c
  PROVE Find(t, c, i) = k
<1> DEFINE S == {j \in i .. Len(t) : t[j] = c}
<1>1. Len(t) \in Nat
  BY Symbols
<1>2. S \in SUBSET Nat /\ k \in S /\ \A j \in S : k <= j
  BY <1>1
<1>3. Find(t, c, i) = IF S # {} THEN Min(S) ELSE 0
  BY DEF Find, SelectInSubSeq
<1> HIDE DEF S
<1> QED BY <1>2, <1>3, MinIs

\* The value of a member called key stands in t behind k symbols, and nothing is
\* called so before it, but for the end of a string right before the member.
HoldsAt(t, key, v, k) ==
  /\ Occurs(v, t, k)
  /\ k <= Len(t)
  /\ Named(t, key, k - 2)
  /\ t[k] = Colon
  /\ \A j \in 2 .. k - 3 : Named(t, key, j) => j = k - 6 /\ t[k - 4] = Comma
Holds(t, key, v) == \E k : HoldsAt(t, key, v, k)

\* A search for the member starts at its name or at such an end, and nothing
\* but names, quotes and a comma lies between.
LEMMA KeyNear ==
  ASSUME NEW t \in Text, NEW key, NEW v, NEW k, HoldsAt(t, key, v, k),
         NEW c, c # key, c # Quote, c # Comma
  PROVE /\ KeyAt(t, key) \in Nat \ {0}
        /\ KeyAt(t, key) <= k - 3
        /\ \A j \in KeyAt(t, key) .. k - 1 : t[j] # c
<1>1. /\ k \in Nat /\ Len(t) \in Nat /\ k - 2 \in 2 .. Len(t) - 1
      /\ Named(t, key, k - 2)
  BY Symbols DEF HoldsAt, Named, Occurs
<1>2. t[k - 3] = Quote /\ t[k - 2] = key /\ t[k - 1] = Quote
  <2>1. (k - 2) - 1 = k - 3 /\ (k - 2) + 1 = k - 1
    BY <1>1
  <2> QED BY <1>1, <2>1 DEF Named
<1>3. CASE \A j \in 2 .. k - 3 : ~Named(t, key, j)
  <2>1. KeyAt(t, key) = (k - 2) - 1
    <3>1. (k - 2) - 1 = k - 3
      BY <1>1
    <3> QED BY <1>1, <1>3, <3>1, KeyAtIs
  <2>2. KeyAt(t, key) = k - 3
    BY <1>1, <2>1
  <2>3. \A j \in k - 3 .. k - 1 : j = k - 3 \/ j = k - 2 \/ j = k - 1
    BY <1>1
  <2>4. \A j \in k - 3 .. k - 1 : t[j] # c
    BY <1>2, <2>3
  <2>5. k - 3 \in Nat \ {0} /\ k - 3 <= k - 3
    BY <1>1
  <2> QED BY <2>2, <2>4, <2>5
<1>4. CASE \E j \in 2 .. k - 3 : Named(t, key, j)
  <2>1. PICK i \in 2 .. k - 3 : Named(t, key, i)
    BY <1>4
  <2>2. /\ i = k - 6 /\ t[k - 4] = Comma
        /\ \A j \in 2 .. k - 3 : Named(t, key, j) => j = k - 6
    BY <2>1 DEF HoldsAt
  <2>3. /\ i - 1 = k - 7 /\ i + 1 = k - 5 /\ k - 7 \in Nat \ {0}
        /\ k - 7 <= k - 3 /\ \A j \in 2 .. i - 1 : j \in 2 .. k - 3 /\ j # k - 6
    BY <1>1, <2>2
  <2>4. t[k - 7] = Quote /\ t[k - 6] = key /\ t[k - 5] = Quote
    BY <2>1, <2>2, <2>3 DEF Named
  <2>5. \A j \in 2 .. i - 1 : ~Named(t, key, j)
    BY <2>2, <2>3
  <2>6. KeyAt(t, key) = k - 7
    BY <2>1, <2>3, <2>5, KeyAtIs
  <2>7. \A j \in k - 7 .. k - 1 : j \in {k - 7, k - 6, k - 5, k - 4, k - 3,
                                       k - 2, k - 1}
    BY <1>1
  <2>8. \A j \in k - 7 .. k - 1 : t[j] # c
    BY <1>2, <2>2, <2>4, <2>7
  <2> QED BY <2>3, <2>6, <2>8
<1> QED BY <1>3, <1>4

Found(t, key, v) ==
  \E k \in Nat \ {0} : Occurs(v, t, k) /\ ValueAt(t, key) = k + 1

LEMMA HoldsFound ==
  ASSUME NEW t \in Text, NEW key, key # Colon, NEW v, Holds(t, key, v)
  PROVE Found(t, key, v)
<1>1. PICK k : HoldsAt(t, key, v, k)
  BY DEF Holds
<1>2. /\ k \in Nat \ {0} /\ Len(t) \in Nat /\ k <= Len(t) /\ t[k] = Colon
      /\ Occurs(v, t, k)
  <2>1. /\ k - 2 \in 2 .. Len(t) - 1 /\ k \in Nat /\ Len(t) \in Nat
        /\ t[k] = Colon /\ Occurs(v, t, k) /\ k <= Len(t)
    BY <1>1, Symbols DEF HoldsAt, Named, Occurs
  <2> QED BY <2>1
<1> DEFINE i == KeyAt(t, key)
<1>3. i \in Nat \ {0} /\ i <= k - 3 /\ \A j \in i .. k - 1 : t[j] # Colon
  <2>1. Colon # key /\ Colon # Quote /\ Colon # Comma
    BY DEF Colon, Quote, Comma
  <2>2. \A c : c # key /\ c # Quote /\ c # Comma =>
          i \in Nat \ {0} /\ i <= k - 3 /\ \A j \in i .. k - 1 : t[j] # c
    BY <1>1, KeyNear
  <2> HIDE DEF i
  <2> QED BY <2>1, <2>2, Zenon
<1> HIDE DEF i
<1>4. Find(t, Colon, i) = k
  <2>1. i <= k
    BY <1>2, <1>3
  <2> QED BY <1>2, <1>3, <2>1, FindIs
<1>5. ValueAt(t, key) = k + 1
  <2>1. ValueAt(t, key) = IF Find(t, Colon, i) = 0 THEN 0
                          ELSE Find(t, Colon, i) + 1
    BY DEF ValueAt, Colon, i
  <2> QED BY <1>2, <1>4, <2>1
<1> QED BY <1>2, <1>5 DEF Found

LEMMA SpelledFound ==
  ASSUME NEW t \in Text, NEW key, NEW e, NEW s, NEW known,
         Found(t, key, Quoted(e)), Codes(e, s, known), Table(known)
  PROVE SpelledAt(t, key, known) = s
<1> DEFINE v == Quoted(e)
<1>1. PICK k \in Nat \ {0} : Occurs(v, t, k) /\ ValueAt(t, key) = k + 1
  BY DEF Found
<1>2. /\ e \in Text /\ v \in Text /\ Len(e) \in Nat /\ Len(v) = Len(e) + 2
      /\ v[1] = Quote /\ v[Len(e) + 2] = Quote /\ Occurs(e, v, 1)
  <2>1. e \in Text
    BY DEF Codes
  <2> QED BY <2>1, QuotedText
<1> HIDE DEF v
<1>3. /\ Len(t) \in Nat /\ k + (Len(e) + 2) <= Len(t)
      /\ t[k + 1] = Quote /\ t[k + (Len(e) + 2)] = Quote
  <2>1. 1 \in 1 .. Len(v) /\ Len(e) + 2 \in 1 .. Len(v)
    BY <1>2
  <2> QED BY <1>1, <1>2, <2>1, Symbols DEF Occurs
<1>4. Find(t, Quote, k + 1) = k + 1
  <2>1. k + 1 \in Nat \ {0} /\ k + 1 <= Len(t)
        /\ \A j \in k + 1 .. (k + 1) - 1 : t[j] # Quote
    BY <1>2, <1>3
  <2> QED BY <1>3, <2>1, FindIs
<1> DEFINE u == SubSeq(t, (k + 1) + 1, Len(t))
<1>5. /\ u \in Text /\ Len(u) = Len(t) - (k + 1)
      /\ \A i \in 1 .. Len(t) - (k + 1) : u[i] = t[(k + 1) + i]
  <2>1. k + 1 \in 0 .. Len(t)
    BY <1>2, <1>3
  <2> QED BY <2>1, Rest
<1>6. SpelledAt(t, key, known) = Spelled(u, known)
  BY <1>1, <1>4 DEF SpelledAt
<1> HIDE DEF u
<1>7. Occurs(e, t, k + 1)
  BY <1>1, <1>2, OccursWithin
<1>8. Occurs(e, u, 0)
  <2>1. ASSUME NEW i \in 1 .. Len(e) PROVE u[0 + i] = e[i]
    <3>1. i \in 1 .. Len(t) - (k + 1) /\ 0 + i = i
      BY <1>2, <1>3
    <3> QED BY <1>5, <1>7, <3>1 DEF Occurs
  <2>2. 0 + Len(e) <= Len(u)
    BY <1>2, <1>3, <1>5
  <2> QED BY <2>1, <2>2 DEF Occurs
<1>9. Len(e) < Len(u) /\ u[Len(e) + 1] = Quote
  <2>1. Len(e) + 1 \in 1 .. Len(t) - (k + 1)
        /\ (k + 1) + (Len(e) + 1) = k + (Len(e) + 2)
    BY <1>2, <1>3
  <2>2. u[Len(e) + 1] = t[(k + 1) + (Len(e) + 1)]
    BY <1>5, <2>1
  <2> QED BY <1>2, <1>3, <1>5, <2>1, <2>2
<1> QED BY <1>5, <1>6, <1>8, <1>9, ReadBack

LEMMA NaturalFound ==
  ASSUME NEW t \in Text, NEW key, NEW c \in Symbol, Found(t, key, <<c>>)
  PROVE Natural(t, key) = IF c \in {"1", "2"} THEN c ELSE NoText
<1> DEFINE v == <<c>>
<1>1. PICK k \in Nat \ {0} : Occurs(v, t, k) /\ ValueAt(t, key) = k + 1
  BY DEF Found
<1>2. Len(v) = 1 /\ v[1] = c /\ Len(t) \in Nat /\ DOMAIN t = 1 .. Len(t)
  BY Symbols
<1> HIDE DEF v
<1>3. k + 1 \in DOMAIN t /\ t[k + 1] = c
  <2>1. 1 \in 1 .. Len(v)
    BY <1>2
  <2> QED BY <1>1, <1>2, <2>1 DEF Occurs
<1> QED BY <1>1, <1>3, Zenon DEF Natural

\* An object, to a reader who counts its braces.
Closed(v) ==
  /\ v \in Text
  /\ Len(v) >= 2
  /\ v[1] = LeftBrace
  /\ \E a : /\ Path(a, v, {LeftBrace}, {RightBrace})
            /\ a[Len(v) + 1].depth = 0
            /\ \A c \in 2 .. Len(v) : a[c].depth # 0

LEMMA RawFound ==
  ASSUME NEW t \in Text, NEW key, NEW v, Found(t, key, v), Closed(v)
  PROVE Raw(t, key) = v
<1>1. PICK k \in Nat \ {0} : Occurs(v, t, k) /\ ValueAt(t, key) = k + 1
  BY DEF Found
<1>2. PICK a : /\ Path(a, v, {LeftBrace}, {RightBrace})
               /\ a[Len(v) + 1].depth = 0
               /\ \A c \in 2 .. Len(v) : a[c].depth # 0
  BY DEF Closed
<1>3. /\ v \in Text /\ Len(v) \in Nat /\ Len(v) >= 2 /\ v[1] = LeftBrace
      /\ Len(t) \in Nat /\ k + Len(v) <= Len(t) /\ DOMAIN t = 1 .. Len(t)
  BY <1>1, Symbols DEF Closed, Occurs
<1> DEFINE rest == SubSeq(t, k + 1, Len(t))
           at1 == Scan(rest, {LeftBrace}, {RightBrace})
           ends == {i \in DOMAIN rest : at1[i + 1].depth = 0}
<1>4. /\ rest \in Text /\ Len(rest) = Len(t) - k
      /\ \A i \in 1 .. Len(t) - k : rest[i] = t[k + i]
  <2>1. k \in 0 .. Len(t)
    BY <1>3
  <2> QED BY <2>1, Rest
<1>5. Path(at1, rest, {LeftBrace}, {RightBrace})
  BY <1>4, ScanPath
<1> HIDE DEF rest, at1
<1>6. Occurs(v, rest, 0)
  <2>1. ASSUME NEW i \in 1 .. Len(v) PROVE rest[0 + i] = v[i]
    <3>1. i \in 1 .. Len(t) - k /\ 0 + i = i
      BY <1>3
    <3> QED BY <1>1, <1>4, <3>1 DEF Occurs
  <2>2. 0 + Len(v) <= Len(rest)
    BY <1>3, <1>4
  <2> QED BY <2>1, <2>2 DEF Occurs
<1>7. rest[1] = LeftBrace
  <2>1. 1 \in 1 .. Len(v) /\ 0 + 1 = 1
    BY <1>3
  <2> QED BY <1>3, <1>6, <2>1 DEF Occurs
<1>8. \A i \in 1 .. Len(v) + 1 : at1[i].depth = a[i].depth
  <2> DEFINE z == 0
  <2>1. at1[z + 1] = Level(z)
    BY <1>5 DEF Path, Level, Outside
  <2>2. z \in Int /\ Occurs(v, rest, z)
    BY <1>6
  <2> HIDE DEF z
  <2>3. \A i \in 1 .. Len(v) + 1 : at1[z + i] = Deeper(a[i], z)
    BY <1>2, <1>3, <1>4, <1>5, <2>1, <2>2, ScanShift, SMTT(30)
  <2>4. ASSUME NEW i \in 1 .. Len(v) + 1 PROVE at1[i].depth = a[i].depth
    <3>1. a[i] \in Place
      <4>1. a \in Seq(Place) /\ Len(a) = Len(v) + 1
        BY <1>2 DEF Path
      <4> QED BY <4>1, ElementOfSeq
    <3>2. z + i = i
      BY <1>3 DEF z
    <3>3. at1[i].depth = a[i].depth + z
      <4>1. at1[z + i] = Deeper(a[i], z)
        BY <2>3, Zenon
      <4>2. Deeper(a[i], z).depth = a[i].depth + z
        BY DEF Deeper
      <4> QED BY <3>2, <4>1, <4>2, Zenon
    <3> QED BY <3>1, <3>3 DEF Place, z
  <2> QED BY <2>4
<1>9. ends \in SUBSET Nat /\ Len(v) \in ends /\ \A j \in ends : Len(v) <= j
  <2>1. DOMAIN rest = 1 .. Len(rest)
    BY <1>4, Symbols
  <2>2. Len(v) \in ends
    <3>1. Len(v) \in 1 .. Len(rest) /\ Len(v) + 1 \in 1 .. Len(v) + 1
      BY <1>3, <1>4
    <3> QED BY <1>2, <1>8, <2>1, <3>1
  <2>3. ASSUME NEW j \in ends, ~(Len(v) <= j) PROVE FALSE
    <3>1. j \in Nat /\ j + 1 \in 2 .. Len(v) /\ j + 1 \in 1 .. Len(v) + 1
      BY <1>3, <1>4, <2>1, <2>3
    <3> QED BY <1>2, <1>8, <3>1
  <2>4. ends \in SUBSET Nat
    BY <1>3, <1>4, <2>1
  <2> QED BY <2>2, <2>3, <2>4
<1>10. Raw(t, key) = IF ends = {} THEN <<>> ELSE SubSeq(rest, 1, Min(ends))
  <2>1. ValueAt(t, key) \in DOMAIN t
    BY <1>1, <1>3
  <2> DEFINE closing == [x \in {"{", "["} |-> IF x = "{" THEN "}" ELSE "]"]
  <2>2. rest[1] # Quote /\ rest[1] \in DOMAIN closing
        /\ closing[rest[1]] = RightBrace
    BY <1>7 DEF LeftBrace, RightBrace, Quote
  <2>3. rest = SubSeq(t, ValueAt(t, key), Len(t))
    BY <1>1 DEF rest
  <2>4. at1 = Scan(rest, {rest[1]}, {closing[rest[1]]})
    BY <1>7, <2>2 DEF at1
  <2> QED BY <2>1, <2>2, <2>3, <2>4, Zenon DEF Raw
<1> HIDE DEF ends
<1>11. Min(ends) = Len(v) /\ ends # {}
  BY <1>9, MinIs
<1>12. SubSeq(rest, 0 + 1, 0 + Len(v)) = v
  BY <1>3, <1>4, <1>6, CutOut
<1> QED BY <1>3, <1>10, <1>11, <1>12

\* What can be the name of a member that is searched for.
Sought == Name \ {Comma, Colon, LeftBrace, RightBrace}

\* Nothing in v is called key, whatever v is written before.
Free(v, key) ==
  \A j \in 2 .. Len(v) : ~(/\ v[j] = key
                           /\ v[j - 1] = Quote
                           /\ j = Len(v) \/ v[j + 1] = Quote)

LEMMA FreeAbsent ==
  ASSUME NEW v \in Text, NEW key, key \notin ToSet(v)
  PROVE Free(v, key)
<1>1. \A j \in 2 .. Len(v) : v[j] \in ToSet(v)
  BY Symbols DEF ToSet
<1> QED BY <1>1 DEF Free

LEMMA FreeObject ==
  ASSUME NEW v \in Text, NEW key, v[Len(v)] # key, KeyAt(v, key) = 0
  PROVE Free(v, key)
<1>1. \A j \in 2 .. Len(v) - 1 : ~Named(v, key, j)
  BY KeyAtNone
<1>2. Len(v) \in Nat
  BY Symbols
<1> SUFFICES ASSUME NEW j \in 2 .. Len(v), v[j] = key, v[j - 1] = Quote,
                    j = Len(v) \/ v[j + 1] = Quote
             PROVE FALSE
  BY DEF Free
<1>3. j # Len(v)
  OBVIOUS
<1>4. j \in 2 .. Len(v) - 1
  BY <1>2, <1>3
<1> QED BY <1>1, <1>3, <1>4 DEF Named

LEMMA FreeMember ==
  ASSUME NEW name \in Name, NEW v \in Text, Len(v) > 0,
         NEW key \in Sought, name # key, Free(v, key)
  PROVE Free(Member(name, v), key)
<1> DEFINE m == Member(name, v)
<1>1. /\ Len(v) \in Nat /\ m \in Text /\ Len(m) = 4 + Len(v)
      /\ m[1] = Quote /\ m[2] = name /\ m[3] = Quote /\ m[4] = Colon
      /\ Occurs(v, m, 4)
  BY MemberText, Symbols
<1> HIDE DEF m
<1>2. key # Quote /\ key # Colon /\ Colon # Quote
  BY DEF Sought, Name, Colon, Quote
<1> SUFFICES ASSUME NEW j \in 2 .. Len(m), m[j] = key, m[j - 1] = Quote,
                    j = Len(m) \/ m[j + 1] = Quote
             PROVE FALSE
  BY DEF Free, m
<1>3. j # 2 /\ j # 3 /\ j # 4
  BY <1>1, <1>2
<1>4. j # 5
  <2>1. j = 5 => j - 1 = 4
    OBVIOUS
  <2> QED BY <1>1, <1>2, <2>1
<1>5. /\ j - 4 \in 2 .. Len(v) /\ 4 + (j - 4) = j
      /\ (j - 4) - 1 \in 1 .. Len(v) /\ 4 + ((j - 4) - 1) = j - 1
      /\ j = Len(m) <=> j - 4 = Len(v)
  BY <1>1, <1>3, <1>4
<1>6. v[j - 4] = key /\ v[(j - 4) - 1] = Quote
  BY <1>1, <1>5 DEF Occurs
<1>7. j - 4 # Len(v) => v[(j - 4) + 1] = Quote
  <2> SUFFICES ASSUME j - 4 # Len(v) PROVE v[(j - 4) + 1] = Quote
    OBVIOUS
  <2>1. (j - 4) + 1 \in 1 .. Len(v) /\ 4 + ((j - 4) + 1) = j + 1
    BY <1>1, <1>5
  <2> QED BY <1>1, <1>5, <2>1 DEF Occurs
<1> QED BY <1>5, <1>6, <1>7 DEF Free

LEMMA NoneWithin ==
  ASSUME NEW t \in Text, NEW m \in Text, NEW k, Occurs(m, t, k),
         NEW key, key # Quote, m[1] = Quote, Free(m, key)
  PROVE \A j \in k + 1 .. k + Len(m) : ~Named(t, key, j)
<1>1. Len(m) \in Nat /\ k \in Nat /\ Len(t) \in Nat /\ k + Len(m) <= Len(t)
  BY Symbols DEF Occurs
<1> SUFFICES ASSUME NEW j \in k + 1 .. k + Len(m), Named(t, key, j)
             PROVE FALSE
  OBVIOUS
<1>2. t[j] = key /\ t[j - 1] = Quote /\ t[j + 1] = Quote
  BY DEF Named
<1>3. j - k \in 1 .. Len(m) /\ k + (j - k) = j
  BY <1>1
<1>4. m[j - k] = key
  BY <1>2, <1>3 DEF Occurs
<1>5. j - k # 1
  BY <1>4
<1>6. /\ j - k \in 2 .. Len(m)
      /\ (j - k) - 1 \in 1 .. Len(m) /\ k + ((j - k) - 1) = j - 1
  BY <1>1, <1>3, <1>5
<1>7. m[(j - k) - 1] = Quote
  BY <1>2, <1>6 DEF Occurs
<1>8. j - k # Len(m) => m[(j - k) + 1] = Quote
  <2> SUFFICES ASSUME j - k # Len(m) PROVE m[(j - k) + 1] = Quote
    OBVIOUS
  <2>1. (j - k) + 1 \in 1 .. Len(m) /\ k + ((j - k) + 1) = j + 1
    BY <1>1, <1>3
  <2> QED BY <1>2, <2>1 DEF Occurs
<1> QED BY <1>4, <1>6, <1>7, <1>8 DEF Free

\* Members of these names and values, whatever the values.
Listed(ms, names, values) ==
  /\ ms \in Seq(Text)
  /\ Len(ms) > 0
  /\ \A i \in 1 .. Len(ms) : /\ names[i] \in Name
                             /\ values[i] \in Text
                             /\ Len(values[i]) > 0
                             /\ ms[i] = Member(names[i], values[i])

LEMMA ListedFacts ==
  ASSUME NEW ms, NEW names, NEW values, Listed(ms, names, values),
         NEW t, NEW w, Laid(t, ms, w)
  PROVE /\ Len(ms) \in Nat /\ Len(ms) > 0 /\ t \in Text /\ Len(t) \in Nat
        /\ t[Len(t)] = RightBrace
        /\ w[1] = 1
        /\ w[Len(ms)] + Len(ms[Len(ms)]) + 1 = Len(t)
        /\ \A i \in 1 .. Len(ms) :
             /\ values[i] \in Text /\ Len(values[i]) \in Nat
             /\ Len(values[i]) > 0
             /\ ms[i] \in Text /\ Len(ms[i]) = 4 + Len(values[i])
             /\ ms[i][1] = Quote /\ ms[i][2] = names[i] /\ ms[i][3] = Quote
             /\ ms[i][4] = Colon /\ Occurs(values[i], ms[i], 4)
             /\ w[i] \in Nat /\ Occurs(ms[i], t, w[i])
        /\ \A i \in 1 .. Len(ms) - 1 : /\ w[i + 1] = w[i] + Len(ms[i]) + 1
                                       /\ t[w[i + 1]] = Comma
<1>1. /\ Len(ms) \in Nat /\ Len(ms) > 0 /\ t \in Text /\ Len(t) \in Nat
      /\ t[Len(t)] = RightBrace
      /\ w[1] = 1
      /\ w[Len(ms)] + Len(ms[Len(ms)]) + 1 = Len(t)
      /\ \A i \in 1 .. Len(ms) - 1 : /\ w[i + 1] = w[i] + Len(ms[i]) + 1
                                     /\ t[w[i + 1]] = Comma
  BY LenProperties, Symbols DEF Listed, Laid
<1>2. ASSUME NEW i \in 1 .. Len(ms)
      PROVE /\ values[i] \in Text /\ Len(values[i]) \in Nat
            /\ Len(values[i]) > 0
            /\ ms[i] \in Text /\ Len(ms[i]) = 4 + Len(values[i])
            /\ ms[i][1] = Quote /\ ms[i][2] = names[i] /\ ms[i][3] = Quote
            /\ ms[i][4] = Colon /\ Occurs(values[i], ms[i], 4)
            /\ w[i] \in Nat /\ Occurs(ms[i], t, w[i])
  <2>1. /\ names[i] \in Name /\ values[i] \in Text /\ Len(values[i]) > 0
        /\ ms[i] = Member(names[i], values[i])
    BY DEF Listed
  <2>2. w[i] \in Nat /\ Occurs(ms[i], t, w[i])
    BY DEF Laid
  <2> QED BY <2>1, <2>2, MemberText, Symbols, SMTT(30)
<1> QED BY <1>1, <1>2

\* Where no member before the one at k is called key, nothing is, up to it.
LEMMA NoneBefore ==
  ASSUME NEW ms, NEW names, NEW values, Listed(ms, names, values),
         NEW t, NEW w, Laid(t, ms, w), NEW key \in Sought,
         NEW k \in 1 .. Len(ms), \A i \in 1 .. k - 1 : Free(ms[i], key)
  PROVE \A j \in 2 .. w[k] : ~Named(t, key, j)
<1> DEFINE T == {i \in 0 .. k - 1 : \A j \in 2 .. w[i + 1] : ~Named(t, key, j)}
<1>1. /\ Len(ms) \in Nat /\ t \in Text /\ k \in Nat /\ k - 1 \in Nat
      /\ w[1] = 1
      /\ key # Quote /\ key # Comma
  BY ListedFacts DEF Sought, Name
<1>2. 0 \in T
  <2>1. 0 \in 0 .. k - 1 /\ w[0 + 1] = 1
    BY <1>1
  <2> QED BY <2>1
<1>3. ASSUME NEW i \in 0 .. (k - 1) - 1, i \in T PROVE i + 1 \in T
  <2>1. /\ i + 1 \in 1 .. k - 1 /\ i + 1 \in 0 .. k - 1
        /\ i + 1 \in 1 .. Len(ms) /\ i + 1 \in 1 .. Len(ms) - 1
    BY <1>1
  <2> DEFINE n == i + 1
             m == ms[n]
  <2>2. /\ m \in Text /\ Len(m) \in Nat /\ m[1] = Quote
        /\ w[n] \in Nat /\ Occurs(m, t, w[n])
        /\ w[n + 1] = w[n] + Len(m) + 1 /\ t[w[n + 1]] = Comma
    <3>1. /\ \A h \in 1 .. Len(ms) :
               /\ ms[h] \in Text /\ ms[h][1] = Quote
               /\ w[h] \in Nat /\ Occurs(ms[h], t, w[h])
          /\ \A h \in 1 .. Len(ms) - 1 : /\ w[h + 1] = w[h] + Len(ms[h]) + 1
                                         /\ t[w[h + 1]] = Comma
      BY ListedFacts
    <3> QED BY <2>1, <3>1, Symbols
  <2>3. Free(m, key)
    BY <2>1
  <2>4. \A j \in 2 .. w[n] : ~Named(t, key, j)
    BY <1>3
  <2> HIDE DEF n, m, T
  <2>5. \A j \in w[n] + 1 .. w[n] + Len(m) : ~Named(t, key, j)
    BY <1>1, <2>2, <2>3, NoneWithin
  <2>6. ~Named(t, key, w[n + 1])
    BY <1>1, <2>2 DEF Named
  <2>7. ASSUME NEW j \in 2 .. w[n + 1] PROVE ~Named(t, key, j)
    <3>1. \/ j \in 2 .. w[n]
          \/ j \in w[n] + 1 .. w[n] + Len(m)
          \/ j = w[n + 1]
      <4>1. \A a, b \in Nat : \A x \in 2 .. a + b + 1 :
              x \in 2 .. a \/ x \in a + 1 .. a + b \/ x = a + b + 1
        OBVIOUS
      <4>2. w[n] \in Nat /\ Len(m) \in Nat /\ w[n + 1] = w[n] + Len(m) + 1
        BY <2>2
      <4> QED BY <4>1, <4>2
    <3> QED BY <2>4, <2>5, <2>6, <3>1
  <2> QED BY <2>1, <2>7 DEF T, n
<1>4. T \in SUBSET (0 .. k - 1)
  OBVIOUS
<1>5. T = 0 .. k - 1
  <2> HIDE DEF T
  <2> QED BY <1>1, <1>2, <1>3, <1>4, UpTo
<1>6. k - 1 \in T /\ (k - 1) + 1 = k
  <2> HIDE DEF T
  <2> QED BY <1>1, <1>5
<1> QED BY <1>6

LEMMA FreeMembers ==
  ASSUME NEW ms, NEW names, NEW values, Listed(ms, names, values),
         NEW key \in Sought, \A i \in 1 .. Len(ms) : Free(ms[i], key)
  PROVE Free(Object(ms), key)
<1> DEFINE t == Object(ms)
           n == Len(ms)
<1>1. PICK w : Laid(t, ms, w)
  BY ObjectParts DEF Listed
<1> HIDE DEF t
<1>2. /\ n \in Nat /\ n \in 1 .. n /\ t \in Text /\ Len(t) \in Nat
      /\ t[Len(t)] = RightBrace /\ w[n] + Len(ms[n]) + 1 = Len(t)
      /\ ms[n] \in Text /\ ms[n][1] = Quote /\ Len(ms[n]) \in Nat
      /\ w[n] \in Nat /\ Occurs(ms[n], t, w[n])
      /\ key # Quote /\ key # RightBrace
  <2>1. n \in Nat /\ n \in 1 .. n
    BY <1>1, ListedFacts
  <2>2. key # Quote /\ key # RightBrace
    BY DEF Sought, Name
  <2> QED BY <1>1, <2>1, <2>2, ListedFacts, Symbols
<1>3. \A j \in 2 .. w[n] : ~Named(t, key, j)
  BY <1>1, <1>2, NoneBefore
<1>4. \A j \in w[n] + 1 .. w[n] + Len(ms[n]) : ~Named(t, key, j)
  <2>1. Free(ms[n], key)
    BY <1>2
  <2> HIDE DEF n
  <2> QED BY <1>2, <2>1, NoneWithin
<1> SUFFICES ASSUME NEW j \in 2 .. Len(t), t[j] = key, t[j - 1] = Quote,
                    j = Len(t) \/ t[j + 1] = Quote
             PROVE FALSE
  BY DEF Free, t
<1>5. j # Len(t)
  BY <1>2
<1>6. Named(t, key, j)
  BY <1>2, <1>5 DEF Named
<1>7. j \in 2 .. w[n] \/ j \in w[n] + 1 .. w[n] + Len(ms[n])
  <2> HIDE DEF n
  <2> QED BY <1>2, <1>5
<1> QED BY <1>3, <1>4, <1>6, <1>7

\* The head of a member, in the object.
LEMMA MemberHead ==
  ASSUME NEW ms, NEW names, NEW values, Listed(ms, names, values),
         NEW t, NEW w, Laid(t, ms, w), NEW k \in 1 .. Len(ms)
  PROVE /\ t[w[k] + 1] = Quote /\ t[w[k] + 2] = names[k]
        /\ t[w[k] + 3] = Quote /\ t[w[k] + 4] = Colon
        /\ Occurs(values[k], t, w[k] + 4)
        /\ w[k] \in Nat /\ w[k] + 4 + Len(values[k]) <= Len(t) - 1
        /\ w[k] >= 1
<1> DEFINE m == ms[k]
           v == values[k]
           h == w[k]
<1>1. /\ v \in Text /\ Len(v) \in Nat /\ Len(v) > 0
      /\ m \in Text /\ Len(m) = 4 + Len(v)
      /\ m[1] = Quote /\ m[2] = names[k] /\ m[3] = Quote
      /\ m[4] = Colon /\ Occurs(v, m, 4)
      /\ h \in Nat /\ Occurs(m, t, h) /\ t \in Text /\ Len(t) \in Nat
  BY ListedFacts
<1>2. h + Len(m) <= Len(t) - 1
  <2>1. /\ Len(ms) \in Nat /\ k \in Nat /\ k <= Len(ms)
        /\ w[Len(ms)] + Len(ms[Len(ms)]) + 1 = Len(t)
    BY ListedFacts
  <2>2. CASE k = Len(ms)
    BY <1>1, <2>1, <2>2
  <2>3. CASE k # Len(ms)
    <3>1. k \in 1 .. Len(ms) - 1 /\ k + 1 \in 1 .. Len(ms)
      BY <2>1, <2>3
    <3>2. /\ w[k + 1] = h + Len(m) + 1 /\ w[k + 1] \in Nat
          /\ Len(ms[k + 1]) \in Nat
          /\ w[k + 1] + Len(ms[k + 1]) <= Len(t)
      BY <3>1, ListedFacts, Symbols DEF Occurs
    <3>3. Len(ms[k + 1]) > 0
      <4>1. \A i \in 1 .. Len(ms) : /\ Len(ms[i]) = 4 + Len(values[i])
                                    /\ Len(values[i]) \in Nat
        BY ListedFacts
      <4>2. /\ Len(ms[k + 1]) = 4 + Len(values[k + 1])
            /\ Len(values[k + 1]) \in Nat
        BY <3>1, <4>1, Zenon
      <4> QED BY <4>2
    <3>4. \A a, b, c, d \in Nat : a + b + 1 + c <= d /\ c > 0 => a + b <= d - 1
      OBVIOUS
    <3> HIDE DEF h, m
    <3>5. h \in Nat /\ Len(m) \in Nat /\ Len(t) \in Nat
      BY <1>1, Symbols
    <3> QED BY <3>2, <3>3, <3>4, <3>5
  <2> QED BY <2>2, <2>3
<1>3. h >= 1
  <2>1. w[1] = 1 /\ Len(ms) \in Nat
    BY ListedFacts
  <2>2. CASE k = 1
    BY <2>1, <2>2
  <2>3. CASE k # 1
    <3>1. /\ k - 1 \in 1 .. Len(ms) - 1 /\ (k - 1) + 1 = k
          /\ k - 1 \in 1 .. Len(ms)
      BY <2>1, <2>3
    <3>2. w[k] = w[k - 1] + Len(ms[k - 1]) + 1 /\ w[k - 1] \in Nat
          /\ Len(ms[k - 1]) \in Nat
      BY <3>1, ListedFacts, Symbols
    <3> QED BY <3>2
  <2> QED BY <2>2, <2>3
<1> HIDE DEF m, v, h
<1>4. Occurs(v, t, h + 4)
  BY <1>1, OccursWithin
<1>5. t[h + 1] = m[1] /\ t[h + 2] = m[2] /\ t[h + 3] = m[3] /\ t[h + 4] = m[4]
  <2>1. 1 \in 1 .. Len(m) /\ 2 \in 1 .. Len(m) /\ 3 \in 1 .. Len(m)
        /\ 4 \in 1 .. Len(m)
    BY <1>1
  <2> QED BY <1>1, <2>1 DEF Occurs
<1>6. h + 4 + Len(v) <= Len(t) - 1
  BY <1>1, <1>2
<1> QED BY <1>1, <1>3, <1>4, <1>5, <1>6 DEF v, h

\* A member of an object, none called so before it.
LEMMA HoldsHere ==
  ASSUME NEW ms, NEW names, NEW values, Listed(ms, names, values),
         NEW key \in Sought, NEW k \in 1 .. Len(ms), names[k] = key,
         \A i \in 1 .. k - 1 : Free(ms[i], key)
  PROVE Holds(Object(ms), key, values[k])
<1> DEFINE t == Object(ms)
           v == values[k]
<1>1. PICK w : Laid(t, ms, w)
  BY ObjectParts DEF Listed
<1> HIDE DEF t
<1> DEFINE h == w[k]
<1>2. /\ t[h + 1] = Quote /\ t[h + 2] = key
      /\ t[h + 3] = Quote /\ t[h + 4] = Colon
      /\ Occurs(v, t, h + 4)
      /\ h \in Nat /\ h >= 1 /\ h + 4 + Len(v) <= Len(t) - 1
      /\ Len(t) \in Nat /\ Len(v) \in Nat
  BY <1>1, MemberHead, ListedFacts, SMTT(90)
<1>3. \A j \in 2 .. h : ~Named(t, key, j)
  BY <1>1, NoneBefore
<1> HIDE DEF h, v
<1>4. /\ (h + 4) - 2 = h + 2 /\ (h + 4) - 3 = h + 1
      /\ (h + 2) - 1 = h + 1 /\ (h + 2) + 1 = h + 3
      /\ h + 2 \in 2 .. Len(t) - 1 /\ h + 4 <= Len(t)
  BY <1>2
<1>5. Named(t, key, h + 2)
  BY <1>2, <1>4 DEF Named
<1>6. ~Named(t, key, h + 1)
  <2>1. key # Quote
    BY DEF Sought, Name
  <2> QED BY <1>2, <2>1 DEF Named
<1>7. ASSUME NEW j \in 2 .. h + 1 PROVE ~Named(t, key, j)
  <2>1. j \in 2 .. h \/ j = h + 1
    BY <1>2
  <2> QED BY <1>3, <1>6, <2>1
<1>8. HoldsAt(t, key, v, h + 4)
  BY <1>2, <1>4, <1>5, <1>7 DEF HoldsAt
<1> QED BY <1>8 DEF Holds, t, v

\* A member of an object in an object.
LEMMA HoldsWithin ==
  ASSUME NEW ms, NEW names, NEW values, Listed(ms, names, values),
         NEW key \in Sought, NEW k \in 1 .. Len(ms), names[k] # key,
         \A i \in 1 .. k - 1 : Free(ms[i], key),
         NEW u \in Text, Holds(values[k], key, u)
  PROVE Holds(Object(ms), key, u)
<1> DEFINE t == Object(ms)
           v == values[k]
<1>1. PICK w : Laid(t, ms, w)
  BY ObjectParts DEF Listed
<1> HIDE DEF t
<1> DEFINE h == w[k]
<1>2. /\ t[h + 1] = Quote /\ t[h + 2] = names[k]
      /\ t[h + 3] = Quote /\ t[h + 4] = Colon
      /\ Occurs(v, t, h + 4)
      /\ h \in Nat /\ h >= 1 /\ h + 4 + Len(v) <= Len(t) - 1
      /\ Len(t) \in Nat /\ Len(v) \in Nat /\ v \in Text /\ t \in Text
  <2>1. /\ t[h + 1] = Quote /\ t[h + 2] = names[k]
        /\ t[h + 3] = Quote /\ t[h + 4] = Colon
        /\ Occurs(v, t, h + 4)
        /\ h \in Nat /\ h >= 1 /\ h + 4 + Len(v) <= Len(t) - 1
    BY <1>1, MemberHead, SMTT(30)
  <2>2. Len(t) \in Nat /\ Len(v) \in Nat /\ v \in Text /\ t \in Text
    BY <1>1, ListedFacts
  <2> QED BY <2>1, <2>2
<1>3. \A j \in 2 .. h : ~Named(t, key, j)
  BY <1>1, NoneBefore
<1>4. PICK q : HoldsAt(v, key, u, q)
  BY DEF Holds
<1>5. /\ Occurs(u, v, q) /\ Named(v, key, q - 2) /\ v[q] = Colon
      /\ \A j \in 2 .. q - 3 :
           Named(v, key, j) => j = q - 6 /\ v[q - 4] = Comma
      /\ q \in Nat /\ q >= 4 /\ q <= Len(v)
  <2>1. /\ Occurs(u, v, q) /\ Named(v, key, q - 2) /\ v[q] = Colon
        /\ \A j \in 2 .. q - 3 :
             Named(v, key, j) => j = q - 6 /\ v[q - 4] = Comma
    BY <1>4 DEF HoldsAt
  <2>2. q \in Nat /\ q - 2 \in 2 .. Len(v) - 1
    BY <2>1 DEF Occurs, Named
  <2>3. q + Len(u) <= Len(v) /\ Len(u) \in Nat
    BY <2>1, Symbols DEF Occurs
  <2> QED BY <1>2, <2>1, <2>2, <2>3
<1> HIDE DEF h, v
<1> DEFINE o == h + 4
<1>6. /\ o \in Nat /\ (o + q) - 2 = o + (q - 2) /\ (o + q) - 3 = o + (q - 3)
      /\ o + Len(v) <= Len(t) - 1 /\ Occurs(v, t, o) /\ t[o] = Colon
      /\ o + q <= Len(t)
  <2>1. h \in Nat /\ q \in Nat /\ Len(v) \in Nat /\ Len(t) \in Nat
    BY <1>2, <1>5
  <2>2. h + 4 + Len(v) <= Len(t) - 1 /\ q <= Len(v)
    BY <1>2, <1>5
  <2>3. h + 4 + Len(v) <= Len(t) - 1 /\ h + 4 + q <= Len(t)
    BY <2>1, <2>2
  <2>4. (h + 4 + q) - 2 = h + 4 + (q - 2) /\ (h + 4 + q) - 3 = h + 4 + (q - 3)
    BY <2>1
  <2> QED BY <1>2, <2>1, <2>3, <2>4
<1>7. Occurs(u, t, o + q)
  <2> HIDE DEF o
  <2> QED BY <1>2, <1>5, <1>6, OccursWithin
<1>8. \A j \in 2 .. Len(v) - 1 : Named(t, key, o + j) <=> Named(v, key, j)
  <2> SUFFICES ASSUME NEW j \in 2 .. Len(v) - 1
               PROVE Named(t, key, o + j) <=> Named(v, key, j)
    OBVIOUS
  <2> HIDE DEF o
  <2>1. /\ j \in 1 .. Len(v) /\ j - 1 \in 1 .. Len(v) /\ j + 1 \in 1 .. Len(v)
        /\ o + j \in 2 .. Len(t) - 1
        /\ (o + j) - 1 = o + (j - 1) /\ (o + j) + 1 = o + (j + 1)
    <3>1. o \in Nat /\ Len(v) \in Nat /\ Len(t) \in Nat
          /\ o + Len(v) <= Len(t) - 1
      BY <1>2, <1>6
    <3> QED BY <3>1
  <2>2. /\ t[o + j] = v[j] /\ t[o + (j - 1)] = v[j - 1]
        /\ t[o + (j + 1)] = v[j + 1]
    BY <1>6, <2>1 DEF Occurs
  <2> QED BY <2>1, <2>2 DEF Named
<1>9. Named(t, key, o + (q - 2)) /\ t[o + q] = Colon
  <2> HIDE DEF o
  <2>1. q - 2 \in 2 .. Len(v) - 1 /\ q \in 1 .. Len(v)
    BY <1>2, <1>5 DEF Named
  <2> QED BY <1>5, <1>6, <1>8, <2>1 DEF Occurs
<1>10. /\ ~Named(t, key, h + 1) /\ ~Named(t, key, h + 2)
       /\ ~Named(t, key, h + 3) /\ ~Named(t, key, h + 4)
       /\ ~Named(t, key, h + 5)
  <2>1. key # Quote /\ key # Colon /\ Quote # Colon
    BY DEF Sought, Name, Quote, Colon
  <2>2. (h + 5) - 1 = h + 4
    BY <1>2
  <2> QED BY <1>2, <2>1, <2>2 DEF Named
<1>11. ASSUME NEW j \in 2 .. o + (q - 3), Named(t, key, j)
       PROVE j = (o + q) - 6 /\ t[(o + q) - 4] = Comma
  <2>1. \/ j \in 2 .. h
        \/ j = h + 1 \/ j = h + 2 \/ j = h + 3 \/ j = h + 4 \/ j = h + 5
        \/ j - o \in 2 .. q - 3
    <3>1. \A a, l \in Nat : \A x \in 2 .. a + 4 + (l - 3) :
            \/ x \in 2 .. a
            \/ x = a + 1 \/ x = a + 2 \/ x = a + 3 \/ x = a + 4 \/ x = a + 5
            \/ x - (a + 4) \in 2 .. l - 3
      OBVIOUS
    <3>2. h \in Nat /\ q \in Nat
      BY <1>2, <1>5
    <3> QED BY <3>1, <3>2
  <2>2. j - o \in 2 .. q - 3 /\ j - o \in 2 .. Len(v) - 1 /\ o + (j - o) = j
    <3>1. j - o \in 2 .. q - 3
      <4> HIDE DEF o
      <4> QED BY <1>3, <1>10, <1>11, <2>1
    <3>2. q \in Nat /\ q <= Len(v) /\ Len(v) \in Nat /\ o \in Nat
      BY <1>2, <1>5, <1>6
    <3> HIDE DEF o
    <3> QED BY <3>1, <3>2
  <2>3. j - o = q - 6 /\ v[q - 4] = Comma
    <3>1. Named(v, key, j - o)
      BY <1>8, <1>11, <2>2
    <3> QED BY <1>5, <2>2, <3>1
  <2>4. j = (o + q) - 6 /\ q - 4 \in 1 .. Len(v) /\ o + (q - 4) = (o + q) - 4
    <3> HIDE DEF o
    <3>1. j \in Nat /\ o \in Nat /\ q \in Nat /\ Len(v) \in Nat
      BY <1>2, <1>5, <1>6
    <3>2. j - o >= 2 /\ j - o = q - 6 /\ q <= Len(v)
      BY <1>5, <2>2, <2>3
    <3> QED BY <3>1, <3>2
  <2>5. t[o + (q - 4)] = v[q - 4]
    <3> HIDE DEF o
    <3> QED BY <1>6, <2>4 DEF Occurs
  <2> QED BY <2>3, <2>4, <2>5
<1>12. HoldsAt(t, key, u, o + q)
  <2> HIDE DEF o
  <2> QED BY <1>6, <1>7, <1>9, <1>11 DEF HoldsAt
<1> QED BY <1>12 DEF Holds, t

\* Nothing in v is called key, but what ends it.
Ending(v, key) ==
  /\ v[Len(v)] = Quote
  /\ \A j \in 2 .. Len(v) - 1 : Named(v, key, j) => j = Len(v) - 1

\* A member of an object, none called so before it, but for the end of the
\* string right before it.
LEMMA HoldsBeside ==
  ASSUME NEW ms, NEW names, NEW values, Listed(ms, names, values),
         NEW key \in Sought, NEW b \in 1 .. Len(ms) - 1,
         names[b] # key, names[b + 1] = key, Ending(values[b], key),
         \A i \in 1 .. b - 1 : Free(ms[i], key)
  PROVE Holds(Object(ms), key, values[b + 1])
<1> DEFINE t == Object(ms)
           v == values[b]
           u == values[b + 1]
<1>1. PICK w : Laid(t, ms, w)
  BY ObjectParts DEF Listed
<1> HIDE DEF t
<1> DEFINE h == w[b]
           g == w[b + 1]
<1>2. b \in 1 .. Len(ms) /\ b + 1 \in 1 .. Len(ms) /\ Len(ms) \in Nat
  BY <1>1, ListedFacts
<1>3. /\ t \in Text /\ Len(t) \in Nat
      /\ v \in Text /\ Len(v) \in Nat /\ Len(v) > 0
      /\ g = h + Len(v) + 5 /\ t[g] = Comma
  <2>1. /\ t \in Text /\ Len(t) \in Nat
        /\ g = h + Len(ms[b]) + 1 /\ t[g] = Comma
    <3>1. /\ t \in Text /\ Len(t) \in Nat
          /\ \A i \in 1 .. Len(ms) - 1 : /\ w[i + 1] = w[i] + Len(ms[i]) + 1
                                         /\ t[w[i + 1]] = Comma
      BY <1>1, Symbols DEF Laid
    <3> QED BY <3>1
  <2>2. \A i \in 1 .. Len(ms) :
          /\ values[i] \in Text /\ Len(values[i]) \in Nat
          /\ Len(values[i]) > 0
          /\ Len(ms[i]) = 4 + Len(values[i]) /\ w[i] \in Nat
    BY <1>1, ListedFacts
  <2>3. /\ v \in Text /\ Len(v) \in Nat /\ Len(v) > 0
        /\ Len(ms[b]) = 4 + Len(v) /\ h \in Nat
    BY <1>2, <2>2
  <2> HIDE DEF h, v, g
  <2> QED BY <2>1, <2>3
<1>40. \A i \in 1 .. Len(ms) :
            /\ t[w[i] + 1] = Quote /\ t[w[i] + 2] = names[i]
            /\ t[w[i] + 3] = Quote /\ t[w[i] + 4] = Colon
            /\ Occurs(values[i], t, w[i] + 4)
            /\ w[i] \in Nat /\ w[i] + 4 + Len(values[i]) <= Len(t) - 1
            /\ w[i] >= 1
  BY <1>1, MemberHead
<1>4. /\ t[h + 1] = Quote /\ t[h + 2] = names[b]
      /\ t[h + 3] = Quote /\ t[h + 4] = Colon
      /\ Occurs(v, t, h + 4) /\ h \in Nat /\ h >= 1
  BY <1>2, <1>40, Zenon
<1>5. /\ t[g + 1] = Quote /\ t[g + 2] = names[b + 1]
      /\ t[g + 3] = Quote /\ t[g + 4] = Colon
      /\ Occurs(u, t, g + 4) /\ g \in Nat
      /\ g + 4 + Len(u) <= Len(t) - 1
  BY <1>2, <1>40, Zenon
<1>6. Len(u) \in Nat
  <2>1. \A i \in 1 .. Len(ms) : Len(values[i]) \in Nat
    BY <1>1, ListedFacts
  <2> QED BY <1>2, <2>1
<1>7. \A j \in 2 .. h : ~Named(t, key, j)
  BY <1>1, <1>2, NoneBefore
<1>8. /\ v[Len(v)] = Quote /\ t[g + 2] = key
      /\ \A j \in 2 .. Len(v) - 1 : Named(v, key, j) => j = Len(v) - 1
  BY <1>5 DEF Ending
<1>9. key # Quote /\ key # Colon /\ key # Comma /\ Quote # Colon
  BY DEF Sought, Name, Quote, Colon
<1>10. names[b] # key
  OBVIOUS
<1> HIDE DEF h, g, v, u
<1> DEFINE o == h + 4
<1>11. /\ o \in Nat /\ g = o + Len(v) + 1 /\ o + Len(v) <= Len(t) - 2
       /\ h \in Nat /\ g \in Nat /\ Len(v) \in Nat /\ Len(v) > 0
       /\ g = h + Len(v) + 5
  BY <1>3, <1>4, <1>5, <1>6
<1>12. /\ ~Named(t, key, h + 1) /\ ~Named(t, key, h + 2)
       /\ ~Named(t, key, h + 3) /\ ~Named(t, key, h + 4)
       /\ ~Named(t, key, h + 5)
  <2>1. (h + 5) - 1 = h + 4
    BY <1>4
  <2> QED BY <1>4, <1>9, <1>10, <2>1 DEF Named
<1>13. ~Named(t, key, o + Len(v)) /\ ~Named(t, key, g) /\ ~Named(t, key, g + 1)
  <2>1. t[o + Len(v)] = Quote
    <3>1. Len(v) \in 1 .. Len(v)
      BY <1>3
    <3> QED BY <1>4, <1>8, <3>1 DEF Occurs
  <2> QED BY <1>3, <1>5, <1>9, <2>1 DEF Named
<1>14. ASSUME NEW j \in 2 .. Len(v) - 1, Named(t, key, o + j)
       PROVE j = Len(v) - 1
  <2>1. /\ j \in 1 .. Len(v) /\ j - 1 \in 1 .. Len(v) /\ j + 1 \in 1 .. Len(v)
        /\ (o + j) - 1 = o + (j - 1) /\ (o + j) + 1 = o + (j + 1)
    <3> HIDE DEF o
    <3> QED BY <1>3, <1>11
  <2>2. /\ t[o + j] = v[j] /\ t[o + (j - 1)] = v[j - 1]
        /\ t[o + (j + 1)] = v[j + 1]
    BY <1>4, <2>1 DEF Occurs
  <2>3. Named(v, key, j)
    BY <1>14, <2>1, <2>2 DEF Named
  <2> QED BY <1>8, <2>3
<1>15. ASSUME NEW j \in 2 .. (g + 4) - 3, Named(t, key, j)
       PROVE j = (g + 4) - 6 /\ t[(g + 4) - 4] = Comma
  <2>1. \/ j \in 2 .. h
        \/ j = h + 1 \/ j = h + 2 \/ j = h + 3 \/ j = h + 4 \/ j = h + 5
        \/ j - o \in 2 .. Len(v) - 1
        \/ j = o + Len(v) \/ j = g \/ j = g + 1
    <3>1. \A a, l \in Nat : a >= 1 /\ l > 0 =>
            \A x \in 2 .. a + l + 6 :
              \/ x \in 2 .. a
              \/ x = a + 1 \/ x = a + 2 \/ x = a + 3 \/ x = a + 4 \/ x = a + 5
              \/ x - (a + 4) \in 2 .. l - 1
              \/ x = (a + 4) + l \/ x = a + l + 5 \/ x = a + l + 6
      OBVIOUS
    <3>2. (g + 4) - 3 = h + Len(v) + 6 /\ g + 1 = h + Len(v) + 6
      BY <1>11
    <3>3. h >= 1
      BY <1>4
    <3> QED BY <1>11, <3>1, <3>2, <3>3
  <2>2. j - o \in 2 .. Len(v) - 1
    BY <1>7, <1>12, <1>13, <1>15, <2>1
  <2>3. o + (j - o) = j
    BY <1>11
  <2>4. j - o = Len(v) - 1
    BY <1>14, <1>15, <2>2, <2>3
  <2>5. j = (g + 4) - 6 /\ (g + 4) - 4 = g
    <3>1. j \in Nat
      BY <1>11
    <3> QED BY <1>11, <2>4, <3>1
  <2> QED BY <1>3, <2>5
<1>16. HoldsAt(t, key, u, g + 4)
  <2>1. (g + 4) - 2 = g + 2 /\ (g + 2) - 1 = g + 1 /\ (g + 2) + 1 = g + 3
        /\ g + 2 \in 2 .. Len(t) - 1 /\ g + 4 <= Len(t)
    <3>1. /\ g \in Nat /\ Len(t) \in Nat /\ Len(u) \in Nat
          /\ g + 4 + Len(u) <= Len(t) - 1
      BY <1>3, <1>5, <1>6
    <3> QED BY <3>1
  <2>2. Named(t, key, g + 2)
    BY <1>5, <1>8, <2>1 DEF Named
  <2> HIDE DEF o
  <2> QED BY <1>5, <1>15, <2>1, <2>2 DEF HoldsAt
<1> QED BY <1>16 DEF Holds, t, u

\* What can stand as the value of a member.
Piece == {v \in Text : Len(v) > 0}

\* A member does not get in the way of a search for key, ...
Clear(name, v, key) == name # key /\ Free(v, key)

\* ... or is what is searched for, or holds it.
Finds(o, key, name, v) ==
  /\ key = name => Holds(o, key, v)
  /\ key # name => \A u \in Text : Holds(v, key, u) => Holds(o, key, u)

\* A member found although the string right before it may end in its name.
Beside(o, key, before, v, name, u) ==
  before # key /\ name = key /\ Ending(v, key) => Holds(o, key, u)

LEMMA Search ==
  ASSUME NEW ms, NEW names, NEW values, Listed(ms, names, values),
         NEW key \in Sought
  PROVE /\ Object(ms) \in Piece
        /\ \A k \in 1 .. Len(ms) :
             (\A i \in 1 .. k - 1 : Clear(names[i], values[i], key))
               => Finds(Object(ms), key, names[k], values[k])
        /\ \A b \in 1 .. Len(ms) - 1 :
             (\A i \in 1 .. b - 1 : Clear(names[i], values[i], key))
               => Beside(Object(ms), key, names[b], values[b],
                         names[b + 1], values[b + 1])
        /\ (\A i \in 1 .. Len(ms) : Clear(names[i], values[i], key))
             => Free(Object(ms), key)
<1>1. Object(ms) \in Piece
  <2>1. PICK w : Laid(Object(ms), ms, w)
    BY ObjectParts DEF Listed
  <2> QED BY <2>1 DEF Laid, Piece
<1>2. ASSUME NEW i \in 1 .. Len(ms), Clear(names[i], values[i], key)
      PROVE Free(ms[i], key)
  <2>1. /\ names[i] \in Name /\ values[i] \in Text /\ Len(values[i]) > 0
        /\ ms[i] = Member(names[i], values[i])
    BY DEF Listed
  <2>2. names[i] # key /\ Free(values[i], key)
    BY <1>2 DEF Clear
  <2> QED BY <2>1, <2>2, FreeMember
<1>3. ASSUME NEW k \in 1 .. Len(ms),
             \A i \in 1 .. k - 1 : Clear(names[i], values[i], key)
      PROVE Finds(Object(ms), key, names[k], values[k])
  <2>1. \A i \in 1 .. k - 1 : i \in 1 .. Len(ms)
    BY LenProperties DEF Listed
  <2>2. \A i \in 1 .. k - 1 : Free(ms[i], key)
    BY <1>2, <1>3, <2>1
  <2>3. CASE key = names[k]
    <3>1. Holds(Object(ms), key, values[k])
      BY <2>2, <2>3, HoldsHere
    <3> QED BY <2>3, <3>1 DEF Finds
  <2>4. CASE key # names[k]
    <3>1. \A u \in Text : Holds(values[k], key, u) => Holds(Object(ms), key, u)
      BY <2>2, <2>4, HoldsWithin
    <3> QED BY <2>4, <3>1 DEF Finds
  <2> QED BY <2>3, <2>4
<1>5. ASSUME NEW b \in 1 .. Len(ms) - 1,
             \A i \in 1 .. b - 1 : Clear(names[i], values[i], key),
             names[b] # key, names[b + 1] = key, Ending(values[b], key)
      PROVE Holds(Object(ms), key, values[b + 1])
  <2>1. \A i \in 1 .. b - 1 : i \in 1 .. Len(ms)
    BY LenProperties DEF Listed
  <2>2. \A i \in 1 .. b - 1 : Free(ms[i], key)
    BY <1>2, <1>5, <2>1
  <2> QED BY <1>5, <2>2, HoldsBeside
<1>4. ASSUME \A i \in 1 .. Len(ms) : Clear(names[i], values[i], key)
      PROVE Free(Object(ms), key)
  <2>1. \A i \in 1 .. Len(ms) : Free(ms[i], key)
    BY <1>2, <1>4
  <2> QED BY <2>1, FreeMembers
<1>6. \A b \in 1 .. Len(ms) - 1 :
        (\A i \in 1 .. b - 1 : Clear(names[i], values[i], key))
          => Beside(Object(ms), key, names[b], values[b],
                    names[b + 1], values[b + 1])
  BY <1>5 DEF Beside
<1> QED BY <1>1, <1>3, <1>4, <1>6

LEMMA PieceMember ==
  ASSUME NEW name \in Name, NEW v \in Piece
  PROVE Member(name, v) \in Text
BY MemberText DEF Piece

LEMMA Search2 ==
  ASSUME NEW n1 \in Name, NEW n2 \in Name,
         NEW v1 \in Piece, NEW v2 \in Piece,
         NEW key \in Sought
  PROVE LET o == Object(<<Member(n1, v1), Member(n2, v2)>>)
        IN  /\ o \in Piece
            /\ Finds(o, key, n1, v1)
            /\ Clear(n1, v1, key) => Finds(o, key, n2, v2)
            /\ Clear(n1, v1, key) /\ Clear(n2, v2, key) => Free(o, key)
            /\ Beside(o, key, n1, v1, n2, v2)
<1> DEFINE m1 == Member(n1, v1)
           m2 == Member(n2, v2)
           ms == <<m1, m2>>
           names == <<n1, n2>>
           values == <<v1, v2>>
<1>1. m1 \in Text /\ m2 \in Text
  BY PieceMember
<1>2. /\ ms \in Seq(Text) /\ Len(ms) = 2
      /\ ms[1] = m1 /\ names[1] = n1 /\ values[1] = v1
      /\ ms[2] = m2 /\ names[2] = n2 /\ values[2] = v2
  <2> HIDE DEF m1, m2
  <2> QED BY <1>1
<1>3. /\ m1 = Member(n1, v1)
      /\ m2 = Member(n2, v2)
  OBVIOUS
<1>4. Object(ms) = Object(<<Member(n1, v1), Member(n2, v2)>>)
  OBVIOUS
<1> HIDE DEF ms, names, values, m1, m2
<1>5. \A i \in 1 .. Len(ms) : i = 1 \/ i = 2
  BY <1>2
<1>6. Listed(ms, names, values)
  <2>1. \A i \in 1 .. Len(ms) : /\ names[i] \in Name /\ values[i] \in Piece
                                /\ ms[i] = Member(names[i], values[i])
    BY <1>2, <1>3, <1>5
  <2>2. Len(ms) > 0
    BY <1>2
  <2> QED BY <1>2, <2>1, <2>2 DEF Listed, Piece
<1> DEFINE o == Object(ms)
           OK(i) == Clear(names[i], values[i], key)
<1>7. /\ o \in Piece
      /\ \A k \in 1 .. Len(ms) : (\A i \in 1 .. k - 1 : OK(i))
           => Finds(o, key, names[k], values[k])
      /\ \A b \in 1 .. Len(ms) - 1 : (\A i \in 1 .. b - 1 : OK(i))
           => Beside(o, key, names[b], values[b], names[b + 1], values[b + 1])
      /\ (\A i \in 1 .. Len(ms) : OK(i)) => Free(o, key)
  BY <1>6, Search
<1> HIDE DEF o, OK
<1>8. 1 \in 1 .. Len(ms) /\ 2 \in 1 .. Len(ms)
      /\ 1 \in 1 .. Len(ms) - 1 /\ 1 + 1 = 2
  BY <1>2
<1>9. /\ \A i \in 1 .. 1 - 1 : OK(i)
      /\ OK(1) => \A i \in 1 .. 2 - 1 : OK(i)
      /\ OK(1) /\ OK(2) => \A i \in 1 .. Len(ms) : OK(i)
  BY <1>5
<1>10. /\ Finds(o, key, names[1], values[1])
       /\ OK(1) => Finds(o, key, names[2], values[2])
       /\ OK(1) /\ OK(2) => Free(o, key)
  BY <1>7, <1>8, <1>9
<1>11. /\ Beside(o, key, names[1], values[1], names[2], values[2])
  BY <1>7, <1>8, <1>9
<1>12. /\ OK(1) <=> Clear(n1, v1, key)
       /\ OK(2) <=> Clear(n2, v2, key)
  BY <1>2 DEF OK
<1> QED BY <1>2, <1>4, <1>7, <1>10, <1>11, <1>12 DEF o

LEMMA Search3 ==
  ASSUME NEW n1 \in Name, NEW n2 \in Name, NEW n3 \in Name,
         NEW v1 \in Piece, NEW v2 \in Piece, NEW v3 \in Piece,
         NEW key \in Sought
  PROVE LET o == Object(<<Member(n1, v1), Member(n2, v2),
                             Member(n3, v3)>>)
        IN  /\ o \in Piece
            /\ Finds(o, key, n1, v1)
            /\ Clear(n1, v1, key) => Finds(o, key, n2, v2)
            /\ Clear(n1, v1, key) /\ Clear(n2, v2, key)
                 => Finds(o, key, n3, v3)
            /\ Clear(n1, v1, key) /\ Clear(n2, v2, key)
                 /\ Clear(n3, v3, key)
                 => Free(o, key)
            /\ Beside(o, key, n1, v1, n2, v2)
            /\ Clear(n1, v1, key) => Beside(o, key, n2, v2, n3, v3)
<1> DEFINE m1 == Member(n1, v1)
           m2 == Member(n2, v2)
           m3 == Member(n3, v3)
           ms == <<m1, m2, m3>>
           names == <<n1, n2, n3>>
           values == <<v1, v2, v3>>
<1>1. m1 \in Text /\ m2 \in Text /\ m3 \in Text
  BY PieceMember
<1>2. /\ ms \in Seq(Text) /\ Len(ms) = 3
      /\ ms[1] = m1 /\ names[1] = n1 /\ values[1] = v1
      /\ ms[2] = m2 /\ names[2] = n2 /\ values[2] = v2
      /\ ms[3] = m3 /\ names[3] = n3 /\ values[3] = v3
  <2> HIDE DEF m1, m2, m3
  <2> QED BY <1>1
<1>3. /\ m1 = Member(n1, v1)
      /\ m2 = Member(n2, v2)
      /\ m3 = Member(n3, v3)
  OBVIOUS
<1>4. Object(ms) = Object(<<Member(n1, v1), Member(n2, v2),
                             Member(n3, v3)>>)
  OBVIOUS
<1> HIDE DEF ms, names, values, m1, m2, m3
<1>5. \A i \in 1 .. Len(ms) : i = 1 \/ i = 2 \/ i = 3
  BY <1>2
<1>6. Listed(ms, names, values)
  <2>1. \A i \in 1 .. Len(ms) : /\ names[i] \in Name /\ values[i] \in Piece
                                /\ ms[i] = Member(names[i], values[i])
    BY <1>2, <1>3, <1>5
  <2>2. Len(ms) > 0
    BY <1>2
  <2> QED BY <1>2, <2>1, <2>2 DEF Listed, Piece
<1> DEFINE o == Object(ms)
           OK(i) == Clear(names[i], values[i], key)
<1>7. /\ o \in Piece
      /\ \A k \in 1 .. Len(ms) : (\A i \in 1 .. k - 1 : OK(i))
           => Finds(o, key, names[k], values[k])
      /\ \A b \in 1 .. Len(ms) - 1 : (\A i \in 1 .. b - 1 : OK(i))
           => Beside(o, key, names[b], values[b], names[b + 1], values[b + 1])
      /\ (\A i \in 1 .. Len(ms) : OK(i)) => Free(o, key)
  BY <1>6, Search
<1> HIDE DEF o, OK
<1>8. 1 \in 1 .. Len(ms) /\ 2 \in 1 .. Len(ms) /\ 3 \in 1 .. Len(ms)
      /\ 1 \in 1 .. Len(ms) - 1 /\ 1 + 1 = 2
      /\ 2 \in 1 .. Len(ms) - 1 /\ 2 + 1 = 3
  BY <1>2
<1>9. /\ \A i \in 1 .. 1 - 1 : OK(i)
      /\ OK(1) => \A i \in 1 .. 2 - 1 : OK(i)
      /\ OK(1) /\ OK(2) => \A i \in 1 .. 3 - 1 : OK(i)
      /\ OK(1) /\ OK(2) /\ OK(3) => \A i \in 1 .. Len(ms) : OK(i)
  BY <1>5
<1>10. /\ Finds(o, key, names[1], values[1])
       /\ OK(1) => Finds(o, key, names[2], values[2])
       /\ OK(1) /\ OK(2) => Finds(o, key, names[3], values[3])
       /\ OK(1) /\ OK(2) /\ OK(3) => Free(o, key)
  BY <1>7, <1>8, <1>9
<1>11. /\ Beside(o, key, names[1], values[1], names[2], values[2])
       /\ OK(1) => Beside(o, key, names[2], values[2], names[3], values[3])
  BY <1>7, <1>8, <1>9
<1>12. /\ OK(1) <=> Clear(n1, v1, key)
       /\ OK(2) <=> Clear(n2, v2, key)
       /\ OK(3) <=> Clear(n3, v3, key)
  BY <1>2 DEF OK
<1> QED BY <1>2, <1>4, <1>7, <1>10, <1>11, <1>12 DEF o

LEMMA Search4 ==
  ASSUME NEW n1 \in Name, NEW n2 \in Name, NEW n3 \in Name,
         NEW n4 \in Name,
         NEW v1 \in Piece, NEW v2 \in Piece, NEW v3 \in Piece,
         NEW v4 \in Piece,
         NEW key \in Sought
  PROVE LET o == Object(<<Member(n1, v1), Member(n2, v2),
                             Member(n3, v3), Member(n4, v4)>>)
        IN  /\ o \in Piece
            /\ Finds(o, key, n1, v1)
            /\ Clear(n1, v1, key) => Finds(o, key, n2, v2)
            /\ Clear(n1, v1, key) /\ Clear(n2, v2, key)
                 => Finds(o, key, n3, v3)
            /\ Clear(n1, v1, key) /\ Clear(n2, v2, key)
                 /\ Clear(n3, v3, key)
                 => Finds(o, key, n4, v4)
            /\ Clear(n1, v1, key) /\ Clear(n2, v2, key)
                 /\ Clear(n3, v3, key) /\ Clear(n4, v4, key)
                 => Free(o, key)
            /\ Beside(o, key, n1, v1, n2, v2)
            /\ Clear(n1, v1, key) => Beside(o, key, n2, v2, n3, v3)
            /\ Clear(n1, v1, key) /\ Clear(n2, v2, key)
                 => Beside(o, key, n3, v3, n4, v4)
<1> DEFINE m1 == Member(n1, v1)
           m2 == Member(n2, v2)
           m3 == Member(n3, v3)
           m4 == Member(n4, v4)
           ms == <<m1, m2, m3, m4>>
           names == <<n1, n2, n3, n4>>
           values == <<v1, v2, v3, v4>>
<1>1. m1 \in Text /\ m2 \in Text /\ m3 \in Text /\ m4 \in Text
  BY PieceMember
<1>2. /\ ms \in Seq(Text) /\ Len(ms) = 4
      /\ ms[1] = m1 /\ names[1] = n1 /\ values[1] = v1
      /\ ms[2] = m2 /\ names[2] = n2 /\ values[2] = v2
      /\ ms[3] = m3 /\ names[3] = n3 /\ values[3] = v3
      /\ ms[4] = m4 /\ names[4] = n4 /\ values[4] = v4
  <2> HIDE DEF m1, m2, m3, m4
  <2> QED BY <1>1
<1>3. /\ m1 = Member(n1, v1)
      /\ m2 = Member(n2, v2)
      /\ m3 = Member(n3, v3)
      /\ m4 = Member(n4, v4)
  OBVIOUS
<1>4. Object(ms) = Object(<<Member(n1, v1), Member(n2, v2),
                             Member(n3, v3), Member(n4, v4)>>)
  OBVIOUS
<1> HIDE DEF ms, names, values, m1, m2, m3, m4
<1>5. \A i \in 1 .. Len(ms) : i = 1 \/ i = 2 \/ i = 3 \/ i = 4
  BY <1>2
<1>6. Listed(ms, names, values)
  <2>1. \A i \in 1 .. Len(ms) : /\ names[i] \in Name /\ values[i] \in Piece
                                /\ ms[i] = Member(names[i], values[i])
    BY <1>2, <1>3, <1>5
  <2>2. Len(ms) > 0
    BY <1>2
  <2> QED BY <1>2, <2>1, <2>2 DEF Listed, Piece
<1> DEFINE o == Object(ms)
           OK(i) == Clear(names[i], values[i], key)
<1>7. /\ o \in Piece
      /\ \A k \in 1 .. Len(ms) : (\A i \in 1 .. k - 1 : OK(i))
           => Finds(o, key, names[k], values[k])
      /\ \A b \in 1 .. Len(ms) - 1 : (\A i \in 1 .. b - 1 : OK(i))
           => Beside(o, key, names[b], values[b], names[b + 1], values[b + 1])
      /\ (\A i \in 1 .. Len(ms) : OK(i)) => Free(o, key)
  BY <1>6, Search
<1> HIDE DEF o, OK
<1>8. 1 \in 1 .. Len(ms) /\ 2 \in 1 .. Len(ms) /\ 3 \in 1 .. Len(ms)
      /\ 4 \in 1 .. Len(ms)
      /\ 1 \in 1 .. Len(ms) - 1 /\ 1 + 1 = 2
      /\ 2 \in 1 .. Len(ms) - 1 /\ 2 + 1 = 3
      /\ 3 \in 1 .. Len(ms) - 1 /\ 3 + 1 = 4
  BY <1>2
<1>9. /\ \A i \in 1 .. 1 - 1 : OK(i)
      /\ OK(1) => \A i \in 1 .. 2 - 1 : OK(i)
      /\ OK(1) /\ OK(2) => \A i \in 1 .. 3 - 1 : OK(i)
      /\ OK(1) /\ OK(2) /\ OK(3) => \A i \in 1 .. 4 - 1 : OK(i)
      /\ OK(1) /\ OK(2) /\ OK(3) /\ OK(4) => \A i \in 1 .. Len(ms) : OK(i)
  BY <1>5
<1>10. /\ Finds(o, key, names[1], values[1])
       /\ OK(1) => Finds(o, key, names[2], values[2])
       /\ OK(1) /\ OK(2) => Finds(o, key, names[3], values[3])
       /\ OK(1) /\ OK(2) /\ OK(3) => Finds(o, key, names[4], values[4])
       /\ OK(1) /\ OK(2) /\ OK(3) /\ OK(4) => Free(o, key)
  BY <1>7, <1>8, <1>9
<1>11. /\ Beside(o, key, names[1], values[1], names[2], values[2])
       /\ OK(1) => Beside(o, key, names[2], values[2], names[3], values[3])
       /\ OK(1) /\ OK(2) =>
            Beside(o, key, names[3], values[3], names[4], values[4])
  BY <1>7, <1>8, <1>9
<1>12. /\ OK(1) <=> Clear(n1, v1, key)
       /\ OK(2) <=> Clear(n2, v2, key)
       /\ OK(3) <=> Clear(n3, v3, key)
       /\ OK(4) <=> Clear(n4, v4, key)
  BY <1>2 DEF OK
<1> QED BY <1>2, <1>4, <1>7, <1>10, <1>11, <1>12 DEF o

(***************************************************************************)
(* What the core hears of a string                                         *)
(***************************************************************************)

\* gateway_protocol.cpp and device_identity.cpp know these escapes.
StrEscape == [n |-> "newline", r |-> "return", t |-> "tab"]
FieldEscape == [n |-> "newline"]

\* A reader to whom an escaped quote is a quote.
Knows(known) ==
  /\ Table(known)
  /\ Meant(Quote, known) = Quote
  /\ Meant(Backslash, known) = Backslash

\* Of an escape it does not know, a reader hears the letter.
Echo(c, known) == IF c \in Control THEN Meant(ControlEscape[c], known) ELSE c
Heard(s, known) == [i \in 1 .. Len(s) |-> Echo(s[i], known)]

Letters == {"n", "r", "t", "u0001"}

LEMMA Escapes ==
  /\ Knows(StrEscape) /\ Knows(FieldEscape) /\ Knows(JsonEscape)
  /\ \A c \in Symbol : c \notin {"return", "tab", "ctl"} =>
       Echo(c, StrEscape) = c /\ Echo(c, FieldEscape) = c
  /\ \A c \in Control \ {"newline"} : Echo(c, FieldEscape) \in Letters
  /\ \A c \in Control : ControlEscape[c] \in Letters
  /\ Letters \subseteq Symbol /\ Letters \cap Control = {}
  /\ Backslash \notin Letters /\ Quote \notin Letters
<1> DEFINE S == StrEscape
           F == FieldEscape
<1>1. /\ Meant("n", S) = "newline" /\ Meant("r", S) = "return"
      /\ Meant("t", S) = "tab" /\ Meant("u0001", S) = "u0001"
      /\ Meant(Quote, S) = Quote /\ Meant(Backslash, S) = Backslash
      /\ \A c : c \notin {"n", "r", "t"} => Meant(c, S) = c
  BY DEF Meant, StrEscape, Quote, Backslash
<1>2. /\ Meant("n", F) = "newline" /\ Meant("r", F) = "r"
      /\ Meant("t", F) = "t" /\ Meant("u0001", F) = "u0001"
      /\ Meant(Quote, F) = Quote /\ Meant(Backslash, F) = Backslash
      /\ \A c : c # "n" => Meant(c, F) = c
  BY DEF Meant, FieldEscape, Quote, Backslash
<1>3. Control = {"newline", "return", "tab", "ctl"}
  BY DEF Control, ControlEscape
<1>4. /\ ControlEscape["newline"] = "n" /\ ControlEscape["return"] = "r"
      /\ ControlEscape["tab"] = "t" /\ ControlEscape["ctl"] = "u0001"
  BY DEF ControlEscape
<1> HIDE DEF S, F
<1>5. Table(S) /\ Table(F)
  BY <1>1, <1>2, <1>3, Controls DEF Table
<1>6. Knows(S) /\ Knows(F)
  BY <1>1, <1>2, <1>5 DEF Knows
<1>7. Knows(JsonEscape)
  <2>1. <<>> \in Text
    BY DEF Text
  <2> QED BY <2>1, Tables DEF Knows, Undone
<1>8. \A c : c \notin {"return", "tab", "ctl"} =>
        Echo(c, S) = c /\ Echo(c, F) = c
  BY <1>1, <1>2, <1>3, <1>4 DEF Echo
<1>9. \A c \in Control \ {"newline"} : Echo(c, F) \in Letters
  BY <1>2, <1>3, <1>4 DEF Echo, Letters
<1>10. \A c \in Control : ControlEscape[c] \in Letters
  BY <1>3, <1>4 DEF Letters
<1>11. /\ Letters \subseteq Symbol /\ Letters \cap Control = {}
       /\ Backslash \notin Letters /\ Quote \notin Letters
  BY <1>3 DEF Letters, Symbol, Backslash, Quote
<1> QED BY <1>6, <1>7, <1>8, <1>9, <1>10, <1>11 DEF S, F

LEMMA HeardText ==
  ASSUME NEW s \in Text, NEW known, Knows(known)
  PROVE /\ Heard(s, known) \in Text
        /\ Len(Heard(s, known)) = Len(s)
        /\ \A i \in 1 .. Len(s) : Heard(s, known)[i] = Echo(s[i], known)
        /\ (\A c \in ToSet(s) : Echo(c, known) = c) => Heard(s, known) = s
<1>1. /\ Len(s) \in Nat
      /\ \A i \in 1 .. Len(s) : s[i] \in Symbol /\ s[i] \in ToSet(s)
  BY Symbols DEF ToSet
<1>2. \A c \in Symbol : Echo(c, known) \in Symbol
  BY Controls DEF Echo, Knows, Table
<1> DEFINE h == Heard(s, known)
<1>3. h \in Text /\ Len(h) = Len(s)
  <2>1. \A i \in 1 .. Len(s) : Echo(s[i], known) \in Symbol
    BY <1>1, <1>2
  <2> QED BY <1>1, <2>1, IsASeq DEF Heard, Text
<1>4. \A i \in 1 .. Len(s) : h[i] = Echo(s[i], known)
  BY DEF Heard
<1> HIDE DEF h
<1>5. ASSUME \A c \in ToSet(s) : Echo(c, known) = c PROVE h = s
  <2>1. \A i \in 1 .. Len(h) : h[i] = s[i]
    BY <1>1, <1>3, <1>4, <1>5
  <2> QED BY <1>3, <2>1, SeqEqual DEF Text
<1> QED BY <1>3, <1>4, <1>5 DEF h

\* A plain string is heard as it is by both files.
LEMMA HeardPlain ==
  ASSUME NEW s \in Text, Plain(s)
  PROVE Heard(s, StrEscape) = s /\ Heard(s, FieldEscape) = s
<1>1. \A c \in ToSet(s) : c \in Symbol /\ c \notin {"return", "tab", "ctl"}
  BY Symbols DEF Plain, ToSet
<1>2. \A c \in ToSet(s) : Echo(c, StrEscape) = c /\ Echo(c, FieldEscape) = c
  BY <1>1, Escapes
<1> QED BY <1>2, Escapes, HeardText

LEMMA JsonStringIs ==
  ASSUME NEW s
  PROVE JsonString(s) = Quoted(Escape(s))
BY DEF JsonString, Escape

\* What an escaper writes is spelled for every reader, who hears the echo.
LEMMA EscapeHeard ==
  ASSUME NEW s \in Text
  PROVE /\ ToSet(Escape(s)) \subseteq ToSet(s) \cup {Backslash} \cup Letters
        /\ \A known : Knows(known) => Codes(Escape(s), Heard(s, known), known)
<1> DEFINE Spell(c) == IF c \in Control THEN <<Backslash, ControlEscape[c]>>
                       ELSE IF c \in {Quote, Backslash} THEN <<Backslash, c>>
                       ELSE <<c>>
           ts == [i \in DOMAIN s |-> Spell(s[i])]
<1>1. Len(s) \in Nat /\ DOMAIN s = 1 .. Len(s)
      /\ \A i \in 1 .. Len(s) : s[i] \in Symbol /\ s[i] \in ToSet(s)
  BY Symbols DEF ToSet
<1>2. ASSUME NEW c \in Symbol
      PROVE /\ Spell(c) \in Text
            /\ ToSet(Spell(c)) \subseteq {c, Backslash} \cup Letters
  <2>1. \A x, y \in Symbol : /\ <<x>> \in Text /\ <<x, y>> \in Text
                             /\ ToSet(<<x>>) = {x} /\ ToSet(<<x, y>>) = {x, y}
    BY Few DEF Text
  <2>2. CASE c \in Control
    <3>1. ControlEscape[c] \in Symbol /\ ControlEscape[c] \in Letters
          /\ Backslash \in Symbol
      BY <2>2, Controls, Escapes
    <3>2. Spell(c) = <<Backslash, ControlEscape[c]>>
      BY <2>2
    <3> HIDE DEF Spell
    <3>3. ToSet(Spell(c)) = {Backslash, ControlEscape[c]} /\ Spell(c) \in Text
      BY <2>1, <3>1, <3>2, Zenon
    <3> QED BY <3>1, <3>3
  <2>3. CASE c \notin Control
    <3>1. Backslash \in Symbol
      BY Controls
    <3> QED BY <2>1, <2>3, <3>1
  <2> QED BY <2>2, <2>3
<1>3. ts \in Seq(Text) /\ Len(ts) = Len(s)
      /\ \A i \in 1 .. Len(s) : ts[i] = Spell(s[i])
  <2>1. \A i \in 1 .. Len(s) : Spell(s[i]) \in Text
    BY <1>1, <1>2
  <2> HIDE DEF Spell
  <2>2. Len(ts) = Len(s) /\ ts \in Seq(Text)
    BY <1>1, <2>1, IsASeq
  <2> QED BY <1>1, <2>2
<1>4. Escape(s) = FlattenSeq(ts)
  BY DEF Escape
<1> HIDE DEF ts
<1>5. ASSUME NEW c \in ToSet(Escape(s))
      PROVE c \in ToSet(s) \cup {Backslash} \cup Letters
  <2>1. PICK i \in 1 .. Len(ts) : c \in ToSet(ts[i])
    BY <1>3, <1>4, FlatParts
  <2>2. s[i] \in Symbol /\ s[i] \in ToSet(s) /\ ts[i] = Spell(s[i])
    BY <1>1, <1>3, <2>1
  <2> HIDE DEF Spell
  <2> QED BY <1>2, <2>1, <2>2
<1>6. ASSUME NEW known, Knows(known)
      PROVE Codes(Escape(s), Heard(s, known), known)
  <2> DEFINE h == Heard(s, known)
  <2>1. h \in Text /\ Len(h) = Len(s)
        /\ \A i \in 1 .. Len(s) : h[i] = Echo(s[i], known)
    BY <1>6, HeardText
  <2> HIDE DEF h
  <2>2. ASSUME NEW i \in 1 .. Len(s)
        PROVE \/ ts[i] = <<h[i]>> /\ h[i] \notin {Quote, Backslash}
              \/ \E x \in Symbol : ts[i] = <<Backslash, x>>
                                   /\ Meant(x, known) = h[i]
    <3>1. ts[i] = Spell(s[i]) /\ s[i] \in Symbol /\ h[i] = Echo(s[i], known)
      BY <1>1, <1>3, <2>1
    <3>2. CASE s[i] \in Control
      <4>1. ControlEscape[s[i]] \in Symbol
        BY <3>2, Controls
      <4> QED BY <3>1, <3>2, <4>1 DEF Echo
    <3>3. CASE s[i] \notin Control /\ s[i] \in {Quote, Backslash}
      BY <1>6, <3>1, <3>3 DEF Knows, Echo
    <3>4. CASE s[i] \notin Control /\ s[i] \notin {Quote, Backslash}
      BY <3>1, <3>4 DEF Echo
    <3> QED BY <3>2, <3>3, <3>4
  <2> HIDE DEF Spell
  <2>3. Codes(FlattenSeq(ts), h, known)
    BY <1>3, <2>1, <2>2, PiecesCode
  <2> QED BY <1>4, <2>3 DEF h
<1> QED BY <1>5, <1>6

\* esc() writes a text of any text, with nothing in it but its symbols, what
\* it escapes with, and "n".
LEMMA EscText ==
  ASSUME NEW s \in Text
  PROVE /\ Esc(s) \in Text
        /\ ToSet(Esc(s)) \subseteq ToSet(s) \cup {Backslash} \cup Letters
<1> DEFINE Spell(c) ==
             CASE c \in {Quote, Backslash} -> <<Backslash, c>>
               [] c = "newline" -> <<Backslash, "n">>
               [] c = "return" -> <<>>
               [] OTHER -> <<c>>
           ts == [i \in DOMAIN s |-> Spell(s[i])]
<1>1. Len(s) \in Nat /\ DOMAIN s = 1 .. Len(s)
      /\ \A i \in 1 .. Len(s) : s[i] \in Symbol /\ s[i] \in ToSet(s)
  BY Symbols DEF ToSet
<1>2. ASSUME NEW c \in Symbol
      PROVE /\ c \in {Quote, Backslash} => Spell(c) = <<Backslash, c>>
            /\ c = "newline" => Spell(c) = <<Backslash, "n">>
            /\ c = "return" => Spell(c) = <<>>
            /\ c \notin {Quote, Backslash, "newline", "return"}
                 => Spell(c) = <<c>>
  BY DEF Quote, Backslash
<1> HIDE DEF Spell
<1>3. ASSUME NEW c \in Symbol
      PROVE /\ Spell(c) \in Text
            /\ ToSet(Spell(c)) \subseteq {c, Backslash} \cup Letters
  <2>1. \A x, y \in Symbol : /\ <<x>> \in Text /\ <<x, y>> \in Text
                             /\ <<>> \in Text
                             /\ ToSet(<<x>>) = {x} /\ ToSet(<<x, y>>) = {x, y}
    BY Few DEF Text
  <2>2. Backslash \in Symbol /\ "n" \in Symbol /\ "n" \in Letters
    BY Controls, Escapes DEF Letters
  <2>3. CASE c \in {Quote, Backslash}
    <3>1. Spell(c) = <<Backslash, c>>
      BY <1>2, <2>3, Zenon
    <3>2. Spell(c) \in Text /\ ToSet(Spell(c)) = {Backslash, c}
      BY <2>1, <2>2, <3>1, ZenonT(30)
    <3> QED BY <3>2
  <2>4. CASE c = "newline"
    <3>1. Spell(c) = <<Backslash, "n">>
      BY <1>2, <2>4, Zenon
    <3>2. Spell(c) \in Text /\ ToSet(Spell(c)) = {Backslash, "n"}
      BY <2>1, <2>2, <3>1, ZenonT(30)
    <3> QED BY <2>2, <3>2
  <2>5. CASE c = "return"
    <3>1. Spell(c) = <<>>
      BY <1>2, <2>5, Zenon
    <3>2. Spell(c) \in Text
      BY <2>1, <2>2, <3>1, Zenon
    <3>3. ToSet(Spell(c)) = {}
      BY <3>1 DEF ToSet
    <3> QED BY <3>2, <3>3
  <2>6. CASE c \notin {Quote, Backslash, "newline", "return"}
    <3>1. Spell(c) = <<c>>
      BY <1>2, <2>6, Zenon
    <3>2. Spell(c) \in Text /\ ToSet(Spell(c)) = {c}
      BY <2>1, <2>2, <3>1, Zenon
    <3> QED BY <3>2
  <2> QED BY <2>3, <2>4, <2>5, <2>6
<1>4. ts \in Seq(Text) /\ Len(ts) = Len(s)
      /\ \A i \in 1 .. Len(s) : ts[i] = Spell(s[i])
  <2>1. \A i \in 1 .. Len(s) : Spell(s[i]) \in Text
    BY <1>1, <1>3
  <2>2. Len(ts) = Len(s) /\ ts \in Seq(Text)
    BY <1>1, <2>1, IsASeq
  <2> QED BY <1>1, <2>2
<1>5. Esc(s) = FlattenSeq(ts)
  BY DEF Esc, Spell
<1> HIDE DEF ts
<1>6. ASSUME NEW c \in ToSet(Esc(s))
      PROVE c \in ToSet(s) \cup {Backslash} \cup Letters
  <2>1. PICK i \in 1 .. Len(ts) : c \in ToSet(ts[i])
    BY <1>4, <1>5, FlatParts
  <2>2. s[i] \in Symbol /\ s[i] \in ToSet(s) /\ ts[i] = Spell(s[i])
    BY <1>1, <1>4, <2>1
  <2> QED BY <1>3, <2>1, <2>2
<1>7. Esc(s) \in Text
  BY <1>4, <1>5, FlatParts
<1> QED BY <1>6, <1>7

\* What the core has heard of a member of a hello, it can write and read
\* again.
LEMMA HeardAgain ==
  ASSUME NEW s \in Text
  PROVE LET h == Heard(s, FieldEscape)
        IN  /\ h \in Text
            /\ ToSet(h) \subseteq ToSet(s) \cup Letters
            /\ Codes(Esc(h), h, FieldEscape)
            /\ ToSet(Esc(h)) \subseteq ToSet(s) \cup {Backslash} \cup Letters
<1> DEFINE h == Heard(s, FieldEscape)
<1>1. Knows(FieldEscape)
  BY Escapes
<1>2. /\ h \in Text /\ Len(h) = Len(s)
      /\ \A i \in 1 .. Len(s) : h[i] = Echo(s[i], FieldEscape)
  BY <1>1, HeardText
<1> HIDE DEF h
<1>3. ASSUME NEW c \in ToSet(h)
      PROVE /\ c \in ToSet(s) \cup Letters
            /\ c \notin Control \/ c = "newline"
  <2>1. /\ Len(s) \in Nat
        /\ \A i \in 1 .. Len(s) : s[i] \in Symbol /\ s[i] \in ToSet(s)
    BY Symbols DEF ToSet
  <2>2. PICK i \in 1 .. Len(s) : c = h[i]
    BY <1>2, Symbols DEF ToSet
  <2>3. c = Echo(s[i], FieldEscape) /\ s[i] \in ToSet(s) /\ s[i] \in Symbol
    BY <1>2, <2>1, <2>2
  <2>4. CASE s[i] \notin Control
    BY <2>3, <2>4 DEF Echo
  <2>5. CASE s[i] = "newline"
    <3>1. s[i] \notin {"return", "tab", "ctl"}
      BY <2>5
    <3> QED BY <2>3, <2>5, <3>1, Escapes
  <2>6. CASE s[i] \in Control \ {"newline"}
    <3>1. c \in Letters
      BY <2>3, <2>6, Escapes
    <3> QED BY <3>1, Escapes
  <2> QED BY <2>4, <2>5, <2>6
<1>4. "return" \notin ToSet(h)
  <2>1. "return" \in Control /\ "return" # "newline"
    BY DEF Control, ControlEscape
  <2> QED BY <1>3, <2>1
<1>5. Undone(h, FieldEscape)
  <2>1. Meant(ControlEscape["newline"], FieldEscape) = "newline"
    BY Controls DEF Meant, FieldEscape
  <2>2. ASSUME NEW c \in Control \cap ToSet(h)
        PROVE Meant(ControlEscape[c], FieldEscape) = c
    BY <1>3, <2>1, <2>2
  <2> QED BY <1>1, <2>2 DEF Undone, Knows
<1>6. Codes(Esc(h), h, FieldEscape)
  BY <1>2, <1>4, <1>5, EscCodes
<1>7. ToSet(Esc(h)) \subseteq ToSet(h) \cup {Backslash} \cup Letters
  BY <1>2, EscText
<1> QED BY <1>2, <1>3, <1>6, <1>7 DEF h

(***************************************************************************)
(* Whatever is found, texts are made of symbols                            *)
(***************************************************************************)

LEMMA FindType ==
  ASSUME NEW t \in Text, NEW c, NEW i \in Nat
  PROVE Find(t, c, i) \in Nat /\ Find(t, c, i) <= Len(t)
<1> DEFINE hits == {j \in i .. Len(t) : t[j] = c}
<1>1. Len(t) \in Nat
  BY Symbols
<1>2. Find(t, c, i) = IF i = 0 THEN 0 ELSE IF hits = {} THEN 0 ELSE Min(hits)
  BY DEF Find, SelectInSubSeq
<1>3. ASSUME hits # {} PROVE Min(hits) \in hits
  <2>1. hits \in SUBSET Nat
    BY <1>1
  <2> HIDE DEF hits
  <2>2. PICK m \in hits : \A k \in hits : m <= k
    BY <1>3, <2>1, Least
  <2>3. Min(hits) = m
    BY <2>1, <2>2, MinIs
  <2> QED BY <2>2, <2>3
<1> QED BY <1>1, <1>2, <1>3

LEMMA KeyAtType ==
  ASSUME NEW t \in Text, NEW key
  PROVE KeyAt(t, key) \in Nat
<1> DEFINE hits == {i \in 2 .. Len(t) - 1 :
                      t[i] = key /\ t[i - 1] = Quote /\ t[i + 1] = Quote}
<1>1. Len(t) \in Nat
  BY Symbols
<1>2. KeyAt(t, key) = IF hits = {} THEN 0 ELSE Min(hits) - 1
  BY DEF KeyAt
<1>3. ASSUME hits # {} PROVE Min(hits) \in Nat /\ Min(hits) >= 2
  <2>1. hits \in SUBSET Nat /\ \A x \in hits : x >= 2
    BY <1>1
  <2> HIDE DEF hits
  <2>2. PICK m \in hits : \A k \in hits : m <= k
    BY <1>3, <2>1, Least
  <2>3. Min(hits) = m
    BY <2>1, <2>2, MinIs
  <2> QED BY <2>1, <2>2, <2>3
<1> QED BY <1>2, <1>3

\* Part of a text.
LEMMA PartText ==
  ASSUME NEW t \in Text, NEW i \in Nat, i >= 1, NEW j \in Int, j <= Len(t)
  PROVE SubSeq(t, i, j) \in Text
<1>1. Len(t) \in Nat /\ \A k \in 1 .. Len(t) : t[k] \in Symbol
  BY Symbols
<1>2. CASE j < i
  BY <1>1, <1>2 DEF Text
<1>3. CASE i <= j
  BY <1>1, <1>3 DEF Text
<1> QED BY <1>1, <1>2, <1>3

LEMMA FieldText ==
  ASSUME NEW t \in Text, NEW key
  PROVE Field(t, key) \in Text
<1> DEFINE quote == Find(t, Quote, ValueAt(t, key))
           rest == SubSeq(t, quote + 1, Len(t))
<1>1. ValueAt(t, key) \in Nat
  <2>1. Find(t, ":", KeyAt(t, key)) \in Nat
    BY KeyAtType, FindType
  <2> QED BY <2>1 DEF ValueAt
<1>2. quote \in Nat /\ Len(t) \in Nat
  BY <1>1, FindType, Symbols
<1>3. Field(t, key) = IF quote = 0 THEN <<>> ELSE Spelled(rest, FieldEscape)
  BY DEF Field, SpelledAt, FieldEscape
<1> HIDE DEF quote
<1>4. rest \in Text
  BY <1>2, PartText
<1> HIDE DEF rest
<1>5. Table(FieldEscape)
  BY Escapes DEF Knows
<1>6. PICK r : Reads(r, rest, FieldEscape)
  BY <1>4, <1>5, SpelledReads
<1>7. Spelled(rest, FieldEscape) \in Text
  <2>1. Len(rest) \in Nat
    BY <1>4, Symbols
  <2>2. r[Len(rest)] \in Got
    BY <1>6, <2>1 DEF Reads
  <2>3. r[Len(rest)].out \in Text
    BY <2>2 DEF Got
  <2> QED BY <1>6, <2>3 DEF Reads
<1> QED BY <1>3, <1>7 DEF Text

(***************************************************************************)
(* Lists of strings                                                        *)
(***************************************************************************)

\* What Pieces() has come to, and one more symbol.
Cuts == [found : Seq(Text), piece : Text, mode : {"open", "quoted"}]
CutOff(was, c) ==
  IF c # Quote THEN [was EXCEPT !.piece = Append(@, c)]
  ELSE IF was.mode = "open"
  THEN [found |-> was.found, piece |-> <<>>, mode |-> "quoted"]
  ELSE [found |-> Append(was.found, was.piece), piece |-> <<>>,
        mode |-> "open"]

Uncut == [found |-> <<>>, piece |-> <<>>, mode |-> "open"]

CutRuns(r, s) ==
  /\ r \in [0 .. Len(s) -> Cuts]
  /\ r[0] = Uncut
  /\ \A i \in 1 .. Len(s) : r[i] = CutOff(r[i - 1], s[i])
  /\ Pieces(s) = r[Len(s)].found

LEMMA CutType ==
  ASSUME NEW g \in Cuts, NEW c \in Symbol
  PROVE CutOff(g, c) \in Cuts
<1>1. /\ g.found \in Seq(Text) /\ g.piece \in Text
      /\ g.mode \in {"open", "quoted"}
      /\ g = [found |-> g.found, piece |-> g.piece, mode |-> g.mode]
  BY DEF Cuts
<1>2. Append(g.piece, c) \in Text
  BY <1>1, AppendProperties DEF Text
<1>3. Append(g.found, g.piece) \in Seq(Text)
  BY <1>1, AppendProperties
<1>4. <<>> \in Text
  BY DEF Text
<1>5. CASE c # Quote
  <2>1. CutOff(g, c) = [found |-> g.found, piece |-> Append(g.piece, c),
                        mode |-> g.mode]
    BY <1>1, <1>5 DEF CutOff
  <2> QED BY <1>1, <1>2, <2>1 DEF Cuts
<1>6. CASE c = Quote /\ g.mode = "open"
  BY <1>1, <1>4, <1>6 DEF CutOff, Cuts
<1>7. CASE c = Quote /\ g.mode # "open"
  BY <1>1, <1>3, <1>4, <1>7 DEF CutOff, Cuts
<1> QED BY <1>5, <1>6, <1>7

LEMMA PiecesRun ==
  ASSUME NEW t \in Text
  PROVE \E r : CutRuns(r, t)
<1> DEFINE n == Len(t)
           step == [x \in Cuts \X Symbol |-> CutOff(x[1], x[2])]
           Def(g) == [i \in 0 .. n |-> IF i = 0 THEN Uncut
                                      ELSE CutOff(g[i - 1], t[i])]
           was == CHOOSE g : g = Def(g)
<1>1. n \in Nat /\ \A i \in 1 .. n : t[i] \in Symbol
  BY Symbols
<1>2. Uncut \in Cuts
  <2>1. <<>> \in Text /\ <<>> \in Seq(Text)
    BY DEF Text
  <2> QED BY <2>1 DEF Uncut, Cuts
<1>3. step \in [Cuts \X Symbol -> Cuts]
  BY CutType
<1>4. Pieces(t) = was[n].found
  BY DEF Pieces, Loop, CutOff, Uncut
<1>5. PICK f : Runs(f, Cuts, step, Uncut, t)
  <2> HIDE DEF step
  <2> QED BY <1>2, <1>3, LoopFunction, Zenon DEF Text
<1> HIDE DEF n
<1>6. f \in [0 .. n -> Cuts] /\ f[0] = Uncut
  BY <1>5 DEF Runs, n
<1>7. ASSUME NEW i \in 1 .. n PROVE f[i] = CutOff(f[i - 1], t[i])
  <2>1. f[i - 1] \in Cuts /\ t[i] \in Symbol
    BY <1>1, <1>6
  <2>2. f[i] = step[<<f[i - 1], t[i]>>]
    BY <1>5 DEF Runs, n
  <2> QED BY <2>1, <2>2
<1>8. f = Def(f)
  <2>1. ASSUME NEW i \in 0 .. n
        PROVE f[i] = IF i = 0 THEN Uncut ELSE CutOff(f[i - 1], t[i])
    <3>1. i # 0 => i \in 1 .. n
      BY <1>1
    <3> QED BY <1>6, <1>7, <3>1
  <2> QED BY <1>6, <2>1
<1>9. was = Def(was)
  BY <1>8
<1> HIDE DEF was
<1>10. was[0] = Uncut
  BY <1>1, <1>9
<1>11. \A i \in 1 .. n : was[i] = CutOff(was[i - 1], t[i])
  BY <1>1, <1>9
<1> DEFINE T == {k \in 0 .. n : was[k] \in Cuts}
<1>12. 0 \in T
  BY <1>1, <1>2, <1>10
<1>13. ASSUME NEW k \in 0 .. n - 1, k \in T PROVE k + 1 \in T
  <2>1. k + 1 \in 1 .. n /\ (k + 1) - 1 = k /\ k + 1 \in 0 .. n
    BY <1>1
  <2>2. was[k + 1] = CutOff(was[k], t[k + 1])
    BY <1>11, <2>1
  <2> QED BY <1>1, <1>13, <2>1, <2>2, CutType
<1>14. T = 0 .. n
  <2>1. T \in SUBSET (0 .. n)
    OBVIOUS
  <2> HIDE DEF T
  <2> QED BY <1>1, <1>12, <1>13, <2>1, UpTo
<1>15. was \in [0 .. n -> Cuts]
  BY <1>9, <1>14
<1> QED BY <1>4, <1>10, <1>11, <1>15 DEF CutRuns, n

\* A string in quotes, with none in it, is one piece.
LEMMA CutString ==
  ASSUME NEW e \in Text, Quote \notin ToSet(e), NEW t \in Text, NEW k,
         Occurs(Quoted(e), t, k), NEW r, CutRuns(r, t),
         r[k].mode = "open"
  PROVE /\ k + Len(e) + 2 \in 1 .. Len(t)
        /\ r[k + Len(e) + 2].mode = "open"
        /\ r[k + Len(e) + 2].found = Append(r[k].found, e)
<1> DEFINE n == Len(e)
           Now(i) == [found |-> r[k].found, piece |-> SubSeq(e, 1, i),
                      mode |-> "quoted"]
<1>1. n \in Nat /\ Len(t) \in Nat /\ k \in Nat /\ k + n + 2 <= Len(t)
      /\ \A i \in 1 .. n : e[i] # Quote
  <2>1. n \in Nat /\ Len(t) \in Nat /\ Len(Quoted(e)) = n + 2
    BY Symbols, QuotedText
  <2>2. k \in Nat /\ k + Len(Quoted(e)) <= Len(t)
    BY DEF Occurs
  <2>3. \A i \in 1 .. n : e[i] # Quote
    BY Symbols DEF ToSet
  <2> QED BY <2>1, <2>2, <2>3
<1>2. /\ t[k + 1] = Quote /\ t[k + n + 2] = Quote
      /\ \A i \in 1 .. n : t[k + 1 + i] = e[i]
  <2>1. /\ Len(Quoted(e)) = n + 2 /\ Quoted(e)[1] = Quote
        /\ Quoted(e)[n + 2] = Quote /\ Occurs(e, Quoted(e), 1)
        /\ Quoted(e) \in Text
    BY QuotedText
  <2>2. Occurs(e, t, k + 1)
    BY <2>1, OccursWithin
  <2>3. t[k + 1] = Quote
    <3>1. 1 \in 1 .. Len(Quoted(e))
      BY <1>1, <2>1
    <3> QED BY <2>1, <3>1 DEF Occurs
  <2>4. t[k + (n + 2)] = Quote
    <3>1. n + 2 \in 1 .. Len(Quoted(e))
      BY <1>1, <2>1
    <3> QED BY <2>1, <3>1 DEF Occurs
  <2>5. k + (n + 2) = k + n + 2
    BY <1>1
  <2> QED BY <2>2, <2>3, <2>4, <2>5 DEF Occurs
<1>3. \A i \in 1 .. Len(t) : r[i] = CutOff(r[i - 1], t[i])
  BY DEF CutRuns
<1>4. \A i \in 0 .. n : k + 1 + i \in 1 .. Len(t)
  BY <1>1
<1>5. r[k + 1] = Now(0)
  <2>1. k + 1 \in 1 .. Len(t) /\ (k + 1) - 1 = k
    BY <1>1
  <2>2. r[k + 1] = CutOff(r[k], Quote)
    BY <1>2, <1>3, <2>1
  <2>3. SubSeq(e, 1, 0) = <<>>
    BY FirstSymbols
  <2> QED BY <2>2, <2>3 DEF CutOff
<1> DEFINE T == {i \in 0 .. n : r[k + 1 + i] = Now(i)}
<1>6. 0 \in T
  <2>1. k + 1 + 0 = k + 1 /\ 0 \in 0 .. n
    BY <1>1
  <2> HIDE DEF Now
  <2> QED BY <1>5, <2>1
<1>7. ASSUME NEW i \in 0 .. n - 1, i \in T PROVE i + 1 \in T
  <2>1. /\ i + 1 \in 1 .. n /\ i + 1 \in 0 .. n
        /\ k + 1 + (i + 1) \in 1 .. Len(t)
        /\ (k + 1 + (i + 1)) - 1 = k + 1 + i
    BY <1>1
  <2>2. r[k + 1 + (i + 1)] = CutOff(r[k + 1 + i], e[i + 1])
    <3>1. t[k + 1 + (i + 1)] = e[i + 1]
      BY <1>2, <2>1
    <3> QED BY <1>3, <2>1, <3>1
  <2>3. r[k + 1 + i] = Now(i)
    BY <1>7
  <2>4. e[i + 1] # Quote
    BY <1>1, <2>1
  <2>5. SubSeq(e, 1, i + 1) = Append(SubSeq(e, 1, i), e[i + 1])
    BY FirstSymbols
  <2>6. CutOff(Now(i), e[i + 1]) = Now(i + 1)
    BY <2>4, <2>5 DEF CutOff
  <2> HIDE DEF Now
  <2> QED BY <2>1, <2>2, <2>3, <2>6
<1>8. T = 0 .. n
  <2>1. T \in SUBSET (0 .. n)
    OBVIOUS
  <2> HIDE DEF T
  <2> QED BY <1>1, <1>6, <1>7, <2>1, UpTo
<1>9. r[k + 1 + n] = Now(n)
  <2>1. n \in T
    <3> HIDE DEF T
    <3> QED BY <1>1, <1>8
  <2> QED BY <2>1
<1>10. r[k + n + 2] = CutOff(r[k + 1 + n], Quote)
  <2>1. k + n + 2 \in 1 .. Len(t) /\ (k + n + 2) - 1 = k + 1 + n
    BY <1>1
  <2> QED BY <1>2, <1>3, <2>1
<1>11. CutOff(Now(n), Quote)
         = [found |-> Append(r[k].found, e), piece |-> <<>>, mode |-> "open"]
  <2>1. SubSeq(e, 1, n) = e
    BY FirstSymbols
  <2> QED BY <2>1 DEF CutOff
<1>12. k + n + 2 \in 1 .. Len(t)
  BY <1>1
<1> HIDE DEF Now
<1> QED BY <1>9, <1>10, <1>11, <1>12

\* What FlattenSeq() makes of two parts.
LEMMA FlatTwo ==
  ASSUME NEW a \in Text, NEW b \in Text
  PROVE FlattenSeq(<<a, b>>) = a \o b
<1> DEFINE ts == <<a, b>>
<1>1. ts \in Seq(Text) /\ Len(ts) = 2 /\ ts[1] = a /\ ts[2] = b
  BY Few
<1> HIDE DEF ts
<1>2. PICK f \in [0 .. Len(ts) -> Text] :
        /\ f[0] = <<>>
        /\ \A i \in 1 .. Len(ts) : f[i] = f[i - 1] \o ts[i]
        /\ FlattenSeq(ts) = f[Len(ts)]
  BY <1>1, Flattens
<1>3. f[1] = f[0] \o ts[1] /\ f[2] = f[1] \o ts[2]
  <2>1. 1 \in 1 .. Len(ts) /\ 2 \in 1 .. Len(ts) /\ 1 - 1 = 0 /\ 2 - 1 = 1
    BY <1>1
  <2> QED BY <1>2, <2>1
<1>4. <<>> \o a = a
  BY DEF Text
<1> QED BY <1>1, <1>2, <1>3, <1>4 DEF ts

Between(a, b) == a \o (<<Comma>> \o b)

LEMMA ArrayOfTwo ==
  ASSUME NEW a \in Text, NEW b \in Text
  PROVE /\ Between(a, b) \in Text
        /\ Len(Between(a, b)) = Len(a) + Len(b) + 1
        /\ Occurs(a, Between(a, b), 0)
        /\ Between(a, b)[Len(a) + 1] = Comma
        /\ Occurs(b, Between(a, b), Len(a) + 1)
        /\ ToSet(Between(a, b)) = ToSet(a) \cup {Comma} \cup ToSet(b)
        /\ Array(<<a, b>>) = <<"[">> \o Between(a, b) \o <<"]">>
<1> DEFINE comma == <<Comma>>
           c == comma \o b
           both == a \o c
           vs == <<a, b>>
<1>1. comma \in Text /\ Len(comma) = 1 /\ comma[1] = Comma
      /\ ToSet(comma) = {Comma}
  <2>1. Comma \in Symbol
    BY DEF Symbol, Punctuation, Comma
  <2> QED BY <2>1, Few DEF Text
<1>2. Between(a, b) = both
  BY DEF Between
<1>3. Array(<<a, b>>) = <<"[">> \o both \o <<"]">>
  <2>1. [i \in DOMAIN vs |-> IF i = 1 THEN vs[i] ELSE comma \o vs[i]]
          = <<a, c>>
    <3>1. DOMAIN vs = {1, 2} /\ vs[1] = a /\ vs[2] = b
      OBVIOUS
    <3>2. DOMAIN <<a, c>> = {1, 2} /\ <<a, c>>[1] = a /\ <<a, c>>[2] = c
      OBVIOUS
    <3> HIDE DEF vs, c
    <3> DEFINE f == [i \in DOMAIN vs |->
                         IF i = 1 THEN vs[i] ELSE comma \o vs[i]]
    <3>3. f[1] = a /\ f[2] = c /\ DOMAIN f = {1, 2}
      BY <3>1 DEF c
    <3>4. f = [i \in {1, 2} |-> IF i = 1 THEN a ELSE c]
      BY <3>1 DEF c
    <3>5. <<a, c>> = [i \in {1, 2} |-> IF i = 1 THEN a ELSE c]
      OBVIOUS
    <3> QED BY <3>4, <3>5
  <2>2. Commas(<<a, b>>) = FlattenSeq(<<a, c>>)
    BY <2>1 DEF Commas, Comma
  <2>3. c \in Text
    BY <1>1, Joined
  <2> HIDE DEF c
  <2>4. FlattenSeq(<<a, c>>) = a \o c
    BY <2>3, FlatTwo
  <2> QED BY <2>2, <2>4 DEF Array
<1> HIDE DEF comma
<1>4. /\ c \in Text /\ Len(c) = 1 + Len(b) /\ Occurs(comma, c, 0)
      /\ Occurs(b, c, 1)
  BY <1>1, Joined
<1> HIDE DEF c
<1>5. /\ both \in Text /\ Len(both) = Len(a) + Len(c)
      /\ Occurs(a, both, 0) /\ Occurs(c, both, Len(a))
  BY <1>4, Joined
<1> HIDE DEF both
<1>6. Len(a) \in Nat /\ Len(b) \in Nat
  BY Symbols
<1>7. Occurs(b, both, Len(a) + 1) /\ Occurs(comma, both, Len(a))
  <2>1. Occurs(b, both, Len(a) + 1)
    BY <1>4, <1>5, OccursWithin
  <2>2. Occurs(comma, both, Len(a) + 0)
    BY <1>1, <1>4, <1>5, OccursWithin
  <2>3. Len(a) + 0 = Len(a)
    BY <1>6
  <2> QED BY <2>1, <2>2, <2>3
<1>8. both[Len(a) + 1] = Comma
  <2>1. 1 \in 1 .. Len(comma)
    BY <1>1
  <2> QED BY <1>1, <1>7, <2>1 DEF Occurs
<1>9. ToSet(both) = ToSet(a) \cup {Comma} \cup ToSet(b)
  <2>1. /\ DOMAIN a = 1 .. Len(a) /\ DOMAIN b = 1 .. Len(b)
        /\ DOMAIN both = 1 .. Len(a) + Len(b) + 1
    BY <1>4, <1>5, <1>6, Symbols
  <2>2. \A i \in 1 .. Len(a) : both[i] = a[i] /\ i \in DOMAIN both
    BY <1>5, <1>6, <2>1 DEF Occurs
  <2>3. \A i \in 1 .. Len(b) : /\ both[Len(a) + 1 + i] = b[i]
                               /\ Len(a) + 1 + i \in DOMAIN both
    BY <1>7, <1>6, <2>1 DEF Occurs
  <2>4. \A i \in DOMAIN both :
          \/ i \in 1 .. Len(a)
          \/ i = Len(a) + 1
          \/ \E j \in 1 .. Len(b) : i = Len(a) + 1 + j
    <3> SUFFICES ASSUME NEW i \in DOMAIN both, i \notin 1 .. Len(a),
                        i # Len(a) + 1
                 PROVE \E j \in 1 .. Len(b) : i = Len(a) + 1 + j
      OBVIOUS
    <3>1. i - Len(a) - 1 \in 1 .. Len(b) /\ i = Len(a) + 1 + (i - Len(a) - 1)
      <4>1. \A m, n \in Nat : \A x \in 1 .. m + n + 1 :
              x \notin 1 .. m /\ x # m + 1 =>
                x - m - 1 \in 1 .. n /\ x = m + 1 + (x - m - 1)
        OBVIOUS
      <4>2. i \in 1 .. Len(a) + Len(b) + 1
        BY <2>1
      <4> QED BY <1>6, <4>1, <4>2
    <3> QED BY <3>1
  <2>5. Len(a) + 1 \in DOMAIN both
    BY <1>6, <2>1
  <2>6. ASSUME NEW x \in ToSet(both)
        PROVE x \in ToSet(a) \cup {Comma} \cup ToSet(b)
    <3>1. PICK i \in DOMAIN both : x = both[i]
      BY <2>6 DEF ToSet
    <3>2. CASE i \in 1 .. Len(a)
      BY <2>1, <2>2, <3>1, <3>2 DEF ToSet
    <3>3. CASE i = Len(a) + 1
      BY <1>8, <3>1, <3>3
    <3>4. CASE \E j \in 1 .. Len(b) : i = Len(a) + 1 + j
      BY <2>1, <2>3, <3>1, <3>4 DEF ToSet
    <3> QED BY <2>4, <3>2, <3>3, <3>4
  <2>7. ToSet(a) \subseteq ToSet(both)
    BY <2>1, <2>2 DEF ToSet
  <2>8. ToSet(b) \subseteq ToSet(both)
    BY <2>1, <2>3 DEF ToSet
  <2>9. Comma \in ToSet(both)
    BY <1>8, <2>5 DEF ToSet
  <2> QED BY <2>6, <2>7, <2>8, <2>9
<1>10. Len(both) = Len(a) + Len(b) + 1
  BY <1>4, <1>5, <1>6
<1> QED BY <1>2, <1>3, <1>5, <1>7, <1>8, <1>9, <1>10, Zenon

LEMMA ArrayText ==
  ASSUME NEW vs \in Seq(Text)
  PROVE Array(vs) \in Text /\ Len(Array(vs)) > 0
<1> DEFINE comma == <<Comma>>
           open == <<"[">>
           close == <<"]">>
           ts == [i \in DOMAIN vs |-> IF i = 1 THEN vs[i] ELSE comma \o vs[i]]
           e == Commas(vs)
           a == open \o e
<1>1. comma \in Text /\ open \in Text /\ close \in Text /\ Len(close) = 1
  <2>1. Comma \in Symbol /\ "[" \in Symbol /\ "]" \in Symbol
    BY DEF Symbol, Punctuation, Comma
  <2> QED BY <2>1, Few DEF Text
<1>2. e = FlattenSeq(ts)
  BY DEF Commas, Comma
<1>3. Array(vs) = a \o close
  BY DEF Array
<1> HIDE DEF comma, open, close, e
<1>4. Len(vs) \in Nat /\ DOMAIN vs = 1 .. Len(vs)
      /\ \A i \in 1 .. Len(vs) : vs[i] \in Text
  BY LenProperties, ElementOfSeq
<1>5. ts \in Seq(Text)
  <2> DEFINE P(i) == IF i = 1 THEN vs[i] ELSE comma \o vs[i]
  <2>1. ASSUME NEW i \in 1 .. Len(vs) PROVE P(i) \in Text
    <3>1. vs[i] \in Text
      BY <1>4
    <3>2. comma \o vs[i] \in Text
      BY <1>1, <3>1, Joined, Zenon
    <3> QED BY <3>1, <3>2
  <2>2. ts = [i \in 1 .. Len(vs) |-> P(i)]
    BY <1>4
  <2> HIDE DEF P, ts
  <2> QED BY <1>4, <2>1, <2>2, IsASeq
<1> HIDE DEF ts
<1>6. e \in Text
  BY <1>2, <1>5, FlatParts
<1>7. a \in Text
  BY <1>1, <1>6, Joined
<1> HIDE DEF a
<1>8. a \o close \in Text /\ Len(a \o close) = Len(a) + Len(close)
  BY <1>1, <1>7, Joined
<1>9. Len(a) \in Nat
  BY <1>7, Symbols
<1> QED BY <1>1, <1>3, <1>8, <1>9

LEMMA ArrayFieldType ==
  ASSUME NEW t \in Text, NEW key
  PROVE ArrayField(t, key) \in Seq(Text)
<1> DEFINE open == Find(t, "[", KeyAt(t, key))
           close == Find(t, "]", open)
           cut == SubSeq(t, open + 1, close - 1)
<1>1. open \in Nat
  BY KeyAtType, FindType
<1>2. ArrayField(t, key) = IF close = 0 THEN <<>> ELSE Pieces(cut)
  BY DEF ArrayField
<1> HIDE DEF open
<1>3. close \in Nat /\ close <= Len(t) /\ Len(t) \in Nat
  BY <1>1, FindType, Symbols
<1> HIDE DEF close
<1>4. cut \in Text
  BY <1>1, <1>3, PartText
<1> HIDE DEF cut
<1>5. PICK r : CutRuns(r, cut)
  BY <1>4, PiecesRun
<1>6. Pieces(cut) \in Seq(Text)
  <2>1. Len(cut) \in Nat
    BY <1>4, Symbols
  <2>2. r[Len(cut)] \in Cuts
    BY <1>5, <2>1 DEF CutRuns
  <2>3. r[Len(cut)].found \in Seq(Text)
    BY <2>2 DEF Cuts
  <2> QED BY <1>5, <2>3 DEF CutRuns
<1> QED BY <1>2, <1>6

LEMMA PiecesOfTwo ==
  ASSUME NEW e \in Text, NEW g \in Text,
         Quote \notin ToSet(e), Quote \notin ToSet(g)
  PROVE Pieces(Between(Quoted(e), Quoted(g))) = <<e, g>>
<1> DEFINE a == Quoted(e)
           b == Quoted(g)
           t == Between(a, b)
<1>1. /\ a \in Text /\ Len(a) = Len(e) + 2 /\ Len(e) \in Nat
      /\ b \in Text /\ Len(b) = Len(g) + 2 /\ Len(g) \in Nat
  BY QuotedText
<1>2. /\ t \in Text /\ Len(t) = Len(a) + Len(b) + 1
      /\ Occurs(a, t, 0) /\ t[Len(a) + 1] = Comma
      /\ Occurs(b, t, Len(a) + 1)
  BY <1>1, ArrayOfTwo
<1> HIDE DEF t
<1>3. PICK r : CutRuns(r, t)
  BY <1>2, PiecesRun
<1>4. r[0] = Uncut /\ Pieces(t) = r[Len(t)].found
      /\ \A i \in 1 .. Len(t) : r[i] = CutOff(r[i - 1], t[i])
  BY <1>3 DEF CutRuns
<1>5. r[0].mode = "open" /\ r[0].found = <<>>
  BY <1>4 DEF Uncut
<1>6. /\ r[Len(a)].mode = "open"
      /\ r[Len(a)].found = Append(<<>>, e)
  <2>1. 0 + Len(e) + 2 = Len(a)
    BY <1>1
  <2>2. /\ r[0 + Len(e) + 2].mode = "open"
        /\ r[0 + Len(e) + 2].found = Append(r[0].found, e)
    BY <1>2, <1>3, <1>5, CutString, SMTT(30)
  <2> QED BY <1>5, <2>1, <2>2
<1>7. /\ r[Len(a) + 1].mode = "open"
      /\ r[Len(a) + 1].found = Append(<<>>, e)
  <2>1. Len(a) + 1 \in 1 .. Len(t) /\ (Len(a) + 1) - 1 = Len(a)
        /\ Len(a) \in 0 .. Len(t)
    BY <1>1, <1>2
  <2>2. r[Len(a) + 1] = CutOff(r[Len(a)], Comma)
    BY <1>2, <1>4, <2>1
  <2>3. r[Len(a)] \in Cuts
    BY <1>3, <2>1 DEF CutRuns
  <2>4. Comma # Quote
    BY DEF Comma, Quote
  <2>5. CutOff(r[Len(a)], Comma)
          = [r[Len(a)] EXCEPT !.piece = Append(@, Comma)]
    BY <2>4 DEF CutOff
  <2>6. /\ CutOff(r[Len(a)], Comma).mode = r[Len(a)].mode
        /\ CutOff(r[Len(a)], Comma).found = r[Len(a)].found
    BY <2>3, <2>5 DEF Cuts
  <2> QED BY <1>6, <2>2, <2>6
<1>8. r[Len(t)].found = Append(Append(<<>>, e), g)
  <2>1. Len(a) + 1 + Len(g) + 2 = Len(t)
    BY <1>1, <1>2
  <2>2. PICK k : k = Len(a) + 1
    OBVIOUS
  <2>3. Occurs(Quoted(g), t, k) /\ r[k].mode = "open"
    BY <1>2, <1>7, <2>2
  <2>4. r[k + Len(g) + 2].found = Append(r[k].found, g)
    BY <1>2, <1>3, <2>3, CutString, ZenonT(60)
  <2> QED BY <1>7, <2>1, <2>2, <2>4
<1>9. Append(Append(<<>>, e), g) = <<e, g>>
  <2>1. \A x : Append(<<>>, x) = <<x>>
    OBVIOUS
  <2>2. ASSUME NEW x, NEW y PROVE Append(<<x>>, y) = <<x, y>>
    <3> DEFINE s == <<x>>
               u == <<x, y>>
               w == Append(s, y)
               S == {x, y}
    <3>1. /\ s \in Seq(S) /\ Len(s) = 1 /\ s[1] = x
          /\ u \in Seq(S) /\ Len(u) = 2 /\ u[1] = x /\ u[2] = y
      OBVIOUS
    <3> HIDE DEF s, u
    <3>2. /\ w \in Seq(S) /\ Len(w) = Len(s) + 1 /\ w[1] = s[1]
          /\ w[Len(s) + 1] = y
      <4>1. y \in S /\ 1 \in 1 .. Len(s)
        BY <3>1
      <4> HIDE DEF S
      <4>2. /\ w \in Seq(S) /\ Len(w) = Len(s) + 1
            /\ \A i \in 1 .. Len(s) : w[i] = s[i]
            /\ w[Len(s) + 1] = y
        <5>1. \A q \in Seq(S), z \in S :
                /\ Append(q, z) \in Seq(S) /\ Len(Append(q, z)) = Len(q) + 1
                /\ \A i \in 1 .. Len(q) : Append(q, z)[i] = q[i]
                /\ Append(q, z)[Len(q) + 1] = z
          BY AppendProperties
        <5> QED BY <3>1, <4>1, <5>1, Zenon
      <4> QED BY <4>1, <4>2
    <3> HIDE DEF w, S
    <3>3. Len(w) = Len(u) /\ \A i \in 1 .. Len(w) : w[i] = u[i]
      BY <3>1, <3>2
    <3>4. w = u
      BY <3>1, <3>2, <3>3, SeqEqual
    <3> QED BY <3>4 DEF w, s, u
  <2> QED BY <2>1, <2>2, Zenon
<1> QED BY <1>4, <1>8, <1>9 DEF t

\* A list of two names, neither of which ends it.
Apart(e) == ToSet(e) \cap {Quote, "]"} = {}

LEMMA ArrayHeard ==
  ASSUME NEW t \in Text, NEW key \in Sought, key # "[",
         NEW e \in Text, NEW g \in Text, Apart(e), Apart(g),
         Holds(t, key, Array(<<Quoted(e), Quoted(g)>>))
  PROVE ArrayField(t, key) = <<e, g>>
<1> DEFINE a == Quoted(e)
           b == Quoted(g)
           c == Between(a, b)
           open == <<"[">>
           close == <<"]">>
           oc == open \o c
           v == Array(<<a, b>>)
<1>1. a \in Text /\ b \in Text
      /\ ToSet(a) = ToSet(e) \cup {Quote} /\ ToSet(b) = ToSet(g) \cup {Quote}
  BY QuotedText
<1>2. c \in Text /\ v = oc \o close
      /\ ToSet(c) = ToSet(a) \cup {Comma} \cup ToSet(b)
  BY <1>1, ArrayOfTwo
<1>3. "]" \notin ToSet(c)
  <2>1. "]" # Quote /\ "]" # Comma
    BY DEF Quote, Comma
  <2> QED BY <1>1, <1>2, <2>1 DEF Apart
<1>4. open \in Text /\ Len(open) = 1 /\ open[1] = "["
      /\ close \in Text /\ Len(close) = 1 /\ close[1] = "]"
  <2>1. "[" \in Symbol /\ "]" \in Symbol
    BY DEF Symbol, Punctuation
  <2> QED BY <2>1, Few DEF Text
<1> HIDE DEF open, close, c
<1>5. /\ oc \in Text /\ Len(oc) = 1 + Len(c) /\ Occurs(open, oc, 0)
      /\ Occurs(c, oc, 1)
  <2>1. /\ oc \in Text /\ Len(oc) = Len(open) + Len(c)
        /\ Occurs(open, oc, 0) /\ Occurs(c, oc, Len(open))
    BY <1>2, <1>4, Joined, Zenon
  <2> HIDE DEF oc
  <2> QED BY <1>4, <2>1
<1> HIDE DEF oc
<1>6. /\ v \in Text /\ Len(v) = Len(oc) + 1 /\ Occurs(oc, v, 0)
      /\ Occurs(close, v, Len(oc))
  <2> DEFINE w == oc \o close
  <2>1. /\ w \in Text /\ Len(w) = Len(oc) + Len(close)
        /\ Occurs(oc, w, 0) /\ Occurs(close, w, Len(oc))
    BY <1>4, <1>5, Joined, Zenon
  <2> HIDE DEF w, v
  <2>2. v = w
    BY <1>2 DEF w
  <2> QED BY <1>4, <2>1, <2>2
<1>7. PICK k : HoldsAt(t, key, v, k)
  BY DEF Holds
<1> HIDE DEF v, a, b
<1>8. Len(c) \in Nat /\ Len(t) \in Nat /\ k \in Nat /\ k - 2 >= 2
      /\ k + Len(c) + 2 <= Len(t)
  <2>1. Len(c) \in Nat /\ Len(t) \in Nat
    BY <1>2, Symbols
  <2>2. k \in Nat /\ k + Len(v) <= Len(t) /\ k - 2 \in 2 .. Len(t) - 1
    BY <1>7 DEF HoldsAt, Occurs, Named
  <2> QED BY <1>5, <1>6, <2>1, <2>2
<1>9. Occurs(oc, t, k) /\ Occurs(close, t, k + Len(oc))
  <2>1. Occurs(v, t, k)
    BY <1>7 DEF HoldsAt
  <2>2. Occurs(oc, t, k + 0)
    BY <1>5, <1>6, <2>1, OccursWithin
  <2>3. k + 0 = k
    BY <1>8
  <2>4. Occurs(close, t, k + Len(oc))
    BY <1>4, <1>6, <2>1, OccursWithin
  <2> QED BY <2>2, <2>3, <2>4
<1>10. Occurs(open, t, k) /\ Occurs(c, t, k + 1)
  <2>1. Occurs(open, t, k + 0)
    BY <1>4, <1>5, <1>9, OccursWithin
  <2>2. k + 0 = k
    BY <1>8
  <2>3. Occurs(c, t, k + 1)
    BY <1>2, <1>5, <1>9, OccursWithin
  <2> QED BY <2>1, <2>2, <2>3
<1>11. t[k + 1] = "[" /\ t[k + Len(c) + 2] = "]"
       /\ \A i \in 1 .. Len(c) : t[k + 1 + i] = c[i] /\ c[i] # "]"
  <2>1. 1 \in 1 .. Len(open) /\ 1 \in 1 .. Len(close)
        /\ k + Len(oc) + 1 = k + Len(c) + 2
    BY <1>4, <1>5, <1>8
  <2>2. t[k + 1] = "[" /\ t[k + Len(oc) + 1] = "]"
    BY <1>4, <1>9, <1>10, <2>1 DEF Occurs
  <2>3. \A i \in 1 .. Len(c) : t[k + 1 + i] = c[i]
    BY <1>10 DEF Occurs
  <2>4. \A i \in 1 .. Len(c) : c[i] # "]"
    BY <1>2, <1>3, Symbols DEF ToSet
  <2> QED BY <2>1, <2>2, <2>3, <2>4
<1>12. Find(t, "[", KeyAt(t, key)) = k + 1
  <2> DEFINE i == KeyAt(t, key)
  <2>1. i \in Nat \ {0} /\ i <= k - 3 /\ \A j \in i .. k - 1 : t[j] # "["
    <3>1. "[" # Quote /\ "[" # Comma
      BY DEF Quote, Comma
    <3> QED BY <1>7, <3>1, KeyNear
  <2> HIDE DEF i
  <2>2. t[k] # "["
    <3>1. Colon # "["
      BY DEF Colon
    <3> QED BY <1>7, <3>1 DEF HoldsAt
  <2>3. \A j \in i .. (k + 1) - 1 : t[j] # "["
    <3>1. \A j \in i .. (k + 1) - 1 : j = k \/ j \in i .. k - 1
      BY <1>8, <2>1
    <3> QED BY <2>1, <2>2, <3>1
  <2>4. k + 1 \in Nat /\ i <= k + 1 /\ k + 1 <= Len(t)
    BY <1>8, <2>1
  <2>5. Find(t, "[", i) = k + 1
    BY <1>11, <2>1, <2>3, <2>4, FindIs
  <2> QED BY <2>5 DEF i
<1>14. Find(t, "]", k + 1) = k + Len(c) + 2
  <2> DEFINE m == k + Len(c) + 2
  <2>1. t[k + 1] # "]"
    BY <1>11
  <2>2. ASSUME NEW j \in k + 1 .. m - 1 PROVE t[j] # "]"
    <3>1. CASE j = k + 1
      BY <2>1, <3>1
    <3>2. CASE j # k + 1
      <4>1. j - (k + 1) \in 1 .. Len(c) /\ k + 1 + (j - (k + 1)) = j
        BY <1>8, <3>2
      <4> QED BY <1>11, <4>1
    <3> QED BY <3>1, <3>2
  <2>3. k + 1 \in Nat \ {0} /\ m \in Nat /\ k + 1 <= m /\ m <= Len(t)
    BY <1>8
  <2>4. t[m] = "]"
    BY <1>11
  <2> HIDE DEF m
  <2>5. Find(t, "]", k + 1) = m
    BY <2>2, <2>3, <2>4, FindIs
  <2> QED BY <2>5 DEF m
<1>15. SubSeq(t, (k + 1) + 1, (k + Len(c) + 2) - 1) = c
  <2>1. (k + Len(c) + 2) - 1 = (k + 1) + Len(c)
    BY <1>8
  <2> QED BY <1>2, <1>10, <2>1, CutOut
<1>16. Pieces(c) = <<e, g>>
  BY PiecesOfTwo DEF c, a, b, Apart
<1>17. k + Len(c) + 2 # 0
  BY <1>8
<1> QED BY <1>12, <1>14, <1>15, <1>16, <1>17 DEF ArrayField

(***************************************************************************)
(* What members are made of                                                *)
(***************************************************************************)

\* A word is a name to search for, and no part of an escape.
LEMMA WordFacts ==
  ASSUME NEW c \in Word
  PROVE /\ c \in Name /\ c \in Sought /\ c \in Symbol
        /\ c \notin Letters /\ c \notin Control /\ c \notin Mark
        /\ c # Quote /\ c # Backslash /\ c # Colon /\ c # RightBrace
        /\ c # "["
<1>1. c \in Symbol
  BY DEF Symbol
<1>2. /\ c # "\"" /\ c # "\\" /\ c # "{" /\ c # "}" /\ c # ":" /\ c # ","
      /\ c # "[" /\ c # "]"
  BY Zenon DEF Word
<1>3. c # "n" /\ c # "r" /\ c # "t" /\ c # "u0001"
  BY Zenon DEF Word
<1>4. c # "newline" /\ c # "return" /\ c # "tab" /\ c # "ctl"
  BY Zenon DEF Word
<1>5. Control = {"newline", "return", "tab", "ctl"}
  BY DEF Control, ControlEscape
<1>6. c \notin Letters /\ c \notin Control /\ c \notin Mark
  BY <1>2, <1>3, <1>4, <1>5, Zenon DEF Letters, Mark
<1>7. /\ c # Quote /\ c # Backslash /\ c # Colon /\ c # Comma
      /\ c # LeftBrace /\ c # RightBrace
  BY <1>2 DEF Quote, Backslash, Colon, Comma, LeftBrace, RightBrace
<1>8. c \in Name /\ c \in Sought
  BY <1>1, <1>7 DEF Name, Sought
<1> QED BY <1>1, <1>2, <1>6, <1>7, <1>8

LEMMA FreeQuoted ==
  ASSUME NEW e \in Text
  PROVE /\ Quoted(e) \in Piece
        /\ \A key \in Word : key \notin ToSet(e) => Free(Quoted(e), key)
<1>1. /\ Quoted(e) \in Text /\ Len(Quoted(e)) = Len(e) + 2 /\ Len(e) \in Nat
      /\ ToSet(Quoted(e)) = ToSet(e) \cup {Quote}
  BY QuotedText
<1>2. Quoted(e) \in Piece
  BY <1>1 DEF Piece
<1>3. ASSUME NEW key \in Word, key \notin ToSet(e)
      PROVE Free(Quoted(e), key)
  <2>1. key \notin ToSet(Quoted(e))
    BY <1>1, <1>3, WordFacts
  <2> QED BY <1>1, <2>1, FreeAbsent
<1> QED BY <1>2, <1>3

LEMMA JsonFacts ==
  ASSUME NEW s \in Text
  PROVE /\ JsonString(s) \in Piece
        /\ Value(JsonString(s))
        /\ \A key \in Word : key \notin ToSet(s) => Free(JsonString(s), key)
<1>1. JsonString(s) = Quoted(Escape(s))
  BY JsonStringIs
<1>2. Escape(s) \in Text
  BY EscapeCodes
<1>3. Value(JsonString(s))
  BY <1>1, Escaping
<1>4. ASSUME NEW key \in Word, key \notin ToSet(s)
      PROVE Free(JsonString(s), key)
  <2>1. key \notin ToSet(Escape(s))
    BY <1>4, EscapeHeard, WordFacts
  <2> QED BY <1>1, <1>2, <2>1, FreeQuoted
<1> QED BY <1>1, <1>2, <1>3, <1>4, FreeQuoted

\* A quote in what spells a string stands behind a backslash, ...
LEMMA QuoteEscaped ==
  ASSUME NEW e, NEW s, NEW known, Codes(e, s, known),
         NEW x \in 1 .. Len(e), e[x] = Quote
  PROVE x >= 2 /\ e[x - 1] = Backslash
<1>1. PICK p : Spells(p, e, s, known)
  BY DEF Codes
<1>2. /\ Len(e) \in Nat /\ Len(s) \in Nat
      /\ \A i \in 0 .. Len(s) : p[i] \in Nat
      /\ p[0] = 0 /\ p[Len(s)] = Len(e)
  BY <1>1, Symbols DEF Codes, Spells
<1> DEFINE T == {i \in 0 .. Len(s) : x <= p[i]}
<1>3. T \in SUBSET Nat /\ Len(s) \in T
  BY <1>2
<1> HIDE DEF T
<1>4. PICK i \in T : \A k \in T : i <= k
  BY <1>3, Least
<1>5. i \in 1 .. Len(s) /\ x <= p[i] /\ p[i - 1] < x /\ p[i - 1] \in Nat
  <2>1. i \in 0 .. Len(s) /\ x <= p[i] /\ i # 0
    BY <1>2 DEF T
  <2>2. i - 1 \in 0 .. Len(s) /\ i - 1 \notin T
    BY <1>2, <1>4, <2>1
  <2>3. ~(x <= p[i - 1]) /\ p[i - 1] \in Nat
    BY <1>2, <2>2 DEF T
  <2> QED BY <1>2, <2>1, <2>3
<1>6. \/ /\ p[i] = p[i - 1] + 1
         /\ e[p[i]] = s[i]
         /\ s[i] \notin {Quote, Backslash}
      \/ /\ p[i] = p[i - 1] + 2
         /\ e[p[i - 1] + 1] = Backslash
  BY <1>1, <1>5 DEF Spells
<1>7. ~(x = p[i] /\ e[p[i]] = s[i] /\ s[i] \notin {Quote, Backslash})
  OBVIOUS
<1>8. p[i] = p[i - 1] + 2 /\ e[p[i - 1] + 1] = Backslash
  BY <1>5, <1>6, <1>7
<1>9. x # p[i - 1] + 1
  BY <1>8 DEF Quote, Backslash
<1>10. x = p[i - 1] + 2 /\ x - 1 = p[i - 1] + 1 /\ x >= 2
  BY <1>5, <1>8, <1>9
<1> QED BY <1>8, <1>10

\* ... so that only its end passes for a name in quotes.
LEMMA CodesEnd ==
  ASSUME NEW e, NEW s, NEW known, Codes(e, s, known),
         NEW key, key # Backslash
  PROVE Ending(Quoted(e), key)
<1> DEFINE v == Quoted(e)
<1>1. /\ Len(e) \in Nat /\ Len(v) = Len(e) + 2
      /\ v[Len(e) + 2] = Quote
      /\ \A i \in 1 .. Len(e) : v[1 + i] = e[i]
  <2>1. e \in Text
    BY DEF Codes
  <2> QED BY <2>1, QuotedText DEF Occurs
<1> HIDE DEF v
<1> SUFFICES ASSUME NEW j \in 2 .. Len(v) - 1, Named(v, key, j),
                    j # Len(v) - 1
             PROVE FALSE
  BY <1>1 DEF Ending, v
<1>2. /\ j \in 1 .. Len(e) /\ j - 1 \in 1 .. Len(e)
      /\ 1 + j = j + 1 /\ 1 + (j - 1) = j
  BY <1>1
<1>3. e[j] = Quote /\ e[j - 1] = key
  BY <1>1, <1>2 DEF Named
<1> QED BY <1>2, <1>3, QuoteEscaped

LEMMA StringEnds ==
  ASSUME NEW s \in Text, NEW key \in Word
  PROVE Ending(JsonString(s), key)
<1>1. Codes(Escape(s), Heard(s, FieldEscape), FieldEscape)
  BY Escapes, EscapeHeard
<1> QED BY <1>1, CodesEnd, JsonStringIs, WordFacts

\* A number, true or false.
LEMMA PlainWord ==
  ASSUME NEW c \in Word
  PROVE /\ <<c>> \in Piece
        /\ Value(<<c>>)
        /\ \A key : key # c => Free(<<c>>, key)
        /\ ToSet(<<c>>) = {c}
        /\ Plain(<<c>>)
<1>1. c \in Symbol /\ c \in Name /\ c \notin Mark /\ c \notin Control
  BY WordFacts
<1>2. <<c>> \in Text /\ Len(<<c>>) = 1 /\ ToSet(<<c>>) = {c}
  BY <1>1, Few DEF Text
<1>3. <<c>> \in Piece
  BY <1>2 DEF Piece
<1>4. ASSUME NEW key, key # c PROVE Free(<<c>>, key)
  BY <1>2, <1>4, FreeAbsent
<1>5. Plain(<<c>>)
  <2>1. Control = {"newline", "return", "tab", "ctl"}
    BY DEF Control, ControlEscape
  <2> QED BY <1>1, <1>2, <2>1 DEF Plain
<1> QED BY <1>1, <1>2, <1>3, <1>4, <1>5, WordValue

LEMMA FoundString ==
  ASSUME NEW t \in Text, NEW key, NEW s \in Text,
         Found(t, key, JsonString(s))
  PROVE /\ Str(t, key) = Heard(s, StrEscape)
        /\ Field(t, key) = Heard(s, FieldEscape)
        /\ Plain(s) => Str(t, key) = s /\ Field(t, key) = s
<1>1. Found(t, key, Quoted(Escape(s)))
  BY JsonStringIs
<1>2. Knows(StrEscape) /\ Knows(FieldEscape)
  BY Escapes
<1>3. Table(StrEscape) /\ Table(FieldEscape)
  BY <1>2 DEF Knows
<1>4. /\ Codes(Escape(s), Heard(s, StrEscape), StrEscape)
      /\ Codes(Escape(s), Heard(s, FieldEscape), FieldEscape)
  BY <1>2, EscapeHeard
<1>5. /\ SpelledAt(t, key, StrEscape) = Heard(s, StrEscape)
      /\ SpelledAt(t, key, FieldEscape) = Heard(s, FieldEscape)
  BY <1>1, <1>3, <1>4, SpelledFound
<1>6. /\ Str(t, key) = SpelledAt(t, key, StrEscape)
      /\ Field(t, key) = SpelledAt(t, key, FieldEscape)
  BY DEF Str, Field, StrEscape, FieldEscape
<1> QED BY <1>5, <1>6, HeardPlain

LEMMA StringFound ==
  ASSUME NEW t \in Text, NEW key \in Word, NEW s \in Text,
         Holds(t, key, JsonString(s))
  PROVE /\ Str(t, key) = Heard(s, StrEscape)
        /\ Field(t, key) = Heard(s, FieldEscape)
        /\ Plain(s) => Str(t, key) = s /\ Field(t, key) = s
<1>1. Found(t, key, JsonString(s))
  BY HoldsFound, WordFacts
<1> QED BY <1>1, FoundString

LEMMA WordFound ==
  ASSUME NEW t \in Text, NEW key \in Word, NEW c \in Word,
         Holds(t, key, JsonString(<<c>>))
  PROVE Str(t, key) = <<c>>
BY PlainWord, StringFound DEF Piece

(***************************************************************************)
(* Objects to read whole                                                   *)
(***************************************************************************)

\* A payload, as raw() reads it and a search goes through it.
Framed(v) ==
  /\ v \in Piece
  /\ Closed(v)
  /\ v[Len(v)] = RightBrace

LEMMA ObjectFramed ==
  ASSUME NEW ms, NEW names, NEW values, Members(ms, names, values)
  PROVE Framed(Object(ms)) /\ Value(Object(ms))
<1> DEFINE v == Object(ms)
<1>1. PICK w : Laid(v, ms, w)
  BY ObjectParts DEF Members
<1> HIDE DEF v
<1>2. /\ v \in Text /\ Len(v) >= 2 /\ v[1] = LeftBrace
      /\ v[Len(v)] = RightBrace /\ Len(v) \in Nat
  BY <1>1, Symbols DEF Laid
<1> DEFINE a == Scan(v, {LeftBrace}, {RightBrace})
<1>3. Path(a, v, {LeftBrace}, {RightBrace})
  BY <1>2, ScanPath
<1> HIDE DEF a
<1>4. PICK b \in Reader : Opens(b) = {LeftBrace} /\ Closes(b) = {RightBrace}
  <2>1. "core" \in Reader /\ Opens("core") = {LeftBrace}
        /\ Closes("core") = {RightBrace}
    BY DEF Reader, Opens, Closes, LeftBrace, RightBrace
  <2> QED BY <2>1
<1>5. /\ a[Len(v) + 1] = Outside
      /\ \A i \in 1 .. Len(ms) : /\ a[w[i] + 4] = Inner
                                 /\ a[w[i] + Len(ms[i]) + 1] = Inner
      /\ \A c \in 2 .. Len(v) :
           \/ Calm(a[c], v[c])
           \/ \E i \in 1 .. Len(ms) :
                c = w[i] + 4 \/ c = w[i] + Len(ms[i]) + 1
  <2>1. Path(a, v, Opens(b), Closes(b))
    BY <1>3, <1>4
  <2>2. /\ a[Len(v) + 1] = Outside
        /\ \A i \in 1 .. Len(ms) :
             /\ a[w[i] + 1] = Inner
             /\ a[w[i] + 4] = Inner
             /\ a[w[i] + Len(ms[i]) + 1] = Inner
             /\ \A c \in w[i] + 5 .. w[i] + Len(ms[i]) : Calm(a[c], v[c])
        /\ \A c \in 2 .. Len(v) :
             \/ Calm(a[c], v[c])
             \/ \E i \in 1 .. Len(ms) :
                  c = w[i] + 4 \/ c = w[i] + Len(ms[i]) + 1
    BY <1>1, <2>1, ObjectPath
  <2> QED BY <2>2
<1>6. a[Len(v) + 1].depth = 0
  BY <1>5, Levels
<1>7. ASSUME NEW c \in 2 .. Len(v) PROVE a[c].depth # 0
  <2>1. CASE Calm(a[c], v[c])
    <3>1. a \in Seq(Place) /\ Len(a) = Len(v) + 1
      BY <1>3 DEF Path
    <3>2. c \in 1 .. Len(a)
      BY <1>2, <3>1
    <3>3. a[c] \in Place
      BY <3>1, <3>2, ElementOfSeq
    <3>4. a[c].depth \in Int
      BY <3>3 DEF Place
    <3> QED BY <2>1, <3>4 DEF Calm
  <2>2. CASE a[c] = Inner
    BY <2>2, Levels
  <2> QED BY <1>5, <2>1, <2>2
<1>8. Closed(v)
  BY <1>2, <1>3, <1>6, <1>7 DEF Closed
<1>9. Value(v)
  BY <1>1, ObjectValue
<1>10. v \in Piece
  BY <1>2 DEF Piece
<1> QED BY <1>2, <1>8, <1>9, <1>10 DEF Framed, v

LEMMA OneFramed ==
  ASSUME NEW n1 \in Name, NEW v1, Value(v1)
  PROVE LET o == Object(<<Member(n1, v1)>>) IN Framed(o) /\ Value(o)
<1> DEFINE m1 == Member(n1, v1)
           ms == <<m1>>
           names == <<n1>>
           values == <<v1>>
<1>1. m1 \in Text
  BY MemberText DEF Value
<1>2. /\ ms \in Seq(Text) /\ Len(ms) = 1 /\ ms[1] = m1
      /\ names[1] = n1 /\ values[1] = v1
  <2> HIDE DEF m1
  <2> QED BY <1>1
<1>3. m1 = Member(n1, v1)
  OBVIOUS
<1>4. Object(ms) = Object(<<Member(n1, v1)>>)
  OBVIOUS
<1> HIDE DEF ms, names, values, m1
<1>5. \A i \in 1 .. Len(ms) : i = 1
  BY <1>2
<1>6. Members(ms, names, values)
  BY <1>2, <1>3, <1>5 DEF Members
<1>7. Framed(Object(ms)) /\ Value(Object(ms))
  BY <1>6, ObjectFramed
<1> QED BY <1>4, <1>7

LEMMA TwoFramed ==
  ASSUME NEW n1 \in Name, NEW n2 \in Name, NEW v1, NEW v2,
         Value(v1), Value(v2)
  PROVE LET o == Object(<<Member(n1, v1), Member(n2, v2)>>)
        IN  Framed(o) /\ Value(o)
<1> DEFINE m1 == Member(n1, v1)
           m2 == Member(n2, v2)
           ms == <<m1, m2>>
           names == <<n1, n2>>
           values == <<v1, v2>>
<1>1. m1 \in Text /\ m2 \in Text
  BY MemberText DEF Value
<1>2. /\ ms \in Seq(Text) /\ Len(ms) = 2 /\ ms[1] = m1 /\ ms[2] = m2
      /\ names[1] = n1 /\ values[1] = v1 /\ names[2] = n2 /\ values[2] = v2
  <2> HIDE DEF m1, m2
  <2> QED BY <1>1
<1>3. m1 = Member(n1, v1) /\ m2 = Member(n2, v2)
  OBVIOUS
<1>4. Object(ms) = Object(<<Member(n1, v1), Member(n2, v2)>>)
  OBVIOUS
<1> HIDE DEF ms, names, values, m1, m2
<1>5. \A i \in 1 .. Len(ms) : i = 1 \/ i = 2
  BY <1>2
<1>6. Members(ms, names, values)
  BY <1>2, <1>3, <1>5 DEF Members
<1>7. Framed(Object(ms)) /\ Value(Object(ms))
  BY <1>6, ObjectFramed
<1> QED BY <1>4, <1>7

(***************************************************************************)
(* Frames                                                                  *)
(***************************************************************************)

\* What no escaper touches is written as it is.
LEMMA FlatSingles ==
  ASSUME NEW s \in Text, NEW ts \in Seq(Text), Len(ts) = Len(s),
         \A i \in 1 .. Len(s) : ts[i] = <<s[i]>>
  PROVE FlattenSeq(ts) = s
<1> DEFINE e == FlattenSeq(ts)
           n == Len(s)
<1>1. n \in Nat /\ Len(ts) = n
  BY Symbols
<1>2. e \in Text
  BY FlatParts
<1>3. PICK p \in [0 .. n -> 0 .. Len(e)] :
        /\ p[0] = 0
        /\ p[n] = Len(e)
        /\ \A i \in 1 .. n : /\ p[i] = p[i - 1] + Len(ts[i])
                             /\ Occurs(ts[i], e, p[i - 1])
  <2>1. \E p \in [0 .. Len(ts) -> 0 .. Len(e)] :
          /\ p[0] = 0
          /\ p[Len(ts)] = Len(e)
          /\ \A i \in 1 .. Len(ts) : /\ p[i] = p[i - 1] + Len(ts[i])
                                     /\ Occurs(ts[i], e, p[i - 1])
    BY FlatParts
  <2> HIDE DEF e, n
  <2> QED BY <1>1, <2>1
<1> HIDE DEF e
<1>4. \A i \in 1 .. n : Len(ts[i]) = 1 /\ ts[i][1] = s[i]
  <2>1. \A x : Len(<<x>>) = 1 /\ <<x>>[1] = x
    OBVIOUS
  <2> QED BY <2>1, Zenon DEF n
<1> DEFINE T == {k \in 0 .. n : p[k] = k}
<1>5. T = 0 .. n
  <2>1. T \in SUBSET (0 .. n) /\ 0 \in T
    BY <1>1, <1>3
  <2>2. ASSUME NEW k \in 0 .. n - 1, k \in T PROVE k + 1 \in T
    <3>1. k + 1 \in 1 .. n /\ k + 1 \in 0 .. n /\ (k + 1) - 1 = k
      BY <1>1
    <3>2. p[k + 1] = p[(k + 1) - 1] + Len(ts[k + 1])
      BY <1>3, <3>1
    <3>3. Len(ts[k + 1]) = 1
      BY <1>4, <3>1
    <3>4. p[k + 1] = k + 1
      BY <2>2, <3>1, <3>2, <3>3
    <3> QED BY <3>1, <3>4
  <2> HIDE DEF T
  <2>3. \A k \in 0 .. n - 1 : k \in T => k + 1 \in T
    BY <2>2
  <2> QED BY <1>1, <2>1, <2>3, UpTo
<1>6. \A k \in 0 .. n : p[k] = k
  BY <1>5
<1>7. Len(e) = n
  BY <1>1, <1>3, <1>6
<1>8. ASSUME NEW i \in 1 .. n PROVE e[i] = s[i]
  <2>1. i - 1 \in 0 .. n /\ (i - 1) + 1 = i
    BY <1>1
  <2>2. p[i - 1] = i - 1
    BY <1>6, <2>1
  <2>3. Occurs(ts[i], e, i - 1) /\ 1 \in 1 .. Len(ts[i])
    BY <1>3, <1>4, <2>2
  <2>4. e[(i - 1) + 1] = ts[i][1]
    BY <2>3 DEF Occurs
  <2> QED BY <1>4, <2>1, <2>4
<1> QED BY <1>2, <1>7, <1>8, SeqEqual DEF Text, e

LEMMA Unescaped ==
  ASSUME NEW s \in Text, ToSet(s) \cap (Control \cup {Quote, Backslash}) = {}
  PROVE Escape(s) = s /\ Esc(s) = s
<1> DEFINE Single(i) == <<s[i]>>
           ts == [i \in DOMAIN s |-> Single(i)]
<1>1. /\ Len(s) \in Nat /\ DOMAIN s = 1 .. Len(s)
      /\ \A i \in 1 .. Len(s) : /\ s[i] \in Symbol
                                /\ s[i] \in ToSet(s)
  BY Symbols DEF ToSet
<1>2. \A i \in DOMAIN s : /\ s[i] \notin Control
                          /\ s[i] \notin {Quote, Backslash}
                          /\ s[i] # Quote
                          /\ s[i] # "newline" /\ s[i] # "return"
  <2>1. "newline" \in Control /\ "return" \in Control
    BY DEF Control, ControlEscape
  <2> QED BY <1>1, <2>1
<1>3. Escape(s) = FlattenSeq(ts)
  <2>1. [i \in DOMAIN s |->
           IF s[i] \in Control THEN <<Backslash, ControlEscape[s[i]]>>
           ELSE IF s[i] \in {Quote, Backslash} THEN <<Backslash, s[i]>>
           ELSE <<s[i]>>] = ts
    BY <1>2
  <2> QED BY <2>1 DEF Escape
<1>4. Esc(s) = FlattenSeq(ts)
  <2>1. [i \in DOMAIN s |->
           CASE s[i] \in {Quote, Backslash} -> <<Backslash, s[i]>>
             [] s[i] = "newline" -> <<Backslash, "n">>
             [] s[i] = "return" -> <<>>
             [] OTHER -> <<s[i]>>] = ts
    BY <1>2
  <2> QED BY <2>1 DEF Esc
<1>5. \A i \in 1 .. Len(s) : Single(i) \in Text
  BY <1>1, Few DEF Text
<1>6. ts \in Seq(Text) /\ Len(ts) = Len(s)
      /\ \A i \in 1 .. Len(s) : ts[i] = <<s[i]>>
  <2>1. ts = [i \in 1 .. Len(s) |-> Single(i)]
    BY <1>1
  <2>2. \A i \in 1 .. Len(s) : ts[i] = Single(i)
    BY <2>1
  <2> HIDE DEF ts
  <2>3. Len(ts) = Len(s) /\ ts \in Seq(Text)
    <3> HIDE DEF Single
    <3>1. ts \in Seq(Text)
      BY <1>1, <1>5, <2>1, IsASeq
    <3> QED BY <1>1, <2>1, <3>1
  <2> QED BY <2>2, <2>3
<1> HIDE DEF ts
<1> QED BY <1>3, <1>4, <1>6, FlatSingles

LEMMA EscapeWord ==
  ASSUME NEW c \in Word
  PROVE JsonString(<<c>>) = Quoted(<<c>>)
<1>1. <<c>> \in Text /\ ToSet(<<c>>) = {c}
  BY PlainWord DEF Piece
<1>2. c \notin Control \cup {Quote, Backslash}
  BY WordFacts
<1>3. Escape(<<c>>) = <<c>>
  BY <1>1, <1>2, Unescaped
<1> QED BY <1>3, JsonStringIs

\* Where the type of an object is called as the member after it, a search for
\* that member begins at the type, and comes to its value.
LEMMA FoundNext ==
  ASSUME NEW ms, NEW names, NEW values, Listed(ms, names, values),
         Len(ms) >= 2, NEW key \in Sought, names[1] # key,
         values[1] = Quoted(<<key>>), names[2] = key
  PROVE Found(Object(ms), key, values[2])
<1> DEFINE t == Object(ms)
<1>1. PICK w : Laid(t, ms, w)
  BY ObjectParts DEF Listed
<1> HIDE DEF t
<1>2. /\ Len(ms) \in Nat /\ t \in Text /\ Len(t) \in Nat
      /\ w[1] = 1 /\ 1 \in 1 .. Len(ms) /\ 2 \in 1 .. Len(ms)
      /\ w[2] = w[1] + Len(ms[1]) + 1
      /\ t[w[2]] = Comma
      /\ Len(ms[1]) = 4 + Len(values[1])
  <2>1. Len(ms) \in Nat
    BY <1>1, ListedFacts
  <2>2. 1 \in 1 .. Len(ms) - 1 /\ 1 + 1 = 2
    BY <2>1
  <2> QED BY <1>1, <2>1, <2>2, ListedFacts
<1>14. \A k \in 1 .. Len(ms) :
         /\ t[w[k] + 1] = Quote /\ t[w[k] + 2] = names[k]
         /\ t[w[k] + 3] = Quote /\ t[w[k] + 4] = Colon
         /\ Occurs(values[k], t, w[k] + 4)
         /\ w[k] + 4 + Len(values[k]) <= Len(t) - 1
  BY <1>1, MemberHead, SMTT(30)
<1>3. /\ key \in Symbol /\ key # Quote /\ key # Comma /\ key # Colon
      /\ Quote # Colon /\ Comma # Colon
  BY DEF Sought, Name, Quote, Comma, Colon
<1>4. /\ <<key>> \in Text /\ Len(<<key>>) = 1
      /\ Quoted(<<key>>) \in Text /\ Len(Quoted(<<key>>)) = 3
      /\ Quoted(<<key>>)[1] = Quote /\ Quoted(<<key>>)[2] = key
      /\ Quoted(<<key>>)[3] = Quote
  <2>1. <<key>> \in Text /\ Len(<<key>>) = 1 /\ <<key>>[1] = key
    BY <1>3, Few DEF Text
  <2> DEFINE e == <<key>>
             q == Quoted(e)
  <2>2. /\ q \in Text /\ Len(q) = Len(e) + 2 /\ q[1] = Quote
        /\ q[Len(e) + 2] = Quote /\ Occurs(e, q, 1)
    BY <2>1, QuotedText
  <2> HIDE DEF e, q
  <2>3. Len(e) = 1 /\ e[1] = key
    BY <2>1 DEF e
  <2>4. q[1 + 1] = key
    <3>1. 1 \in 1 .. Len(e)
      BY <2>3
    <3> QED BY <2>2, <2>3, <3>1 DEF Occurs
  <2> QED BY <2>1, <2>2, <2>3, <2>4 DEF q, e
<1>5. /\ t[2] = Quote /\ t[3] = names[1] /\ t[4] = Quote /\ t[5] = Colon
      /\ Occurs(Quoted(<<key>>), t, 5)
  <2>1. /\ t[w[1] + 1] = Quote /\ t[w[1] + 2] = names[1]
        /\ t[w[1] + 3] = Quote /\ t[w[1] + 4] = Colon
        /\ Occurs(values[1], t, w[1] + 4)
    BY <1>2, <1>14, Zenon
  <2>2. w[1] + 1 = 2 /\ w[1] + 2 = 3 /\ w[1] + 3 = 4 /\ w[1] + 4 = 5
    BY <1>2
  <2> QED BY <2>1, <2>2
<1>6. t[6] = Quote /\ t[7] = key /\ t[8] = Quote
  <2> DEFINE q == Quoted(<<key>>)
  <2> HIDE DEF q
  <2>1. Len(q) = 3 /\ q[1] = Quote /\ q[2] = key /\ q[3] = Quote
    BY <1>4 DEF q
  <2>2. \A i \in 1 .. 3 : t[5 + i] = q[i]
    BY <1>5, <2>1 DEF Occurs, q
  <2>3. t[5 + 1] = q[1] /\ t[5 + 2] = q[2] /\ t[5 + 3] = q[3]
    BY <2>2
  <2> QED BY <2>1, <2>3
<1>7. w[2] = 9
  <2>1. Len(values[1]) = 3
    BY <1>4, Zenon
  <2> DEFINE n == Len(values[1])
             m == Len(ms[1])
  <2>2. m = 4 + n /\ n = 3 /\ w[2] = w[1] + m + 1 /\ w[1] = 1
    BY <1>2, <2>1
  <2> HIDE DEF m, n
  <2> QED BY <2>2
<1>8. /\ t[9] = Comma /\ t[10] = Quote /\ t[11] = key /\ t[12] = Quote
      /\ t[13] = Colon /\ Occurs(values[2], t, 13) /\ 13 <= Len(t)
  <2>1. /\ t[w[2] + 1] = Quote /\ t[w[2] + 2] = names[2]
        /\ t[w[2] + 3] = Quote /\ t[w[2] + 4] = Colon
        /\ Occurs(values[2], t, w[2] + 4)
        /\ w[2] + 4 + Len(values[2]) <= Len(t) - 1
    BY <1>2, <1>14, Zenon
  <2>2. w[2] + 1 = 10 /\ w[2] + 2 = 11 /\ w[2] + 3 = 12 /\ w[2] + 4 = 13
    BY <1>7
  <2>3. Len(values[2]) \in Nat
    BY <1>1, <1>2, ListedFacts
  <2>4. 13 <= Len(t)
    <3>1. \A m, n \in Nat : 9 + 4 + m <= n - 1 => 13 <= n
      OBVIOUS
    <3>2. 9 + 4 + Len(values[2]) <= Len(t) - 1
      BY <1>7, <2>1
    <3> QED BY <1>2, <2>3, <3>1, <3>2
  <2> QED BY <1>2, <1>7, <2>1, <2>2, <2>4
<1>9. Named(t, key, 7)
  <2>1. 7 - 1 = 6 /\ 7 + 1 = 8 /\ 7 \in 2 .. Len(t) - 1
    BY <1>2, <1>8
  <2> QED BY <1>6, <2>1 DEF Named
<1>10. \A j \in 2 .. 7 - 1 : ~Named(t, key, j)
  <2>1. \A j \in 2 .. 7 - 1 : j \in {2, 3, 4, 5, 6}
    OBVIOUS
  <2>2. t[2] # key /\ t[3] # key /\ t[4] # key /\ t[5] # key /\ t[6] # key
    BY <1>3, <1>5, <1>6
  <2>3. \A j \in 2 .. 7 - 1 : t[j] # key
    BY <2>1, <2>2
  <2> QED BY <2>3 DEF Named
<1>11. KeyAt(t, key) = 6
  <2>1. KeyAt(t, key) = 7 - 1
    BY <1>2, <1>9, <1>10, KeyAtIs
  <2> QED BY <2>1
<1>12. Find(t, Colon, 6) = 13
  <2>1. \A j \in 6 .. 13 - 1 : j \in {6, 7, 8, 9, 10, 11, 12}
    OBVIOUS
  <2>2. /\ t[6] # Colon /\ t[7] # Colon /\ t[8] # Colon /\ t[9] # Colon
        /\ t[10] # Colon /\ t[11] # Colon /\ t[12] # Colon
    BY <1>3, <1>6, <1>8
  <2>3. \A j \in 6 .. 13 - 1 : t[j] # Colon
    BY <2>1, <2>2
  <2> DEFINE i == 6
             k == 13
  <2>4. /\ i \in Nat \ {0} /\ k \in Nat /\ i <= k /\ k <= Len(t)
        /\ t[k] = Colon /\ \A j \in i .. k - 1 : t[j] # Colon
    BY <1>8, <2>3
  <2> HIDE DEF i, k
  <2>5. Find(t, Colon, i) = k
    BY <1>2, <2>4, FindIs
  <2> QED BY <2>5 DEF i, k
<1>13. ValueAt(t, key) = 13 + 1
  BY <1>11, <1>12 DEF ValueAt, Colon
<1> QED BY <1>8, <1>13 DEF Found, t

LEMMA MemberSpans ==
  ASSUME NEW ms, NEW names, NEW values, Listed(ms, names, values),
         NEW t, NEW w, Laid(t, ms, w)
  PROVE /\ w[Len(ms)] + Len(ms[Len(ms)]) + 1 = Len(t)
        /\ \A i \in 1 .. Len(ms) : /\ ms[i] \in Text
                                   /\ Len(ms[i]) = 4 + Len(values[i])
                                   /\ ms[i][1] = Quote
                                   /\ Occurs(ms[i], t, w[i])
        /\ \A i \in 1 .. Len(ms) - 1 : /\ w[i + 1] = w[i] + Len(ms[i]) + 1
                                       /\ t[w[i + 1]] = Comma
BY ListedFacts

\* The last member but one is called key, and its value is one symbol: nothing
\* else is called so, where nothing is in the members beside it.
LEMMA OnlyNamed ==
  ASSUME NEW ms, NEW names, NEW values, Listed(ms, names, values),
         NEW t, NEW w, Laid(t, ms, w), NEW key \in Sought,
         NEW k \in Nat, k >= 1, Len(ms) = k + 1,
         \A i \in 1 .. k - 1 : Free(ms[i], key),
         Free(ms[k + 1], key),
         Len(values[k]) = 1, values[k][1] # key
  PROVE \A j \in 2 .. Len(t) - 1 : Named(t, key, j) => j = w[k] + 2
<1>1. /\ Len(t) \in Nat /\ t \in Text
      /\ k \in 1 .. Len(ms) /\ k + 1 \in 1 .. Len(ms)
      /\ k \in 1 .. Len(ms) - 1
  BY ListedFacts
<1>2. /\ w[k] \in Nat
      /\ t[w[k] + 1] = Quote /\ t[w[k] + 3] = Quote /\ t[w[k] + 4] = Colon
      /\ Occurs(values[k], t, w[k] + 4)
  <2>1. \A i \in 1 .. Len(ms) :
          /\ w[i] \in Nat
          /\ t[w[i] + 1] = Quote /\ t[w[i] + 3] = Quote
          /\ t[w[i] + 4] = Colon
          /\ Occurs(values[i], t, w[i] + 4)
    BY MemberHead
  <2> QED BY <1>1, <2>1, Zenon
<1>3. t[w[k] + 5] # key
  <2>1. 1 \in 1 .. Len(values[k]) /\ (w[k] + 4) + 1 = w[k] + 5
    BY <1>2
  <2> QED BY <1>2, <2>1 DEF Occurs
<1>4. /\ Len(ms[k]) = 5
      /\ w[k + 1] = w[k] + Len(ms[k]) + 1 /\ t[w[k + 1]] = Comma
      /\ ms[k + 1] \in Text /\ ms[k + 1][1] = Quote
      /\ Occurs(ms[k + 1], t, w[k + 1])
      /\ Len(ms[k + 1]) \in Nat
      /\ w[k + 1] + Len(ms[k + 1]) + 1 = Len(t)
  <2>1. \A i \in 1 .. Len(ms) : /\ ms[i] \in Text
                                /\ Len(ms[i]) = 4 + Len(values[i])
                                /\ ms[i][1] = Quote
                                /\ Occurs(ms[i], t, w[i])
    BY MemberSpans, Zenon
  <2>2. \A i \in 1 .. Len(ms) - 1 : /\ w[i + 1] = w[i] + Len(ms[i]) + 1
                                    /\ t[w[i + 1]] = Comma
    <3> SUFFICES ASSUME NEW i \in 1 .. Len(ms) - 1
                 PROVE /\ w[i + 1] = w[i] + Len(ms[i]) + 1
                       /\ t[w[i + 1]] = Comma
      OBVIOUS
    <3> QED BY MemberSpans
  <2>3. w[Len(ms)] + Len(ms[Len(ms)]) + 1 = Len(t)
    BY MemberSpans
  <2>4. Len(ms[k]) = 4 + Len(values[k])
    BY <1>1, <2>1, Zenon
  <2>5. Len(ms[k]) = 5
    BY <2>4
  <2>6. /\ ms[k + 1] \in Text /\ ms[k + 1][1] = Quote
        /\ Occurs(ms[k + 1], t, w[k + 1])
    BY <1>1, <2>1, Zenon
  <2>7. Len(ms[k + 1]) \in Nat
    BY <2>6, Symbols
  <2>8. w[k + 1] = w[k] + Len(ms[k]) + 1 /\ t[w[k + 1]] = Comma
    BY <1>1, <2>2, Zenon
  <2> QED BY <2>3, <2>5, <2>6, <2>7, <2>8
<1>5. w[k + 1] = w[k] + 6
  BY <1>2, <1>4
<1>6. /\ key # Quote /\ key # Colon /\ key # Comma
  BY DEF Sought, Name
<1>7. ASSUME NEW j \in 2 .. Len(t) - 1, Named(t, key, j), j # w[k] + 2
      PROVE FALSE
  <2>1. CASE j <= w[k]
    <3>1. \A i \in 2 .. w[k] : ~Named(t, key, i)
      BY <1>1, NoneBefore
    <3>2. j \in 2 .. w[k]
      BY <1>1, <1>2, <2>1
    <3> QED BY <1>7, <3>1, <3>2
  <2>2. CASE j > w[k] /\ j <= w[k] + 6
    <3>1. t[w[k] + 6] = Comma
      BY <1>4, <1>5
    <3>2. j = w[k] + 1 \/ j = w[k] + 3 \/ j = w[k] + 4 \/ j = w[k] + 5
          \/ j = w[k] + 6
      <4>1. \A m \in Nat : \A i \in Nat : i > m /\ i <= m + 6 /\ i # m + 2 =>
              i = m + 1 \/ i = m + 3 \/ i = m + 4 \/ i = m + 5 \/ i = m + 6
        OBVIOUS
      <4>2. j \in Nat
        BY <1>1
      <4> QED BY <1>2, <1>7, <2>2, <4>1, <4>2
    <3>3. t[j] # key
      BY <1>2, <1>3, <1>6, <3>1, <3>2
    <3> QED BY <1>7, <3>3 DEF Named
  <2>3. CASE j > w[k] + 6
    <3>1. \A i \in w[k + 1] + 1 .. w[k + 1] + Len(ms[k + 1]) :
            ~Named(t, key, i)
      BY <1>1, <1>4, <1>6, NoneWithin
    <3>2. j \in w[k + 1] + 1 .. w[k + 1] + Len(ms[k + 1])
      <4>1. \A m, n, l \in Nat : \A i \in 2 .. l - 1 :
              i > m /\ m + n + 1 = l => i \in m + 1 .. m + n
        OBVIOUS
      <4>2. w[k + 1] \in Nat /\ j > w[k + 1]
        BY <1>2, <1>5, <2>3, SMTT(30)
      <4>3. w[k + 1] + Len(ms[k + 1]) + 1 = Len(t) /\ Len(ms[k + 1]) \in Nat
            /\ Len(t) \in Nat
        BY <1>1, <1>4
      <4> QED BY <4>1, <4>2, <4>3
    <3> QED BY <1>7, <3>1, <3>2
  <2> QED BY <1>1, <1>2, <2>1, <2>2, <2>3
<1> QED BY <1>7

\* What stands in a text is made of its symbols, ...
LEMMA OccursSymbols ==
  ASSUME NEW v \in Text, NEW t \in Text, NEW k, Occurs(v, t, k)
  PROVE ToSet(v) \subseteq ToSet(t)
<1>1. /\ Len(v) \in Nat /\ Len(t) \in Nat /\ k \in Nat
      /\ k + Len(v) <= Len(t)
      /\ \A i \in 1 .. Len(v) : t[k + i] = v[i]
      /\ DOMAIN v = 1 .. Len(v) /\ DOMAIN t = 1 .. Len(t)
  BY Symbols DEF Occurs
<1>2. \A i \in 1 .. Len(v) : k + i \in 1 .. Len(t)
  BY <1>1
<1> QED BY <1>1, <1>2 DEF ToSet

\* ... and an object of those of its members.
LEMMA JoinedSymbols ==
  ASSUME NEW a \in Text, NEW b \in Text
  PROVE ToSet(a \o b) \subseteq ToSet(a) \cup ToSet(b)
<1> DEFINE c == a \o b
<1>1. /\ c \in Text /\ Len(c) = Len(a) + Len(b) /\ Occurs(a, c, 0)
      /\ Occurs(b, c, Len(a))
  BY Joined
<1> HIDE DEF c
<1>2. /\ Len(a) \in Nat /\ Len(b) \in Nat
      /\ DOMAIN a = 1 .. Len(a) /\ DOMAIN b = 1 .. Len(b)
      /\ DOMAIN c = 1 .. Len(c)
  BY <1>1, Symbols
<1>3. ASSUME NEW x \in ToSet(c) PROVE x \in ToSet(a) \cup ToSet(b)
  <2>1. PICK i \in 1 .. Len(a) + Len(b) : x = c[i]
    BY <1>1, <1>2, <1>3 DEF ToSet
  <2>2. CASE i <= Len(a)
    <3>1. i \in 1 .. Len(a) /\ 0 + i = i
      BY <1>2, <2>2
    <3>2. c[i] = a[i]
      BY <1>1, <3>1 DEF Occurs
    <3> QED BY <1>2, <2>1, <3>1, <3>2 DEF ToSet
  <2>3. CASE i > Len(a)
    <3>1. i - Len(a) \in 1 .. Len(b) /\ Len(a) + (i - Len(a)) = i
      BY <1>2, <2>3
    <3>2. c[i] = b[i - Len(a)]
      BY <1>1, <3>1 DEF Occurs
    <3> QED BY <1>2, <2>1, <3>1, <3>2 DEF ToSet
  <2> QED BY <1>2, <2>1, <2>2, <2>3
<1> QED BY <1>3 DEF c

LEMMA MemberSymbols ==
  ASSUME NEW name \in Name, NEW v \in Text
  PROVE ToSet(Member(name, v)) \subseteq {Quote, name, Colon} \cup ToSet(v)
<1> DEFINE n == <<name>>
           q == Quoted(n)
           c == <<Colon>>
           qc == q \o c
<1>1. Colon \in Symbol /\ name \in Symbol
  BY DEF Symbol, Punctuation, Colon, Name
<1>2. n \in Text /\ ToSet(n) = {name} /\ c \in Text /\ ToSet(c) = {Colon}
  BY <1>1, Few DEF Text
<1>3. Member(name, v) = qc \o v
  BY DEF Member, Colon
<1> HIDE DEF n, c
<1>4. q \in Text /\ ToSet(q) = ToSet(n) \cup {Quote}
  BY <1>2, QuotedText
<1> HIDE DEF q
<1>5. qc \in Text /\ ToSet(qc) \subseteq ToSet(q) \cup ToSet(c)
  BY <1>2, <1>4, Joined, JoinedSymbols
<1> HIDE DEF qc
<1>6. ToSet(qc \o v) \subseteq ToSet(qc) \cup ToSet(v)
  BY <1>5, JoinedSymbols
<1> QED BY <1>2, <1>3, <1>4, <1>5, <1>6

LEMMA ObjectSymbols ==
  ASSUME NEW ms \in Seq(Text), NEW c, c \notin Mark,
         \A i \in 1 .. Len(ms) : c \notin ToSet(ms[i])
  PROVE c \notin ToSet(Object(ms))
<1> DEFINE comma == <<Comma>>
           open == <<LeftBrace>>
           close == <<RightBrace>>
           ts == [i \in DOMAIN ms |-> IF i = 1 THEN ms[i] ELSE comma \o ms[i]]
           e == Commas(ms)
           a == open \o e
<1>1. /\ comma \in Text /\ open \in Text /\ close \in Text
      /\ c \notin ToSet(comma) /\ c \notin ToSet(open)
      /\ c \notin ToSet(close)
  <2>1. Comma \in Symbol /\ LeftBrace \in Symbol /\ RightBrace \in Symbol
    BY DEF Symbol, Punctuation, Comma, LeftBrace, RightBrace
  <2>2. c # Comma /\ c # LeftBrace /\ c # RightBrace
    BY DEF Mark, Comma, LeftBrace, RightBrace
  <2>3. /\ comma \in Text /\ open \in Text /\ close \in Text
        /\ ToSet(comma) = {Comma} /\ ToSet(open) = {LeftBrace}
        /\ ToSet(close) = {RightBrace}
    BY <2>1, Few DEF Text
  <2> QED BY <2>2, <2>3
<1>2. e = FlattenSeq(ts)
  BY DEF Commas, Comma
<1>3. Object(ms) = a \o close
  BY DEF Object, LeftBrace, RightBrace
<1> HIDE DEF comma, open, close, e
<1>4. Len(ms) \in Nat /\ DOMAIN ms = 1 .. Len(ms)
      /\ \A i \in 1 .. Len(ms) : ms[i] \in Text
  BY LenProperties, ElementOfSeq
<1> DEFINE P(i) == IF i = 1 THEN ms[i] ELSE comma \o ms[i]
<1>5. ASSUME NEW i \in 1 .. Len(ms)
      PROVE P(i) \in Text /\ c \notin ToSet(P(i))
  <2>1. ms[i] \in Text /\ c \notin ToSet(ms[i])
    BY <1>4
  <2>2. /\ comma \o ms[i] \in Text
        /\ ToSet(comma \o ms[i]) \subseteq ToSet(comma) \cup ToSet(ms[i])
    BY <1>1, <2>1, Joined, JoinedSymbols
  <2>3. c \notin ToSet(comma \o ms[i])
    BY <1>1, <2>1, <2>2
  <2> QED BY <2>1, <2>2, <2>3
<1>6. ts \in Seq(Text) /\ Len(ts) = Len(ms)
      /\ \A i \in 1 .. Len(ms) : ts[i] = P(i)
  <2>1. ts = [i \in 1 .. Len(ms) |-> P(i)]
    BY <1>4
  <2> HIDE DEF P, ts
  <2>2. ts \in Seq(Text)
    BY <1>4, <1>5, <2>1, IsASeq
  <2>3. Len(ts) = Len(ms)
    BY <1>4, <2>1, <2>2
  <2> QED BY <2>1, <2>2, <2>3
<1> HIDE DEF ts, P
<1>7. e \in Text /\ c \notin ToSet(e)
  <2>1. e \in Text
    BY <1>2, <1>6, FlatParts
  <2>2. ASSUME c \in ToSet(e) PROVE FALSE
    <3>1. PICK i \in 1 .. Len(ts) : c \in ToSet(ts[i])
      BY <1>2, <1>6, <2>2, FlatParts
    <3> QED BY <1>5, <1>6, <3>1
  <2> QED BY <2>1, <2>2
<1>8. a \in Text /\ ToSet(a) \subseteq ToSet(open) \cup ToSet(e)
  BY <1>1, <1>7, Joined, JoinedSymbols
<1> HIDE DEF a
<1>9. ToSet(a \o close) \subseteq ToSet(a) \cup ToSet(close)
  BY <1>1, <1>8, JoinedSymbols
<1> QED BY <1>1, <1>3, <1>7, <1>8, <1>9

LEMMA NoTextFacts ==
  /\ \A v \in Text : v # NoText
  /\ \A c \in Symbol : c # NoText
  /\ \A nonce \in Text, ts \in Symbol :
       [nonce |-> nonce, ts |-> ts] # NoText
<1>1. \A v \in Text : v # NoText
  BY NoTextAssumption DEF Text
<1>2. \A c \in Symbol : c # NoText
  BY NoTextAssumption
<1>3. ASSUME NEW nonce \in Text, NEW ts \in Symbol
      PROVE [nonce |-> nonce, ts |-> ts] # NoText
  <2>1. [nonce |-> nonce, ts |-> ts] \in [nonce : Seq(Symbol), ts : Symbol]
    BY DEF Text
  <2> QED BY <2>1, NoTextAssumption
<1> QED BY <1>1, <1>2, <1>3

\* An event, without a number and with one.
Unnumbered(c, payload) ==
  Object(<<Member("type", JsonString(<<"event">>)),
           Member("event", JsonString(<<c>>)),
           Member("payload", payload)>>)
NumberLast(c, payload, seq) ==
  Object(<<Member("type", JsonString(<<"event">>)),
           Member("event", JsonString(<<c>>)),
           Member("payload", payload), Member("seq", seq)>>)
NumberFirst(c, payload, seq) ==
  Object(<<Member("type", JsonString(<<"event">>)),
           Member("event", JsonString(<<c>>)),
           Member("seq", seq), Member("payload", payload)>>)

LEMMA Joins ==
  ASSUME NEW a, NEW b, NEW c, NEW d
  PROVE /\ <<a>> \o <<b>> \o <<c>> \o <<>> = <<a, b, c>>
        /\ <<a>> \o <<b>> \o <<>> \o <<c>> = <<a, b, c>>
        /\ <<a>> \o <<b>> \o <<c>> \o <<d>> = <<a, b, c, d>>
<1>1. <<a>> \o <<b>> = <<a, b>>
  BY Behind
<1>2. <<a, b>> \o <<c>> = <<a, b, c>> /\ <<a, b>> \o <<>> = <<a, b>>
  <2> DEFINE S == {a, b, c}
             s == <<a, b>>
             t == <<c>>
             u == <<a, b, c>>
  <2>1. /\ s \in Seq(S) /\ Len(s) = 2 /\ t \in Seq(S) /\ Len(t) = 1
        /\ u \in Seq(S) /\ Len(u) = 3
        /\ s[1] = a /\ s[2] = b /\ t[1] = c
        /\ u[1] = a /\ u[2] = b /\ u[3] = c
    OBVIOUS
  <2> HIDE DEF S, s, t, u
  <2>2. /\ s \o t \in Seq(S) /\ Len(s \o t) = 3
        /\ \A i \in 1 .. 3 : (s \o t)[i] = IF i <= 2 THEN s[i] ELSE t[i - 2]
    <3>1. /\ s \o t \in Seq(S) /\ Len(s \o t) = Len(s) + Len(t)
          /\ \A i \in 1 .. Len(s) + Len(t) :
               (s \o t)[i] = IF i <= Len(s) THEN s[i] ELSE t[i - Len(s)]
      BY <2>1, ConcatProperties
    <3> QED BY <2>1, <3>1
  <2>3. \A i \in 1 .. 3 : i = 1 \/ i = 2 \/ i = 3
    OBVIOUS
  <2>4. (s \o t)[1] = u[1] /\ (s \o t)[2] = u[2] /\ (s \o t)[3] = u[3]
    BY <2>1, <2>2
  <2>5. s \o t = u
    BY <2>1, <2>2, <2>3, <2>4, SeqEqual
  <2>6. s \o <<>> = s
    BY <2>1, ConcatEmptySeq
  <2> QED BY <2>5, <2>6 DEF s, t, u
<1>3. <<a, b, c>> \o <<d>> = <<a, b, c, d>> /\ <<a, b, c>> \o <<>> = <<a, b, c>>
  BY Behind
<1> QED BY <1>1, <1>2, <1>3, Zenon

LEMMA EventTextIs ==
  ASSUME NEW c \in Word, NEW payload \in Text, NEW seq \in Numbers
  PROVE /\ EventText(<<"event", "payload", "seq">>, <<c>>, payload, seq)
             = IF seq = NoText THEN Unnumbered(c, payload)
               ELSE NumberLast(c, payload, seq)
        /\ EventText(<<"event", "seq", "payload">>, <<c>>, payload, seq)
             = IF seq = NoText THEN Unnumbered(c, payload)
               ELSE NumberFirst(c, payload, seq)
<1> DEFINE name == JsonString(<<c>>)
           m0 == Member("type", JsonString(<<"event">>))
           m1 == Member("event", name)
           m2 == Member("payload", payload)
           m3 == Member("seq", seq)
           last == <<"event", "payload", "seq">>
           first == <<"event", "seq", "payload">>
           value == [event |-> name, payload |-> payload, seq |-> seq]
           Kept(order, i) == IF value[order[i]] = NoText THEN <<>>
                             ELSE <<Member(order[i], value[order[i]])>>
<1>1. name # NoText /\ payload # NoText
  <2>1. name \in Text
    BY PlainWord, JsonFacts DEF Piece
  <2> QED BY <2>1, NoTextFacts
<1>2. /\ value["event"] = name /\ value["payload"] = payload
      /\ value["seq"] = seq
  OBVIOUS
<1>3. /\ EventText(last, <<c>>, payload, seq)
           = Object(<<m0>> \o Kept(last, 1) \o Kept(last, 2) \o Kept(last, 3))
      /\ EventText(first, <<c>>, payload, seq)
           = Object(<<m0>> \o Kept(first, 1) \o Kept(first, 2)
                      \o Kept(first, 3))
  BY DEF EventText
<1> HIDE DEF value, name
<1>4. /\ Kept(last, 1) = <<m1>> /\ Kept(last, 2) = <<m2>>
      /\ Kept(last, 3) = IF seq = NoText THEN <<>> ELSE <<m3>>
  <2>1. last[1] = "event" /\ last[2] = "payload" /\ last[3] = "seq"
    OBVIOUS
  <2> HIDE DEF last
  <2> QED BY <1>1, <1>2, <2>1, Zenon
<1>5. /\ Kept(first, 1) = <<m1>> /\ Kept(first, 3) = <<m2>>
      /\ Kept(first, 2) = IF seq = NoText THEN <<>> ELSE <<m3>>
  <2>1. first[1] = "event" /\ first[3] = "payload" /\ first[2] = "seq"
    OBVIOUS
  <2> HIDE DEF first
  <2> QED BY <1>1, <1>2, <2>1, Zenon
<1> HIDE DEF Kept
<1>6. /\ Unnumbered(c, payload) = Object(<<m0, m1, m2>>)
      /\ NumberLast(c, payload, seq) = Object(<<m0, m1, m2, m3>>)
      /\ NumberFirst(c, payload, seq) = Object(<<m0, m1, m3, m2>>)
  BY DEF Unnumbered, NumberLast, NumberFirst, name
<1> HIDE DEF m0, m1, m2, m3
<1>7. /\ <<m0>> \o <<m1>> \o <<m2>> \o <<>> = <<m0, m1, m2>>
      /\ <<m0>> \o <<m1>> \o <<>> \o <<m2>> = <<m0, m1, m2>>
      /\ <<m0>> \o <<m1>> \o <<m2>> \o <<m3>> = <<m0, m1, m2, m3>>
      /\ <<m0>> \o <<m1>> \o <<m3>> \o <<m2>> = <<m0, m1, m3, m2>>
  <2>1. /\ <<m0>> \o <<m1>> \o <<m2>> \o <<>> = <<m0, m1, m2>>
        /\ <<m0>> \o <<m1>> \o <<>> \o <<m2>> = <<m0, m1, m2>>
        /\ <<m0>> \o <<m1>> \o <<m2>> \o <<m3>> = <<m0, m1, m2, m3>>
    BY Joins
  <2>2. <<m0>> \o <<m1>> \o <<m3>> \o <<m2>> = <<m0, m1, m3, m2>>
    BY Joins
  <2> QED BY <2>1, <2>2
<1>8. CASE seq = NoText
  <2>1. Kept(last, 3) = <<>> /\ Kept(first, 2) = <<>>
    BY <1>4, <1>5, <1>8, Zenon
  <2> HIDE DEF last, first
  <2> QED BY <1>3, <1>4, <1>5, <1>6, <1>7, <1>8, <2>1, Zenon DEF last, first
<1>9. CASE seq # NoText
  <2>1. Kept(last, 3) = <<m3>> /\ Kept(first, 2) = <<m3>>
    BY <1>4, <1>5, <1>9, Zenon
  <2> HIDE DEF last, first
  <2> QED BY <1>3, <1>4, <1>5, <1>6, <1>7, <1>9, <2>1, Zenon DEF last, first
<1> QED BY <1>8, <1>9

LEMMA FoundNext3 ==
  ASSUME NEW n1 \in Name, NEW key \in Sought, NEW n3 \in Name, n1 # key,
         NEW v2 \in Piece, NEW v3 \in Piece
  PROVE Found(Object(<<Member(n1, Quoted(<<key>>)), Member(key, v2),
                       Member(n3, v3)>>), key, v2)
<1> DEFINE v1 == Quoted(<<key>>)
           m1 == Member(n1, v1)
           m2 == Member(key, v2)
           m3 == Member(n3, v3)
           ms == <<m1, m2, m3>>
           names == <<n1, key, n3>>
           values == <<v1, v2, v3>>
<1>1. key \in Name /\ <<key>> \in Text
  BY OneName DEF Sought
<1>2. v1 \in Piece
  BY <1>1, FreeQuoted
<1> HIDE DEF v1
<1>3. m1 \in Text /\ m2 \in Text /\ m3 \in Text
  BY <1>1, <1>2, PieceMember
<1>4. /\ ms \in Seq(Text) /\ Len(ms) = 3
      /\ ms[1] = m1 /\ names[1] = n1 /\ values[1] = v1
      /\ ms[2] = m2 /\ names[2] = key /\ values[2] = v2
      /\ ms[3] = m3 /\ names[3] = n3 /\ values[3] = v3
  <2> HIDE DEF m1, m2, m3
  <2> QED BY <1>3
<1>5. /\ m1 = Member(n1, v1)
      /\ m2 = Member(key, v2)
      /\ m3 = Member(n3, v3)
  OBVIOUS
<1>6. Object(ms) = Object(<<Member(n1, v1), Member(key, v2), Member(n3, v3)>>)
  OBVIOUS
<1> HIDE DEF ms, names, values, m1, m2, m3
<1>7. \A i \in 1 .. Len(ms) : i = 1 \/ i = 2 \/ i = 3
  BY <1>4
<1>8. Listed(ms, names, values)
  <2>1. \A i \in 1 .. Len(ms) : /\ names[i] \in Name /\ values[i] \in Piece
                                /\ ms[i] = Member(names[i], values[i])
    BY <1>1, <1>2, <1>4, <1>5, <1>7
  <2>2. Len(ms) > 0
    BY <1>4
  <2> QED BY <1>4, <2>1, <2>2 DEF Listed, Piece
<1>9. Found(Object(ms), key, values[2])
  <2>1. Len(ms) >= 2 /\ values[1] = Quoted(<<key>>) /\ names[1] # key
        /\ names[2] = key
    BY <1>4 DEF v1
  <2> QED BY <1>8, <2>1, FoundNext
<1> QED BY <1>4, <1>6, <1>9 DEF v1

LEMMA FoundNext4 ==
  ASSUME NEW n1 \in Name, NEW key \in Sought, NEW n3 \in Name,
         NEW n4 \in Name, n1 # key,
         NEW v2 \in Piece, NEW v3 \in Piece, NEW v4 \in Piece
  PROVE Found(Object(<<Member(n1, Quoted(<<key>>)), Member(key, v2),
                       Member(n3, v3), Member(n4, v4)>>), key, v2)
<1> DEFINE v1 == Quoted(<<key>>)
           m1 == Member(n1, v1)
           m2 == Member(key, v2)
           m3 == Member(n3, v3)
           m4 == Member(n4, v4)
           ms == <<m1, m2, m3, m4>>
           names == <<n1, key, n3, n4>>
           values == <<v1, v2, v3, v4>>
<1>1. key \in Name /\ <<key>> \in Text
  BY OneName DEF Sought
<1>2. v1 \in Piece
  BY <1>1, FreeQuoted
<1> HIDE DEF v1
<1>3. m1 \in Text /\ m2 \in Text /\ m3 \in Text /\ m4 \in Text
  BY <1>1, <1>2, PieceMember
<1>4. /\ ms \in Seq(Text) /\ Len(ms) = 4
      /\ ms[1] = m1 /\ names[1] = n1 /\ values[1] = v1
      /\ ms[2] = m2 /\ names[2] = key /\ values[2] = v2
      /\ ms[3] = m3 /\ names[3] = n3 /\ values[3] = v3
      /\ ms[4] = m4 /\ names[4] = n4 /\ values[4] = v4
  <2> HIDE DEF m1, m2, m3, m4
  <2> QED BY <1>3
<1>5. /\ m1 = Member(n1, v1)
      /\ m2 = Member(key, v2)
      /\ m3 = Member(n3, v3)
      /\ m4 = Member(n4, v4)
  OBVIOUS
<1>6. Object(ms) = Object(<<Member(n1, v1), Member(key, v2), Member(n3, v3),
                            Member(n4, v4)>>)
  OBVIOUS
<1> HIDE DEF ms, names, values, m1, m2, m3, m4
<1>7. \A i \in 1 .. Len(ms) : i = 1 \/ i = 2 \/ i = 3 \/ i = 4
  BY <1>4
<1>8. Listed(ms, names, values)
  <2>1. \A i \in 1 .. Len(ms) : /\ names[i] \in Name /\ values[i] \in Piece
                                /\ ms[i] = Member(names[i], values[i])
    BY <1>1, <1>2, <1>4, <1>5, <1>7
  <2>2. Len(ms) > 0
    BY <1>4
  <2> QED BY <1>4, <2>1, <2>2 DEF Listed, Piece
<1>9. Found(Object(ms), key, values[2])
  <2>1. Len(ms) >= 2 /\ values[1] = Quoted(<<key>>) /\ names[1] # key
        /\ names[2] = key
    BY <1>4 DEF v1
  <2> QED BY <1>8, <2>1, FoundNext
<1> QED BY <1>4, <1>6, <1>9 DEF v1

\* Where nothing is called so, there is no number.
LEMMA NaturalNone ==
  ASSUME NEW t \in Text, NEW key, Free(t, key)
  PROVE KeyAt(t, key) = 0 /\ Natural(t, key) = NoText
<1>1. KeyAt(t, key) = 0
  <2>1. Len(t) \in Nat
    BY Symbols
  <2>2. ASSUME NEW i \in 2 .. Len(t) - 1, Named(t, key, i) PROVE FALSE
    <3>1. i \in 2 .. Len(t)
      BY <2>1
    <3>2. t[i] = key /\ t[i - 1] = Quote /\ t[i + 1] = Quote
      BY <2>2 DEF Named
    <3> QED BY <3>1, <3>2 DEF Free
  <2> QED BY <2>2, KeyAtNone
<1>2. ValueAt(t, key) = 0
  BY <1>1 DEF ValueAt, Find
<1>3. 0 \notin DOMAIN t
  BY Symbols
<1> QED BY <1>1, <1>2, <1>3 DEF Natural

\* The core reads an event c from t, with this payload.
ReadsEvent(t, c, payload) ==
  /\ t \in Text
  /\ Str(t, "type") = <<"event">>
  /\ Str(t, "event") = <<c>>
  /\ Raw(t, "payload") = payload

Others == Word \ {"type", "event", "payload", "seq"}

LEMMA EventNames ==
  /\ {"type", "event", "payload", "seq"} \subseteq Word
  /\ \A key \in Word : key # "event" =>
       Free(JsonString(<<"event">>), key)
  /\ \A c \in Word : /\ JsonString(<<c>>) \in Piece
                     /\ <<c>> \in Piece
                     /\ \A key \in Word : key # c =>
                          Free(JsonString(<<c>>), key) /\ Free(<<c>>, key)
<1>1. {"type", "event", "payload", "seq"} \subseteq Word
  BY DEF Word
<1>2. ASSUME NEW c \in Word
      PROVE /\ JsonString(<<c>>) \in Piece
            /\ <<c>> \in Piece
            /\ \A key \in Word : key # c =>
                 Free(JsonString(<<c>>), key) /\ Free(<<c>>, key)
  <2>1. <<c>> \in Text /\ ToSet(<<c>>) = {c} /\ <<c>> \in Piece
        /\ \A key : key # c => Free(<<c>>, key)
    BY PlainWord DEF Piece
  <2> QED BY <2>1, JsonFacts
<1> QED BY <1>1, <1>2

LEMMA EventReads ==
  ASSUME NEW c \in Others, NEW payload, Framed(payload), NEW t,
         t \in Piece, Finds(t, "type", "type", JsonString(<<"event">>)),
         Found(t, "event", JsonString(<<c>>)), Holds(t, "payload", payload)
  PROVE ReadsEvent(t, c, payload)
<1>1. "type" \in Word /\ "event" \in Word /\ "payload" \in Word /\ c \in Word
  BY EventNames DEF Others
<1>2. t \in Text /\ Closed(payload)
  BY DEF Piece, Framed
<1>3. Str(t, "type") = <<"event">>
  <2>1. Holds(t, "type", JsonString(<<"event">>))
    BY DEF Finds
  <2> QED BY <1>1, <1>2, <2>1, WordFound
<1>4. Str(t, "event") = <<c>>
  <2>1. <<c>> \in Text /\ Plain(<<c>>)
    BY <1>1, PlainWord DEF Piece
  <2> QED BY <1>2, <2>1, FoundString
<1>5. Raw(t, "payload") = payload
  <2>1. Found(t, "payload", payload)
    BY <1>1, <1>2, HoldsFound, WordFacts
  <2> QED BY <1>2, <2>1, RawFound
<1> QED BY <1>2, <1>3, <1>4, <1>5 DEF ReadsEvent

LEMMA UnnumberedRead ==
  ASSUME NEW c \in Others, NEW payload, Framed(payload)
  PROVE LET t == Unnumbered(c, payload)
        IN  /\ ReadsEvent(t, c, payload)
            /\ KeyAt(payload, "seq") = 0 => Natural(t, "seq") = NoText
<1> DEFINE v1 == JsonString(<<"event">>)
           v2 == JsonString(<<c>>)
           t == Object(<<Member("type", v1), Member("event", v2),
                         Member("payload", payload)>>)
<1>1. /\ "type" \in Word /\ "event" \in Word /\ "payload" \in Word
      /\ "seq" \in Word /\ c \in Word
      /\ c # "type" /\ c # "event" /\ c # "payload" /\ c # "seq"
  BY EventNames DEF Others
<1>2. /\ v1 \in Piece /\ v2 \in Piece /\ payload \in Piece
      /\ payload[Len(payload)] = RightBrace
      /\ v1 = Quoted(<<"event">>)
  BY <1>1, EventNames, EscapeWord DEF Framed
<1>3. /\ Free(v1, "type") /\ Free(v1, "payload") /\ Free(v1, "seq")
      /\ Free(v2, "payload") /\ Free(v2, "seq")
  BY <1>1, EventNames
<1>4. Unnumbered(c, payload) = t
  BY DEF Unnumbered
<1>5. Found(t, "event", v2)
  <2>1. /\ "type" \in Name /\ "event" \in Sought /\ "payload" \in Name
        /\ "type" # "event"
    BY <1>1, WordFacts
  <2> HIDE DEF v2
  <2> QED BY <1>2, <2>1, FoundNext3
<1> HIDE DEF v1, v2
<1>6. \A key \in Word :
        /\ t \in Piece
        /\ Finds(t, key, "type", v1)
        /\ Clear("type", v1, key) /\ Clear("event", v2, key)
             => Finds(t, key, "payload", payload)
        /\ Clear("type", v1, key) /\ Clear("event", v2, key)
             /\ Clear("payload", payload, key) => Free(t, key)
  <2>1. "type" \in Name /\ "event" \in Name /\ "payload" \in Name
    BY <1>1, WordFacts
  <2>2. \A key \in Word : key \in Sought
    BY WordFacts
  <2> QED BY <1>2, <2>1, <2>2, Search3
<1> HIDE DEF t
<1>7. ReadsEvent(t, c, payload)
  <2>1. Holds(t, "payload", payload)
    <3>1. Clear("type", v1, "payload") /\ Clear("event", v2, "payload")
      BY <1>3 DEF Clear
    <3> QED BY <1>1, <1>6, <3>1 DEF Finds
  <2> QED BY <1>1, <1>5, <1>6, <2>1, EventReads DEF v1, v2
<1>8. ASSUME KeyAt(payload, "seq") = 0 PROVE Natural(t, "seq") = NoText
  <2>1. Free(payload, "seq")
    <3>1. "seq" # RightBrace /\ payload \in Text
      BY <1>1, <1>2, WordFacts DEF Piece
    <3> QED BY <1>2, <1>8, <3>1, FreeObject
  <2>2. /\ Clear("type", v1, "seq") /\ Clear("event", v2, "seq")
        /\ Clear("payload", payload, "seq")
    BY <1>3, <2>1 DEF Clear
  <2>3. t \in Text /\ Free(t, "seq")
    BY <1>1, <1>6, <2>2 DEF Piece
  <2> QED BY <2>3, NaturalNone
<1> QED BY <1>4, <1>7, <1>8

LEMMA NumberLastRead ==
  ASSUME NEW c \in Others, NEW d \in Others, NEW payload, Framed(payload)
  PROVE LET t == NumberLast(c, payload, <<d>>)
        IN  /\ ReadsEvent(t, c, payload)
            /\ KeyAt(payload, "seq") = 0 =>
                 Natural(t, "seq") = IF d \in {"1", "2"} THEN d ELSE NoText
<1> DEFINE v1 == JsonString(<<"event">>)
           v2 == JsonString(<<c>>)
           v4 == <<d>>
           t == Object(<<Member("type", v1), Member("event", v2),
                         Member("payload", payload), Member("seq", v4)>>)
<1>1. /\ "type" \in Word /\ "event" \in Word /\ "payload" \in Word
      /\ "seq" \in Word /\ c \in Word /\ d \in Word
      /\ c # "type" /\ c # "event" /\ c # "payload" /\ c # "seq"
  BY EventNames DEF Others
<1>2. /\ v1 \in Piece /\ v2 \in Piece /\ payload \in Piece /\ v4 \in Piece
      /\ payload[Len(payload)] = RightBrace
      /\ v1 = Quoted(<<"event">>)
  BY <1>1, EventNames, EscapeWord DEF Framed
<1>3. /\ Free(v1, "type") /\ Free(v1, "payload") /\ Free(v1, "seq")
      /\ Free(v2, "payload") /\ Free(v2, "seq")
  BY <1>1, EventNames
<1>4. NumberLast(c, payload, <<d>>) = t
  BY DEF NumberLast
<1>5. Found(t, "event", v2)
  <2>1. /\ "type" \in Name /\ "event" \in Sought /\ "payload" \in Name
        /\ "type" # "event" /\ "seq" \in Name
    BY <1>1, WordFacts
  <2> HIDE DEF v2, v4
  <2> QED BY <1>2, <2>1, FoundNext4
<1> HIDE DEF v1, v2, v4
<1>6. \A key \in Word :
        /\ t \in Piece
        /\ Finds(t, key, "type", v1)
        /\ Clear("type", v1, key) /\ Clear("event", v2, key)
             => Finds(t, key, "payload", payload)
        /\ Clear("type", v1, key) /\ Clear("event", v2, key)
             /\ Clear("payload", payload, key) => Finds(t, key, "seq", v4)
  <2>1. /\ "type" \in Name /\ "event" \in Name /\ "payload" \in Name
        /\ "seq" \in Name
    BY <1>1, WordFacts
  <2>2. \A key \in Word : key \in Sought
    BY WordFacts
  <2> QED BY <1>2, <2>1, <2>2, Search4, ZenonT(60)
<1> HIDE DEF t
<1>7. ReadsEvent(t, c, payload)
  <2>1. Holds(t, "payload", payload)
    <3>1. Clear("type", v1, "payload") /\ Clear("event", v2, "payload")
      BY <1>3 DEF Clear
    <3> QED BY <1>1, <1>6, <3>1 DEF Finds
  <2> QED BY <1>1, <1>5, <1>6, <2>1, EventReads DEF v1, v2
<1>8. ASSUME KeyAt(payload, "seq") = 0
      PROVE Natural(t, "seq") = IF d \in {"1", "2"} THEN d ELSE NoText
  <2>1. Free(payload, "seq")
    <3>1. "seq" # RightBrace /\ payload \in Text
      BY <1>1, <1>2, WordFacts DEF Piece
    <3> QED BY <1>2, <1>8, <3>1, FreeObject
  <2>2. /\ Clear("type", v1, "seq") /\ Clear("event", v2, "seq")
        /\ Clear("payload", payload, "seq")
    BY <1>3, <2>1 DEF Clear
  <2>3. t \in Text /\ Holds(t, "seq", v4)
    BY <1>1, <1>6, <2>2 DEF Piece, Finds
  <2>4. Found(t, "seq", <<d>>)
    BY <1>1, <2>3, HoldsFound, WordFacts DEF v4
  <2>5. d \in Symbol
    BY <1>1, WordFacts
  <2> QED BY <2>3, <2>4, <2>5, NaturalFound
<1> QED BY <1>4, <1>7, <1>8

LEMMA NumberFirstRead ==
  ASSUME NEW c \in Others, NEW d \in Others, NEW payload, Framed(payload)
  PROVE LET t == NumberFirst(c, payload, <<d>>)
        IN  /\ ReadsEvent(t, c, payload)
            /\ Natural(t, "seq") = IF d \in {"1", "2"} THEN d ELSE NoText
<1> DEFINE v1 == JsonString(<<"event">>)
           v2 == JsonString(<<c>>)
           v3 == <<d>>
           t == Object(<<Member("type", v1), Member("event", v2),
                         Member("seq", v3), Member("payload", payload)>>)
<1>1. /\ "type" \in Word /\ "event" \in Word /\ "payload" \in Word
      /\ "seq" \in Word /\ c \in Word /\ d \in Word
      /\ c # "type" /\ c # "event" /\ c # "payload" /\ c # "seq"
      /\ d # "payload"
  BY EventNames DEF Others
<1>2. /\ v1 \in Piece /\ v2 \in Piece /\ payload \in Piece /\ v3 \in Piece
      /\ v1 = Quoted(<<"event">>)
  BY <1>1, EventNames, EscapeWord DEF Framed
<1>3. /\ Free(v1, "type") /\ Free(v1, "payload") /\ Free(v1, "seq")
      /\ Free(v2, "payload") /\ Free(v2, "seq") /\ Free(v3, "payload")
  BY <1>1, EventNames
<1>4. NumberFirst(c, payload, <<d>>) = t
  BY DEF NumberFirst
<1>5. Found(t, "event", v2)
  <2>1. /\ "type" \in Name /\ "event" \in Sought /\ "payload" \in Name
        /\ "type" # "event" /\ "seq" \in Name
    BY <1>1, WordFacts
  <2> HIDE DEF v2, v3
  <2> QED BY <1>2, <2>1, FoundNext4
<1> HIDE DEF v1, v2, v3
<1>6. \A key \in Word :
        /\ t \in Piece
        /\ Finds(t, key, "type", v1)
        /\ Clear("type", v1, key) /\ Clear("event", v2, key)
             => Finds(t, key, "seq", v3)
        /\ Clear("type", v1, key) /\ Clear("event", v2, key)
             /\ Clear("seq", v3, key) => Finds(t, key, "payload", payload)
  <2>1. /\ "type" \in Name /\ "event" \in Name /\ "payload" \in Name
        /\ "seq" \in Name
    BY <1>1, WordFacts
  <2> SUFFICES ASSUME NEW key \in Word
               PROVE /\ t \in Piece
                     /\ Finds(t, key, "type", v1)
                     /\ Clear("type", v1, key) /\ Clear("event", v2, key)
                          => Finds(t, key, "seq", v3)
                     /\ Clear("type", v1, key) /\ Clear("event", v2, key)
                          /\ Clear("seq", v3, key)
                          => Finds(t, key, "payload", payload)
    OBVIOUS
  <2>2. key \in Sought
    BY WordFacts
  <2> QED BY <1>2, <2>1, <2>2, Search4, ZenonT(60)
<1> HIDE DEF t
<1>7. ReadsEvent(t, c, payload)
  <2>1. Holds(t, "payload", payload)
    <3>1. Clear("type", v1, "payload") /\ Clear("event", v2, "payload")
          /\ Clear("seq", v3, "payload")
      BY <1>3 DEF Clear
    <3> QED BY <1>1, <1>6, <3>1 DEF Finds
  <2> QED BY <1>1, <1>5, <1>6, <2>1, EventReads DEF v1, v2
<1>8. Natural(t, "seq") = IF d \in {"1", "2"} THEN d ELSE NoText
  <2>1. Clear("type", v1, "seq") /\ Clear("event", v2, "seq")
    BY <1>3 DEF Clear
  <2>2. t \in Text /\ Holds(t, "seq", v3)
    BY <1>1, <1>6, <2>1 DEF Piece, Finds
  <2>3. Found(t, "seq", <<d>>)
    BY <1>1, <2>2, HoldsFound, WordFacts DEF v3
  <2>4. d \in Symbol
    BY <1>1, WordFacts
  <2> QED BY <2>2, <2>3, <2>4, NaturalFound
<1> QED BY <1>4, <1>7, <1>8

LEMMA ParseEvent ==
  ASSUME NEW t, NEW c, NEW payload, ReadsEvent(t, c, payload)
  PROVE Parse(t) = [kind |-> "event", event |-> <<c>>, payload |-> payload,
                    seq |-> Natural(t, "seq")]
<1>1. Str(t, "type") = <<"event">> /\ Str(t, "event") = <<c>>
      /\ Raw(t, "payload") = payload
  BY DEF ReadsEvent
<1>2. <<"event">> # <<"res">>
  <2>1. <<"event">>[1] # <<"res">>[1]
    OBVIOUS
  <2> QED BY <2>1
<1> QED BY <1>1, <1>2 DEF Parse

\* The events whose name stands before their number and their payload.
LEMMA EventHeard ==
  ASSUME NEW order \in Orders, order[1] = "event", NEW c \in Others,
         NEW payload, Framed(payload), NEW seq \in Numbers
  PROVE LET t == EventText(order, <<c>>, payload, seq)
        IN  /\ ReadsEvent(t, c, payload)
            /\ \/ order[2] = "seq" /\ seq # NoText
               \/ KeyAt(payload, "seq") = 0
               => Natural(t, "seq") = IF seq = <<"1">> THEN "1" ELSE NoText
<1> DEFINE t == EventText(order, <<c>>, payload, seq)
           last == <<"event", "payload", "seq">>
           first == <<"event", "seq", "payload">>
           Wanted == IF seq = <<"1">> THEN "1" ELSE NoText
<1>1. c \in Word /\ payload \in Text
  BY DEF Others, Framed, Piece
<1>2. order = last \/ order = first
  <2>1. <<"seq", "event", "payload">>[1] = "seq" /\ "seq" # "event"
    OBVIOUS
  <2>2. order \in {last, first, <<"seq", "event", "payload">>}
    BY DEF Orders
  <2> QED BY <2>1, <2>2
<1>3. last[2] = "payload" /\ first[2] = "seq" /\ "payload" # "seq"
  OBVIOUS
<1>4. /\ order = last => t = IF seq = NoText THEN Unnumbered(c, payload)
                             ELSE NumberLast(c, payload, seq)
      /\ order = first => t = IF seq = NoText THEN Unnumbered(c, payload)
                              ELSE NumberFirst(c, payload, seq)
  BY <1>1, EventTextIs
<1>5. seq = NoText \/ \E d \in Others : /\ seq = <<d>>
                                        /\ (d \in {"1", "2"}) <=> d = "1"
  <2>1. {"1", "huge", "-1"} \subseteq Others
    BY ZenonT(30) DEF Others, Word
  <2>2. \A d \in {"1", "huge", "-1"} : (d \in {"1", "2"}) <=> d = "1"
    OBVIOUS
  <2> QED BY <2>1, <2>2 DEF Numbers
<1>6. \A d : <<d>> = <<"1">> <=> d = "1"
  <2>1. \A d : <<d>>[1] = d
    OBVIOUS
  <2> QED BY <2>1
<1>7. <<"1">> # NoText
  <2>1. "1" \in Word
    BY DEF Word
  <2>2. <<"1">> \in Text
    BY <2>1, PlainWord DEF Piece
  <2> QED BY <2>2, NoTextFacts
<1> HIDE DEF t, last, first
<1>8. CASE seq = NoText
  <2>1. t = Unnumbered(c, payload)
    BY <1>2, <1>4, <1>8
  <2>2. Wanted = NoText
    BY <1>7, <1>8
  <2>3. /\ ReadsEvent(t, c, payload)
        /\ KeyAt(payload, "seq") = 0 => Natural(t, "seq") = NoText
    BY <2>1, UnnumberedRead
  <2> HIDE DEF Wanted
  <2>4. \/ order[2] = "seq" /\ seq # NoText
        \/ KeyAt(payload, "seq") = 0
        => Natural(t, "seq") = Wanted
    BY <1>8, <2>2, <2>3
  <2> QED BY <2>3, <2>4 DEF t, Wanted
<1>9. CASE seq # NoText
  <2>1. PICK d \in Others : seq = <<d>> /\ ((d \in {"1", "2"}) <=> d = "1")
    BY <1>5, <1>9
  <2>2. Wanted = IF d \in {"1", "2"} THEN d ELSE NoText
    BY <1>6, <2>1
  <2> HIDE DEF Wanted
  <2>3. CASE order = last
    <3>1. t = NumberLast(c, payload, <<d>>)
      BY <1>4, <1>9, <2>1, <2>3
    <3>2. /\ ReadsEvent(t, c, payload)
          /\ KeyAt(payload, "seq") = 0 => Natural(t, "seq") = Wanted
      BY <2>2, <3>1, NumberLastRead
    <3> QED BY <1>3, <2>3, <3>2 DEF t, Wanted
  <2>4. CASE order = first
    <3>1. t = NumberFirst(c, payload, <<d>>)
      BY <1>4, <1>9, <2>1, <2>4
    <3>2. ReadsEvent(t, c, payload) /\ Natural(t, "seq") = Wanted
      BY <2>2, <3>1, NumberFirstRead
    <3> QED BY <3>2 DEF t, Wanted
  <2> QED BY <1>2, <2>3, <2>4
<1> QED BY <1>8, <1>9

(***************************************************************************)
(* Payloads                                                                *)
(***************************************************************************)

LEMMA EmptyFramed == Framed(<<LeftBrace, RightBrace>>)
<1> DEFINE v == <<LeftBrace, RightBrace>>
           a == Scan(v, {LeftBrace}, {RightBrace})
<1>1. LeftBrace \in Symbol /\ RightBrace \in Symbol
  BY DEF Symbol, Punctuation, LeftBrace, RightBrace
<1>2. /\ v \in Text /\ Len(v) = 2 /\ v[1] = LeftBrace /\ v[2] = RightBrace
  BY <1>1, Few DEF Text
<1> HIDE DEF v
<1>3. Path(a, v, {LeftBrace}, {RightBrace})
  BY <1>2, ScanPath
<1> HIDE DEF a
<1>4. PICK b \in Reader : Opens(b) = {LeftBrace} /\ Closes(b) = {RightBrace}
  <2>1. "core" \in Reader /\ Opens("core") = {LeftBrace}
        /\ Closes("core") = {RightBrace}
    BY DEF Reader, Opens, Closes, LeftBrace, RightBrace
  <2> QED BY <2>1
<1>5. /\ Past(Outside, LeftBrace, {LeftBrace}, {RightBrace}) = Inner
      /\ Past(Inner, RightBrace, {LeftBrace}, {RightBrace}) = Outside
  BY <1>4, PastCases
<1>6. a[2] = Inner /\ a[3] = Outside
  <2>1. /\ a[1] = Outside
        /\ \A i \in 1 .. 2 :
             a[i + 1] = Past(a[i], v[i], {LeftBrace}, {RightBrace})
    BY <1>2, <1>3 DEF Path
  <2>2. /\ a[1 + 1] = Past(a[1], v[1], {LeftBrace}, {RightBrace})
        /\ a[2 + 1] = Past(a[2], v[2], {LeftBrace}, {RightBrace})
    BY <2>1
  <2> QED BY <1>2, <1>5, <2>1, <2>2
<1>7. /\ a[Len(v) + 1].depth = 0
      /\ \A c \in 2 .. Len(v) : a[c].depth # 0
  <2>1. \A c \in 2 .. Len(v) : c = 2
    BY <1>2
  <2>2. Len(v) + 1 = 3
    BY <1>2
  <2> QED BY <1>6, <2>1, <2>2, Levels
<1>8. Closed(v) /\ v \in Piece
  BY <1>2, <1>3, <1>7, SMTT(30) DEF Closed, Piece
<1> QED BY <1>2, <1>8 DEF Framed, v

LEMMA PayloadFramed ==
  ASSUME NEW p \in Payloads
  PROVE Framed(p)
<1>1. {"data", "event", "seq", "ok", "1", "true"} \subseteq Word
  BY Zenon DEF Word
<1>2. \A name \in Word : name \in Name
  BY WordFacts
<1>3. \A name \in Name : \A v : Value(v) =>
        Framed(One(name, v)) /\ Value(One(name, v))
  BY OneFramed DEF One
<1>4. \A s \in Strings : Value(JsonString(s))
  BY StringsAreTexts, JsonFacts
<1>5. Value(<<"1">>) /\ Value(<<"true">>)
  BY <1>1, PlainWord
<1>6. \/ p = EmptyObject
      \/ \E name \in {"data", "event"}, s \in Strings :
           p = One(name, JsonString(s))
      \/ \E s \in Strings : p = One("data", One("data", JsonString(s)))
      \/ \E name \in {"data", "seq"} : p = One(name, <<"1">>)
      \/ p = One("ok", <<"true">>)
  BY DEF Payloads
<1>7. CASE p = EmptyObject
  BY <1>7, EmptyFramed DEF LeftBrace, RightBrace, EmptyObject
<1>8. CASE \E name \in {"data", "event"}, s \in Strings :
             p = One(name, JsonString(s))
  BY <1>1, <1>2, <1>3, <1>4, <1>8
<1>9. CASE \E s \in Strings : p = One("data", One("data", JsonString(s)))
  BY <1>1, <1>2, <1>3, <1>4, <1>9
<1>10. CASE \E name \in {"data", "seq"} : p = One(name, <<"1">>)
  BY <1>1, <1>2, <1>3, <1>5, <1>10
<1>11. CASE p = One("ok", <<"true">>)
  BY <1>1, <1>2, <1>3, <1>5, <1>11
<1> QED BY <1>6, <1>7, <1>8, <1>9, <1>10, <1>11

(***************************************************************************)
(* Replies                                                                 *)
(***************************************************************************)

\* A member called key whose value is the word c, as it is written.
Saying(key, c) == <<Quote, key, Quote, Colon, c>>

LEMMA SayingAt ==
  ASSUME NEW t \in Text, NEW key, NEW c, NEW i \in 1 .. Len(t) - 4
  PROVE SubSeq(t, i, i + 4) = Saying(key, c)
          <=> Named(t, key, i + 1) /\ t[i + 3] = Colon /\ t[i + 4] = c
<1> DEFINE s == SubSeq(t, i, i + 4)
           v == Saying(key, c)
<1>1. Len(t) \in Nat /\ i \in Nat /\ i >= 1 /\ i + 4 <= Len(t)
  BY Symbols
<1>2. /\ t \in Seq(Symbol) /\ s \in Seq(Symbol) /\ Len(s) = 5
      /\ \A j \in 1 .. 5 : s[j] = t[i + j - 1]
  <2>1. t \in Seq(Symbol)
    BY DEF Text
  <2> QED BY <1>1, <2>1
<1>3. /\ s[1] = t[i] /\ s[2] = t[i + 1] /\ s[3] = t[i + 2]
      /\ s[4] = t[i + 3] /\ s[5] = t[i + 4]
  <2>1. /\ i + 1 - 1 = i /\ i + 2 - 1 = i + 1 /\ i + 3 - 1 = i + 2
        /\ i + 4 - 1 = i + 3 /\ i + 5 - 1 = i + 4
    BY <1>1
  <2>2. /\ s[1] = t[i + 1 - 1] /\ s[2] = t[i + 2 - 1] /\ s[3] = t[i + 3 - 1]
        /\ s[4] = t[i + 4 - 1] /\ s[5] = t[i + 5 - 1]
    BY <1>2
  <2> QED BY <2>1, <2>2
<1>4. /\ Len(v) = 5 /\ v[1] = Quote /\ v[2] = key /\ v[3] = Quote
      /\ v[4] = Colon /\ v[5] = c
      /\ v = [j \in 1 .. 5 |-> v[j]]
  BY DEF Saying
<1> HIDE DEF v
<1>5. s = v <=> /\ s[1] = Quote /\ s[2] = key /\ s[3] = Quote
                /\ s[4] = Colon /\ s[5] = c
  <2>1. s = [j \in 1 .. 5 |-> s[j]]
    BY <1>2
  <2>2. \A j \in 1 .. 5 : j = 1 \/ j = 2 \/ j = 3 \/ j = 4 \/ j = 5
    OBVIOUS
  <2> HIDE DEF s
  <2>3. ASSUME /\ s[1] = Quote /\ s[2] = key /\ s[3] = Quote
               /\ s[4] = Colon /\ s[5] = c
        PROVE s = v
    <3>1. \A j \in 1 .. 5 : s[j] = v[j]
      BY <1>4, <2>2, <2>3
    <3> QED BY <1>4, <2>1, <3>1
  <2> QED BY <1>4, <2>3
<1>6. Named(t, key, i + 1) <=> t[i] = Quote /\ t[i + 1] = key
                                 /\ t[i + 2] = Quote
  <2>1. i + 1 \in 2 .. Len(t) - 1 /\ (i + 1) - 1 = i /\ (i + 1) + 1 = i + 2
    BY <1>1
  <2> QED BY <2>1 DEF Named
<1> HIDE DEF s
<1> QED BY <1>3, <1>5, <1>6 DEF s, v

LEMMA HoldsSaying ==
  ASSUME NEW t \in Text, NEW key, NEW c \in Symbol, Holds(t, key, <<c>>)
  PROVE \E i \in 1 .. Len(t) - 4 : SubSeq(t, i, i + 4) = Saying(key, c)
<1> DEFINE v == <<c>>
<1>1. PICK k : HoldsAt(t, key, v, k)
  BY DEF Holds
<1>2. Len(v) = 1 /\ v[1] = c
  OBVIOUS
<1> HIDE DEF v
<1>3. /\ k \in Nat /\ Len(t) \in Nat /\ k - 2 \in 2 .. Len(t) - 1
      /\ k + 1 <= Len(t)
  BY <1>1, <1>2, Symbols DEF HoldsAt, Named, Occurs
<1>4. t[k + 1] = c
  <2>1. 1 \in 1 .. Len(v)
    BY <1>2
  <2> QED BY <1>1, <1>2, <2>1 DEF HoldsAt, Occurs
<1> DEFINE i == k - 3
<1>5. /\ i \in 1 .. Len(t) - 4 /\ i + 1 = k - 2 /\ i + 3 = k
      /\ i + 4 = k + 1
  BY <1>3
<1> HIDE DEF i
<1>6. Named(t, key, i + 1) /\ t[i + 3] = Colon /\ t[i + 4] = c
  BY <1>1, <1>4, <1>5 DEF HoldsAt
<1>7. SubSeq(t, i, i + 4) = Saying(key, c)
  BY <1>5, <1>6, SayingAt
<1> QED BY <1>5, <1>7

LEMMA NotSaid ==
  ASSUME NEW ms, NEW names, NEW values, Listed(ms, names, values),
         NEW key \in Sought,
         NEW k \in Nat, k >= 1, Len(ms) = k + 1,
         \A i \in 1 .. k - 1 : Free(ms[i], key),
         Free(ms[k + 1], key),
         NEW c, Len(values[k]) = 1, values[k][1] # key, values[k][1] # c
  PROVE LET t == Object(ms)
        IN  \A i \in 1 .. Len(t) - 4 : SubSeq(t, i, i + 4) # Saying(key, c)
<1> DEFINE t == Object(ms)
<1>1. PICK w : Laid(t, ms, w)
  BY ObjectParts DEF Listed
<1> HIDE DEF t
<1>2. t \in Text /\ Len(t) \in Nat /\ k \in 1 .. Len(ms)
  BY <1>1, Symbols DEF Laid
<1>3. \A j \in 2 .. Len(t) - 1 : Named(t, key, j) => j = w[k] + 2
  BY <1>1, OnlyNamed
<1>4. w[k] \in Nat /\ Occurs(values[k], t, w[k] + 4)
  <2>1. \A i \in 1 .. Len(ms) :
          w[i] \in Nat /\ Occurs(values[i], t, w[i] + 4)
    BY <1>1, MemberHead
  <2> QED BY <1>2, <2>1, Zenon
<1>5. t[w[k] + 5] = values[k][1]
  <2>1. 1 \in 1 .. Len(values[k]) /\ (w[k] + 4) + 1 = w[k] + 5
    BY <1>4
  <2> QED BY <1>4, <2>1 DEF Occurs
<1>6. ASSUME NEW i \in 1 .. Len(t) - 4, SubSeq(t, i, i + 4) = Saying(key, c)
      PROVE FALSE
  <2>1. Named(t, key, i + 1) /\ t[i + 4] = c
    BY <1>2, <1>6, SayingAt
  <2>2. i + 1 \in 2 .. Len(t) - 1
    BY <1>2
  <2>3. i + 1 = w[k] + 2
    BY <1>3, <2>1, <2>2
  <2>4. i + 4 = w[k] + 5
    BY <1>4, <2>3
  <2> QED BY <1>5, <2>1, <2>4
<1> QED BY <1>6 DEF t

\* A reply whose truth is d and whose content is called rest.
ReplyOf(d, rest, body) ==
  Object(<<Member("type", JsonString(<<"res">>)),
           Member("id", JsonString(Id)), Member("ok", <<d>>),
           Member(rest, body)>>)

LEMMA ReplyNames ==
  /\ {"type", "res", "id", "a", "ok", "true", "false", "payload", "error",
      "requestId", "code", "PAIRING_REQUIRED"} \subseteq Word
  /\ Id = <<"a">>
  /\ \A d \in {"true", "false"} : d # "ok" /\ d # "requestId"
                                    /\ d # "payload" /\ d # "error"
  /\ \A rest \in {"payload", "error"} :
       /\ rest # "type" /\ rest # "id" /\ rest # "ok" /\ rest # "requestId"
       /\ rest # "res" /\ rest # "a"
<1>1. {"type", "res", "id", "a", "ok", "true", "false", "payload", "error",
       "requestId", "code", "PAIRING_REQUIRED"} \subseteq Word
  BY DEF Word
<1> QED BY <1>1 DEF Id

LEMMA ReplyRead ==
  ASSUME NEW d \in {"true", "false"}, NEW rest \in {"payload", "error"},
         NEW body, Framed(body)
  PROVE LET t == ReplyOf(d, rest, body)
        IN  /\ t \in Text
            /\ Str(t, "type") = <<"res">>
            /\ Str(t, "id") = Id
            /\ Raw(t, rest) = body
            /\ Holds(t, "ok", <<d>>)
            /\ \A u \in Text : Holds(body, "requestId", u) =>
                                 Holds(t, "requestId", u)
            /\ ToSet(body) \subseteq ToSet(t)
<1> DEFINE v1 == JsonString(<<"res">>)
           v2 == JsonString(<<"a">>)
           v3 == <<d>>
           t == Object(<<Member("type", v1), Member("id", v2),
                         Member("ok", v3), Member(rest, body)>>)
<1>1. /\ "type" \in Word /\ "id" \in Word /\ "ok" \in Word /\ rest \in Word
      /\ "requestId" \in Word /\ d \in Word /\ "res" \in Word /\ "a" \in Word
  BY ReplyNames
<1>2. /\ rest # "type" /\ rest # "id" /\ rest # "ok" /\ rest # "requestId"
      /\ d # "ok" /\ d # "requestId" /\ d # rest
      /\ rest # "res" /\ rest # "a"
  BY ReplyNames
<1>3. v1 \in Piece /\ v2 \in Piece /\ v3 \in Piece /\ body \in Piece
  BY <1>1, EventNames DEF Framed
<1>4. \A key \in Word : /\ key # "res" => Free(v1, key)
                        /\ key # "a" => Free(v2, key)
                        /\ key # d => Free(v3, key)
  BY <1>1, EventNames
<1>5. ReplyOf(d, rest, body) = t
  BY DEF ReplyOf, Id
<1> HIDE DEF v1, v2, v3
<1>6. \A key \in Word :
        /\ t \in Piece
        /\ Finds(t, key, "type", v1)
        /\ Clear("type", v1, key) => Finds(t, key, "id", v2)
        /\ Clear("type", v1, key) /\ Clear("id", v2, key)
             => Finds(t, key, "ok", v3)
        /\ Clear("type", v1, key) /\ Clear("id", v2, key)
             /\ Clear("ok", v3, key) => Finds(t, key, rest, body)
  <2>1. "type" \in Name /\ "id" \in Name /\ "ok" \in Name /\ rest \in Name
    BY <1>1, WordFacts
  <2> SUFFICES ASSUME NEW key \in Word
               PROVE /\ t \in Piece
                     /\ Finds(t, key, "type", v1)
                     /\ Clear("type", v1, key) => Finds(t, key, "id", v2)
                     /\ Clear("type", v1, key) /\ Clear("id", v2, key)
                          => Finds(t, key, "ok", v3)
                     /\ Clear("type", v1, key) /\ Clear("id", v2, key)
                          /\ Clear("ok", v3, key) => Finds(t, key, rest, body)
    OBVIOUS
  <2>2. key \in Sought
    BY WordFacts
  <2> QED BY <1>3, <2>1, <2>2, Search4, ZenonT(60)
<1> HIDE DEF t
<1>7. t \in Text
  BY <1>1, <1>6 DEF Piece
<1>8. Str(t, "type") = <<"res">>
  <2>1. Holds(t, "type", v1)
    BY <1>1, <1>6 DEF Finds
  <2> QED BY <1>1, <1>7, <2>1, WordFound DEF v1
<1>9. Str(t, "id") = Id
  <2>1. Clear("type", v1, "id")
    BY <1>1, <1>4 DEF Clear
  <2>2. Holds(t, "id", v2)
    BY <1>1, <1>6, <2>1 DEF Finds
  <2> QED BY <1>1, <1>7, <2>2, WordFound DEF v2, Id
<1>10. Holds(t, "ok", v3)
  <2>1. Clear("type", v1, "ok") /\ Clear("id", v2, "ok")
    BY <1>1, <1>4 DEF Clear
  <2> QED BY <1>1, <1>6, <2>1 DEF Finds
<1>11. Holds(t, rest, body)
  <2>1. Clear("type", v1, rest) /\ Clear("id", v2, rest)
        /\ Clear("ok", v3, rest)
    BY <1>1, <1>2, <1>4 DEF Clear
  <2> QED BY <1>1, <1>6, <2>1 DEF Finds
<1>12. Raw(t, rest) = body
  <2>1. Found(t, rest, body)
    BY <1>1, <1>7, <1>11, HoldsFound, WordFacts
  <2> QED BY <1>7, <2>1, RawFound DEF Framed
<1>13. \A u \in Text : Holds(body, "requestId", u) => Holds(t, "requestId", u)
  <2>1. /\ Clear("type", v1, "requestId") /\ Clear("id", v2, "requestId")
        /\ Clear("ok", v3, "requestId")
    BY <1>1, <1>2, <1>4 DEF Clear
  <2> QED BY <1>1, <1>2, <1>6, <2>1 DEF Finds
<1>14. ToSet(body) \subseteq ToSet(t)
  <2>1. PICK k : Occurs(body, t, k)
    BY <1>11 DEF Holds, HoldsAt
  <2> QED BY <1>3, <1>7, <2>1, OccursSymbols DEF Piece
<1> QED BY <1>5, <1>7, <1>8, <1>9, <1>10, <1>12, <1>13, <1>14 DEF v3

LEMMA ReplyWithout ==
  ASSUME NEW d \in {"true", "false"}, NEW rest \in {"payload", "error"},
         NEW body, Framed(body)
  PROVE LET t == ReplyOf(d, rest, body)
        IN  /\ d # "true" /\ KeyAt(body, "ok") = 0 =>
                 \A i \in 1 .. Len(t) - 4 :
                   SubSeq(t, i, i + 4) # Saying("ok", "true")
            /\ "PAIRING_REQUIRED" \notin ToSet(body) =>
                 "PAIRING_REQUIRED" \notin ToSet(t)
<1> DEFINE v1 == JsonString(<<"res">>)
           v2 == JsonString(<<"a">>)
           v3 == <<d>>
           n1 == "type"
           n2 == "id"
           n3 == "ok"
           m1 == Member(n1, v1)
           m2 == Member(n2, v2)
           m3 == Member(n3, v3)
           m4 == Member(rest, body)
           ms == <<m1, m2, m3, m4>>
           names == <<n1, n2, n3, rest>>
           values == <<v1, v2, v3, body>>
           t == Object(ms)
           c == "PAIRING_REQUIRED"
<1>1. /\ n1 \in Word /\ n2 \in Word /\ n3 \in Word /\ rest \in Word
      /\ d \in Word /\ c \in Word
  BY ReplyNames
<1>2. v1 \in Piece /\ v2 \in Piece /\ v3 \in Piece /\ body \in Piece
  <2>1. "res" \in Word /\ "a" \in Word
    BY ReplyNames
  <2> QED BY <1>1, <2>1, EventNames DEF Framed
<1>3. /\ v1 = Quoted(<<"res">>) /\ v2 = Quoted(<<"a">>)
      /\ <<"res">> \in Text /\ <<"a">> \in Text
      /\ ToSet(<<"res">>) = {"res"} /\ ToSet(<<"a">>) = {"a"}
      /\ ToSet(v3) = {d}
  <2>1. "res" \in Word /\ "a" \in Word
    BY ReplyNames
  <2> QED BY <1>1, <2>1, EscapeWord, PlainWord DEF Piece
<1>4. /\ c # n1 /\ c # n2 /\ c # n3 /\ c # rest /\ c # d
      /\ c \notin ToSet(v1) /\ c \notin ToSet(v2) /\ c \notin ToSet(v3)
      /\ c # Quote /\ c # Colon /\ c \notin Mark
  <2>1. c # Quote /\ c # Colon /\ c \notin Mark
    BY <1>1, WordFacts
  <2>2. ToSet(v1) = {"res", Quote} /\ ToSet(v2) = {"a", Quote}
    BY <1>3, QuotedText
  <2> HIDE DEF v1, v2, v3
  <2>3. c # "res" /\ c # "a"
    OBVIOUS
  <2>4. /\ c # n1 /\ c # n2 /\ c # n3 /\ c # rest /\ c # d
    OBVIOUS
  <2> HIDE DEF c
  <2> QED BY <1>3, <2>1, <2>2, <2>3, <2>4
<1>5. /\ Free(v1, n3) /\ Free(v2, n3) /\ n1 # n3 /\ n2 # n3 /\ rest # n3
      /\ d # n3
  <2>1. "res" \in Word /\ "a" \in Word
    BY ReplyNames
  <2> QED BY <1>1, <2>1, EventNames, ReplyNames
<1>6. ReplyOf(d, rest, body) = t
  BY DEF ReplyOf, Id
<1>7. /\ n1 \in Name /\ n2 \in Name /\ n3 \in Name /\ rest \in Name
      /\ n3 \in Sought /\ n3 # RightBrace
  BY <1>1, WordFacts
<1> HIDE DEF v1, v2, v3, n1, n2, n3, c
<1>8. m1 \in Text /\ m2 \in Text /\ m3 \in Text /\ m4 \in Text
  BY <1>2, <1>7, PieceMember
<1>9. /\ ms \in Seq(Text) /\ Len(ms) = 4
      /\ ms[1] = m1 /\ names[1] = n1 /\ values[1] = v1
      /\ ms[2] = m2 /\ names[2] = n2 /\ values[2] = v2
      /\ ms[3] = m3 /\ names[3] = n3 /\ values[3] = v3
      /\ ms[4] = m4 /\ names[4] = rest /\ values[4] = body
  <2> HIDE DEF m1, m2, m3, m4
  <2> QED BY <1>8
<1>10. /\ m1 = Member(n1, v1) /\ m2 = Member(n2, v2)
       /\ m3 = Member(n3, v3) /\ m4 = Member(rest, body)
  OBVIOUS
<1> HIDE DEF ms, names, values, m1, m2, m3, m4
<1>11. \A i \in 1 .. Len(ms) : i = 1 \/ i = 2 \/ i = 3 \/ i = 4
  BY <1>9
<1>12. Listed(ms, names, values)
  <2>1. \A i \in 1 .. Len(ms) : /\ names[i] \in Name /\ values[i] \in Piece
                                /\ ms[i] = Member(names[i], values[i])
    BY <1>2, <1>7, <1>9, <1>10, <1>11
  <2>2. Len(ms) > 0
    BY <1>9
  <2> QED BY <1>9, <2>1, <2>2 DEF Listed, Piece
<1>13. ASSUME d # "true", KeyAt(body, n3) = 0
       PROVE \A i \in 1 .. Len(t) - 4 :
               SubSeq(t, i, i + 4) # Saying(n3, "true")
  <2>1. Free(body, n3)
    BY <1>2, <1>7, <1>13, FreeObject DEF Framed, Piece
  <2>2. Free(ms[1], n3) /\ Free(ms[2], n3) /\ Free(ms[4], n3)
    <3>1. \A name \in Name, v \in Piece :
            name # n3 /\ Free(v, n3) => Free(Member(name, v), n3)
      BY <1>7, FreeMember DEF Piece
    <3> QED BY <1>2, <1>5, <1>7, <1>9, <1>10, <2>1, <3>1
  <2> DEFINE k == 3
  <2>3. /\ k \in Nat /\ k >= 1 /\ Len(ms) = k + 1
        /\ \A i \in 1 .. k - 1 : Free(ms[i], n3)
        /\ Free(ms[k + 1], n3)
    <3>1. \A i \in 1 .. 3 - 1 : i = 1 \/ i = 2
      OBVIOUS
    <3> QED BY <1>9, <2>2, <3>1
  <2>4. Len(values[k]) = 1 /\ values[k][1] = d
    BY <1>9 DEF v3
  <2>5. values[k][1] # n3 /\ values[k][1] # "true"
    BY <1>5, <1>13, <2>4
  <2> HIDE DEF k
  <2> DEFINE yes == "true"
  <2> HIDE DEF yes
  <2>6. \A i \in 1 .. Len(t) - 4 : SubSeq(t, i, i + 4) # Saying(n3, yes)
    BY <1>7, <1>12, <2>3, <2>4, <2>5, NotSaid DEF yes
  <2> QED BY <2>6 DEF yes
<1>14. ASSUME c \notin ToSet(body) PROVE c \notin ToSet(t)
  <2>1. /\ c \notin ToSet(m1) /\ c \notin ToSet(m2) /\ c \notin ToSet(m3)
        /\ c \notin ToSet(m4)
    <3>1. \A name \in Name, v \in Piece :
            c # name /\ c \notin ToSet(v) => c \notin ToSet(Member(name, v))
      BY <1>4, MemberSymbols DEF Piece
    <3> QED BY <1>2, <1>4, <1>7, <1>10, <1>14, <3>1
  <2>2. \A i \in 1 .. Len(ms) : c \notin ToSet(ms[i])
    BY <1>9, <1>11, <2>1
  <2> QED BY <1>4, <1>9, <2>2, ObjectSymbols
<1> QED BY <1>6, <1>13, <1>14 DEF c, n3

LEMMA PairingRead ==
  ASSUME NEW asked \in Text
  PROVE LET p == PairingError(asked)
        IN  /\ Framed(p)
            /\ Holds(p, "requestId", JsonString(asked))
            /\ "PAIRING_REQUIRED" \in ToSet(p)
<1> DEFINE c == "PAIRING_REQUIRED"
           v1 == JsonString(<<c>>)
           v2 == JsonString(asked)
           p == Object(<<Member("code", v1), Member("requestId", v2)>>)
<1>1. c \in Word /\ "code" \in Word /\ "requestId" \in Word
  BY ReplyNames
<1>2. <<c>> \in Text /\ ToSet(<<c>>) = {c}
  BY <1>1, PlainWord DEF Piece
<1>3. PairingError(asked) = p
  BY DEF PairingError
<1>4. /\ v1 \in Piece /\ Value(v1) /\ v2 \in Piece /\ Value(v2)
      /\ Free(v1, "requestId")
  BY <1>1, <1>2, JsonFacts
<1>5. v1 = Quoted(<<c>>) /\ c \in ToSet(v1)
  <2>1. v1 = Quoted(<<c>>)
    BY <1>1, EscapeWord
  <2> QED BY <1>2, <2>1, QuotedText
<1>6. /\ "code" \in Name /\ "requestId" \in Name
      /\ "code" \in Sought /\ "requestId" \in Sought
  BY <1>1, WordFacts
<1> HIDE DEF c, v1, v2
<1>7. Framed(p)
  BY <1>4, <1>6, TwoFramed
<1>8. \A key \in Sought :
        /\ p \in Piece
        /\ Finds(p, key, "code", v1)
        /\ Clear("code", v1, key) => Finds(p, key, "requestId", v2)
  <2> SUFFICES ASSUME NEW key \in Sought
               PROVE /\ p \in Piece
                     /\ Finds(p, key, "code", v1)
                     /\ Clear("code", v1, key) =>
                          Finds(p, key, "requestId", v2)
    OBVIOUS
  <2> QED BY <1>4, <1>6, Search2
<1> HIDE DEF p
<1>9. Holds(p, "requestId", v2)
  <2>1. Clear("code", v1, "requestId")
    BY <1>4 DEF Clear
  <2> QED BY <1>6, <1>8, <2>1 DEF Finds
<1>10. c \in ToSet(p)
  <2>1. Holds(p, "code", v1)
    BY <1>6, <1>8 DEF Finds
  <2>2. PICK k : Occurs(v1, p, k)
    BY <2>1 DEF Holds, HoldsAt
  <2>3. ToSet(v1) \subseteq ToSet(p)
    BY <1>4, <1>7, <2>2, OccursSymbols DEF Piece, Framed
  <2> QED BY <1>5, <2>3
<1> QED BY <1>3, <1>7, <1>9, <1>10 DEF c, v2

LEMMA ReplyHeard ==
  ASSUME NEW ok \in BOOLEAN, NEW body, Framed(body)
  PROVE LET t == ReplyText(ok, body)
            f == Parse(t)
        IN  /\ f.kind = "response"
            /\ f.id = Id
            /\ KeyAt(body, "ok") = 0 => f.ok = ok
            /\ body = IF ok THEN f.payload ELSE f.error
            /\ "PAIRING_REQUIRED" \notin ToSet(body) =>
                 ParsePairingRequired(t) = NoText
            /\ \A s \in Text :
                 /\ "PAIRING_REQUIRED" \in ToSet(body)
                 /\ Holds(body, "requestId", JsonString(s)) /\ Plain(s)
                 => ParsePairingRequired(t) = s
<1> DEFINE d == IF ok THEN "true" ELSE "false"
           rest == IF ok THEN "payload" ELSE "error"
           t == ReplyText(ok, body)
           f == Parse(t)
           Says == \E i \in 1 .. Len(t) - 4 : SubSeq(t, i, i + 4) = OkTrue
<1>1. /\ d \in {"true", "false"} /\ rest \in {"payload", "error"}
      /\ ok => d = "true" /\ rest = "payload"
      /\ ~ok => d = "false" /\ rest = "error"
  OBVIOUS
<1>2. t = ReplyOf(d, rest, body)
  BY DEF ReplyText, ReplyOf
<1>3. OkTrue = Saying("ok", "true")
  BY DEF OkTrue, Saying, Colon
<1> HIDE DEF d, rest, t
<1>4. /\ t \in Text
      /\ Str(t, "type") = <<"res">>
      /\ Str(t, "id") = Id
      /\ Raw(t, rest) = body
      /\ Holds(t, "ok", <<d>>)
      /\ \A u \in Text : Holds(body, "requestId", u) =>
                           Holds(t, "requestId", u)
      /\ ToSet(body) \subseteq ToSet(t)
  BY <1>1, <1>2, ReplyRead
<1>5. /\ d # "true" /\ KeyAt(body, "ok") = 0 =>
           \A i \in 1 .. Len(t) - 4 :
             SubSeq(t, i, i + 4) # Saying("ok", "true")
      /\ "PAIRING_REQUIRED" \notin ToSet(body) =>
           "PAIRING_REQUIRED" \notin ToSet(t)
  BY <1>1, <1>2, ReplyWithout
<1>6. f = [kind |-> "response", id |-> Str(t, "id"), ok |-> Says,
           payload |-> Raw(t, "payload"), error |-> Raw(t, "error")]
  BY <1>4 DEF Parse
<1>7. ok => Says
  <2> SUFFICES ASSUME ok PROVE Says
    OBVIOUS
  <2>1. Holds(t, "ok", <<"true">>)
    BY <1>1, <1>4
  <2>2. "true" \in Symbol
    BY ReplyNames, WordFacts
  <2>3. \E i \in 1 .. Len(t) - 4 :
          SubSeq(t, i, i + 4) = Saying("ok", "true")
    BY <1>4, <2>1, <2>2, HoldsSaying
  <2> QED BY <1>3, <2>3
<1>8. ~ok /\ KeyAt(body, "ok") = 0 => ~Says
  <2> SUFFICES ASSUME ~ok, KeyAt(body, "ok") = 0 PROVE ~Says
    OBVIOUS
  <2>1. d # "true"
    BY <1>1
  <2> QED BY <1>3, <1>5, <2>1
<1> HIDE DEF Says, f
<1>9. /\ f.kind = "response" /\ f.id = Id /\ f.ok = Says
      /\ f.payload = Raw(t, "payload") /\ f.error = Raw(t, "error")
  BY <1>4, <1>6
<1>10. KeyAt(body, "ok") = 0 => f.ok = ok
  <2>1. Says \in BOOLEAN
    BY DEF Says
  <2> QED BY <1>7, <1>8, <1>9, <2>1
<1>11. body = IF ok THEN f.payload ELSE f.error
  BY <1>1, <1>4, <1>9
<1>12. "PAIRING_REQUIRED" \notin ToSet(body) =>
         ParsePairingRequired(t) = NoText
  BY <1>5 DEF ParsePairingRequired
<1>13. ASSUME NEW s \in Text, "PAIRING_REQUIRED" \in ToSet(body),
              Holds(body, "requestId", JsonString(s)), Plain(s)
       PROVE ParsePairingRequired(t) = s
  <2>1. JsonString(s) \in Text /\ "requestId" \in Word
    BY JsonFacts, ReplyNames DEF Piece
  <2>2. Holds(t, "requestId", JsonString(s))
    BY <1>4, <1>13, <2>1
  <2>3. Field(t, "requestId") = s
    BY <1>4, <1>13, <2>1, <2>2, StringFound
  <2>4. "PAIRING_REQUIRED" \in ToSet(t)
    BY <1>4, <1>13
  <2> QED BY <2>3, <2>4 DEF ParsePairingRequired
<1> QED BY <1>9, <1>10, <1>11, <1>12, <1>13 DEF t, f

\* What was told of an event, and of a reply.
EventAsTold(f, e) ==
  /\ f.kind = "event"
  /\ f.event = e.event
  /\ f.payload = e.payload
  /\ SeqComesFirst(e) => f.seq = IF e.seq = <<"1">> THEN "1" ELSE NoText
ReplyAsTold(f, pairing, r) ==
  /\ f.kind = "response"
  /\ f.id = Id
  /\ KeyAt(r.body, "ok") = 0 => f.ok = r.ok
  /\ r.body = IF r.ok THEN f.payload ELSE f.error
  /\ r.asked = NoText /\ "PAIRING_REQUIRED" \notin ToSet(r.body) =>
       pairing = NoText
  /\ r.asked # NoText /\ Plain(r.asked) => pairing = r.asked

\* What is on its way to the client can be read as it was told.
FrameCarried ==
  /\ /\ at = "client" /\ told.what = "event"
     /\ told.order[1] = "event" /\ told.event = <<"a">>
     => EventAsTold(Parse(text), told)
  /\ at = "client" /\ told.what = "reply" =>
       ReplyAsTold(Parse(text), ParsePairingRequired(text), told)

FrameInv == FrameCarried /\ FrameIsRead

LEMMA EventWritten ==
  ASSUME WriteEvent
  PROVE FrameCarried' /\ FrameIsRead'
<1>1. PICK order \in Orders, name \in Names, payload \in Payloads,
           seq \in Numbers :
        Write([what |-> "event", order |-> order, event |-> name,
               payload |-> payload, seq |-> seq],
              EventText(order, name, payload, seq), "client")
  BY DEF WriteEvent
<1> DEFINE t == EventText(order, name, payload, seq)
           e == [what |-> "event", order |-> order, event |-> name,
                 payload |-> payload, seq |-> seq]
<1>2. at' = "client" /\ told' = e /\ text' = t
  BY <1>1 DEF Write
<1>3. ASSUME order[1] = "event", name = <<"a">>
      PROVE EventAsTold(Parse(t), e)
  <2> DEFINE c == "a"
             Wanted == IF seq = <<"1">> THEN "1" ELSE NoText
  <2>1. c \in Others
    BY DEF Others, Word
  <2>2. Framed(payload)
    BY PayloadFramed
  <2>3. name = <<c>>
    BY <1>3
  <2> HIDE DEF c
  <2>4. /\ ReadsEvent(t, c, payload)
        /\ \/ order[2] = "seq" /\ seq # NoText
           \/ KeyAt(payload, "seq") = 0
           => Natural(t, "seq") = Wanted
    BY <1>3, <2>1, <2>2, <2>3, EventHeard
  <2> HIDE DEF t, Wanted
  <2>5. Parse(t) = [kind |-> "event", event |-> <<c>>, payload |-> payload,
                    seq |-> Natural(t, "seq")]
    BY <2>4, ParseEvent
  <2>6. /\ e.order = order /\ e.event = name /\ e.payload = payload
        /\ e.seq = seq
    OBVIOUS
  <2> HIDE DEF e
  <2>7. SeqComesFirst(e) => \/ order[2] = "seq" /\ seq # NoText
                            \/ KeyAt(payload, "seq") = 0
    BY <2>6 DEF SeqComesFirst
  <2> QED BY <2>3, <2>4, <2>5, <2>6, <2>7 DEF EventAsTold, Wanted
<1>4. /\ told'.what = "event" /\ told'.order = order /\ told'.event = name
      /\ told'.what # "reply"
  BY <1>2
<1> HIDE DEF t, e
<1>5. FrameCarried'
  <2>1. order[1] = "event" /\ name = <<"a">> => EventAsTold(Parse(text'), told')
    BY <1>2, <1>3
  <2> QED BY <1>2, <1>4, <2>1 DEF FrameCarried, EventAsTold, SeqComesFirst
<1> QED BY <1>2, <1>5 DEF FrameIsRead

LEMMA ReplyWritten ==
  ASSUME WriteReply
  PROVE FrameCarried' /\ FrameIsRead'
<1> DEFINE Sent(ok, body, asked) ==
      /\ at' = "client"
      /\ told' = [what |-> "reply", ok |-> ok, body |-> body,
                  asked |-> asked]
      /\ text' = ReplyText(ok, body)
    Right(ok, body, asked) ==
      ReplyAsTold(Parse(ReplyText(ok, body)),
                  ParsePairingRequired(ReplyText(ok, body)),
                  [what |-> "reply", ok |-> ok, body |-> body,
                   asked |-> asked])
<1>1. ASSUME NEW ok, NEW body, NEW asked, Sent(ok, body, asked),
             Right(ok, body, asked)
      PROVE FrameCarried' /\ FrameIsRead'
  <2>1. told'.what = "reply" /\ told'.what # "event"
    BY <1>1
  <2>2. ReplyAsTold(Parse(text'), ParsePairingRequired(text'), told')
    BY <1>1
  <2>3. FrameCarried'
    BY <1>1, <2>1, <2>2 DEF FrameCarried, ReplyAsTold, Plain
  <2>4. FrameIsRead'
    BY <1>1 DEF FrameIsRead
  <2> QED BY <2>3, <2>4
<1>2. CASE \E ok \in BOOLEAN, body \in Payloads :
             Write([what |-> "reply", ok |-> ok, body |-> body,
                    asked |-> NoText], ReplyText(ok, body), "client")
  <2>1. PICK ok \in BOOLEAN, body \in Payloads : Sent(ok, body, NoText)
    BY <1>2 DEF Write
  <2> DEFINE r == [what |-> "reply", ok |-> ok, body |-> body,
                   asked |-> NoText]
             t == ReplyText(ok, body)
  <2>2. Framed(body)
    BY PayloadFramed
  <2>3. /\ Parse(t).kind = "response"
        /\ Parse(t).id = Id
        /\ KeyAt(body, "ok") = 0 => Parse(t).ok = ok
        /\ body = IF ok THEN Parse(t).payload ELSE Parse(t).error
        /\ "PAIRING_REQUIRED" \notin ToSet(body) =>
             ParsePairingRequired(t) = NoText
    BY <2>2, ReplyHeard
  <2>4. r.ok = ok /\ r.body = body /\ r.asked = NoText
    OBVIOUS
  <2> HIDE DEF r, t
  <2>5. ReplyAsTold(Parse(t), ParsePairingRequired(t), r)
    BY <2>3, <2>4 DEF ReplyAsTold
  <2>6. Right(ok, body, NoText)
    BY <2>5 DEF r, t
  <2> QED BY <1>1, <2>1, <2>6
<1>3. CASE \E asked \in Shorts :
             LET body == PairingError(asked) IN
             Write([what |-> "reply", ok |-> FALSE, body |-> body,
                    asked |-> asked], ReplyText(FALSE, body), "client")
  <2>1. PICK asked \in Shorts : Sent(FALSE, PairingError(asked), asked)
    BY <1>3 DEF Write
  <2> DEFINE body == PairingError(asked)
             r == [what |-> "reply", ok |-> FALSE, body |-> body,
                   asked |-> asked]
             t == ReplyText(FALSE, body)
  <2>2. asked \in Text /\ asked # NoText
    BY StringsAreTexts, NoTextFacts
  <2>3. /\ Framed(body) /\ Holds(body, "requestId", JsonString(asked))
        /\ "PAIRING_REQUIRED" \in ToSet(body)
    BY <2>2, PairingRead
  <2> HIDE DEF body
  <2>4. /\ Parse(t).kind = "response"
        /\ Parse(t).id = Id
        /\ KeyAt(body, "ok") = 0 => Parse(t).ok = FALSE
        /\ body = IF FALSE THEN Parse(t).payload ELSE Parse(t).error
        /\ Plain(asked) => ParsePairingRequired(t) = asked
    BY <2>2, <2>3, ReplyHeard
  <2>5. r.ok = FALSE /\ r.body = body /\ r.asked = asked
    OBVIOUS
  <2> HIDE DEF r, t
  <2>6. ReplyAsTold(Parse(t), ParsePairingRequired(t), r)
    BY <2>2, <2>4, <2>5 DEF ReplyAsTold
  <2>7. Right(FALSE, PairingError(asked), asked)
    BY <2>6 DEF r, t, body
  <2> QED BY <1>1, <2>1, <2>7
<1> QED BY <1>2, <1>3 DEF WriteReply

\* The core reads an event and a reply as the Gateway wrote them, whatever
\* strings of whatever length the payload holds, brackets, quotes and the names
\* of members included, under the conditions FrameIsRead states.
THEOREM FrameIsReadAlways == FlowSpec => []FrameIsRead
<1>1. FlowInit => FrameInv
  BY DEF FlowInit, FrameInv, FrameCarried, FrameIsRead
<1>2. FrameInv /\ [FlowNext]_flowVars => FrameInv'
  <2> SUFFICES ASSUME FrameInv, [FlowNext]_flowVars PROVE FrameInv'
    OBVIOUS
  <2> USE DEF FrameInv
  <2>1. CASE WriteEvent
    BY <2>1, EventWritten
  <2>2. CASE WriteReply
    BY <2>2, ReplyWritten
  <2>3. CASE WriteRequest \/ WriteChallenge \/ WriteHello
    <3>1. at' # "read" /\ told'.what # "event" /\ told'.what # "reply"
      <4>1. CASE WriteRequest
        BY <4>1 DEF WriteRequest, Write, Asks
      <4>2. CASE WriteChallenge
        BY <4>2 DEF WriteChallenge, Write
      <4>3. CASE WriteHello
        BY <4>3 DEF WriteHello, Write
      <4> QED BY <2>3, <4>1, <4>2, <4>3
    <3> QED BY <3>1 DEF FrameCarried, FrameIsRead
  <2>4. CASE ReadEvent
    <3>1. /\ at = "client" /\ told.what = "event" /\ at' = "read"
          /\ told' = told /\ heard' = Parse(text)
      BY <2>4 DEF ReadEvent, Hear
    <3>2. FrameCarried'
      BY <3>1 DEF FrameCarried
    <3>3. FrameIsRead'
      BY <3>1 DEF FrameIsRead, FrameCarried, EventAsTold, SeqComesFirst
    <3> QED BY <3>2, <3>3
  <2>5. CASE ReadReply
    <3>1. /\ at = "client" /\ told.what = "reply" /\ at' = "read"
          /\ told' = told
          /\ heard' = [frame |-> Parse(text),
                       pairing |-> ParsePairingRequired(text)]
      BY <2>5 DEF ReadReply, Hear
    <3>2. FrameCarried'
      BY <3>1 DEF FrameCarried
    <3>3. heard'.frame = Parse(text)
          /\ heard'.pairing = ParsePairingRequired(text)
      BY <3>1
    <3>4. FrameIsRead'
      BY <3>1, <3>3 DEF FrameIsRead, FrameCarried, ReplyAsTold, Plain
    <3> QED BY <3>2, <3>4
  <2>6. CASE GatewayReads \/ AnswerChallenge \/ GatewayReadsAnswer
               \/ StoreToken \/ LoadToken
    <3>1. told.what # "event" /\ told.what # "reply" /\ told' = told
      BY <2>6 DEF GatewayReads, AnswerChallenge, GatewayReadsAnswer,
                  StoreToken, LoadToken, Hear, Pass
    <3> QED BY <3>1 DEF FrameCarried, FrameIsRead
  <2>7. CASE Forget
    <3>1. at' = "nowhere"
      BY <2>7 DEF Forget
    <3> QED BY <3>1 DEF FrameCarried, FrameIsRead
  <2>8. CASE UNCHANGED flowVars
    BY <2>8 DEF flowVars, FrameCarried, FrameIsRead, EventAsTold,
                ReplyAsTold, SeqComesFirst, Plain
  <2> QED
    BY <2>1, <2>2, <2>3, <2>4, <2>5, <2>6, <2>7, <2>8 DEF FlowNext
<1>3. FrameInv => FrameIsRead
  BY DEF FrameInv
<1> QED BY <1>1, <1>2, <1>3, PTL DEF FlowSpec

(***************************************************************************)
(* The challenge and its answer                                            *)
(***************************************************************************)

LEMMA ChallengeHeard ==
  ASSUME NEW nonce \in Text, Plain(nonce),
         NEW d \in {"1", "huge", "-1"}
  PROVE Challenge(ChallengeText(nonce, <<d>>)) =
          IF nonce = <<>> \/ d # "1" THEN NoText
          ELSE [nonce |-> nonce, ts |-> d]
<1> DEFINE c == "connect.challenge"
           v1 == JsonString(nonce)
           v2 == <<d>>
           payload == Object(<<Member("nonce", v1), Member("ts", v2)>>)
           order == <<"event", "payload", "seq">>
           t == EventText(order, <<c>>, payload, NoText)
           f == Parse(t)
           Wanted == IF d \in {"1", "2"} THEN d ELSE NoText
<1>1. /\ c \in Others /\ d \in Word /\ "nonce" \in Word /\ "ts" \in Word
      /\ ((d \in {"1", "2"}) <=> d = "1")
  BY DEF Others, Word
<1>2. v1 \in Piece /\ Value(v1) /\ v2 \in Piece /\ Value(v2)
  BY <1>1, JsonFacts, PlainWord
<1>3. Ending(v1, "ts")
  BY <1>1, StringEnds
<1>4. /\ "nonce" \in Name /\ "ts" \in Name
      /\ "nonce" \in Sought /\ "ts" \in Sought
  BY <1>1, WordFacts
<1>5. ChallengeText(nonce, <<d>>) = t
  BY DEF ChallengeText
<1>6. order \in Orders /\ order[1] = "event" /\ NoText \in Numbers
  BY DEF Orders, Numbers
<1> HIDE DEF c, v1, v2, order
<1>7. Framed(payload)
  BY <1>2, <1>4, TwoFramed
<1>8. \A key \in Sought :
        /\ payload \in Piece
        /\ Finds(payload, key, "nonce", v1)
        /\ Beside(payload, key, "nonce", v1, "ts", v2)
  <2> SUFFICES ASSUME NEW key \in Sought
               PROVE /\ payload \in Piece
                     /\ Finds(payload, key, "nonce", v1)
                     /\ Beside(payload, key, "nonce", v1, "ts", v2)
    OBVIOUS
  <2> QED BY <1>2, <1>4, Search2
<1> HIDE DEF payload, Wanted
<1>9. Str(payload, "nonce") = nonce
  <2>1. Holds(payload, "nonce", v1) /\ payload \in Text
    BY <1>4, <1>8 DEF Finds, Piece
  <2> QED BY <1>1, <2>1, StringFound DEF v1
<1>10. Natural(payload, "ts") = Wanted
  <2>1. Holds(payload, "ts", v2) /\ payload \in Text
    BY <1>3, <1>4, <1>8 DEF Beside, Piece
  <2>2. Found(payload, "ts", <<d>>) /\ d \in Symbol
    BY <1>1, <2>1, HoldsFound, WordFacts DEF v2
  <2> QED BY <2>1, <2>2, NaturalFound DEF Wanted
<1>11. ReadsEvent(t, c, payload)
  BY <1>1, <1>6, <1>7, EventHeard
<1> HIDE DEF t
<1>12. f = [kind |-> "event", event |-> <<c>>, payload |-> payload,
            seq |-> Natural(t, "seq")]
  BY <1>11, ParseEvent
<1> HIDE DEF f
<1>13. f.kind = "event" /\ f.event = <<"connect.challenge">>
       /\ f.payload = payload
  BY <1>12 DEF c
<1>14. Challenge(t) = IF nonce # <<>> /\ Wanted # NoText
                      THEN [nonce |-> nonce, ts |-> Wanted]
                      ELSE NoText
  <2>1. [nonce |-> Str(f.payload, "nonce"), ts |-> Natural(f.payload, "ts")]
          = [nonce |-> nonce, ts |-> Wanted]
    BY <1>9, <1>10, <1>13
  <2> QED BY <1>13, <2>1 DEF Challenge, f
<1>15. d # NoText
  BY <1>1, NoTextFacts, WordFacts
<1> QED BY <1>1, <1>5, <1>14, <1>15 DEF Wanted

LEMMA AnswerRead ==
  ASSUME NEW token \in Text, NEW nonce \in Text, Plain(nonce), NEW d \in Word
  PROVE LET t == Connect(Id, token, DeviceJson([nonce |-> nonce, ts |-> d]))
            params == ValueOf(t, "params")
            device == ValueOf(params, "device")
        IN  /\ StringOf(ValueOf(ValueOf(params, "auth"), "token")) = token
            /\ StringOf(ValueOf(device, "nonce")) = nonce
            /\ ValueOf(device, "signedAt") = <<d>>
<1> DEFINE v1 == Quoted(Escape(token))
           auth == Object(<<Member("token", v1)>>)
           v2 == <<d>>
           v3 == Quoted(Esc(nonce))
           device == Object(<<Member("signedAt", v2), Member("nonce", v3)>>)
           params == Object(<<Member("auth", auth), Member("device", device)>>)
           t == Request(Id, "connect", params)
<1>1. /\ "token" \in Name /\ "signedAt" \in Name /\ "nonce" \in Name
      /\ "auth" \in Name /\ "device" \in Name /\ "connect" \in Name
  <2>1. {"token", "signedAt", "nonce", "auth", "device", "connect"}
          \subseteq Word
    BY DEF Word
  <2> QED BY <2>1, WordFacts
<1>2. /\ Value(v1) /\ StringOf(v1) = token /\ Value(v2)
  BY Escaping, PlainWord
<1>3. Value(v3) /\ StringOf(v3) = nonce
  <2>1. "return" \notin ToSet(nonce) /\ "tab" \notin ToSet(nonce)
        /\ "ctl" \notin ToSet(nonce)
    BY DEF Plain
  <2>2. Control = {"newline", "return", "tab", "ctl"}
    BY DEF Control, ControlEscape
  <2>3. /\ ToSet(Esc(nonce)) \cap Control \subseteq ToSet(nonce) \ {"newline"}
        /\ Codes(Esc(nonce), nonce, JsonEscape)
    BY <2>1, EscCodes, Tables
  <2>4. ToSet(Esc(nonce)) \cap Control = {}
    BY <2>1, <2>2, <2>3
  <2> QED BY <2>3, <2>4, QuotedValue, StringRead, Tables
<1>4. Connect(Id, token, DeviceJson([nonce |-> nonce, ts |-> d])) = t
  BY DEF Connect, DeviceJson, Escaped
<1> HIDE DEF v1, v2, v3
<1>5. Value(auth) /\ ValueOf(auth, "token") = v1
  BY <1>1, <1>2, OneMember
<1> HIDE DEF auth
<1>6. /\ Value(device) /\ ValueOf(device, "signedAt") = v2
      /\ ValueOf(device, "nonce") = v3
  <2>1. "signedAt" # "nonce"
    OBVIOUS
  <2> QED BY <1>1, <1>2, <1>3, <2>1, TwoMembers
<1> HIDE DEF device
<1>7. /\ Value(params) /\ ValueOf(params, "auth") = auth
      /\ ValueOf(params, "device") = device
  <2>1. "auth" # "device"
    OBVIOUS
  <2> QED BY <1>1, <1>5, <1>6, <2>1, TwoMembers
<1> HIDE DEF params
<1>8. ValueOf(t, "params") = params
  BY <1>1, <1>7, RequestIsRead
<1> QED BY <1>2, <1>3, <1>4, <1>5, <1>6, <1>7, <1>8 DEF v2

(***************************************************************************)
(* The device token                                                        *)
(***************************************************************************)

LEMMA HelloNames ==
  /\ {"type", "res", "ok", "true", "payload", "hello-ok", "auth",
      "deviceToken", "role", "scopes", "version", "1", "token", "a"}
       \subseteq Word
  /\ \A key \in {"deviceToken", "role", "scopes"} :
       /\ key \in Word
       /\ key # "type" /\ key # "res" /\ key # "ok" /\ key # "true"
       /\ key # "payload" /\ key # "hello-ok" /\ key # "auth"
BY DEF Word

\* An array of strings, as the Gateway and the token file write it.
LEMMA ArrayPiece ==
  ASSUME NEW vs \in Seq(Text)
  PROVE Array(vs) \in Piece
BY ArrayText DEF Piece

LEMMA PairIsTexts ==
  ASSUME NEW a \in Text, NEW b \in Text
  PROVE /\ <<a, b>> \in Seq(Text)
        /\ Len(<<a, b>>) = 2
        /\ <<a, b>>[1] = a /\ <<a, b>>[2] = b
OBVIOUS

\* What the core finds by these names in a hello is what stands in its auth.
LEMMA HelloHolds ==
  ASSUME NEW auth \in Piece, NEW key \in {"deviceToken", "role", "scopes"}
  PROVE LET payload == Object(<<Member("type", JsonString(<<"hello-ok">>)),
                                Member("auth", auth)>>)
            t == Object(<<Member("type", JsonString(<<"res">>)),
                          Member("ok", <<"true">>),
                          Member("payload", payload)>>)
        IN  /\ t \in Text
            /\ \A u \in Text : Holds(auth, key, u) => Holds(t, key, u)
<1> DEFINE v1 == JsonString(<<"hello-ok">>)
           payload == Object(<<Member("type", v1), Member("auth", auth)>>)
           u1 == JsonString(<<"res">>)
           u2 == <<"true">>
           t == Object(<<Member("type", u1), Member("ok", u2),
                         Member("payload", payload)>>)
<1>1. /\ "type" \in Word /\ "res" \in Word /\ "ok" \in Word /\ "true" \in Word
      /\ "payload" \in Word /\ "hello-ok" \in Word /\ "auth" \in Word
      /\ key \in Word
      /\ key # "type" /\ key # "res" /\ key # "ok" /\ key # "true"
      /\ key # "payload" /\ key # "hello-ok" /\ key # "auth"
  BY HelloNames
<1>2. /\ v1 \in Piece /\ u1 \in Piece /\ u2 \in Piece
      /\ Free(v1, key) /\ Free(u1, key) /\ Free(u2, key)
  BY <1>1, EventNames
<1>3. /\ "type" \in Name /\ "ok" \in Name /\ "payload" \in Name
      /\ "auth" \in Name /\ key \in Sought
  BY <1>1, WordFacts
<1>4. /\ Clear("type", v1, key) /\ Clear("type", u1, key)
      /\ Clear("ok", u2, key)
  BY <1>1, <1>2 DEF Clear
<1> HIDE DEF v1, u1, u2
<1>5. payload \in Piece /\ Finds(payload, key, "auth", auth)
  BY <1>2, <1>3, <1>4, Search2
<1> HIDE DEF payload
<1>6. t \in Piece /\ Finds(t, key, "payload", payload)
  BY <1>2, <1>3, <1>4, <1>5, Search3
<1>7. ASSUME NEW u \in Text, Holds(auth, key, u) PROVE Holds(t, key, u)
  <2>1. Holds(payload, key, u)
    BY <1>1, <1>5, <1>7 DEF Finds
  <2> HIDE DEF t
  <2> QED BY <1>1, <1>6, <2>1 DEF Finds
<1> QED BY <1>6, <1>7 DEF Piece, payload, v1, u1, u2

LEMMA HelloHeard ==
  ASSUME NEW token \in Text, NEW role \in Text, NEW scope \in Text
  PROVE LET t == HelloText(token, role, scope)
        IN  /\ t \in Text
            /\ Field(t, "deviceToken") = Heard(token, FieldEscape)
            /\ Field(t, "role") = Heard(role, FieldEscape)
            /\ "scopes" \notin ToSet(token) /\ Bare(scope) =>
                 ArrayField(t, "scopes") = <<scope, Id>>
<1> DEFINE v1 == JsonString(token)
           v2 == JsonString(role)
           w1 == JsonString(scope)
           w2 == JsonString(Id)
           v3 == Array(<<w1, w2>>)
           auth == Object(<<Member("deviceToken", v1), Member("role", v2),
                            Member("scopes", v3)>>)
           t == HelloText(token, role, scope)
<1>1. /\ "deviceToken" \in Word /\ "role" \in Word /\ "scopes" \in Word
      /\ "a" \in Word
  BY HelloNames
<1>2. Id \in Text /\ ToSet(Id) = {"a"} /\ JsonString(Id) = Quoted(Id)
  BY <1>1, PlainWord, EscapeWord DEF Id, Piece
<1>3. v1 \in Piece /\ v2 \in Piece /\ w1 \in Piece /\ w2 \in Piece
  BY <1>2, JsonFacts
<1>4. /\ Ending(v1, "role") /\ Ending(v2, "scopes")
      /\ "scopes" \notin ToSet(token) => Free(v1, "scopes")
  BY <1>1, JsonFacts, StringEnds
<1>5. /\ "deviceToken" \in Name /\ "role" \in Name /\ "scopes" \in Name
      /\ "deviceToken" \in Sought /\ "role" \in Sought /\ "scopes" \in Sought
      /\ "scopes" # "["
  BY <1>1, WordFacts
<1>6. v3 \in Piece
  <2> HIDE DEF w1, w2
  <2>1. <<w1, w2>> \in Seq(Text)
    BY <1>3, PairIsTexts DEF Piece
  <2> QED BY <2>1, ArrayPiece
<1> HIDE DEF v1, v2, v3
<1>7. \A key \in Sought :
        /\ auth \in Piece
        /\ Finds(auth, key, "deviceToken", v1)
        /\ Beside(auth, key, "deviceToken", v1, "role", v2)
        /\ Clear("deviceToken", v1, key) =>
             Beside(auth, key, "role", v2, "scopes", v3)
  <2> SUFFICES ASSUME NEW key \in Sought
               PROVE /\ auth \in Piece
                     /\ Finds(auth, key, "deviceToken", v1)
                     /\ Beside(auth, key, "deviceToken", v1, "role", v2)
                     /\ Clear("deviceToken", v1, key) =>
                          Beside(auth, key, "role", v2, "scopes", v3)
    OBVIOUS
  <2> QED BY <1>3, <1>5, <1>6, Search3
<1>8. /\ t \in Text
      /\ \A key \in {"deviceToken", "role", "scopes"} :
           \A u \in Text : Holds(auth, key, u) => Holds(t, key, u)
  <2>1. auth \in Piece
    BY <1>5, <1>7
  <2>2. t = Object(<<Member("type", JsonString(<<"res">>)),
                     Member("ok", <<"true">>),
                     Member("payload",
                            Object(<<Member("type", JsonString(<<"hello-ok">>)),
                                     Member("auth", auth)>>))>>)
    BY DEF HelloText, v1, v2, v3
  <2> HIDE DEF auth, t
  <2> QED BY <2>1, <2>2, HelloHolds
<1> HIDE DEF auth, t
<1>9. Field(t, "deviceToken") = Heard(token, FieldEscape)
  <2>1. Holds(auth, "deviceToken", v1)
    BY <1>5, <1>7 DEF Finds
  <2>2. Holds(t, "deviceToken", v1)
    BY <1>3, <1>8, <2>1 DEF Piece
  <2> QED BY <1>1, <1>8, <2>2, StringFound DEF v1
<1>10. Field(t, "role") = Heard(role, FieldEscape)
  <2>1. Holds(auth, "role", v2)
    BY <1>4, <1>5, <1>7 DEF Beside
  <2>2. Holds(t, "role", v2)
    BY <1>3, <1>8, <2>1 DEF Piece
  <2> QED BY <1>1, <1>8, <2>2, StringFound DEF v2
<1>11. ASSUME "scopes" \notin ToSet(token), Bare(scope)
       PROVE ArrayField(t, "scopes") = <<scope, Id>>
  <2>1. Clear("deviceToken", v1, "scopes")
    BY <1>4, <1>11 DEF Clear
  <2>2. Holds(auth, "scopes", v3)
    BY <1>4, <1>5, <1>7, <2>1 DEF Beside
  <2>3. Holds(t, "scopes", v3)
    BY <1>6, <1>8, <2>2 DEF Piece
  <2>4. ToSet(scope) \cap (Control \cup {Quote, Backslash, "]"}) = {}
    BY <1>11 DEF Bare
  <2>5. JsonString(scope) = Quoted(scope)
    <3>1. ToSet(scope) \cap (Control \cup {Quote, Backslash}) = {}
      BY <2>4
    <3>2. Escape(scope) = scope
      BY <3>1, Unescaped
    <3> QED BY <3>2, JsonStringIs
  <2>6. Holds(t, "scopes", Array(<<Quoted(scope), Quoted(Id)>>))
    BY <1>2, <2>3, <2>5 DEF v3
  <2>7. Apart(scope) /\ Apart(Id)
    <3>1. "a" # Quote /\ "a" # "]"
      BY DEF Quote
    <3> QED BY <1>2, <2>4, <3>1 DEF Apart
  <2> QED BY <1>2, <1>5, <1>8, <2>6, <2>7, ArrayHeard
<1> QED BY <1>8, <1>9, <1>10, <1>11 DEF t

LEMMA PairMapped ==
  ASSUME NEW F(_), NEW a, NEW b
  PROVE [i \in DOMAIN <<a, b>> |-> F(<<a, b>>[i])] = <<F(a), F(b)>>
<1> DEFINE s == <<a, b>>
           f == [i \in DOMAIN s |-> F(s[i])]
           v == <<F(a), F(b)>>
<1>1. DOMAIN s = 1 .. 2 /\ s[1] = a /\ s[2] = b
  OBVIOUS
<1>2. v = [i \in 1 .. 2 |-> v[i]] /\ v[1] = F(a) /\ v[2] = F(b)
  OBVIOUS
<1> HIDE DEF s, v
<1>3. f = [i \in 1 .. 2 |-> F(s[i])]
  BY <1>1
<1>4. \A i \in 1 .. 2 : i = 1 \/ i = 2
  OBVIOUS
<1>5. \A i \in 1 .. 2 : F(s[i]) = v[i]
  BY <1>1, <1>2, <1>4
<1>6. f = v
  BY <1>2, <1>3, <1>5
<1> QED BY <1>6 DEF s, v

\* The token file is read as it was written.
LEMMA FileRead ==
  ASSUME NEW token \in Text, NEW r \in Text, NEW ss \in Seq(Text)
  PROVE LET f == TokenFile([token |-> token, role |-> r, scopes |-> ss])
        IN  /\ f \in Text
            /\ Codes(Esc(token), token, FieldEscape) =>
                 Field(f, "token") = token
            /\ /\ Codes(Esc(token), token, FieldEscape)
               /\ Codes(Esc(r), r, FieldEscape)
               => Field(f, "role") = r
            /\ \A e, g \in Text :
                 /\ "scopes" \notin ToSet(Esc(token))
                 /\ Codes(Esc(r), r, FieldEscape)
                 /\ ss = <<e, g>> /\ Esc(e) = e /\ Esc(g) = g
                 /\ Apart(e) /\ Apart(g)
                 => ArrayField(f, "scopes") = <<e, g>>
<1> DEFINE v1 == <<"1">>
           v2 == Quoted(Esc(token))
           v3 == Quoted(Esc(r))
           ws == [i \in DOMAIN ss |-> Quoted(Esc(ss[i]))]
           v4 == Array(ws)
           f == Object(<<Member("version", v1), Member("token", v2),
                         Member("role", v3), Member("scopes", v4)>>)
<1>1. /\ "version" \in Word /\ "1" \in Word /\ "token" \in Word
      /\ "role" \in Word /\ "scopes" \in Word
  BY HelloNames
<1>2. Esc(token) \in Text /\ Esc(r) \in Text
  BY EscText
<1>3. /\ v1 \in Piece /\ v2 \in Piece /\ v3 \in Piece
      /\ Free(v1, "token") /\ Free(v1, "role") /\ Free(v1, "scopes")
  BY <1>1, <1>2, PlainWord, FreeQuoted
<1>4. /\ Codes(Esc(token), token, FieldEscape) => Ending(v2, "role")
      /\ "scopes" \notin ToSet(Esc(token)) => Free(v2, "scopes")
      /\ Codes(Esc(r), r, FieldEscape) => Ending(v3, "scopes")
  BY <1>1, <1>2, CodesEnd, FreeQuoted, WordFacts
<1>5. v4 \in Piece
  <2> DEFINE W(i) == Quoted(Esc(ss[i]))
  <2>1. Len(ss) \in Nat /\ DOMAIN ss = 1 .. Len(ss)
        /\ \A i \in 1 .. Len(ss) : ss[i] \in Text
    BY LenProperties, ElementOfSeq
  <2>2. \A i \in 1 .. Len(ss) : W(i) \in Text
    BY <2>1, EscText, QuotedText
  <2>3. ws = [i \in 1 .. Len(ss) |-> W(i)]
    BY <2>1
  <2> HIDE DEF W, ws
  <2>4. ws \in Seq(Text)
    BY <2>1, <2>2, <2>3, IsASeq
  <2> QED BY <2>4, ArrayPiece
<1>6. TokenFile([token |-> token, role |-> r, scopes |-> ss]) = f
  BY DEF TokenFile
<1>7. /\ "version" \in Name /\ "token" \in Name /\ "role" \in Name
      /\ "scopes" \in Name /\ "token" \in Sought /\ "role" \in Sought
      /\ "scopes" \in Sought /\ "scopes" # "["
  BY <1>1, WordFacts
<1> HIDE DEF v1, v2, v3, v4, ws
<1>8. \A key \in Sought :
        /\ f \in Piece
        /\ Clear("version", v1, key) => Finds(f, key, "token", v2)
        /\ Clear("version", v1, key)
             => Beside(f, key, "token", v2, "role", v3)
        /\ Clear("version", v1, key) /\ Clear("token", v2, key)
             => Beside(f, key, "role", v3, "scopes", v4)
  <2> SUFFICES ASSUME NEW key \in Sought
               PROVE /\ f \in Piece
                     /\ Clear("version", v1, key) => Finds(f, key, "token", v2)
                     /\ Clear("version", v1, key)
                          => Beside(f, key, "token", v2, "role", v3)
                     /\ Clear("version", v1, key) /\ Clear("token", v2, key)
                          => Beside(f, key, "role", v3, "scopes", v4)
    OBVIOUS
  <2> QED BY <1>3, <1>5, <1>7, Search4, ZenonT(60)
<1> HIDE DEF f
<1>9. f \in Text /\ Table(FieldEscape)
  BY <1>7, <1>8, Escapes DEF Piece, Knows
<1>10. \A key \in {"token", "role", "scopes"} : Clear("version", v1, key)
  BY <1>3 DEF Clear
<1>11. ASSUME Codes(Esc(token), token, FieldEscape)
       PROVE Field(f, "token") = token
  <2>1. Holds(f, "token", v2)
    BY <1>7, <1>8, <1>10 DEF Finds
  <2>2. Found(f, "token", v2)
    BY <1>1, <1>9, <2>1, HoldsFound, WordFacts
  <2>3. SpelledAt(f, "token", FieldEscape) = token
    BY <1>9, <1>11, <2>2, SpelledFound DEF v2
  <2> QED BY <2>3 DEF Field, FieldEscape
<1>12. ASSUME Codes(Esc(token), token, FieldEscape),
              Codes(Esc(r), r, FieldEscape)
       PROVE Field(f, "role") = r
  <2>1. Holds(f, "role", v3)
    BY <1>4, <1>7, <1>8, <1>10, <1>12 DEF Beside
  <2>2. Found(f, "role", v3)
    BY <1>1, <1>9, <2>1, HoldsFound, WordFacts
  <2>3. SpelledAt(f, "role", FieldEscape) = r
    BY <1>9, <1>12, <2>2, SpelledFound DEF v3
  <2> QED BY <2>3 DEF Field, FieldEscape
<1>13. ASSUME NEW e \in Text, NEW g \in Text,
              "scopes" \notin ToSet(Esc(token)), Codes(Esc(r), r, FieldEscape),
              ss = <<e, g>>, Esc(e) = e, Esc(g) = g, Apart(e), Apart(g)
       PROVE ArrayField(f, "scopes") = <<e, g>>
  <2>1. Clear("token", v2, "scopes")
    BY <1>4, <1>13 DEF Clear
  <2>2. Holds(f, "scopes", v4)
    BY <1>4, <1>7, <1>8, <1>10, <1>13, <2>1 DEF Beside
  <2>3. v4 = Array(<<Quoted(e), Quoted(g)>>)
    <3> DEFINE F(x) == Quoted(Esc(x))
    <3>1. ws = [i \in DOMAIN <<e, g>> |-> F(<<e, g>>[i])]
      BY <1>13 DEF ws
    <3>2. F(e) = Quoted(e) /\ F(g) = Quoted(g)
      BY <1>13
    <3> HIDE DEF F
    <3>3. ws = <<F(e), F(g)>>
      BY <3>1, PairMapped
    <3> QED BY <3>2, <3>3 DEF v4
  <2>4. Holds(f, "scopes", Array(<<Quoted(e), Quoted(g)>>))
    BY <2>2, <2>3
  <2> QED BY <1>7, <1>9, <1>13, <2>4, ArrayHeard
<1> QED BY <1>6, <1>9, <1>11, <1>12, <1>13

\* What was told of a token.
HelloAsTold(d, m) ==
  IF m.token = <<>> THEN d = NoText
  ELSE /\ d.token = m.token
       /\ Plain(m.role) => d.role = m.role
       /\ "scopes" \notin ToSet(m.token) /\ Bare(m.scopes[1]) =>
            d.scopes = m.scopes

LEMMA HelloKept ==
  ASSUME NEW token \in Text, NEW role \in Text, NEW scope \in Text,
         Plain(token)
  PROVE LET d == ReadToken(HelloText(token, role, scope), "deviceToken")
            m == [what |-> "hello", token |-> token, role |-> role,
                  scopes |-> <<scope, Id>>]
        IN  /\ HelloAsTold(d, m)
            /\ token # <<>> =>
                 HelloAsTold(ReadToken(TokenFile(d), "token"), m)
<1> DEFINE t == HelloText(token, role, scope)
           r == Field(t, "role")
           ss == ArrayField(t, "scopes")
           d == ReadToken(t, "deviceToken")
           f == TokenFile(d)
           k == ReadToken(f, "token")
           m == [what |-> "hello", token |-> token, role |-> role,
                 scopes |-> <<scope, Id>>]
           h == Heard(role, FieldEscape)
<1>1. /\ t \in Text
      /\ Field(t, "deviceToken") = token
      /\ r = h
      /\ "scopes" \notin ToSet(token) /\ Bare(scope) => ss = <<scope, Id>>
  BY HelloHeard, HeardPlain
<1>2. m.token = token /\ m.role = role /\ m.scopes = <<scope, Id>>
      /\ m.scopes[1] = scope
  OBVIOUS
<1>3. Plain(role) => h = role
  BY HeardPlain
<1>4. /\ token = <<>> => d = NoText
      /\ token # <<>> => d = [token |-> token, role |-> r, scopes |-> ss]
  BY <1>1 DEF ReadToken
<1> HIDE DEF m, t, d, h
<1>5. CASE token = <<>>
  BY <1>2, <1>4, <1>5 DEF HelloAsTold, m, t, d
<1>6. CASE token # <<>>
  <2>1. /\ d = [token |-> token, role |-> r, scopes |-> ss]
        /\ d.token = token /\ d.role = r /\ d.scopes = ss
    BY <1>4, <1>6
  <2>2. HelloAsTold(d, m)
    BY <1>1, <1>2, <1>3, <1>6, <2>1 DEF HelloAsTold
  <2>3. r \in Text /\ ss \in Seq(Text)
    BY <1>1, FieldText, ArrayFieldType
  <2> HIDE DEF r, ss
  <2>4. "scopes" \notin Letters \cup {Backslash}
    BY HelloNames, WordFacts
  <2>5. /\ Codes(Esc(token), token, FieldEscape)
        /\ ToSet(Esc(token))
             \subseteq ToSet(token) \cup {Backslash} \cup Letters
    BY HeardAgain, HeardPlain
  <2>6. Codes(Esc(r), r, FieldEscape) /\ r = h
    <3>1. Codes(Esc(h), h, FieldEscape)
      BY HeardAgain DEF h
    <3> QED BY <1>1, <3>1 DEF r
  <2>7. /\ f \in Text
        /\ Codes(Esc(token), token, FieldEscape) => Field(f, "token") = token
        /\ /\ Codes(Esc(token), token, FieldEscape)
           /\ Codes(Esc(r), r, FieldEscape)
           => Field(f, "role") = r
        /\ \A e, g \in Text :
             /\ "scopes" \notin ToSet(Esc(token))
             /\ Codes(Esc(r), r, FieldEscape)
             /\ ss = <<e, g>> /\ Esc(e) = e /\ Esc(g) = g
             /\ Apart(e) /\ Apart(g)
             => ArrayField(f, "scopes") = <<e, g>>
    BY <2>1, <2>3, FileRead
  <2> HIDE DEF f
  <2>8. Field(f, "token") = token /\ Field(f, "role") = r
    BY <2>5, <2>6, <2>7
  <2>9. /\ k = [token |-> token, role |-> Field(f, "role"),
                scopes |-> ArrayField(f, "scopes")]
        /\ k.token = token /\ k.role = r /\ k.scopes = ArrayField(f, "scopes")
    BY <1>6, <2>8 DEF ReadToken
  <2> HIDE DEF k
  <2>10. ASSUME "scopes" \notin ToSet(token), Bare(scope)
         PROVE k.scopes = <<scope, Id>>
    <3>1. /\ Id \in Text /\ ToSet(Id) = {"a"}
          /\ "a" \notin Control \cup {Quote, Backslash} /\ "a" # "]"
      <4>1. "a" \in Word /\ "a" # "]"
        BY HelloNames
      <4> QED BY <4>1, PlainWord, WordFacts DEF Id, Piece
    <3>2. ToSet(scope) \cap (Control \cup {Quote, Backslash, "]"}) = {}
      BY <2>10 DEF Bare
    <3>3. Apart(scope) /\ Apart(Id)
      BY <3>1, <3>2 DEF Apart
    <3>4. /\ ToSet(scope) \cap (Control \cup {Quote, Backslash}) = {}
          /\ ToSet(Id) \cap (Control \cup {Quote, Backslash}) = {}
      BY <3>1, <3>2
    <3>5. Esc(scope) = scope /\ Esc(Id) = Id
      BY <3>1, <3>4, Unescaped
    <3>6. ss = <<scope, Id>>
      BY <1>1, <2>10 DEF ss
    <3>7. "scopes" \notin ToSet(Esc(token))
      BY <2>4, <2>5, <2>10
    <3> QED BY <2>6, <2>7, <2>9, <3>1, <3>3, <3>5, <3>6, <3>7
  <2>11. HelloAsTold(k, m)
    BY <1>2, <1>3, <1>6, <2>6, <2>9, <2>10 DEF HelloAsTold
  <2> QED BY <2>2, <2>11 DEF k, f, d, t, m
<1> QED BY <1>5, <1>6

\* The Gateway finds in t the answer to the challenge that was told.
AnswerAsTold(t, m) ==
  LET params == ValueOf(t, "params")
      device == ValueOf(params, "device")
  IN  /\ StringOf(ValueOf(ValueOf(params, "auth"), "token")) = m.token
      /\ StringOf(ValueOf(device, "nonce")) = m.nonce
      /\ ValueOf(device, "signedAt") = m.ts

\* What connect() makes of the challenge t, and of the hello t.
Answered(t, m) ==
  IF m.nonce = <<>> \/ m.ts # <<"1">> THEN Challenge(t) = NoText
  ELSE /\ Challenge(t) # NoText
       /\ AnswerAsTold(Connect(Id, m.token, DeviceJson(Challenge(t))), m)
Kept(t, m) ==
  LET d == ReadToken(t, "deviceToken")
  IN  /\ HelloAsTold(d, m)
      /\ m.token # <<>> => HelloAsTold(ReadToken(TokenFile(d), "token"), m)

SecretsCarried ==
  /\ told.what = "challenge" /\ Plain(told.nonce) =>
       /\ at = "client" => Answered(text, told)
       /\ at = "gateway" => /\ told.nonce # <<>> /\ told.ts = <<"1">>
                            /\ AnswerAsTold(text, told)
  /\ told.what = "hello" /\ Plain(told.token) =>
       /\ at = "client" => Kept(text, told)
       /\ at = "file" => HelloAsTold(ReadToken(text, "token"), told)

SecretsInv == SecretsCarried /\ SecretsSurvive

LEMMA ChallengeWritten ==
  ASSUME WriteChallenge
  PROVE SecretsCarried' /\ SecretsSurvive'
<1>1. PICK nonce \in Strings, token \in Shorts, ts \in Numbers \ {NoText} :
        Write([what |-> "challenge", token |-> token, nonce |-> nonce,
               ts |-> ts], ChallengeText(nonce, ts), "client")
  BY DEF WriteChallenge
<1> DEFINE t == ChallengeText(nonce, ts)
           m == [what |-> "challenge", token |-> token, nonce |-> nonce,
                 ts |-> ts]
<1>2. at' = "client" /\ told' = m /\ text' = t
  BY <1>1 DEF Write
<1>3. m.token = token /\ m.nonce = nonce /\ m.ts = ts
  OBVIOUS
<1>4. nonce \in Text /\ token \in Text
  BY StringsAreTexts
<1>5. PICK d \in {"1", "huge", "-1"} : ts = <<d>>
  BY DEF Numbers
<1>6. /\ "1" \in Word
      /\ ts = <<"1">> <=> d = "1"
  <2>1. \A x : <<x>>[1] = x
    OBVIOUS
  <2> QED BY <1>5, <2>1, HelloNames
<1> HIDE DEF m
<1>7. ASSUME Plain(nonce) PROVE Answered(t, m)
  <2>1. Challenge(t) = IF nonce = <<>> \/ d # "1" THEN NoText
                       ELSE [nonce |-> nonce, ts |-> d]
    BY <1>4, <1>5, <1>7, ChallengeHeard
  <2> HIDE DEF t
  <2>2. CASE nonce = <<>> \/ d # "1"
    BY <1>3, <1>6, <2>1, <2>2 DEF Answered
  <2>3. CASE ~(nonce = <<>> \/ d # "1")
    <3> DEFINE c == [nonce |-> nonce, ts |-> "1"]
               a == Connect(Id, token, DeviceJson(c))
    <3>1. Challenge(t) = c
      BY <2>1, <2>3
    <3>2. c # NoText
      <4>1. "1" \in Symbol
        BY <1>6, WordFacts
      <4> QED BY <1>4, <4>1, NoTextFacts
    <3>3. AnswerAsTold(a, m)
      <4>1. /\ StringOf(ValueOf(ValueOf(ValueOf(a, "params"), "auth"),
                                "token")) = token
            /\ StringOf(ValueOf(ValueOf(ValueOf(a, "params"), "device"),
                                "nonce")) = nonce
            /\ ValueOf(ValueOf(ValueOf(a, "params"), "device"), "signedAt")
                 = <<"1">>
        BY <1>4, <1>6, <1>7, AnswerRead
      <4>2. m.ts = <<"1">>
        BY <1>3, <1>6, <2>3
      <4> HIDE DEF a, c
      <4> QED BY <1>3, <4>1, <4>2 DEF AnswerAsTold
    <3> HIDE DEF c
    <3> QED BY <1>3, <1>6, <2>3, <3>1, <3>2, <3>3 DEF Answered
  <2> QED BY <2>2, <2>3
<1>8. told'.what = "challenge" /\ told'.what # "hello"
  BY <1>2 DEF m
<1>9. Plain(told'.nonce) => Answered(text', told')
  BY <1>2, <1>3, <1>7
<1> HIDE DEF t
<1>10. SecretsCarried'
  BY <1>2, <1>8, <1>9
     DEF SecretsCarried, Plain, Answered, AnswerAsTold
<1> QED BY <1>2, <1>10 DEF SecretsSurvive

LEMMA HelloWritten ==
  ASSUME WriteHello
  PROVE SecretsCarried' /\ SecretsSurvive'
<1>1. PICK token \in Strings, role \in Shorts, scope \in Shorts :
        Write([what |-> "hello", token |-> token, role |-> role,
               scopes |-> <<scope, Id>>],
              HelloText(token, role, scope), "client")
  BY DEF WriteHello
<1> DEFINE t == HelloText(token, role, scope)
           m == [what |-> "hello", token |-> token, role |-> role,
                 scopes |-> <<scope, Id>>]
<1>2. at' = "client" /\ told' = m /\ text' = t
  BY <1>1 DEF Write
<1>3. token \in Text /\ role \in Text /\ scope \in Text
  BY StringsAreTexts
<1>4. m.token = token
  OBVIOUS
<1>5. Plain(token) => Kept(t, m)
  <2> SUFFICES ASSUME Plain(token) PROVE Kept(t, m)
    OBVIOUS
  <2> DEFINE d == ReadToken(t, "deviceToken")
  <2>1. /\ HelloAsTold(d, m)
        /\ token # <<>> => HelloAsTold(ReadToken(TokenFile(d), "token"), m)
    BY <1>3, HelloKept
  <2> HIDE DEF t, m
  <2> QED BY <1>4, <2>1 DEF Kept
<1>6. told'.what = "hello" /\ told'.what # "challenge"
  BY <1>2
<1> HIDE DEF m, t
<1>7. Plain(told'.token) => Kept(text', told')
  BY <1>2, <1>4, <1>5
<1>8. SecretsCarried'
  BY <1>2, <1>6, <1>7 DEF SecretsCarried, Plain, Bare, Kept, HelloAsTold
<1> QED BY <1>2, <1>8 DEF SecretsSurvive

\* The device token is read from the hello, kept in the file, read back and
\* sent as it was issued, and the nonce comes back as it was given, whatever
\* strings of whatever length they are, under the conditions SecretsSurvive
\* states.
THEOREM SecretsSurviveAlways == FlowSpec => []SecretsSurvive
<1>1. FlowInit => SecretsInv
  BY DEF FlowInit, SecretsInv, SecretsCarried, SecretsSurvive, Nothing
<1>2. SecretsInv /\ [FlowNext]_flowVars => SecretsInv'
  <2> SUFFICES ASSUME SecretsInv, [FlowNext]_flowVars PROVE SecretsInv'
    OBVIOUS
  <2> USE DEF SecretsInv
  <2>1. CASE WriteChallenge
    BY <2>1, ChallengeWritten
  <2>2. CASE WriteHello
    BY <2>2, HelloWritten
  <2>3. CASE WriteRequest \/ WriteEvent \/ WriteReply
    <3>1. told'.what # "challenge" /\ told'.what # "hello"
      <4>1. CASE WriteRequest
        BY <4>1 DEF WriteRequest, Write, Asks
      <4>2. CASE WriteEvent
        BY <4>2 DEF WriteEvent, Write
      <4>3. CASE WriteReply
        <5>1. \E ok, body, asked :
                told' = [what |-> "reply", ok |-> ok, body |-> body,
                         asked |-> asked]
          BY <4>3, Zenon DEF WriteReply, Write
        <5> QED BY <5>1
      <4> QED BY <2>3, <4>1, <4>2, <4>3
    <3> QED BY <3>1 DEF SecretsCarried, SecretsSurvive
  <2>4. CASE AnswerChallenge
    <3>1. /\ told.what = "challenge" /\ at = "client" /\ told' = told
          /\ \/ /\ Challenge(text) = NoText
                /\ at' = "read" /\ heard' = NoText
             \/ /\ Challenge(text) # NoText
                /\ at' = "gateway"
                /\ text' = Connect(Id, told.token,
                                   DeviceJson(Challenge(text)))
      BY <2>4 DEF AnswerChallenge, Hear, Pass
    <3>2. Plain(told.nonce) => Answered(text, told)
      BY <3>1 DEF SecretsCarried
    <3>3. CASE Challenge(text) = NoText /\ at' = "read" /\ heard' = NoText
      <4>1. Plain(told.nonce) =>
              told.nonce = <<>> \/ told.ts # <<"1">>
        BY <3>2, <3>3 DEF Answered
      <4>2. SecretsCarried'
        BY <3>1, <3>3 DEF SecretsCarried
      <4>3. SecretsSurvive'
        BY <3>1, <3>3, <4>1 DEF SecretsSurvive, Plain
      <4> QED BY <4>2, <4>3
    <3>4. CASE /\ Challenge(text) # NoText /\ at' = "gateway"
               /\ text' = Connect(Id, told.token, DeviceJson(Challenge(text)))
      <4>1. Plain(told.nonce) =>
              /\ told.nonce # <<>> /\ told.ts = <<"1">>
              /\ AnswerAsTold(text', told)
        BY <3>2, <3>4 DEF Answered
      <4>2. SecretsCarried'
        BY <3>1, <3>4, <4>1 DEF SecretsCarried, Plain, AnswerAsTold
      <4>3. SecretsSurvive'
        BY <3>4 DEF SecretsSurvive
      <4> QED BY <4>2, <4>3
    <3> QED BY <3>1, <3>3, <3>4
  <2>5. CASE GatewayReadsAnswer
    <3> DEFINE params == ValueOf(text, "params")
               device == ValueOf(params, "device")
    <3>1. /\ told.what = "challenge" /\ at = "gateway" /\ at' = "read"
          /\ told' = told
          /\ heard' = [token |-> StringOf(ValueOf(ValueOf(params, "auth"),
                                                  "token")),
                       nonce |-> StringOf(ValueOf(device, "nonce")),
                       ts |-> ValueOf(device, "signedAt")]
      BY <2>5 DEF GatewayReadsAnswer, Hear
    <3>2. Plain(told.nonce) =>
            /\ told.nonce # <<>> /\ told.ts = <<"1">>
            /\ AnswerAsTold(text, told)
      BY <3>1 DEF SecretsCarried
    <3>3. Plain(told.nonce) =>
            /\ told.nonce # <<>> /\ told.ts = <<"1">>
            /\ heard'.token = told.token
            /\ heard'.nonce = told.nonce
            /\ heard'.ts = told.ts
      BY <3>1, <3>2 DEF AnswerAsTold
    <3>4. SecretsCarried'
      BY <3>1 DEF SecretsCarried
    <3>5. SecretsSurvive'
      BY <3>1, <3>3 DEF SecretsSurvive, Plain
    <3> QED BY <3>4, <3>5
  <2>6. CASE StoreToken
    <3> DEFINE d == ReadToken(text, "deviceToken")
    <3>1. /\ told.what = "hello" /\ at = "client" /\ told' = told
          /\ \/ d = NoText /\ at' = "read" /\ heard' = NoText
             \/ d # NoText /\ at' = "file" /\ text' = TokenFile(d)
      BY <2>6 DEF StoreToken, Hear, Pass
    <3>2. Plain(told.token) => Kept(text, told)
      BY <3>1 DEF SecretsCarried
    <3>3. Plain(told.token) =>
            /\ HelloAsTold(d, told)
            /\ told.token # <<>> =>
                 HelloAsTold(ReadToken(TokenFile(d), "token"), told)
      BY <3>2 DEF Kept
    <3> HIDE DEF d
    <3>4. CASE d = NoText /\ at' = "read" /\ heard' = NoText
      <4>1. SecretsCarried'
        BY <3>1, <3>4 DEF SecretsCarried
      <4>2. Plain(told.token) => HelloAsTold(heard', told)
        BY <3>3, <3>4
      <4>3. SecretsSurvive'
        BY <3>1, <3>4, <4>2 DEF SecretsSurvive, HelloAsTold, Plain, Bare
      <4> QED BY <4>1, <4>3
    <3>5. CASE d # NoText /\ at' = "file" /\ text' = TokenFile(d)
      <4>1. Plain(told.token) => HelloAsTold(ReadToken(text', "token"), told)
        <5>1. Plain(told.token) => told.token # <<>>
          BY <3>3, <3>5 DEF HelloAsTold
        <5> QED BY <3>3, <3>5, <5>1
      <4>2. SecretsCarried'
        BY <3>1, <3>5, <4>1
           DEF SecretsCarried, HelloAsTold, Plain, Bare
      <4>3. SecretsSurvive'
        BY <3>5 DEF SecretsSurvive
      <4> QED BY <4>2, <4>3
    <3> QED BY <3>1, <3>4, <3>5
  <2>7. CASE LoadToken
    <3>1. /\ told.what = "hello" /\ at = "file" /\ at' = "read"
          /\ told' = told /\ heard' = ReadToken(text, "token")
      BY <2>7 DEF LoadToken, Hear
    <3>2. Plain(told.token) => HelloAsTold(heard', told)
      BY <3>1 DEF SecretsCarried
    <3>3. SecretsCarried'
      BY <3>1 DEF SecretsCarried
    <3>4. SecretsSurvive'
      BY <3>1, <3>2 DEF SecretsSurvive, HelloAsTold, Plain, Bare
    <3> QED BY <3>3, <3>4
  <2>8. CASE GatewayReads \/ ReadEvent \/ ReadReply
    <3>1. told.what # "challenge" /\ told.what # "hello" /\ told' = told
      BY <2>8 DEF GatewayReads, ReadEvent, ReadReply, Hear
    <3> QED BY <3>1 DEF SecretsCarried, SecretsSurvive
  <2>9. CASE Forget
    <3>1. at' = "nowhere"
      BY <2>9 DEF Forget
    <3> QED BY <3>1 DEF SecretsCarried, SecretsSurvive
  <2>10. CASE UNCHANGED flowVars
    BY <2>10 DEF flowVars, SecretsCarried, SecretsSurvive, Answered,
                 AnswerAsTold, Kept, HelloAsTold, Plain, Bare
  <2> QED
    BY <2>1, <2>2, <2>3, <2>4, <2>5, <2>6, <2>7, <2>8, <2>9, <2>10
       DEF FlowNext
<1>3. SecretsInv => SecretsSurvive
  BY DEF SecretsInv
<1> QED BY <1>1, <1>2, <1>3, PTL DEF FlowSpec

=============================================================================
