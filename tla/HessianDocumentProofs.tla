----------------------- MODULE HessianDocumentProofs -----------------------
(***************************************************************************)
(* Documents and their bytes.  RInv relates what was read to the document  *)
(* that was sent; HessianReadingProofs proves it.  The lemmas here are     *)
(* about the bytes: where the characters, chunks and nodes of a document   *)
(* start, what HessianWriting writes for each class of node, and what the  *)
(* functions of HessianDecoding make of it, from the first byte to where   *)
(* the input ends; and about the parts of RInv, and what keeps them.       *)
(***************************************************************************)
EXTENDS HessianProofs, HessianReading

-----------------------------------------------------------------------------
(***************************************************************************)
(* What was read says what was sent.  The first nodes of the message have  *)
(* been read, the next one starts where the reading is, and each frame is  *)
(* for the part that the one before it waits for.  When a message was cut  *)
(* and its bytes are used up, the last node may say something else, and    *)
(* lists and maps may end early.                                           *)
(***************************************************************************)

Byte == 0 .. 255

\* what came: the document, its bytes, and whether they end before it does
Came == [doc |-> message, bytes |-> input, cut |-> cut]
Out(m, p) == m.cut /\ p > Len(m.bytes)

\* the bytes from p on are those of w, or there are none any more
Lies(m, w, p) ==
  \A i \in 1 .. Len(w) : IF p + i - 1 <= Len(m.bytes) THEN m.bytes[p + i - 1] = w[i] ELSE m.cut

\* the number of the node that follows part k of node o
NextNode(d, o, k) == IF k = 0 THEN o + 1 ELSE LastOf(d, d[o].parts[k]) + 1

\* the bytes of node o up to its part k
Ahead(d, o, k) == Opening(d[o]) \o FlattenSeq([j \in 1 .. k |-> Written(d, d[o].parts[j])])

\* texts are cut into so many chunks before the last one, here
Units(x) == IF x.type = "binary" THEN Len(x.text) ELSE Chars(x.text)
Full(x) == Chunks(Units(x))
Point(x, k) == IF x.type = "binary" THEN k * ChunkSize ELSE After(x.text, k * ChunkSize) - 1

Fair ==
  /\ Readable(message) /\ RefsAreSound(message)
  /\ cut => ~HasRefs(message)
  /\ ~short

\* the nodes of a stack start where the one below it waits, the last one at q
StartsAt(m, fs, q) ==
  \E st : /\ st[Len(fs)] = q
          /\ \A k \in 1 .. Len(fs) :
               /\ st[k] \in Nat
               /\ Lies(m, Written(m.doc, fs[k].obj), st[k])
               /\ k > 1 => st[k] = st[k - 1] + Len(Ahead(m.doc, fs[k - 1].obj, Len(fs[k - 1].refs)))

SaysSame(x, y) == x.value = y.value /\ x.text = y.text /\ x.class = y.class

\* the first c parts of node o of heap h
PartsAre(m, h, o, c) ==
  /\ c \in 0 .. Len(m.doc[o].parts)
  /\ h[o].parts = SubSeq(MeantParts(m.doc, o), 1, c)

FrameRead(m, f, h, p) ==
  LET o == f.obj
      ps == m.doc[o].parts
      r == Len(f.refs)
  IN  /\ o \in 1 .. Len(m.doc) /\ r <= Len(ps)
      /\ f.step \in {"chunks", "end"} <=> m.doc[o].type \in Texts
      /\ f.step # "moving" => h[o].parts = <<>> /\ \A k \in 1 .. r : f.refs[k] = ps[k]
      /\ f.step = "moving" =>
           /\ r = Len(ps) \/ Out(m, p)
           /\ f.done <= r /\ PartsAre(m, h, o, f.done)
           /\ \A k \in 1 .. r : f.refs[k] = IF m.doc[o].type = "map" /\ k <= f.done
                                            THEN MeantParts(m.doc, o)[k] ELSE ps[k]

\* the first n frames of stack fs wait for node o
Awaits(m, fs, n, o) ==
  IF n = 0 THEN o = 1
  ELSE /\ fs[n].step = "parts" /\ Len(fs[n].refs) < Len(m.doc[fs[n].obj].parts)
       /\ o = m.doc[fs[n].obj].parts[Len(fs[n].refs) + 1]

StackRead(m, fs, h, p) ==
  \A k \in 1 .. Len(fs) : FrameRead(m, fs[k], h, p) /\ Awaits(m, fs, k - 1, fs[k].obj)

IsOpen(fs, x) == \E k \in 1 .. Len(fs) : fs[k].obj = x
InChunks(fs, x) == \E k \in 1 .. Len(fs) : fs[k].obj = x /\ fs[k].step = "chunks"

\* node x says what was sent, or begins like it
NodeSays(m, h, p, x) ==
  \/ SaysSame(h[x], m.doc[x])
  \/ Out(m, p) /\ x = Len(h) /\ Begun(h[x], m.doc[x])

\* node x has its parts, except for those of which nothing came
HasParts(m, h, p, x) ==
  \E c \in 0 .. Len(m.doc[x].parts) :
    /\ PartsAre(m, h, x, c)
    /\ c = Len(m.doc[x].parts) \/ (Out(m, p) /\ NextNode(m.doc, x, c) > Len(h))

NodeRead(m, fs, h, p, x) ==
  /\ h[x].type = m.doc[x].type
  /\ InChunks(fs, x) => h[x].value = m.doc[x].value /\ h[x].class = m.doc[x].class
  /\ ~InChunks(fs, x) => NodeSays(m, h, p, x)
  /\ ~IsOpen(fs, x) => HasParts(m, h, p, x)

\* where the innermost frame is, whose node starts at q
AtChunk(m, f, h, q, p) ==
  LET x == m.doc[f.obj]
  IN  \E k \in 0 .. Full(x) :
        /\ f.tag = IF k < Full(x) THEN ChunkTag(x.type) ELSE Tag(x.type)
        /\ p = q + 3 * k + Point(x, k) + 1
        /\ h[f.obj].text = SubSeq(x.text, 1, Point(x, k))
InPlace(m, f, h, q, p) ==
  /\ f.step = "parts" => p = q + Len(Ahead(m.doc, f.obj, Len(f.refs)))
  /\ f.step = "chunks" => AtChunk(m, f, h, q, p)
  /\ f.step \in {"end", "moving"} => p = q + Len(Written(m.doc, f.obj))

PlaceRead(m, fs, h, p) ==
  fs # <<>> =>
    LET f == fs[Len(fs)]
        next == NextNode(m.doc, f.obj, Len(f.refs))
    IN  /\ next > Len(h)
        /\ Out(m, p) \/ (next = Len(h) + 1 /\ \E q : StartsAt(m, fs, q) /\ InPlace(m, f, h, q, p))

AllRead(m, fs, h, p) ==
  /\ Len(h) <= Len(m.doc)
  /\ StackRead(m, fs, h, p)
  /\ \A x \in 1 .. Len(h) : NodeRead(m, fs, h, p, x)
  /\ PlaceRead(m, fs, h, p)

\* nothing was read yet, or everything was
NothingYet(m, h, p) == h = <<>> /\ p = 1 /\ Lies(m, Serialized(m.doc), 1)
Finished(m, h, p, o) == o = 1 /\ h # <<>> /\ (Out(m, p) \/ Len(h) = Len(m.doc))

MessageRead(m, fs, h, p, md, o) ==
  /\ AllRead(m, fs, h, p)
  /\ md = "reading" /\ fs = <<>> => NothingYet(m, h, p)
  /\ md = "done" => Finished(m, h, p, o)

\* what was read is right, and nothing fails without a reason
SoFar ==
  /\ ~loose
  /\ ~short /\ ~cut => mode \notin {"failing", "failed", "hung"} /\ misuse # "null text"
  /\ misuse = "none" /\ mode \in {"reading", "done"} =>
       pos \in 1 .. Len(input) + 1 /\ MessageRead(Came, frames, heap, pos, mode, result)

RInv ==
  mode # "idle" =>
    /\ message \in Answers /\ input \in Seq(Byte)
    /\ Fair => SoFar

-----------------------------------------------------------------------------
(* Functions that are defined by their own values: each value from the one *)
(* before it.  They exist, and are what their equations say.               *)

IsChain(f, a, g, n) == f[0] = a /\ \A k \in 1 .. n : f[k] = g[k][f[k - 1]]

LEMMA ChainExists ==
  ASSUME NEW S, NEW a \in S, NEW n \in Nat, NEW g, \A k \in 1 .. n : \A x \in S : g[k][x] \in S
  PROVE  \E f \in [0 .. n -> S] : IsChain(f, a, g, n)
<1> DEFINE T == {m \in Nat : m <= n => \E f \in [0 .. m -> S] : IsChain(f, a, g, m)}
<1>1. 0 \in T
  <2> DEFINE f == [k \in 0 .. 0 |-> a]
  <2>1. f \in [0 .. 0 -> S] /\ IsChain(f, a, g, 0)
    BY DEF IsChain
  <2> QED
    BY <2>1
<1>2. ASSUME NEW m \in Nat, m \in T PROVE m + 1 \in T
  <2> SUFFICES ASSUME m + 1 <= n PROVE \E f \in [0 .. m + 1 -> S] : IsChain(f, a, g, m + 1)
    OBVIOUS
  <2>1. PICK f \in [0 .. m -> S] : IsChain(f, a, g, m)
    BY <1>2
  <2> DEFINE e == [k \in 0 .. m + 1 |-> IF k <= m THEN f[k] ELSE g[m + 1][f[m]]]
  <2>2. f[m] \in S /\ g[m + 1][f[m]] \in S
    BY <2>1
  <2>3. e \in [0 .. m + 1 -> S]
    BY <2>1, <2>2
  <2>4. e[0] = a
    BY <2>1 DEF IsChain
  <2>5. ASSUME NEW k \in 1 .. m + 1 PROVE e[k] = g[k][e[k - 1]]
    <3>1. e[k - 1] = f[k - 1]
      OBVIOUS
    <3>2. CASE k <= m
      <4>1. k \in 1 .. m /\ e[k] = f[k]
        BY <3>2
      <4> QED
        BY <2>1, <3>1, <4>1 DEF IsChain
    <3>3. CASE ~(k <= m)
      <4>1. k = m + 1 /\ e[k] = g[m + 1][f[m]] /\ k - 1 = m
        BY <3>3
      <4> HIDE DEF e
      <4> QED
        BY <3>1, <4>1
    <3> QED
      BY <3>2, <3>3
  <2>6. IsChain(e, a, g, m + 1)
    <3> HIDE DEF e
    <3> QED
      BY <2>4, <2>5 DEF IsChain
  <2> QED
    BY <2>3, <2>6
<1>3. \A m \in Nat : m \in T
  <2> HIDE DEF T
  <2> QED
    BY <1>1, <1>2, SetInduction
<1> QED
  BY <1>3

LEMMA ChainsAgree ==
  ASSUME NEW a, NEW g, NEW n \in Nat, NEW f, NEW e, IsChain(f, a, g, n), IsChain(e, a, g, n)
  PROVE  \A k \in 0 .. n : f[k] = e[k]
<1> DEFINE T == {k \in Nat : k <= n => f[k] = e[k]}
<1>1. 0 \in T
  BY DEF IsChain
<1>2. ASSUME NEW k \in Nat, k \in T PROVE k + 1 \in T
  <2> SUFFICES ASSUME k + 1 <= n PROVE f[k + 1] = e[k + 1]
    OBVIOUS
  <2>1. k + 1 \in 1 .. n /\ (k + 1) - 1 = k /\ f[k] = e[k]
    BY <1>2
  <2>2. f[k + 1] = g[k + 1][f[(k + 1) - 1]] /\ e[k + 1] = g[k + 1][e[(k + 1) - 1]]
    BY <2>1, Zenon DEF IsChain
  <2> QED
    BY <2>1, <2>2
<1>3. \A k \in Nat : k \in T
  <2> HIDE DEF T
  <2> QED
    BY <1>1, <1>2, SetInduction
<1> QED
  BY <1>3

-----------------------------------------------------------------------------
(* Sequences that are joined.                                              *)

First(s, k) == [j \in 1 .. k |-> s[j]]
IsJoined(s, f) == f = [i \in 1 .. Len(s) |-> IF i = 1 THEN s[i] ELSE f[i - 1] \o s[i]]

LEMMA FlattenIs ==
  \A s : FlattenSeq(s) = IF Len(s) = 0 THEN s ELSE (CHOOSE f : IsJoined(s, f))[Len(s)]
BY DEF FlattenSeq, IsJoined

\* c joins the first members of s
Joins(c, s, n) == c[0] = <<>> /\ \A k \in 1 .. n : c[k] = c[k - 1] \o s[k]

LEMMA JoinsExist ==
  ASSUME NEW A, NEW s \in Seq(Seq(A))
  PROVE  \E c \in [0 .. Len(s) -> Seq(A)] : Joins(c, s, Len(s))
<1> DEFINE n == Len(s)
           g == [k \in 1 .. n |-> [u \in Seq(A) |-> u \o s[k]]]
<1>1. n \in Nat /\ <<>> \in Seq(A) /\ \A k \in 1 .. n : s[k] \in Seq(A)
  OBVIOUS
<1>2. ASSUME NEW k \in 1 .. n, NEW u \in Seq(A) PROVE g[k][u] = u \o s[k] /\ u \o s[k] \in Seq(A)
  BY <1>1
<1>3. PICK c \in [0 .. n -> Seq(A)] : IsChain(c, <<>>, g, n)
  <2> HIDE DEF g
  <2> QED
    BY <1>1, <1>2, ChainExists
<1>4. ASSUME NEW k \in 1 .. n PROVE c[k] = c[k - 1] \o s[k]
  <2>1. k - 1 \in 0 .. n
    BY <1>1
  <2>n. c[k - 1] \in Seq(A)
    BY <1>3, <2>1
  <2>2. c[k] = g[k][c[k - 1]]
    BY <1>3 DEF IsChain
  <2> HIDE DEF g
  <2> QED
    BY <1>2, <2>n, <2>2
<1>5. c[0] = <<>>
  BY <1>3 DEF IsChain
<1> QED
  BY <1>4, <1>5 DEF Joins

LEMMA FlattenJoins ==
  ASSUME NEW A, NEW s \in Seq(Seq(A)), NEW c, \A k \in 0 .. Len(s) : c[k] \in Seq(A), Joins(c, s, Len(s))
  PROVE  FlattenSeq(s) = c[Len(s)]
<1> DEFINE n == Len(s)
           F == CHOOSE f : IsJoined(s, f)
           e == [i \in 1 .. n |-> c[i]]
<1>1. n \in Nat /\ \A k \in 1 .. n : s[k] \in Seq(A)
  OBVIOUS
<1>2. CASE n = 0
  <2>1. s = <<>>
    BY <1>2
  <2> QED
    BY <1>2, <2>1, FlattenIs DEF Joins
<1>3. CASE n # 0
  <2>1. IsJoined(s, e)
    <3>1. ASSUME NEW i \in 1 .. n PROVE c[i] = IF i = 1 THEN s[i] ELSE e[i - 1] \o s[i]
      <4>1. c[i] = c[i - 1] \o s[i]
        BY DEF Joins
      <4>2. CASE i = 1
        <5>1. c[0] = <<>> /\ i - 1 = 0 /\ s[i] \in Seq(A)
          BY <1>1, <4>2 DEF Joins
        <5>2. <<>> \o s[i] = s[i]
          BY <5>1
        <5> QED
          BY <4>1, <4>2, <5>1, <5>2
      <4>3. CASE i # 1
        <5>1. e[i - 1] = c[i - 1]
          BY <1>1, <4>3
        <5> QED
          BY <4>1, <4>3, <5>1
      <4> QED
        BY <4>2, <4>3
    <3>2. [i \in 1 .. n |-> c[i]] = [i \in 1 .. n |-> IF i = 1 THEN s[i] ELSE e[i - 1] \o s[i]]
      <4> HIDE DEF e
      <4> QED
        BY <3>1
    <3> QED
      BY <3>2 DEF IsJoined
  <2>2. IsJoined(s, F)
    BY <2>1 DEF IsJoined
  <2> DEFINE g == [k \in 1 .. n |-> [u \in Seq(A) |-> u \o s[k]]]
             b == [k \in 0 .. n |-> IF k = 0 THEN <<>> ELSE F[k]]
  <2>3. ASSUME NEW k \in 1 .. n, NEW u \in Seq(A) PROVE g[k][u] = u \o s[k] /\ u \o s[k] \in Seq(A)
    BY <1>1
  <2>4. ASSUME NEW i \in 1 .. n PROVE F[i] = IF i = 1 THEN s[i] ELSE F[i - 1] \o s[i]
    <3> HIDE DEF F
    <3> QED
      BY <2>2 DEF IsJoined
  <2> HIDE DEF F, g
  <2> DEFINE T == {k \in Nat : k \in 1 .. n => F[k] = c[k]}
  <2>5. 0 \in T
    OBVIOUS
  <2>6. ASSUME NEW k \in Nat, k \in T PROVE k + 1 \in T
    <3> SUFFICES ASSUME k + 1 \in 1 .. n PROVE F[k + 1] = c[k + 1]
      OBVIOUS
    <3> DEFINE j == k + 1
    <3>1. j \in 1 .. n /\ j - 1 = k
      OBVIOUS
    <3> HIDE DEF j
    <3>2. c[j] = c[k] \o s[j] /\ s[j] \in Seq(A)
      BY <1>1, <3>1 DEF Joins
    <3>3. CASE k = 0
      <4>1. c[k] = <<>> /\ j = 1
        BY <3>1, <3>3 DEF Joins
      <4>2. F[j] = s[j]
        BY <2>4, <3>1, <4>1
      <4>3. <<>> \o s[j] = s[j]
        BY <3>2
      <4> QED
        BY <3>2, <4>1, <4>2, <4>3 DEF j
    <3>4. CASE k # 0
      <4>1. F[k] = c[k] /\ j # 1
        BY <2>6, <3>1, <3>4
      <4>2. F[j] = F[j - 1] \o s[j]
        BY <2>4, <3>1, <4>1
      <4>3. F[j] = F[k] \o s[j]
        BY <3>1, <4>2
      <4> QED
        BY <3>2, <4>1, <4>3 DEF j
    <3> QED
      BY <3>3, <3>4
  <2>7. \A k \in Nat : k \in T
    <3> HIDE DEF T
    <3> QED
      BY <2>5, <2>6, SetInduction
  <2>8. F[n] = c[n]
    BY <1>1, <1>3, <2>7
  <2>9. FlattenSeq(s) = F[n]
    BY <1>3, FlattenIs DEF F
  <2> QED
    BY <2>8, <2>9
<1> QED
  BY <1>2, <1>3

LEMMA FlattenGrows ==
  ASSUME NEW A, NEW s \in Seq(Seq(A))
  PROVE  /\ \A k \in 0 .. Len(s) : FlattenSeq(First(s, k)) \in Seq(A)
         /\ FlattenSeq(First(s, 0)) = <<>>
         /\ \A k \in 1 .. Len(s) : FlattenSeq(First(s, k)) = FlattenSeq(First(s, k - 1)) \o s[k]
         /\ FlattenSeq(First(s, Len(s))) = FlattenSeq(s)
<1> DEFINE n == Len(s)
<1>1. PICK c \in [0 .. n -> Seq(A)] : Joins(c, s, n)
  BY JoinsExist
<1>n. n \in Nat /\ \A k \in 1 .. n : s[k] \in Seq(A)
  OBVIOUS
<1>2. ASSUME NEW k \in 0 .. n PROVE FlattenSeq(First(s, k)) = c[k]
  <2> DEFINE t == First(s, k)
  <2>1. t \in Seq(Seq(A)) /\ Len(t) = k /\ \A j \in 1 .. k : t[j] = s[j]
    BY <1>n DEF First
  <2>2. ASSUME NEW j \in 0 .. Len(t) PROVE c[j] \in Seq(A)
    <3>1. j \in 0 .. n
      BY <1>n, <2>1
    <3> QED
      BY <1>1, <3>1
  <2>3. ASSUME NEW j \in 1 .. k PROVE c[j] = c[j - 1] \o t[j]
    <3>1. j \in 1 .. n /\ t[j] = s[j]
      <4> HIDE DEF n, t
      <4>1. t[j] = s[j]
        BY <2>1
      <4> QED
        BY <1>n, <4>1
    <3> QED
      BY <1>1, <3>1 DEF Joins
  <2>4. Joins(c, t, Len(t))
    <3> HIDE DEF t
    <3> QED
      BY <1>1, <2>1, <2>3 DEF Joins
  <2> HIDE DEF t
  <2>5. FlattenSeq(t) = c[Len(t)]
    BY <2>1, <2>2, <2>4, FlattenJoins
  <2> QED
    BY <2>1, <2>5 DEF t
<1>3. \A k \in 0 .. n : c[k] \in Seq(A)
  BY <1>1, <1>n
<1>4. FlattenSeq(First(s, 0)) = <<>>
  BY <1>1, <1>2, <1>n DEF Joins
<1>5. ASSUME NEW k \in 1 .. n PROVE FlattenSeq(First(s, k)) = FlattenSeq(First(s, k - 1)) \o s[k]
  <2>1. k \in 0 .. n /\ k - 1 \in 0 .. n
    BY <1>n
  <2>2. c[k] = c[k - 1] \o s[k]
    BY <1>1 DEF Joins
  <2> QED
    BY <1>2, <2>1, <2>2
<1>6. First(s, n) = s
  BY DEF First
<1> QED
  BY <1>2, <1>3, <1>4, <1>5, <1>6

-----------------------------------------------------------------------------
(* Characters: where they start, and where the reading of them ends.       *)

IsWalk(t, n, f) == f = [k \in 0 .. n |-> IF k = 0 THEN 1 ELSE f[k - 1] + Width(t[f[k - 1]])]

LEMMA AfterIs == \A t, n : After(t, n) = (CHOOSE f : IsWalk(t, n, f))[n]
BY DEF After, IsWalk

LEMMA WidthIs == \A b : Width(b) \in 1 .. 4
BY DEF Width

Walking(t, n) == [k \in 1 .. n |-> [p \in Nat |-> p + Width(t[p])]]

LEMMA WalkIsChain ==
  ASSUME NEW t, NEW n \in Nat
  PROVE  \E f \in [0 .. n -> Nat] : IsChain(f, 1, Walking(t, n), n) /\ After(t, n) = f[n]
<1> DEFINE g == Walking(t, n)
           F == CHOOSE f : IsWalk(t, n, f)
<1>1. ASSUME NEW k \in 1 .. n, NEW p \in Nat PROVE g[k][p] = p + Width(t[p]) /\ g[k][p] \in Nat
  <2>1. Width(t[p]) \in 1 .. 4
    BY WidthIs
  <2>2. g[k][p] = p + Width(t[p])
    BY DEF Walking
  <2> HIDE DEF g
  <2> QED
    BY <2>1, <2>2
<1> HIDE DEF g
<1>2. PICK f \in [0 .. n -> Nat] : IsChain(f, 1, g, n)
  BY <1>1, ChainExists
<1>3. ASSUME NEW k \in 0 .. n PROVE f[k] = IF k = 0 THEN 1 ELSE f[k - 1] + Width(t[f[k - 1]])
  <2>1. CASE k = 0
    BY <1>2, <2>1 DEF IsChain
  <2>2. CASE k # 0
    <3>1. k \in 1 .. n /\ k - 1 \in 0 .. n
      BY <2>2
    <3>2. f[k - 1] \in Nat /\ f[k] = g[k][f[k - 1]]
      BY <1>2, <3>1 DEF IsChain
    <3> QED
      BY <1>1, <2>2, <3>1, <3>2
  <2> QED
    BY <2>1, <2>2
<1>4. IsWalk(t, n, f)
  BY <1>2, <1>3 DEF IsWalk
<1>5. IsWalk(t, n, F)
  BY <1>4
<1> HIDE DEF F
<1>6. ASSUME NEW k \in 0 .. n PROVE F[k] = IF k = 0 THEN 1 ELSE F[k - 1] + Width(t[F[k - 1]])
  BY <1>5 DEF IsWalk
<1> DEFINE T == {k \in Nat : k <= n => F[k] \in Nat}
<1>7. 0 \in T
  BY <1>6
<1>8. ASSUME NEW k \in Nat, k \in T PROVE k + 1 \in T
  <2> SUFFICES ASSUME k + 1 <= n PROVE F[k + 1] \in Nat
    OBVIOUS
  <2>1. k + 1 \in 0 .. n /\ k + 1 # 0 /\ (k + 1) - 1 = k /\ F[k] \in Nat
    BY <1>8
  <2>2. F[k + 1] = F[(k + 1) - 1] + Width(t[F[(k + 1) - 1]])
    BY <1>6, <2>1
  <2> QED
    BY <2>1, <2>2, WidthIs
<1>9. \A k \in Nat : k \in T
  <2> HIDE DEF T
  <2> QED
    BY <1>7, <1>8, SetInduction
<1>10. ASSUME NEW k \in 1 .. n PROVE F[k] = g[k][F[k - 1]]
  <2>1. k \in 0 .. n /\ k # 0 /\ k - 1 \in Nat /\ k - 1 <= n
    OBVIOUS
  <2>2. F[k - 1] \in Nat
    BY <1>9, <2>1
  <2>3. F[k] = F[k - 1] + Width(t[F[k - 1]])
    BY <1>6, <2>1
  <2> QED
    BY <1>1, <2>2, <2>3
<1>11. IsChain(F, 1, g, n)
  BY <1>6, <1>10 DEF IsChain
<1>12. F[n] = f[n]
  BY <1>2, <1>11, ChainsAgree
<1> QED
  BY <1>2, <1>12, AfterIs DEF F, g

\* the first character starts at 1, and each follows the one before it
LEMMA AfterGrows ==
  ASSUME NEW t, NEW n \in Nat
  PROVE  /\ After(t, 0) = 1
         /\ After(t, n) \in Nat
         /\ After(t, n + 1) = After(t, n) + Width(t[After(t, n)])
<1> DEFINE g == Walking(t, n)
           h == Walking(t, n + 1)
<1>1. PICK f : IsChain(f, 1, g, n) /\ After(t, n) = f[n]
  BY WalkIsChain
<1>n. n + 1 \in Nat
  OBVIOUS
<1>2. PICK e : e \in [0 .. n + 1 -> Nat] /\ IsChain(e, 1, h, n + 1) /\ After(t, n + 1) = e[n + 1]
  BY <1>n, WalkIsChain
<1>3. PICK z : IsChain(z, 1, Walking(t, 0), 0) /\ After(t, 0) = z[0]
  BY WalkIsChain
<1>4. After(t, 0) = 1
  BY <1>3 DEF IsChain
<1>5. \A k \in 1 .. n : h[k] = g[k]
  BY DEF Walking
<1>6. IsChain(e, 1, g, n)
  <2> HIDE DEF g, h
  <2>1. ASSUME NEW k \in 1 .. n PROVE e[k] = g[k][e[k - 1]]
    <3>1. k \in 1 .. n + 1
      OBVIOUS
    <3>2. e[k] = h[k][e[k - 1]]
      BY <1>2, <3>1 DEF IsChain
    <3> QED
      BY <1>5, <3>2
  <2> QED
    BY <1>2, <2>1 DEF IsChain
<1>7. f[n] = e[n]
  <2>1. IsChain(f, 1, g, n) /\ IsChain(e, 1, g, n)
    BY <1>1, <1>6
  <2> HIDE DEF g, h
  <2>2. \A k \in 0 .. n : f[k] = e[k]
    BY <2>1, ChainsAgree
  <2>3. n \in 0 .. n
    OBVIOUS
  <2> QED
    BY <2>2, <2>3
<1>8. e[n + 1] = h[n + 1][e[n]]
  <2> HIDE DEF h
  <2>1. n + 1 \in 1 .. n + 1 /\ (n + 1) - 1 = n
    OBVIOUS
  <2>2. e[n + 1] = h[n + 1][e[(n + 1) - 1]]
    BY <1>2, <2>1, Zenon DEF IsChain
  <2> QED
    BY <2>1, <2>2
<1>9. e[n] \in Nat
  BY <1>2
<1>10. h[n + 1][e[n]] = e[n] + Width(t[e[n]])
  BY <1>9 DEF Walking
<1> HIDE DEF g, h
<1> QED
  BY <1>1, <1>2, <1>4, <1>7, <1>8, <1>9, <1>10

-----------------------------------------------------------------------------
IsScan(p, n, f) ==
  f = [k \in 0 .. n |-> IF k = 0 THEN p
                        ELSE IF f[k - 1] > Len(input) THEN f[k - 1]
                             ELSE f[k - 1] + 1 + Following(input[f[k - 1]])]

LEMMA EndOfIs ==
  \A p, l : EndOf(p, l) = Upto((CHOOSE f : IsScan(p, Min({l, Len(input)}), f))[Min({l, Len(input)})])
BY DEF EndOf, IsScan

LEMMA FollowingIs == \A b : Following(b) \in 0 .. 3
BY DEF Following

\* the reading of l characters at p is a walk over the input that stops
\* behind its end
LEMMA ScanIs ==
  ASSUME NEW p \in Nat, NEW l \in Nat, Len(input) \in Nat
  PROVE  LET n == Min({l, Len(input)})
         IN  \E f \in [0 .. n -> Nat] :
               /\ f[0] = p
               /\ \A k \in 1 .. n : f[k] = IF f[k - 1] > Len(input) THEN f[k - 1]
                                           ELSE f[k - 1] + 1 + Following(input[f[k - 1]])
               /\ EndOf(p, l) = Upto(f[n])
<1> DEFINE n == Min({l, Len(input)})
           F == CHOOSE f : IsScan(p, n, f)
           g == [k \in 1 .. n |-> [q \in Nat |-> IF q > Len(input) THEN q ELSE q + 1 + Following(input[q])]]
<1>n. n \in Nat
  BY DEF Min
<1>1. ASSUME NEW k \in 1 .. n, NEW q \in Nat
      PROVE  g[k][q] = (IF q > Len(input) THEN q ELSE q + 1 + Following(input[q])) /\ g[k][q] \in Nat
  <2>1. Following(input[q]) \in 0 .. 3
    BY FollowingIs
  <2>2. g[k][q] = (IF q > Len(input) THEN q ELSE q + 1 + Following(input[q]))
    OBVIOUS
  <2> HIDE DEF g, n
  <2> QED
    BY <2>1, <2>2
<1> HIDE DEF g, n
<1>2. PICK f \in [0 .. n -> Nat] : IsChain(f, p, g, n)
  BY <1>n, <1>1, ChainExists
<1>3. ASSUME NEW k \in 0 .. n
      PROVE  f[k] = IF k = 0 THEN p ELSE IF f[k - 1] > Len(input) THEN f[k - 1]
                                         ELSE f[k - 1] + 1 + Following(input[f[k - 1]])
  <2>1. CASE k = 0
    BY <1>2, <2>1 DEF IsChain
  <2>2. CASE k # 0
    <3>1. k \in 1 .. n /\ k - 1 \in 0 .. n
      BY <1>n, <2>2
    <3>2. f[k - 1] \in Nat /\ f[k] = g[k][f[k - 1]]
      BY <1>2, <3>1 DEF IsChain
    <3> QED
      BY <1>1, <2>2, <3>1, <3>2
  <2> QED
    BY <2>1, <2>2
<1>4. IsScan(p, n, f)
  BY <1>2, <1>3 DEF IsScan
<1>5. IsScan(p, n, F)
  BY <1>4
<1> HIDE DEF F
<1>6. F = [k \in 0 .. n |-> IF k = 0 THEN p
                        ELSE IF F[k - 1] > Len(input) THEN F[k - 1]
                             ELSE F[k - 1] + 1 + Following(input[F[k - 1]])]
  BY <1>5 DEF IsScan
<1> DEFINE T == {k \in Nat : k <= n => F[k] \in Nat}
<1>20. ASSUME NEW k \in 0 .. n
      PROVE  F[k] = IF k = 0 THEN p ELSE IF F[k - 1] > Len(input) THEN F[k - 1]
                                         ELSE F[k - 1] + 1 + Following(input[F[k - 1]])
  BY <1>6
<1>7. 0 \in T
  BY <1>n, <1>20
<1>8. ASSUME NEW k \in Nat, k \in T PROVE k + 1 \in T
  <2> SUFFICES ASSUME k + 1 <= n PROVE F[k + 1] \in Nat
    OBVIOUS
  <2>1. k + 1 \in 0 .. n /\ k + 1 # 0 /\ (k + 1) - 1 = k /\ F[k] \in Nat
    BY <1>8, <1>n
  <2>2. F[k + 1] = IF F[(k + 1) - 1] > Len(input) THEN F[(k + 1) - 1]
                   ELSE F[(k + 1) - 1] + 1 + Following(input[F[(k + 1) - 1]])
    BY <1>20, <2>1, Zenon
  <2> QED
    BY <2>1, <2>2, FollowingIs
<1>9. \A k \in Nat : k \in T
  <2> HIDE DEF T
  <2> QED
    BY <1>7, <1>8, SetInduction
<1>10. ASSUME NEW k \in 1 .. n PROVE F[k] = g[k][F[k - 1]]
  <2>1. k \in 0 .. n /\ k # 0 /\ k - 1 \in Nat /\ k - 1 <= n
    BY <1>n
  <2>2. F[k - 1] \in Nat
    BY <1>9, <2>1
  <2>3. F[k] = IF F[k - 1] > Len(input) THEN F[k - 1] ELSE F[k - 1] + 1 + Following(input[F[k - 1]])
    BY <1>20, <2>1
  <2> QED
    BY <1>1, <2>2, <2>3
<1>11. F[0] = p
  BY <1>20, <1>n
<1>12. IsChain(F, p, g, n)
  BY <1>10, <1>11 DEF IsChain
<1>13. F[n] = f[n]
  BY <1>2, <1>n, <1>12, ChainsAgree
<1>14. EndOf(p, l) = Upto(f[n])
  BY <1>13, EndOfIs DEF F, n
<1>15. f[0] = p /\ \A k \in 1 .. n : f[k] = IF f[k - 1] > Len(input) THEN f[k - 1]
                                           ELSE f[k - 1] + 1 + Following(input[f[k - 1]])
  <2>1. f[0] = p
    BY <1>3, <1>n
  <2>2. ASSUME NEW k \in 1 .. n
        PROVE  f[k] = IF f[k - 1] > Len(input) THEN f[k - 1] ELSE f[k - 1] + 1 + Following(input[f[k - 1]])
    <3>1. k \in 0 .. n /\ k # 0
      BY <1>n
    <3> QED
      BY <1>3, <3>1
  <2> QED
    BY <2>1, <2>2
<1> QED
  BY <1>2, <1>14, <1>15 DEF n

-----------------------------------------------------------------------------
(* Documents.                                                              *)

LEMMA DocumentIs ==
  ASSUME NEW d \in Answers
  PROVE  /\ Len(d) \in Nat \ {0} /\ DOMAIN d = 1 .. Len(d)
         /\ IsDocument(d)
         /\ \A o \in 1 .. Len(d) : IsNode(d[o], o + 1 .. Len(d)) /\ d[o].parts \in Seq(o + 1 .. Len(d))
<1>1. d \in Seq({d[o] : o \in DOMAIN d}) /\ IsDocument(d)
  BY AnswersAssumption
<1>2. d # <<>> /\ \A o \in DOMAIN d : IsNode(d[o], o + 1 .. Len(d))
  BY <1>1 DEF IsDocument
<1>3. Len(d) \in Nat \ {0} /\ DOMAIN d = 1 .. Len(d)
  BY <1>1, <1>2
<1>4. ASSUME NEW o \in 1 .. Len(d) PROVE IsNode(d[o], o + 1 .. Len(d)) /\ d[o].parts \in Seq(o + 1 .. Len(d))
  <2>1. IsNode(d[o], o + 1 .. Len(d))
    BY <1>2, <1>3
  <2>2. IF d[o].type \in {"list", "map"} THEN d[o].parts \in Seq(o + 1 .. Len(d)) ELSE d[o].parts = <<>>
    BY <2>1 DEF IsNode
  <2>3. <<>> \in Seq(o + 1 .. Len(d))
    OBVIOUS
  <2>4. d[o].parts \in Seq(o + 1 .. Len(d))
    BY <2>2, <2>3, Zenon
  <2> QED
    BY <2>1, <2>4, Zenon
<1> QED
  BY <1>1, <1>3, <1>4

LEMMA PartIs ==
  ASSUME NEW d \in Answers, NEW o \in 1 .. Len(d), NEW k \in 1 .. Len(d[o].parts)
  PROVE  d[o].parts[k] \in o + 1 .. Len(d) /\ d[o].parts[k] \in 1 .. Len(d) /\ d[o].parts[k] > o
         /\ Len(d[o].parts) \in Nat
<1>1. d[o].parts \in Seq(o + 1 .. Len(d)) /\ Len(d) \in Nat
  BY DocumentIs
<1>2. d[o].parts[k] \in o + 1 .. Len(d)
  BY <1>1
<1>3. Len(d[o].parts) \in Nat
  BY <1>1
<1> QED
  BY <1>1, <1>2, <1>3

\* the values of f above node x, when those of g are the same
LEMMA LastPart ==
  ASSUME NEW d \in Answers, NEW o \in 1 .. Len(d), d[o].parts # <<>>
  PROVE  Last(d[o].parts) \in o + 1 .. Len(d) /\ Last(d[o].parts) = d[o].parts[Len(d[o].parts)]
         /\ Len(d[o].parts) \in Nat \ {0}
<1>1. d[o].parts \in Seq(o + 1 .. Len(d))
  BY DocumentIs
<1>2. Len(d[o].parts) \in Nat \ {0}
  BY <1>1
<1>3. Len(d[o].parts) \in 1 .. Len(d[o].parts)
  BY <1>2
<1> QED
  BY <1>2, <1>3, PartIs DEF Last

LastBody(d, f, x) == IF d[x].parts = <<>> THEN x ELSE f[Last(d[x].parts)]
IsLast(d, f) == f = [x \in DOMAIN d |-> LastBody(d, f, x)]

LEMMA LastOfIs == \A d, o : LastOf(d, o) = (CHOOSE f : IsLast(d, f))[o]
BY DEF LastOf, IsLast, LastBody

LEMMA LastExists ==
  ASSUME NEW d \in Answers
  PROVE  \E f : IsLast(d, f)
<1> DEFINE n == Len(d)
           T == {m \in Nat : m <= n => \E f : \A x \in n - m + 1 .. n : f[x] = LastBody(d, f, x)}
<1>n. n \in Nat /\ DOMAIN d = 1 .. n
  BY DocumentIs
<1>d. \A x \in 1 .. n : d[x].parts # <<>> => Last(d[x].parts) \in x + 1 .. n
  BY LastPart
<1> HIDE DEF n
<1>1. 0 \in T
  <2>1. n - 0 + 1 .. n = {}
    BY <1>n
  <2> QED
    BY <2>1
<1>2. ASSUME NEW m \in Nat, m \in T PROVE m + 1 \in T
  <2> SUFFICES ASSUME m + 1 <= n
               PROVE  \E f : \A x \in n - (m + 1) + 1 .. n : f[x] = LastBody(d, f, x)
    OBVIOUS
  <2>1. PICK f : \A x \in n - m + 1 .. n : f[x] = LastBody(d, f, x)
    BY <1>2, <1>n
  <2> DEFINE c == n - m
             g == [x \in 1 .. n |-> IF x = c THEN LastBody(d, f, c) ELSE f[x]]
  <2>2. c \in 1 .. n /\ n - (m + 1) + 1 = c /\ n - m + 1 = c + 1 /\ c \in Nat
    BY <1>n
  <2> HIDE DEF c
  <2>3. ASSUME NEW x \in c .. n PROVE LastBody(d, g, x) = LastBody(d, f, x)
    <3>1. x \in 1 .. n
      BY <1>n, <2>2
    <3>2. CASE d[x].parts = <<>>
      BY <3>2 DEF LastBody
    <3>3. CASE d[x].parts # <<>>
      <4>1. Last(d[x].parts) \in x + 1 .. n
        BY <1>d, <3>1, <3>3
      <4> DEFINE y == Last(d[x].parts)
      <4> HIDE DEF y
      <4>n. y \in x + 1 .. n
        BY <4>1 DEF y
      <4>d. y \in 1 .. n /\ y # c
        BY <1>n, <2>2, <3>1, <4>n
      <4>e. g[y] = f[y]
        BY <4>d
      <4>2. g[Last(d[x].parts)] = f[Last(d[x].parts)]
        BY <4>e DEF y
      <4> HIDE DEF g
      <4> QED
        BY <4>2, <3>3 DEF LastBody
    <3> QED
      BY <3>2, <3>3
  <2>4. ASSUME NEW x \in c .. n PROVE g[x] = LastBody(d, g, x)
    <3>1. x \in 1 .. n
      BY <1>n, <2>2
    <3>2. CASE x = c
      <4>1. g[x] = LastBody(d, f, c)
        BY <3>1, <3>2
      <4> HIDE DEF g
      <4> QED
        BY <2>3, <3>2, <4>1
    <3>3. CASE x # c
      <4>0. g[x] = f[x]
        BY <3>1, <3>3
      <4>1. g[x] = f[x] /\ x \in c + 1 .. n
        <5> HIDE DEF g
        <5> QED
          BY <1>n, <2>2, <3>1, <3>3, <4>0
      <4>2. f[x] = LastBody(d, f, x)
        BY <2>1, <2>2, <4>1
      <4> HIDE DEF g
      <4> QED
        BY <2>3, <4>1, <4>2
    <3> QED
      BY <3>2, <3>3
  <2> HIDE DEF g
  <2> QED
    BY <2>2, <2>4
<1>3. \A m \in Nat : m \in T
  <2> HIDE DEF T
  <2> QED
    BY <1>1, <1>2, SetInduction
<1>t. n \in T
  <2> HIDE DEF T
  <2> QED
    BY <1>3, <1>n
<1>4. PICK f : \A x \in n - n + 1 .. n : f[x] = LastBody(d, f, x)
  <2>1. n <= n
    BY <1>n
  <2> QED
    BY <1>t, <2>1
<1>5. \A x \in 1 .. n : f[x] = LastBody(d, f, x)
  <2>1. n - n + 1 = 1
    BY <1>n
  <2> QED
    BY <1>4, <2>1
<1> DEFINE e == [x \in 1 .. n |-> f[x]]
<1>6. ASSUME NEW x \in 1 .. n PROVE f[x] = LastBody(d, e, x)
  <2>1. CASE d[x].parts = <<>>
    BY <1>5, <2>1 DEF LastBody
  <2>2. CASE d[x].parts # <<>>
    <3>1. Last(d[x].parts) \in x + 1 .. n
      BY <1>d, <2>2
    <3>2. e[Last(d[x].parts)] = f[Last(d[x].parts)]
      BY <1>n, <3>1
    <3> HIDE DEF e
    <3> QED
      BY <1>5, <2>2, <3>2 DEF LastBody
  <2> QED
    BY <2>1, <2>2
<1>7. [x \in 1 .. n |-> f[x]] = [x \in 1 .. n |-> LastBody(d, e, x)]
  <2> HIDE DEF e
  <2> QED
    BY <1>6
<1>8. IsLast(d, e)
  BY <1>7, <1>n DEF IsLast
<1> QED
  BY <1>8

\* the last node of a node is that of its last part
LEMMA LastUnfolds ==
  ASSUME NEW d \in Answers, NEW o \in 1 .. Len(d)
  PROVE  LastOf(d, o) = IF d[o].parts = <<>> THEN o ELSE LastOf(d, d[o].parts[Len(d[o].parts)])
<1> DEFINE F == CHOOSE f : IsLast(d, f)
<1>1. IsLast(d, F)
  BY LastExists
<1> HIDE DEF F
<1>2. DOMAIN d = 1 .. Len(d)
  BY DocumentIs
<1>3. F[o] = LastBody(d, F, o)
  BY <1>1, <1>2 DEF IsLast
<1>4. \A x : LastOf(d, x) = F[x]
  BY LastOfIs DEF F
<1> QED
  BY <1>3, <1>4 DEF LastBody, Last

-----------------------------------------------------------------------------
(* The characters of a text.                                               *)

Firsts(t, p) == {k \in 1 .. p : ~Continuation(t[k])}

LEMMA TextIs ==
  ASSUME NEW t, IsText(t)
  PROVE  /\ t \in Seq(1 .. 255) /\ Len(t) \in Nat /\ DOMAIN t = 1 .. Len(t)
         /\ \A k \in 1 .. Len(t) : t[k] \in 1 .. 255
         /\ \A p \in 0 .. Len(t) : IsFiniteSet(Firsts(t, p)) /\ Cardinality(Firsts(t, p)) \in Nat
         /\ Chars(t) = Cardinality(Firsts(t, Len(t)))
<1>1. t \in Seq(1 .. 255)
  BY DEF IsText
<1>2. Len(t) \in Nat /\ DOMAIN t = 1 .. Len(t) /\ \A k \in 1 .. Len(t) : t[k] \in 1 .. 255
  <2> DEFINE B == 1 .. 255
  <2>1. t \in Seq(B)
    BY <1>1
  <2> HIDE DEF B
  <2>2. Len(t) \in Nat /\ DOMAIN t = 1 .. Len(t) /\ \A k \in 1 .. Len(t) : t[k] \in B
    BY <2>1
  <2> QED
    BY <2>2 DEF B
<1>3. Chars(t) = Cardinality(Firsts(t, Len(t)))
  BY <1>2 DEF Chars, Firsts
<1>4. ASSUME NEW p \in 0 .. Len(t) PROVE IsFiniteSet(Firsts(t, p)) /\ Cardinality(Firsts(t, p)) \in Nat
  <2>1. IsFiniteSet(1 .. p)
    BY <1>2, FS_Interval
  <2>2. Firsts(t, p) \subseteq 1 .. p
    BY DEF Firsts
  <2> QED
    BY <2>1, <2>2, FS_Subset, FS_CardinalityType
<1> QED
  BY <1>1, <1>2, <1>3, <1>4

\* what is behind a first byte
LEMMA CharacterIs ==
  ASSUME NEW t, IsText(t), NEW p \in 1 .. Len(t), ~Continuation(t[p])
  PROVE  LET q == p + Width(t[p])
         IN  /\ q \in p + 1 .. Len(t) + 1
             /\ q <= Len(t) => ~Continuation(t[q])
             /\ Cardinality(Firsts(t, q - 1)) = Cardinality(Firsts(t, p - 1)) + 1
<1> DEFINE q == p + Width(t[p])
<1>n. Len(t) \in Nat /\ DOMAIN t = 1 .. Len(t)
  BY TextIs
<1>1. /\ q <= Len(t) + 1
      /\ \A j \in p + 1 .. q - 1 : Continuation(t[j])
      /\ q <= Len(t) => ~Continuation(t[q])
  <2>1. p \in DOMAIN t
    BY <1>n
  <2>2. \A k \in DOMAIN t : ~Continuation(t[k]) =>
          LET next == k + Width(t[k])
          IN  /\ next <= Len(t) + 1
              /\ \A j \in k + 1 .. next - 1 : Continuation(t[j])
              /\ next <= Len(t) => ~Continuation(t[next])
    BY DEF IsText
  <2>3. ~Continuation(t[p]) =>
          /\ q <= Len(t) + 1
          /\ \A j \in p + 1 .. q - 1 : Continuation(t[j])
          /\ q <= Len(t) => ~Continuation(t[q])
    BY <2>1, <2>2, Zenon
  <2> QED
    BY <2>3, Zenon
<1>2. Width(t[p]) \in 1 .. 4
  BY WidthIs
<1>3. q \in p + 1 .. Len(t) + 1
  BY <1>1, <1>2, <1>n
<1> HIDE DEF q
<1>4. Firsts(t, q - 1) = Firsts(t, p - 1) \cup {p}
  <2>1. ASSUME NEW k \in Firsts(t, q - 1) PROVE k \in Firsts(t, p - 1) \cup {p}
    <3>1. k \in 1 .. q - 1 /\ ~Continuation(t[k])
      BY DEF Firsts
    <3>2. k \notin p + 1 .. q - 1
      BY <1>1, <3>1
    <3>3. k = p \/ k \in 1 .. p - 1
      BY <1>3, <1>n, <3>1, <3>2
    <3> QED
      BY <3>1, <3>3 DEF Firsts
  <2>2. ASSUME NEW k \in Firsts(t, p - 1) \cup {p} PROVE k \in Firsts(t, q - 1)
    <3>1. (k \in 1 .. p - 1 \/ k = p) /\ ~Continuation(t[k])
      BY DEF Firsts
    <3>2. k \in 1 .. q - 1
      BY <1>3, <1>n, <3>1
    <3> QED
      BY <3>1, <3>2 DEF Firsts
  <2> QED
    BY <2>1, <2>2
<1>5. p - 1 \in 0 .. Len(t) /\ p \notin Firsts(t, p - 1)
  BY <1>n DEF Firsts
<1>6. IsFiniteSet(Firsts(t, p - 1))
  BY <1>5, TextIs
<1>7. Cardinality(Firsts(t, p - 1) \cup {p}) = Cardinality(Firsts(t, p - 1)) + 1
  BY <1>5, <1>6, FS_AddElement
<1> QED
  BY <1>1, <1>3, <1>4, <1>7 DEF q

\* the k characters before After(t, k)
LEMMA CharactersStart ==
  ASSUME NEW t, IsText(t), NEW n, n = Chars(t)
  PROVE  /\ n \in Nat
         /\ \A k \in Nat : k <= n =>
              /\ After(t, k) \in 1 .. Len(t) + 1
              /\ Cardinality(Firsts(t, After(t, k) - 1)) = k
              /\ After(t, k) <= Len(t) => ~Continuation(t[After(t, k)])
         /\ \A k \in Nat : k < n => After(t, k) <= Len(t)
<1> DEFINE Good(k) == /\ After(t, k) \in 1 .. Len(t) + 1
                      /\ Cardinality(Firsts(t, After(t, k) - 1)) = k
                      /\ After(t, k) <= Len(t) => ~Continuation(t[After(t, k)])
           T == {k \in Nat : k <= n => Good(k)}
<1>n. Len(t) \in Nat /\ n = Cardinality(Firsts(t, Len(t))) /\ Len(t) \in 0 .. Len(t)
  BY TextIs
<1>m. n \in Nat
  BY <1>n, TextIs
<1>1. 0 \in T
  <2>1. After(t, 0) = 1
    BY AfterGrows
  <2>2. Firsts(t, 1 - 1) = {}
    BY DEF Firsts
  <2>3. Cardinality(Firsts(t, 1 - 1)) = 0
    BY <2>2, FS_EmptySet
  <2>4. 1 <= Len(t) => ~Continuation(t[1])
    BY <1>n DEF IsText
  <2>5. Good(0)
    BY <1>n, <2>1, <2>3, <2>4
  <2> HIDE DEF Good
  <2> QED
    BY <2>5
<1>2. ASSUME NEW k \in Nat, k < n, Good(k) PROVE After(t, k) <= Len(t)
  <2> SUFFICES ASSUME ~(After(t, k) <= Len(t)) PROVE FALSE
    OBVIOUS
  <2>1. After(t, k) - 1 = Len(t)
    BY <1>2, <1>n
  <2> QED
    BY <1>2, <2>1, <1>n, <1>m
<1>3. ASSUME NEW k \in Nat, k \in T PROVE k + 1 \in T
  <2> SUFFICES ASSUME k + 1 <= n PROVE Good(k + 1)
    OBVIOUS
  <2>1. Good(k) /\ k < n
    BY <1>3, <1>m
  <2>2. After(t, k) <= Len(t)
    BY <1>2, <2>1
  <2> DEFINE p == After(t, k)
             q == p + Width(t[p])
  <2>3. p \in 1 .. Len(t) /\ ~Continuation(t[p]) /\ Cardinality(Firsts(t, p - 1)) = k
    BY <2>1, <2>2, <1>n
  <2>4. After(t, k + 1) = q
    BY AfterGrows
  <2> HIDE DEF p
  <2>5. /\ q \in p + 1 .. Len(t) + 1
        /\ q <= Len(t) => ~Continuation(t[q])
        /\ Cardinality(Firsts(t, q - 1)) = Cardinality(Firsts(t, p - 1)) + 1
    BY <2>3, CharacterIs
  <2> HIDE DEF q
  <2>6. q \in 1 .. Len(t) + 1 /\ Cardinality(Firsts(t, q - 1)) = k + 1
    BY <2>3, <2>5, <1>n
  <2> QED
    BY <2>4, <2>5, <2>6
<1>4. \A k \in Nat : k \in T
  <2> HIDE DEF T
  <2> QED
    BY <1>1, <1>3, SetInduction
<1>5. \A k \in Nat : k <= n => Good(k)
  BY <1>4
<1>6. ASSUME NEW k \in Nat, k < n PROVE After(t, k) <= Len(t)
  <2>1. k <= n
    BY <1>6, <1>m
  <2>2. Good(k)
    BY <1>5, <2>1
  <2> QED
    BY <1>2, <1>6, <2>2
<1> QED
  BY <1>m, <1>5, <1>6

\* the last character ends where the text does
LEMMA CharactersEnd ==
  ASSUME NEW t, IsText(t)
  PROVE  After(t, Chars(t)) = Len(t) + 1
<1> DEFINE n == Chars(t)
           p == After(t, n)
<1>n. Len(t) \in Nat /\ n = Cardinality(Firsts(t, Len(t))) /\ n \in Nat
  BY TextIs, CharactersStart
<1>1. /\ p \in 1 .. Len(t) + 1
      /\ Cardinality(Firsts(t, p - 1)) = n
      /\ p <= Len(t) => ~Continuation(t[p])
  BY <1>n, CharactersStart
<1> HIDE DEF p
<1> SUFFICES ASSUME p <= Len(t) PROVE FALSE
  BY <1>1, <1>n DEF p
<1>2. p \in 1 .. Len(t) /\ ~Continuation(t[p])
  BY <1>1, <1>n
<1> DEFINE q == p + Width(t[p])
<1>3. /\ q \in p + 1 .. Len(t) + 1
      /\ Cardinality(Firsts(t, q - 1)) = n + 1
  BY <1>1, <1>2, CharacterIs
<1> HIDE DEF q
<1>4. q - 1 \in 0 .. Len(t) /\ Len(t) \in 0 .. Len(t)
  BY <1>2, <1>3, <1>n
<1>5. Firsts(t, q - 1) \subseteq Firsts(t, Len(t))
  BY <1>4, <1>n DEF Firsts
<1>6. IsFiniteSet(Firsts(t, Len(t)))
  BY <1>4, TextIs
<1>7. Cardinality(Firsts(t, q - 1)) <= Cardinality(Firsts(t, Len(t)))
  BY <1>5, <1>6, FS_Subset
<1> HIDE DEF n
<1> QED
  BY <1>3, <1>7, <1>n

-----------------------------------------------------------------------------
(* Bytes that lie in the input.                                            *)

LEMMA LiesApart ==
  ASSUME NEW m, NEW A, NEW u \in Seq(A), NEW v \in Seq(A), NEW p \in Nat, Lies(m, u \o v, p)
  PROVE  Lies(m, u, p) /\ Lies(m, v, p + Len(u))
<1> DEFINE w == u \o v
<1>1. Len(u) \in Nat /\ Len(v) \in Nat /\ Len(w) = Len(u) + Len(v)
  OBVIOUS
<1>2. \A i \in 1 .. Len(u) : w[i] = u[i]
  OBVIOUS
<1>3. \A i \in 1 .. Len(v) : w[Len(u) + i] = v[i]
  OBVIOUS
<1>4. Lies(m, w, p)
  OBVIOUS
<1> HIDE DEF w
<1>5. Lies(m, u, p)
  BY <1>1, <1>2, <1>4 DEF Lies
<1>6. ASSUME NEW i \in 1 .. Len(v)
      PROVE  IF p + Len(u) + i - 1 <= Len(m.bytes) THEN m.bytes[p + Len(u) + i - 1] = v[i] ELSE m.cut
  <2>1. Len(u) + i \in 1 .. Len(w) /\ w[Len(u) + i] = v[i] /\ p + (Len(u) + i) - 1 = p + Len(u) + i - 1
    BY <1>1, <1>3
  <2>2. IF p + (Len(u) + i) - 1 <= Len(m.bytes) THEN m.bytes[p + (Len(u) + i) - 1] = w[Len(u) + i] ELSE m.cut
    BY <1>4, <2>1 DEF Lies
  <2> QED
    BY <2>1, <2>2
<1>7. Lies(m, v, p + Len(u))
  BY <1>6 DEF Lies
<1> QED
  BY <1>5, <1>7

LEMMA FlattenLies ==
  ASSUME NEW m, NEW A, NEW s \in Seq(Seq(A)), NEW p \in Nat, Lies(m, FlattenSeq(s), p)
  PROVE  \A k \in 1 .. Len(s) : Lies(m, s[k], p + Len(FlattenSeq(First(s, k - 1))))
<1> DEFINE n == Len(s)
           F(k) == FlattenSeq(First(s, k))
<1>1. /\ \A k \in 0 .. n : F(k) \in Seq(A)
      /\ \A k \in 1 .. n : F(k) = F(k - 1) \o s[k]
      /\ F(n) = FlattenSeq(s)
  BY FlattenGrows
<1>n. n \in Nat /\ \A k \in 1 .. n : s[k] \in Seq(A)
  OBVIOUS
<1> HIDE DEF F, n
<1>2. ASSUME NEW k \in 1 .. n, Lies(m, F(k), p)
      PROVE  Lies(m, F(k - 1), p) /\ Lies(m, s[k], p + Len(F(k - 1)))
  <2>1. k - 1 \in 0 .. n
    BY <1>n
  <2>2. F(k - 1) \in Seq(A) /\ s[k] \in Seq(A) /\ F(k) = F(k - 1) \o s[k]
    BY <1>1, <1>n, <2>1
  <2> QED
    BY <1>2, <2>2, LiesApart
<1> DEFINE T == {j \in Nat : j <= n => Lies(m, F(n - j), p)}
<1>3. 0 \in T
  <2>1. n - 0 = n
    BY <1>n
  <2> QED
    BY <1>1, <2>1
<1>4. ASSUME NEW j \in Nat, j \in T PROVE j + 1 \in T
  <2> SUFFICES ASSUME j + 1 <= n PROVE Lies(m, F(n - (j + 1)), p)
    OBVIOUS
  <2>1. n - j \in 1 .. n /\ Lies(m, F(n - j), p) /\ n - (j + 1) = n - j - 1
    BY <1>4, <1>n
  <2>2. Lies(m, F(n - j - 1), p)
    BY <1>2, <2>1
  <2> QED
    BY <2>1, <2>2
<1>5. \A j \in Nat : j \in T
  <2> HIDE DEF T
  <2> QED
    BY <1>3, <1>4, SetInduction
<1>6. ASSUME NEW k \in 1 .. n PROVE Lies(m, s[k], p + Len(F(k - 1)))
  <2>1. n - k \in Nat /\ n - k <= n /\ n - (n - k) = k
    BY <1>n
  <2>2. Lies(m, F(n - (n - k)), p)
    BY <1>5, <2>1
  <2>3. Lies(m, F(k), p)
    BY <2>1, <2>2
  <2> QED
    BY <1>2, <2>3
<1> QED
  BY <1>6 DEF F, n

-----------------------------------------------------------------------------
(* Numbers.                                                                *)

LEMMA Length16Is ==
  ASSUME NEW n \in Nat, n <= 65535
  PROVE  /\ Length16(n) \in Seq(Byte) /\ Len(Length16(n)) = 2
         /\ Length16(n)[1] \in Byte /\ Length16(n)[2] \in Byte
         /\ Length16(n)[1] * 256 + Length16(n)[2] = n
<1> DEFINE a == n \div 256
           b == n % 256
<1>1. a \in Byte /\ b \in Byte /\ a * 256 + b = n
  BY SMT DEF Byte
<1>2. Length16(n) = <<a, b>>
  BY DEF Length16
<1> HIDE DEF a, b, Byte
<1> QED
  BY <1>1, <1>2

MinInt == -2147483647 - 1

LEMMA MaxIntIs == MaxInt \in Nat /\ MaxInt = 2147483647 /\ MinInt \in Int /\ MinInt = -MaxInt - 1
BY SMT DEF MaxInt, MinInt

\* the number that four bytes are
Low31(a, b, c, e) == (a % 128) * 16777216 + b * 65536 + c * 256 + e

LEMMA Length32Is ==
  ASSUME NEW v \in Int32
  PROVE  \E a, b, c, e \in Byte :
           /\ Length32(v) = <<a, b, c, e>>
           /\ v = Low31(a, b, c, e) + (IF a >= 128 THEN MinInt ELSE 0)
           /\ v >= 0 => a < 128
<1> DEFINE u == IF v < 0 THEN v + 2147483647 + 1 ELSE v
           h == u \div 16777216
           a == h + (IF v < 0 THEN 128 ELSE 0)
           b == (u \div 65536) % 256
           c == (u \div 256) % 256
           e == u % 256
<1>1. v \in Int /\ -MaxInt - 1 <= v /\ v <= MaxInt
  <2>1. MaxInt \in Nat
    BY SMT, MaxIntIs
  <2> QED
    BY <2>1 DEF Int32
<1>2. Length32(v) = <<a, b, c, e>>
  BY SMT DEF Length32
<1>3. u \in Nat /\ u <= 2147483647 /\ v = u + (IF v < 0 THEN MinInt ELSE 0)
  BY SMT, <1>1, MaxIntIs
<1> HIDE DEF u
<1>4. h \in Nat /\ h <= 127
  BY SMT, <1>3
<1>5. b \in Byte /\ c \in Byte /\ e \in Byte
  BY SMT, <1>3 DEF Byte
<1>6. u = h * 16777216 + b * 65536 + c * 256 + e
  BY SMT, <1>3
<1> HIDE DEF b, c, e, h
<1>7. a \in Byte /\ a % 128 = h /\ (a >= 128 <=> v < 0)
  BY SMT, <1>1, <1>4 DEF Byte
<1> HIDE DEF a, MinInt
<1>8. v = Low31(a, b, c, e) + (IF a >= 128 THEN MinInt ELSE 0)
  BY SMT, <1>3, <1>5, <1>6, <1>7, MaxIntIs DEF Byte, Low31
<1>9. v >= 0 => a < 128
  BY SMT, <1>1, <1>7 DEF Byte
<1> QED
  BY <1>2, <1>5, <1>7, <1>8, <1>9, Zenon

LEMMA CameIs == Came.doc = message /\ Came.bytes = input /\ Came.cut = cut
BY DEF Came

\* byte i of what lies at p
LEMMA ByteLies ==
  ASSUME NEW w, NEW p \in Nat, Lies(Came, w, p), Len(w) \in Nat, NEW i \in 1 .. Len(w)
  PROVE  IF p + i - 1 <= Len(input) THEN input[p + i - 1] = w[i] ELSE cut
BY CameIs DEF Lies

LEMMA Headed ==
  ASSUME NEW A, NEW x \in A, NEW s \in Seq(A)
  PROVE  /\ <<x>> \o s \in Seq(A) /\ Len(s) \in Nat /\ Len(<<x>> \o s) = 1 + Len(s)
         /\ (<<x>> \o s)[1] = x
         /\ \A i \in 1 .. Len(s) : (<<x>> \o s)[1 + i] = s[i]
OBVIOUS

LEMMA IntegerIs ==
  ASSUME NEW q \in Nat, Len(input) \in Nat
  PROVE  LET b(k) == IF q + k <= Len(input) THEN input[q + k] ELSE 0
         IN  IntegerAt(q) = Low31(b(0), b(1), b(2), b(3))
                              + (IF (b(0) >= 128) # (q + 3 > Len(input)) THEN MinInt ELSE 0)
BY SMT DEF IntegerAt, Low31, MinInt

LEMMA CutInteger ==
  ASSUME NEW a \in Byte, NEW b \in Byte, NEW c \in Byte, NEW negative \in BOOLEAN
  PROVE  LET v == Low31(a, b, c, 0) + (IF negative THEN MinInt ELSE 0)
         IN  v \in Int /\ v % 256 = 0 /\ (negative => v < 0)
<1> DEFINE v == Low31(a, b, c, 0) + (IF negative THEN MinInt ELSE 0)
           h == a % 128
<1>1. h \in Nat /\ h <= 127
  BY SMT DEF Byte
<1>2. Low31(a, b, c, 0) = h * 16777216 + b * 65536 + c * 256
  BY SMT DEF Low31, Byte
<1> HIDE DEF h
<1>3. v = 256 * (h * 65536 + b * 256 + c + (IF negative THEN -8388608 ELSE 0))
  BY SMT, <1>1, <1>2 DEF Byte, MinInt
<1> DEFINE u == h * 65536 + b * 256 + c + (IF negative THEN -8388608 ELSE 0)
<1>4. u \in Int /\ (negative => u < 0)
  BY SMT, <1>1 DEF Byte
<1> HIDE DEF u
<1>5. v = 256 * u
  BY SMT, <1>3 DEF u
<1> HIDE DEF v
<1>6. v \in Int /\ v % 256 = 0 /\ (negative => v < 0)
  BY SMT, <1>4, <1>5
<1> QED
  BY SMT, <1>6 DEF v

\* a number that was sent is read, or one that says which bytes are missing
LEMMA NumberReads ==
  ASSUME NEW v \in Int32, NEW tag \in Byte, NEW p \in Nat, p > 0, Len(input) \in Nat,
         p <= Len(input), Lies(Came, <<tag>> \o Length32(v), p)
  PROVE  IF p + 4 <= Len(input) THEN IntegerAt(p + 1) = v
         ELSE cut /\ IntegerAt(p + 1) % 256 = 0 /\ (v >= 0 => IntegerAt(p + 1) < 0)
<1>1. PICK a, b, c, e \in Byte :
        /\ Length32(v) = <<a, b, c, e>>
        /\ v = Low31(a, b, c, e) + (IF a >= 128 THEN MinInt ELSE 0)
        /\ v >= 0 => a < 128
  BY Length32Is, Zenon
<1> DEFINE w == <<tag>> \o Length32(v)
           n == Len(input)
           B(k) == IF p + 1 + k <= n THEN input[p + 1 + k] ELSE 0
           s == <<a, b, c, e>>
<1>s. s \in Seq(Byte) /\ Len(s) = 4 /\ s[1] = a /\ s[2] = b /\ s[3] = c /\ s[4] = e
  OBVIOUS
<1>2. Len(w) = 5 /\ w[2] = a /\ w[3] = b /\ w[4] = c /\ w[5] = e
  <2>1. w = <<tag>> \o s
    BY <1>1
  <2>a. s \in Seq(Byte)
    BY <1>s
  <2> HIDE DEF w, s, n, B
  <2>b. Len(<<tag>> \o s) = 1 + Len(s) /\ \A i \in 1 .. Len(s) : (<<tag>> \o s)[1 + i] = s[i]
    BY <2>a, Headed
  <2>2. Len(w) = 1 + Len(s) /\ \A i \in 1 .. Len(s) : w[1 + i] = s[i]
    BY <2>1, <2>b
  <2>3. w[1 + 1] = a /\ w[1 + 2] = b /\ w[1 + 3] = c /\ w[1 + 4] = e
    BY <1>s, <2>2
  <2> QED
    BY <1>s, <2>2, <2>3
<1>3. Lies(Came, w, p)
  OBVIOUS
<1> HIDE DEF w
<1>4. /\ IF p + 1 <= n THEN input[p + 1] = a ELSE cut
      /\ IF p + 2 <= n THEN input[p + 2] = b ELSE cut
      /\ IF p + 3 <= n THEN input[p + 3] = c ELSE cut
      /\ IF p + 4 <= n THEN input[p + 4] = e ELSE cut
  <2>1. ASSUME NEW i \in 2 .. 5 PROVE IF p + i - 1 <= n THEN input[p + i - 1] = w[i] ELSE cut
    <3>1. Len(w) \in Nat /\ i \in 1 .. Len(w)
      BY <1>2, <2>1
    <3> QED
      BY <1>3, <3>1, ByteLies
  <2>2. /\ 2 \in 2 .. 5 /\ 3 \in 2 .. 5 /\ 4 \in 2 .. 5 /\ 5 \in 2 .. 5
        /\ w[2] = a /\ w[3] = b /\ w[4] = c /\ w[5] = e
        /\ p + 2 - 1 = p + 1 /\ p + 3 - 1 = p + 2 /\ p + 4 - 1 = p + 3 /\ p + 5 - 1 = p + 4
    BY <1>2
  <2> QED
    BY <2>1, <2>2
<1>5. IntegerAt(p + 1) = Low31(B(0), B(1), B(2), B(3))
                           + (IF (B(0) >= 128) # (p + 1 + 3 > n) THEN MinInt ELSE 0)
  <2>1. p + 1 \in Nat
    OBVIOUS
  <2> QED
    BY <2>1, IntegerIs
<1>n. n \in Nat
  OBVIOUS
<1> HIDE DEF n
<1>6. CASE p + 4 <= n
  <2>1. B(0) = a /\ B(1) = b /\ B(2) = c /\ B(3) = e
    BY <1>4, <1>6, <1>n
  <2>2. ~(p + 1 + 3 > n)
    BY <1>6, <1>n
  <2> HIDE DEF B
  <2>3. IntegerAt(p + 1) = v
    BY <1>1, <1>5, <2>1, <2>2
  <2> QED
    BY <1>6, <2>3 DEF n
<1>7. CASE ~(p + 4 <= n)
  <2>1. cut /\ B(3) = 0 /\ p + 1 + 3 > n
    BY <1>4, <1>7, <1>n
  <2>2. 0 \in Byte
    BY DEF Byte
  <2>3. B(0) \in {a, 0} /\ B(1) \in {b, 0} /\ B(2) \in {c, 0}
    BY <1>4, <1>n
  <2>4. B(0) \in Byte /\ B(1) \in Byte /\ B(2) \in Byte
    BY <1>1, <2>2, <2>3
  <2> DEFINE neg == ~(B(0) >= 128)
             r == Low31(B(0), B(1), B(2), 0) + (IF neg THEN MinInt ELSE 0)
  <2> HIDE DEF B
  <2>5. neg \in BOOLEAN /\ IntegerAt(p + 1) = r
    <3>1. ((B(0) >= 128) # (p + 1 + 3 > n)) <=> neg
      BY <2>1
    <3> QED
      BY <1>5, <2>1, <3>1
  <2>6. r \in Int /\ r % 256 = 0 /\ (neg => r < 0)
    <3> HIDE DEF neg
    <3> QED
      BY <2>4, <2>5, CutInteger
  <2>7. v >= 0 => neg
    BY <1>1, <2>3, <2>4 DEF Byte
  <2> HIDE DEF neg, r
  <2> QED
    BY <1>7, <2>1, <2>5, <2>6, <2>7 DEF n
<1> QED
  BY <1>6, <1>7 DEF n

LEMMA SubSeqIs ==
  ASSUME NEW A, NEW s \in Seq(A), NEW i \in Nat, NEW j \in Nat, 1 <= i, i <= j + 1, j <= Len(s)
  PROVE  /\ SubSeq(s, i, j) \in Seq(A) /\ Len(SubSeq(s, i, j)) = j - i + 1
         /\ \A k \in 1 .. j - i + 1 : SubSeq(s, i, j)[k] = s[i + k - 1] /\ s[i + k - 1] \in A
OBVIOUS

LEMMA SameSequence ==
  ASSUME NEW A, NEW s \in Seq(A), NEW t \in Seq(A), Len(s) = Len(t), \A k \in 1 .. Len(s) : s[k] = t[k]
  PROVE  s = t
OBVIOUS

-----------------------------------------------------------------------------
(* Text that was sent is read as it is, up to where the input ends.        *)

LEMMA AfterIncreases ==
  ASSUME NEW t, NEW i \in Nat, NEW j \in Nat, i <= j
  PROVE  After(t, i) + (j - i) <= After(t, j) /\ After(t, i) \in Nat /\ After(t, j) \in Nat
<1> DEFINE T == {k \in Nat : After(t, i) + k <= After(t, i + k)}
<1>1. \A k \in Nat : After(t, k) \in Nat
  BY AfterGrows
<1>2. 0 \in T
  BY <1>1
<1>3. ASSUME NEW k \in Nat, k \in T PROVE k + 1 \in T
  <2>1. After(t, i + k + 1) = After(t, i + k) + Width(t[After(t, i + k)])
    BY AfterGrows
  <2>2. Width(t[After(t, i + k)]) \in 1 .. 4
    BY WidthIs
  <2>3. i + (k + 1) = i + k + 1
    OBVIOUS
  <2> QED
    BY <1>1, <1>3, <2>1, <2>2, <2>3
<1>4. \A k \in Nat : k \in T
  <2> HIDE DEF T
  <2> QED
    BY <1>2, <1>3, SetInduction
<1>5. j - i \in Nat /\ i + (j - i) = j
  OBVIOUS
<1>6. After(t, i) + (j - i) <= After(t, i + (j - i))
  BY <1>4, <1>5
<1> QED
  BY <1>1, <1>5, <1>6

LEMMA FollowingFits ==
  ASSUME NEW b \in 1 .. 255, ~Continuation(b), b \notin Missed
  PROVE  1 + Following(b) = Width(b)
BY SMT DEF Continuation, Missed, Following, Width

LEMMA UptoIs ==
  ASSUME NEW p \in Nat, Len(input) \in Nat
  PROVE  Upto(p) = IF p <= Len(input) THEN p ELSE Len(input) + 1
BY DEF Upto

\* the bytes of characters i + 1 to j of text t
Part(t, i, j) == SubSeq(t, After(t, i), After(t, j) - 1)

LEMMA PartIsText ==
  ASSUME NEW t, IsText(t), NEW i \in Nat, NEW j \in Nat, i <= j, j <= Chars(t)
  PROVE  LET s == Part(t, i, j)
         IN  /\ After(t, i) \in 1 .. Len(t) + 1 /\ After(t, j) \in 1 .. Len(t) + 1 /\ After(t, i) <= After(t, j)
             /\ s \in Seq(1 .. 255) /\ Len(s) = After(t, j) - After(t, i)
             /\ \A k \in 1 .. Len(s) : s[k] = t[After(t, i) + k - 1] /\ s[k] \in 1 .. 255
<1>1. Chars(t) \in Nat
  BY CharactersStart
<1>2. i <= Chars(t)
  BY <1>1
<1>3. After(t, i) \in 1 .. Len(t) + 1 /\ After(t, j) \in 1 .. Len(t) + 1
  BY <1>2, CharactersStart
<1>4. After(t, i) + (j - i) <= After(t, j)
  BY AfterIncreases
<1> DEFINE a == After(t, i)
           b == After(t, j) - 1
           S == 1 .. 255
<1>5. t \in Seq(S) /\ Len(t) \in Nat
  BY TextIs
<1>6. a \in Nat /\ b \in Nat /\ 1 <= a /\ a <= b + 1 /\ b <= Len(t)
  BY <1>3, <1>4, <1>5
<1> HIDE DEF a, b, S
<1>7. /\ SubSeq(t, a, b) \in Seq(S) /\ Len(SubSeq(t, a, b)) = b - a + 1
      /\ \A k \in 1 .. b - a + 1 : SubSeq(t, a, b)[k] = t[a + k - 1] /\ t[a + k - 1] \in S
  BY <1>5, <1>6, SubSeqIs
<1> DEFINE s == SubSeq(t, a, b)
<1> HIDE DEF s
<1>8. s \in Seq(S) /\ Len(s) = b + 1 - a /\ \A k \in 1 .. Len(s) : s[k] = t[a + k - 1] /\ s[k] \in S
  BY <1>6, <1>7 DEF s
<1>9. b + 1 = After(t, j)
  BY <1>3, <1>5 DEF b
<1>10. a <= b + 1
  BY <1>6
<1> QED
  BY <1>3, <1>8, <1>9, <1>10 DEF Part, s, a, b, S

LEMMA TextScan ==
  ASSUME NEW t, IsText(t), \A k \in DOMAIN t : t[k] \notin Missed,
         NEW i \in Nat, NEW j \in Nat, i <= j, j <= Chars(t),
         NEW p \in Nat, 1 <= p, input \in Seq(Byte), Lies(Came, Part(t, i, j), p)
  PROVE  EndOf(p, j - i) = Upto(p + (After(t, j) - After(t, i)))
<1> DEFINE n == Len(input)
           l == j - i
           c == Min({l, n})
           D(k) == After(t, i + k) - After(t, i)
           s == Part(t, i, j)
<1>n. n \in Nat /\ l \in Nat /\ l <= Chars(t) - i /\ Chars(t) \in Nat
  BY CharactersStart
<1>c. c \in Nat /\ (c = l \/ c = n) /\ c <= l /\ c <= n
  <2> HIDE DEF l, n
  <2>1. {l, n} # {} /\ l \in Nat /\ n \in Nat
    BY <1>n
  <2>2. c = IF l <= n THEN l ELSE n
    BY <1>n DEF Min
  <2> HIDE DEF c
  <2> QED
    BY <1>n, <2>2
<1>l. i + l = j
  BY <1>n
<1> HIDE DEF l, c
<1>1. PICK f \in [0 .. c -> Nat] :
        /\ f[0] = p
        /\ \A k \in 1 .. c : f[k] = IF f[k - 1] > n THEN f[k - 1] ELSE f[k - 1] + 1 + Following(input[f[k - 1]])
        /\ EndOf(p, l) = Upto(f[c])
  BY <1>n, ScanIs DEF c
<1>2. /\ \A k \in 0 .. l : D(k) \in Nat /\ k <= D(k) /\ After(t, i + k) = After(t, i) + D(k)
      /\ \A k \in 0 .. l - 1 : D(k) < D(k + 1) /\ D(k + 1) = D(k) + Width(t[After(t, i + k)])
      /\ \A k \in 0 .. l : D(k) <= D(l)
      /\ D(0) = 0
  <2>1. ASSUME NEW k \in 0 .. l PROVE D(k) \in Nat /\ k <= D(k) /\ After(t, i + k) = After(t, i) + D(k) /\ D(k) <= D(l)
    <3>1. i + k \in Nat /\ i <= i + k /\ i + k <= j /\ i + l = j
      BY <1>n, <1>l
    <3>2. After(t, i) + (i + k - i) <= After(t, i + k) /\ After(t, i + k) + (j - (i + k)) <= After(t, j)
          /\ After(t, i) \in Nat /\ After(t, i + k) \in Nat /\ After(t, j) \in Nat
      BY <3>1, AfterIncreases
    <3>3. After(t, i + l) = After(t, j)
      BY <3>1
    <3> DEFINE x == After(t, i)
               y == After(t, i + k)
               z == After(t, j)
    <3>4. x + (i + k - i) <= y /\ y + (j - (i + k)) <= z /\ x \in Nat /\ y \in Nat /\ z \in Nat
      BY <3>2
    <3>5. D(k) = y - x /\ D(l) = z - x
      BY <3>3
    <3> HIDE DEF x, y, z, D
    <3>6. D(k) \in Nat /\ k <= D(k) /\ y = x + D(k) /\ D(k) <= D(l)
      BY <1>n, <3>1, <3>4, <3>5
    <3> QED
      BY <3>6 DEF x, y
  <2>2. ASSUME NEW k \in 0 .. l - 1 PROVE D(k) < D(k + 1) /\ D(k + 1) = D(k) + Width(t[After(t, i + k)])
    <3>1. i + k \in Nat /\ i + (k + 1) = i + k + 1
      BY <1>n
    <3>2. After(t, i + k + 1) = After(t, i + k) + Width(t[After(t, i + k)]) /\ After(t, i + k) \in Nat /\ After(t, i) \in Nat
      BY <3>1, AfterGrows
    <3>3. Width(t[After(t, i + k)]) \in 1 .. 4
      BY WidthIs
    <3> QED
      BY <3>1, <3>2, <3>3
  <2>3. D(0) = 0
    <3>1. After(t, i) \in Nat /\ i + 0 = i
      BY AfterGrows
    <3> QED
      BY <3>1
  <2> QED
    BY <2>1, <2>2, <2>3
<1>D. D(l) = After(t, j) - After(t, i)
  BY <1>l
<1> HIDE DEF D
<1>3. /\ After(t, i) \in 1 .. Len(t) + 1 /\ Len(s) = D(l) /\ Len(t) \in Nat
      /\ \A k \in 1 .. Len(s) : s[k] = t[After(t, i) + k - 1] /\ s[k] \in 1 .. 255
  <2>1. i + l = j
    BY <1>l
  <2>2. Len(t) \in Nat
    BY TextIs
  <2> QED
    BY <1>D, <2>2, PartIsText
\* the byte at which character k of them starts
<1>4. ASSUME NEW k \in 0 .. l - 1, p + D(k) <= n
      PROVE  1 + Following(input[p + D(k)]) = Width(t[After(t, i + k)])
  <2>1. k \in 0 .. l /\ k + 1 \in 0 .. l /\ i + k < Chars(t) /\ i + k \in Nat
    BY <1>n
  <2>2. D(k) \in Nat /\ D(k) < D(k + 1) /\ D(k + 1) <= D(l) /\ After(t, i + k) = After(t, i) + D(k)
    BY <1>2, <2>1
  <2>3. After(t, i + k) <= Len(t)
    BY <2>1, CharactersStart
  <2>4. After(t, i + k) \in 1 .. Len(t) + 1 /\ ~Continuation(t[After(t, i + k)])
    <3>1. i + k <= Chars(t)
      BY <1>n, <2>1
    <3> QED
      BY <2>1, <2>3, <3>1, CharactersStart
  <2> DEFINE u == After(t, i + k)
             v == D(k) + 1
  <2>5. u \in 1 .. Len(t) /\ t[u] \in 1 .. 255 /\ t[u] \notin Missed
    <3>1. u \in 1 .. Len(t)
      BY <1>3, <2>3, <2>4
    <3> HIDE DEF u
    <3> QED
      BY <3>1, TextIs
  <2>d. D(l) \in Nat /\ D(k + 1) \in Nat
    BY <1>2, <1>n, <2>1
  <2> HIDE DEF D
  <2>6. v \in 1 .. Len(s) /\ s[v] = t[After(t, i) + v - 1] /\ After(t, i) + v - 1 = u /\ p + v - 1 = p + D(k)
    <3> DEFINE z == After(t, i)
               w == Len(s)
    <3>2. D(k) < D(k + 1) /\ D(k + 1) <= D(l) /\ D(k) \in Nat /\ D(k + 1) \in Nat /\ D(l) \in Nat /\ u = z + D(k)
      BY <2>2, <2>d
    <3>3. z \in Nat /\ w = D(l)
      BY <1>3
    <3>4. v = D(k) + 1
      OBVIOUS
    <3> HIDE DEF v, u, s, z, w
    <3> DEFINE a == D(k)
               b == D(k + 1)
               e == D(l)
    <3>6. /\ a < b /\ b <= e /\ a \in Nat /\ b \in Nat /\ e \in Nat /\ u = z + a
          /\ z \in Nat /\ w = e /\ v = a + 1 /\ p \in Nat
      BY <3>2, <3>3, <3>4
    <3> HIDE DEF a, b, e
    <3>7. v \in 1 .. w /\ z + v - 1 = u /\ p + v - 1 = p + a
      BY <3>6
    <3>5. v \in 1 .. w /\ z + v - 1 = u /\ p + v - 1 = p + D(k)
      BY <3>7 DEF a
    <3>1. v \in 1 .. Len(s) /\ After(t, i) + v - 1 = u /\ p + v - 1 = p + D(k)
      BY <3>5 DEF z, w
    <3> QED
      BY <1>3, <3>1
  <2> HIDE DEF v, u, s
  <2>7. input[p + v - 1] = s[v]
    <3>1. Lies(Came, s, p)
      BY DEF s
    <3>2. Len(s) \in Nat
      BY <1>3, <2>d
    <3> HIDE DEF n
    <3> QED
      BY <1>4, <2>6, <3>1, <3>2, ByteLies DEF n
  <2>8. input[p + D(k)] = t[u]
    BY <2>6, <2>7
  <2>9. 1 + Following(t[u]) = Width(t[u])
    BY <2>4, <2>5, FollowingFits DEF u
  <2> QED
    BY <2>8, <2>9 DEF u
<1> HIDE DEF D, l, n, c
<1> DEFINE T == {k \in Nat : k <= c => f[k] = p + D(k) \/ (f[k] > n /\ p + D(k) > n)}
<1>5. 0 \in T
  BY <1>1, <1>2
<1>6. ASSUME NEW k \in Nat, k \in T PROVE k + 1 \in T
  <2> SUFFICES ASSUME k + 1 <= c PROVE f[k + 1] = p + D(k + 1) \/ (f[k + 1] > n /\ p + D(k + 1) > n)
    OBVIOUS
  <2>1. k \in 0 .. l - 1 /\ k + 1 \in 0 .. l /\ k \in 0 .. l /\ k + 1 \in 1 .. c /\ k <= c /\ (k + 1) - 1 = k /\ k \in 0 .. c
    BY <1>c, <1>n
  <2>2. f[k + 1] = IF f[(k + 1) - 1] > n THEN f[(k + 1) - 1] ELSE f[(k + 1) - 1] + 1 + Following(input[f[(k + 1) - 1]])
    BY <1>1, <2>1, Zenon
  <2>3. f[k] \in Nat /\ f[k + 1] = IF f[k] > n THEN f[k] ELSE f[k] + 1 + Following(input[f[k]])
    BY <1>1, <2>1, <2>2
  <2>4. D(k) \in Nat /\ D(k) < D(k + 1) /\ D(k + 1) = D(k) + Width(t[After(t, i + k)]) /\ D(k + 1) \in Nat
    BY <1>2, <2>1
  <2>5. CASE f[k] > n
    <3>1. p + D(k) > n
      BY <1>6, <2>1, <2>5
    <3> QED
      BY <1>n, <2>3, <2>4, <2>5, <3>1
  <2>6. CASE ~(f[k] > n)
    <3>1. f[k] = p + D(k) /\ p + D(k) <= n
      BY <1>6, <1>n, <2>1, <2>3, <2>6
    <3>2. 1 + Following(input[p + D(k)]) = Width(t[After(t, i + k)])
      BY <1>4, <2>1, <3>1
    <3>3. Following(input[p + D(k)]) \in 0 .. 3
      BY FollowingIs
    <3>4. f[k + 1] = p + D(k) + 1 + Following(input[p + D(k)])
      BY <2>3, <2>6, <3>1
    <3> DEFINE v == Following(input[p + D(k)])
               w == Width(t[After(t, i + k)])
    <3>5. D(k) \in Nat /\ D(k + 1) = D(k) + w /\ 1 + v = w /\ v \in 0 .. 3 /\ f[k + 1] = p + D(k) + 1 + v
      BY <2>4, <3>2, <3>3, <3>4, Zenon
    <3> HIDE DEF v, w
    <3>6. f[k + 1] = p + D(k + 1)
      BY <3>5
    <3> QED
      BY <3>6
  <2> QED
    BY <2>5, <2>6
<1>7. \A k \in Nat : k \in T
  <2> HIDE DEF T
  <2> QED
    BY <1>5, <1>6, SetInduction
<1>8. f[c] = p + D(c) \/ (f[c] > n /\ p + D(c) > n)
  BY <1>7, <1>c
<1>9. c \in 0 .. l /\ l \in 0 .. l /\ f[c] \in Nat
  BY <1>1, <1>c, <1>n
<1>10. D(c) \in Nat /\ D(l) \in Nat /\ D(c) <= D(l) /\ c <= D(c)
  BY <1>2, <1>9
<1>11. Upto(f[c]) = Upto(p + D(l))
  <2>u. /\ Upto(f[c]) = IF f[c] <= n THEN f[c] ELSE n + 1
        /\ Upto(p + D(l)) = IF p + D(l) <= n THEN p + D(l) ELSE n + 1
    <3>1. p + D(l) \in Nat /\ f[c] \in Nat /\ Len(input) \in Nat
      BY <1>9, <1>10, <1>n DEF n
    <3> QED
      BY <3>1, UptoIs DEF n
  <2>1. CASE c = l
    BY <1>8, <1>9, <1>10, <1>n, <2>1, <2>u
  <2>2. CASE c # l
    <3>1. c = n
      BY <1>c, <2>2
    <3>2. p + D(c) > n /\ p + D(l) > n /\ f[c] > n
      BY <1>8, <1>9, <1>10, <1>n, <3>1
    <3> QED
      BY <1>9, <1>10, <1>n, <2>u, <3>2
  <2> QED
    BY <2>1, <2>2
<1>12. D(l) = After(t, j) - After(t, i)
  <2>1. i + l = j
    BY <1>l
  <2> QED
    BY <2>1 DEF D
<1> QED
  BY <1>1, <1>11, <1>12 DEF l

\* what is read of bytes that were sent: all of them, or those before the end
LEMMA BytesRead ==
  ASSUME NEW s \in Seq(Byte), NEW p \in 1 .. Len(input) + 1, input \in Seq(Byte), Lies(Came, s, p)
  PROVE  LET q == Upto(p + Len(s))
         IN  /\ q \in p .. Len(input) + 1 /\ q - p \in 0 .. Len(s)
             /\ SubSeq(input, p, q - 1) = SubSeq(s, 1, q - p)
             /\ p + Len(s) <= Len(input) + 1 => q = p + Len(s) /\ SubSeq(s, 1, q - p) = s
             /\ p + Len(s) > Len(input) + 1 => q = Len(input) + 1 /\ cut
<1> DEFINE n == Len(input)
           q == Upto(p + Len(s))
           r == q - p
<1>n. n \in Nat /\ Len(s) \in Nat
  OBVIOUS
<1>u. q = IF p + Len(s) <= n THEN p + Len(s) ELSE n + 1
  <2>1. p + Len(s) \in Nat
    BY <1>n
  <2> QED
    BY <1>n, <2>1, UptoIs
<1> HIDE DEF q
<1>1. /\ q \in p .. n + 1 /\ r \in 0 .. Len(s)
      /\ p + Len(s) <= n + 1 => q = p + Len(s) /\ r = Len(s)
      /\ p + Len(s) > n + 1 => q = n + 1 /\ r < Len(s)
  BY <1>n, <1>u
<1>2. /\ SubSeq(s, 1, r) \in Seq(Byte) /\ Len(SubSeq(s, 1, r)) = r
      /\ \A k \in 1 .. r : SubSeq(s, 1, r)[k] = s[k]
  <2>1. r \in Nat /\ 1 \in Nat /\ 1 <= 1 /\ 1 <= r + 1 /\ r <= Len(s) /\ r - 1 + 1 = r
    BY <1>1, <1>n
  <2> HIDE DEF r
  <2>2. /\ SubSeq(s, 1, r) \in Seq(Byte) /\ Len(SubSeq(s, 1, r)) = r - 1 + 1
        /\ \A k \in 1 .. r - 1 + 1 : SubSeq(s, 1, r)[k] = s[1 + k - 1]
    BY <2>1, SubSeqIs
  <2> QED
    BY <2>1, <2>2
<1>3. /\ SubSeq(input, p, q - 1) \in Seq(Byte) /\ Len(SubSeq(input, p, q - 1)) = r
      /\ \A k \in 1 .. r : SubSeq(input, p, q - 1)[k] = input[p + k - 1]
  <2>1. p \in Nat /\ q - 1 \in Nat /\ 1 <= p /\ p <= (q - 1) + 1 /\ q - 1 <= n /\ (q - 1) - p + 1 = r
    BY <1>1, <1>n
  <2> HIDE DEF r
  <2>2. /\ SubSeq(input, p, q - 1) \in Seq(Byte) /\ Len(SubSeq(input, p, q - 1)) = (q - 1) - p + 1
        /\ \A k \in 1 .. (q - 1) - p + 1 : SubSeq(input, p, q - 1)[k] = input[p + k - 1]
    BY <2>1, SubSeqIs
  <2> QED
    BY <2>1, <2>2
<1>4. ASSUME NEW k \in 1 .. r PROVE input[p + k - 1] = s[k]
  <2>1. k \in 1 .. Len(s) /\ p + k - 1 <= n
    BY <1>1, <1>n
  <2> QED
    BY <1>n, <2>1, ByteLies
<1>5. SubSeq(input, p, q - 1) = SubSeq(s, 1, r)
  <2> DEFINE x == SubSeq(input, p, q - 1)
             y == SubSeq(s, 1, r)
  <2>1. x \in Seq(Byte) /\ y \in Seq(Byte) /\ Len(x) = r /\ Len(y) = r /\ \A k \in 1 .. r : x[k] = y[k]
    BY <1>2, <1>3, <1>4
  <2> HIDE DEF x, y
  <2>2. x = y
    BY <2>1, SameSequence
  <2> QED
    BY <2>2 DEF x, y
<1>6. r = Len(s) => SubSeq(s, 1, r) = s
  OBVIOUS
<1>7. r < Len(s) => cut
  <2> SUFFICES ASSUME r < Len(s) PROVE cut
    OBVIOUS
  <2>1. Len(s) \in 1 .. Len(s) /\ ~(p + Len(s) - 1 <= n)
    BY <1>1, <1>n
  <2> QED
    BY <1>n, <2>1, ByteLies
<1> HIDE DEF r
<1> QED
  BY <1>1, <1>5, <1>6, <1>7 DEF r, q

LEMMA TextReads ==
  ASSUME NEW t, IsText(t), \A k \in DOMAIN t : t[k] \notin Missed,
         NEW i \in Nat, NEW j \in Nat, i <= j, j <= Chars(t),
         NEW p \in 1 .. Len(input) + 1, input \in Seq(Byte), Lies(Came, Part(t, i, j), p)
  PROVE  LET s == Part(t, i, j)
             q == Upto(p + Len(s))
         IN  EndOf(p, j - i) = q /\ TextAt(p, j - i) = SubSeq(s, 1, q - p)
<1> DEFINE s == Part(t, i, j)
           q == Upto(p + Len(s))
<1>1. /\ s \in Seq(1 .. 255) /\ Len(s) = After(t, j) - After(t, i)
      /\ \A k \in 1 .. Len(s) : s[k] # 0
  <2>1. \A k \in 1 .. Len(s) : s[k] \in 1 .. 255
    BY PartIsText
  <2>2. \A b \in 1 .. 255 : b # 0
    OBVIOUS
  <2>3. s \in Seq(1 .. 255) /\ Len(s) = After(t, j) - After(t, i)
    BY PartIsText
  <2> HIDE DEF s
  <2> QED
    BY <2>1, <2>2, <2>3
<1>2. p \in Nat /\ 1 <= p
  OBVIOUS
<1>3. EndOf(p, j - i) = q
  BY <1>1, <1>2, TextScan
<1>4. s \in Seq(Byte)
  <2> DEFINE S == 1 .. 255
  <2>1. s \in Seq(S) /\ S \subseteq Byte
    BY <1>1 DEF Byte
  <2> HIDE DEF S, s
  <2> QED
    BY <2>1
<1> HIDE DEF s
<1>5. q - p \in 0 .. Len(s) /\ SubSeq(input, p, q - 1) = SubSeq(s, 1, q - p)
  BY <1>4, BytesRead DEF s
<1> DEFINE bytes == SubSeq(input, p, EndOf(p, j - i) - 1)
           zeros == {k \in DOMAIN bytes : bytes[k] = 0}
<1>6. bytes = SubSeq(s, 1, q - p)
  BY <1>3, <1>5
<1>7. zeros = {}
  <2> DEFINE r == q - p
  <2>1. r \in Nat /\ r <= Len(s)
    BY <1>4, <1>5
  <2> HIDE DEF r, q
  <2>2. /\ SubSeq(s, 1, r) \in Seq(Byte) /\ Len(SubSeq(s, 1, r)) = r
        /\ \A k \in 1 .. r : SubSeq(s, 1, r)[k] = s[k]
    <3>1. 1 \in Nat /\ 1 <= 1 /\ 1 <= r + 1 /\ r - 1 + 1 = r
      BY <2>1
    <3>2. /\ SubSeq(s, 1, r) \in Seq(Byte) /\ Len(SubSeq(s, 1, r)) = r - 1 + 1
          /\ \A k \in 1 .. r - 1 + 1 : SubSeq(s, 1, r)[k] = s[1 + k - 1]
      BY <1>4, <2>1, <3>1, SubSeqIs
    <3> QED
      BY <3>1, <3>2
  <2>3. bytes = SubSeq(s, 1, r)
    BY <1>6 DEF r
  <2> HIDE DEF bytes
  <2>4. DOMAIN bytes = 1 .. r /\ \A k \in 1 .. r : bytes[k] = s[k]
    BY <2>2, <2>3
  <2>5. \A k \in 1 .. r : s[k] # 0
    <3>1. \A k \in 1 .. r : k \in 1 .. Len(s)
      BY <2>1, <1>4
    <3> QED
      BY <1>1, <3>1
  <2> QED
    BY <2>4, <2>5
<1>8. TextAt(p, j - i) = bytes
  BY <1>7 DEF TextAt
<1> QED
  BY <1>3, <1>6, <1>8 DEF s

LEMMA LengthReads ==
  ASSUME NEW n \in Nat, n <= 65535, NEW p \in Nat, 1 <= p, Len(input) \in Nat, Lies(Came, Length16(n), p)
  PROVE  IF p + 1 <= Len(input) THEN LengthAt(p) = n /\ n # Huge ELSE LengthAt(p) = Huge /\ cut
<1> DEFINE w == Length16(n)
<1>1. Len(w) = 2 /\ w[1] \in Byte /\ w[2] \in Byte /\ w[1] * 256 + w[2] = n
  BY Length16Is
<1>2. Lies(Came, w, p)
  OBVIOUS
<1> HIDE DEF w
<1>3. ASSUME NEW i \in 1 .. 2 PROVE IF p + i - 1 <= Len(input) THEN input[p + i - 1] = w[i] ELSE cut
  <2>1. i \in 1 .. Len(w) /\ Len(w) \in Nat
    BY <1>1
  <2> QED
    BY <1>2, <2>1, ByteLies
<1>4. /\ IF p <= Len(input) THEN input[p] = w[1] ELSE cut
      /\ IF p + 1 <= Len(input) THEN input[p + 1] = w[2] ELSE cut
  <2>1. 1 \in 1 .. 2 /\ 2 \in 1 .. 2 /\ p + 1 - 1 = p /\ p + 2 - 1 = p + 1
    OBVIOUS
  <2> QED
    BY <1>3, <2>1
<1> QED
  BY <1>1, <1>4 DEF LengthAt, Huge

\* the name whose length is at p
LEMMA NameReads ==
  ASSUME NEW t, IsName(t), \A k \in DOMAIN t : t[k] \notin Missed,
         NEW p \in Nat, 1 <= p, input \in Seq(Byte), Lies(Came, Length16(Chars(t)) \o t, p)
  PROVE  \/ /\ p + 1 + Len(t) <= Len(input) /\ LengthAt(p) # Huge
            /\ NameAt(p) = t /\ AfterName(p) = p + 2 + Len(t)
         \/ /\ cut /\ p + 1 + Len(t) > Len(input)
            /\ AfterName(p) = Len(input) + 1 /\ IsPrefix(NameAt(p), t)
<1> DEFINE n == Chars(t)
           N == Len(input)
<1>1. /\ IsText(t) /\ n <= 65535 /\ n \in Nat /\ t \in Seq(1 .. 255) /\ Len(t) \in Nat
      /\ After(t, n) = Len(t) + 1 /\ After(t, 0) = 1
  <2>1. IsText(t) /\ n <= 65535
    BY DEF IsName
  <2> QED
    BY <2>1, CharactersStart, CharactersEnd, TextIs, AfterGrows
<1>2. Length16(n) \in Seq(Byte) /\ Len(Length16(n)) = 2
  BY <1>1, Length16Is
<1>3. t \in Seq(Byte)
  <2> DEFINE S == 1 .. 255
  <2>1. t \in Seq(S) /\ S \subseteq Byte
    BY <1>1 DEF Byte
  <2> HIDE DEF S
  <2> QED
    BY <2>1
<1>4. Lies(Came, Length16(n), p) /\ Lies(Came, t, p + 2)
  BY <1>2, <1>3, LiesApart
<1>5. IF p + 1 <= N THEN LengthAt(p) = n /\ n # Huge ELSE LengthAt(p) = Huge /\ cut
  <2>1. N \in Nat
    OBVIOUS
  <2> QED
    BY <1>1, <1>4, <2>1, LengthReads
<1>n. N \in Nat
  OBVIOUS
<1> HIDE DEF n, N
<1>6. CASE ~(p + 1 <= N)
  <2>1. NameAt(p) = <<>> /\ AfterName(p) = Upto(p + 2) /\ cut
    BY <1>5, <1>6 DEF NameAt, AfterName
  <2>2. Upto(p + 2) = N + 1
    BY <1>6, <1>n DEF Upto, N
  <2>3. IsPrefix(<<>>, t)
    BY <1>1 DEF IsPrefix
  <2> QED
    BY <1>1, <1>6, <1>n, <2>1, <2>2, <2>3 DEF N
<1>7. CASE p + 1 <= N
  <2>1. /\ LengthAt(p) = n /\ n # Huge
        /\ NameAt(p) = TextAt(p + 2, n) /\ AfterName(p) = EndOf(p + 2, n)
    BY <1>5, <1>7 DEF NameAt, AfterName
  <2>2. Part(t, 0, n) = t
    <3>1. Part(t, 0, n) = SubSeq(t, 1, Len(t) + 1 - 1)
      BY <1>1 DEF Part
    <3>2. Len(t) + 1 - 1 = Len(t)
      BY <1>1
    <3> QED
      BY <1>1, <1>3, <3>1, <3>2
  <2> DEFINE q == Upto(p + 2 + Len(t))
  <2>3. p + 2 \in 1 .. N + 1
    BY <1>7, <1>n
  <2>4. EndOf(p + 2, n - 0) = q /\ TextAt(p + 2, n - 0) = SubSeq(t, 1, q - (p + 2))
    <3>1. 0 \in Nat /\ 0 <= n /\ n <= Chars(t)
      BY <1>1 DEF n
    <3>2. p + 2 \in 1 .. Len(input) + 1 /\ Lies(Came, Part(t, 0, n), p + 2)
      BY <1>4, <2>2, <2>3 DEF N
    <3> DEFINE i == 0
    <3>3. i \in Nat /\ i <= n /\ n <= Chars(t) /\ Lies(Came, Part(t, i, n), p + 2) /\ Part(t, i, n) = t
      BY <2>2, <3>1, <3>2
    <3> HIDE DEF i, q
    <3>4. LET s == Part(t, i, n)
              z == Upto(p + 2 + Len(s))
          IN  EndOf(p + 2, n - i) = z /\ TextAt(p + 2, n - i) = SubSeq(s, 1, z - (p + 2))
      <4>1. /\ IsText(t) /\ i \in Nat /\ n \in Nat /\ i <= n /\ n <= Chars(t)
            /\ p + 2 \in 1 .. Len(input) + 1 /\ Lies(Came, Part(t, i, n), p + 2)
        BY <1>1, <3>2, <3>3
      <4> QED
        BY <4>1, TextReads
    <3> QED
      BY <3>3, <3>4 DEF i, q
  <2>5. n - 0 = n
    BY <1>1
  <2>6. /\ q \in p + 2 .. N + 1 /\ q - (p + 2) \in 0 .. Len(t)
        /\ p + 2 + Len(t) <= N + 1 => q = p + 2 + Len(t) /\ SubSeq(t, 1, q - (p + 2)) = t
        /\ p + 2 + Len(t) > N + 1 => q = N + 1 /\ cut
    BY <1>3, <1>4, <2>3, BytesRead DEF N
  <2> HIDE DEF q
  <2>7. CASE p + 2 + Len(t) <= N + 1
    <3>1. NameAt(p) = t /\ AfterName(p) = p + 2 + Len(t) /\ LengthAt(p) # Huge
      BY <2>1, <2>4, <2>5, <2>6, <2>7
    <3>2. Len(t) \in Nat
      BY <1>1
    <3>3. p + 1 + Len(t) <= N
      BY <1>n, <2>7, <3>2
    <3> QED
      BY <3>1, <3>3 DEF N
  <2>8. CASE p + 2 + Len(t) > N + 1
    <3> DEFINE r == q - (p + 2)
    <3>1. r \in 0 .. Len(t)
      BY <2>6
    <3> HIDE DEF r
    <3>2. IsPrefix(SubSeq(t, 1, r), t)
      <4>1. /\ Len(SubSeq(t, 1, r)) = r /\ SubSeq(SubSeq(t, 1, r), 1, r) = SubSeq(t, 1, r)
        BY <1>3, <3>1
      <4> QED
        BY <1>1, <3>1, <4>1 DEF IsPrefix
    <3>3. AfterName(p) = N + 1 /\ NameAt(p) = SubSeq(t, 1, r)
      BY <2>1, <2>4, <2>5, <2>6, <2>8 DEF r
    <3>4. p + 1 + Len(t) > N
      BY <1>1, <1>n, <2>8
    <3> QED
      BY <2>6, <2>8, <3>2, <3>3, <3>4 DEF N
  <2> QED
    BY <1>1, <1>n, <2>3, <2>7, <2>8
<1> QED
  BY <1>6, <1>7

-----------------------------------------------------------------------------
(* The order of the nodes of a document.                                   *)

\* induction from the last number to the first
LEMMA Descending ==
  ASSUME NEW n \in Nat, NEW S, \A x \in 1 .. n : (\A y \in x + 1 .. n : y \in S) => x \in S
  PROVE  \A x \in 1 .. n : x \in S
<1> DEFINE T == {m \in Nat : \A x \in 1 .. n : x > n - m => x \in S}
<1>1. 0 \in T
  OBVIOUS
<1>2. ASSUME NEW m \in Nat, m \in T PROVE m + 1 \in T
  <2> SUFFICES ASSUME NEW x \in 1 .. n, x > n - (m + 1) PROVE x \in S
    OBVIOUS
  <2>1. \A y \in x + 1 .. n : y \in 1 .. n /\ y > n - m
    OBVIOUS
  <2>2. \A y \in x + 1 .. n : y \in S
    BY <1>2, <2>1
  <2> QED
    BY <2>2
<1>3. \A m \in Nat : m \in T
  <2> HIDE DEF T
  <2> QED
    BY <1>1, <1>2, SetInduction
<1>4. n \in T
  BY <1>3
<1>5. \A x \in 1 .. n : x > n - n
  OBVIOUS
<1> QED
  BY <1>4, <1>5

LEMMA LastIn ==
  ASSUME NEW d \in Answers, NEW o \in 1 .. Len(d)
  PROVE  LastOf(d, o) \in o .. Len(d)
<1> DEFINE n == Len(d)
           S == {x \in 1 .. n : LastOf(d, x) \in x .. n}
<1>n. n \in Nat
  BY DocumentIs
<1>1. ASSUME NEW x \in 1 .. n, \A y \in x + 1 .. n : y \in S PROVE x \in S
  <2>1. CASE d[x].parts = <<>>
    <3>1. LastOf(d, x) = x /\ x \in x .. n
      BY <1>n, <2>1, LastUnfolds
    <3> QED
      BY <3>1
  <2>2. CASE d[x].parts # <<>>
    <3> DEFINE y == d[x].parts[Len(d[x].parts)]
    <3>1. LastOf(d, x) = LastOf(d, y)
      BY <2>2, LastUnfolds
    <3>2. y \in x + 1 .. n
      BY <2>2, LastPart
    <3> HIDE DEF y
    <3>3. LastOf(d, y) \in y .. n
      BY <1>1, <3>2
    <3>4. LastOf(d, y) \in x .. n
      BY <1>n, <3>2, <3>3
    <3> QED
      BY <3>1, <3>4
  <2> QED
    BY <2>1, <2>2
<1> HIDE DEF n
<1>2. \A x \in 1 .. n : x \in S
  <2> HIDE DEF S
  <2> QED
    BY <1>n, <1>1, Descending
<1> QED
  BY <1>2 DEF n

LEMMA NextIs ==
  ASSUME NEW d \in Answers, NEW o \in 1 .. Len(d)
  PROVE  LET ps == d[o].parts
         IN  /\ Len(d) \in Nat /\ Len(ps) \in Nat
             /\ NextNode(d, o, 0) = o + 1
             /\ NextNode(d, o, Len(ps)) = LastOf(d, o) + 1
             /\ \A k \in 0 .. Len(ps) : NextNode(d, o, k) \in o + 1 .. Len(d) + 1
             /\ \A k \in 1 .. Len(ps) :
                  /\ ps[k] = NextNode(d, o, k - 1) /\ NextNode(d, o, k) = LastOf(d, ps[k]) + 1
                  /\ ps[k] \in o + 1 .. Len(d) /\ NextNode(d, o, k - 1) < NextNode(d, o, k)
<1> DEFINE ps == d[o].parts
           n == Len(d)
           r == Len(ps)
<1>1. n \in Nat /\ DOMAIN d = 1 .. n /\ ps \in Seq(o + 1 .. n)
  BY DocumentIs
<1>2. r \in Nat /\ DOMAIN ps = 1 .. r /\ (ps = <<>> <=> r = 0)
  BY <1>1
<1>3. \A k \in 1 .. r : ps[k] \in o + 1 .. n /\ ps[k] \in 1 .. n
  BY PartIs
<1>4. \A k \in 1 .. r : ps[k] = IF k = 1 THEN o + 1 ELSE LastOf(d, ps[k - 1]) + 1
  <2>1. IsDocument(d)
    BY DocumentIs
  <2>2. \A x \in DOMAIN d : LET qs == d[x].parts IN
          \A k \in DOMAIN qs : qs[k] = IF k = 1 THEN x + 1 ELSE LastOf(d, qs[k - 1]) + 1
    BY <2>1 DEF IsDocument
  <2> QED
    BY <1>1, <1>2, <2>2
<1>5. NextNode(d, o, 0) = o + 1
  BY DEF NextNode
<1>6. ASSUME NEW k \in 1 .. r
      PROVE  /\ ps[k] = NextNode(d, o, k - 1) /\ NextNode(d, o, k) = LastOf(d, ps[k]) + 1
             /\ LastOf(d, ps[k]) \in ps[k] .. n
  <2>1. NextNode(d, o, k) = LastOf(d, ps[k]) + 1
    <3>1. k # 0
      BY <1>2
    <3> QED
      BY <3>1 DEF NextNode
  <2>2. LastOf(d, ps[k]) \in ps[k] .. n
    BY <1>3, LastIn
  <2>3. CASE k = 1
    <3>1. k - 1 = 0
      BY <2>3
    <3> QED
      BY <1>4, <1>5, <2>1, <2>2, <2>3, <3>1
  <2>4. CASE k # 1
    <3>1. k - 1 # 0
      BY <1>2, <2>4
    <3>2. NextNode(d, o, k - 1) = LastOf(d, ps[k - 1]) + 1
      BY <3>1 DEF NextNode
    <3> QED
      BY <1>4, <2>1, <2>2, <2>4, <3>2
  <2> QED
    BY <2>3, <2>4
<1>7. NextNode(d, o, r) = LastOf(d, o) + 1
  <2>1. CASE r = 0
    BY <1>2, <1>5, <2>1, LastUnfolds
  <2>2. CASE r # 0
    <3>1. r \in 1 .. r
      BY <1>2, <2>2
    <3> QED
      BY <1>2, <1>6, <2>2, <3>1, LastUnfolds
  <2> QED
    BY <2>1, <2>2
<1> HIDE DEF ps, n, r
<1>8. ASSUME NEW k \in 1 .. r PROVE NextNode(d, o, k) \in o + 1 .. n + 1 /\ NextNode(d, o, k - 1) < NextNode(d, o, k)
  <2>1. ps[k] \in o + 1 .. n /\ LastOf(d, ps[k]) \in ps[k] .. n
        /\ NextNode(d, o, k) = LastOf(d, ps[k]) + 1 /\ ps[k] = NextNode(d, o, k - 1)
    BY <1>3, <1>6
  <2> QED
    BY <1>1, <2>1
<1>9. ASSUME NEW k \in 0 .. r PROVE NextNode(d, o, k) \in o + 1 .. n + 1
  <2>1. k = 0 \/ k \in 1 .. r
    BY <1>2
  <2>2. o \in 1 .. n
    BY DEF n
  <2> QED
    BY <1>1, <1>5, <1>8, <2>1, <2>2
<1> QED
  BY <1>1, <1>2, <1>3, <1>5, <1>6, <1>7, <1>8, <1>9 DEF ps, n, r

LEMMA NextRises ==
  ASSUME NEW d \in Answers, NEW o \in 1 .. Len(d), NEW j \in Nat, NEW k \in Nat,
         j <= k, k <= Len(d[o].parts)
  PROVE  NextNode(d, o, j) <= NextNode(d, o, k)
<1> DEFINE r == Len(d[o].parts)
           T == {i \in Nat : j + i <= r => NextNode(d, o, j) <= NextNode(d, o, j + i)}
<1>1. /\ r \in Nat /\ Len(d) \in Nat
      /\ \A i \in 0 .. r : NextNode(d, o, i) \in o + 1 .. Len(d) + 1
      /\ \A i \in 1 .. r : NextNode(d, o, i - 1) < NextNode(d, o, i)
  BY NextIs
<1> HIDE DEF r
<1>2. \A i \in 0 .. r : NextNode(d, o, i) \in Int
  BY <1>1
<1>3. 0 \in T
  <2>1. j + 0 = j /\ (j <= r => j \in 0 .. r)
    BY <1>1
  <2> QED
    BY <1>2, <2>1
<1>4. ASSUME NEW i \in Nat, i \in T PROVE i + 1 \in T
  <2> SUFFICES ASSUME j + (i + 1) <= r PROVE NextNode(d, o, j) <= NextNode(d, o, j + (i + 1))
    OBVIOUS
  <2> DEFINE a == j + i
  <2>1. a \in 0 .. r /\ a + 1 \in 1 .. r /\ a + 1 \in 0 .. r /\ (a + 1) - 1 = a /\ j \in 0 .. r
        /\ j + (i + 1) = a + 1 /\ a <= r
    BY <1>1
  <2>2. NextNode(d, o, j) <= NextNode(d, o, a)
    BY <1>4, <2>1
  <2> HIDE DEF a
  <2>3. NextNode(d, o, a) < NextNode(d, o, a + 1)
    BY <1>1, <2>1
  <2>4. NextNode(d, o, j) \in Int /\ NextNode(d, o, a) \in Int /\ NextNode(d, o, a + 1) \in Int
    BY <1>2, <2>1
  <2> QED
    BY <2>1, <2>2, <2>3, <2>4
<1>5. \A i \in Nat : i \in T
  <2> HIDE DEF T
  <2> QED
    BY <1>3, <1>4, SetInduction
<1>6. k - j \in Nat /\ j + (k - j) = k
  OBVIOUS
<1>7. j + (k - j) <= r => NextNode(d, o, j) <= NextNode(d, o, j + (k - j))
  BY <1>5, <1>6
<1> QED
  BY <1>6, <1>7 DEF r

-----------------------------------------------------------------------------
(* The bytes of a node.                                                    *)

WrittenBody(d, f, x) ==
  IF d[x].type \in {"list", "map"}
  THEN Opening(d[x]) \o FlattenSeq([k \in DOMAIN d[x].parts |-> f[d[x].parts[k]]])
         \o <<ChunkTag(d[x].type)>>
  ELSE WrittenLeaf(d[x])
IsWritten(d, f) == f = [x \in DOMAIN d |-> WrittenBody(d, f, x)]

LEMMA WrittenIs == \A d, o : Written(d, o) = (CHOOSE f : IsWritten(d, f))[o]
BY DEF Written, IsWritten, WrittenBody

LEMMA SameBody ==
  ASSUME NEW d, NEW x, NEW f, NEW g, \A k \in DOMAIN d[x].parts : f[d[x].parts[k]] = g[d[x].parts[k]]
  PROVE  WrittenBody(d, f, x) = WrittenBody(d, g, x)
<1>1. [k \in DOMAIN d[x].parts |-> f[d[x].parts[k]]] = [k \in DOMAIN d[x].parts |-> g[d[x].parts[k]]]
  OBVIOUS
<1> QED
  BY <1>1 DEF WrittenBody

LEMMA WrittenExists ==
  ASSUME NEW d \in Answers
  PROVE  \E f : IsWritten(d, f)
<1> DEFINE n == Len(d)
           T == {m \in Nat : m <= n => \E f : \A x \in n - m + 1 .. n : f[x] = WrittenBody(d, f, x)}
<1>n. n \in Nat /\ DOMAIN d = 1 .. n
  BY DocumentIs
<1>d. \A x \in 1 .. n : \A k \in DOMAIN d[x].parts : d[x].parts[k] \in x + 1 .. n
  <2> SUFFICES ASSUME NEW x \in 1 .. n, NEW k \in DOMAIN d[x].parts PROVE d[x].parts[k] \in x + 1 .. n
    OBVIOUS
  <2>1. DOMAIN d[x].parts = 1 .. Len(d[x].parts)
    <3>1. d[x].parts \in Seq(x + 1 .. n)
      BY DocumentIs
    <3> QED
      BY <3>1
  <2> QED
    BY <2>1, PartIs
<1> HIDE DEF n
<1>1. 0 \in T
  <2>1. n - 0 + 1 .. n = {}
    BY <1>n
  <2> QED
    BY <2>1
<1>2. ASSUME NEW m \in Nat, m \in T PROVE m + 1 \in T
  <2> SUFFICES ASSUME m + 1 <= n
               PROVE  \E f : \A x \in n - (m + 1) + 1 .. n : f[x] = WrittenBody(d, f, x)
    OBVIOUS
  <2>1. PICK f : \A x \in n - m + 1 .. n : f[x] = WrittenBody(d, f, x)
    BY <1>2, <1>n
  <2> DEFINE c == n - m
             g == [x \in 1 .. n |-> IF x = c THEN WrittenBody(d, f, c) ELSE f[x]]
  <2>2. c \in 1 .. n /\ n - (m + 1) + 1 = c /\ n - m + 1 = c + 1 /\ c \in Nat
    BY <1>n
  <2> HIDE DEF c
  <2>3. ASSUME NEW x \in c .. n PROVE WrittenBody(d, g, x) = WrittenBody(d, f, x)
    <3>1. x \in 1 .. n
      BY <1>n, <2>2
    <3>2. ASSUME NEW k \in DOMAIN d[x].parts PROVE g[d[x].parts[k]] = f[d[x].parts[k]]
      <4> DEFINE y == d[x].parts[k]
      <4>1. y \in x + 1 .. n
        BY <1>d, <3>1
      <4> HIDE DEF y
      <4>2. y \in 1 .. n /\ y # c
        BY <1>n, <2>2, <3>1, <4>1
      <4>3. g[y] = f[y]
        BY <4>2
      <4> HIDE DEF g
      <4> QED
        BY <4>3 DEF y
    <3> HIDE DEF g
    <3> QED
      BY <3>2, SameBody
  <2>4. ASSUME NEW x \in c .. n PROVE g[x] = WrittenBody(d, g, x)
    <3>1. x \in 1 .. n
      BY <1>n, <2>2
    <3>2. CASE x = c
      <4>1. g[x] = WrittenBody(d, f, c)
        BY <3>1, <3>2
      <4> HIDE DEF g
      <4> QED
        BY <2>3, <3>2, <4>1
    <3>3. CASE x # c
      <4>0. g[x] = f[x]
        BY <3>1, <3>3
      <4>1. g[x] = f[x] /\ x \in c + 1 .. n
        <5> HIDE DEF g
        <5> QED
          BY <1>n, <2>2, <3>1, <3>3, <4>0
      <4>2. f[x] = WrittenBody(d, f, x)
        BY <2>1, <2>2, <4>1
      <4> HIDE DEF g
      <4> QED
        BY <2>3, <4>1, <4>2
    <3> QED
      BY <3>2, <3>3
  <2> HIDE DEF g
  <2> QED
    BY <2>2, <2>4
<1>3. \A m \in Nat : m \in T
  <2> HIDE DEF T
  <2> QED
    BY <1>1, <1>2, SetInduction
<1>4. n \in T
  BY <1>3, <1>n
<1>5. n <= n /\ n - n + 1 = 1
  BY <1>n
<1>6. \E f : \A x \in n - n + 1 .. n : f[x] = WrittenBody(d, f, x)
  BY <1>4, <1>5
<1>7. PICK f : \A x \in 1 .. n : f[x] = WrittenBody(d, f, x)
  BY <1>5, <1>6
<1> DEFINE g == [x \in 1 .. n |-> f[x]]
<1>8. ASSUME NEW x \in 1 .. n PROVE WrittenBody(d, g, x) = WrittenBody(d, f, x)
  <2>1. ASSUME NEW k \in DOMAIN d[x].parts PROVE g[d[x].parts[k]] = f[d[x].parts[k]]
    <3> DEFINE y == d[x].parts[k]
    <3>1. y \in x + 1 .. n
      BY <1>d
    <3> HIDE DEF y
    <3>2. y \in 1 .. n
      BY <1>n, <3>1
    <3>3. g[y] = f[y]
      BY <3>2
    <3> HIDE DEF g
    <3> QED
      BY <3>3 DEF y
  <2> HIDE DEF g
  <2> QED
    BY <2>1, SameBody
<1>9. g = [x \in 1 .. n |-> WrittenBody(d, g, x)]
  <2>1. \A x \in 1 .. n : f[x] = WrittenBody(d, g, x)
    BY <1>7, <1>8
  <2> DEFINE e == [x \in 1 .. n |-> WrittenBody(d, g, x)]
  <2>2. g = e
    <3>1. \A x \in 1 .. n : WrittenBody(d, g, x) = f[x]
      BY <2>1
    <3>2. e = [x \in 1 .. n |-> f[x]]
      <4> HIDE DEF g
      <4> QED
        BY <3>1
    <3> QED
      BY <3>2
  <2> QED
    BY <2>2
<1> HIDE DEF g
<1> QED
  BY <1>9, <1>n DEF IsWritten

LEMMA WrittenUnfolds ==
  ASSUME NEW d \in Answers, NEW o \in 1 .. Len(d)
  PROVE  Written(d, o) =
           IF d[o].type \in {"list", "map"}
           THEN Opening(d[o]) \o FlattenSeq([k \in 1 .. Len(d[o].parts) |-> Written(d, d[o].parts[k])])
                  \o <<ChunkTag(d[o].type)>>
           ELSE WrittenLeaf(d[o])
<1> DEFINE w == CHOOSE f : IsWritten(d, f)
           r == Len(d[o].parts)
<1>1. IsWritten(d, w)
  BY WrittenExists
<1>2. \A x : Written(d, x) = w[x]
  BY WrittenIs
<1>3. DOMAIN d = 1 .. Len(d) /\ DOMAIN d[o].parts = 1 .. r
  BY DocumentIs
<1> HIDE DEF w
<1>4. w[o] = WrittenBody(d, w, o)
  BY <1>1, <1>3 DEF IsWritten
<1>5. [k \in DOMAIN d[o].parts |-> w[d[o].parts[k]]] = [k \in 1 .. r |-> Written(d, d[o].parts[k])]
  BY <1>2, <1>3
<1> QED
  BY <1>2, <1>4, <1>5 DEF WrittenBody

-----------------------------------------------------------------------------
(* Texts in chunks.                                                        *)

LEMMA Joined ==
  ASSUME NEW A, NEW s \in Seq(A), NEW t \in Seq(A)
  PROVE  /\ s \o t \in Seq(A) /\ Len(s \o t) = Len(s) + Len(t) /\ Len(s) \in Nat /\ Len(t) \in Nat
         /\ \A k \in 1 .. Len(s) : (s \o t)[k] = s[k]
         /\ \A k \in 1 .. Len(t) : (s \o t)[Len(s) + k] = t[k]
  OBVIOUS

LEMMA JoinedThrice ==
  ASSUME NEW A, NEW s \in Seq(A), NEW t \in Seq(A), NEW u \in Seq(A)
  PROVE  s \o t \o u = s \o (t \o u)
<1> DEFINE x == s \o t \o u
           y == s \o (t \o u)
           a == s \o t
           b == t \o u
<1>1. /\ a \in Seq(A) /\ Len(a) = Len(s) + Len(t) /\ Len(s) \in Nat /\ Len(t) \in Nat
      /\ \A k \in 1 .. Len(s) : a[k] = s[k]
      /\ \A k \in 1 .. Len(t) : a[Len(s) + k] = t[k]
  BY Joined
<1>2. /\ b \in Seq(A) /\ Len(b) = Len(t) + Len(u) /\ Len(u) \in Nat
      /\ \A k \in 1 .. Len(t) : b[k] = t[k]
      /\ \A k \in 1 .. Len(u) : b[Len(t) + k] = u[k]
  BY Joined
<1>3. /\ x \in Seq(A) /\ Len(x) = Len(a) + Len(u)
      /\ \A k \in 1 .. Len(a) : x[k] = a[k]
      /\ \A k \in 1 .. Len(u) : x[Len(a) + k] = u[k]
  <2> HIDE DEF a
  <2>1. x = a \o u
    BY DEF a
  <2>2. a \in Seq(A)
    BY <1>1
  <2> HIDE DEF x
  <2> QED
    BY <2>1, <2>2, Joined
<1>4. /\ y \in Seq(A) /\ Len(y) = Len(s) + Len(b)
      /\ \A k \in 1 .. Len(s) : y[k] = s[k]
      /\ \A k \in 1 .. Len(b) : y[Len(s) + k] = b[k]
  <2> HIDE DEF b
  <2>1. y = s \o b
    BY DEF b
  <2>2. b \in Seq(A)
    BY <1>2
  <2> HIDE DEF y
  <2> QED
    BY <2>1, <2>2, Joined
<1> HIDE DEF x, y, a, b
<1>5. Len(x) = Len(y) /\ Len(x) = Len(s) + Len(t) + Len(u)
  BY <1>1, <1>2, <1>3, <1>4
<1>6. ASSUME NEW k \in 1 .. Len(x) PROVE x[k] = y[k]
  <2>1. CASE k <= Len(s)
    <3>1. k \in 1 .. Len(s) /\ k \in 1 .. Len(a)
      BY <1>1, <2>1
    <3> QED
      BY <1>1, <1>3, <1>4, <3>1
  <2>2. CASE k > Len(s) /\ k <= Len(s) + Len(t)
    <3> DEFINE j == k - Len(s)
    <3>1. j \in 1 .. Len(t) /\ j \in 1 .. Len(b) /\ k \in 1 .. Len(a) /\ k = Len(s) + j
      BY <1>1, <1>2, <2>2
    <3> HIDE DEF j
    <3>2. x[k] = a[Len(s) + j] /\ y[k] = b[j]
      BY <1>3, <1>4, <3>1
    <3> QED
      BY <1>1, <1>2, <3>1, <3>2
  <2>3. CASE k > Len(s) + Len(t)
    <3> DEFINE j == k - Len(s) - Len(t)
    <3>1. /\ j \in 1 .. Len(u) /\ Len(t) + j \in 1 .. Len(b)
          /\ k = Len(a) + j /\ k = Len(s) + (Len(t) + j)
      BY <1>1, <1>2, <1>5, <2>3
    <3> HIDE DEF j
    <3>2. x[k] = u[j] /\ y[k] = b[Len(t) + j]
      BY <1>3, <1>4, <3>1
    <3> QED
      BY <1>2, <3>1, <3>2
  <2> QED
    BY <1>1, <2>1, <2>2, <2>3
<1>7. x = y
  BY <1>3, <1>4, <1>5, <1>6, SameSequence
<1> QED
  BY <1>7 DEF x, y

\* a tag, a length and some bytes
Bits(t, i, j) == SubSeq(t, i + 1, j)
Coded(a, u, x) == <<a>> \o u \o x

LEMMA BitsAre ==
  ASSUME NEW t \in Seq(Byte), NEW i \in Nat, NEW j \in Nat, i <= j, j <= Len(t)
  PROVE  Bits(t, i, j) \in Seq(Byte) /\ Len(Bits(t, i, j)) = j - i
<1>1. i + 1 \in Nat /\ 1 <= i + 1 /\ i + 1 <= j + 1 /\ j - (i + 1) + 1 = j - i
  OBVIOUS
<1>2. SubSeq(t, i + 1, j) \in Seq(Byte) /\ Len(SubSeq(t, i + 1, j)) = j - (i + 1) + 1
  BY <1>1, SubSeqIs
<1> QED
  BY <1>1, <1>2 DEF Bits

LEMMA CodedIs ==
  ASSUME NEW a \in Byte, NEW u \in Seq(Byte), Len(u) = 2, NEW x \in Seq(Byte)
  PROVE  /\ Coded(a, u, x) \in Seq(Byte) /\ Len(Coded(a, u, x)) = 3 + Len(x)
         /\ Coded(a, u, x) = <<a>> \o (u \o x)
<1>2. <<a>> \in Seq(Byte)
  OBVIOUS
<1>3. Coded(a, u, x) = <<a>> \o (u \o x)
  BY <1>2, JoinedThrice DEF Coded
<1> DEFINE y == u \o x
<1>4. y \in Seq(Byte) /\ Len(y) = Len(u) + Len(x) /\ Len(x) \in Nat
  BY Joined, Zenon
<1> HIDE DEF y
<1> DEFINE w == <<a>> \o y
<1>5. w \in Seq(Byte) /\ Len(w) = 1 + Len(y)
  BY <1>4, Headed
<1> HIDE DEF w
<1>6. Len(w) = 3 + Len(x)
  BY <1>4, <1>5
<1>7. Coded(a, u, x) = w
  BY <1>3 DEF w, y
<1> QED
  BY <1>3, <1>5, <1>6, <1>7

LEMMA ByteStringsJoin == \A r, s, t \in Seq(Byte) : r \o s \o t = r \o (s \o t)
<1> SUFFICES ASSUME NEW r \in Seq(Byte), NEW s \in Seq(Byte), NEW t \in Seq(Byte) PROVE r \o s \o t = r \o (s \o t)
  OBVIOUS
<1> HIDE DEF Byte
<1> QED
  BY JoinedThrice

LEMMA CodedJoins ==
  ASSUME NEW g \in Seq(Byte), NEW a \in Byte, NEW u \in Seq(Byte), Len(u) = 2, NEW x \in Seq(Byte)
  PROVE  g \o <<a>> \o u \o x = g \o Coded(a, u, x)
<1> DEFINE c == <<a>>
           gc == g \o c
           ux == u \o x
<1>z. c \in Seq(Byte)
  OBVIOUS
<1>y. Coded(a, u, x) = <<a>> \o (u \o x)
  BY CodedIs
<1>0. c \in Seq(Byte) /\ Coded(a, u, x) = c \o ux
  BY <1>y, <1>z, Zenon DEF c, ux
<1> HIDE DEF c
<1>1. gc \in Seq(Byte)
  BY <1>0, Joined, Zenon
<1>2. ux \in Seq(Byte)
  BY Joined, Zenon
<1> HIDE DEF gc
<1>j. \A r, s, t \in Seq(Byte) : r \o s \o t = r \o (s \o t)
  BY ByteStringsJoin
<1>3. gc \o u \o x = gc \o (u \o x)
  BY <1>1, <1>j, Zenon
<1> HIDE DEF ux
<1>4. g \o c \o ux = g \o (c \o ux)
  <2>1. g \in Seq(Byte) /\ c \in Seq(Byte) /\ ux \in Seq(Byte)
    BY <1>0, <1>2, Zenon
  <2> QED
    BY <2>1, <1>j, Zenon
<1>5. gc \o u \o x = gc \o ux
  BY <1>3, Zenon DEF ux
<1>6. gc \o ux = g \o Coded(a, u, x)
  BY <1>0, <1>4, Zenon DEF gc
<1> QED
  BY <1>5, <1>6, Zenon DEF gc, c

LEMMA SequenceOf ==
  ASSUME NEW A, NEW n \in Nat, NEW f \in [1 .. n -> A]
  PROVE  f \in Seq(A) /\ Len(f) = n /\ DOMAIN f = 1 .. n
  OBVIOUS

\* text t in F + 1 pieces, the first F of them coded
IsCut(t, F, P) ==
  /\ P \in [0 .. F -> Nat] /\ P[0] = 0
  /\ \A k \in 1 .. F : P[k - 1] <= P[k]
  /\ \A k \in 0 .. F : P[k] <= Len(t)
Split(t, F, P, a, u) == [k \in 1 .. F |-> Coded(a, u, Bits(t, P[k - 1], P[k]))]

AreCoded(t, F, P, a, b, u, v, s, e) ==
  /\ t \in Seq(Byte) /\ F \in Nat /\ IsCut(t, F, P)
  /\ a \in Byte /\ b \in Byte /\ u \in Seq(Byte) /\ v \in Seq(Byte) /\ Len(u) = 2 /\ Len(v) = 2
  /\ s = Split(t, F, P, a, u)
  /\ e = Coded(b, v, Bits(t, P[F], Len(t)))
AreLaidOut(t, F, P, s, e) ==
  /\ FlattenSeq(s) \in Seq(Byte) /\ e \in Seq(Byte)
  /\ FlattenSeq(s) \o e \in Seq(Byte) /\ Len(FlattenSeq(s) \o e) = 3 * (F + 1) + Len(t)
  /\ \A m : \A q \in Nat : Lies(m, FlattenSeq(s) \o e, q) =>
              /\ \A k \in 1 .. F : Lies(m, s[k], q + 3 * (k - 1) + P[k - 1])
              /\ Lies(m, e, q + 3 * F + P[F])

LEMMA Layout ==
  ASSUME NEW t, NEW F, NEW P, NEW a, NEW b, NEW u, NEW v, NEW s, NEW e, AreCoded(t, F, P, a, b, u, v, s, e)
  PROVE  AreLaidOut(t, F, P, s, e)
<1>a. /\ t \in Seq(Byte) /\ F \in Nat /\ IsCut(t, F, P)
      /\ a \in Byte /\ b \in Byte /\ u \in Seq(Byte) /\ v \in Seq(Byte) /\ Len(u) = 2 /\ Len(v) = 2
      /\ s = Split(t, F, P, a, u)
      /\ e = Coded(b, v, Bits(t, P[F], Len(t)))
  BY DEF AreCoded
<1> SUFFICES ASSUME t \in Seq(Byte), F \in Nat, IsCut(t, F, P),
                      a \in Byte, b \in Byte, u \in Seq(Byte), v \in Seq(Byte), Len(u) = 2, Len(v) = 2,
                      s = Split(t, F, P, a, u), e = Coded(b, v, Bits(t, P[F], Len(t)))
               PROVE  AreLaidOut(t, F, P, s, e)
  BY <1>a, Zenon
<1> DEFINE x == Bits(t, P[F], Len(t))
           w == FlattenSeq(s) \o e
           C == [k \in 0 .. F |-> FlattenSeq(First(s, k))]
<1>q. /\ P \in [0 .. F -> Nat] /\ P[0] = 0
      /\ \A k \in 1 .. F : P[k - 1] <= P[k]
      /\ \A k \in 0 .. F : P[k] <= Len(t)
  BY DEF IsCut
<1>s. s = [k \in 1 .. F |-> Coded(a, u, Bits(t, P[k - 1], P[k]))]
  BY DEF Split
<1>p. \A k \in 0 .. F : P[k] \in Nat
  BY <1>q
<1>1. ASSUME NEW k \in 1 .. F
      PROVE  s[k] \in Seq(Byte) /\ Len(s[k]) = 3 + (P[k] - P[k - 1]) /\ P[k - 1] \in Nat /\ P[k] \in Nat
  <2>1. k - 1 \in 0 .. F /\ k \in 0 .. F
    OBVIOUS
  <2> DEFINE i == P[k - 1]
             j == P[k]
             y == Bits(t, i, j)
  <2>2. i \in Nat /\ j \in Nat /\ i <= j /\ j <= Len(t)
    BY <2>1, <1>p, <1>q
  <2>3. s[k] = Coded(a, u, y)
    BY <1>s
  <2> HIDE DEF i, j
  <2>4. y \in Seq(Byte) /\ Len(y) = j - i
    BY <2>2, BitsAre
  <2> HIDE DEF y
  <2>6. Coded(a, u, y) \in Seq(Byte) /\ Len(Coded(a, u, y)) = 3 + Len(y)
    BY <2>4, CodedIs
  <2>5. s[k] \in Seq(Byte) /\ Len(s[k]) = 3 + Len(y)
    BY <2>3, <2>6, Zenon
  <2> QED
    BY <2>2, <2>4, <2>5 DEF i, j
<1>2. s \in Seq(Seq(Byte)) /\ Len(s) = F
  <2>1. s = [k \in 1 .. F |-> s[k]]
    BY <1>s
  <2>2. s \in [1 .. F -> Seq(Byte)]
    BY <1>1, <2>1
  <2> QED
    BY <2>2, SequenceOf
<1>3. P[F] \in Nat /\ P[F] <= Len(t) /\ Len(t) \in Nat
  <2>1. F \in 0 .. F
    OBVIOUS
  <2> QED
    BY <1>p, <1>q, <2>1
<1>4. e \in Seq(Byte) /\ Len(e) = 3 + (Len(t) - P[F])
  <2>1. x \in Seq(Byte) /\ Len(x) = Len(t) - P[F]
    <3> DEFINE i == P[F]
               j == Len(t)
    <3>1. i \in Nat /\ j \in Nat /\ i <= j /\ j <= Len(t)
      BY <1>3
    <3> HIDE DEF i, j
    <3>2. Bits(t, i, j) \in Seq(Byte) /\ Len(Bits(t, i, j)) = j - i
      BY <3>1, BitsAre
    <3> QED
      BY <3>2 DEF i, j
  <2> HIDE DEF x
  <2>3. e = Coded(b, v, x)
    BY DEF x
  <2>4. Coded(b, v, x) \in Seq(Byte) /\ Len(Coded(b, v, x)) = 3 + Len(x)
    BY <2>1, CodedIs
  <2>2. e \in Seq(Byte) /\ Len(e) = 3 + Len(x)
    BY <2>3, <2>4
  <2> QED
    BY <1>3, <2>1, <2>2
<1> HIDE DEF x
<1>f. /\ \A k \in 0 .. F : FlattenSeq(First(s, k)) \in Seq(Byte)
      /\ FlattenSeq(First(s, 0)) = <<>> /\ FlattenSeq(First(s, F)) = FlattenSeq(s)
      /\ \A k \in 1 .. F : FlattenSeq(First(s, k)) = FlattenSeq(First(s, k - 1)) \o s[k]
  <2> DEFINE Grown(n) ==
        /\ \A k \in 0 .. n : FlattenSeq(First(s, k)) \in Seq(Byte)
        /\ FlattenSeq(First(s, 0)) = <<>> /\ FlattenSeq(First(s, n)) = FlattenSeq(s)
        /\ \A k \in 1 .. n : FlattenSeq(First(s, k)) = FlattenSeq(First(s, k - 1)) \o s[k]
  <2>1. s \in Seq(Seq(Byte))
    BY <1>2
  <2>2. Grown(Len(s))
    BY <2>1, FlattenGrows, Zenon
  <2>3. Len(s) = F
    BY <1>2
  <2> HIDE DEF Grown
  <2>4. Grown(F)
    BY <2>2, <2>3, Zenon
  <2> QED
    BY <2>4 DEF Grown
<1>c. \A k \in 0 .. F : C[k] = FlattenSeq(First(s, k))
  OBVIOUS
<1> HIDE DEF C
<1>5. /\ \A k \in 0 .. F : C[k] \in Seq(Byte)
      /\ C[0] = <<>> /\ C[F] = FlattenSeq(s)
      /\ \A k \in 1 .. F : C[k] = C[k - 1] \o s[k]
  <2>1. 0 \in 0 .. F /\ F \in 0 .. F /\ \A k \in 1 .. F : k \in 0 .. F /\ k - 1 \in 0 .. F
    OBVIOUS
  <2>2. \A k \in 1 .. F : C[k] = C[k - 1] \o s[k]
    BY <1>c, <1>f, <2>1, Zenon
  <2> QED
    BY <1>c, <1>f, <2>1, <2>2
<1>n. \A k \in 1 .. F : C[k] = C[k - 1] \o s[k]
  BY <1>5
<1>6. \A k \in Nat : k <= F => Len(C[k]) = 3 * k + P[k]
  <2> DEFINE T == {k \in Nat : k <= F => Len(C[k]) = 3 * k + P[k]}
  <2>1. 0 \in T
    <3>1. Len(C[0]) = 0 /\ 3 * 0 + P[0] = 0
      BY <1>5, <1>q
    <3> QED
      BY <3>1
  <2>2. ASSUME NEW k \in Nat, k \in T PROVE k + 1 \in T
    <3> SUFFICES ASSUME k + 1 <= F PROVE Len(C[k + 1]) = 3 * (k + 1) + P[k + 1]
      OBVIOUS
    <3>1. k + 1 \in 1 .. F /\ k \in 0 .. F /\ k + 1 - 1 = k /\ k <= F
      OBVIOUS
    <3>2. Len(C[k]) = 3 * k + P[k]
      BY <2>2, <3>1
    <3>3. C[k + 1] = C[k + 1 - 1] \o s[k + 1] /\ C[k] \in Seq(Byte)
      <4> DEFINE j == k + 1
      <4>1. j \in 1 .. F /\ k \in 0 .. F /\ j - 1 = k
        BY <3>1
      <4> HIDE DEF j
      <4>2. C[j] = C[j - 1] \o s[j]
        BY <1>n, <4>1, Zenon
      <4>3. C[k] \in Seq(Byte)
        BY <1>5, <4>1, Zenon
      <4> QED
        BY <3>1, <4>2, <4>3 DEF j
    <3>4. s[k + 1] \in Seq(Byte) /\ Len(s[k + 1]) = 3 + (P[k + 1] - P[k]) /\ P[k] \in Nat /\ P[k + 1] \in Nat
      BY <1>1, <3>1
    <3>0. \A c, f \in Seq(Byte) : Len(c \o f) = Len(c) + Len(f)
      BY Joined
    <3>5. Len(C[k] \o s[k + 1]) = Len(C[k]) + Len(s[k + 1])
      BY <3>0, <3>3, <3>4, Zenon
    <3>6. C[k + 1] = C[k] \o s[k + 1]
      BY <3>1, <3>3
    <3>7. Len(C[k + 1]) = Len(C[k]) + Len(s[k + 1])
      BY <3>5, <3>6, Zenon
    <3> DEFINE c1 == Len(C[k + 1])
               c0 == Len(C[k])
               l1 == Len(s[k + 1])
               p0 == P[k]
               p1 == P[k + 1]
    <3>8. c0 = 3 * k + p0 /\ l1 = 3 + (p1 - p0) /\ p0 \in Nat /\ p1 \in Nat /\ c1 = c0 + l1
      BY <3>2, <3>4, <3>7, Zenon
    <3> HIDE DEF c1, c0, l1, p0, p1
    <3>9. c1 = 3 * (k + 1) + p1
      BY <3>8
    <3> QED
      BY <3>9 DEF c1, p1
  <2>3. \A k \in Nat : k \in T
    <3> HIDE DEF T
    <3> QED
      BY <2>1, <2>2, SetInduction
  <2> QED
    BY <2>3
<1>7. w = C[F] \o e /\ C[F] \in Seq(Byte) /\ Len(C[F]) = 3 * F + P[F]
  <2>1. F \in 0 .. F /\ F <= F
    OBVIOUS
  <2>2. C[F] = FlattenSeq(s) /\ C[F] \in Seq(Byte)
    BY <1>5, <2>1, Zenon
  <2>3. Len(C[F]) = 3 * F + P[F]
    BY <1>6, <2>1
  <2> QED
    BY <2>2, <2>3, Zenon
<1> HIDE DEF w
<1> DEFINE g == C[F]
<1>g. w = g \o e /\ g \in Seq(Byte) /\ Len(g) = 3 * F + P[F]
  BY <1>7
<1> HIDE DEF g
<1>8. w \in Seq(Byte) /\ Len(w) = 3 * (F + 1) + Len(t)
  <2>0. \A c, f \in Seq(Byte) : c \o f \in Seq(Byte) /\ Len(c \o f) = Len(c) + Len(f)
    BY Joined
  <2>1. w \in Seq(Byte) /\ Len(w) = Len(g) + Len(e)
    BY <1>4, <1>g, <2>0, Zenon
  <2>2. Len(w) = 3 * (F + 1) + Len(t)
    <3> DEFINE a0 == Len(w)
               x0 == Len(e)
               p0 == P[F]
               l0 == Len(t)
    <3>1. a0 = 3 * F + p0 + x0 /\ x0 = 3 + (l0 - p0) /\ p0 \in Nat /\ l0 \in Nat
      BY <1>3, <1>4, <1>g, <2>1, Zenon
    <3>2. F \in Nat
      OBVIOUS
    <3> HIDE DEF a0, x0, p0, l0
    <3>3. a0 = 3 * (F + 1) + l0
      BY <3>1, <3>2
    <3> QED
      BY <3>3 DEF a0, l0
  <2> QED
    BY <2>1, <2>2
<1>9. ASSUME NEW m, NEW q \in Nat, Lies(m, w, q)
      PROVE  /\ \A k \in 1 .. F : Lies(m, s[k], q + 3 * (k - 1) + P[k - 1])
             /\ Lies(m, e, q + 3 * F + P[F])
  <2>1. Lies(m, g \o e, q)
    BY <1>9, <1>g
  <2>2. Lies(m, g, q) /\ Lies(m, e, q + Len(g))
    BY <1>4, <1>g, <2>1, LiesApart
  <2>3. q + Len(g) = q + 3 * F + P[F]
    BY <1>3, <1>g
  <2>4. ASSUME NEW k \in 1 .. F PROVE Lies(m, s[k], q + 3 * (k - 1) + P[k - 1])
    <3>2. k - 1 \in Nat /\ k - 1 <= F /\ k - 1 \in 0 .. F
      OBVIOUS
    <3>0. Lies(m, FlattenSeq(s), q)
      BY <1>5, <2>2 DEF g
    <3>5. Lies(m, s[k], q + Len(FlattenSeq(First(s, k - 1))))
      BY <1>2, <3>0, FlattenLies
    <3>1. Lies(m, s[k], q + Len(C[k - 1]))
      BY <1>c, <3>2, <3>5
    <3>3. Len(C[k - 1]) = 3 * (k - 1) + P[k - 1] /\ P[k - 1] \in Nat
      BY <1>6, <1>p, <3>2
    <3>4. q + Len(C[k - 1]) = q + 3 * (k - 1) + P[k - 1]
      <4> DEFINE l == Len(C[k - 1])
                 z == P[k - 1]
      <4>1. l = 3 * (k - 1) + z /\ z \in Nat
        BY <3>3
      <4> HIDE DEF l, z
      <4>2. q + l = q + 3 * (k - 1) + z
        BY <4>1
      <4> QED
        BY <4>2 DEF l, z
    <3> QED
      BY <3>1, <3>4
  <2> QED
    BY <2>2, <2>3, <2>4
<1> QED
  BY <1>4, <1>5, <1>7, <1>8, <1>9 DEF w, AreLaidOut

LEMMA ProductGrows ==
  ASSUME NEW c \in Nat, NEW i \in Nat, NEW j \in Nat, i <= j
  PROVE  i * c \in Nat /\ j * c \in Nat /\ i * c <= j * c
<1> DEFINE e == j - i
<1>1. e \in Nat /\ j = i + e
  OBVIOUS
<1> HIDE DEF e
<1>2. (i + e) * c = i * c + e * c
  BY <1>1, SMTT(30)
<1>3. i * c \in Nat /\ e * c \in Nat /\ j * c \in Nat
  BY <1>1, SMTT(30)
<1> QED
  BY <1>1, <1>2, <1>3

LEMMA ChunkFits == ChunkSize \in Nat /\ ChunkSize > 0 /\ ChunkSize <= 65535
  BY ChunkAssumption

LEMMA ChunksAre ==
  ASSUME NEW n \in Nat
  PROVE  LET F == Chunks(n)
         IN  /\ F \in Nat /\ F * ChunkSize \in Nat /\ F * ChunkSize <= n /\ n - F * ChunkSize <= ChunkSize
             /\ \A k \in Nat : k <= F => k * ChunkSize \in Nat /\ k * ChunkSize <= F * ChunkSize
             /\ \A k \in Nat : (k + 1) * ChunkSize - k * ChunkSize = ChunkSize
<1> DEFINE F == Chunks(n)
           c == ChunkSize
<1>c. c \in Nat /\ c > 0
  BY ChunkFits
<1> HIDE DEF c
<1>1. F \in Nat /\ F * c \in Nat /\ F * c <= n /\ n - F * c <= c
  <2>1. CASE n = 0
    <3>1. F = 0
      BY <2>1 DEF Chunks
    <3> QED
      BY <1>c, <2>1, <3>1
  <2>2. CASE n # 0
    <3> DEFINE a == n - 1
               f == a \div c
    <3>1. F = f /\ a \in Nat /\ n = a + 1
      BY <2>2 DEF Chunks, c
    <3> HIDE DEF a, F
    <3>2. f \in Int /\ c * f <= a /\ a < c * f + c
      BY <1>c, <3>1, SMTT(30)
    <3>3. f >= 0
      BY <1>c, <3>1, <3>2, SMTT(30)
    <3> HIDE DEF f
    <3>4. f * c \in Nat /\ f * c = c * f
      BY <1>c, <3>2, <3>3, SMTT(30)
    <3> QED
      BY <1>c, <3>1, <3>2, <3>3, <3>4
  <2> QED
    BY <2>1, <2>2
<1> HIDE DEF F
<1>2. \A k \in Nat : k <= F => k * c \in Nat /\ k * c <= F * c
  BY <1>1, <1>c, ProductGrows
<1>3. \A k \in Nat : (k + 1) * c - k * c = c
  <2> TAKE k \in Nat
  <2>1. (k + 1) * c = k * c + c /\ k * c \in Nat
    BY <1>c, SMTT(30)
  <2> QED
    BY <1>c, <2>1
<1> QED
  BY <1>1, <1>2, <1>3 DEF F, c

\* the chunk after the first k: its tag, its length and its bytes
Size(x, k) == IF k < Full(x) THEN ChunkSize ELSE Units(x) - Full(x) * ChunkSize
End(x, k) == IF k < Full(x) THEN Point(x, k + 1) ELSE Len(x.text)
HeadOf(x, k) == IF k < Full(x) THEN ChunkTag(x.type) ELSE Tag(x.type)
ChunkOf(x, k) == Coded(HeadOf(x, k), Length16(Size(x, k)), Bits(x.text, Point(x, k), End(x, k)))
Place(x, q, k) == q + 3 * k + Point(x, k)

LEMMA TextNode ==
  ASSUME NEW x, NEW S, IsNode(x, S), x.type \in Texts
  PROVE  /\ x.type = "binary" \/ x.type \in {"string", "xml"}
         /\ x.type \in {"string", "xml"} => IsText(x.text)
         /\ x.text \in Seq(Byte) /\ Len(x.text) \in Nat
<1>1. x.type = "binary" \/ x.type \in {"string", "xml"}
  BY DEF Texts
<1>2. CASE x.type = "binary"
  <2>1. x.text \in Seq(0 .. 255)
    BY <1>2, Zenon DEF IsNode
  <2> QED
    BY <1>2, <2>1 DEF Byte
<1>3. CASE x.type \in {"string", "xml"}
  <2>1. IsText(x.text)
    BY <1>3, Zenon DEF IsNode
  <2>2. x.text \in Seq(1 .. 255) /\ Len(x.text) \in Nat
    BY <2>1, TextIs
  <2>3. x.text \in Seq(Byte)
    BY <2>2 DEF Byte
  <2> QED
    BY <1>3, <2>1, <2>2, <2>3
<1> QED
  BY <1>1, <1>2, <1>3

LEMMA UnitsAre ==
  ASSUME NEW x, NEW S, IsNode(x, S), x.type \in Texts
  PROVE  /\ Units(x) \in Nat /\ Full(x) \in Nat
         /\ Full(x) * ChunkSize \in Nat /\ Full(x) * ChunkSize <= Units(x)
         /\ Units(x) - Full(x) * ChunkSize <= ChunkSize
         /\ \A k \in Nat : k <= Full(x) => k * ChunkSize \in Nat /\ k * ChunkSize <= Full(x) * ChunkSize
         /\ \A k \in Nat : (k + 1) * ChunkSize - k * ChunkSize = ChunkSize
<1>1. Units(x) \in Nat
  <2>1. CASE x.type = "binary"
    BY <2>1, TextNode DEF Units
  <2>2. CASE x.type \in {"string", "xml"}
    <3>1. IsText(x.text)
      BY <2>2, TextNode
    <3>2. Chars(x.text) \in Nat
      BY <3>1, CharactersStart
    <3> QED
      BY <2>2, <3>2 DEF Units
  <2> QED
    BY <2>1, <2>2, TextNode
<1> DEFINE n == Units(x)
<1>2. n \in Nat
  BY <1>1
<1> HIDE DEF n
<1>3. LET F == Chunks(n)
      IN  /\ F \in Nat /\ F * ChunkSize \in Nat /\ F * ChunkSize <= n /\ n - F * ChunkSize <= ChunkSize
          /\ \A k \in Nat : k <= F => k * ChunkSize \in Nat /\ k * ChunkSize <= F * ChunkSize
          /\ \A k \in Nat : (k + 1) * ChunkSize - k * ChunkSize = ChunkSize
  BY <1>2, ChunksAre
<1> QED
  BY <1>1, <1>3 DEF Full, n

LEMMA PointsAre ==
  ASSUME NEW x, NEW S, IsNode(x, S), x.type \in Texts
  PROVE  /\ Point(x, 0) = 0
         /\ \A k \in Nat : k <= Full(x) => Point(x, k) \in Nat /\ Point(x, k) <= Len(x.text)
         /\ \A k \in Nat : k < Full(x) => Point(x, k) <= Point(x, k + 1)
<1>u. /\ Units(x) \in Nat /\ Full(x) \in Nat
      /\ Full(x) * ChunkSize \in Nat /\ Full(x) * ChunkSize <= Units(x)
      /\ \A k \in Nat : k <= Full(x) => k * ChunkSize \in Nat /\ k * ChunkSize <= Full(x) * ChunkSize
      /\ \A k \in Nat : (k + 1) * ChunkSize - k * ChunkSize = ChunkSize
  BY UnitsAre
<1>c. ChunkSize \in Nat
  BY ChunkFits
<1>1. CASE x.type = "binary"
  <2>1. Units(x) = Len(x.text) /\ \A k : Point(x, k) = k * ChunkSize
    BY <1>1 DEF Units, Point
  <2>2. ASSUME NEW k \in Nat, k < Full(x) PROVE Point(x, k) <= Point(x, k + 1)
    <3>1. k * ChunkSize \in Nat /\ (k + 1) * ChunkSize \in Nat /\ (k + 1) * ChunkSize - k * ChunkSize = ChunkSize
      BY <1>u, <2>2
    <3> QED
      BY <1>c, <2>1, <3>1
  <2>3. ASSUME NEW k \in Nat, k <= Full(x) PROVE Point(x, k) \in Nat /\ Point(x, k) <= Len(x.text)
    <3>1. k * ChunkSize \in Nat /\ k * ChunkSize <= Full(x) * ChunkSize
      BY <1>u, <2>3
    <3>2. Point(x, k) = k * ChunkSize
      BY <2>1
    <3>3. Full(x) * ChunkSize \in Nat /\ Full(x) * ChunkSize <= Len(x.text) /\ Len(x.text) \in Nat
      BY <1>u, <2>1, TextNode
    <3> DEFINE a == k * ChunkSize
               b == Full(x) * ChunkSize
    <3>4. a \in Nat /\ a <= b /\ b \in Nat /\ b <= Len(x.text) /\ Len(x.text) \in Nat /\ Point(x, k) = a
      BY <3>1, <3>2, <3>3
    <3> HIDE DEF a, b
    <3> QED
      BY <3>4
  <2>4. Point(x, 0) = 0
    <3>1. 0 * ChunkSize = 0
      BY <1>c
    <3> QED
      BY <2>1, <3>1
  <2> QED
    BY <2>2, <2>3, <2>4
<1>2. CASE x.type \in {"string", "xml"}
  <2> DEFINE t == x.text
             n == Chars(t)
  <2>1. n = Units(x) /\ \A k : Point(x, k) = After(t, k * ChunkSize) - 1
    BY <1>2 DEF Units, Point
  <2>2. IsText(t)
    BY <1>2, TextNode
  <2> HIDE DEF t
  <2>3. /\ \A k \in Nat : k <= n => After(t, k) \in 1 .. Len(t) + 1
    BY <2>2, CharactersStart
  <2>l. Len(t) \in Nat
    BY <2>2, TextIs
  <2> HIDE DEF n
  <2>4. ASSUME NEW k \in Nat, k <= Full(x) PROVE Point(x, k) \in Nat /\ Point(x, k) <= Len(t)
    <3> DEFINE j == k * ChunkSize
    <3>1. j \in Nat /\ j <= n /\ Point(x, k) = After(t, j) - 1
      BY <1>u, <2>1, <2>4
    <3> HIDE DEF j
    <3>2. After(t, j) \in 1 .. Len(t) + 1
      BY <2>3, <3>1
    <3> QED
      BY <2>l, <3>1, <3>2
  <2>5. ASSUME NEW k \in Nat, k < Full(x) PROVE Point(x, k) <= Point(x, k + 1)
    <3> DEFINE i == k * ChunkSize
               j == (k + 1) * ChunkSize
    <3>1. i \in Nat /\ j \in Nat /\ j - i = ChunkSize /\ Point(x, k) = After(t, i) - 1 /\ Point(x, k + 1) = After(t, j) - 1
      BY <1>u, <2>1, <2>5
    <3> HIDE DEF i, j
    <3>2. i <= j
      BY <1>c, <3>1
    <3>3. After(t, i) + (j - i) <= After(t, j) /\ After(t, i) \in Nat /\ After(t, j) \in Nat
      BY <3>1, <3>2, AfterIncreases
    <3> QED
      BY <3>1, <3>2, <3>3
  <2>6. Point(x, 0) = 0
    <3>1. 0 * ChunkSize = 0
      BY <1>c
    <3>2. After(t, 0) = 1
      BY AfterGrows
    <3> QED
      BY <2>1, <3>1, <3>2
  <2> QED
    BY <2>4, <2>5, <2>6 DEF t
<1> QED
  BY <1>1, <1>2, TextNode

\* what is written of a text: the chunks, and the last one
ChunksOf(x) == [k \in 1 .. Full(x) |-> Coded(ChunkTag(x.type), Length16(ChunkSize), Bits(x.text, Point(x, k - 1), Point(x, k)))]

LEMMA TextTags ==
  ASSUME NEW ty \in Texts
  PROVE  Tag(ty) \in Byte /\ ChunkTag(ty) \in Byte /\ Tag(ty) # ChunkTag(ty)
  BY DEF Texts, Tag, ChunkTag, Byte

LEMMA WrittenTextIs ==
  ASSUME NEW x, NEW S, IsNode(x, S), x.type \in Texts
  PROVE  LET y == Bits(x.text, Point(x, Full(x)), Len(x.text))
             v == Length16(Units(x) - Full(x) * ChunkSize)
         IN  WrittenLeaf(x) = FlattenSeq(ChunksOf(x)) \o <<Tag(x.type)>> \o v \o y
<1> DEFINE F == Full(x)
           t == x.text
           c == ChunkSize
<1>b. Tag(x.type) \in Byte /\ ChunkTag(x.type) \in Byte
  BY TextTags
<1>u. /\ F \in Nat /\ F * ChunkSize \in Nat
      /\ \A k \in Nat : k <= F => k * ChunkSize \in Nat
  BY UnitsAre
<1>1. CASE x.type = "binary"
  <2>1. WrittenLeaf(x) = WrittenBytes(t)
    BY <1>1 DEF WrittenLeaf
  <2>2. F = Chunks(Len(t)) /\ Units(x) = Len(t) /\ \A k : Point(x, k) = k * ChunkSize
    BY <1>1 DEF Full, Units, Point
  <2>3. ChunksOf(x) = [k \in 1 .. F |->
          <<ChunkTag("binary")>> \o Length16(ChunkSize)
            \o SubSeq(t, (k - 1) * ChunkSize + 1, k * ChunkSize)]
    <3>1. ASSUME NEW k \in 1 .. F
          PROVE  Coded(ChunkTag(x.type), Length16(ChunkSize), Bits(x.text, Point(x, k - 1), Point(x, k)))
                   = <<ChunkTag("binary")>> \o Length16(ChunkSize) \o SubSeq(t, (k - 1) * ChunkSize + 1, k * ChunkSize)
      <4>1. Point(x, k - 1) = (k - 1) * ChunkSize /\ Point(x, k) = k * ChunkSize
        BY <2>2
      <4>2. x.text = t
        OBVIOUS
      <4> HIDE DEF t
      <4> QED
        BY <1>1, <4>1, <4>2, Zenon DEF Coded, Bits
    <3> QED
      BY <3>1, Zenon DEF ChunksOf
  <2> HIDE DEF F, t
  <2>4. WrittenLeaf(x) = FlattenSeq([k \in 1 .. F |->
          <<ChunkTag("binary")>> \o Length16(ChunkSize)
            \o SubSeq(t, (k - 1) * ChunkSize + 1, k * ChunkSize)])
        \o <<Tag("binary")>> \o Length16(Len(t) - F * ChunkSize)
        \o SubSeq(t, F * ChunkSize + 1, Len(t))
    BY <2>1, <2>2, Zenon DEF WrittenBytes
  <2> QED
    BY <1>1, <2>2, <2>3, <2>4, Zenon DEF Bits, F, t
<1>2. CASE x.type \in {"string", "xml"}
  <2>1. WrittenLeaf(x) = WrittenText(x.type, t)
    BY <1>2 DEF WrittenLeaf
  <2>2. F = Chunks(Chars(t)) /\ Units(x) = Chars(t) /\ \A k : Point(x, k) = After(t, k * ChunkSize) - 1
    BY <1>2 DEF Full, Units, Point
  <2>t. IsText(t)
    BY <1>2, TextNode
  <2>s. \A k \in Nat : k <= F => Point(x, k) + 1 = After(t, k * ChunkSize)
    <3> TAKE k \in Nat
    <3> HAVE k <= F
    <3> DEFINE j == k * ChunkSize
    <3>1. j \in Nat /\ Point(x, k) = After(t, j) - 1
      BY <1>u, <2>2
    <3> HIDE DEF j
    <3>2. After(t, j) \in Nat
      BY <3>1, AfterGrows
    <3> QED
      BY <3>1, <3>2 DEF j
  <2>3. ChunksOf(x) = [k \in 1 .. F |-> <<ChunkTag(x.type)>> \o Length16(ChunkSize)
            \o SubSeq(t, After(t, (k - 1) * ChunkSize), After(t, k * ChunkSize) - 1)]
    <3>1. ASSUME NEW k \in 1 .. F
          PROVE  Coded(ChunkTag(x.type), Length16(ChunkSize), Bits(x.text, Point(x, k - 1), Point(x, k)))
                   = <<ChunkTag(x.type)>> \o Length16(ChunkSize) \o SubSeq(t, After(t, (k - 1) * ChunkSize), After(t, k * ChunkSize) - 1)
      <4>1. k - 1 \in Nat /\ k - 1 <= F
        BY <1>u
      <4>2. Point(x, k - 1) + 1 = After(t, (k - 1) * ChunkSize)
        BY <2>s, <4>1
      <4> QED
        BY <2>2, <4>2, Zenon DEF Coded, Bits
    <3> QED
      BY <3>1, Zenon DEF ChunksOf
  <2>5. Point(x, F) + 1 = After(t, F * ChunkSize)
    BY <1>u, <2>s
  <2> HIDE DEF F, t
  <2>4. WrittenLeaf(x) = FlattenSeq([k \in 1 .. F |-> <<ChunkTag(x.type)>> \o Length16(ChunkSize)
            \o SubSeq(t, After(t, (k - 1) * ChunkSize), After(t, k * ChunkSize) - 1)])
        \o <<Tag(x.type)>> \o Length16(Chars(t) - F * ChunkSize)
        \o SubSeq(t, After(t, F * ChunkSize), Len(t))
    BY <2>1, <2>2, Zenon DEF WrittenText
  <2> QED
    BY <2>2, <2>3, <2>4, <2>5, Zenon DEF Bits, F, t
<1> QED
  BY <1>1, <1>2, TextNode

LEMMA SizeIs ==
  ASSUME NEW x, NEW S, IsNode(x, S), x.type \in Texts, NEW k \in 0 .. Full(x)
  PROVE  /\ Size(x, k) \in Nat /\ Size(x, k) <= 65535
         /\ Point(x, k) \in Nat /\ End(x, k) \in Nat
         /\ Point(x, k) <= End(x, k) /\ End(x, k) <= Len(x.text) /\ Len(x.text) \in Nat
<1>c. ChunkSize \in Nat /\ ChunkSize <= 65535
  BY ChunkFits
<1>u. /\ Units(x) \in Nat /\ Full(x) \in Nat
      /\ Full(x) * ChunkSize \in Nat /\ Full(x) * ChunkSize <= Units(x)
      /\ Units(x) - Full(x) * ChunkSize <= ChunkSize
  BY UnitsAre
<1>p. /\ \A j \in Nat : j <= Full(x) => Point(x, j) \in Nat /\ Point(x, j) <= Len(x.text)
      /\ \A j \in Nat : j < Full(x) => Point(x, j) <= Point(x, j + 1)
  BY PointsAre
<1>l. Len(x.text) \in Nat
  BY TextNode
<1>1. CASE k < Full(x)
  <2>1. k \in Nat /\ k + 1 \in Nat /\ k + 1 <= Full(x) /\ k <= Full(x)
    BY <1>1, <1>u
  <2> QED
    BY <1>1, <1>c, <1>p, <1>l, <2>1 DEF Size, End
<1>2. CASE ~(k < Full(x))
  <2>1. k \in Nat /\ k <= Full(x)
    BY <1>u
  <2> DEFINE a == Full(x) * ChunkSize
  <2>2. a \in Nat /\ a <= Units(x) /\ Units(x) - a <= ChunkSize /\ Size(x, k) = Units(x) - a
    BY <1>u, <1>2 DEF Size
  <2> HIDE DEF a
  <2>3. Size(x, k) \in Nat /\ Size(x, k) <= 65535
    BY <1>c, <1>u, <2>2
  <2> QED
    BY <1>2, <1>p, <1>l, <2>1, <2>3 DEF End
<1> QED
  BY <1>1, <1>2

LEMMA TextLayout ==
  ASSUME NEW x, NEW S, IsNode(x, S), x.type \in Texts
  PROVE  /\ WrittenLeaf(x) \in Seq(Byte) /\ Len(WrittenLeaf(x)) = 3 * (Full(x) + 1) + Len(x.text)
         /\ \A m : \A q \in Nat : Lies(m, WrittenLeaf(x), q) =>
              \A k \in 0 .. Full(x) : Lies(m, ChunkOf(x, k), Place(x, q, k))
<1> DEFINE F == Full(x)
           t == x.text
           P == [k \in 0 .. F |-> Point(x, k)]
           a == ChunkTag(x.type)
           b == Tag(x.type)
           u == Length16(ChunkSize)
           v == Length16(Units(x) - F * ChunkSize)
           y == Bits(t, Point(x, F), Len(t))
           s == [k \in 1 .. F |-> Coded(a, u, Bits(t, P[k - 1], P[k]))]
           e == Coded(b, v, Bits(t, P[F], Len(t)))
           w == FlattenSeq(s) \o e
<1>c. ChunkSize \in Nat /\ ChunkSize <= 65535
  BY ChunkFits
<1>f. F \in Nat
  BY UnitsAre
<1>0. a \in Byte /\ b \in Byte
  BY TextTags
<1>1. u \in Seq(Byte) /\ Len(u) = 2
  BY <1>c, Length16Is
<1>2. v \in Seq(Byte) /\ Len(v) = 2
  <2> DEFINE n == Units(x) - F * ChunkSize
  <2>1. F \in 0 .. F
    BY <1>f
  <2>2. Size(x, F) \in Nat /\ Size(x, F) <= 65535
    BY <2>1, SizeIs
  <2>4. ~(F < F)
    BY <1>f
  <2>3. n \in Nat /\ n <= 65535
    BY <2>2, <2>4 DEF Size
  <2> HIDE DEF n
  <2> QED
    BY <2>3, Length16Is DEF n
<1>3. t \in Seq(Byte) /\ Len(t) \in Nat
  BY TextNode
<1>p. /\ Point(x, 0) = 0
      /\ \A k \in Nat : k <= F => Point(x, k) \in Nat /\ Point(x, k) <= Len(t)
      /\ \A k \in Nat : k < F => Point(x, k) <= Point(x, k + 1)
  BY PointsAre
<1>4. /\ P \in [0 .. F -> Nat] /\ P[0] = 0
      /\ \A k \in 0 .. F : P[k] = Point(x, k)
  BY <1>f, <1>p
<1>5. \A k \in 1 .. F : P[k - 1] <= P[k]
  <2> TAKE k \in 1 .. F
  <2>1. k - 1 \in Nat /\ k - 1 < F /\ k - 1 + 1 = k /\ k - 1 \in 0 .. F /\ k \in 0 .. F
    BY <1>f
  <2>2. Point(x, k - 1) <= Point(x, k - 1 + 1)
    BY <1>p, <2>1
  <2> QED
    BY <1>4, <2>1, <2>2
<1>6. \A k \in 0 .. F : P[k] <= Len(t)
  BY <1>p, <1>4, <1>f
<1>s. s = ChunksOf(x)
  <2>1. ASSUME NEW k \in 1 .. F PROVE P[k - 1] = Point(x, k - 1) /\ P[k] = Point(x, k)
    <3>1. k - 1 \in 0 .. F /\ k \in 0 .. F
      BY <1>f
    <3> QED
      BY <1>4, <3>1
  <2>2. ChunksOf(x) = [k \in 1 .. F |-> Coded(a, u, Bits(t, Point(x, k - 1), Point(x, k)))]
    BY DEF ChunksOf
  <2> HIDE DEF P, F, t, u, a
  <2> QED
    BY <2>1, <2>2
<1>e. e = Coded(b, v, y)
  BY <1>f, <1>4
<1>w. WrittenLeaf(x) = FlattenSeq(ChunksOf(x)) \o <<b>> \o v \o y
  BY WrittenTextIs
<1>y. y \in Seq(Byte)
  <2> DEFINE i == Point(x, F)
             j == Len(t)
  <2>1. i \in Nat /\ j \in Nat /\ i <= j /\ j <= Len(t)
    BY <1>f, <1>p, <1>3
  <2> HIDE DEF i, j
  <2> QED
    BY <1>3, <2>1, BitsAre DEF i, j
<1> HIDE DEF F, t, P, a, b, u, v, y, s, e
<1>7. /\ FlattenSeq(s) \in Seq(Byte) /\ e \in Seq(Byte) /\ w \in Seq(Byte) /\ Len(w) = 3 * (F + 1) + Len(t)
      /\ \A m : \A q \in Nat : Lies(m, w, q) =>
                  /\ \A k \in 1 .. F : Lies(m, s[k], q + 3 * (k - 1) + P[k - 1])
                  /\ Lies(m, e, q + 3 * F + P[F])
  <2>1. s = Split(t, F, P, a, u) /\ e = Coded(b, v, Bits(t, P[F], Len(t)))
    BY DEF s, e, Split
  <2>2. IsCut(t, F, P)
    BY <1>4, <1>5, <1>6 DEF IsCut
  <2>3. AreCoded(t, F, P, a, b, u, v, s, e)
    BY <1>f, <1>0, <1>1, <1>2, <1>3, <2>1, <2>2, Zenon DEF AreCoded
  <2>4. AreLaidOut(t, F, P, s, e)
    BY <2>3, Layout
  <2> QED
    BY <2>4, Zenon DEF w, AreLaidOut
<1> DEFINE g == FlattenSeq(s)
<1>8. WrittenLeaf(x) = w
  <2>1. g \in Seq(Byte)
    BY <1>7
  <2>2. WrittenLeaf(x) = g \o <<b>> \o v \o y
    BY <1>s, <1>w, Zenon
  <2> HIDE DEF g
  <2>3. g \o <<b>> \o v \o y = g \o Coded(b, v, y)
    BY <1>0, <1>2, <1>y, <2>1, CodedJoins
  <2> QED
    BY <1>e, <2>2, <2>3, Zenon DEF g
<1> HIDE DEF w
<1>9. ASSUME NEW m, NEW q \in Nat, Lies(m, w, q), NEW k \in 0 .. F
      PROVE  Lies(m, ChunkOf(x, k), Place(x, q, k))
  <2>0. /\ \A l \in 1 .. F : Lies(m, s[l], q + 3 * (l - 1) + P[l - 1])
        /\ Lies(m, e, q + 3 * F + P[F])
    BY <1>7, <1>9
  <2>1. CASE k < F
    <3> DEFINE l == k + 1
    <3>1. l \in 1 .. F /\ l - 1 = k /\ k \in 0 .. F /\ l \in 0 .. F
      BY <1>f, <2>1
    <3>0. l = k + 1
      OBVIOUS
    <3> HIDE DEF l
    <3>2. Lies(m, s[l], q + 3 * (l - 1) + P[l - 1])
      BY <2>0, <3>1
    <3>3. s[l] = Coded(a, u, Bits(t, Point(x, k), Point(x, l)))
      BY <1>s, <3>1 DEF ChunksOf, a, u, t, F
    <3>4. P[k] = Point(x, k)
      BY <1>4
    <3>5. ChunkOf(x, k) = s[l]
      BY <2>1, <3>0, <3>3 DEF ChunkOf, HeadOf, Size, End, a, u, t, F
    <3> QED
      BY <3>1, <3>2, <3>4, <3>5 DEF Place
  <2>2. CASE ~(k < F)
    <3>1. k = F /\ P[k] = Point(x, k)
      BY <1>f, <1>4, <2>2
    <3>2. ChunkOf(x, k) = e
      BY <1>e, <2>2, <3>1 DEF ChunkOf, HeadOf, Size, End, y, b, v, t, F
    <3> QED
      BY <2>0, <3>1, <3>2 DEF Place
  <2> QED
    BY <2>1, <2>2
<1> QED
  BY <1>7, <1>8, <1>9 DEF F, t

LEMMA CodedLies ==
  ASSUME NEW m, NEW a \in Byte, NEW u \in Seq(Byte), Len(u) = 2, NEW x \in Seq(Byte), NEW p \in Nat,
         Lies(m, Coded(a, u, x), p)
  PROVE  Lies(m, <<a>>, p) /\ Lies(m, u, p + 1) /\ Lies(m, x, p + 3)
<1> DEFINE c == <<a>>
           y == u \o x
<1>1. Coded(a, u, x) = c \o y
  BY CodedIs
<1>2. c \in Seq(Byte) /\ Len(c) = 1
  OBVIOUS
<1>3. y \in Seq(Byte)
  BY Joined, Zenon
<1> HIDE DEF c, y
<1>4. Lies(m, c \o y, p)
  BY <1>1
<1>5. Lies(m, c, p) /\ Lies(m, y, p + 1)
  BY <1>2, <1>3, <1>4, LiesApart
<1>6. Lies(m, u \o x, p + 1)
  BY <1>5 DEF y
<1>7. Lies(m, u, p + 1) /\ Lies(m, x, p + 1 + Len(u))
  <2> DEFINE q == p + 1
  <2>1. q \in Nat /\ Lies(m, u \o x, q)
    BY <1>6
  <2> HIDE DEF q
  <2>2. Lies(m, u, q) /\ Lies(m, x, q + Len(u))
    BY <2>1, LiesApart
  <2> QED
    BY <2>2 DEF q
<1>8. p + 1 + Len(u) = p + 3
  OBVIOUS
<1> QED
  BY <1>5, <1>7, <1>8 DEF c

LEMMA BinarySize ==
  ASSUME NEW x, NEW S, IsNode(x, S), x.type = "binary", NEW k \in 0 .. Full(x)
  PROVE  Size(x, k) = End(x, k) - Point(x, k)
<1>1. x.type \in Texts
  BY DEF Texts
<1>2. /\ Full(x) \in Nat /\ Full(x) * ChunkSize \in Nat
      /\ \A j \in Nat : j <= Full(x) => j * ChunkSize \in Nat
      /\ \A j \in Nat : (j + 1) * ChunkSize - j * ChunkSize = ChunkSize
  BY <1>1, UnitsAre
<1>3. Units(x) = Len(x.text) /\ \A j : Point(x, j) = j * ChunkSize
  BY DEF Units, Point
<1>4. CASE k < Full(x)
  <2>1. End(x, k) = Point(x, k + 1) /\ Size(x, k) = ChunkSize
    BY <1>4 DEF End, Size
  <2>2. Point(x, k + 1) = (k + 1) * ChunkSize /\ Point(x, k) = k * ChunkSize
    BY <1>3
  <2>3. (k + 1) * ChunkSize - k * ChunkSize = ChunkSize
    BY <1>2
  <2> QED
    BY <2>1, <2>2, <2>3
<1>5. CASE ~(k < Full(x))
  <2>0. Full(x) \in Nat
    BY <1>2
  <2>1. k = Full(x)
    BY <1>5, <2>0
  <2>2. Point(x, k) = Full(x) * ChunkSize
    BY <1>3, <2>1
  <2> QED
    BY <1>3, <1>5, <2>2 DEF End, Size
<1> QED
  BY <1>4, <1>5

LEMMA TextSize ==
  ASSUME NEW x, NEW S, IsNode(x, S), x.type \in {"string", "xml"}, NEW k \in 0 .. Full(x)
  PROVE  \E i \in Nat : \E j \in Nat :
           /\ i <= j /\ j <= Chars(x.text) /\ Size(x, k) = j - i
           /\ Bits(x.text, Point(x, k), End(x, k)) = Part(x.text, i, j)
<1>1. x.type \in Texts /\ x.type # "binary"
  BY DEF Texts
<1>2. /\ Full(x) \in Nat /\ Full(x) * ChunkSize \in Nat /\ Full(x) * ChunkSize <= Units(x) /\ Units(x) \in Nat
      /\ \A j \in Nat : j <= Full(x) => j * ChunkSize \in Nat /\ j * ChunkSize <= Full(x) * ChunkSize
      /\ \A j \in Nat : (j + 1) * ChunkSize - j * ChunkSize = ChunkSize
  BY <1>1, UnitsAre
<1> DEFINE t == x.text
           n == Chars(t)
           i == k * ChunkSize
<1>3. Units(x) = n /\ \A j : Point(x, j) = After(t, j * ChunkSize) - 1
  BY <1>1 DEF Units, Point
<1>t. IsText(t)
  BY <1>1, TextNode
<1>l. Len(t) \in Nat
  BY <1>t, TextIs
<1>c. ChunkSize \in Nat
  BY ChunkFits
<1>i. i \in Nat /\ i <= n /\ Point(x, k) = After(t, i) - 1
  <2>1. k \in Nat /\ k <= Full(x)
    BY <1>2
  <2>2. i \in Nat /\ i <= Full(x) * ChunkSize
    BY <1>2, <2>1
  <2> HIDE DEF t, n
  <2>3. Point(x, k) = After(t, i) - 1
    BY <1>3
  <2> HIDE DEF i
  <2> DEFINE b == Full(x) * ChunkSize
  <2>4. i <= b /\ b <= n /\ b \in Nat /\ n \in Nat
    BY <1>2, <1>3, <2>2
  <2> HIDE DEF b
  <2> QED
    BY <2>2, <2>3, <2>4
<1> HIDE DEF t
<1>a. After(t, i) \in Nat
  BY <1>i, AfterGrows
<1>4. CASE k < Full(x)
  <2> DEFINE j == (k + 1) * ChunkSize
  <2>1. k + 1 \in Nat /\ k + 1 <= Full(x) /\ k \in Nat
    BY <1>2, <1>4
  <2>2. j \in Nat /\ j <= Full(x) * ChunkSize
    BY <1>2, <2>1
  <2>3. j - i = ChunkSize
    BY <1>2, <2>1
  <2>4. Point(x, k + 1) = After(t, j) - 1
    BY <1>3
  <2>5. End(x, k) = Point(x, k + 1) /\ Size(x, k) = ChunkSize
    BY <1>4 DEF End, Size
  <2> HIDE DEF i, j, n
  <2> DEFINE b == Full(x) * ChunkSize
  <2>6. j <= b /\ b <= n /\ b \in Nat /\ n \in Nat
    BY <1>2, <1>3, <2>2
  <2> HIDE DEF b
  <2>7. i <= j /\ j <= n /\ Size(x, k) = j - i
    BY <1>c, <1>i, <2>2, <2>3, <2>5, <2>6
  <2>8. Bits(t, Point(x, k), End(x, k)) = Part(t, i, j)
    <3>1. Point(x, k) + 1 = After(t, i) /\ End(x, k) = After(t, j) - 1
      BY <1>a, <1>i, <2>4, <2>5
    <3> QED
      BY <3>1, Zenon DEF Bits, Part
  <2> QED
    BY <1>i, <2>2, <2>7, <2>8 DEF t, n
<1>5. CASE ~(k < Full(x))
  <2>0. Full(x) \in Nat
    BY <1>2
  <2>1. k = Full(x)
    BY <1>5, <2>0
  <2>2. End(x, k) = Len(t) /\ Size(x, k) = n - i
    BY <1>3, <1>5, <2>1 DEF End, Size, t
  <2>3. After(t, n) = Len(t) + 1
    BY <1>t, CharactersEnd DEF n
  <2> HIDE DEF i, n
  <2>4. n \in Nat
    BY <1>2, <1>3
  <2>8. Bits(t, Point(x, k), End(x, k)) = Part(t, i, n)
    <3>1. Point(x, k) + 1 = After(t, i) /\ End(x, k) = After(t, n) - 1
      BY <1>a, <1>i, <1>l, <2>2, <2>3
    <3> QED
      BY <3>1, Zenon DEF Bits, Part
  <2>9. n <= n
    BY <2>4
  <2> QED
    BY <1>i, <2>2, <2>4, <2>8, <2>9 DEF t, n
<1> QED
  BY <1>4, <1>5

\* what a chunk is read from, and what from the first bytes of one
IsRead(b, q, l) == q + Len(b) <= Len(input) + 1 /\ AfterChunk(q, l) = q + Len(b) /\ ChunkAt(q, l) = b
IsBegun(b, q, l) ==
  /\ cut /\ AfterChunk(q, l) = Len(input) + 1 /\ q + Len(b) > Len(input) + 1
  /\ IF TypeOfTop = "binary" THEN ChunkAt(q, l) \in Seq(Byte) /\ Len(ChunkAt(q, l)) = Len(b)
     ELSE \E c \in 0 .. Len(b) : ChunkAt(q, l) = SubSeq(b, 1, c)

LEMMA ChunkReads ==
  ASSUME NEW x, NEW S, IsNode(x, S), x.type \in Texts, \A k \in DOMAIN x.text : x.text[k] \notin Missed,
         NEW k \in 0 .. Full(x), NEW p \in Nat, input \in Seq(Byte),
         Lies(Came, ChunkOf(x, k), p), TypeOfTop = x.type
  PROVE  IF p + 2 <= Len(input)
         THEN /\ LengthAt(p + 1) = Size(x, k) /\ LengthAt(p + 1) # Huge
              /\ \/ IsRead(Bits(x.text, Point(x, k), End(x, k)), p + 3, Size(x, k))
                 \/ IsBegun(Bits(x.text, Point(x, k), End(x, k)), p + 3, Size(x, k))
         ELSE LengthAt(p + 1) = Huge /\ cut
<1> DEFINE l == Size(x, k)
           i == Point(x, k)
           j == End(x, k)
           u == Length16(l)
           b == Bits(x.text, i, j)
           a == HeadOf(x, k)
<1>1. l \in Nat /\ l <= 65535 /\ i \in Nat /\ j \in Nat /\ i <= j /\ j <= Len(x.text)
  BY SizeIs
<1>2. a \in Byte
  BY TextTags DEF HeadOf
<1>t. x.text \in Seq(Byte)
  BY TextNode
<1>in. Len(input) \in Nat /\ p \in Nat
  OBVIOUS
<1>0. ChunkOf(x, k) = Coded(a, u, b)
  BY DEF ChunkOf
<1> HIDE DEF a, l, i, j
<1>3. u \in Seq(Byte) /\ Len(u) = 2
  BY <1>1, Length16Is
<1>4. b \in Seq(Byte) /\ Len(b) = j - i
  <2> DEFINE t == x.text
  <2>1. t \in Seq(Byte) /\ i \in Nat /\ j \in Nat /\ i <= j /\ j <= Len(t)
    BY <1>1, <1>t
  <2> HIDE DEF t
  <2>2. Bits(t, i, j) \in Seq(Byte) /\ Len(Bits(t, i, j)) = j - i
    BY <2>1, BitsAre
  <2> QED
    BY <2>2, Zenon DEF t, b
<1> HIDE DEF u, b
<1>5. Lies(Came, u, p + 1) /\ Lies(Came, b, p + 3)
  <2>1. Lies(Came, Coded(a, u, b), p)
    BY <1>0
  <2> QED
    BY <1>2, <1>3, <1>4, <1>in, <2>1, CodedLies
<1>6. IF p + 1 + 1 <= Len(input) THEN LengthAt(p + 1) = l /\ l # Huge ELSE LengthAt(p + 1) = Huge /\ cut
  <2> DEFINE q == p + 1
  <2>1. q \in Nat /\ 1 <= q
    BY <1>in
  <2> HIDE DEF q
  <2>2. Lies(Came, Length16(l), q)
    BY <1>5 DEF q, u
  <2>3. IF q + 1 <= Len(input) THEN LengthAt(q) = l /\ l # Huge ELSE LengthAt(q) = Huge /\ cut
    BY <1>1, <1>in, <2>1, <2>2, LengthReads
  <2> QED
    BY <2>3 DEF q
<1>7. p + 1 + 1 = p + 2
  BY <1>in
<1>8. ASSUME p + 2 <= Len(input) PROVE IsRead(b, p + 3, l) \/ IsBegun(b, p + 3, l)
  <2> DEFINE q == p + 3
             e == Upto(q + Len(b))
  <2>1. q \in 1 .. Len(input) + 1 /\ q \in Nat
    BY <1>8, <1>in
  <2>2. /\ e \in q .. Len(input) + 1 /\ e - q \in 0 .. Len(b)
        /\ SubSeq(input, q, e - 1) = SubSeq(b, 1, e - q)
        /\ q + Len(b) <= Len(input) + 1 => e = q + Len(b) /\ SubSeq(b, 1, e - q) = b
        /\ q + Len(b) > Len(input) + 1 => e = Len(input) + 1 /\ cut
    <3>1. Lies(Came, b, q)
      BY <1>5
    <3> HIDE DEF q
    <3> QED
      BY <1>4, <2>1, <3>1, BytesRead
  <2>3. CASE x.type = "binary"
    <3>1. l = Len(b)
      BY <1>4, <2>3, BinarySize DEF l, i, j
    <3> HIDE DEF q
    <3>2. AfterChunk(q, l) = e
      BY <2>3, <3>1 DEF AfterChunk
    <3>3. ChunkAt(q, l) = [n \in 1 .. l |-> IF q + n - 1 <= Len(input) THEN input[q + n - 1] ELSE 0]
      BY <2>3 DEF ChunkAt
    <3> DEFINE c == [n \in 1 .. l |-> IF q + n - 1 <= Len(input) THEN input[q + n - 1] ELSE 0]
    <3>4. c \in Seq(Byte) /\ Len(c) = l
      <4>1. \A n \in 1 .. l : (IF q + n - 1 <= Len(input) THEN input[q + n - 1] ELSE 0) \in Byte
        <5> TAKE n \in 1 .. l
        <5>1. 0 \in Byte
          BY DEF Byte
        <5> DEFINE r == q + n - 1
        <5>2. r \in Nat /\ r >= 1
          BY <1>1, <2>1
        <5> HIDE DEF r
        <5>3. r <= Len(input) => input[r] \in Byte
          BY <5>2
        <5> QED
          BY <5>1, <5>3 DEF r
      <4>2. c \in [1 .. l -> Byte]
        BY <4>1
      <4> HIDE DEF c
      <4> QED
        BY <1>1, <4>2, SequenceOf
    <3>5. CASE q + Len(b) <= Len(input) + 1
      <4>1. \A n \in 1 .. l : b[n] = c[n]
        <5> TAKE n \in 1 .. l
        <5>1. n \in 1 .. Len(b) /\ Len(b) \in Nat
          BY <1>4, <3>1
        <5>2. Lies(Came, b, q)
          BY <1>5 DEF q
        <5> DEFINE r == q + n - 1
        <5>3. IF r <= Len(input) THEN input[r] = b[n] ELSE cut
          BY <2>1, <5>1, <5>2, ByteLies
        <5>4. r <= Len(input)
          BY <1>in, <2>1, <3>5, <5>1
        <5> QED
          BY <5>3, <5>4
      <4> HIDE DEF c
      <4>2. b = c
        BY <1>4, <3>1, <3>4, <4>1, SameSequence
      <4> QED
        BY <2>2, <3>2, <3>3, <3>5, <4>2 DEF IsRead, q, c
    <3>6. CASE ~(q + Len(b) <= Len(input) + 1)
      <4>1. q + Len(b) > Len(input) + 1
        BY <1>4, <1>in, <2>1, <3>6
      <4> HIDE DEF c
      <4>2. ChunkAt(q, l) \in Seq(Byte) /\ Len(ChunkAt(q, l)) = Len(b)
        BY <3>1, <3>3, <3>4 DEF c
      <4> QED
        BY <2>2, <2>3, <3>2, <4>1, <4>2 DEF IsBegun, q
    <3> QED
      BY <3>5, <3>6
  <2>4. CASE x.type \in {"string", "xml"}
    <3> DEFINE t == x.text
    <3>1. PICK v \in Nat, w \in Nat : v <= w /\ w <= Chars(t) /\ l = w - v /\ b = Part(t, v, w)
      BY <2>4, TextSize DEF l, b, i, j
    <3>2. IsText(t) /\ TypeOfTop # "binary" /\ \A n \in DOMAIN t : t[n] \notin Missed
      BY <2>4, TextNode
    <3> HIDE DEF t, q
    <3>3. Lies(Came, Part(t, v, w), q)
      BY <1>5, <3>1 DEF q
    <3>4. EndOf(q, w - v) = Upto(q + Len(Part(t, v, w)))
          /\ TextAt(q, w - v) = SubSeq(Part(t, v, w), 1, Upto(q + Len(Part(t, v, w))) - q)
      BY <2>1, <3>1, <3>2, <3>3, TextReads
    <3>5. AfterChunk(q, l) = e /\ ChunkAt(q, l) = SubSeq(b, 1, e - q)
      BY <3>1, <3>2, <3>4, Zenon DEF AfterChunk, ChunkAt
    <3>6. CASE q + Len(b) <= Len(input) + 1
      <4>1. e = q + Len(b) /\ SubSeq(b, 1, e - q) = b
        BY <2>2, <3>6
      <4> HIDE DEF e
      <4> QED
        BY <3>5, <3>6, <4>1 DEF IsRead, q
    <3>7. CASE ~(q + Len(b) <= Len(input) + 1)
      <4>1. q + Len(b) > Len(input) + 1
        BY <1>4, <1>in, <2>1, <3>7
      <4>2. e = Len(input) + 1 /\ cut /\ e - q \in 0 .. Len(b)
        BY <2>2, <4>1
      <4> HIDE DEF e
      <4> QED
        BY <3>2, <3>5, <4>1, <4>2 DEF IsBegun, q
    <3> QED
      BY <3>6, <3>7
  <2> QED
    BY <2>3, <2>4, TextNode
<1> QED
  BY <1>6, <1>7, <1>8 DEF b, l, i, j

-----------------------------------------------------------------------------
(* The first byte of a node tells its class.                               *)

LEMMA TagsAre ==
  ASSUME NEW t \in Types
  PROVE  /\ Tag(t) \in Byte /\ Tag(t) # 122 /\ Tag(t) \in {78, 84, 73, 76, 68, 100, 83, 88, 66, 114, 86, 77, 82}
         /\ t \in Chunked => ChunkTag(t) \in {70, 115, 120, 98}
  BY SMTT(30) DEF Types, Tag, ChunkTag, Chunked, Byte

LEMMA TagsDiffer ==
  ASSUME NEW s \in Types, NEW t \in Types, Tag(s) = Tag(t)
  PROVE  s = t
  BY SMTT(30) DEF Types, Tag

LEMMA ChunkTagsDiffer ==
  ASSUME NEW s \in Chunked, NEW t \in Chunked, ChunkTag(s) = ChunkTag(t)
  PROVE  s = t
  BY SMTT(30) DEF Chunked, ChunkTag

LEMMA TypesOfTags ==
  /\ \A t \in Types : TypesOf(Tag(t)) = {t}
  /\ \A t \in Chunked : TypesOf(ChunkTag(t)) = {t} /\ ChunkTag(t) \in Byte /\ ChunkTag(t) # 122
  /\ TypesOf(122) = {} /\ TypesOf(EOF) = {}
  /\ ChunkTag("list") = 122
<1>s. Chunked \subseteq Types
  BY DEF Chunked, Types
<1>1. ASSUME NEW t \in Types PROVE TypesOf(Tag(t)) = {t}
  <2>1. ASSUME NEW s \in Types, s \in Chunked PROVE Tag(t) # ChunkTag(s)
    <3>1. Tag(t) \in {78, 84, 73, 76, 68, 100, 83, 88, 66, 114, 86, 77, 82}
      BY TagsAre
    <3>2. ChunkTag(s) \in {70, 115, 120, 98}
      BY <2>1, TagsAre
    <3> QED
      BY <3>1, <3>2
  <2>2. \A s \in Types : Tag(t) = Tag(s) => s = t
    BY TagsDiffer
  <2> QED
    BY <2>1, <2>2 DEF TypesOf
<1>2. ASSUME NEW t \in Chunked PROVE TypesOf(ChunkTag(t)) = {t} /\ ChunkTag(t) \in Byte /\ ChunkTag(t) # 122
  <2>t. t \in Types /\ ChunkTag(t) \in {70, 115, 120, 98}
    BY <1>s, TagsAre
  <2>1. ASSUME NEW s \in Types PROVE ChunkTag(t) # Tag(s)
    <3>1. Tag(s) \in {78, 84, 73, 76, 68, 100, 83, 88, 66, 114, 86, 77, 82}
      BY TagsAre
    <3> QED
      BY <2>t, <3>1
  <2>2. \A s \in Types : s \in Chunked /\ ChunkTag(t) = ChunkTag(s) => s = t
    BY ChunkTagsDiffer
  <2>3. TypesOf(ChunkTag(t)) = {t}
    BY <2>1, <2>2, <2>t DEF TypesOf
  <2>4. ChunkTag(t) \in Byte /\ ChunkTag(t) # 122
    BY <2>t DEF Byte
  <2> QED
    BY <2>3, <2>4
<1>3. ASSUME NEW b \in {122, EOF} PROVE TypesOf(b) = {}
  <2>1. ASSUME NEW s \in Types PROVE b # Tag(s) /\ (s \in Chunked => b # ChunkTag(s))
    <3>1. Tag(s) \in {78, 84, 73, 76, 68, 100, 83, 88, 66, 114, 86, 77, 82}
          /\ (s \in Chunked => ChunkTag(s) \in {70, 115, 120, 98})
      BY TagsAre
    <3> QED
      BY <3>1 DEF EOF
  <2> QED
    BY <2>1 DEF TypesOf
<1>4. ChunkTag("list") = 122
  BY DEF ChunkTag
<1> QED
  BY <1>1, <1>2, <1>3, <1>4

LEMMA NodeIs ==
  ASSUME NEW x, NEW S, IsNode(x, S)
  PROVE  /\ x.type \in Types
         /\ x = Node(x.type, x.value, x.text, x.class, x.parts)
         /\ x.type \in {"integer", "ref"} => x.value \in Int32
         /\ x.type = "boolean" => x.value \in {0, 1}
         /\ x.type \notin {"integer", "ref", "boolean"} => x.value = 0
         /\ x.type \in {"long", "double", "date"} => x.text \in Seq(Byte) /\ Len(x.text) = 8
         /\ x.type = "remote" => IsName(x.text) /\ IsName(x.class)
         /\ x.type \in {"list", "map"} => IsName(x.class)
         /\ x.type \notin {"list", "map", "remote"} => x.class = <<>>
         /\ x.type \notin {"long", "double", "date", "string", "xml", "binary", "remote"} => x.text = <<>>
         /\ x.type \notin {"list", "map"} => x.parts = <<>>
         /\ x.type \in {"list", "map"} => x.parts \in Seq(S) /\ Len(x.parts) <= MaxInt
         /\ x.type = "map" => Len(x.parts) % 2 = 0
<1>1. /\ x = Node(x.type, x.value, x.text, x.class, x.parts)
      /\ x.type \in Types
      /\ x.type = "map" => Len(x.parts) % 2 = 0
      /\ x.type \in {"list", "map", "remote"} => IsName(x.class)
      /\ x.type \notin {"list", "map", "remote"} => x.class = <<>>
      /\ x.type \in {"list", "map"} => x.parts \in Seq(S) /\ Len(x.parts) <= MaxInt
      /\ x.type \notin {"list", "map"} => x.parts = <<>>
  BY Zenon DEF IsNode
<1>2. x.value \in (CASE x.type \in {"integer", "ref"} -> Int32
                    [] x.type = "boolean" -> {0, 1}
                    [] OTHER -> {0})
  BY Zenon DEF IsNode
<1>3. (CASE x.type \in {"long", "double", "date"} -> x.text \in Seq(0 .. 255) /\ Len(x.text) = 8
        [] x.type \in {"string", "xml"} -> IsText(x.text)
        [] x.type = "binary" -> x.text \in Seq(0 .. 255)
        [] x.type = "remote" -> IsName(x.text)
        [] OTHER -> x.text = <<>>)
  BY Zenon DEF IsNode
<1>4. /\ x.type \in {"integer", "ref"} => x.value \in Int32
      /\ x.type = "boolean" => x.value \in {0, 1}
      /\ x.type \notin {"integer", "ref", "boolean"} => x.value = 0
  BY <1>2
<1>5. /\ x.type \in {"long", "double", "date"} => x.text \in Seq(Byte) /\ Len(x.text) = 8
      /\ x.type = "remote" => IsName(x.text)
      /\ x.type \notin {"long", "double", "date", "string", "xml", "binary", "remote"} => x.text = <<>>
  BY <1>3 DEF Byte
<1> QED
  BY <1>1, <1>4, <1>5

-----------------------------------------------------------------------------
(* What is written are bytes.                                              *)

LEMMA NameTyped ==
  ASSUME NEW t, IsName(t)
  PROVE  /\ t \in Seq(Byte) /\ Len(t) \in Nat /\ Chars(t) \in Nat /\ Chars(t) <= 65535
         /\ Length16(Chars(t)) \in Seq(Byte) /\ Len(Length16(Chars(t))) = 2
         /\ \A a \in Byte : Counted(a, t) = Coded(a, Length16(Chars(t)), t)
<1>1. IsText(t) /\ Chars(t) <= 65535
  BY DEF IsName
<1>2. t \in Seq(1 .. 255) /\ Len(t) \in Nat
  BY <1>1, TextIs
<1>3. Chars(t) \in Nat
  BY <1>1, CharactersStart
<1>4. t \in Seq(Byte)
  BY <1>2 DEF Byte
<1> DEFINE n == Chars(t)
<1>5. n \in Nat /\ n <= 65535
  BY <1>1, <1>3
<1> HIDE DEF n
<1>6. Length16(n) \in Seq(Byte) /\ Len(Length16(n)) = 2
  BY <1>5, Length16Is
<1>7. \A a \in Byte : Counted(a, t) = Coded(a, Length16(Chars(t)), t)
  BY Zenon DEF Counted, Coded
<1> QED
  BY <1>1, <1>2, <1>3, <1>4, <1>6, <1>7 DEF n

LEMMA Length32Typed ==
  ASSUME NEW v \in Int32
  PROVE  Length32(v) \in Seq(Byte) /\ Len(Length32(v)) = 4
<1>1. \E a, b, c, e \in Byte : Length32(v) = <<a, b, c, e>>
  BY Length32Is
<1>2. PICK a \in Byte, b \in Byte, c \in Byte, e \in Byte : Length32(v) = <<a, b, c, e>>
  BY <1>1
<1>3. <<a, b, c, e>> \in Seq(Byte) /\ Len(<<a, b, c, e>>) = 4
  OBVIOUS
<1> QED
  BY <1>2, <1>3

LEMMA HeadedLies ==
  ASSUME NEW m, NEW a \in Byte, NEW u \in Seq(Byte), NEW p \in Nat, Lies(m, <<a>> \o u, p)
  PROVE  Lies(m, <<a>>, p) /\ Lies(m, u, p + 1)
<1> DEFINE c == <<a>>
<1>1. c \in Seq(Byte) /\ Len(c) = 1 /\ Lies(m, c \o u, p)
  OBVIOUS
<1> HIDE DEF c
<1>2. Lies(m, c, p) /\ Lies(m, u, p + Len(c))
  BY <1>1, LiesApart
<1> QED
  BY <1>1, <1>2 DEF c

LEMMA LengthIsInt32 ==
  ASSUME NEW n \in Nat, n <= MaxInt
  PROVE  n \in Int32
<1>1. MaxInt \in Nat
  BY MaxIntIs
<1> DEFINE b == MaxInt
<1>2. b \in Nat /\ n <= b
  BY <1>1
<1> HIDE DEF b
<1>3. n \in -b - 1 .. b
  BY <1>2
<1> QED
  BY <1>3 DEF Int32, b

\* the length of a list
Counting(x) ==
  IF x.type = "list" /\ x.parts # <<>> THEN <<LengthTag>> \o Length32(Len(x.parts)) ELSE <<>>

LEMMA CountingIs ==
  ASSUME NEW x, NEW S, IsNode(x, S), x.type \in {"list", "map"}
  PROVE  /\ Counting(x) \in Seq(Byte)
         /\ Len(x.parts) \in Int32
         /\ Len(Counting(x)) = IF x.type = "list" /\ x.parts # <<>> THEN 5 ELSE 0
<1>1. x.parts \in Seq(S) /\ Len(x.parts) <= MaxInt
  BY NodeIs
<1> DEFINE n == Len(x.parts)
<1>2. n \in Nat /\ n <= MaxInt
  BY <1>1
<1> HIDE DEF n
<1>3. n \in Int32
  BY <1>2, LengthIsInt32
<1> DEFINE u == Length32(n)
<1>4. u \in Seq(Byte) /\ Len(u) = 4
  BY <1>3, Length32Typed
<1> HIDE DEF u
<1>5. LengthTag \in Byte
  BY DEF LengthTag, Byte
<1>6. <<LengthTag>> \o u \in Seq(Byte) /\ Len(<<LengthTag>> \o u) = 1 + Len(u)
  <2> DEFINE b == LengthTag
  <2>1. b \in Byte /\ u \in Seq(Byte)
    BY <1>4, <1>5
  <2> HIDE DEF b
  <2>2. <<b>> \o u \in Seq(Byte) /\ Len(<<b>> \o u) = 1 + Len(u)
    BY <2>1, Headed
  <2> QED
    BY <2>2 DEF b
<1>7. <<>> \in Seq(Byte) /\ Len(<<>>) = 0
  OBVIOUS
<1>8. CASE x.type = "list" /\ x.parts # <<>>
  <2>1. Counting(x) = <<LengthTag>> \o u
    BY <1>8, Zenon DEF Counting, u, n
  <2> QED
    BY <1>3, <1>4, <1>6, <1>8, <2>1 DEF n
<1>9. CASE ~(x.type = "list" /\ x.parts # <<>>)
  <2>1. Counting(x) = <<>>
    BY <1>9, Zenon DEF Counting
  <2> QED
    BY <1>3, <1>7, <1>9, <2>1 DEF n
<1> QED
  BY <1>8, <1>9

LEMMA OpeningIs ==
  ASSUME NEW x, NEW S, IsNode(x, S), x.type \in {"list", "map"}
  PROVE  /\ Opening(x) \in Seq(Byte)
         /\ Len(Opening(x)) = 1 + (IF x.class = <<>> THEN 0 ELSE 3 + Len(x.class)) + Len(Counting(x))
         /\ Len(x.class) \in Nat
         /\ \A m : \A p \in Nat : Lies(m, Opening(x), p) =>
              /\ Lies(m, <<Tag(x.type)>>, p)
              /\ x.class = <<>> => Lies(m, Counting(x), p + 1)
              /\ x.class # <<>> => /\ Lies(m, <<TypeTag>>, p + 1)
                                   /\ Lies(m, Length16(Chars(x.class)) \o x.class, p + 2)
                                   /\ Lies(m, Counting(x), p + 4 + Len(x.class))
<1> DEFINE a == Tag(x.type)
           c == <<a>>
           t == x.class
           e == Counting(x)
           u == Length16(Chars(t))
           y == TypeOf(t)
<1>k. x.type \in Types
  BY NodeIs
<1>1. a \in Byte
  BY <1>k, TagsAre
<1>2. IsName(t)
  BY NodeIs
<1>3. e \in Seq(Byte)
  BY CountingIs
<1>n. /\ t \in Seq(Byte) /\ Len(t) \in Nat /\ u \in Seq(Byte) /\ Len(u) = 2
      /\ \A b \in Byte : Counted(b, t) = Coded(b, u, t)
  <2> HIDE DEF t
  <2> QED
    BY <1>2, NameTyped
<1>0. Opening(x) = c \o y \o e
  BY DEF Opening, Counting
<1>4. c \in Seq(Byte) /\ Len(c) = 1
  BY <1>1
<1>tt. TypeTag \in Byte
  BY DEF TypeTag, Byte
<1> HIDE DEF a, c, t, e, u
<1>5. CASE t = <<>>
  <2>1. y = <<>>
    BY <1>5 DEF TypeOf
  <2>2. c \o y \o e = c \o e
    <3>1. c \o y = c
      BY <1>4, <2>1
    <3> QED
      BY <3>1, Zenon
  <2>3. c \o e \in Seq(Byte) /\ Len(c \o e) = Len(c) + Len(e)
    BY <1>3, <1>4, Joined
  <2>4. \A m : \A p \in Nat : Lies(m, c \o e, p) => Lies(m, c, p) /\ Lies(m, e, p + 1)
    BY <1>3, <1>4, LiesApart
  <2> HIDE DEF y
  <2>5. Opening(x) = c \o e
    BY <1>0, <2>2, Zenon
  <2> QED
    BY <1>4, <1>5, <1>n, <2>3, <2>4, <2>5 DEF t, e, c, a
<1>6. CASE t # <<>>
  <2>1. y = Coded(TypeTag, u, t)
    BY <1>6, <1>n, <1>tt, Zenon DEF TypeOf
  <2>2. y \in Seq(Byte) /\ Len(y) = 3 + Len(t)
    <3>1. Coded(TypeTag, u, t) \in Seq(Byte) /\ Len(Coded(TypeTag, u, t)) = 3 + Len(t)
      BY <1>n, <1>tt, CodedIs
    <3> QED
      BY <2>1, <3>1
  <2> HIDE DEF y
  <2>3. c \o y \in Seq(Byte) /\ Len(c \o y) = Len(c) + Len(y)
    BY <1>4, <2>2, Joined
  <2> DEFINE z == c \o y
  <2>z. z \in Seq(Byte) /\ Len(z) = 4 + Len(t)
    BY <1>4, <1>n, <2>2, <2>3
  <2>o. Opening(x) = z \o e
    BY <1>0, Zenon
  <2> HIDE DEF z
  <2>4. z \o e \in Seq(Byte) /\ Len(z \o e) = Len(z) + Len(e)
    BY <1>3, <2>z, Joined
  <2>5. ASSUME NEW m, NEW p \in Nat, Lies(m, z \o e, p)
        PROVE  /\ Lies(m, c, p) /\ Lies(m, <<TypeTag>>, p + 1)
               /\ Lies(m, u \o t, p + 2) /\ Lies(m, e, p + 4 + Len(t))
    <3>1. Lies(m, z, p) /\ Lies(m, e, p + Len(z))
      BY <1>3, <2>5, <2>z, LiesApart
    <3>2. Lies(m, c \o y, p)
      BY <3>1 DEF z
    <3>3. Lies(m, c, p) /\ Lies(m, y, p + Len(c))
      BY <1>4, <2>2, <3>2, LiesApart
    <3> DEFINE b == TypeTag
               v == u \o t
               q == p + 1
    <3>v. v \in Seq(Byte)
      BY <1>n, Joined, Zenon
    <3>y. y = <<b>> \o v
      <4>1. Coded(TypeTag, u, t) = <<b>> \o (u \o t)
        BY <1>n, <1>tt, CodedIs
      <4> QED
        BY <2>1, <4>1, Zenon
    <3>q. q \in Nat /\ Lies(m, y, q)
      BY <1>4, <3>3
    <3>b. b \in Byte
      BY <1>tt
    <3> HIDE DEF v, q, b
    <3>4. Lies(m, <<b>> \o v, q)
      BY <3>q, <3>y
    <3>5. Lies(m, <<b>>, q) /\ Lies(m, v, q + 1)
      BY <3>b, <3>q, <3>v, <3>4, HeadedLies
    <3>6. p + Len(z) = p + 4 + Len(t) /\ q + 1 = p + 2
      BY <1>n, <2>z DEF q
    <3> QED
      BY <3>1, <3>3, <3>5, <3>6 DEF v, q, b
  <2>6. Len(z \o e) = 1 + (3 + Len(t)) + Len(e)
    <3>1. Len(e) \in Nat
      BY <1>3
    <3> QED
      BY <1>n, <2>4, <2>z, <3>1
  <2> QED
    BY <1>4, <1>6, <1>n, <2>4, <2>5, <2>6, <2>o DEF t, e, c, a, u
<1> QED
  BY <1>5, <1>6

LEMMA RemoteIs ==
  ASSUME NEW x, NEW S, IsNode(x, S), x.type = "remote"
  PROVE  /\ WrittenLeaf(x) \in Seq(Byte) /\ Len(WrittenLeaf(x)) = 7 + Len(x.class) + Len(x.text)
         /\ Len(x.class) \in Nat /\ Len(x.text) \in Nat
         /\ \A m : \A p \in Nat : Lies(m, WrittenLeaf(x), p) =>
              /\ Lies(m, << 114 >>, p) /\ Lies(m, <<TypeTag>>, p + 1)
              /\ Lies(m, Length16(Chars(x.class)) \o x.class, p + 2)
              /\ Lies(m, <<Tag("string")>>, p + 4 + Len(x.class))
              /\ Lies(m, Length16(Chars(x.text)) \o x.text, p + 5 + Len(x.class))
<1> DEFINE a == Tag("remote")
           s == Tag("string")
           tt == TypeTag
           t == x.class
           r == x.text
           u == Length16(Chars(t))
           v == Length16(Chars(r))
           y == Counted(tt, t)
           z == Counted(s, r)
           c == <<a>>
<1>0. WrittenLeaf(x) = c \o y \o z
  BY DEF WrittenLeaf
<1>1. a \in Byte /\ s \in Byte /\ tt \in Byte /\ a = 114
  BY DEF Tag, TypeTag, Byte
<1>2. IsName(t) /\ IsName(r)
  BY NodeIs
<1> HIDE DEF a, s, tt, t, r
<1>3. /\ t \in Seq(Byte) /\ Len(t) \in Nat /\ u \in Seq(Byte) /\ Len(u) = 2
      /\ \A b \in Byte : Counted(b, t) = Coded(b, u, t)
  BY <1>2, NameTyped
<1>4. /\ r \in Seq(Byte) /\ Len(r) \in Nat /\ v \in Seq(Byte) /\ Len(v) = 2
      /\ \A b \in Byte : Counted(b, r) = Coded(b, v, r)
  BY <1>2, NameTyped
<1> HIDE DEF u, v
<1>5. y = Coded(tt, u, t) /\ z = Coded(s, v, r)
  BY <1>1, <1>3, <1>4, Zenon
<1>6. /\ Coded(tt, u, t) \in Seq(Byte) /\ Len(Coded(tt, u, t)) = 3 + Len(t)
      /\ Coded(tt, u, t) = <<tt>> \o (u \o t)
  BY <1>1, <1>3, CodedIs
<1>7. /\ Coded(s, v, r) \in Seq(Byte) /\ Len(Coded(s, v, r)) = 3 + Len(r)
      /\ Coded(s, v, r) = <<s>> \o (v \o r)
  BY <1>1, <1>4, CodedIs
<1> HIDE DEF y, z
<1>8. y \in Seq(Byte) /\ z \in Seq(Byte) /\ Len(y) = 3 + Len(t) /\ Len(z) = 3 + Len(r)
  BY <1>5, <1>6, <1>7
<1>9. c \in Seq(Byte) /\ Len(c) = 1
  BY <1>1
<1> HIDE DEF c
<1> DEFINE cy == c \o y
<1>10. cy \in Seq(Byte) /\ Len(cy) = 4 + Len(t)
  <2>1. c \o y \in Seq(Byte) /\ Len(c \o y) = Len(c) + Len(y)
    BY <1>8, <1>9, Joined
  <2> QED
    BY <1>3, <1>8, <1>9, <2>1
<1>11. WrittenLeaf(x) = cy \o z
  BY <1>0, Zenon
<1> HIDE DEF cy
<1>12. cy \o z \in Seq(Byte) /\ Len(cy \o z) = Len(cy) + Len(z)
  BY <1>8, <1>10, Joined
<1>13. ASSUME NEW m, NEW p \in Nat, Lies(m, cy \o z, p)
       PROVE  /\ Lies(m, c, p) /\ Lies(m, <<tt>>, p + 1)
              /\ Lies(m, u \o t, p + 2)
              /\ Lies(m, <<s>>, p + 4 + Len(t))
              /\ Lies(m, v \o r, p + 5 + Len(t))
  <2>1. Lies(m, cy, p) /\ Lies(m, z, p + Len(cy))
    BY <1>8, <1>10, <1>13, LiesApart
  <2>2. Lies(m, c \o y, p)
    BY <2>1 DEF cy
  <2>3. Lies(m, c, p) /\ Lies(m, y, p + Len(c))
    BY <1>8, <1>9, <2>2, LiesApart
  <2> DEFINE f == u \o t
             g == v \o r
             q == p + 1
             o == p + 4 + Len(t)
  <2>f. f \in Seq(Byte) /\ g \in Seq(Byte)
    BY <1>3, <1>4, Joined, Zenon
  <2>y. y = <<tt>> \o f /\ z = <<s>> \o g
    BY <1>5, <1>6, <1>7, Zenon
  <2>q. q \in Nat /\ o \in Nat /\ Lies(m, y, q) /\ Lies(m, z, o) /\ q + 1 = p + 2 /\ o + 1 = p + 5 + Len(t)
    <3>1. p + Len(cy) = o /\ p + Len(c) = q
      BY <1>3, <1>9, <1>10
    <3>2. q \in Nat /\ o \in Nat /\ q + 1 = p + 2 /\ o + 1 = p + 5 + Len(t)
      BY <1>3
    <3> HIDE DEF q, o
    <3> QED
      BY <2>1, <2>3, <3>1, <3>2
  <2> HIDE DEF f, g, q, o
  <2>4. Lies(m, <<tt>> \o f, q) /\ Lies(m, <<s>> \o g, o)
    BY <2>q, <2>y
  <2>5. Lies(m, <<tt>>, q) /\ Lies(m, f, q + 1)
    BY <1>1, <2>f, <2>q, <2>4, HeadedLies
  <2>6. Lies(m, <<s>>, o) /\ Lies(m, g, o + 1)
    BY <1>1, <2>f, <2>q, <2>4, HeadedLies
  <2> QED
    BY <2>3, <2>5, <2>6, <2>q DEF f, g, q, o
<1>14. Len(cy) + Len(z) = 7 + Len(t) + Len(r)
  BY <1>3, <1>4, <1>8, <1>10
<1> QED
  BY <1>1, <1>3, <1>4, <1>11, <1>12, <1>13, <1>14 DEF c, s, t, r, u, v, tt

LEMMA NumberIs ==
  ASSUME NEW x, NEW S, IsNode(x, S), x.type \in {"integer", "ref"}
  PROVE  /\ WrittenLeaf(x) = <<Tag(x.type)>> \o Length32(x.value) /\ Tag(x.type) \in Byte
         /\ WrittenLeaf(x) \in Seq(Byte) /\ Len(WrittenLeaf(x)) = 5
<1> DEFINE a == Tag(x.type)
           u == Length32(x.value)
<1>1. WrittenLeaf(x) = <<a>> \o u
  BY DEF WrittenLeaf
<1>2. a \in Byte /\ u \in Seq(Byte) /\ Len(u) = 4
  <2>1. x.type \in Types /\ x.value \in Int32
    BY NodeIs
  <2>2. a \in Byte
    BY <2>1, TagsAre
  <2>3. u \in Seq(Byte) /\ Len(u) = 4
    BY <2>1, Length32Typed
  <2> QED
    BY <2>2, <2>3
<1> HIDE DEF a, u
<1>3. <<a>> \o u \in Seq(Byte) /\ Len(<<a>> \o u) = 1 + Len(u)
  <2>1. a \in Byte /\ u \in Seq(Byte)
    BY <1>2
  <2> QED
    BY <2>1, Headed
<1> QED
  BY <1>1, <1>2, <1>3 DEF a, u

LEMMA WideIs ==
  ASSUME NEW x, NEW S, IsNode(x, S), x.type \in {"long", "double", "date"}
  PROVE  /\ WrittenLeaf(x) = <<Tag(x.type)>> \o x.text /\ Tag(x.type) \in Byte
         /\ x.text \in Seq(Byte) /\ Len(x.text) = 8
         /\ WrittenLeaf(x) \in Seq(Byte) /\ Len(WrittenLeaf(x)) = 9
<1> DEFINE a == Tag(x.type)
           u == x.text
<1>1. WrittenLeaf(x) = <<a>> \o u
  BY DEF WrittenLeaf
<1>2. a \in Byte /\ u \in Seq(Byte) /\ Len(u) = 8
  <2>1. u \in Seq(Byte) /\ Len(u) = 8 /\ x.type \in Types
    BY NodeIs
  <2>2. a \in Byte
    BY <2>1, TagsAre
  <2> QED
    BY <2>1, <2>2
<1> HIDE DEF a, u
<1>3. <<a>> \o u \in Seq(Byte) /\ Len(<<a>> \o u) = 1 + Len(u)
  <2>1. a \in Byte /\ u \in Seq(Byte)
    BY <1>2
  <2> QED
    BY <2>1, Headed
<1> QED
  BY <1>1, <1>2, <1>3 DEF a, u

LEMMA ShortIs ==
  ASSUME NEW x, NEW S, IsNode(x, S), x.type \in {"null", "boolean"}
  PROVE  \E b \in Byte :
           /\ WrittenLeaf(x) = <<b>> /\ TypesOf(b) = {x.type} /\ b # 122
           /\ x.type = "boolean" => x.value = (IF b = Tag("boolean") THEN 1 ELSE 0)
<1>1. CASE x.type = "null"
  <2>1. WrittenLeaf(x) = <<Tag("null")>> /\ "null" \in Types
    BY <1>1 DEF WrittenLeaf, Types
  <2>2. TypesOf(Tag("null")) = {"null"} /\ Tag("null") \in Byte /\ Tag("null") # 122
    BY <2>1, TypesOfTags, TagsAre
  <2> QED
    BY <1>1, <2>1, <2>2
<1>2. CASE x.type = "boolean"
  <2>1. WrittenLeaf(x) = <<IF x.value = 1 THEN Tag("boolean") ELSE ChunkTag("boolean")>>
    BY <1>2 DEF WrittenLeaf
  <2>t. "boolean" \in Types /\ "boolean" \in Chunked
    BY DEF Types, Chunked
  <2>2. TypesOf(Tag("boolean")) = {"boolean"} /\ Tag("boolean") \in Byte /\ Tag("boolean") # 122
    BY <2>t, TypesOfTags, TagsAre
  <2>3. TypesOf(ChunkTag("boolean")) = {"boolean"} /\ ChunkTag("boolean") \in Byte /\ ChunkTag("boolean") # 122
    BY <2>t, TypesOfTags
  <2>4. x.value \in {0, 1}
    BY <1>2, NodeIs
  <2>5. Tag("boolean") # ChunkTag("boolean")
    BY DEF Tag, ChunkTag
  <2>6. CASE x.value = 1
    BY <1>2, <2>1, <2>2, <2>6
  <2>7. CASE x.value = 0
    BY <1>2, <2>1, <2>3, <2>5, <2>7
  <2> QED
    BY <2>4, <2>6, <2>7
<1> QED
  BY <1>1, <1>2

LEMMA LeafTyped ==
  ASSUME NEW x, NEW S, IsNode(x, S), x.type \notin {"list", "map"}
  PROVE  WrittenLeaf(x) \in Seq(Byte) /\ Len(WrittenLeaf(x)) >= 1 /\ Len(WrittenLeaf(x)) \in Nat
<1>0. x.type \in Types
  BY NodeIs
<1>1. CASE x.type \in {"null", "boolean"}
  <2>1. PICK b \in Byte : WrittenLeaf(x) = <<b>>
    BY <1>1, ShortIs
  <2> QED
    BY <2>1
<1>2. CASE x.type \in {"integer", "ref"}
  <2>1. WrittenLeaf(x) \in Seq(Byte) /\ Len(WrittenLeaf(x)) = 5
    BY <1>2, NumberIs
  <2> QED
    BY <2>1
<1>3. CASE x.type \in {"long", "double", "date"}
  <2>1. WrittenLeaf(x) \in Seq(Byte) /\ Len(WrittenLeaf(x)) = 9
    BY <1>3, WideIs
  <2> QED
    BY <2>1
<1>4. CASE x.type \in Texts
  <2>1. WrittenLeaf(x) \in Seq(Byte) /\ Len(WrittenLeaf(x)) = 3 * (Full(x) + 1) + Len(x.text)
    BY <1>4, TextLayout
  <2>2. Full(x) \in Nat
    BY <1>4, UnitsAre
  <2>3. Len(x.text) \in Nat
    BY <1>4, TextNode
  <2> QED
    BY <2>1, <2>2, <2>3
<1>5. CASE x.type = "remote"
  <2>1. WrittenLeaf(x) \in Seq(Byte) /\ Len(WrittenLeaf(x)) = 7 + Len(x.class) + Len(x.text)
        /\ Len(x.class) \in Nat /\ Len(x.text) \in Nat
    BY <1>5, RemoteIs
  <2> DEFINE w == WrittenLeaf(x)
             a == Len(x.class)
             b == Len(x.text)
  <2>2. w \in Seq(Byte) /\ Len(w) = 7 + a + b /\ a \in Nat /\ b \in Nat
    BY <2>1
  <2> HIDE DEF w, a, b
  <2>3. w \in Seq(Byte) /\ Len(w) >= 1 /\ Len(w) \in Nat
    BY <2>2
  <2> QED
    BY <2>3 DEF w
<1> QED
  BY <1>0, <1>1, <1>2, <1>3, <1>4, <1>5 DEF Types, Texts

-----------------------------------------------------------------------------
(* Lists and maps.                                                         *)

\* what is written of the parts of node o
Bodies(d, o) == [k \in 1 .. Len(d[o].parts) |-> Written(d, d[o].parts[k])]

LEMMA ContainerIs ==
  ASSUME NEW d \in Answers, NEW o \in 1 .. Len(d), d[o].type \in {"list", "map"}
  PROVE  Written(d, o) = Opening(d[o]) \o FlattenSeq(Bodies(d, o)) \o << 122 >>
<1>1. ChunkTag(d[o].type) = 122
  BY DEF ChunkTag
<1>2. Written(d, o) =
           IF d[o].type \in {"list", "map"}
           THEN Opening(d[o]) \o FlattenSeq([k \in 1 .. Len(d[o].parts) |-> Written(d, d[o].parts[k])])
                  \o <<ChunkTag(d[o].type)>>
           ELSE WrittenLeaf(d[o])
  BY WrittenUnfolds
<1> QED
  BY <1>1, <1>2, Zenon DEF Bodies

LEMMA BodyTyped ==
  ASSUME NEW d \in Answers, NEW o \in 1 .. Len(d), d[o].type \in {"list", "map"},
         \A k \in 1 .. Len(d[o].parts) : Written(d, d[o].parts[k]) \in Seq(Byte)
  PROVE  /\ Bodies(d, o) \in Seq(Seq(Byte)) /\ Len(Bodies(d, o)) = Len(d[o].parts) /\ Len(d[o].parts) \in Nat
         /\ FlattenSeq(Bodies(d, o)) \in Seq(Byte)
         /\ Opening(d[o]) \in Seq(Byte) /\ Len(Opening(d[o])) >= 1 /\ Len(Opening(d[o])) \in Nat
<1> DEFINE n == Len(d[o].parts)
           s == Bodies(d, o)
<1>1. n \in Nat /\ IsNode(d[o], o + 1 .. Len(d))
  BY DocumentIs
<1>2. s \in Seq(Seq(Byte)) /\ Len(s) = n
  <2>1. s \in [1 .. n -> Seq(Byte)]
    BY Zenon DEF Bodies
  <2> HIDE DEF s
  <2> QED
    BY <1>1, <2>1, SequenceOf
<1>3. FlattenSeq(s) \in Seq(Byte)
  <2> HIDE DEF s
  <2>0. s \in Seq(Seq(Byte)) /\ Len(s) \in 0 .. Len(s)
    BY <1>1, <1>2
  <2>1. /\ \A k \in 0 .. Len(s) : FlattenSeq(First(s, k)) \in Seq(Byte)
        /\ FlattenSeq(First(s, Len(s))) = FlattenSeq(s)
    BY <2>0, FlattenGrows
  <2> QED
    BY <2>0, <2>1
<1>4. Opening(d[o]) \in Seq(Byte) /\ Len(Opening(d[o])) >= 1 /\ Len(Opening(d[o])) \in Nat
  <2> DEFINE x == d[o]
  <2>1. IsNode(x, o + 1 .. Len(d)) /\ x.type \in {"list", "map"}
    BY <1>1
  <2> HIDE DEF x
  <2>2. Opening(x) \in Seq(Byte) /\ Len(Opening(x)) = 1 + (IF x.class = <<>> THEN 0 ELSE 3 + Len(x.class)) + Len(Counting(x))
        /\ Len(x.class) \in Nat
    BY <2>1, OpeningIs
  <2>3. Counting(x) \in Seq(Byte)
    BY <2>1, CountingIs
  <2> DEFINE a == Len(x.class)
             b == Len(Counting(x))
             c == Len(Opening(x))
  <2>4. a \in Nat /\ b \in Nat /\ c = 1 + (IF x.class = <<>> THEN 0 ELSE 3 + a) + b
    BY <2>2, <2>3
  <2> HIDE DEF a, b, c
  <2>5. c >= 1 /\ c \in Nat
    BY <2>4
  <2> QED
    BY <2>2, <2>5 DEF c, x
<1> QED
  BY <1>1, <1>2, <1>3, <1>4

LEMMA WrittenTyped ==
  ASSUME NEW d \in Answers
  PROVE  \A o \in 1 .. Len(d) : Written(d, o) \in Seq(Byte) /\ Len(Written(d, o)) >= 1 /\ Len(Written(d, o)) \in Nat
<1> DEFINE S == {o \in 1 .. Len(d) : Written(d, o) \in Seq(Byte) /\ Len(Written(d, o)) >= 1 /\ Len(Written(d, o)) \in Nat}
<1>n. Len(d) \in Nat
  BY DocumentIs
<1>1. ASSUME NEW o \in 1 .. Len(d), \A y \in o + 1 .. Len(d) : y \in S
      PROVE  o \in S
  <2>0. IsNode(d[o], o + 1 .. Len(d))
    BY DocumentIs
  <2>1. CASE d[o].type \in {"list", "map"}
    <3> DEFINE n == Len(d[o].parts)
               s == Bodies(d, o)
               u == Opening(d[o])
               v == FlattenSeq(s)
               e == << 122 >>
    <3>1. \A k \in 1 .. n : Written(d, d[o].parts[k]) \in Seq(Byte)
      <4> TAKE k \in 1 .. n
      <4>1. d[o].parts[k] \in o + 1 .. Len(d)
        BY PartIs
      <4> QED
        BY <1>1, <4>1
    <3>2. v \in Seq(Byte) /\ u \in Seq(Byte) /\ Len(u) >= 1 /\ Len(u) \in Nat
      BY <2>1, <3>1, BodyTyped
    <3>3. Written(d, o) = u \o v \o e
      BY <2>1, ContainerIs
    <3>4. e \in Seq(Byte) /\ Len(e) = 1
      BY DEF Byte
    <3> HIDE DEF u, v, e
    <3> DEFINE z == u \o v
    <3>5. z \in Seq(Byte) /\ Len(z) = Len(u) + Len(v) /\ Len(v) \in Nat
      BY <3>2, Joined
    <3>6. Written(d, o) = z \o e
      BY <3>3, Zenon
    <3> HIDE DEF z
    <3>7. z \o e \in Seq(Byte) /\ Len(z \o e) = Len(z) + Len(e)
      BY <3>4, <3>5, Joined
    <3>8. Len(z) + Len(e) >= 1 /\ Len(z) + Len(e) \in Nat
      BY <3>2, <3>4, <3>5
    <3> QED
      BY <3>6, <3>7, <3>8
  <2>2. CASE d[o].type \notin {"list", "map"}
    <3>1. Written(d, o) = WrittenLeaf(d[o])
      BY <2>2, WrittenUnfolds
    <3> DEFINE x == d[o]
    <3>2. IsNode(x, o + 1 .. Len(d)) /\ x.type \notin {"list", "map"}
      BY <2>0, <2>2
    <3> HIDE DEF x
    <3>3. WrittenLeaf(x) \in Seq(Byte) /\ Len(WrittenLeaf(x)) >= 1 /\ Len(WrittenLeaf(x)) \in Nat
      BY <3>2, LeafTyped
    <3> QED
      BY <3>1, <3>3 DEF x
  <2> QED
    BY <2>1, <2>2
<1>2. \A o \in 1 .. Len(d) : o \in S
  <2> HIDE DEF S
  <2> QED
    BY <1>1, <1>n, Descending
<1> QED
  BY <1>2

LEMMA AheadIs ==
  ASSUME NEW d \in Answers, NEW o \in 1 .. Len(d), d[o].type \in {"list", "map"}
  PROVE  LET ps == d[o].parts
             n == Len(ps)
         IN  /\ n \in Nat
             /\ \A k \in 0 .. n : Len(Ahead(d, o, k)) \in Nat /\ Len(Ahead(d, o, k)) >= 1
             /\ Ahead(d, o, 0) = Opening(d[o])
             /\ \A k \in 1 .. n : Len(Ahead(d, o, k)) = Len(Ahead(d, o, k - 1)) + Len(Written(d, ps[k]))
             /\ Len(Written(d, o)) = Len(Ahead(d, o, n)) + 1
             /\ \A m : \A q \in Nat : Lies(m, Written(d, o), q) =>
                  /\ Lies(m, Opening(d[o]), q)
                  /\ \A k \in 1 .. n : Lies(m, Written(d, ps[k]), q + Len(Ahead(d, o, k - 1)))
                  /\ Lies(m, << 122 >>, q + Len(Ahead(d, o, n)))
<1> DEFINE ps == d[o].parts
           n == Len(ps)
           s == Bodies(d, o)
           u == Opening(d[o])
           v == FlattenSeq(s)
           e == << 122 >>
           z == u \o v
<1>1. \A k \in 1 .. n : s[k] = Written(d, ps[k]) /\ Written(d, ps[k]) \in Seq(Byte)
  <2> TAKE k \in 1 .. n
  <2>1. ps[k] \in 1 .. Len(d)
    BY PartIs
  <2>2. s[k] = Written(d, ps[k])
    BY DEF Bodies
  <2> QED
    BY <2>1, <2>2, WrittenTyped
<1>2. /\ s \in Seq(Seq(Byte)) /\ Len(s) = n /\ n \in Nat
      /\ v \in Seq(Byte) /\ u \in Seq(Byte) /\ Len(u) >= 1 /\ Len(u) \in Nat
  BY <1>1, BodyTyped
<1>3. Written(d, o) = z \o e
  BY ContainerIs
<1>4. e \in Seq(Byte) /\ Len(e) = 1
  BY DEF Byte
<1>5. \A k \in 0 .. n : Ahead(d, o, k) = u \o FlattenSeq(First(s, k))
  <2> TAKE k \in 0 .. n
  <2>1. \A j \in 1 .. k : j \in 1 .. n
    BY <1>2
  <2>2. First(s, k) = [j \in 1 .. k |-> Written(d, d[o].parts[j])]
    BY <2>1 DEF First, Bodies
  <2> QED
    BY <2>2, Zenon DEF Ahead
<1> HIDE DEF s, v, u, e
<1>6. /\ \A k \in 0 .. n : FlattenSeq(First(s, k)) \in Seq(Byte)
      /\ FlattenSeq(First(s, 0)) = <<>>
      /\ \A k \in 1 .. n : FlattenSeq(First(s, k)) = FlattenSeq(First(s, k - 1)) \o s[k]
      /\ FlattenSeq(First(s, n)) = v
  BY <1>2, FlattenGrows DEF v
<1>7. \A k \in 0 .. n : /\ Len(FlattenSeq(First(s, k))) \in Nat
                        /\ Len(Ahead(d, o, k)) = Len(u) + Len(FlattenSeq(First(s, k)))
  <2> TAKE k \in 0 .. n
  <2> DEFINE f == FlattenSeq(First(s, k))
  <2>1. f \in Seq(Byte)
    BY <1>6
  <2> HIDE DEF f
  <2>2. Len(u \o f) = Len(u) + Len(f) /\ Len(f) \in Nat
    BY <1>2, <2>1, Joined
  <2> QED
    BY <1>5, <2>2 DEF f
<1>8. Ahead(d, o, 0) = u
  <2>1. 0 \in 0 .. n
    BY <1>2
  <2>2. Ahead(d, o, 0) = u \o <<>>
    BY <1>5, <1>6, <2>1, Zenon
  <2>3. u \o <<>> = u
    BY <1>2
  <2> QED
    BY <2>2, <2>3
<1>9. ASSUME NEW k \in 1 .. n
      PROVE  Len(Ahead(d, o, k)) = Len(Ahead(d, o, k - 1)) + Len(Written(d, ps[k]))
  <2>1. k \in 0 .. n /\ k - 1 \in 0 .. n
    BY <1>2
  <2> DEFINE f == FlattenSeq(First(s, k - 1))
             g == s[k]
             h == FlattenSeq(First(s, k))
  <2>2. f \in Seq(Byte) /\ g \in Seq(Byte) /\ h = f \o g /\ g = Written(d, ps[k])
    BY <1>1, <1>6, <2>1
  <2>4. /\ Len(Ahead(d, o, k)) = Len(u) + Len(h)
        /\ Len(Ahead(d, o, k - 1)) = Len(u) + Len(f)
    BY <1>7, <2>1
  <2> HIDE DEF f, g, h
  <2>3. Len(f \o g) = Len(f) + Len(g) /\ Len(f) \in Nat /\ Len(g) \in Nat
    BY <2>2, Joined
  <2>5. Len(h) = Len(f) + Len(g)
    BY <2>2, <2>3
  <2> DEFINE a == Len(Ahead(d, o, k))
             b == Len(Ahead(d, o, k - 1))
             c == Len(u)
             l == Len(Written(d, ps[k]))
  <2>6. a = c + Len(h) /\ b = c + Len(f) /\ c \in Nat /\ l = Len(g)
    BY <1>2, <2>2, <2>4
  <2> HIDE DEF a, b, c, l
  <2>7. a = b + l
    BY <2>3, <2>5, <2>6
  <2> QED
    BY <2>7 DEF a, b, l
<1>n. n \in 0 .. n
  BY <1>2
<1>10. z \in Seq(Byte) /\ Len(z) = Len(Ahead(d, o, n)) /\ z = u \o v
  <2>1. u \o v \in Seq(Byte) /\ Len(u \o v) = Len(u) + Len(v)
    BY <1>2, Joined
  <2>2. Len(Ahead(d, o, n)) = Len(u) + Len(v)
    BY <1>6, <1>7, <1>n
  <2> QED
    BY <2>1, <2>2
<1> HIDE DEF z
<1>11. Len(Written(d, o)) = Len(Ahead(d, o, n)) + 1
  <2>1. Len(z \o e) = Len(z) + Len(e)
    BY <1>4, <1>10, Joined
  <2> QED
    BY <1>3, <1>4, <1>10, <2>1
<1>12. ASSUME NEW m, NEW q \in Nat, Lies(m, Written(d, o), q)
       PROVE  /\ Lies(m, u, q)
              /\ \A k \in 1 .. n : Lies(m, Written(d, ps[k]), q + Len(Ahead(d, o, k - 1)))
              /\ Lies(m, e, q + Len(Ahead(d, o, n)))
  <2>1. Lies(m, z \o e, q)
    BY <1>3, <1>12
  <2>2. Lies(m, z, q) /\ Lies(m, e, q + Len(z))
    BY <1>4, <1>10, <2>1, LiesApart
  <2>3. Lies(m, u \o v, q)
    BY <1>10, <2>2
  <2>4. Lies(m, u, q) /\ Lies(m, v, q + Len(u))
    BY <1>2, <2>3, LiesApart
  <2>5. ASSUME NEW k \in 1 .. n PROVE Lies(m, Written(d, ps[k]), q + Len(Ahead(d, o, k - 1)))
    <3> DEFINE p == q + Len(u)
    <3>1. p \in Nat /\ Lies(m, FlattenSeq(s), p)
      BY <1>2, <2>4 DEF v
    <3>2. Lies(m, s[k], p + Len(FlattenSeq(First(s, k - 1))))
      <4> HIDE DEF p
      <4> QED
        BY <1>2, <3>1, FlattenLies
    <3> DEFINE l == Len(FlattenSeq(First(s, k - 1)))
    <3>3. l \in Nat /\ Len(Ahead(d, o, k - 1)) = Len(u) + l
      <4>1. k - 1 \in 0 .. n
        BY <1>2
      <4> QED
        BY <1>7, <4>1
    <3> HIDE DEF l
    <3> DEFINE a == Len(Ahead(d, o, k - 1))
               c == Len(u)
    <3>5. c \in Nat /\ a = c + l /\ p = q + c
      BY <1>2, <3>3
    <3> HIDE DEF a, c, p
    <3>6. p + l = q + a
      BY <3>3, <3>5
    <3>4. p + l = q + Len(Ahead(d, o, k - 1))
      BY <3>6 DEF a
    <3> QED
      BY <1>1, <3>2, <3>4 DEF l
  <2> QED
    BY <1>10, <2>2, <2>4, <2>5
<1>13. \A k \in 0 .. n : Len(Ahead(d, o, k)) \in Nat /\ Len(Ahead(d, o, k)) >= 1
  BY <1>2, <1>7
<1> QED
  BY <1>2, <1>8, <1>9, <1>11, <1>12, <1>13 DEF u, e

-----------------------------------------------------------------------------
(* What the reading meets where a node starts.                             *)

\* Each node starts with a tag that tells its class, and no other one.
LEMMA HeadLies ==
  ASSUME NEW d \in Answers, NEW o \in 1 .. Len(d), NEW m, NEW p \in Nat, Lies(m, Written(d, o), p)
  PROVE  \E b \in Byte : Lies(m, <<b>>, p) /\ TypesOf(b) = {d[o].type} /\ b # 122
<1> DEFINE x == d[o]
           S == o + 1 .. Len(d)
<1>1. IsNode(x, S) /\ x.type \in Types
  BY DocumentIs, NodeIs
<1>2. x.type \notin {"list", "map"} => Lies(m, WrittenLeaf(x), p)
  BY WrittenUnfolds
<1>3. Tag(x.type) \in Byte /\ Tag(x.type) # 122 /\ TypesOf(Tag(x.type)) = {x.type}
  BY <1>1, TagsAre, TypesOfTags
<1>4. CASE x.type \in {"list", "map"}
  <2>1. Lies(m, Opening(x), p)
    BY <1>4, AheadIs
  <2> HIDE DEF x, S
  <2>2. Lies(m, <<Tag(x.type)>>, p)
    BY <1>1, <1>4, <2>1, OpeningIs
  <2> QED
    BY <1>3, <2>2 DEF x
<1>5. CASE x.type \in Texts
  <2>1. Lies(m, WrittenLeaf(x), p)
    BY <1>2, <1>5 DEF Texts
  <2> HIDE DEF x, S
  <2>2. Full(x) \in Nat /\ Point(x, 0) = 0
    BY <1>1, <1>5, UnitsAre, PointsAre
  <2>3. 0 \in 0 .. Full(x) /\ Place(x, p, 0) = p
    BY <2>2 DEF Place
  <2>4. Lies(m, ChunkOf(x, 0), p)
    BY <1>1, <1>5, <2>1, <2>3, TextLayout
  <2>5. HeadOf(x, 0) \in Byte /\ HeadOf(x, 0) # 122 /\ TypesOf(HeadOf(x, 0)) = {x.type}
    <3>1. x.type \in Chunked
      BY <1>5 DEF Texts, Chunked
    <3> QED
      BY <1>3, <3>1, TypesOfTags DEF HeadOf
  <2> DEFINE a == HeadOf(x, 0)
             u == Length16(Size(x, 0))
             y == Bits(x.text, Point(x, 0), End(x, 0))
  <2>6. /\ Size(x, 0) \in Nat /\ Size(x, 0) <= 65535
        /\ Point(x, 0) \in Nat /\ End(x, 0) \in Nat
        /\ Point(x, 0) <= End(x, 0) /\ End(x, 0) <= Len(x.text) /\ x.text \in Seq(Byte)
    BY <1>1, <1>5, <2>3, SizeIs, TextNode
  <2>7. u \in Seq(Byte) /\ Len(u) = 2
    BY <2>6, Length16Is
  <2>8. y \in Seq(Byte)
    BY <2>6, BitsAre
  <2>9. Lies(m, Coded(a, u, y), p)
    BY <2>4 DEF ChunkOf
  <2> HIDE DEF a, u, y
  <2>10. Lies(m, <<a>>, p)
    BY <2>5, <2>7, <2>8, <2>9, CodedLies DEF a
  <2> QED
    BY <2>5, <2>10 DEF a, x
<1>6. CASE x.type \in {"null", "boolean"}
  <2>1. Lies(m, WrittenLeaf(x), p)
    BY <1>2, <1>6
  <2>2. \E b \in Byte : WrittenLeaf(x) = <<b>> /\ TypesOf(b) = {x.type} /\ b # 122
    <3> HIDE DEF x, S
    <3> QED
      BY <1>1, <1>6, ShortIs
  <2> QED
    BY <2>1, <2>2
<1>7. CASE x.type \in {"integer", "ref"}
  <2>1. Lies(m, WrittenLeaf(x), p)
    BY <1>2, <1>7
  <2> DEFINE u == Length32(x.value)
  <2> HIDE DEF x, S
  <2>2. WrittenLeaf(x) = <<Tag(x.type)>> \o u
    BY <1>1, <1>7, NumberIs
  <2>3. u \in Seq(Byte)
    <3>1. x.value \in Int32
      BY <1>1, <1>7, NodeIs
    <3> QED
      BY <3>1, Length32Typed
  <2> HIDE DEF u
  <2>4. Lies(m, <<Tag(x.type)>>, p)
    BY <1>3, <2>1, <2>2, <2>3, HeadedLies
  <2> QED
    BY <1>3, <2>4 DEF x
<1>8. CASE x.type \in {"long", "double", "date"}
  <2>1. Lies(m, WrittenLeaf(x), p)
    BY <1>2, <1>8
  <2> HIDE DEF x, S
  <2>2. WrittenLeaf(x) = <<Tag(x.type)>> \o x.text /\ x.text \in Seq(Byte)
    BY <1>1, <1>8, WideIs
  <2>4. Lies(m, <<Tag(x.type)>>, p)
    BY <1>3, <2>1, <2>2, HeadedLies
  <2> QED
    BY <1>3, <2>4 DEF x
<1>9. CASE x.type = "remote"
  <2>1. Lies(m, WrittenLeaf(x), p)
    BY <1>2, <1>9
  <2> HIDE DEF x, S
  <2>4. Lies(m, << 114 >>, p)
    BY <1>1, <1>9, <2>1, RemoteIs
  <2>5. Tag(x.type) = 114
    BY <1>9 DEF Tag
  <2> QED
    BY <1>3, <2>4, <2>5 DEF x
<1> QED
  BY <1>1, <1>4, <1>5, <1>6, <1>7, <1>8, <1>9 DEF Types, Texts

\* So the reading takes the node for what it is.
LEMMA FirstByte ==
  ASSUME NEW d \in Answers, NEW o \in 1 .. Len(d), NEW p \in Nat, p >= 1, Len(input) \in Nat,
         Lies(Came, Written(d, o), p), ~Out(Came, p)
  PROVE  p <= Len(input) /\ ByteAt(p) = input[p] /\ TypesOf(input[p]) = {d[o].type} /\ input[p] # 122
         /\ input[p] \in Byte /\ Lies(Came, <<input[p]>>, p)
<1>1. PICK b \in Byte : Lies(Came, <<b>>, p) /\ TypesOf(b) = {d[o].type} /\ b # 122
  BY HeadLies
<1>2. Len(<<b>>) = 1 /\ <<b>>[1] = b
  OBVIOUS
<1> DEFINE w == <<b>>
<1>3. Lies(Came, w, p) /\ Len(w) \in Nat /\ 1 \in 1 .. Len(w) /\ w[1] = b
  BY <1>1, <1>2
<1> HIDE DEF w
<1>4. IF p + 1 - 1 <= Len(input) THEN input[p + 1 - 1] = w[1] ELSE cut
  BY <1>3, ByteLies
<1>5. p + 1 - 1 = p
  OBVIOUS
<1>6. p <= Len(input)
  BY <1>4, <1>5, CameIs DEF Out
<1>7. input[p] = b
  BY <1>3, <1>4, <1>5, <1>6
<1> QED
  BY <1>1, <1>6, <1>7 DEF ByteAt

\* A list or map ends with the tag for the end.
LEMMA EndByte ==
  ASSUME NEW p \in Nat, p >= 1, Len(input) \in Nat, Lies(Came, << 122 >>, p), ~Out(Came, p)
  PROVE  p <= Len(input) /\ ByteAt(p) = 122 /\ input[p] = 122
<1> DEFINE w == << 122 >>
<1>3. Lies(Came, w, p) /\ Len(w) \in Nat /\ 1 \in 1 .. Len(w) /\ w[1] = 122
  OBVIOUS
<1> HIDE DEF w
<1>4. IF p + 1 - 1 <= Len(input) THEN input[p + 1 - 1] = w[1] ELSE cut
  BY <1>3, ByteLies
<1>5. p + 1 - 1 = p
  OBVIOUS
<1>6. p <= Len(input)
  BY <1>4, <1>5, CameIs DEF Out
<1> QED
  BY <1>3, <1>4, <1>5, <1>6 DEF ByteAt

\* Where the input ends there is no tag.
LEMMA NoByte ==
  ASSUME NEW p \in Nat, Out(Came, p)
  PROVE  ByteAt(p) = EOF /\ TypesOf(ByteAt(p)) = {} /\ cut /\ ~(p <= Len(input))
<1>1. cut /\ p > Len(input)
  BY CameIs DEF Out
<1>2. ~(p <= Len(input)) \/ Len(input) \notin Int
  BY <1>1
<1> QED
  BY <1>1, TypesOfTags DEF ByteAt

-----------------------------------------------------------------------------
(* What stays as it was when the reading goes on.                          *)

LEMMA OutGrows ==
  ASSUME NEW m, Len(m.bytes) \in Nat, NEW p \in Nat, NEW p2 \in Nat, p <= p2, Out(m, p)
  PROVE  Out(m, p2)
<1> DEFINE n == Len(m.bytes)
<1>1. n \in Nat /\ m.cut /\ p > n
  BY DEF Out
<1> HIDE DEF n
<1>2. p2 > n
  BY <1>1
<1> QED
  BY <1>1, <1>2 DEF Out, n

\* objects that say the same, one of which may have been freed
Alike(x, y) ==
  x.type = y.type /\ x.value = y.value /\ x.text = y.text /\ x.class = y.class /\ x.parts = y.parts

LEMMA NodeStays ==
  ASSUME NEW m, NEW fs, NEW fs2, NEW h, NEW h2, NEW p, NEW p2, NEW x,
         NodeRead(m, fs, h, p, x), Alike(h2[x], h[x]),
         Out(m, p) => Out(m, p2),
         IsOpen(fs, x) => IsOpen(fs2, x), InChunks(fs2, x) <=> InChunks(fs, x),
         ~Out(m, p) \/ Len(h2) = Len(h)
  PROVE  NodeRead(m, fs2, h2, p2, x)
<1>1. h2[x].type = m.doc[x].type
  BY DEF NodeRead, Alike
<1>2. InChunks(fs2, x) => h2[x].value = m.doc[x].value /\ h2[x].class = m.doc[x].class
  BY DEF NodeRead, Alike
<1>3. NodeSays(m, h, p, x) => NodeSays(m, h2, p2, x)
  <2>1. SaysSame(h[x], m.doc[x]) => SaysSame(h2[x], m.doc[x])
    BY DEF Alike, SaysSame
  <2>2. Begun(h[x], m.doc[x]) => Begun(h2[x], m.doc[x])
    BY DEF Alike, Begun
  <2> QED
    BY <2>1, <2>2 DEF NodeSays
<1>4. HasParts(m, h, p, x) => HasParts(m, h2, p2, x)
  <2> SUFFICES ASSUME HasParts(m, h, p, x) PROVE HasParts(m, h2, p2, x)
    OBVIOUS
  <2>1. PICK c \in 0 .. Len(m.doc[x].parts) :
          /\ PartsAre(m, h, x, c)
          /\ c = Len(m.doc[x].parts) \/ (Out(m, p) /\ NextNode(m.doc, x, c) > Len(h))
    BY DEF HasParts
  <2>2. PartsAre(m, h2, x, c)
    BY <2>1 DEF PartsAre, Alike
  <2>3. c = Len(m.doc[x].parts) \/ (Out(m, p2) /\ NextNode(m.doc, x, c) > Len(h2))
    BY <2>1
  <2> QED
    BY <2>2, <2>3 DEF HasParts
<1> QED
  BY <1>1, <1>2, <1>3, <1>4 DEF NodeRead

LEMMA FrameStays ==
  ASSUME NEW m, NEW f, NEW h, NEW h2, NEW p, NEW p2, FrameRead(m, f, h, p),
         h2[f.obj].parts = h[f.obj].parts, Out(m, p) => Out(m, p2)
  PROVE  FrameRead(m, f, h2, p2)
BY DEF FrameRead, PartsAre

LEMMA AwaitsStays ==
  ASSUME NEW m, NEW fs, NEW fs2, NEW n, NEW o, n = 0 \/ fs2[n] = fs[n]
  PROVE  Awaits(m, fs2, n, o) <=> Awaits(m, fs, n, o)
BY DEF Awaits

\* The frames below the last one stay, those of a longer or shorter stack too.
LEMMA StackStays ==
  ASSUME NEW m, NEW fs, NEW fs2, NEW h, NEW h2, NEW p, NEW p2, StackRead(m, fs, h, p),
         Out(m, p) => Out(m, p2), Len(fs) \in Nat, NEW n \in Nat, n <= Len(fs),
         \A k \in 1 .. n : fs2[k] = fs[k] /\ h2[fs[k].obj].parts = h[fs[k].obj].parts
  PROVE  \A k \in 1 .. n : FrameRead(m, fs2[k], h2, p2) /\ Awaits(m, fs2, k - 1, fs2[k].obj)
<1> TAKE k \in 1 .. n
<1>1. k \in 1 .. Len(fs) /\ (k - 1 = 0 \/ k - 1 \in 1 .. n)
  OBVIOUS
<1>2. FrameRead(m, fs[k], h, p) /\ Awaits(m, fs, k - 1, fs[k].obj)
  BY <1>1 DEF StackRead
<1>3. FrameRead(m, fs[k], h2, p2)
  BY <1>2, FrameStays
<1>4. k - 1 = 0 \/ fs2[k - 1] = fs[k - 1]
  BY <1>1
<1> DEFINE j == k - 1
<1>5. Awaits(m, fs2, j, fs[k].obj)
  <2>1. Awaits(m, fs, j, fs[k].obj) /\ (j = 0 \/ fs2[j] = fs[j])
    BY <1>2, <1>4
  <2> HIDE DEF j
  <2> QED
    BY <2>1, AwaitsStays
<1> QED
  BY <1>3, <1>5

\* Where the nodes of a stack start, its last frame left out or changed.
LEMMA StartsBelow ==
  ASSUME NEW m, NEW fs, NEW q, StartsAt(m, fs, q), Len(fs) \in Nat, Len(fs) > 0
  PROVE  /\ q \in Nat /\ Lies(m, Written(m.doc, fs[Len(fs)].obj), q)
         /\ \A gs : Len(gs) = Len(fs) - 1 /\ Len(fs) > 1 /\ (\A k \in 1 .. Len(gs) : gs[k] = fs[k]) =>
              \E q1 : /\ StartsAt(m, gs, q1)
                      /\ q = q1 + Len(Ahead(m.doc, gs[Len(gs)].obj, Len(gs[Len(gs)].refs)))
<1>1. PICK st : /\ st[Len(fs)] = q
                /\ \A k \in 1 .. Len(fs) :
                     /\ st[k] \in Nat
                     /\ Lies(m, Written(m.doc, fs[k].obj), st[k])
                     /\ k > 1 => st[k] = st[k - 1] + Len(Ahead(m.doc, fs[k - 1].obj, Len(fs[k - 1].refs)))
  BY DEF StartsAt
<1>2. Len(fs) \in 1 .. Len(fs)
  OBVIOUS
<1>3. q \in Nat /\ Lies(m, Written(m.doc, fs[Len(fs)].obj), q)
  BY <1>1, <1>2
<1>4. ASSUME NEW gs, Len(gs) = Len(fs) - 1, Len(fs) > 1, \A k \in 1 .. Len(gs) : gs[k] = fs[k]
      PROVE  \E q1 : /\ StartsAt(m, gs, q1)
                     /\ q = q1 + Len(Ahead(m.doc, gs[Len(gs)].obj, Len(gs[Len(gs)].refs)))
  <2> DEFINE n == Len(gs)
  <2>1. n \in Nat /\ n >= 1 /\ Len(fs) = n + 1 /\ Len(fs) - 1 = n
    BY <1>4
  <2>2. \A k \in 1 .. n : k \in 1 .. Len(fs) /\ gs[k] = fs[k] /\ (k > 1 => k - 1 \in 1 .. n /\ gs[k - 1] = fs[k - 1])
    BY <1>4, <2>1
  <2>3. StartsAt(m, gs, st[n])
    <3> SUFFICES \A k \in 1 .. n :
                     /\ st[k] \in Nat
                     /\ Lies(m, Written(m.doc, gs[k].obj), st[k])
                     /\ k > 1 => st[k] = st[k - 1] + Len(Ahead(m.doc, gs[k - 1].obj, Len(gs[k - 1].refs)))
      BY DEF StartsAt
    <3> QED
      BY <1>1, <2>2
  <2>4. q = st[n] + Len(Ahead(m.doc, gs[n].obj, Len(gs[n].refs)))
    <3>1. st[Len(fs)] = st[Len(fs) - 1] + Len(Ahead(m.doc, fs[Len(fs) - 1].obj, Len(fs[Len(fs) - 1].refs)))
      BY <1>1, <1>2, <1>4
    <3>2. gs[n] = fs[n]
      BY <2>1, <2>2
    <3> QED
      BY <1>1, <2>1, <3>1, <3>2
  <2> QED
    BY <2>3, <2>4
<1> QED
  BY <1>3, <1>4

LEMMA StartsSame ==
  ASSUME NEW m, NEW fs, NEW gs, NEW q, StartsAt(m, fs, q), Len(fs) \in Nat, Len(fs) > 0, Len(gs) = Len(fs),
         gs[Len(fs)].obj = fs[Len(fs)].obj, \A k \in 1 .. Len(fs) : k # Len(fs) => gs[k] = fs[k]
  PROVE  StartsAt(m, gs, q)
<1>1. PICK st : /\ st[Len(fs)] = q
                /\ \A k \in 1 .. Len(fs) :
                     /\ st[k] \in Nat
                     /\ Lies(m, Written(m.doc, fs[k].obj), st[k])
                     /\ k > 1 => st[k] = st[k - 1] + Len(Ahead(m.doc, fs[k - 1].obj, Len(fs[k - 1].refs)))
  BY DEF StartsAt
<1>2. ASSUME NEW k \in 1 .. Len(gs)
      PROVE  /\ st[k] \in Nat
             /\ Lies(m, Written(m.doc, gs[k].obj), st[k])
             /\ k > 1 => st[k] = st[k - 1] + Len(Ahead(m.doc, gs[k - 1].obj, Len(gs[k - 1].refs)))
  <2>1. k \in 1 .. Len(fs) /\ gs[k].obj = fs[k].obj
    BY <1>2
  <2>2. k > 1 => gs[k - 1] = fs[k - 1]
    BY <1>2
  <2> QED
    BY <1>1, <2>1, <2>2
<1> QED
  BY <1>1, <1>2 DEF StartsAt

\* Where they start when one more is read.
LEMMA StartsAbove ==
  ASSUME NEW m, NEW fs, NEW gs, NEW p \in Nat, Len(fs) \in Nat, Len(gs) = Len(fs) + 1,
         \A k \in 1 .. Len(fs) : gs[k] = fs[k],
         Lies(m, Written(m.doc, gs[Len(gs)].obj), p),
         Len(fs) > 0 => \E q : /\ StartsAt(m, fs, q)
                               /\ p = q + Len(Ahead(m.doc, fs[Len(fs)].obj, Len(fs[Len(fs)].refs)))
  PROVE  StartsAt(m, gs, p)
<1>1. PICK st : \A k \in 1 .. Len(fs) :
                     /\ st[k] \in Nat
                     /\ Lies(m, Written(m.doc, fs[k].obj), st[k])
                     /\ k > 1 => st[k] = st[k - 1] + Len(Ahead(m.doc, fs[k - 1].obj, Len(fs[k - 1].refs)))
                     /\ k = Len(fs) => p = st[k] + Len(Ahead(m.doc, fs[k].obj, Len(fs[k].refs)))
  <2>1. CASE Len(fs) = 0
    BY <2>1
  <2>2. CASE Len(fs) > 0
    <3>1. PICK q : /\ StartsAt(m, fs, q)
                   /\ p = q + Len(Ahead(m.doc, fs[Len(fs)].obj, Len(fs[Len(fs)].refs)))
      BY <2>2
    <3>2. PICK st : /\ st[Len(fs)] = q
                /\ \A k \in 1 .. Len(fs) :
                     /\ st[k] \in Nat
                     /\ Lies(m, Written(m.doc, fs[k].obj), st[k])
                     /\ k > 1 => st[k] = st[k - 1] + Len(Ahead(m.doc, fs[k - 1].obj, Len(fs[k - 1].refs)))
      BY <3>1 DEF StartsAt
    <3> QED
      BY <3>1, <3>2
  <2> QED
    BY <2>1, <2>2
<1> DEFINE n == Len(gs)
           s2 == [k \in 1 .. n |-> IF k = n THEN p ELSE st[k]]
<1>2. n \in Nat /\ n = Len(fs) + 1 /\ s2[n] = p /\ \A k \in 1 .. Len(fs) : s2[k] = st[k] /\ k \in 1 .. n
  OBVIOUS
<1> HIDE DEF s2
<1>3. ASSUME NEW k \in 1 .. n
      PROVE  /\ s2[k] \in Nat
             /\ Lies(m, Written(m.doc, gs[k].obj), s2[k])
             /\ k > 1 => s2[k] = s2[k - 1] + Len(Ahead(m.doc, gs[k - 1].obj, Len(gs[k - 1].refs)))
  <2>1. CASE k = n
    <3>1. s2[k] \in Nat /\ Lies(m, Written(m.doc, gs[k].obj), s2[k])
      BY <1>2, <2>1
    <3>2. ASSUME k > 1 PROVE s2[k] = s2[k - 1] + Len(Ahead(m.doc, gs[k - 1].obj, Len(gs[k - 1].refs)))
      <4>1. k - 1 = Len(fs) /\ k - 1 \in 1 .. Len(fs)
        BY <1>2, <2>1, <3>2
      <4> DEFINE j == k - 1
      <4>2. j = Len(fs) /\ j \in 1 .. Len(fs)
        BY <4>1
      <4> HIDE DEF j
      <4>3. p = st[j] + Len(Ahead(m.doc, fs[j].obj, Len(fs[j].refs))) /\ s2[j] = st[j] /\ gs[j] = fs[j]
        BY <1>1, <1>2, <4>2
      <4>4. s2[k] = s2[j] + Len(Ahead(m.doc, gs[j].obj, Len(gs[j].refs)))
        BY <1>2, <2>1, <4>3
      <4> QED
        BY <4>4 DEF j
    <3> QED
      BY <3>1, <3>2
  <2>2. CASE k # n
    <3>1. k \in 1 .. Len(fs)
      BY <1>2, <2>2
    <3>2. s2[k] \in Nat /\ Lies(m, Written(m.doc, gs[k].obj), s2[k])
      BY <1>1, <1>2, <3>1
    <3>3. ASSUME k > 1 PROVE s2[k] = s2[k - 1] + Len(Ahead(m.doc, gs[k - 1].obj, Len(gs[k - 1].refs)))
      <4>1. k - 1 \in 1 .. Len(fs)
        BY <3>1, <3>3
      <4>2. st[k] = st[k - 1] + Len(Ahead(m.doc, fs[k - 1].obj, Len(fs[k - 1].refs)))
        BY <1>1, <3>1, <3>3
      <4> QED
        BY <1>2, <3>1, <4>1, <4>2
    <3> QED
      BY <3>2, <3>3
  <2> QED
    BY <2>1, <2>2
<1> QED
  BY <1>2, <1>3 DEF StartsAt

-----------------------------------------------------------------------------
(* A node that is complete is returned to whoever waits for it.            *)

SameObjects(gs, fs) ==
  Len(gs) = Len(fs) /\ \A k \in 1 .. Len(fs) : gs[k].obj = fs[k].obj /\ (gs[k].step = "chunks" <=> fs[k].step = "chunks")

LEMMA OpenSame ==
  ASSUME NEW gs, NEW fs, SameObjects(gs, fs), NEW x
  PROVE  (IsOpen(gs, x) <=> IsOpen(fs, x)) /\ (InChunks(gs, x) <=> InChunks(fs, x))
BY DEF SameObjects, IsOpen, InChunks

\* the last frame of stack cs, or none, waits for node o, of which all was read
Completed(m, cs, h, p, o) ==
  /\ m.doc \in Answers /\ p \in Nat /\ Len(m.bytes) \in Nat
  /\ Len(h) \in Nat /\ IsStack(cs, Len(h)) /\ Len(h) <= Len(m.doc)
  /\ StackRead(m, cs, h, p) /\ Awaits(m, cs, Len(cs), o)
  /\ \A x \in 1 .. Len(h) : NodeRead(m, cs, h, p, x)
  /\ o \in 1 .. Len(h) /\ LastOf(m.doc, o) >= Len(h)
  /\ ~Out(m, p) => /\ Len(h) = LastOf(m.doc, o)
                   /\ Len(cs) > 0 =>
                        \E q : /\ StartsAt(m, cs, q)
                               /\ p = q + Len(Ahead(m.doc, cs[Len(cs)].obj, Len(cs[Len(cs)].refs)))
                                        + Len(Written(m.doc, o))

\* The stack gs is cs, with o for the last part that its last frame has read.
Takes(gs, cs, o) ==
  /\ SameObjects(gs, cs) /\ Len(cs) > 0
  /\ \A k \in 1 .. Len(cs) : k # Len(cs) => gs[k] = cs[k]
  /\ gs[Len(cs)].step = cs[Len(cs)].step /\ gs[Len(cs)].refs = Append(cs[Len(cs)].refs, o)

LEMMA AllDelivered ==
  ASSUME NEW m, NEW cs, NEW h, NEW p, NEW o, Completed(m, cs, h, p, o), Len(cs) = 0, cs = <<>>
  PROVE  MessageRead(m, cs, h, p, "done", o)
<1>1. /\ m.doc \in Answers /\ Len(h) \in Nat /\ Len(h) <= Len(m.doc)
      /\ StackRead(m, cs, h, p) /\ \A x \in 1 .. Len(h) : NodeRead(m, cs, h, p, x)
      /\ o = 1 /\ o \in 1 .. Len(h) /\ (~Out(m, p) => Len(h) = LastOf(m.doc, o))
  BY DEF Completed, Awaits
<1>2. LastOf(m.doc, 1) = Len(m.doc)
  BY <1>1, DocumentIs DEF IsDocument
<1>3. AllRead(m, cs, h, p)
  BY <1>1 DEF AllRead, PlaceRead
<1>4. Finished(m, h, p, o)
  <2>1. h # <<>>
    BY <1>1
  <2> QED
    BY <1>1, <1>2, <2>1 DEF Finished
<1> QED
  BY <1>3, <1>4 DEF MessageRead

LEMMA PartsFrame ==
  ASSUME NEW m, NEW f, NEW h, NEW p, FrameRead(m, f, h, p), NEW n \in Nat, IsFrame(f, n)
  PROVE  /\ Len(f.refs) \in Nat /\ f.refs \in Seq(f.obj + 1 .. n) /\ f.obj \in 1 .. Len(m.doc) /\ f.obj \in 1 .. n
         /\ f.step \in {"chunks", "end"} <=> m.doc[f.obj].type \in Texts
         /\ f.step # "moving" => /\ h[f.obj].parts = <<>>
                                 /\ \A k \in 1 .. Len(f.refs) : f.refs[k] = m.doc[f.obj].parts[k]
<1>1. f.refs \in Seq(f.obj + 1 .. n) /\ f.obj \in 1 .. n
  BY DEF IsFrame
<1>2. Len(f.refs) \in Nat
  BY <1>1
<1> QED
  BY <1>1, <1>2 DEF FrameRead

LEMMA PartsReads ==
  ASSUME NEW m, NEW f, NEW h, NEW p, NEW o, f.obj = o, o \in 1 .. Len(m.doc), NEW r, Len(f.refs) = r,
         r <= Len(m.doc[o].parts), f.step = "parts", m.doc[o].type \notin Texts, h[o].parts = <<>>,
         \A k \in 1 .. r : f.refs[k] = m.doc[o].parts[k]
  PROVE  FrameRead(m, f, h, p)
BY DEF FrameRead

LEMMA PartDelivered ==
  ASSUME NEW m, NEW cs, NEW h, NEW p, NEW o, Completed(m, cs, h, p, o), Len(cs) > 0,
         NEW gs, Takes(gs, cs, o), gs # <<>>, NEW r
  PROVE  MessageRead(m, gs, h, p, "reading", r)
<1> DEFINE n == Len(cs)
           f == cs[n]
           g == gs[n]
           d == m.doc
           ps == d[f.obj].parts
           c == Len(f.refs)
<1>0. n = Len(cs) /\ f = cs[n] /\ g = gs[n] /\ d = m.doc /\ ps = d[f.obj].parts /\ c = Len(f.refs)
  OBVIOUS
<1>1. /\ d \in Answers /\ p \in Nat /\ Len(m.bytes) \in Nat
      /\ Len(h) \in Nat /\ IsStack(cs, Len(h)) /\ Len(h) <= Len(d)
      /\ StackRead(m, cs, h, p) /\ Awaits(m, cs, n, o)
      /\ \A x \in 1 .. Len(h) : NodeRead(m, cs, h, p, x)
      /\ o \in 1 .. Len(h) /\ LastOf(d, o) >= Len(h)
      /\ ~Out(m, p) => /\ Len(h) = LastOf(d, o)
                       /\ \E q : /\ StartsAt(m, cs, q)
                                 /\ p = q + Len(Ahead(d, f.obj, c)) + Len(Written(d, o))
  BY DEF Completed
<1>2. n \in Nat /\ n \in 1 .. n /\ n # 0
  BY <1>1, StackIs
<1>3. FrameRead(m, f, h, p) /\ f.step = "parts" /\ c < Len(ps) /\ o = ps[c + 1]
  BY <1>1, <1>2 DEF StackRead, Awaits
<1>4. IsFrame(f, Len(h))
  BY <1>1, <1>2 DEF IsStack
<1>5. c \in Nat /\ f.refs \in Seq(f.obj + 1 .. Len(h)) /\ f.obj \in 1 .. Len(d)
      /\ \A k \in 1 .. c : f.refs[k] = ps[k]
  <2> HIDE DEF f
  <2> QED
    BY <1>1, <1>3, <1>4, PartsFrame
<1>6. /\ SameObjects(gs, cs) /\ (\A k \in 1 .. n : k # n => gs[k] = cs[k])
      /\ g.step = f.step /\ g.refs = Append(f.refs, o) /\ g.obj = f.obj
  BY <1>2 DEF Takes, SameObjects
<1>7. /\ Len(g.refs) = c + 1
      /\ \A k \in 1 .. c : g.refs[k] = f.refs[k]
      /\ g.refs[c + 1] = o
  BY <1>5, <1>6
<1> HIDE DEF n, f, g, d, ps, c
<1>8. Len(ps) \in Nat /\ c + 1 \in 1 .. Len(ps) /\ c \in 0 .. Len(ps)
  <2>1. Len(ps) \in Nat
    BY <1>0, <1>1, <1>5, NextIs
  <2> QED
    BY <1>3, <1>5, <2>1
<1>9. FrameRead(m, g, h, p)
  <2>1. \A k \in 1 .. c + 1 : g.refs[k] = ps[k]
    <3> TAKE k \in 1 .. c + 1
    <3>1. CASE k = c + 1
      BY <1>3, <1>7, <3>1
    <3>2. CASE k \in 1 .. c
      BY <1>5, <1>7, <3>2
    <3> QED
      BY <1>5, <3>1, <3>2
  <2>2. h[f.obj].parts = <<>> /\ (d[f.obj].type \notin Texts)
    BY <1>0, <1>3 DEF FrameRead
  <2>3. c + 1 <= Len(ps)
    BY <1>8
  <2> DEFINE x == f.obj
             j == c + 1
  <2>4. g.obj = x /\ x \in 1 .. Len(m.doc) /\ Len(g.refs) = j /\ j <= Len(m.doc[x].parts) /\ g.step = "parts"
        /\ m.doc[x].type \notin Texts /\ h[x].parts = <<>>
        /\ \A k \in 1 .. j : g.refs[k] = m.doc[x].parts[k]
    BY <1>0, <1>3, <1>5, <1>6, <1>7, <2>1, <2>2, <2>3
  <2> HIDE DEF x, j
  <2> QED
    BY <2>4, PartsReads, SMTT(30)
<1>10. StackRead(m, gs, h, p)
  <2>1. n - 1 \in Nat /\ n - 1 <= n /\ \A k \in 1 .. n - 1 : k \in 1 .. n /\ k # n
    BY <1>2
  <2> DEFINE j == n - 1
  <2>2. \A k \in 1 .. j : FrameRead(m, gs[k], h, p) /\ Awaits(m, gs, k - 1, gs[k].obj)
    <3>1. j \in Nat /\ j <= Len(cs) /\ Len(cs) \in Nat
      BY <1>0, <1>2, <2>1
    <3>2. \A k \in 1 .. j : gs[k] = cs[k] /\ h[cs[k].obj].parts = h[cs[k].obj].parts
      BY <1>6, <2>1
    <3> HIDE DEF j
    <3> QED
      BY <1>1, <3>1, <3>2, StackStays
  <2>3. Awaits(m, gs, j, g.obj)
    <3>1. Awaits(m, cs, j, f.obj)
      BY <1>0, <1>1, <1>2 DEF StackRead
    <3>2. j = 0 \/ gs[j] = cs[j]
      <4>1. j = 0 \/ (j \in 1 .. n /\ j # n)
        BY <1>2, <2>1
      <4> QED
        BY <1>6, <2>1, <4>1
    <3> HIDE DEF j
    <3> QED
      BY <1>6, <3>1, <3>2, AwaitsStays
  <2>4. \A k \in 1 .. n : k = n \/ k \in 1 .. j
    BY <1>2
  <2>5. Len(gs) = n
    BY <1>0, <1>6 DEF SameObjects
  <2>6. ASSUME NEW k \in 1 .. Len(gs) PROVE FrameRead(m, gs[k], h, p) /\ Awaits(m, gs, k - 1, gs[k].obj)
    BY <1>0, <1>9, <2>2, <2>3, <2>4, <2>5
  <2> QED
    BY <2>6 DEF StackRead
<1>11. ASSUME NEW x \in 1 .. Len(h) PROVE NodeRead(m, gs, h, p, x)
  <2>1. (IsOpen(gs, x) <=> IsOpen(cs, x)) /\ (InChunks(gs, x) <=> InChunks(cs, x))
    BY <1>6, OpenSame
  <2>2. NodeRead(m, cs, h, p, x) /\ Alike(h[x], h[x])
    BY <1>1, <1>11 DEF Alike
  <2> QED
    BY <2>1, <2>2, NodeStays
<1>12. PlaceRead(m, gs, h, p)
  <2>1. NextNode(d, f.obj, c + 1) = LastOf(d, o) + 1 /\ LastOf(d, o) \in Nat
    <3>1. NextNode(d, f.obj, c + 1) = LastOf(d, ps[c + 1]) + 1
      <4> DEFINE k == c + 1
      <4>1. k \in 1 .. Len(ps)
        BY <1>8
      <4> HIDE DEF k
      <4>2. NextNode(d, f.obj, k) = LastOf(d, ps[k]) + 1
        BY <1>0, <1>1, <1>5, <4>1, NextIs
      <4> QED
        BY <4>2 DEF k
    <3>2. o \in 1 .. Len(d)
      BY <1>0, <1>1, <1>5, <1>8, <1>3, PartIs
    <3>3. LastOf(d, o) \in o .. Len(d)
      BY <1>1, <3>2, LastIn
    <3> QED
      BY <1>3, <3>1, <3>2, <3>3
  <2>2. NextNode(d, f.obj, c + 1) > Len(h)
    BY <1>1, <2>1
  <2>3. ASSUME ~Out(m, p)
        PROVE  /\ NextNode(d, f.obj, c + 1) = Len(h) + 1
               /\ \E q : StartsAt(m, gs, q) /\ InPlace(m, g, h, q, p)
    <3>1. PICK q : StartsAt(m, cs, q) /\ p = q + Len(Ahead(d, f.obj, c)) + Len(Written(d, o))
      BY <1>1, <2>3
    <3>2. StartsAt(m, gs, q)
      <4>1. Len(gs) = n /\ n > 0
        BY <1>0, <1>2, <1>6 DEF SameObjects
      <4> QED
        BY <1>0, <1>2, <1>6, <3>1, <4>1, StartsSame
    <3>3. q \in Nat
      BY <1>0, <1>2, <3>1, StartsBelow
    <3>4. d[f.obj].type \in {"list", "map"}
      <4>1. ps # <<>>
        BY <1>8
      <4>2. IsNode(d[f.obj], f.obj + 1 .. Len(d))
        BY <1>1, <1>5, DocumentIs
      <4> QED
        BY <1>0, <4>1, <4>2, NodeIs
    <3>5. Len(Ahead(d, f.obj, c + 1)) = Len(Ahead(d, f.obj, c)) + Len(Written(d, o))
          /\ Len(Ahead(d, f.obj, c)) \in Nat
      <4> DEFINE k == c + 1
      <4>1. Len(Ahead(d, f.obj, k)) = Len(Ahead(d, f.obj, k - 1)) + Len(Written(d, ps[k]))
        <5>1. k \in 1 .. Len(ps)
          BY <1>8
        <5> HIDE DEF k
        <5> QED
          BY <1>0, <1>1, <1>5, <3>4, <5>1, AheadIs
      <4>2. k - 1 = c /\ k = c + 1
        BY <1>5
      <4> HIDE DEF k
      <4>3. Len(Ahead(d, f.obj, c)) \in Nat
        BY <1>0, <1>1, <1>5, <1>8, <3>4, AheadIs
      <4> QED
        BY <1>3, <4>1, <4>2, <4>3
    <3>6. p = q + Len(Ahead(d, f.obj, c + 1))
      <4> DEFINE a == Len(Ahead(d, f.obj, c))
                 b == Len(Ahead(d, f.obj, c + 1))
                 w == Len(Written(d, o))
      <4>1. b = a + w /\ p = q + a + w /\ a \in Nat /\ q \in Nat /\ w \in Nat
        <5>1. o \in 1 .. Len(d)
          BY <1>1
        <5> QED
          BY <1>1, <3>1, <3>3, <3>5, <5>1, WrittenTyped
      <4> HIDE DEF a, b, w
      <4>2. p = q + b
        BY <4>1
      <4> QED
        BY <4>2 DEF b
    <3>7. InPlace(m, g, h, q, p)
      BY <1>0, <1>3, <1>6, <1>7, <3>6 DEF InPlace
    <3> QED
      BY <1>1, <2>1, <2>3, <3>2, <3>7
  <2>4. Len(gs) = n
    BY <1>0, <1>6 DEF SameObjects
  <2> QED
    BY <1>0, <1>6, <1>7, <2>2, <2>3, <2>4 DEF PlaceRead
<1>13. AllRead(m, gs, h, p)
  BY <1>0, <1>1, <1>10, <1>11, <1>12 DEF AllRead
<1> QED
  BY <1>13 DEF MessageRead

-----------------------------------------------------------------------------
(* Where the reading is.                                                   *)

\* reading, of a message whose nodes so far were read
Reading ==
  /\ message \in Answers /\ input \in Seq(Byte) /\ Len(input) \in Nat /\ pos \in 1 .. Len(input) + 1
  /\ IsHeap(heap) /\ IsStack(frames, Len(heap)) /\ Len(heap) \in Nat /\ Len(frames) \in Nat
  /\ Fair /\ MessageRead(Came, frames, heap, pos, "reading", result)

LEMMA ReadingSo ==
  ASSUME DInv, RInv, misuse = "none", mode = "reading", Fair
  PROVE  Reading
<1>1. IsHeap(heap) /\ IsStack(frames, Len(heap)) /\ Len(heap) \in Nat
  BY ReadingIs
<1>2. message \in Answers /\ input \in Seq(Byte)
      /\ SoFar
  BY DEF RInv
<1>5. pos \in 1 .. Len(input) + 1 /\ MessageRead(Came, frames, heap, pos, "reading", result)
  BY <1>2 DEF SoFar
<1>3. Len(frames) \in Nat
  BY <1>1, StackIs
<1>4. Len(input) \in Nat
  BY <1>2
<1> QED
  BY <1>1, <1>2, <1>3, <1>4, <1>5 DEF Reading

LEMMA ReadingHas ==
  ASSUME Reading
  PROVE  /\ Len(heap) <= Len(message) /\ StackRead(Came, frames, heap, pos)
         /\ \A x \in 1 .. Len(heap) : NodeRead(Came, frames, heap, pos, x)
         /\ PlaceRead(Came, frames, heap, pos)
         /\ frames = <<>> => NothingYet(Came, heap, pos)
         /\ pos \in Nat /\ pos >= 1
BY CameIs DEF Reading, MessageRead, AllRead

\* the innermost frame
LEMMA ReadingTop ==
  ASSUME Reading, frames # <<>>
  PROVE  /\ Len(frames) \in 1 .. Len(frames) /\ IsFrame(Top, Len(heap))
         /\ Top.obj \in 1 .. Len(heap) /\ Top.obj \in 1 .. Len(message) /\ Top.obj \in Nat
         /\ FrameRead(Came, Top, heap, pos) /\ Awaits(Came, frames, Len(frames) - 1, Top.obj)
         /\ Len(Top.refs) \in 0 .. Len(message[Top.obj].parts) /\ Len(message[Top.obj].parts) \in Nat
         /\ Len(Top.refs) \in Nat
         /\ TypeOfTop = message[Top.obj].type
         /\ IsNode(message[Top.obj], Top.obj + 1 .. Len(message))
         /\ \/ Out(Came, pos)
            \/ /\ NextNode(message, Top.obj, Len(Top.refs)) = Len(heap) + 1
               /\ \E q : StartsAt(Came, frames, q) /\ InPlace(Came, Top, heap, q, pos)
         /\ NextNode(message, Top.obj, Len(Top.refs)) > Len(heap)
<1>0. message \in Answers /\ IsStack(frames, Len(heap)) /\ Len(heap) \in Nat
  BY DEF Reading
<1>1. Len(frames) \in 1 .. Len(frames)
  BY <1>0, TopIs
<1>2. IsFrame(Top, Len(heap)) /\ FrameRead(Came, Top, heap, pos) /\ Awaits(Came, frames, Len(frames) - 1, Top.obj)
  BY <1>0, <1>1, ReadingHas DEF Top, StackRead, IsStack
<1>3. /\ Top.obj \in 1 .. Len(heap) /\ Top.obj \in 1 .. Len(message) /\ Len(Top.refs) \in Nat
  BY <1>0, <1>2, PartsFrame, CameIs
<1>4. Len(message[Top.obj].parts) \in Nat
  BY <1>0, <1>3, NextIs
<1>5. Len(Top.refs) <= Len(message[Top.obj].parts)
  BY <1>2, CameIs DEF FrameRead
<1>6. TypeOfTop = message[Top.obj].type
  BY <1>3, ReadingHas, CameIs DEF TypeOfTop, NodeRead
<1>7. IsNode(message[Top.obj], Top.obj + 1 .. Len(message))
  BY <1>0, <1>3, DocumentIs
<1>8. /\ NextNode(message, Top.obj, Len(Top.refs)) > Len(heap)
      /\ \/ Out(Came, pos)
         \/ /\ NextNode(message, Top.obj, Len(Top.refs)) = Len(heap) + 1
            /\ \E q : StartsAt(Came, frames, q) /\ InPlace(Came, Top, heap, q, pos)
  BY ReadingHas, CameIs DEF PlaceRead, Top
<1>9. Len(Top.refs) \in 0 .. Len(message[Top.obj].parts)
  BY <1>3, <1>4, <1>5
<1>10. Top.obj \in Nat
  BY <1>3
<1> QED
  BY <1>1, <1>2, <1>3, <1>4, <1>6, <1>7, <1>8, <1>9, <1>10

\* the next node starts here
NodeStarts ==
  /\ NewId \in 1 .. Len(message) /\ Awaits(Came, frames, Len(frames), NewId)
  /\ Lies(Came, Written(message, NewId), pos)
  /\ pos <= Len(input) /\ ByteAt(pos) = input[pos] /\ input[pos] # 122
  /\ TypesOf(input[pos]) = {message[NewId].type}
  /\ Len(frames) > 0 =>
       \E q : /\ StartsAt(Came, frames, q)
              /\ pos = q + Len(Ahead(message, Top.obj, Len(Top.refs)))

\* the innermost list or map ends here
ListEnds ==
  /\ frames # <<>> /\ Len(Top.refs) = Len(message[Top.obj].parts)
  /\ pos <= Len(input) /\ ByteAt(pos) = 122
  /\ \E q : /\ StartsAt(Came, frames, q)
            /\ pos = q + Len(Ahead(message, Top.obj, Len(Top.refs)))

\* One of them, or the message was cut here.
LEMMA TagIs ==
  ASSUME Reading, ReadsTag
  PROVE  Out(Came, pos) \/ NodeStarts \/ ListEnds
<1> SUFFICES ASSUME ~Out(Came, pos) PROVE NodeStarts \/ ListEnds
  OBVIOUS
<1>1. message \in Answers /\ Len(input) \in Nat /\ pos \in Nat /\ pos >= 1
      /\ IsStack(frames, Len(heap)) /\ Len(heap) \in Nat
  BY ReadingHas DEF Reading
<1>2. ASSUME NewId \in 1 .. Len(message), Lies(Came, Written(message, NewId), pos)
      PROVE  /\ pos <= Len(input) /\ ByteAt(pos) = input[pos] /\ input[pos] # 122
             /\ TypesOf(input[pos]) = {message[NewId].type}
  <2> DEFINE d == message
             o == NewId
             p == pos
  <2>1. d \in Answers /\ o \in 1 .. Len(d) /\ p \in Nat /\ p >= 1 /\ Lies(Came, Written(d, o), p) /\ ~Out(Came, p)
    BY <1>1, <1>2
  <2> HIDE DEF d, o, p
  <2>2. p <= Len(input) /\ ByteAt(p) = input[p] /\ TypesOf(input[p]) = {d[o].type} /\ input[p] # 122
       /\ input[p] \in Byte /\ Lies(Came, <<input[p]>>, p)
    BY <1>1, <2>1, FirstByte
  <2> QED
    BY <2>2, Zenon DEF d, o, p
<1>3. CASE frames = <<>>
  <2>1. heap = <<>> /\ pos = 1 /\ Lies(Came, Written(message, 1), 1)
    BY <1>3, ReadingHas, CameIs DEF NothingYet, Serialized
  <2>2. NewId = 1
    BY <2>1 DEF NewId
  <2>3. Len(frames) = 0
    BY <1>3
  <2>4. 1 \in 1 .. Len(message)
    BY <1>1, DocumentIs
  <2>5. Awaits(Came, frames, Len(frames), NewId)
    BY <2>2, <2>3 DEF Awaits
  <2>6. NewId \in 1 .. Len(message) /\ Lies(Came, Written(message, NewId), pos)
    BY <2>1, <2>2, <2>4
  <2> QED
    BY <1>2, <2>3, <2>5, <2>6 DEF NodeStarts
<1>4. CASE frames # <<>>
  <2> DEFINE o == Top.obj
             c == Len(Top.refs)
             ps == message[o].parts
  <2>1. Top.step = "parts" /\ TypeOfTop \in {"list", "map"}
    BY <1>4 DEF ReadsTag, Containers
  <2>2. /\ o \in 1 .. Len(message) /\ c \in 0 .. Len(ps) /\ Len(ps) \in Nat /\ Len(frames) \in 1 .. Len(frames)
        /\ message[o].type \in {"list", "map"} /\ NextNode(message, o, c) = Len(heap) + 1
        /\ \E q : StartsAt(Came, frames, q) /\ InPlace(Came, Top, heap, q, pos)
    BY <1>4, <2>1, ReadingTop
  <2>3. PICK q : StartsAt(Came, frames, q) /\ pos = q + Len(Ahead(message, o, c))
    BY <2>1, <2>2, CameIs DEF InPlace
  <2>4. q \in Nat /\ Lies(Came, Written(message, o), q)
    BY <2>2, <2>3, StartsBelow, CameIs DEF Top
  <2>5. /\ \A k \in 1 .. Len(ps) : Lies(Came, Written(message, ps[k]), q + Len(Ahead(message, o, k - 1)))
        /\ Lies(Came, << 122 >>, q + Len(Ahead(message, o, Len(ps))))
    BY <1>1, <2>2, <2>4, AheadIs
  <2>6. CASE c = Len(ps)
    <3>1. Lies(Came, << 122 >>, pos)
      BY <2>3, <2>5, <2>6
    <3>2. pos <= Len(input) /\ ByteAt(pos) = 122
      BY <1>1, <3>1, EndByte
    <3> QED
      BY <1>4, <2>3, <2>6, <3>2 DEF ListEnds
  <2>7. CASE c < Len(ps)
    <3> DEFINE k == c + 1
    <3>1. k \in 1 .. Len(ps) /\ k - 1 = c
      BY <2>2, <2>7
    <3> HIDE DEF k
    <3>2. ps[k] = NextNode(message, o, c) /\ ps[k] \in 1 .. Len(message)
      <4>1. ps[k] = NextNode(message, o, k - 1)
        BY <1>1, <2>2, <3>1, NextIs
      <4>2. ps[k] \in 1 .. Len(message)
        BY <1>1, <2>2, <3>1, PartIs
      <4> QED
        BY <3>1, <4>1, <4>2
    <3>3. NewId = ps[k]
      BY <2>2, <3>2 DEF NewId
    <3>4. Lies(Came, Written(message, ps[k]), pos)
      BY <2>3, <2>5, <3>1
    <3>5. Awaits(Came, frames, Len(frames), NewId)
      BY <2>1, <2>2, <2>7, <3>3, CameIs DEF Awaits, Top, k
    <3>6. NewId \in 1 .. Len(message) /\ Lies(Came, Written(message, NewId), pos)
      BY <3>2, <3>3, <3>4
    <3> QED
      BY <1>2, <2>3, <3>5, <3>6 DEF NodeStarts
  <2> QED
    BY <2>2, <2>6, <2>7
<1> QED
  BY <1>3, <1>4

\* The end of a map is the end of its pairs.
LEMMA EndIsEnd ==
  ASSUME Reading, ReadsTag, ListEnds
  PROVE  AtEnd
<1>1. frames # <<>> /\ ByteAt(pos) = ChunkTag("list") /\ Len(Top.refs) = Len(message[Top.obj].parts)
  BY TypesOfTags DEF ListEnds
<1>2. IsNode(message[Top.obj], Top.obj + 1 .. Len(message)) /\ TypeOfTop = message[Top.obj].type
  BY <1>1, ReadingTop
<1>3. TypeOfTop = "map" => Len(message[Top.obj].parts) % 2 = 0
  BY <1>2, NodeIs
<1>4. ~AwaitsValue
  <2>1. TypeOfTop = "map" => Len(Top.refs) % 2 = 0
    BY <1>1, <1>3
  <2>2. InsideMap => TypeOfTop = "map"
    BY DEF InsideMap
  <2>3. Len(Top.refs) % 2 = 0 => Len(Top.refs) % 2 # 1
    <3> DEFINE c == Len(Top.refs) % 2
    <3> HIDE DEF c
    <3>1. c = 0 => c # 1
      OBVIOUS
    <3> QED
      BY <3>1 DEF c
  <2> QED
    BY <2>1, <2>2, <2>3, Zenon DEF AwaitsValue
<1> QED
  BY <1>1, <1>4 DEF AtEnd

\* What is read as a node is the next one of the message.
LEMMA NodeIsNext ==
  ASSUME Reading, NEW type, Reads(type)
  PROVE  NodeStarts /\ message[NewId].type = type /\ ~Out(Came, pos) /\ ReadsTag /\ ~AtEnd
<1>1. ReadsTag /\ ~AtEnd /\ type \in TypesOf(ByteAt(pos))
  BY DEF Reads
<1>2. ~Out(Came, pos)
  <2>1. pos \in Nat
    BY ReadingHas
  <2> QED
    BY <1>1, <2>1, NoByte
<1>3. NodeStarts
  BY <1>1, <1>2, TagIs, EndIsEnd
<1>4. message[NewId].type = type
  BY <1>1, <1>3 DEF NodeStarts
<1> QED
  BY <1>1, <1>2, <1>3, <1>4

LEMMA EndIsNext ==
  ASSUME Reading, ReadsTag, AtEnd, ~Out(Came, pos)
  PROVE  ListEnds
<1>1. ByteAt(pos) \in {122, EOF}
  BY TypesOfTags DEF AtEnd
<1>2. ~NodeStarts
  <2> SUFFICES ASSUME NodeStarts PROVE FALSE
    OBVIOUS
  <2>1. ByteAt(pos) = EOF /\ TypesOf(ByteAt(pos)) # {}
    BY <1>1 DEF NodeStarts
  <2> QED
    BY <2>1, TypesOfTags
<1> QED
  BY <1>2, TagIs

\* A tag is refused where the message was cut, or without memory.
LEMMA TagIsRead ==
  ASSUME Reading, ReadsTag, ~AtEnd, TypesOf(ByteAt(pos)) = {}
  PROVE  cut
<1>1. ~NodeStarts
  BY DEF NodeStarts
<1>2. Out(Came, pos)
  BY <1>1, TagIs, EndIsEnd
<1> QED
  BY <1>2, CameIs DEF Out

-----------------------------------------------------------------------------
(* What a step has to do with what was read.                               *)

LEMMA SameMessage ==
  ASSUME UNCHANGED wire
  PROVE  Came' = Came /\ message' = message /\ cut' = cut /\ input' = input
BY DEF wire, Came

LEMMA FairBefore ==
  ASSUME UNCHANGED wire, short => short', Fair'
  PROVE  Fair
<1>1. message' = message /\ cut' = cut
  BY SameMessage
<1>2. Readable(message)' /\ RefsAreSound(message)' /\ (cut' => ~HasRefs(message)') /\ ~short'
  BY Zenon DEF Fair
<1>3. Readable(message)
  BY <1>1, <1>2, Zenon DEF Readable
<1>6. RefsAreSound(message)
  BY <1>1, <1>2, ZenonT(40) DEF RefsAreSound, Names, IsReplaced
<1>4. cut => ~HasRefs(message)
  BY <1>1, <1>2 DEF HasRefs
<1>5. ~short
  BY <1>2
<1> QED
  BY <1>3, <1>4, <1>5, <1>6 DEF Fair

LEMMA StepReads ==
  ASSUME RInv, mode # "idle", UNCHANGED wire, short => short',
         Fair /\ Fair' => SoFar'
  PROVE  RInv'
<1>1. message \in Answers /\ input \in Seq(Byte)
  BY DEF RInv
<1>2. message' = message /\ input' = input
  BY SameMessage
<1>3. Fair' => SoFar'
  BY FairBefore
<1> QED
  BY <1>1, <1>2, <1>3 DEF RInv

\* A step that ends the reading has its reason.
LEMMA FailsSo ==
  ASSUME UNCHANGED wire, ~loose', mode' \notin {"reading", "done"} \/ misuse' # "none",
         short' \/ cut \/ (mode' \notin {"failing", "failed", "hung"} /\ misuse' # "null text")
  PROVE  SoFar'
BY SameMessage DEF SoFar

\* Nothing is loose before a step.
LEMMA NotLoose == ASSUME RInv, mode # "idle", Fair PROVE ~loose
BY DEF RInv, SoFar

LEMMA DeliverReads ==
  ASSUME NEW cs, NEW o, NEW wanting, Deliver(o, cs, wanting), Completed(Came, cs, heap', pos', o),
         UNCHANGED wire, UNCHANGED <<misuse, loose>>, misuse = "none", ~loose, mode = "reading",
         ~short /\ ~cut => ~wanting, pos' \in 1 .. Len(input) + 1
  PROVE  SoFar'
<1>1. Came' = Came /\ cut' = cut /\ input' = input /\ ~loose' /\ misuse' = "none"
  BY SameMessage
<1>0. IsStack(cs, Len(heap')) /\ Len(heap') \in Nat
  BY DEF Completed
<1>2. Len(cs) \in Nat /\ (cs = <<>> <=> Len(cs) = 0)
  BY <1>0, StackIs
<1>3. CASE cs = <<>>
  <2>1. mode' = "done" /\ result' = o /\ frames' = cs
    BY <1>3 DEF Deliver
  <2>2. MessageRead(Came, cs, heap', pos', "done", o)
    BY <1>2, <1>3, AllDelivered
  <2> QED
    BY <1>1, <2>1, <2>2 DEF SoFar
<1>4. CASE cs # <<>>
  <2>1. /\ frames' = [cs EXCEPT ![Len(cs)].refs = Append(@, o)]
        /\ mode' = "reading" \/ (mode' = "failing" /\ short')
    BY <1>4 DEF Deliver
  <2>2. Len(cs) > 0 /\ Len(cs) \in 1 .. Len(cs)
    BY <1>2, <1>4
  <2>3. PICK D : cs \in Seq(D)
    BY <1>0 DEF IsStack
  <2> DEFINE n == Len(cs)
             f == cs[n]
             g == [f EXCEPT !.refs = Append(f.refs, o)]
  <2>4. IsFrameRecord(f)
    BY <1>0, <2>2 DEF IsStack, IsFrame
  <2>5. g.obj = f.obj /\ g.step = f.step /\ g.refs = Append(f.refs, o)
    <3> HIDE DEF f
    <3> QED
      BY <2>4, RefsChange
  <2>6. frames' = [cs EXCEPT ![n] = g]
    BY <2>1, <2>2, <2>3
  <2> HIDE DEF f, g
  <2>7. /\ Len(frames') = n /\ frames' # <<>> /\ frames'[n] = g
        /\ \A k \in 1 .. n : k # n => frames'[k] = cs[k]
    BY <1>2, <2>2, <2>3, <2>6
  <2>8. Takes(frames', cs, o)
    <3>1. SameObjects(frames', cs)
      BY <2>2, <2>5, <2>7 DEF SameObjects, f
    <3> QED
      BY <2>2, <2>5, <2>7, <3>1 DEF Takes, f
  <2>9. MessageRead(Came, frames', heap', pos', "reading", result')
    BY <2>2, <2>7, <2>8, PartDelivered
  <2> QED
    BY <1>1, <2>1, <2>9 DEF SoFar
<1> QED
  BY <1>3, <1>4

=============================================================================
