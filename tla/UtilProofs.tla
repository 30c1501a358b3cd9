----------------------------- MODULE UtilProofs -----------------------------
(***************************************************************************)
(* The theorems about the list and the encoding of src/util.               *)
(*                                                                         *)
(* A list of linkedlist.c of any length, over any addresses and elements:  *)
(* its nodes are one chain, no operation touches a node that was freed,    *)
(* and its operations are those of a sequence.                             *)
(*                                                                         *)
(* base64.c: a block of one, two or three bytes, whatever they are,        *)
(* survives being encoded and decoded: the shifts and masks of the two     *)
(* functions fit together.  And so does an input of any length: the        *)
(* encoder cuts it into blocks, the decoder finds their letters again      *)
(* among what else is in the text.  The text the encoder writes is cut     *)
(* into lines of the size asked for, all but the last full.                *)
(***************************************************************************)
EXTENDS Base64, LinkedList, SequenceTheorems, FiniteSetTheorems, TLAPS

-----------------------------------------------------------------------------
(* The list (LinkedList).                                                  *)

(* Induction over the natural numbers, for a set: a set that is not all of *)
(* Nat would lack a smallest number, as intervals are finite sets.         *)

LEMMA SmallestMissing ==
  ASSUME NEW T, NEW n \in Nat, n \notin T
  PROVE  \E m \in Nat : m \notin T /\ \A k \in Nat : k < m => k \in T
<1> DEFINE Missing == {k \in Nat : k \notin T}
           Below(k) == 0 .. k - 1
           Intervals == {Below(k) : k \in Missing}
           R == StrictSubsetOrdering(Nat)
<1>1. IsWellFoundedOn(R, FiniteSubsetsOf(Nat))
  BY FS_StrictSubsetOrderingWellFounded
<1>2. Intervals \subseteq FiniteSubsetsOf(Nat)
  <2> SUFFICES ASSUME NEW k \in Missing PROVE Below(k) \in FiniteSubsetsOf(Nat)
    OBVIOUS
  <2>1. Below(k) \in SUBSET Nat
    OBVIOUS
  <2>2. IsFiniteSet(Below(k))
    BY FS_Interval
  <2> QED
    BY <2>1, <2>2 DEF FiniteSubsetsOf
<1>3. Intervals # {}
  OBVIOUS
<1>4. PICK x \in Intervals : \A y \in Intervals : <<y, x>> \notin R
  <2> HIDE DEF Intervals, R
  <2> QED
    BY <1>1, <1>2, <1>3, WFMin
<1>5. PICK m \in Missing : x = Below(m)
  OBVIOUS
<1>6. ASSUME NEW k \in Nat, k < m, k \notin T PROVE FALSE
  <2>1. Below(k) \in Intervals
    BY <1>6
  <2>2. k \in Below(m) /\ k \notin Below(k) /\ Below(k) \subseteq Below(m)
    BY <1>6
  <2>3. Below(k) \in SUBSET Nat /\ Below(m) \in SUBSET Nat
    OBVIOUS
  <2>4. <<Below(k), Below(m)>> \in R
    <3> HIDE DEF Below
    <3> QED
      BY <2>2, <2>3 DEF StrictSubsetOrdering
  <2> QED
    BY <1>4, <1>5, <2>1, <2>4
<1> QED
  BY <1>6

LEMMA SetInduction ==
  ASSUME NEW T, 0 \in T, \A n \in Nat : n \in T => n + 1 \in T
  PROVE  \A n \in Nat : n \in T
<1> SUFFICES ASSUME NEW n \in Nat, n \notin T PROVE FALSE
  OBVIOUS
<1>1. PICK m \in Nat : m \notin T /\ \A k \in Nat : k < m => k \in T
  BY SmallestMissing
<1>2. m # 0 /\ m - 1 \in Nat /\ m - 1 < m
  BY <1>1
<1>3. (m - 1) + 1 \in T
  BY <1>1, <1>2
<1> QED
  BY <1>1, <1>3

-----------------------------------------------------------------------------
(* Walking along nodes that are linked as a sequence s is.                 *)

Links(nx, n) == IF n \in Nodes THEN nx[n] ELSE NULL
IsWalk(at, hd, nx, i) == at = [j \in 0 .. i |-> IF j = 0 THEN hd ELSE Links(nx, at[j - 1])]
WalkOf(hd, nx, i) == (CHOOSE at : IsWalk(at, hd, nx, i))[i]

LEMMA WalkIs == \A i : Walk(i) = WalkOf(head, next, i)
BY DEF Walk, WalkOf, IsWalk, Links, Successor

LEMMA WalkIsNext == \A i : Walk(i)' = WalkOf(head', next', i)
BY DEF Walk, WalkOf, IsWalk, Links, Successor

\* the node j steps after the first of s
NodeAt(s, j) == IF j < Len(s) THEN s[j + 1] ELSE NULL

LinkedAs(s, hd, nx) ==
  /\ s \in Seq(Nodes)
  /\ hd = NodeAt(s, 0)
  /\ \A k \in 1 .. Len(s) : nx[s[k]] = NodeAt(s, k)

LEMMA NodeAtFollows ==
  ASSUME NEW s, NEW hd, NEW nx, LinkedAs(s, hd, nx), NEW j \in Nat
  PROVE  Links(nx, NodeAt(s, j)) = NodeAt(s, j + 1)
<1>1. s \in Seq(Nodes) /\ Len(s) \in Nat
  BY DEF LinkedAs
<1>2. CASE j < Len(s)
  <2>1. j + 1 \in 1 .. Len(s)
    BY <1>1, <1>2
  <2>2. s[j + 1] \in Nodes /\ nx[s[j + 1]] = NodeAt(s, j + 1)
    BY <1>1, <2>1 DEF LinkedAs
  <2> QED
    BY <1>2, <2>2 DEF Links, NodeAt
<1>3. CASE ~(j < Len(s))
  <2>1. NodeAt(s, j) = NULL /\ NodeAt(s, j + 1) = NULL
    BY <1>1, <1>3 DEF NodeAt
  <2> QED
    BY <2>1, NullAssumption DEF Links
<1> QED
  BY <1>2, <1>3

(***************************************************************************)
(* A walk along linked nodes visits them in order and then stays at NULL.  *)
(***************************************************************************)
LEMMA WalkFollows ==
  ASSUME NEW s, NEW hd, NEW nx, LinkedAs(s, hd, nx), NEW i \in Nat
  PROVE  WalkOf(hd, nx, i) = NodeAt(s, i)
<1> DEFINE g == [j \in 0 .. i |-> NodeAt(s, j)]
           at == CHOOSE f : IsWalk(f, hd, nx, i)
<1>1. IsWalk(g, hd, nx, i)
  <2>1. \A j \in 0 .. i : g[j] = IF j = 0 THEN hd ELSE Links(nx, g[j - 1])
    <3> SUFFICES ASSUME NEW j \in 0 .. i
                 PROVE  g[j] = IF j = 0 THEN hd ELSE Links(nx, g[j - 1])
      OBVIOUS
    <3>1. CASE j = 0
      BY <3>1 DEF LinkedAs
    <3>2. CASE j # 0
      <4>1. j - 1 \in Nat /\ j - 1 \in 0 .. i /\ (j - 1) + 1 = j
        BY <3>2
      <4>2. Links(nx, NodeAt(s, j - 1)) = NodeAt(s, j)
        BY <4>1, NodeAtFollows
      <4> QED
        BY <3>2, <4>1, <4>2
    <3> QED
      BY <3>1, <3>2
  <2>2. g = [j \in 0 .. i |-> IF j = 0 THEN hd ELSE Links(nx, g[j - 1])]
    BY <2>1
  <2> QED
    BY <2>2 DEF IsWalk
<1>2. IsWalk(at, hd, nx, i)
  <2> HIDE DEF g
  <2> QED
    BY <1>1, Zenon
<1>3. \A j \in 0 .. i : at[j] = IF j = 0 THEN hd ELSE Links(nx, at[j - 1])
  <2> HIDE DEF at
  <2> QED
    BY <1>2 DEF IsWalk
<1>4. \A j \in Nat : j <= i => at[j] = NodeAt(s, j)
  <2> DEFINE T == {j \in Nat : j <= i => at[j] = NodeAt(s, j)}
  <2> HIDE DEF at
  <2>1. 0 \in T
    BY <1>3 DEF LinkedAs
  <2>2. ASSUME NEW j \in Nat, j \in T PROVE j + 1 \in T
    <3> SUFFICES ASSUME j + 1 <= i PROVE at[j + 1] = NodeAt(s, j + 1)
      OBVIOUS
    <3>1. at[j] = NodeAt(s, j) /\ j + 1 \in 0 .. i /\ j + 1 # 0 /\ (j + 1) - 1 = j
      BY <2>2
    <3>2. at[j + 1] = Links(nx, at[j])
      BY <1>3, <3>1
    <3> QED
      BY <3>1, <3>2, NodeAtFollows
  <2>3. \A j \in Nat : j \in T
    <3> HIDE DEF T
    <3> QED
      BY <2>1, <2>2, SetInduction
  <2> QED
    BY <2>3
<1> HIDE DEF at
<1>5. at[i] = NodeAt(s, i)
  BY <1>4
<1> QED
  BY <1>5 DEF WalkOf, at

-----------------------------------------------------------------------------
Apart(s)  == \A j, k \in 1 .. Len(s) : s[j] = s[k] => j = k
LastOf(s) == IF s = <<>> THEN NULL ELSE s[Len(s)]
NodesOf(s) == {s[k] : k \in 1 .. Len(s)}

(***************************************************************************)
(* The list in memory is the sequence s of nodes.  IsOneChain says as much *)
(* with the walk that the code makes; to follow an operation one has to    *)
(* name the nodes.                                                         *)
(***************************************************************************)
Chain(s) ==
  /\ LinkedAs(s, head, next)
  /\ Apart(s)
  /\ heap = NodesOf(s)
  /\ length = Len(s)
  /\ tail = LastOf(s)

FieldsOK == /\ next \in [Nodes -> Nodes \cup {NULL}]
            /\ element \in [Nodes -> Elements \cup {NULL}]

\* what a step may not do wrong beside breaking the chain
StatusOK == /\ fault \in {"none", "null_array"}
            /\ open \in BOOLEAN
            /\ ~open => length = 0

ListInv == FieldsOK /\ StatusOK /\ \E s : Chain(s)

\* The loops find what is there, and nothing where nothing is.
LEMMA WalkInChain ==
  ASSUME NEW s, Chain(s), NEW i \in Nat
  PROVE  Walk(i) = NodeAt(s, i)
BY WalkIs, WalkFollows DEF Chain

LEMMA ChainTypes ==
  ASSUME NEW s, Chain(s)
  PROVE  /\ s \in Seq(Nodes) /\ Len(s) \in Nat /\ length = Len(s)
         /\ s = <<>> <=> length = 0
         /\ heap \subseteq Nodes
         /\ \A k \in 1 .. Len(s) : s[k] \in Nodes /\ s[k] \in heap
<1>1. s \in Seq(Nodes) /\ length = Len(s) /\ heap = NodesOf(s)
  BY DEF Chain, LinkedAs
<1>2. Len(s) \in Nat /\ (s = <<>> <=> Len(s) = 0)
  BY <1>1, EmptySeq, LenProperties
<1>3. \A k \in 1 .. Len(s) : s[k] \in Nodes
  BY <1>1, ElementOfSeq
<1> QED
  BY <1>1, <1>2, <1>3 DEF NodesOf

LEMMA NeverCutShort ==
  ASSUME NEW s, Chain(s), NEW i, InRange(i), i \in Int
  PROVE  /\ ~CutShort(i)
         /\ i \in Nat /\ i < Len(s) /\ i + 1 \in 1 .. Len(s)
         /\ {Walk(j) : j \in 0 .. i} \subseteq heap
<1>1. i \in Nat /\ i < Len(s) /\ Len(s) \in Nat /\ i + 1 \in 1 .. Len(s)
  BY ChainTypes DEF InRange
<1>2. ASSUME NEW j \in 0 .. i PROVE Walk(j) = s[j + 1] /\ s[j + 1] \in heap /\ s[j + 1] # NULL
  <2>1. j \in Nat /\ j < Len(s) /\ j + 1 \in 1 .. Len(s)
    BY <1>1
  <2> QED
    BY <2>1, WalkInChain, ChainTypes, NullAssumption DEF NodeAt
<1>3. \A j \in 0 .. i - 1 : j \in 0 .. i
  BY <1>1
<1>4. ~CutShort(i)
  BY <1>2, <1>3 DEF CutShort
<1> QED
  BY <1>1, <1>2, <1>4

-----------------------------------------------------------------------------
(* One lemma per operation that changes the chain.                         *)

\* llist_add puts its node behind the others.
LEMMA AddChain ==
  ASSUME FieldsOK, NEW s, Chain(s), NEW e \in Elements, Add(e)
  PROVE  \E n \in Nodes \ heap : /\ Chain(Append(s, n))'
                                 /\ element' = [element EXCEPT ![n] = e]
                                 /\ next' \in [Nodes -> Nodes \cup {NULL}]
                                 /\ UNCHANGED <<open, fault>>
<1>1. PICK n \in Nodes \ heap :
        /\ heap' = heap \cup {n}
        /\ element' = [element EXCEPT ![n] = e]
        /\ tail' = n
        /\ \/ /\ head = NULL
              /\ head' = n
              /\ next' = [next EXCEPT ![n] = NULL]
              /\ UNCHANGED fault
           \/ /\ head # NULL
              /\ Touches({tail})
              /\ next' = [next EXCEPT ![n] = NULL, ![tail] = n]
              /\ UNCHANGED head
  BY DEF Add
<1>2. length' = length + 1 /\ UNCHANGED open
  BY DEF Add
<1> DEFINE t == Append(s, n)
           l == Len(s)
<1>3. /\ s \in Seq(Nodes) /\ l \in Nat /\ length = l
      /\ s = <<>> <=> l = 0
      /\ \A k \in 1 .. l : s[k] \in Nodes /\ s[k] \in heap
  BY ChainTypes
<1>4. /\ head = NodeAt(s, 0) /\ \A k \in 1 .. l : next[s[k]] = NodeAt(s, k)
      /\ Apart(s) /\ heap = NodesOf(s) /\ tail = LastOf(s)
  BY DEF Chain, LinkedAs
<1>5. /\ t \in Seq(Nodes) /\ Len(t) = l + 1 /\ t # <<>>
      /\ \A k \in 1 .. l : t[k] = s[k]
      /\ t[l + 1] = n
  BY <1>3, AppendProperties
<1>6. \A k \in 1 .. l + 1 : k \in 1 .. l \/ k = l + 1
  BY <1>3
<1>n. \A k \in 1 .. l : s[k] # n
  BY <1>3
<1> HIDE DEF t, l
<1>7. Apart(t)
  BY <1>3, <1>4, <1>5, <1>6, <1>n DEF Apart, l
<1>8. NodesOf(t) = heap \cup {n}
  <2>1. \A x \in NodesOf(t) : x \in heap \cup {n}
    BY <1>3, <1>5, <1>6 DEF NodesOf
  <2>2. \A x \in NodesOf(s) : x \in NodesOf(t)
    <3> SUFFICES ASSUME NEW k \in 1 .. l PROVE s[k] \in NodesOf(t)
      BY DEF NodesOf, l
    <3>1. k \in 1 .. l + 1 /\ t[k] = s[k]
      BY <1>3, <1>5
    <3> QED
      BY <1>5, <3>1 DEF NodesOf
  <2>3. n \in NodesOf(t)
    <3>1. l + 1 \in 1 .. Len(t)
      BY <1>3, <1>5
    <3> QED
      BY <1>5, <3>1 DEF NodesOf
  <2> QED
    BY <1>4, <2>1, <2>2, <2>3
<1>9. LinkedAs(t, head', next') /\ next' \in [Nodes -> Nodes \cup {NULL}] /\ UNCHANGED fault
  <2>1. CASE /\ head = NULL
             /\ head' = n
             /\ next' = [next EXCEPT ![n] = NULL]
             /\ UNCHANGED fault
    <3>1. l = 0
      <4>1. ASSUME l # 0 PROVE FALSE
        <5>1. 1 \in 1 .. l /\ 0 < l
          BY <1>3, <4>1
        <5> QED
          BY <1>3, <1>4, <2>1, <5>1, NullAssumption DEF NodeAt, l
      <4> QED
        BY <4>1
    <3>2. NodeAt(t, 0) = n /\ NodeAt(t, 1) = NULL
      BY <1>5, <3>1 DEF NodeAt
    <3>3. next'[n] = NULL /\ next' \in [Nodes -> Nodes \cup {NULL}]
      BY <2>1 DEF FieldsOK
    <3>4. \A k \in 1 .. Len(t) : next'[t[k]] = NodeAt(t, k)
      BY <1>5, <3>1, <3>2, <3>3
    <3> QED
      BY <1>5, <2>1, <3>2, <3>3, <3>4 DEF LinkedAs
  <2>2. CASE /\ head # NULL
             /\ Touches({tail})
             /\ next' = [next EXCEPT ![n] = NULL, ![tail] = n]
             /\ UNCHANGED head
    <3>1. l # 0 /\ l \in 1 .. l
      BY <1>3, <1>4, <2>2 DEF NodeAt, l
    <3>2. tail = s[l] /\ tail \in Nodes /\ tail \in heap /\ tail # n
      BY <1>3, <1>4, <1>n, <3>1 DEF LastOf, l
    <3>3. UNCHANGED fault
      BY <2>2, <3>2 DEF Touches
    <3>4. /\ next' \in [Nodes -> Nodes \cup {NULL}]
          /\ \A x \in Nodes : next'[x] = IF x = tail THEN n ELSE IF x = n THEN NULL ELSE next[x]
      BY <2>2, <3>2 DEF FieldsOK
    <3>5. NodeAt(t, 0) = head'
      <4>1. 1 \in 1 .. l /\ 0 < l
        BY <1>3, <3>1
      <4> QED
        BY <1>3, <1>4, <1>5, <2>2, <4>1 DEF NodeAt, l
    <3>6. ASSUME NEW k \in 1 .. l + 1 PROVE next'[t[k]] = NodeAt(t, k)
      <4>1. CASE k = l + 1
        BY <1>3, <1>5, <3>2, <3>4, <4>1 DEF NodeAt
      <4>2. CASE k = l
        BY <1>3, <1>5, <3>1, <3>2, <3>4, <4>2 DEF NodeAt
      <4>3. CASE k \in 1 .. l /\ k # l
        <5>1. t[k] = s[k] /\ s[k] \in Nodes /\ s[k] # n /\ s[k] # tail
          BY <1>3, <1>4, <1>5, <1>n, <3>1, <3>2, <4>3 DEF Apart, l
        <5>2. next'[t[k]] = NodeAt(s, k)
          BY <1>4, <3>4, <4>3, <5>1
        <5>3. k + 1 \in 1 .. l /\ k < l /\ k < l + 1
          BY <1>3, <4>3
        <5> QED
          BY <1>5, <5>2, <5>3 DEF NodeAt, l
      <4> QED
        BY <1>6, <4>1, <4>2, <4>3
    <3> QED
      BY <1>5, <3>3, <3>4, <3>5, <3>6 DEF LinkedAs
  <2> QED
    BY <1>1, <2>1, <2>2
<1>10. Chain(t)'
  BY <1>1, <1>2, <1>3, <1>5, <1>7, <1>8, <1>9 DEF Chain, LastOf
<1> QED
  BY <1>1, <1>2, <1>9, <1>10 DEF t

\* s without the node i steps after its first
Drop(s, i) == [k \in 1 .. Len(s) - 1 |-> IF k <= i THEN s[k] ELSE s[k + 1]]

LEMMA DropProperties ==
  ASSUME NEW S, NEW s \in Seq(S), NEW i \in Nat, i < Len(s)
  PROVE  /\ Drop(s, i) \in Seq(S)
         /\ Len(Drop(s, i)) = Len(s) - 1
         /\ \A k \in 1 .. Len(s) - 1 : Drop(s, i)[k] = IF k <= i THEN s[k] ELSE s[k + 1]
<1>1. Len(s) - 1 \in Nat
  OBVIOUS
<1>2. \A k \in 1 .. Len(s) - 1 : (IF k <= i THEN s[k] ELSE s[k + 1]) \in S
  <2> SUFFICES ASSUME NEW k \in 1 .. Len(s) - 1 PROVE s[k] \in S /\ s[k + 1] \in S
    OBVIOUS
  <2>1. k \in 1 .. Len(s) /\ k + 1 \in 1 .. Len(s)
    BY <1>1
  <2> QED
    BY <2>1, ElementOfSeq
<1> QED
  BY <1>1, <1>2 DEF Drop

LEMMA NodeAtDrop ==
  ASSUME NEW s \in Seq(Nodes), NEW i \in Nat, i < Len(s), NEW k \in Nat
  PROVE  NodeAt(Drop(s, i), k) = IF k < i THEN NodeAt(s, k) ELSE NodeAt(s, k + 1)
<1>0. /\ Len(Drop(s, i)) = Len(s) - 1
      /\ \A j \in 1 .. Len(s) - 1 : Drop(s, i)[j] = IF j <= i THEN s[j] ELSE s[j + 1]
  BY DropProperties, Zenon
<1>1. /\ Len(s) \in Nat /\ Len(Drop(s, i)) = Len(s) - 1
      /\ \A j \in 1 .. Len(s) - 1 : Drop(s, i)[j] = IF j <= i THEN s[j] ELSE s[j + 1]
  BY <1>0
<1>2. CASE k < Len(s) - 1
  <2>1. k + 1 \in 1 .. Len(s) - 1
    BY <1>1, <1>2
  <2> QED
    BY <1>1, <1>2, <2>1 DEF NodeAt
<1>3. CASE ~(k < Len(s) - 1)
  BY <1>1, <1>3 DEF NodeAt
<1> QED
  BY <1>2, <1>3

\* llist_remove takes the node at i out, whichever it is.
LEMMA RemoveChain ==
  ASSUME FieldsOK, NEW s, Chain(s), NEW i \in Int, Remove(i)
  PROVE  /\ i \in Nat /\ i < Len(s)
         /\ Chain(Drop(s, i))'
         /\ answer' = element[s[i + 1]]
         /\ next' \in [Nodes -> Nodes \cup {NULL}]
         /\ UNCHANGED <<open, element, fault>>
<1> DEFINE current == s[i + 1]
           previous == IF i = 0 THEN NULL ELSE s[i]
           t == Drop(s, i)
           l == Len(s)
<1>1. InRange(i) /\ i \in Nat /\ i < l /\ i + 1 \in 1 .. l /\ {Walk(j) : j \in 0 .. i} \subseteq heap
  BY NeverCutShort DEF Remove
<1>2. /\ s \in Seq(Nodes) /\ l \in Nat /\ length = l
      /\ \A k \in 1 .. l : s[k] \in Nodes /\ s[k] \in heap
  BY ChainTypes
<1>3. /\ head = NodeAt(s, 0) /\ \A k \in 1 .. l : next[s[k]] = NodeAt(s, k)
      /\ Apart(s) /\ heap = NodesOf(s) /\ tail = LastOf(s)
  BY DEF Chain, LinkedAs
<1>4. Walk(i) = current /\ (i # 0 => Walk(i - 1) = s[i])
  <2>1. Walk(i) = current
    BY <1>1, WalkInChain DEF NodeAt
  <2>2. ASSUME i # 0 PROVE Walk(i - 1) = s[i]
    <3>1. i - 1 \in Nat /\ i - 1 < l /\ (i - 1) + 1 = i
      BY <1>1, <1>2, <2>2
    <3> QED
      BY <3>1, WalkInChain DEF NodeAt
  <2> QED
    BY <2>1, <2>2
<1>5. /\ current \in Nodes /\ next[current] = NodeAt(s, i + 1)
      /\ Successor(current) = NodeAt(s, i + 1) /\ Content(current) = element[current]
      /\ i # 0 => i \in 1 .. l /\ s[i] \in Nodes
  <2>1. current \in Nodes /\ next[current] = NodeAt(s, i + 1)
    BY <1>1, <1>2, <1>3
  <2>2. i # 0 => i \in 1 .. l
    BY <1>1, <1>2
  <2> QED
    BY <1>2, <2>1, <2>2 DEF Successor, Content
<1>6. /\ t \in Seq(Nodes) /\ Len(t) = l - 1 /\ l - 1 \in Nat
      /\ \A k \in 1 .. l - 1 : t[k] = IF k <= i THEN s[k] ELSE s[k + 1]
      /\ \A k \in Nat : NodeAt(t, k) = IF k < i THEN NodeAt(s, k) ELSE NodeAt(s, k + 1)
      /\ t = <<>> <=> l = 1
  <2>1. /\ t \in Seq(Nodes) /\ Len(t) = l - 1 /\ l - 1 \in Nat
        /\ \A k \in 1 .. l - 1 : t[k] = IF k <= i THEN s[k] ELSE s[k + 1]
    BY <1>1, <1>2, DropProperties
  <2>2. \A k \in Nat : NodeAt(t, k) = IF k < i THEN NodeAt(s, k) ELSE NodeAt(s, k + 1)
    BY <1>1, <1>2, NodeAtDrop
  <2>3. t = <<>> <=> Len(t) = 0
    BY <2>1, EmptySeq
  <2> QED
    BY <1>2, <2>1, <2>2, <2>3
<1>i. i \in Nat
  BY <1>1
<1>s. \A k \in 1 .. l : s[k] \in Nodes
  BY <1>2
<1>t. \A k \in 1 .. l - 1 : t[k] = IF k <= i THEN s[k] ELSE s[k + 1]
  BY <1>6
<1>7. /\ current = head <=> i = 0
      /\ current = tail <=> i + 1 = l
  <2>1. l # 0 /\ 1 \in 1 .. l /\ l \in 1 .. l /\ 0 < l
    BY <1>1, <1>2
  <2>2. head = s[1]
    BY <1>3, <2>1 DEF NodeAt
  <2>3. s # <<>> /\ tail = s[l]
    BY <1>2, <1>3, <2>1, ChainTypes DEF LastOf
  <2>4. current = s[1] <=> i + 1 = 1
    BY <1>1, <1>3, <2>1 DEF Apart
  <2>5. current = s[l] <=> i + 1 = l
    BY <1>1, <1>3, <2>1 DEF Apart
  <2> QED
    BY <1>1, <2>2, <2>3, <2>4, <2>5
<1>8. /\ head' = IF i = 0 THEN NodeAt(s, i + 1) ELSE head
      /\ next' = IF i = 0 THEN next ELSE [next EXCEPT ![s[i]] = NodeAt(s, i + 1)]
      /\ tail' = IF i + 1 = l THEN previous ELSE tail
      /\ answer' = element[current]
      /\ heap' = heap \ {current}
      /\ length' = length - 1
      /\ UNCHANGED <<open, element, fault>>
  <2>1. Touches({Walk(j) : j \in 0 .. i}) /\ UNCHANGED <<open, element>> /\ length' = length - 1
    BY DEF Remove
  <2>2. UNCHANGED fault
    BY <1>1, <2>1 DEF Touches
  <2>3. /\ head' = IF Walk(i) = head THEN Successor(Walk(i)) ELSE head
        /\ next' = IF Walk(i) = head THEN next
                   ELSE [next EXCEPT ![IF i = 0 THEN NULL ELSE Walk(i - 1)] = Successor(Walk(i))]
        /\ tail' = IF Walk(i) = tail THEN (IF i = 0 THEN NULL ELSE Walk(i - 1)) ELSE tail
        /\ answer' = Content(Walk(i))
        /\ heap' = heap \ {Walk(i)}
    BY DEF Remove
  <2>4. (IF i = 0 THEN NULL ELSE Walk(i - 1)) = previous
    BY <1>4
  <2> HIDE DEF current, previous
  <2> QED
    BY <1>4, <1>5, <1>7, <2>1, <2>2, <2>3, <2>4 DEF previous
<1> HIDE DEF t, l, current
<1>9. \A k \in 1 .. l - 1 : /\ k \in Nat /\ k \in 1 .. l /\ k + 1 \in 1 .. l
                            /\ k <= i => k # i + 1
                            /\ ~(k <= i) => k + 1 # i + 1
  BY <1>1, <1>2
<1>10. Apart(t)
  <2> SUFFICES ASSUME NEW j \in 1 .. l - 1, NEW k \in 1 .. l - 1, t[j] = t[k] PROVE j = k
    BY <1>6 DEF Apart
  <2>1. (IF j <= i THEN s[j] ELSE s[j + 1]) = (IF k <= i THEN s[k] ELSE s[k + 1])
    BY <1>6
  <2>2. (IF j <= i THEN j ELSE j + 1) = (IF k <= i THEN k ELSE k + 1)
    BY <1>3, <1>9, <2>1 DEF Apart, l
  <2> QED
    BY <1>1, <2>2
<1>11. NodesOf(t) = heap'
  <2>1. ASSUME NEW k \in 1 .. l - 1 PROVE t[k] \in heap \ {current}
    <3>1. s[k] \in heap /\ s[k + 1] \in heap
      BY <1>2, <1>9
    <3>2. k <= i => s[k] # current
      BY <1>1, <1>3, <1>9 DEF Apart, l, current
    <3>3. ~(k <= i) => s[k + 1] # current
      BY <1>1, <1>3, <1>9 DEF Apart, l, current
    <3> QED
      BY <1>6, <3>1, <3>2, <3>3
  <2>2. ASSUME NEW x \in heap \ {current} PROVE x \in NodesOf(t)
    <3>1. PICK k \in 1 .. l : x = s[k]
      BY <1>3, <2>2 DEF NodesOf, l
    <3>2. k # i + 1
      BY <2>2, <3>1 DEF current
    <3>3. CASE k <= i
      <4>1. k \in 1 .. l - 1 /\ t[k] = x
        BY <1>1, <1>2, <1>6, <3>1, <3>3
      <4> QED
        BY <1>6, <4>1 DEF NodesOf
    <3>4. CASE ~(k <= i)
      <4>1. k - 1 \in 1 .. l - 1 /\ ~(k - 1 <= i) /\ (k - 1) + 1 = k
        BY <1>1, <1>2, <3>1, <3>2, <3>4
      <4>2. t[k - 1] = x
        BY <1>6, <3>1, <4>1
      <4> QED
        BY <1>6, <4>1, <4>2 DEF NodesOf
    <3> QED
      BY <3>3, <3>4
  <2> QED
    BY <1>6, <1>8, <2>1, <2>2 DEF NodesOf
<1>12. LinkedAs(t, head', next') /\ next' \in [Nodes -> Nodes \cup {NULL}]
  <2>1. CASE i = 0
    <3>1. head' = NodeAt(t, 0) /\ next' = next
      BY <1>6, <1>8, <2>1
    <3>2. ASSUME NEW k \in 1 .. l - 1 PROVE next'[t[k]] = NodeAt(t, k)
      <4>1. k \in Nat /\ k + 1 \in 1 .. l /\ ~(k <= i) /\ ~(k < i)
        BY <1>9, <2>1
      <4> QED
        BY <1>3, <1>6, <3>1, <4>1
    <3> QED
      BY <1>6, <3>1, <3>2 DEF LinkedAs, FieldsOK
  <2>2. CASE i # 0
    <3>0. NodeAt(s, i + 1) \in Nodes \cup {NULL}
      BY <1>5 DEF FieldsOK
    <3>1. /\ next' \in [Nodes -> Nodes \cup {NULL}]
          /\ \A x \in Nodes : next'[x] = IF x = s[i] THEN NodeAt(s, i + 1) ELSE next[x]
      BY <1>8, <2>2, <3>0 DEF FieldsOK
    <3>2. head' = NodeAt(t, 0)
      BY <1>1, <1>3, <1>6, <1>8, <2>2
    <3>3. ASSUME NEW k \in 1 .. l - 1 PROVE next'[t[k]] = NodeAt(t, k)
      <4>0. k \in Nat /\ k \in 1 .. l /\ k + 1 \in 1 .. l /\ i \in 1 .. l
        BY <1>5, <1>9, <2>2
      <4>1. CASE k = i
        <5>0. NodeAt(t, k) = NodeAt(s, i + 1)
          BY <1>1, <1>6, <4>0, <4>1
        <5>1. t[k] = s[i] /\ s[i] \in Nodes
          BY <1>i, <1>t, <1>s, <4>0, <4>1
        <5> QED
          BY <3>1, <5>0, <5>1
      <4>2. CASE k < i
        <5>0. NodeAt(t, k) = NodeAt(s, k)
          BY <1>1, <1>6, <4>0, <4>2
        <5>1. t[k] = s[k] /\ s[k] \in Nodes
          BY <1>i, <1>t, <1>s, <4>0, <4>2
        <5>2. s[k] # s[i]
          BY <1>1, <1>3, <4>0, <4>2 DEF Apart, l
        <5> QED
          BY <1>3, <3>1, <4>0, <5>0, <5>1, <5>2
      <4>3. CASE k > i
        <5>0. NodeAt(t, k) = NodeAt(s, k + 1)
          BY <1>1, <1>6, <4>0, <4>3
        <5>1. t[k] = s[k + 1] /\ s[k + 1] \in Nodes
          BY <1>i, <1>t, <1>s, <4>0, <4>3
        <5>2. s[k + 1] # s[i]
          BY <1>1, <1>3, <4>0, <4>3 DEF Apart, l
        <5> QED
          BY <1>3, <3>1, <4>0, <5>0, <5>1, <5>2
      <4> QED
        BY <1>1, <4>1, <4>2, <4>3
    <3> QED
      BY <1>6, <3>1, <3>2, <3>3 DEF LinkedAs
  <2> QED
    BY <2>1, <2>2
<1>13. tail' = LastOf(t)
  <2>1. CASE i + 1 = l
    <3>1. i = 0 => t = <<>>
      BY <1>6, <2>1
    <3>2. i # 0 => t # <<>> /\ Len(t) = i /\ i \in 1 .. l - 1
      BY <1>1, <1>6, <2>1
    <3> QED
      BY <1>1, <1>6, <1>8, <2>1, <3>1, <3>2 DEF LastOf
  <2>2. CASE i + 1 # l
    <3>1. t # <<>> /\ l - 1 \in 1 .. l - 1 /\ ~(l - 1 <= i) /\ (l - 1) + 1 = l
      BY <1>1, <1>2, <1>6, <2>2
    <3>2. t[Len(t)] = s[l]
      BY <1>6, <3>1
    <3>3. s # <<>>
      BY <1>1, <1>2, ChainTypes
    <3> QED
      BY <1>3, <1>8, <2>2, <3>1, <3>2, <3>3 DEF LastOf, l
  <2> QED
    BY <2>1, <2>2
<1>14. Chain(t)'
  BY <1>2, <1>6, <1>8, <1>10, <1>11, <1>12, <1>13 DEF Chain
<1> QED
  BY <1>1, <1>8, <1>12, <1>14 DEF t, l, current

\* Without nodes there is a chain, of no nodes.
LEMMA EmptyChain ==
  ASSUME head = NULL, tail = NULL, length = 0, heap = {}
  PROVE  Chain(<<>>)
BY EmptySeq DEF Chain, LinkedAs, Apart, NodesOf, LastOf, NodeAt

LEMMA EmptyChainNext ==
  ASSUME head' = NULL, tail' = NULL, length' = 0, heap' = {}
  PROVE  Chain(<<>>)'
BY EmptySeq DEF Chain, LinkedAs, Apart, NodesOf, LastOf, NodeAt

\* What llist_delete_elements visits is what is in the list.
LEMMA VisitedIsHeap ==
  ASSUME NEW s, Chain(s)
  PROVE  /\ {Walk(j) : j \in 0 .. length - 1} = heap
         /\ {n \in Nodes : \E j \in 0 .. length : Walk(j) = n} = heap
<1>1. /\ s \in Seq(Nodes) /\ Len(s) \in Nat /\ length = Len(s) /\ heap = NodesOf(s)
      /\ \A k \in 1 .. Len(s) : s[k] \in Nodes
  BY ChainTypes DEF Chain
<1>2. \A j \in 0 .. length : Walk(j) = NodeAt(s, j)
  BY <1>1, WalkInChain
<1>3. \A j \in 0 .. length - 1 : /\ j + 1 \in 1 .. Len(s) /\ j \in 0 .. length
                                 /\ Walk(j) = s[j + 1]
  <2> SUFFICES ASSUME NEW j \in 0 .. length - 1
               PROVE  j + 1 \in 1 .. Len(s) /\ j \in 0 .. length /\ Walk(j) = s[j + 1]
    OBVIOUS
  <2>1. j + 1 \in 1 .. Len(s) /\ j \in 0 .. length /\ j < Len(s)
    BY <1>1
  <2> QED
    BY <1>2, <2>1 DEF NodeAt
<1>4. \A k \in 1 .. Len(s) : k - 1 \in 0 .. length - 1 /\ (k - 1) + 1 = k
  BY <1>1
<1>5. \A k \in 1 .. Len(s) : k - 1 \in 0 .. length - 1 /\ Walk(k - 1) = s[k]
  BY <1>3, <1>4
<1>6. {Walk(j) : j \in 0 .. length - 1} = heap
  <2>1. \A j \in 0 .. length - 1 : Walk(j) \in heap
    BY <1>1, <1>3 DEF NodesOf
  <2>2. \A x \in heap : \E j \in 0 .. length - 1 : x = Walk(j)
    BY <1>1, <1>5 DEF NodesOf
  <2> QED
    BY <2>1, <2>2
<1>7. {n \in Nodes : \E j \in 0 .. length : Walk(j) = n} = heap
  <2>1. ASSUME NEW j \in 0 .. length, Walk(j) \in Nodes PROVE Walk(j) \in heap
    <3>1. CASE j = length
      BY <1>1, <1>2, <2>1, <3>1, NullAssumption DEF NodeAt
    <3>2. CASE j # length
      <4>1. j \in 0 .. length - 1
        BY <1>1, <3>2
      <4> QED
        BY <1>6, <4>1
    <3> QED
      BY <3>1, <3>2
  <2>2. \A k \in 1 .. Len(s) : s[k] \in Nodes /\ \E j \in 0 .. length : Walk(j) = s[k]
    BY <1>1, <1>3, <1>5
  <2> QED
    BY <1>1, <2>1, <2>2 DEF NodesOf
<1> QED
  BY <1>6, <1>7

LEMMA ListStarts == ListInit => ListInv
<1> SUFFICES ASSUME ListInit PROVE ListInv
  OBVIOUS
<1>1. Chain(<<>>)
  BY EmptyChain DEF ListInit
<1>2. FieldsOK /\ StatusOK
  BY DEF ListInit, FieldsOK, StatusOK
<1> QED
  BY <1>1, <1>2 DEF ListInv

\* A step that leaves the list and its nodes alone leaves the chain.
LEMMA ChainStutter ==
  ASSUME FieldsOK, NEW s, Chain(s), UNCHANGED <<list, nodes>>
  PROVE  FieldsOK' /\ Chain(s)' /\ UNCHANGED <<open, length>>
BY DEF FieldsOK, Chain, list, nodes

LEMMA AddKeeps ==
  ASSUME FieldsOK, StatusOK, NEW s, Chain(s), NEW e \in Elements, Add(e)
  PROVE  ListInv'
<1>1. PICK n \in Nodes \ heap : /\ Chain(Append(s, n))'
                                /\ element' = [element EXCEPT ![n] = e]
                                /\ next' \in [Nodes -> Nodes \cup {NULL}]
                                /\ UNCHANGED <<open, fault>>
  BY AddChain
<1>2. FieldsOK'
  BY <1>1 DEF FieldsOK
<1>3. StatusOK'
  BY <1>1 DEF StatusOK, Add
<1>4. \E t : Chain(t)'
  BY <1>1
<1> QED
  BY <1>2, <1>3, <1>4 DEF ListInv

LEMMA RemoveKeeps ==
  ASSUME FieldsOK, StatusOK, NEW s, Chain(s), NEW i \in Int, Remove(i)
  PROVE  ListInv'
<1>1. /\ Chain(Drop(s, i))'
      /\ next' \in [Nodes -> Nodes \cup {NULL}]
      /\ UNCHANGED <<open, element, fault>>
  BY RemoveChain
<1>2. FieldsOK'
  BY <1>1 DEF FieldsOK
<1>3. StatusOK'
  BY <1>1 DEF StatusOK, Remove
<1>4. \E t : Chain(t)'
  BY <1>1
<1> QED
  BY <1>2, <1>3, <1>4 DEF ListInv

\* llist_delete frees every node, and finds each of them allocated.
LEMMA DeleteEmpties ==
  ASSUME NEW s, Chain(s), Delete
  PROVE  /\ head' = NULL /\ tail' = NULL /\ length' = 0 /\ heap' = {}
         /\ ~open' /\ open' \in BOOLEAN /\ UNCHANGED <<fault, next, element>>
<1>1. {n \in Nodes : \E j \in 0 .. length : Walk(j) = n} = heap
  BY VisitedIsHeap
<1>2. Touches(heap) /\ heap' = heap \ heap
  BY <1>1 DEF Delete
<1> QED
  BY <1>2 DEF Delete, Touches

LEMMA DeleteElementsTouches ==
  ASSUME NEW s, Chain(s), DeleteElements
  PROVE  /\ UNCHANGED <<list, nodes>>
         /\ \/ UNCHANGED fault
            \/ fault' = "null_array"
<1>1. {Walk(j) : j \in 0 .. length - 1} = heap
  BY VisitedIsHeap
<1> QED
  BY <1>1 DEF DeleteElements, Touches

LEMMA ListStep ==
  ASSUME ListInv, [ListNext]_listVars
  PROVE  ListInv'
<1>1. FieldsOK /\ StatusOK
  BY DEF ListInv
<1>2. PICK s : Chain(s)
  BY DEF ListInv
<1>3. ASSUME UNCHANGED <<list, nodes>>, fault' \in {"none", "null_array"} PROVE ListInv'
  <2>1. FieldsOK' /\ Chain(s)' /\ UNCHANGED <<open, length>>
    BY <1>1, <1>2, <1>3, ChainStutter
  <2>2. StatusOK'
    BY <1>1, <1>3, <2>1 DEF StatusOK
  <2> QED
    BY <2>1, <2>2 DEF ListInv
<1>f. fault \in {"none", "null_array"}
  BY <1>1 DEF StatusOK
<1>4. CASE Create
  <2>1. heap = {}
    <3>1. length = 0
      BY <1>1, <1>4 DEF StatusOK, Create
    <3>2. s = <<>> /\ heap = NodesOf(s)
      BY <1>2, <3>1, ChainTypes DEF Chain
    <3> QED
      BY <3>2 DEF NodesOf
  <2>2. /\ head' = NULL /\ tail' = NULL /\ length' = 0 /\ heap' = {}
        /\ open' \in BOOLEAN /\ UNCHANGED <<next, element, fault>>
    BY <1>4, <2>1 DEF Create, nodes, Answers
  <2>3. Chain(<<>>)'
    BY <2>2, EmptyChainNext
  <2>4. FieldsOK' /\ StatusOK'
    BY <1>1, <2>2 DEF FieldsOK, StatusOK
  <2> QED
    BY <2>3, <2>4 DEF ListInv
<1>5. ASSUME NEW e \in Elements, Add(e) PROVE ListInv'
  BY <1>1, <1>2, <1>5, AddKeeps
<1>6. CASE Length \/ AddFails
  BY <1>3, <1>f, <1>6 DEF Length, AddFails, Answers
<1>7. CASE DeleteElements
  BY <1>2, <1>3, <1>f, <1>7, DeleteElementsTouches
<1>8. CASE Delete
  <2>1. /\ head' = NULL /\ tail' = NULL /\ length' = 0 /\ heap' = {}
        /\ open' \in BOOLEAN /\ UNCHANGED <<fault, next, element>>
    BY <1>2, <1>8, DeleteEmpties
  <2>2. Chain(<<>>)'
    BY <2>1, EmptyChainNext
  <2>3. FieldsOK' /\ StatusOK'
    BY <1>1, <2>1 DEF FieldsOK, StatusOK
  <2> QED
    BY <2>2, <2>3 DEF ListInv
<1>9. ASSUME NEW i \in Indices, Get(i) \/ OutOfRange(i) PROVE ListInv'
  <2>1. CASE OutOfRange(i)
    BY <1>3, <1>f, <2>1 DEF OutOfRange, Answers
  <2>2. CASE Get(i)
    <3>1. i \in Int /\ InRange(i) /\ UNCHANGED <<list, nodes>> /\ Touches({Walk(j) : j \in 0 .. i})
      BY <2>2, IndexAssumption DEF Get
    <3>2. {Walk(j) : j \in 0 .. i} \subseteq heap
      BY <1>2, <3>1, NeverCutShort
    <3>3. UNCHANGED fault
      BY <3>1, <3>2 DEF Touches
    <3> QED
      BY <1>3, <1>f, <3>1, <3>3
  <2> QED
    BY <1>9, <2>1, <2>2
<1>10. ASSUME NEW i \in Indices, Remove(i) PROVE ListInv'
  BY <1>1, <1>2, <1>10, IndexAssumption, RemoveKeeps
<1>11. CASE UNCHANGED listVars
  BY <1>3, <1>f, <1>11 DEF listVars
<1> QED
  BY <1>4, <1>5, <1>6, <1>7, <1>8, <1>9, <1>10, <1>11 DEF ListNext

LEMMA ListInvariant == ListSpec => []ListInv
BY ListStarts, ListStep, PTL DEF ListSpec

-----------------------------------------------------------------------------
(***************************************************************************)
(* Whatever is added, removed from wherever, and deleted, however many     *)
(* nodes there are: the list in memory is one chain of all the allocated   *)
(* nodes, as long as length says, and tail is its last node.               *)
(***************************************************************************)
THEOREM ListStaysOneChain == ListSpec => []IsOneChain
<1>1. ListInv => IsOneChain
  <2> SUFFICES ASSUME NEW s, Chain(s)
               PROVE  /\ {Walk(j) : j \in 0 .. length - 1} = heap
                      /\ \A j, k \in 0 .. length : Walk(j) = Walk(k) => j = k
                      /\ Walk(length) = NULL
                      /\ tail = IF length = 0 THEN NULL ELSE Walk(length - 1)
    BY DEF ListInv, IsOneChain
  <2>1. /\ s \in Seq(Nodes) /\ Len(s) \in Nat /\ length = Len(s)
        /\ s = <<>> <=> length = 0
        /\ \A k \in 1 .. Len(s) : s[k] \in Nodes
        /\ Apart(s) /\ tail = LastOf(s)
    BY ChainTypes DEF Chain
  <2>2. \A j \in 0 .. length : Walk(j) = NodeAt(s, j)
    BY <2>1, WalkInChain
  <2>3. {Walk(j) : j \in 0 .. length - 1} = heap
    BY VisitedIsHeap
  <2>4. ASSUME NEW j \in 0 .. length, NEW k \in 0 .. length, NodeAt(s, j) = NodeAt(s, k)
        PROVE  j = k
    <3>1. \A m \in 0 .. length :
            \/ m = length /\ NodeAt(s, m) = NULL
            \/ m + 1 \in 1 .. Len(s) /\ NodeAt(s, m) = s[m + 1] /\ s[m + 1] # NULL
      <4> SUFFICES ASSUME NEW m \in 0 .. length, m # length
                   PROVE  m + 1 \in 1 .. Len(s) /\ NodeAt(s, m) = s[m + 1] /\ s[m + 1] # NULL
        BY <2>1 DEF NodeAt
      <4>1. m + 1 \in 1 .. Len(s) /\ m < Len(s)
        BY <2>1
      <4> QED
        BY <2>1, <4>1, NullAssumption DEF NodeAt
    <3>2. CASE j = length \/ k = length
      BY <2>1, <2>4, <3>1, <3>2
    <3>3. CASE j # length /\ k # length
      <4>1. j + 1 = k + 1
        BY <2>1, <2>4, <3>1, <3>3 DEF Apart
      <4> QED
        BY <2>1, <4>1
    <3> QED
      BY <3>2, <3>3
  <2>5. Walk(length) = NULL
    BY <2>1, <2>2 DEF NodeAt
  <2>6. tail = IF length = 0 THEN NULL ELSE Walk(length - 1)
    <3>1. CASE length # 0
      <4>1. length - 1 \in 0 .. length /\ length - 1 < Len(s) /\ (length - 1) + 1 = Len(s)
        BY <2>1, <3>1
      <4> QED
        BY <2>1, <2>2, <3>1, <4>1 DEF NodeAt, LastOf
    <3> QED
      BY <2>1, <3>1 DEF LastOf
  <2> QED
    BY <2>2, <2>3, <2>4, <2>5, <2>6
<1> QED
  BY <1>1, ListInvariant, PTL

(***************************************************************************)
(* No walk, no link and no free of linkedlist.c meets a node that has been *)
(* freed, after any sequence of operations.                                *)
(***************************************************************************)
THEOREM ListTouchesLiveNodes == ListSpec => []NeverTouchesDeadNode
<1>1. ListInv => NeverTouchesDeadNode
  BY DEF ListInv, StatusOK, NeverTouchesDeadNode
<1> QED
  BY <1>1, ListInvariant, PTL

-----------------------------------------------------------------------------
(* llist_delete_elements: what Distinct computes.                          *)

Values == Elements \cup {NULL}

\* one round of the loop: x is put behind m unless it is there
Grown(m, x) == IF \E j \in DOMAIN m : m[j] = x THEN m ELSE Append(m, x)
IsGrown(met, c, n) == met = [k \in 0 .. n |-> IF k = 0 THEN <<>> ELSE Grown(met[k - 1], c[k])]

\* Each of the first k of c, once.
EachOnce(m, c, k) ==
  /\ m \in Seq(Values)
  /\ {m[j] : j \in DOMAIN m} = {c[j] : j \in 1 .. k}
  /\ \A i, j \in DOMAIN m : m[i] = m[j] => i = j

LEMMA GrownExists ==
  ASSUME NEW c
  PROVE  \A n \in Nat : \E met : IsGrown(met, c, n)
<1> DEFINE T == {n \in Nat : \E met : IsGrown(met, c, n)}
<1>1. 0 \in T
  <2> DEFINE f == [k \in 0 .. 0 |-> <<>>]
  <2>1. IsGrown(f, c, 0)
    BY DEF IsGrown
  <2> QED
    BY <2>1
<1>2. ASSUME NEW n \in Nat, n \in T PROVE n + 1 \in T
  <2>1. PICK f : IsGrown(f, c, n)
    BY <1>2
  <2> DEFINE g == [k \in 0 .. n + 1 |-> IF k <= n THEN f[k] ELSE Grown(f[n], c[n + 1])]
  <2>2. \A k \in 0 .. n : f[k] = IF k = 0 THEN <<>> ELSE Grown(f[k - 1], c[k])
    BY <2>1 DEF IsGrown
  <2>3. ASSUME NEW k \in 0 .. n + 1
        PROVE  g[k] = IF k = 0 THEN <<>> ELSE Grown(g[k - 1], c[k])
    <3>1. CASE k = 0
      <4>1. g[k] = f[k] /\ k \in 0 .. n
        BY <3>1
      <4> QED
        BY <2>2, <3>1, <4>1
    <3>2. CASE k # 0 /\ k <= n
      <4>1. k \in 0 .. n /\ k - 1 \in 0 .. n /\ g[k] = f[k] /\ g[k - 1] = f[k - 1]
        BY <3>2
      <4> QED
        BY <2>2, <3>2, <4>1
    <3>3. CASE k = n + 1
      <4>1. k # 0 /\ k - 1 = n /\ g[n] = f[n] /\ g[k] = Grown(f[n], c[n + 1])
        BY <3>3
      <4> QED
        BY <3>3, <4>1
    <3> QED
      BY <3>1, <3>2, <3>3
  <2>4. g = [k \in 0 .. n + 1 |-> IF k = 0 THEN <<>> ELSE Grown(g[k - 1], c[k])]
    BY <2>3
  <2>5. IsGrown(g, c, n + 1)
    BY <2>4 DEF IsGrown
  <2> QED
    BY <2>5
<1>3. \A n \in Nat : n \in T
  <2> HIDE DEF T
  <2> QED
    BY <1>1, <1>2, SetInduction
<1> QED
  BY <1>3

LEMMA GrownOnce ==
  ASSUME NEW m, NEW c, NEW k \in Nat, EachOnce(m, c, k), c[k + 1] \in Values
  PROVE  EachOnce(Grown(m, c[k + 1]), c, k + 1)
<1> DEFINE x == c[k + 1]
           t == Append(m, x)
<1>1. /\ m \in Seq(Values) /\ DOMAIN m = 1 .. Len(m) /\ Len(m) \in Nat
      /\ {m[j] : j \in DOMAIN m} = {c[j] : j \in 1 .. k}
      /\ \A i, j \in DOMAIN m : m[i] = m[j] => i = j
  BY LenProperties DEF EachOnce
<1>2. {c[j] : j \in 1 .. k + 1} = {c[j] : j \in 1 .. k} \cup {x}
  <2>1. \A j \in 1 .. k + 1 : j \in 1 .. k \/ j = k + 1
    OBVIOUS
  <2>2. k + 1 \in 1 .. k + 1 /\ \A j \in 1 .. k : j \in 1 .. k + 1
    OBVIOUS
  <2>3. \A y \in {c[j] : j \in 1 .. k + 1} : y \in {c[j] : j \in 1 .. k} \cup {x}
    BY <2>1
  <2>4. x \in {c[j] : j \in 1 .. k + 1}
    BY <2>2
  <2>5. \A y \in {c[j] : j \in 1 .. k} : y \in {c[j] : j \in 1 .. k + 1}
    BY <2>2
  <2> QED
    BY <2>3, <2>4, <2>5
<1> HIDE DEF x
<1>3. CASE \E j \in DOMAIN m : m[j] = x
  <2>1. Grown(m, x) = m
    BY <1>3 DEF Grown
  <2>2. {m[j] : j \in DOMAIN m} = {c[j] : j \in 1 .. k + 1}
    BY <1>1, <1>2, <1>3
  <2> QED
    BY <1>1, <2>1, <2>2 DEF EachOnce, x
<1>4. CASE ~\E j \in DOMAIN m : m[j] = x
  <2>1. Grown(m, x) = t
    BY <1>4 DEF Grown
  <2>2. /\ t \in Seq(Values) /\ DOMAIN t = 1 .. Len(m) + 1
        /\ \A j \in 1 .. Len(m) : t[j] = m[j]
        /\ t[Len(m) + 1] = x
    <3>1. x \in Values
      BY DEF x
    <3> QED
      BY <1>1, <3>1, AppendProperties, LenProperties
  <2> HIDE DEF t
  <2>3. \A j \in DOMAIN t : j \in DOMAIN m \/ j = Len(m) + 1
    BY <1>1, <2>2
  <2>4. Len(m) + 1 \in DOMAIN t /\ \A j \in DOMAIN m : j \in DOMAIN t
    BY <1>1, <2>2
  <2>5. {t[j] : j \in DOMAIN t} = {m[j] : j \in DOMAIN m} \cup {x}
    <3>1. \A j \in DOMAIN t : t[j] \in {m[i] : i \in DOMAIN m} \cup {x}
      BY <1>1, <2>2, <2>3
    <3>2. \A j \in DOMAIN m : m[j] \in {t[i] : i \in DOMAIN t}
      BY <1>1, <2>2, <2>4
    <3>3. x \in {t[i] : i \in DOMAIN t}
      BY <2>2, <2>4
    <3> QED
      BY <3>1, <3>2, <3>3
  <2>6. \A i, j \in DOMAIN t : t[i] = t[j] => i = j
    BY <1>1, <1>4, <2>2, <2>3
  <2>7. {t[j] : j \in DOMAIN t} = {c[j] : j \in 1 .. k + 1}
    BY <1>1, <1>2, <2>5
  <2>8. EachOnce(t, c, k + 1)
    BY <2>2, <2>6, <2>7 DEF EachOnce
  <2> QED
    BY <2>1, <2>8 DEF x
<1> QED
  BY <1>3, <1>4

LEMMA GrownIsOnce ==
  ASSUME NEW met, NEW c, NEW n \in Nat, IsGrown(met, c, n), \A k \in 1 .. n : c[k] \in Values
  PROVE  EachOnce(met[n], c, n)
<1> DEFINE T == {k \in Nat : k <= n => EachOnce(met[k], c, k)}
<1>1. \A k \in 0 .. n : met[k] = IF k = 0 THEN <<>> ELSE Grown(met[k - 1], c[k])
  BY DEF IsGrown
<1>2. 0 \in T
  <2>1. met[0] = <<>>
    BY <1>1
  <2>2. EachOnce(<<>>, c, 0)
    BY EmptySeq DEF EachOnce
  <2> QED
    BY <2>1, <2>2
<1>3. ASSUME NEW k \in Nat, k \in T PROVE k + 1 \in T
  <2> SUFFICES ASSUME k + 1 <= n PROVE EachOnce(met[k + 1], c, k + 1)
    OBVIOUS
  <2>1. EachOnce(met[k], c, k) /\ k + 1 \in 0 .. n /\ k + 1 \in 1 .. n /\ (k + 1) - 1 = k
    BY <1>3
  <2>2. met[k + 1] = Grown(met[k], c[k + 1])
    BY <1>1, <2>1
  <2> QED
    BY <2>1, <2>2, GrownOnce
<1>4. \A k \in Nat : k \in T
  <2> HIDE DEF T
  <2> QED
    BY <1>2, <1>3, SetInduction
<1> QED
  BY <1>4

\* the elements that the nodes s hold
Contents(s, el) == [k \in 1 .. Len(s) |-> el[s[k]]]

LEMMA ContentsType ==
  ASSUME FieldsOK, NEW s \in Seq(Nodes)
  PROVE  /\ Contents(s, element) \in Seq(Values)
         /\ Len(Contents(s, element)) = Len(s)
         /\ \A k \in 1 .. Len(s) : /\ Contents(s, element)[k] = element[s[k]]
                                   /\ Contents(s, element)[k] \in Values
<1>1. Len(s) \in Nat
  OBVIOUS
<1>2. \A k \in 1 .. Len(s) : s[k] \in Nodes
  BY ElementOfSeq
<1>3. \A k \in 1 .. Len(s) : element[s[k]] \in Values
  BY <1>2 DEF FieldsOK, Values
<1> QED
  BY <1>1, <1>3 DEF Contents

(***************************************************************************)
(* Distinct passes on each element of the list once.                       *)
(***************************************************************************)
LEMMA DistinctIsOnce ==
  ASSUME FieldsOK, NEW s, Chain(s)
  PROVE  EachOnce(Distinct, Contents(s, element), Len(s))
<1> DEFINE c == Contents(s, element)
           elt(k) == Content(Walk(k))
           IsMet(met) == met = [k \in 0 .. length |->
             IF k = 0 THEN <<>>
             ELSE IF \E j \in DOMAIN met[k - 1] : met[k - 1][j] = elt(k - 1) THEN met[k - 1]
             ELSE Append(met[k - 1], elt(k - 1))]
           chosen == CHOOSE met : IsMet(met)
<1>1. Distinct = chosen[length]
  BY DEF Distinct
<1>2. s \in Seq(Nodes) /\ Len(s) \in Nat /\ length = Len(s)
      /\ \A k \in 1 .. Len(s) : s[k] \in Nodes
  BY ChainTypes
<1>3. ASSUME NEW k \in 1 .. Len(s) PROVE elt(k - 1) = c[k]
  <2>1. k - 1 \in Nat /\ k - 1 < Len(s) /\ (k - 1) + 1 = k
    BY <1>2
  <2>2. Walk(k - 1) = s[k]
    BY <2>1, WalkInChain DEF NodeAt
  <2> QED
    BY <1>2, <2>2, ContentsType DEF Content
<1>4. \A k \in 1 .. Len(s) : c[k] \in Values
  BY <1>2, ContentsType
<1> HIDE DEF c, elt
<1>5. ASSUME NEW met PROVE IsMet(met) <=> IsGrown(met, c, length)
  <2> DEFINE a == [k \in 0 .. length |->
               IF k = 0 THEN <<>>
               ELSE IF \E j \in DOMAIN met[k - 1] : met[k - 1][j] = elt(k - 1) THEN met[k - 1]
               ELSE Append(met[k - 1], elt(k - 1))]
             b == [k \in 0 .. length |-> IF k = 0 THEN <<>> ELSE Grown(met[k - 1], c[k])]
  <2>1. \A k \in 0 .. length : k = 0 \/ k \in 1 .. Len(s)
    BY <1>2
  <2>2. \A k \in 0 .. length : a[k] = b[k]
    BY <1>3, <2>1 DEF Grown
  <2>3. a = b
    BY <2>2
  <2> QED
    BY <2>3 DEF IsGrown
<1>6. \E met : IsGrown(met, c, length)
  BY <1>2, GrownExists
<1> HIDE DEF IsMet
<1>7. IsMet(chosen)
  BY <1>5, <1>6, Zenon
<1> HIDE DEF chosen
<1>8. IsGrown(chosen, c, Len(s))
  BY <1>2, <1>5, <1>7
<1> QED
  BY <1>1, <1>2, <1>4, <1>8, GrownIsOnce DEF c

-----------------------------------------------------------------------------
(* The list implements ElementList.                                        *)

Kept == IF open THEN [k \in 1 .. length |-> Content(Walk(k - 1))] ELSE <<>>

LEMMA LinkedContents ==
  ASSUME NEW s, NEW hd, NEW nx, NEW el, LinkedAs(s, hd, nx)
  PROVE  [k \in 1 .. Len(s) |-> IF WalkOf(hd, nx, k - 1) \in Nodes
                                THEN el[WalkOf(hd, nx, k - 1)] ELSE NULL] = Contents(s, el)
<1>1. s \in Seq(Nodes) /\ Len(s) \in Nat
  BY DEF LinkedAs
<1>2. ASSUME NEW k \in 1 .. Len(s)
      PROVE  WalkOf(hd, nx, k - 1) = s[k] /\ s[k] \in Nodes
  <2>1. k - 1 \in Nat /\ k - 1 < Len(s) /\ (k - 1) + 1 = k
    BY <1>1
  <2>2. WalkOf(hd, nx, k - 1) = s[k]
    BY <2>1, WalkFollows DEF NodeAt
  <2> QED
    BY <1>1, <2>2, ElementOfSeq
<1> QED
  BY <1>2 DEF Contents

LEMMA KeptIs ==
  ASSUME NEW s, Chain(s), ~open => length = 0
  PROVE  Kept = Contents(s, element)
<1>1. LinkedAs(s, head, next) /\ length = Len(s)
  BY DEF Chain
<1>2. [k \in 1 .. length |-> Content(Walk(k - 1))] = Contents(s, element)
  BY <1>1, WalkIs, LinkedContents DEF Content
<1>3. ~open => Contents(s, element) = <<>>
  BY <1>1 DEF Contents
<1> QED
  BY <1>2, <1>3 DEF Kept

LEMMA KeptIsNext ==
  ASSUME NEW s, Chain(s)', ~open' => length' = 0
  PROVE  Kept' = Contents(s, element')
<1>1. LinkedAs(s, head', next') /\ length' = Len(s)
  BY DEF Chain
<1>2. [k \in 1 .. length' |-> IF WalkOf(head', next', k - 1) \in Nodes
                              THEN element'[WalkOf(head', next', k - 1)] ELSE NULL]
        = Contents(s, element')
  BY <1>1, LinkedContents
<1>3. [k \in 1 .. length |-> Content(Walk(k - 1))]' = Contents(s, element')
  BY <1>2, WalkIsNext DEF Content
<1>4. ~open' => Contents(s, element') = <<>>
  BY <1>1 DEF Contents
<1> QED
  BY <1>3, <1>4 DEF Kept

LEMMA SequenceIsFunction ==
  ASSUME NEW S, NEW s \in Seq(S), NEW n, Len(s) = n
  PROVE  s = [k \in 1 .. n |-> s[k]]
BY LenProperties

LEMMA ContentsOfAppend ==
  ASSUME NEW s \in Seq(Nodes), NEW n \in Nodes, NEW e \in Values,
         NEW el \in [Nodes -> Values], \A k \in 1 .. Len(s) : s[k] # n
  PROVE  Contents(Append(s, n), [el EXCEPT ![n] = e]) = Append(Contents(s, el), e)
<1> DEFINE t == Append(s, n)
           f == [el EXCEPT ![n] = e]
           c == Contents(s, el)
<1>1. /\ Len(s) \in Nat /\ Len(t) = Len(s) + 1
      /\ \A k \in 1 .. Len(s) : t[k] = s[k] /\ s[k] \in Nodes
      /\ t[Len(s) + 1] = n
  BY AppendProperties, ElementOfSeq
<1>2. f[n] = e /\ \A x \in Nodes : x # n => f[x] = el[x]
  OBVIOUS
<1>3. c = [k \in 1 .. Len(s) |-> el[s[k]]]
  BY DEF Contents
<1>4. Append(c, e) = [k \in 1 .. Len(s) + 1 |-> IF k <= Len(s) THEN el[s[k]] ELSE e]
  <2> DEFINE m == Append(c, e)
  <2>1. c \in Seq(Values) /\ Len(c) = Len(s) /\ \A k \in 1 .. Len(s) : c[k] = el[s[k]]
    BY <1>1, <1>3
  <2>2. /\ m \in Seq(Values) /\ Len(m) = Len(s) + 1
        /\ \A k \in 1 .. Len(s) : m[k] = el[s[k]]
        /\ m[Len(s) + 1] = e
    BY <2>1, AppendProperties
  <2> HIDE DEF m
  <2>3. m = [k \in 1 .. Len(s) + 1 |-> m[k]]
    BY <2>2, SequenceIsFunction
  <2>4. \A k \in 1 .. Len(s) + 1 : m[k] = IF k <= Len(s) THEN el[s[k]] ELSE e
    BY <1>1, <2>2
  <2> QED
    BY <2>3, <2>4 DEF m
<1> HIDE DEF t, f, c
<1>5. \A k \in 1 .. Len(s) + 1 : k \in 1 .. Len(s) \/ (k = Len(s) + 1 /\ ~(k <= Len(s)))
  BY <1>1
<1>6. \A k \in 1 .. Len(s) + 1 : f[t[k]] = IF k <= Len(s) THEN el[s[k]] ELSE e
  BY <1>1, <1>2, <1>5
<1>7. Contents(t, f) = [k \in 1 .. Len(s) + 1 |-> IF k <= Len(s) THEN el[s[k]] ELSE e]
  BY <1>1, <1>6 DEF Contents
<1> QED
  BY <1>4, <1>7 DEF t, f, c

LEMMA ContentsOfDrop ==
  ASSUME NEW s \in Seq(Nodes), NEW el, NEW i \in Nat, i < Len(s),
         \A k \in 1 .. Len(s) : Contents(s, el)[k] \in Values
  PROVE  Contents(Drop(s, i), el)
           = SubSeq(Contents(s, el), 1, i) \o SubSeq(Contents(s, el), i + 2, Len(Contents(s, el)))
<1> DEFINE c == Contents(s, el)
           a == SubSeq(c, 1, i)
           b == SubSeq(c, i + 2, Len(c))
           d == Contents(Drop(s, i), el)
<1>1. /\ Len(s) \in Nat /\ Len(c) = Len(s) /\ i + 1 <= Len(s)
      /\ \A k \in 1 .. Len(s) : c[k] = el[s[k]]
  BY DEF Contents
<1>2. /\ Len(Drop(s, i)) = Len(s) - 1
      /\ \A k \in 1 .. Len(s) - 1 : Drop(s, i)[k] = IF k <= i THEN s[k] ELSE s[k + 1]
  BY DropProperties
<1>3. /\ a \in Seq(Values) /\ Len(a) = i
      /\ \A k \in 1 .. i : a[k] = c[k]
  <2>1. \A k \in 1 .. i : c[k] \in Values
    BY <1>1
  <2> QED
    BY <1>1, <2>1, SubSeqProperties
<1>4. /\ b \in Seq(Values) /\ Len(b) = Len(s) - i - 1
      /\ \A k \in 1 .. Len(s) - i - 1 : b[k] = c[k + i + 1]
  <2>1. i + 2 \in Int /\ Len(c) \in Int /\ \A k \in i + 2 .. Len(c) : c[k] \in Values
    BY <1>1
  <2>2. /\ b \in Seq(Values)
        /\ Len(b) = IF i + 2 <= Len(c) THEN Len(c) - (i + 2) + 1 ELSE 0
        /\ \A k \in 1 .. Len(c) - (i + 2) + 1 : b[k] = c[(i + 2) + k - 1]
    BY <2>1, SubSeqProperties
  <2>3. Len(b) = Len(s) - i - 1 /\ Len(c) - (i + 2) + 1 = Len(s) - i - 1
    BY <1>1, <2>2
  <2>4. \A k \in 1 .. Len(s) - i - 1 : (i + 2) + k - 1 = k + i + 1
    BY <1>1
  <2> QED
    BY <2>2, <2>3, <2>4
<1> HIDE DEF a, b
<1>5. /\ a \o b \in Seq(Values) /\ Len(a \o b) = Len(s) - 1
      /\ \A k \in 1 .. Len(s) - 1 : (a \o b)[k] = IF k <= i THEN a[k] ELSE b[k - i]
  <2>0. a \in Seq(Values) /\ b \in Seq(Values)
    BY <1>3, <1>4
  <2>1. /\ a \o b \in Seq(Values) /\ Len(a \o b) = Len(a) + Len(b)
        /\ \A k \in 1 .. Len(a) + Len(b) : (a \o b)[k] = IF k <= Len(a) THEN a[k] ELSE b[k - Len(a)]
    BY <2>0, ConcatProperties, Zenon
  <2>2. Len(a) + Len(b) = Len(s) - 1 /\ Len(a) = i
    BY <1>1, <1>3, <1>4
  <2> QED
    BY <2>1, <2>2
<1>6. ASSUME NEW k \in 1 .. Len(s) - 1 PROVE (a \o b)[k] = c[IF k <= i THEN k ELSE k + 1]
  <2>1. CASE k <= i
    <3>1. k \in 1 .. i
      BY <2>1
    <3> QED
      BY <1>3, <1>5, <2>1, <3>1
  <2>2. CASE ~(k <= i)
    <3>1. k - i \in 1 .. Len(s) - i - 1 /\ (k - i) + i + 1 = k + 1
      BY <1>1, <2>2
    <3>2. b[k - i] = c[k + 1]
      BY <1>4, <3>1
    <3> QED
      BY <1>5, <2>2, <3>2
  <2> QED
    BY <2>1, <2>2
<1>7. d = [k \in 1 .. Len(s) - 1 |-> (a \o b)[k]]
  <2>1. ASSUME NEW k \in 1 .. Len(s) - 1 PROVE el[Drop(s, i)[k]] = (a \o b)[k]
    <3>1. k \in 1 .. Len(s) /\ k + 1 \in 1 .. Len(s)
      BY <1>1
    <3> QED
      BY <1>1, <1>2, <1>6, <3>1
  <2> QED
    BY <1>2, <2>1 DEF Contents
<1>8. a \o b = [k \in 1 .. Len(s) - 1 |-> (a \o b)[k]]
  BY <1>5, SequenceIsFunction
<1> QED
  BY <1>7, <1>8 DEF a, b

LEMMA OpensImplement ==
  ASSUME ListInv, fault = "none", Create \/ Delete
  PROVE  Sequence!Next
<1>1. ~open => length = 0
  BY DEF ListInv, StatusOK
<1>2. PICK s : Chain(s)
  BY DEF ListInv
<1>3. CASE Create
  <2>1. open' = TRUE /\ ~open /\ length' = 0 /\ answer' = NULL /\ deleted' = <<>> /\ fault' = fault
    BY <1>3 DEF Create, Answers
  <2>2. Kept = <<>> /\ Kept' = <<>>
    BY <2>1 DEF Kept
  <2>3. Sequence!Open
    BY <2>1, <2>2 DEF Kept, Sequence!Open, Sequence!Answers
  <2> QED
    BY <2>3 DEF Sequence!Next
<1>4. CASE Delete
  <2>1. open /\ open' = FALSE /\ answer' = OK /\ deleted' = <<>>
    BY <1>4 DEF Delete
  <2>2. fault' = fault
    BY <1>2, <1>4, DeleteEmpties
  <2>3. Kept' = <<>>
    BY <2>1 DEF Kept
  <2>4. Sequence!Close
    BY <2>1, <2>2, <2>3 DEF Kept, Sequence!Close, Sequence!Answers, OK, Sequence!OK
  <2> QED
    BY <2>4 DEF Sequence!Next
<1> QED
  BY <1>3, <1>4

LEMMA AddImplements ==
  ASSUME ListInv, fault = "none", NEW e \in Elements, Add(e)
  PROVE  Sequence!Next
<1>1. FieldsOK /\ (~open => length = 0)
  BY DEF ListInv, StatusOK
<1>2. PICK s : Chain(s)
  BY DEF ListInv
<1>3. PICK n \in Nodes \ heap : /\ Chain(Append(s, n))'
                                /\ element' = [element EXCEPT ![n] = e]
                                /\ UNCHANGED <<open, fault>>
  BY <1>1, <1>2, AddChain
<1>4. open /\ answer' = OK /\ deleted' = <<>>
  BY DEF Add
<1>5. Kept = Contents(s, element)
  BY <1>1, <1>2, KeptIs
<1>6. Kept' = Contents(Append(s, n), element')
  BY <1>3, <1>4, KeptIsNext
<1>7. Contents(Append(s, n), element') = Append(Contents(s, element), e)
  <2>1. s \in Seq(Nodes) /\ \A k \in 1 .. Len(s) : s[k] # n
    BY <1>2, ChainTypes
  <2>2. element \in [Nodes -> Values] /\ e \in Values
    BY <1>1 DEF FieldsOK, Values
  <2> QED
    BY <1>3, <2>1, <2>2, ContentsOfAppend
<1>8. Kept' = Append(Kept, e)
  BY <1>5, <1>6, <1>7
<1>9. Sequence!Add(e)
  BY <1>3, <1>4, <1>8 DEF Kept, Sequence!Add, Sequence!Answers, OK, Sequence!OK
<1> QED
  BY <1>3, <1>4, <1>9 DEF Sequence!Next, Sequence!Operation

LEMMA RemoveImplements ==
  ASSUME ListInv, fault = "none", NEW i \in Indices, Remove(i)
  PROVE  Sequence!Next
<1>1. FieldsOK /\ (~open => length = 0)
  BY DEF ListInv, StatusOK
<1>2. PICK s : Chain(s)
  BY DEF ListInv
<1>3. /\ i \in Nat /\ i < Len(s)
      /\ Chain(Drop(s, i))'
      /\ answer' = element[s[i + 1]]
      /\ UNCHANGED <<open, element, fault>>
  BY <1>1, <1>2, IndexAssumption, RemoveChain
<1>4. open /\ deleted' = <<>>
  BY DEF Remove
<1> DEFINE c == Contents(s, element)
<1>5. /\ s \in Seq(Nodes) /\ Len(s) \in Nat /\ Len(c) = Len(s)
      /\ \A k \in 1 .. Len(s) : c[k] = element[s[k]] /\ c[k] \in Values
  BY <1>1, <1>2, ChainTypes, ContentsType
<1>6. Kept = c
  BY <1>1, <1>2, KeptIs
<1>7. Kept' = Contents(Drop(s, i), element)
  BY <1>3, <1>4, KeptIsNext
<1>8. Contents(Drop(s, i), element) = SubSeq(c, 1, i) \o SubSeq(c, i + 2, Len(c))
  <2>1. PICK el : el = element
    OBVIOUS
  <2>2. /\ s \in Seq(Nodes) /\ i \in Nat /\ i < Len(s)
        /\ \A k \in 1 .. Len(s) : Contents(s, el)[k] \in Values
    BY <1>3, <1>5, <2>1
  <2>3. Contents(Drop(s, i), el)
          = SubSeq(Contents(s, el), 1, i) \o SubSeq(Contents(s, el), i + 2, Len(Contents(s, el)))
    BY <2>2, ContentsOfDrop, Zenon
  <2> QED
    BY <2>1, <2>3
<1> HIDE DEF c
<1>9. i \in 0 .. Len(Kept) - 1
  BY <1>3, <1>5, <1>6
<1>10. Kept' = SubSeq(Kept, 1, i) \o SubSeq(Kept, i + 2, Len(Kept)) /\ answer' = Kept[i + 1]
  <2>1. i + 1 \in 1 .. Len(s)
    BY <1>3, <1>5
  <2> QED
    BY <1>3, <1>5, <1>6, <1>7, <1>8, <2>1
<1>11. Sequence!Remove(i)
  BY <1>3, <1>4, <1>9, <1>10
  DEF Kept, Sequence!Remove, Sequence!Has, Sequence!At, Sequence!Without, Sequence!Answers
<1> QED
  BY <1>3, <1>4, <1>11 DEF Sequence!Next, Sequence!Operation

LEMMA LookupImplements ==
  ASSUME ListInv, fault = "none", NEW i \in Indices, Get(i) \/ OutOfRange(i)
  PROVE  Sequence!Next
<1>1. FieldsOK /\ (~open => length = 0)
  BY DEF ListInv, StatusOK
<1>2. PICK s : Chain(s)
  BY DEF ListInv
<1>3. s \in Seq(Nodes) /\ Len(s) \in Nat /\ length = Len(s)
      /\ \A k \in 1 .. Len(s) : s[k] \in Nodes
  BY <1>2, ChainTypes
<1>4. UNCHANGED <<list, nodes>> /\ open /\ deleted' = <<>> /\ i \in Int
  BY IndexAssumption DEF Get, OutOfRange, Answers
<1>5. Kept = Contents(s, element)
  BY <1>1, <1>2, KeptIs
<1>6. Kept' = Kept /\ UNCHANGED open
  <2>1. Chain(s)' /\ UNCHANGED <<open, length, element>>
    BY <1>1, <1>2, <1>4, ChainStutter DEF nodes
  <2>2. Kept' = Contents(s, element')
    BY <1>1, <2>1, KeptIsNext
  <2> QED
    BY <1>5, <2>1, <2>2
<1>7. /\ Len(Kept) = Len(s)
      /\ \A k \in 1 .. Len(s) : Kept[k] = element[s[k]]
  BY <1>1, <1>3, <1>5, ContentsType
<1>8. InRange(i) <=> i \in 0 .. Len(Kept) - 1
  BY <1>3, <1>4, <1>7 DEF InRange
<1>9. CASE Get(i)
  <2>1. InRange(i) /\ Touches({Walk(j) : j \in 0 .. i}) /\ answer' = Content(Walk(i))
    BY <1>9 DEF Get
  <2>2. /\ i \in Nat /\ i < Len(s) /\ i + 1 \in 1 .. Len(s)
        /\ {Walk(j) : j \in 0 .. i} \subseteq heap
    BY <1>2, <1>4, <2>1, NeverCutShort
  <2>3. fault' = fault
    BY <2>1, <2>2 DEF Touches
  <2>4. Walk(i) = s[i + 1]
    BY <1>2, <2>2, WalkInChain DEF NodeAt
  <2>5. answer' = Kept[i + 1]
    BY <1>3, <1>7, <2>1, <2>2, <2>4 DEF Content
  <2>6. Sequence!Get(i)
    BY <1>4, <1>6, <1>8, <2>1, <2>3, <2>5
    DEF Kept, Sequence!Get, Sequence!Has, Sequence!At, Sequence!Answers
  <2> QED
    BY <1>4, <1>6, <2>6 DEF Sequence!Next, Sequence!Operation
<1>10. CASE OutOfRange(i)
  <2>1. (~InRange(i) \/ CutShort(i)) /\ answer' = NULL /\ fault' = fault
    BY <1>10 DEF OutOfRange, Answers
  <2>2. ~InRange(i)
    BY <1>2, <1>4, <2>1, NeverCutShort
  <2>3. Sequence!Get(i)
    BY <1>4, <1>6, <1>8, <2>1, <2>2
    DEF Kept, Sequence!Get, Sequence!Has, Sequence!At, Sequence!Answers
  <2> QED
    BY <1>4, <1>6, <2>3 DEF Sequence!Next, Sequence!Operation
<1> QED
  BY <1>9, <1>10

LEMMA LengthImplements ==
  ASSUME ListInv, fault = "none", Length \/ AddFails
  PROVE  Sequence!Next
<1>1. FieldsOK /\ (~open => length = 0)
  BY DEF ListInv, StatusOK
<1>2. PICK s : Chain(s)
  BY DEF ListInv
<1>3. UNCHANGED <<list, nodes, fault>> /\ open /\ deleted' = <<>>
  BY DEF Length, AddFails, Answers
<1>4. Kept = Contents(s, element)
  BY <1>1, <1>2, KeptIs
<1>5. Kept' = Kept /\ UNCHANGED open
  <2>1. Chain(s)' /\ UNCHANGED <<open, length, element>>
    BY <1>1, <1>2, <1>3, ChainStutter DEF nodes
  <2>2. Kept' = Contents(s, element')
    BY <1>1, <2>1, KeptIsNext
  <2> QED
    BY <1>4, <2>1, <2>2
<1>6. Len(Kept) = length
  BY <1>1, <1>2, <1>4, ChainTypes, ContentsType
<1>7. CASE Length
  <2>1. answer' = Len(Kept)
    BY <1>6, <1>7 DEF Length, Answers
  <2>2. Sequence!Length
    BY <1>3, <1>5, <2>1 DEF Kept, Sequence!Length, Sequence!Answers
  <2> QED
    BY <1>3, <1>5, <2>2 DEF Sequence!Next, Sequence!Operation
<1>8. CASE AddFails
  <2>1. answer' = Sequence!ERROR
    BY <1>8 DEF AddFails, Answers, ERROR, Sequence!ERROR
  <2>2. Sequence!AddFails
    BY <1>3, <1>5, <2>1 DEF Kept, Sequence!AddFails, Sequence!Answers
  <2> QED
    BY <1>3, <1>5, <2>2 DEF Sequence!Next, Sequence!Operation
<1> QED
  BY <1>7, <1>8

LEMMA DeleteElementsImplements ==
  ASSUME ListInv, fault = "none", DeleteElements
  PROVE  Sequence!Next
<1>1. FieldsOK /\ (~open => length = 0)
  BY DEF ListInv, StatusOK
<1>2. PICK s : Chain(s)
  BY DEF ListInv
<1>3. UNCHANGED <<list, nodes>> /\ open
  BY DEF DeleteElements
<1>4. Kept = Contents(s, element)
  BY <1>1, <1>2, KeptIs
<1>5. Kept' = Kept /\ UNCHANGED open
  <2>1. Chain(s)' /\ UNCHANGED <<open, length, element>>
    BY <1>1, <1>2, <1>3, ChainStutter DEF nodes
  <2>2. Kept' = Contents(s, element')
    BY <1>1, <2>1, KeptIsNext
  <2> QED
    BY <1>4, <2>1, <2>2
<1>6. CASE fault' = "null_array" /\ UNCHANGED <<answer, deleted>>
  <2>1. Sequence!Crash
    BY <1>5, <1>6 DEF Kept, Sequence!Crash
  <2> QED
    BY <1>3, <1>5, <2>1 DEF Sequence!Next, Sequence!Operation
<1>7. CASE /\ Touches({Walk(j) : j \in 0 .. length - 1})
           /\ deleted' = IF fault' = "none" THEN Distinct ELSE <<>>
           /\ answer' = OK
  <2>1. fault' = fault
    BY <1>2, <1>7, VisitedIsHeap DEF Touches
  <2>2. deleted' = Distinct
    BY <1>7, <2>1
  <2>3. EachOnce(deleted', Contents(s, element), Len(s))
    BY <1>1, <1>2, <2>2, DistinctIsOnce
  <2>4. s \in Seq(Nodes) /\ Len(s) \in Nat
    BY <1>2, ChainTypes
  <2>5. DOMAIN Kept = 1 .. Len(s)
    BY <1>4 DEF Contents
  <2>6. {deleted'[k] : k \in DOMAIN deleted'} = {Kept[k] : k \in DOMAIN Kept}
    BY <1>4, <2>3, <2>5 DEF EachOnce
  <2>7. \A j, k \in DOMAIN deleted' : deleted'[j] = deleted'[k] => j = k
    BY <2>3 DEF EachOnce
  <2>8. Sequence!DeleteElements
    BY <1>5, <1>7, <2>1, <2>6, <2>7 DEF Kept, Sequence!DeleteElements, OK, Sequence!OK
  <2> QED
    BY <1>3, <1>5, <2>8 DEF Sequence!Next, Sequence!Operation
<1> QED
  BY <1>6, <1>7 DEF DeleteElements

(***************************************************************************)
(* For a list of any length: order, answers, and what                      *)
(* llist_delete_elements frees are those of a sequence of elements.        *)
(***************************************************************************)
THEOREM ListIsElementList == ListSpec => IsElementList
<1>1. ListInit => Sequence!Init
  BY DEF ListInit, Sequence!Init
<1>2. ASSUME ListInv, [ListNext]_listVars PROVE [Sequence!Next]_Sequence!vars
  <2>1. CASE UNCHANGED listVars
    <3>1. UNCHANGED <<open, length, head, next, element, fault, answer, deleted>>
      BY <2>1 DEF listVars, list, nodes
    <3>2. \A i : Walk(i)' = Walk(i)
      BY <3>1, WalkIs, WalkIsNext
    <3>3. Kept' = Kept
      BY <3>1, <3>2 DEF Kept, Content
    <3> QED
      BY <3>1, <3>3 DEF Kept, Sequence!vars
  <2>2. CASE ListNext
    <3>1. fault = "none"
      BY <2>2 DEF ListNext
    <3> QED
      BY <1>2, <2>2, <3>1, OpensImplement, AddImplements, RemoveImplements, LookupImplements,
         LengthImplements, DeleteElementsImplements DEF ListNext
  <2> QED
    BY <1>2, <2>1, <2>2
<1> QED
  BY <1>1, <1>2, ListInvariant, PTL DEF ListSpec, IsElementList, Sequence!Spec

-----------------------------------------------------------------------------
(* Base64.                                                                 *)

Octet == 0 .. 255
Sextet == 0 .. 63

\* As long as no NUL is decoded, | adds: its operands share no bit.
LEMMA OrAdds ==
  ASSUME NEW a \in Nat, NEW b \in Nat, NEW u \in Nat, b < u
  PROVE  Or(a, b, u) = a + b
BY DEF Or

\* x, y and z share the four sextets x' , p, q and z % 64 of their block.
LEMMA FirstSextets ==
  ASSUME NEW x \in Octet, NEW y \in Octet,
         NEW p, p = (x % 4) * 16 + y \div 16
  PROVE  /\ x \div 4 \in Sextet /\ p \in Sextet
         /\ p \div 16 \in 0 .. 3
         /\ ((x \div 4) * 4 + p \div 16) % 256 = x
BY DEF Octet, Sextet

LEMMA MiddleSextets ==
  ASSUME NEW x \in Octet, NEW y \in Octet, NEW z \in Octet,
         NEW p, p = (x % 4) * 16 + y \div 16,
         NEW q, q = (y % 16) * 4 + z \div 64
  PROVE  /\ q \in Sextet
         /\ q \div 4 \in 0 .. 15
         /\ (p * 16 + q \div 4) % 256 = y
BY DEF Octet, Sextet

LEMMA LastSextets ==
  ASSUME NEW y \in Octet, NEW z \in Octet,
         NEW q, q = (y % 16) * 4 + z \div 64
  PROVE  /\ z % 64 \in Sextet
         /\ (q * 64) % 256 \in Octet
         /\ (((q * 64) % 256) + (z % 64)) % 256 = z
BY DEF Octet, Sextet

Block == [1 .. 3 -> Octet]
\* what base64_encode_l puts where there are no more bytes
Padded(bytes, l) == \A k \in 1 .. 3 : k > l => bytes[k] = 0
\* the characters of an encoded block that base64_decode reads
Read(bytes, l) == Prefix(EncodeBlock(bytes, l), l + 1)

LEMMA DecodeEncoded ==
  ASSUME NEW x \in Octet, NEW y \in Octet, NEW z \in Octet,
         NEW p, p = (x % 4) * 16 + y \div 16,
         NEW q, q = (y % 16) * 4 + z \div 64
  PROVE  DecodeBlock(<<x \div 4, p, q, z % 64>>) = <<x, y, z>>
<1>0. /\ p \in Sextet /\ p \div 16 \in 0 .. 3 /\ x \div 4 \in Sextet
      /\ ((x \div 4) * 4 + p \div 16) % 256 = x
      /\ q \in Sextet /\ q \div 4 \in 0 .. 15 /\ (p * 16 + q \div 4) % 256 = y
      /\ z % 64 \in Sextet /\ (q * 64) % 256 \in Octet
      /\ (((q * 64) % 256) + (z % 64)) % 256 = z
  <2>1. /\ p \in Sextet /\ p \div 16 \in 0 .. 3 /\ x \div 4 \in Sextet
        /\ ((x \div 4) * 4 + p \div 16) % 256 = x
    BY FirstSextets
  <2>2. q \in Sextet /\ q \div 4 \in 0 .. 15 /\ (p * 16 + q \div 4) % 256 = y
    BY MiddleSextets
  <2>3. /\ z % 64 \in Sextet /\ (q * 64) % 256 \in Octet
        /\ (((q * 64) % 256) + (z % 64)) % 256 = z
    BY LastSextets
  <2> QED
    BY <2>1, <2>2, <2>3
<1> USE DEF Octet, Sextet
<1>1. Or((x \div 4) * 4, p \div 16, 4) = (x \div 4) * 4 + p \div 16
  <2>1. (x \div 4) * 4 \in Nat /\ p \div 16 \in Nat /\ p \div 16 < 4
    BY <1>0
  <2> QED
    BY <2>1, OrAdds
<1>2. Or(p * 16, q \div 4, 16) = p * 16 + q \div 4
  <2>1. p * 16 \in Nat /\ q \div 4 \in Nat /\ q \div 4 < 16
    BY <1>0
  <2> QED
    BY <2>1, OrAdds
<1>3. Or((q * 64) % 256, z % 64, 64) = ((q * 64) % 256) + (z % 64)
  <2>1. (q * 64) % 256 \in Nat /\ z % 64 \in Nat /\ z % 64 < 64
    BY <1>0
  <2> QED
    BY <2>1, OrAdds
<1> QED
  BY <1>0, <1>1, <1>2, <1>3 DEF DecodeBlock

(***************************************************************************)
(* Each block that base64_encode_l writes, the padded last one too, is     *)
(* decoded to the bytes it was made of; its characters are in the table    *)
(* and its padding is not.                                                 *)
(***************************************************************************)
THEOREM BlockRoundTrip ==
  ASSUME NEW bytes \in Block, NEW l \in 1 .. 3, Padded(bytes, l)
  PROVE  /\ \A k \in 1 .. 4 : InTable(EncodeBlock(bytes, l)[k]) <=> k <= l + 1
         /\ DecodedBytes(Read(bytes, l)) = Prefix(bytes, l)
<1> DEFINE x == bytes[1]  y == bytes[2]  z == bytes[3]
           p == (x % 4) * 16 + y \div 16
           q == (y % 16) * 4 + z \div 64
<1>1. x \in Octet /\ y \in Octet /\ z \in Octet
  BY DEF Block
<1>p. p = (x % 4) * 16 + y \div 16 /\ q = (y % 16) * 4 + z \div 64
  OBVIOUS
<1>b. <<x, y, z>> = <<bytes[1], bytes[2], bytes[3]>>
  OBVIOUS
<1>3. EncodeBlock(bytes, l) =
        <<x \div 4, p, IF l > 1 THEN q ELSE PAD, IF l > 2 THEN z % 64 ELSE PAD>>
  BY DEF EncodeBlock
<1> HIDE DEF x, y, z, p, q
<1>2. x \div 4 \in Sextet /\ p \in Sextet /\ q \in Sextet /\ z % 64 \in Sextet
  <2>1. x \div 4 \in Sextet /\ p \in Sextet
    BY <1>1, <1>p, FirstSextets
  <2>2. q \in Sextet
    BY <1>1, <1>p, MiddleSextets
  <2>3. z % 64 \in Sextet
    BY <1>1, <1>p, LastSextets
  <2> QED
    BY <2>1, <2>2, <2>3
<1>4. \A k \in 1 .. 4 : InTable(EncodeBlock(bytes, l)[k]) <=> k <= l + 1
  BY <1>2, <1>3 DEF InTable, NUL, PAD, Sextet
<1>5. DecodeBlock(<<x \div 4, p, q, z % 64>>) = <<x, y, z>>
  BY <1>1, <1>p, DecodeEncoded
<1>6. Read(bytes, l) = [k \in 1 .. l + 1 |-> <<x \div 4, p, q, z % 64>>[k]]
  BY <1>3 DEF Read, Prefix
<1>7. \A k \in 1 .. 4 : k > l + 1 => <<x \div 4, p, q, z % 64>>[k] = 0
  BY DEF Padded, x, y, z, p, q
<1>8. [k \in 1 .. 4 |-> IF k <= Len(Read(bytes, l)) THEN Read(bytes, l)[k] ELSE 0]
        = <<x \div 4, p, q, z % 64>>
  BY <1>6, <1>7
<1>9. DecodedBytes(Read(bytes, l)) = Prefix(<<x, y, z>>, l)
  <2>1. Len(Read(bytes, l)) - 1 = l
    BY <1>6
  <2> QED
    BY <1>5, <1>8, <2>1 DEF DecodedBytes
<1> QED
  BY <1>4, <1>9 DEF Block, Prefix, x, y, z

-----------------------------------------------------------------------------
(* The characters of the table that an input is encoded to, of which       *)
(* letter k belongs to block (k - 1) \div 4.                               *)

BlockLength(s, b) == IF Len(s) - 3 * b < 3 THEN Len(s) - 3 * b ELSE 3
BlockBytes(s, b) == [k \in 1 .. 3 |-> IF 3 * b + k <= Len(s) THEN s[3 * b + k] ELSE 0]
Encoded(s, b) == EncodeBlock(BlockBytes(s, b), BlockLength(s, b))
Letter(s, k) == Encoded(s, (k - 1) \div 4)[((k - 1) % 4) + 1]

\* how many letters n bytes are encoded to
Letters(n) == 4 * (n \div 3) + (IF n % 3 = 0 THEN 0 ELSE (n % 3) + 1)

\* The text t holds the first m letters of s, and else what is not in the
\* table: C[j] letters are among its first j characters.
Counts(C, t, s, m) ==
  /\ C \in [0 .. Len(t) -> 0 .. m]
  /\ C[0] = 0 /\ C[Len(t)] = m
  /\ \A j \in 1 .. Len(t) :
       IF InTable(t[j]) THEN C[j] = C[j - 1] + 1 /\ t[j] = Letter(s, C[j])
       ELSE C[j] = C[j - 1]
Holds(t, s, m) == \E C : Counts(C, t, s, m)

\* u adds e letters to m that are there.
Adds(u, s, m, e) ==
  /\ e \in 0 .. Len(u)
  /\ \A j \in 1 .. Len(u) : InTable(u[j]) <=> j <= e
  /\ \A j \in 1 .. e : u[j] = Letter(s, m + j)

LEMMA AddLetters ==
  ASSUME NEW t \in Seq(Nat), NEW u \in Seq(Nat), NEW s, NEW m \in Nat, NEW e \in Nat,
         Holds(t, s, m), Adds(u, s, m, e)
  PROVE  Holds(t \o u, s, m + e)
<1> DEFINE v == t \o u
           l == Len(t)
           n == Len(u)
<1>1. PICK C : Counts(C, t, s, m)
  BY DEF Holds
<1>2. l \in Nat /\ n \in Nat /\ e <= n
  BY DEF Adds
<1>3. v \in Seq(Nat) /\ Len(v) = l + n /\ \A j \in 1 .. l + n : v[j] = IF j <= l THEN t[j] ELSE u[j - l]
  BY ConcatProperties, Zenon
<1>4. /\ C \in [0 .. l -> 0 .. m] /\ C[0] = 0 /\ C[l] = m
      /\ \A j \in 1 .. l : IF InTable(t[j]) THEN C[j] = C[j - 1] + 1 /\ t[j] = Letter(s, C[j])
                           ELSE C[j] = C[j - 1]
  BY <1>1 DEF Counts
<1>5. /\ \A j \in 1 .. n : InTable(u[j]) <=> j <= e
      /\ \A j \in 1 .. e : u[j] = Letter(s, m + j)
  BY DEF Adds
<1> DEFINE More(j) == IF j - l < e THEN j - l ELSE e
           D == [j \in 0 .. l + n |-> IF j <= l THEN C[j] ELSE m + More(j)]
<1> HIDE DEF v, l, n
<1>6. D \in [0 .. l + n -> 0 .. m + e]
  <2> SUFFICES ASSUME NEW j \in 0 .. l + n
               PROVE  (IF j <= l THEN C[j] ELSE m + More(j)) \in 0 .. m + e
    OBVIOUS
  <2>1. CASE j <= l
    <3>1. C[j] \in 0 .. m
      BY <1>2, <1>4, <2>1
    <3> QED
      BY <2>1, <3>1
  <2>2. CASE ~(j <= l)
    <3>1. More(j) \in 0 .. e
      BY <1>2, <2>2
    <3> HIDE DEF More
    <3> QED
      BY <2>2, <3>1
  <2> QED
    BY <2>1, <2>2
<1>7. D[0] = 0 /\ D[l + n] = m + e
  <2>1. 0 \in 0 .. l + n /\ l + n \in 0 .. l + n /\ 0 <= l
    BY <1>2
  <2>2. CASE n = 0
    BY <1>2, <1>4, <2>1, <2>2
  <2>3. CASE n # 0
    <3>1. ~(l + n <= l) /\ More(l + n) = e
      BY <1>2, <2>3
    <3> HIDE DEF More
    <3> QED
      BY <1>4, <2>1, <3>1
  <2> QED
    BY <2>2, <2>3
<1>8. ASSUME NEW j \in 1 .. l + n
      PROVE  IF InTable(v[j]) THEN D[j] = D[j - 1] + 1 /\ v[j] = Letter(s, D[j])
             ELSE D[j] = D[j - 1]
  <2>1. j \in 0 .. l + n /\ j - 1 \in 0 .. l + n
    BY <1>2
  <2>2. CASE j <= l
    <3>1. j \in 1 .. l /\ j - 1 <= l /\ v[j] = t[j]
      BY <1>2, <1>3, <2>2
    <3>2. D[j] = C[j] /\ D[j - 1] = C[j - 1]
      BY <2>1, <2>2, <3>1
    <3> HIDE DEF D
    <3> QED
      BY <1>4, <3>1, <3>2
  <2>3. CASE ~(j <= l)
    <3>1. PICK i \in 1 .. n : i = j - l /\ j = i + l
      BY <1>2, <2>3
    <3>2. v[j] = u[i]
      BY <1>3, <2>3, <3>1
    <3>3. D[j] = m + More(j)
      BY <2>1, <2>3
    <3>4. D[j - 1] = m + More(j - 1)
      <4>1. CASE j - 1 <= l
        <5>1. j - 1 = l /\ More(j - 1) = 0
          BY <1>2, <2>3, <4>1
        <5> HIDE DEF More
        <5> QED
          BY <1>4, <2>1, <5>1
      <4>2. CASE ~(j - 1 <= l)
        BY <2>1, <4>2
      <4> QED
        BY <4>1, <4>2
    <3>5. CASE i <= e
      <4>1. More(j) = i /\ More(j - 1) = i - 1
        BY <1>2, <3>1, <3>5
      <4>2. InTable(u[i]) /\ u[i] = Letter(s, m + i) /\ m + i = m + (i - 1) + 1
        BY <1>5, <3>5
      <4> HIDE DEF D, More
      <4> QED
        BY <3>2, <3>3, <3>4, <4>1, <4>2
    <3>6. CASE ~(i <= e)
      <4>1. More(j) = e /\ More(j - 1) = e
        BY <1>2, <3>1, <3>6
      <4>2. ~InTable(u[i])
        BY <1>5, <3>6
      <4> HIDE DEF D, More
      <4> QED
        BY <3>2, <3>3, <3>4, <4>1, <4>2
    <3> QED
      BY <3>5, <3>6
  <2> QED
    BY <2>2, <2>3
<1> HIDE DEF D
<1>9. Counts(D, v, s, m + e)
  BY <1>3, <1>6, <1>7, <1>8 DEF Counts
<1> QED
  BY <1>9 DEF Holds, v

\* b is what s holds after its first n elements.
Follows(b, s, n) == /\ b \in Seq(Nat) /\ Len(b) = Len(s) - n
                    /\ \A k \in 1 .. Len(s) - n : b[k] = s[n + k]
Leads(b, s, n) == b \in Seq(Nat) /\ Len(b) = n /\ \A k \in 1 .. n : b[k] = s[k]

LEMMA AfterFollows ==
  ASSUME NEW s \in Seq(Nat), NEW n \in 0 .. Len(s)
  PROVE  Follows(After(s, n), s, n)
<1> DEFINE l == Len(s)
           b == SubSeq(s, n + 1, l)
<1>1. l \in Nat /\ n \in Nat /\ n <= l /\ n + 1 \in Int /\ l \in Int
  OBVIOUS
<1>2. \A k \in n + 1 .. l : s[k] \in Nat
  <2>1. \A k \in n + 1 .. l : k \in 1 .. l
    BY <1>1
  <2> QED
    BY <2>1
<1>3. b \in Seq(Nat) /\ Len(b) = IF n + 1 <= l THEN l - (n + 1) + 1 ELSE 0
  BY <1>1, <1>2, SubSeqProperties
<1>4. \A k \in 1 .. l - (n + 1) + 1 : b[k] = s[(n + 1) + k - 1]
  BY <1>1, <1>2, SubSeqProperties
<1> HIDE DEF b, l
<1>5. Len(b) = l - n /\ l - (n + 1) + 1 = l - n
  BY <1>1, <1>3
<1>6. ASSUME NEW k \in 1 .. l - n PROVE b[k] = s[n + k]
  <2>1. (n + 1) + k - 1 = n + k /\ k \in 1 .. l - (n + 1) + 1
    BY <1>1
  <2> QED
    BY <1>4, <2>1
<1> QED
  BY <1>3, <1>5, <1>6 DEF Follows, After, b, l

LEMMA PrefixLeads ==
  ASSUME NEW s \in Seq(Nat), NEW n \in 0 .. Len(s)
  PROVE  Leads(Prefix(s, n), s, n)
<1> DEFINE b == SubSeq(s, 1, n)
<1>1. Prefix(s, n) = b
  BY DEF Prefix
<1>2. \A k \in 1 .. n : s[k] \in Nat
  <2>1. \A k \in 1 .. n : k \in 1 .. Len(s)
    OBVIOUS
  <2> QED
    BY <2>1
<1>3. n \in Int /\ 1 \in Int
  OBVIOUS
<1>4. /\ b \in Seq(Nat) /\ Len(b) = (IF 1 <= n THEN n - 1 + 1 ELSE 0)
      /\ \A k \in 1 .. n - 1 + 1 : b[k] = s[1 + k - 1]
  BY <1>2, <1>3, SubSeqProperties
<1> HIDE DEF b
<1>5. Len(b) = n /\ n - 1 + 1 = n /\ \A k \in 1 .. n : 1 + k - 1 = k
  BY <1>4
<1> QED
  BY <1>1, <1>4, <1>5 DEF Leads

\* A character that is not in the table, put anywhere, changes no letter.
LEMMA InsertForeign ==
  ASSUME NEW t \in Seq(Nat), NEW s, NEW m \in Nat, Holds(t, s, m),
         NEW c \in Nat, ~InTable(c), NEW n \in 0 .. Len(t)
  PROVE  /\ Prefix(t, n) \o <<c>> \o After(t, n) \in Seq(Nat)
         /\ Holds(Prefix(t, n) \o <<c>> \o After(t, n), s, m)
<1> DEFINE a == Prefix(t, n)
           ac == a \o <<c>>
           b == After(t, n)
           v == ac \o b
           l == Len(t)
<1>1. PICK C : Counts(C, t, s, m)
  BY DEF Holds
<1>2. l \in Nat /\ n \in Nat /\ n <= l
  OBVIOUS
<1>3. Leads(a, t, n) /\ Follows(b, t, n)
  BY AfterFollows, PrefixLeads
<1> HIDE DEF a, b
<1>4. /\ a \in Seq(Nat) /\ Len(a) = n /\ \A k \in 1 .. n : a[k] = t[k]
      /\ b \in Seq(Nat) /\ Len(b) = l - n /\ \A k \in 1 .. l - n : b[k] = t[n + k]
  BY <1>3 DEF Leads, Follows
<1>5. /\ ac \in Seq(Nat) /\ Len(ac) = n + 1
      /\ ac[n + 1] = c /\ \A k \in 1 .. n : ac[k] = t[k]
  <2>1. a \in Seq(Nat) /\ <<c>> \in Seq(Nat) /\ Len(<<c>>) = 1 /\ <<c>>[1] = c
    BY <1>4
  <2>2. /\ ac \in Seq(Nat) /\ Len(ac) = Len(a) + Len(<<c>>)
        /\ \A k \in 1 .. Len(a) + Len(<<c>>) :
             ac[k] = IF k <= Len(a) THEN a[k] ELSE <<c>>[k - Len(a)]
    BY <2>1, ConcatProperties, Zenon
  <2> HIDE DEF ac
  <2>3. Len(a) + Len(<<c>>) = n + 1 /\ (n + 1) - n = 1 /\ n + 1 \in 1 .. n + 1
    BY <1>2, <1>4, <2>1
  <2>4. ac[n + 1] = c
    BY <1>2, <1>4, <2>1, <2>2, <2>3
  <2>5. \A k \in 1 .. n : ac[k] = t[k]
    BY <1>2, <1>4, <2>2, <2>3
  <2> QED
    BY <2>2, <2>3, <2>4, <2>5
<1> HIDE DEF ac
<1>6. /\ v \in Seq(Nat) /\ Len(v) = Len(ac) + Len(b)
      /\ \A k \in 1 .. Len(ac) + Len(b) : v[k] = IF k <= Len(ac) THEN ac[k] ELSE b[k - Len(ac)]
  <2>1. ac \in Seq(Nat) /\ b \in Seq(Nat)
    BY <1>4, <1>5
  <2> QED
    BY <2>1, ConcatProperties, Zenon
<1> HIDE DEF v, l
<1>7. /\ v \in Seq(Nat) /\ Len(v) = l + 1
      /\ v[n + 1] = c /\ \A k \in 1 .. n : v[k] = t[k]
      /\ \A k \in n + 2 .. l + 1 : v[k] = t[k - 1]
  <2>1. Len(v) = l + 1 /\ Len(ac) + Len(b) = l + 1 /\ Len(ac) = n + 1
    BY <1>2, <1>4, <1>5, <1>6
  <2>2. \A k \in 1 .. l + 1 : v[k] = IF k <= n + 1 THEN ac[k] ELSE b[k - (n + 1)]
    BY <1>6, <2>1
  <2>3. v[n + 1] = c /\ \A k \in 1 .. n : v[k] = t[k]
    BY <1>2, <1>5, <2>2
  <2>4. ASSUME NEW k \in n + 2 .. l + 1 PROVE v[k] = t[k - 1]
    <3>1. k - (n + 1) \in 1 .. l - n /\ n + (k - (n + 1)) = k - 1 /\ k \in 1 .. l + 1 /\ ~(k <= n + 1)
      BY <1>2
    <3>2. b[k - (n + 1)] = t[n + (k - (n + 1))]
      BY <1>4, <3>1
    <3> QED
      BY <2>2, <3>1, <3>2
  <2> QED
    BY <1>6, <2>1, <2>3, <2>4
<1>8. /\ C \in [0 .. l -> 0 .. m] /\ C[0] = 0 /\ C[l] = m
      /\ \A j \in 1 .. l : IF InTable(t[j]) THEN C[j] = C[j - 1] + 1 /\ t[j] = Letter(s, C[j])
                           ELSE C[j] = C[j - 1]
  BY <1>1 DEF Counts, l
<1> DEFINE D == [j \in 0 .. l + 1 |-> IF j <= n THEN C[j] ELSE C[j - 1]]
<1>9. D \in [0 .. l + 1 -> 0 .. m]
  <2>1. \A j \in 0 .. l + 1 : IF j <= n THEN j \in 0 .. l ELSE j - 1 \in 0 .. l
    BY <1>2
  <2> QED
    BY <1>8, <2>1
<1>10. /\ \A j \in 0 .. n : D[j] = C[j]
       /\ \A j \in n + 1 .. l + 1 : D[j] = C[j - 1]
  <2>1. \A j \in 0 .. n : j \in 0 .. l + 1 /\ j <= n
    BY <1>2
  <2>2. \A j \in n + 1 .. l + 1 : j \in 0 .. l + 1 /\ ~(j <= n)
    BY <1>2
  <2> QED
    BY <2>1, <2>2
<1> HIDE DEF D
<1>11. D[0] = 0 /\ D[l + 1] = m
  <2>1. 0 \in 0 .. n /\ l + 1 \in n + 1 .. l + 1 /\ (l + 1) - 1 = l
    BY <1>2
  <2> QED
    BY <1>8, <1>10, <2>1
<1>12. ASSUME NEW j \in 1 .. l + 1
       PROVE  IF InTable(v[j]) THEN D[j] = D[j - 1] + 1 /\ v[j] = Letter(s, D[j])
              ELSE D[j] = D[j - 1]
  <2>1. CASE j <= n
    <3>1. j \in 0 .. n /\ j - 1 \in 0 .. n /\ j \in 1 .. l /\ j \in 1 .. n
      BY <1>2, <2>1
    <3> QED
      BY <1>7, <1>8, <1>10, <3>1
  <2>2. CASE j = n + 1
    <3>1. n \in 0 .. n /\ n + 1 \in n + 1 .. l + 1 /\ (n + 1) - 1 = n
      BY <1>2
    <3>2. D[n + 1] = C[n] /\ D[n] = C[n]
      BY <1>10, <3>1
    <3> QED
      BY <1>7, <2>2, <3>1, <3>2
  <2>3. CASE j > n + 1
    <3>1. PICK i \in 1 .. l : i = j - 1 /\ j = i + 1
      BY <1>2, <2>3
    <3>2. j \in n + 2 .. l + 1 /\ j \in n + 1 .. l + 1 /\ j - 1 \in n + 1 .. l + 1
      BY <1>2, <2>3
    <3>3. v[j] = t[i] /\ D[j] = C[i] /\ D[j - 1] = C[i - 1]
      BY <1>7, <1>10, <3>1, <3>2
    <3> QED
      BY <1>8, <3>3
  <2> QED
    BY <1>2, <2>1, <2>2, <2>3
<1>13. Counts(D, v, s, m)
  BY <1>7, <1>9, <1>11, <1>12 DEF Counts
<1> QED
  BY <1>7, <1>13 DEF Holds, v, ac, a, b

-----------------------------------------------------------------------------
(* A round of base64_encode_l: the block that starts after 3 * b bytes.    *)

LEMMA BlockShape ==
  ASSUME NEW s \in Seq(Octet), NEW b \in Nat, 3 * b < Len(s)
  PROVE  /\ BlockLength(s, b) \in 1 .. 3
         /\ BlockBytes(s, b) \in Block
         /\ Padded(BlockBytes(s, b), BlockLength(s, b))
<1>1. BlockLength(s, b) \in 1 .. 3
  BY DEF BlockLength
<1>2. BlockBytes(s, b) \in Block
  <2>1. ASSUME NEW k \in 1 .. 3, 3 * b + k <= Len(s) PROVE s[3 * b + k] \in Octet
    <3>1. 3 * b + k \in 1 .. Len(s)
      BY <2>1
    <3> QED
      BY <3>1
  <2>2. 0 \in Octet
    BY DEF Octet
  <2> QED
    BY <2>1, <2>2 DEF BlockBytes, Block
<1>3. Padded(BlockBytes(s, b), BlockLength(s, b))
  BY DEF Padded, BlockBytes, BlockLength
<1> QED
  BY <1>1, <1>2, <1>3

LEMMA LettersOfBlock ==
  ASSUME NEW s, NEW b \in Nat, NEW j \in 1 .. 4
  PROVE  Letter(s, 4 * b + j) = Encoded(s, b)[j]
<1>1. (4 * b + j - 1) \div 4 = b /\ ((4 * b + j - 1) % 4) + 1 = j
  OBVIOUS
<1> QED
  BY <1>1 DEF Letter

LEMMA LettersOfFull == ASSUME NEW b \in Nat PROVE Letters(3 * b) = 4 * b
<1>1. (3 * b) \div 3 = b /\ (3 * b) % 3 = 0
  OBVIOUS
<1> QED
  BY <1>1 DEF Letters

LEMMA LettersOfRest ==
  ASSUME NEW b \in Nat, NEW l \in 1 .. 3
  PROVE  Letters(3 * b + l) = 4 * b + l + 1
<1>1. CASE l = 3
  <2>1. PICK c \in Nat : c = b + 1
    OBVIOUS
  <2>2. 3 * b + l = 3 * c /\ 4 * b + l + 1 = 4 * c
    BY <1>1, <2>1
  <2>3. Letters(3 * c) = 4 * c
    BY LettersOfFull
  <2> QED
    BY <2>2, <2>3
<1>2. CASE l \in 1 .. 2
  <2>1. (3 * b + l) \div 3 = b /\ (3 * b + l) % 3 = l /\ l # 0
    BY <1>2
  <2>2. Letters(3 * b + l) = 4 * b + (l + 1)
    BY <2>1 DEF Letters
  <2> QED
    BY <2>2
<1> QED
  BY <1>1, <1>2

LEMMA EncodedShape ==
  ASSUME NEW s \in Seq(Octet), NEW b \in Nat, 3 * b < Len(s)
  PROVE  \E c1, c2, c3, c4 \in 0 .. PAD : Encoded(s, b) = <<c1, c2, c3, c4>>
<1> DEFINE l == BlockLength(s, b)
           e == Encoded(s, b)
<1>0. BlockBytes(s, b) \in Block
  BY BlockShape
<1>1. BlockBytes(s, b)[1] \in Octet /\ BlockBytes(s, b)[2] \in Octet /\ BlockBytes(s, b)[3] \in Octet
  BY <1>0 DEF Block
<1> DEFINE x == BlockBytes(s, b)[1]  y == BlockBytes(s, b)[2]  z == BlockBytes(s, b)[3]
           p == (x % 4) * 16 + y \div 16
           q == (y % 16) * 4 + z \div 64
<1>2. e = <<x \div 4, p, IF l > 1 THEN q ELSE PAD, IF l > 2 THEN z % 64 ELSE PAD>>
  BY DEF Encoded, EncodeBlock
<1>3. p = (x % 4) * 16 + y \div 16 /\ q = (y % 16) * 4 + z \div 64
  OBVIOUS
<1> HIDE DEF x, y, z, p, q, e, l
<1>4. x \in Octet /\ y \in Octet /\ z \in Octet
  BY <1>1 DEF x, y, z
<1>5. x \div 4 \in Sextet /\ p \in Sextet
  BY <1>3, <1>4, FirstSextets
<1>6. q \in Sextet
  BY <1>3, <1>4, MiddleSextets
<1>7. z % 64 \in Sextet
  BY <1>3, <1>4, LastSextets
<1>8. /\ x \div 4 \in 0 .. PAD /\ p \in 0 .. PAD
      /\ q \in 0 .. PAD /\ z % 64 \in 0 .. PAD /\ PAD \in 0 .. PAD
  <2>1. Sextet \subseteq 0 .. PAD /\ PAD \in 0 .. PAD
    BY DEF Sextet, PAD
  <2> QED
    BY <1>5, <1>6, <1>7, <2>1, Zenon
<1>9. (IF l > 1 THEN q ELSE PAD) \in 0 .. PAD /\ (IF l > 2 THEN z % 64 ELSE PAD) \in 0 .. PAD
  BY <1>8, Zenon
<1>10. \E c1, c2, c3, c4 \in 0 .. PAD : e = <<c1, c2, c3, c4>>
  BY <1>2, <1>8, <1>9, Zenon
<1> QED
  BY <1>10 DEF e

LEMMA EncodedIsSeq ==
  ASSUME NEW s \in Seq(Octet), NEW b \in Nat, 3 * b < Len(s)
  PROVE  Encoded(s, b) \in Seq(Nat) /\ Len(Encoded(s, b)) = 4
<1>1. PICK c1, c2, c3, c4 \in 0 .. PAD : Encoded(s, b) = <<c1, c2, c3, c4>>
  BY EncodedShape
<1>2. c1 \in Nat /\ c2 \in Nat /\ c3 \in Nat /\ c4 \in Nat
  BY DEF PAD
<1> QED
  BY <1>1, <1>2

\* The characters of a block add its letters.
LEMMA BlockAdds ==
  ASSUME NEW s \in Seq(Octet), NEW b \in Nat, 3 * b < Len(s), NEW breaks \in {<<CR, LF>>, <<>>}
  PROVE  /\ Encoded(s, b) \o breaks \in Seq(Nat)
         /\ Adds(Encoded(s, b) \o breaks, s, 4 * b, BlockLength(s, b) + 1)
<1> DEFINE l == BlockLength(s, b)
           e == Encoded(s, b)
           u == e \o breaks
<1>1. /\ l \in 1 .. 3 /\ BlockBytes(s, b) \in Block /\ Padded(BlockBytes(s, b), l)
  BY BlockShape
<1>2. \A k \in 1 .. 4 : InTable(e[k]) <=> k <= l + 1
  BY <1>1, BlockRoundTrip DEF Encoded
<1>3. \A k \in 1 .. 4 : e[k] = Letter(s, 4 * b + k)
  BY LettersOfBlock
<1>4. e \in Seq(Nat) /\ Len(e) = 4
  BY EncodedIsSeq
<1>5. /\ breaks \in Seq(Nat) /\ Len(breaks) \in {0, 2}
      /\ \A k \in 1 .. Len(breaks) : ~InTable(breaks[k])
  <2>1. CASE breaks = <<>>
    BY <2>1
  <2>2. CASE breaks = <<66, 67>>
    <3>1. \A k \in 1 .. 2 : breaks[k] \in {66, 67}
      BY <2>2
    <3>2. breaks \in Seq(Nat) /\ Len(breaks) = 2
      BY <2>2
    <3> QED
      BY <3>1, <3>2 DEF InTable, NUL
  <2> QED
    BY <2>1, <2>2 DEF CR, LF
<1> HIDE DEF l, e
<1>6. /\ u \in Seq(Nat) /\ Len(u) = Len(e) + Len(breaks)
      /\ \A k \in 1 .. Len(e) + Len(breaks) : u[k] = IF k <= Len(e) THEN e[k] ELSE breaks[k - Len(e)]
  <2>1. e \in Seq(Nat) /\ breaks \in Seq(Nat)
    BY <1>4, <1>5
  <2> QED
    BY <2>1, ConcatProperties, Zenon
<1> HIDE DEF u
<1>7. /\ Len(u) = 4 + Len(breaks)
      /\ \A k \in 1 .. 4 + Len(breaks) : u[k] = IF k <= 4 THEN e[k] ELSE breaks[k - 4]
  BY <1>4, <1>6
<1>8. l + 1 \in 0 .. Len(u)
  BY <1>1, <1>5, <1>7
<1>9. ASSUME NEW k \in 1 .. Len(u) PROVE InTable(u[k]) <=> k <= l + 1
  <2>1. CASE k <= 4
    BY <1>2, <1>7, <2>1
  <2>2. CASE ~(k <= 4)
    <3>1. k - 4 \in 1 .. Len(breaks) /\ ~(k <= l + 1)
      BY <1>1, <1>5, <1>7, <2>2
    <3> QED
      BY <1>5, <1>7, <2>2, <3>1
  <2> QED
    BY <2>1, <2>2
<1>10. ASSUME NEW k \in 1 .. l + 1 PROVE u[k] = Letter(s, 4 * b + k)
  <2>1. k \in 1 .. 4 /\ k \in 1 .. 4 + Len(breaks)
    BY <1>1, <1>5
  <2> QED
    BY <1>3, <1>7, <2>1
<1>11. Adds(u, s, 4 * b, l + 1)
  BY <1>8, <1>9, <1>10 DEF Adds
<1> QED
  BY <1>6, <1>11 DEF u, e, l

\* What a round reads of its unread bytes is block b, and what it leaves is
\* what follows that block.
IsRound(u, s, b, l) ==
  /\ Len(Prefix(u, 3)) = l
  /\ [k \in 1 .. 3 |-> IF k <= l THEN u[k] ELSE 0] = BlockBytes(s, b)
  /\ After(u, l) = After(s, 3 * b + l)

LEMMA RoundReadsBlock ==
  ASSUME NEW s \in Seq(Nat), NEW b \in Nat, 3 * b < Len(s)
  PROVE  IsRound(After(s, 3 * b), s, b, BlockLength(s, b))
<1> DEFINE l == BlockLength(s, b)
           u == After(s, 3 * b)
           d == 3 * b
           n == Len(s)
<1>a. n \in Nat /\ d \in Nat /\ d < n
  OBVIOUS
<1>b. l = (IF n - d < 3 THEN n - d ELSE 3)
  BY DEF BlockLength
<1> HIDE DEF l, d, n
<1>1. d \in 0 .. n /\ l \in 1 .. 3 /\ d + l \in 0 .. n /\ n - d \in Nat
  BY <1>a, <1>b
<1>2. Follows(u, s, d)
  BY <1>1, AfterFollows DEF d, n
<1> HIDE DEF u
<1>3. u \in Seq(Nat) /\ Len(u) = n - d /\ \A k \in 1 .. n - d : u[k] = s[d + k]
  BY <1>2 DEF Follows, n
<1>c. Len(u) = n - d /\ l \in 0 .. Len(u) /\ l = (IF 3 < Len(u) THEN 3 ELSE Len(u))
  <2>1. Len(u) = n - d
    BY <1>3
  <2> QED
    BY <1>a, <1>b, <2>1
<1>4. Len(Prefix(u, 3)) = l
  <2>1. Len(u) \in Nat
    BY <1>1, <1>c
  <2>2. Prefix(u, 3) = Prefix(u, l)
    BY <1>c, <2>1 DEF Prefix
  <2>3. Leads(Prefix(u, l), u, l)
    BY <1>3, <1>c, PrefixLeads
  <2> QED
    BY <2>2, <2>3 DEF Leads
<1>5. [k \in 1 .. 3 |-> IF k <= l THEN u[k] ELSE 0] = BlockBytes(s, b)
  <2>1. ASSUME NEW k \in 1 .. 3
        PROVE  (IF k <= l THEN u[k] ELSE 0) = (IF 3 * b + k <= Len(s) THEN s[3 * b + k] ELSE 0)
    <3>1. k <= l <=> d + k <= n
      BY <1>a, <1>b
    <3>2. k <= l => k \in 1 .. n - d
      BY <1>a, <1>b
    <3> QED
      BY <1>3, <3>1, <3>2 DEF d, n
  <2> QED
    BY <2>1 DEF BlockBytes
<1>6. After(u, l) = After(s, d + l)
  <2> DEFINE x == After(u, l)
             y == After(s, d + l)
  <2>2. Follows(x, u, l) /\ Follows(y, s, d + l)
    BY <1>1, <1>3, <1>c, AfterFollows DEF n
  <2> HIDE DEF x, y
  <2>3. Len(u) - l = n - (d + l) /\ n - (d + l) \in Nat
    BY <1>a, <1>1, <1>c
  <2>4. ASSUME NEW k \in 1 .. n - (d + l) PROVE x[k] = y[k]
    <3>1. l + k \in 1 .. n - d /\ d + (l + k) = (d + l) + k
      BY <1>a, <1>1
    <3>2. x[k] = u[l + k] /\ u[l + k] = s[d + (l + k)]
      BY <1>3, <2>2, <2>3, <3>1 DEF Follows
    <3>3. y[k] = s[(d + l) + k]
      BY <2>2, <2>4 DEF Follows, n
    <3> QED
      BY <3>1, <3>2, <3>3
  <2>5. x \in Seq(Nat) /\ y \in Seq(Nat) /\ Len(x) = n - (d + l) /\ Len(y) = n - (d + l)
    BY <2>2, <2>3 DEF Follows, n
  <2>6. Len(x) = Len(y) /\ \A k \in 1 .. Len(x) : x[k] = y[k]
    BY <2>4, <2>5
  <2>7. x = y
    BY <2>5, <2>6, SeqEqual, Zenon
  <2> QED
    BY <2>7 DEF x, y
<1> QED
  BY <1>4, <1>5, <1>6 DEF IsRound, u, l, d

-----------------------------------------------------------------------------
(* A block that has been read back, full or not.                           *)

LEMMA OctetsAreNumbers == ASSUME NEW s \in Seq(Octet) PROVE s \in Seq(Nat)
<1>1. Octet \subseteq Nat
  BY DEF Octet
<1> QED
  BY <1>1, SeqMonotonic

\* more holds the first letters of block b.
HasLetters(more, s, b) == \A i \in 1 .. Len(more) : more[i] = Letter(s, 4 * b + i)

LEMMA BlockDecoded ==
  ASSUME NEW s \in Seq(Octet), NEW b \in Nat, 3 * b < Len(s),
         NEW more \in Seq(Nat), Len(more) = BlockLength(s, b) + 1, HasLetters(more, s, b)
  PROVE  DecodedBytes(more) = Prefix(BlockBytes(s, b), BlockLength(s, b))
<1> DEFINE l == BlockLength(s, b)
           e == Encoded(s, b)
           r == Prefix(e, l + 1)
<1>1. l \in 1 .. 3 /\ BlockBytes(s, b) \in Block /\ Padded(BlockBytes(s, b), l)
  BY BlockShape
<1>2. e \in Seq(Nat) /\ Len(e) = 4
  BY EncodedIsSeq
<1>3. r = Read(BlockBytes(s, b), l)
  BY DEF Encoded, Read
<1>4. DecodedBytes(Read(BlockBytes(s, b), l)) = Prefix(BlockBytes(s, b), l)
  BY <1>1, BlockRoundTrip
<1>5. \A i \in 1 .. 4 : Letter(s, 4 * b + i) = e[i]
  BY LettersOfBlock
<1> HIDE DEF l, e
<1>6. l + 1 \in 0 .. Len(e)
  BY <1>1, <1>2
<1>7. Leads(r, e, l + 1)
  BY <1>2, <1>6, PrefixLeads
<1> HIDE DEF r
<1>8. r = more
  <2>1. r \in Seq(Nat) /\ Len(r) = l + 1 /\ Len(more) = l + 1
    BY <1>7 DEF Leads, l
  <2>2. ASSUME NEW i \in 1 .. l + 1 PROVE r[i] = more[i]
    <3>1. i \in 1 .. 4
      BY <1>1
    <3>2. r[i] = e[i]
      BY <1>7 DEF Leads
    <3>3. more[i] = Letter(s, 4 * b + i)
      BY <2>1 DEF HasLetters
    <3> QED
      BY <1>5, <3>1, <3>2, <3>3
  <2>3. Len(r) = Len(more) /\ \A i \in 1 .. Len(r) : r[i] = more[i]
    BY <2>1, <2>2
  <2> QED
    BY <2>1, <2>3, SeqEqual, Zenon
<1> QED
  BY <1>3, <1>4, <1>8 DEF l

\* The bytes of block b are those that follow the blocks before it.
LEMMA BlockFollows ==
  ASSUME NEW s \in Seq(Octet), NEW b \in Nat, 3 * b < Len(s)
  PROVE  Prefix(s, 3 * b) \o Prefix(BlockBytes(s, b), BlockLength(s, b))
           = Prefix(s, 3 * b + BlockLength(s, b))
<1> DEFINE l == BlockLength(s, b)
           d == 3 * b
           n == Len(s)
           bytes == BlockBytes(s, b)
           x == Prefix(s, d)
           y == Prefix(bytes, l)
           z == Prefix(s, d + l)
<1>a. n \in Nat /\ d \in Nat /\ d < n /\ l = (IF n - d < 3 THEN n - d ELSE 3)
  BY DEF BlockLength
<1>b. /\ bytes \in Seq(Nat) /\ Len(bytes) = 3
      /\ \A k \in 1 .. 3 : bytes[k] = IF d + k <= n THEN s[d + k] ELSE 0
  <2>1. bytes \in [1 .. 3 -> Octet]
    BY BlockShape DEF Block
  <2>2. bytes \in Seq(Octet) /\ Len(bytes) = 3
    <3>1. \A k \in 1 .. 3 : bytes[k] \in Octet
      BY <2>1
    <3>2. bytes = [k \in 1 .. 3 |-> bytes[k]]
      BY <2>1
    <3> HIDE DEF bytes
    <3>3. [k \in 1 .. 3 |-> bytes[k]] \in Seq(Octet) /\ Len([k \in 1 .. 3 |-> bytes[k]]) = 3
      BY <3>1
    <3> QED
      BY <3>2, <3>3
  <2>3. bytes \in Seq(Nat)
    BY <2>2, OctetsAreNumbers
  <2> QED
    BY <2>2, <2>3 DEF BlockBytes
<1>s. s \in Seq(Nat)
  BY OctetsAreNumbers
<1> HIDE DEF l, d, bytes
<1>1. l \in 1 .. 3 /\ d \in 0 .. n /\ d + l \in 0 .. n /\ l \in 0 .. 3
  BY <1>a
<1>2. Leads(x, s, d) /\ Leads(y, bytes, l) /\ Leads(z, s, d + l)
  BY <1>1, <1>b, <1>s, PrefixLeads
<1> HIDE DEF n, x, y, z
<1>3. /\ x \in Seq(Nat) /\ Len(x) = d /\ \A k \in 1 .. d : x[k] = s[k]
      /\ y \in Seq(Nat) /\ Len(y) = l /\ \A k \in 1 .. l : y[k] = bytes[k]
      /\ z \in Seq(Nat) /\ Len(z) = d + l /\ \A k \in 1 .. d + l : z[k] = s[k]
  BY <1>2 DEF Leads
<1>4. /\ x \o y \in Seq(Nat) /\ Len(x \o y) = Len(x) + Len(y)
      /\ \A k \in 1 .. Len(x) + Len(y) : (x \o y)[k] = IF k <= Len(x) THEN x[k] ELSE y[k - Len(x)]
  <2>1. x \in Seq(Nat) /\ y \in Seq(Nat)
    BY <1>3
  <2> QED
    BY <2>1, ConcatProperties, Zenon
<1>5. ASSUME NEW k \in 1 .. d + l PROVE (x \o y)[k] = z[k]
  <2>1. (x \o y)[k] = IF k <= d THEN x[k] ELSE y[k - d]
    BY <1>3, <1>4
  <2>2. CASE k <= d
    <3>1. k \in 1 .. d
      BY <1>a, <2>2
    <3> QED
      BY <1>3, <2>1, <2>2, <3>1
  <2>3. CASE ~(k <= d)
    <3>1. PICK i \in 1 .. l : i = k - d /\ d + i = k /\ i \in 1 .. 3 /\ d + i <= n
      BY <1>a, <1>1, <2>3
    <3>2. y[i] = bytes[i] /\ bytes[i] = s[d + i]
      BY <1>b, <1>3, <3>1
    <3> QED
      BY <1>3, <2>1, <2>3, <3>1, <3>2
  <2> QED
    BY <2>2, <2>3
<1>6. x \o y = z
  <2>1. Len(x \o y) = Len(z) /\ \A k \in 1 .. Len(x \o y) : (x \o y)[k] = z[k]
    BY <1>3, <1>4, <1>5
  <2>2. x \o y \in Seq(Nat) /\ z \in Seq(Nat)
    BY <1>3, <1>4
  <2> QED
    BY <2>1, <2>2, SeqEqual, Zenon
<1> QED
  BY <1>6 DEF x, y, z, bytes, l, d

\* c letters have been read: out is what the full blocks among them hold, and
\* more are the letters of the next.
Reads(s, c, more, out) ==
  \E b \in Nat : /\ c = 4 * b + Len(more) /\ Len(more) \in 0 .. 3
                 /\ more \in Seq(Nat) /\ HasLetters(more, s, b)
                 /\ out = Prefix(s, 3 * b)

\* The number of letters tells where the input ends.
LEMMA LettersBound ==
  ASSUME NEW n \in Nat, NEW b \in Nat
  PROVE  /\ 4 * b + 4 <= Letters(n) => 3 * b + 3 <= n
         /\ Letters(n) = 4 * b => n = 3 * b
         /\ \A l \in 1 .. 3 : Letters(n) = 4 * b + l => l \in 2 .. 3 /\ n = 3 * b + l - 1
<1>1. PICK c \in Nat, l \in 0 .. 2 : n = 3 * c + l
  <2>1. n \div 3 \in Nat /\ n % 3 \in 0 .. 2 /\ n = 3 * (n \div 3) + (n % 3)
    OBVIOUS
  <2> QED
    BY <2>1
<1>2. CASE l = 0
  <2>1. Letters(n) = 4 * c
    BY <1>1, <1>2, LettersOfFull
  <2> QED
    BY <1>1, <1>2, <2>1
<1>3. CASE l \in 1 .. 2
  <2>1. Letters(n) = 4 * c + l + 1
    BY <1>1, <1>3, LettersOfRest
  <2> QED
    BY <1>1, <1>3, <2>1
<1> QED
  BY <1>2, <1>3

-----------------------------------------------------------------------------
(* The inductive invariant: the letters of the input are in the text, in   *)
(* order and among nothing else of the table, and the bytes that have been *)
(* decoded are those of the letters that have been read.                   *)

NulIsNotForeign == NUL \notin Foreign

All == Letters(Len(input))

TextOK     == input \in Seq(Octet) /\ text \in Seq(Nat)
EncodingOK == phase = "encode" =>
  /\ in = <<>> /\ output = <<>>
  /\ \/ \E b \in Nat : 3 * b <= Len(input) /\ unread = After(input, 3 * b) /\ Holds(text, input, 4 * b)
     \/ unread = <<>> /\ Holds(text, input, All)
TransferOK == phase = "transfer" => in = <<>> /\ output = <<>> /\ Holds(text, input, All)
DecodingOK == phase = "decode" =>
  \E C : \E r \in 0 .. Len(text) :
    /\ Counts(C, text, input, All) /\ unread = After(text, r)
    /\ Reads(input, C[r], in, output)

RoundInv == TextOK /\ EncodingOK /\ TransferOK /\ DecodingOK /\ RoundTrip

\* A step that gets to a phase of its own only has to establish that phase.
LEMMA OnlyEncodes ==
  ASSUME phase' = "encode", TextOK', EncodingOK' PROVE RoundInv'
BY DEF RoundInv, TransferOK, DecodingOK, RoundTrip

LEMMA OnlyTransfers ==
  ASSUME phase' = "transfer", TextOK', TransferOK' PROVE RoundInv'
BY DEF RoundInv, EncodingOK, DecodingOK, RoundTrip

LEMMA OnlyDecodes ==
  ASSUME phase' = "decode", TextOK', DecodingOK' PROVE RoundInv'
BY DEF RoundInv, EncodingOK, TransferOK, RoundTrip

LEMMA EmptyAfter ==
  ASSUME NEW s \in Seq(Nat), NEW n \in 0 .. Len(s)
  PROVE  After(s, n) = <<>> <=> n = Len(s)
<1>1. Follows(After(s, n), s, n)
  BY AfterFollows
<1>2. After(s, n) \in Seq(Nat) /\ Len(After(s, n)) = Len(s) - n
  BY <1>1 DEF Follows
<1>3. After(s, n) = <<>> <=> Len(After(s, n)) = 0
  BY <1>2, EmptySeq
<1>4. Len(s) \in Nat
  OBVIOUS
<1> QED
  BY <1>2, <1>3, <1>4

LEMMA AllBytes ==
  ASSUME NEW s \in Seq(Nat)
  PROVE  /\ After(s, 0) = s
         /\ Prefix(s, 0) = <<>>
         /\ Prefix(s, Len(s)) = s
BY SubSeqFull DEF After, Prefix

LEMMA InitRound == ASSUME Init PROVE RoundInv
<1>1. input \in Seq(Octet)
  <2>1. Bytes \subseteq Octet
    BY ByteAssumption DEF Octet
  <2>2. input \in Seq(Bytes)
    BY BoundAssumption DEF Init, Inputs
  <2> QED
    BY <2>1, <2>2, SeqMonotonic
<1>2. TextOK
  BY <1>1 DEF Init, TextOK
<1>3. Holds(<<>>, input, 0)
  <2> DEFINE C == [j \in 0 .. 0 |-> 0]
  <2>1. Counts(C, <<>>, input, 0)
    BY DEF Counts
  <2> QED
    BY <2>1 DEF Holds
<1>4. EncodingOK
  <2>1. PICK b \in Nat : b = 0 /\ 3 * b = 0 /\ 4 * b = 0 /\ 3 * b <= Len(input)
    BY <1>1
  <2>2. After(input, 0) = input
    BY <1>1, OctetsAreNumbers, AllBytes
  <2>3. unread = After(input, 3 * b) /\ Holds(text, input, 4 * b)
    BY <1>3, <2>1, <2>2 DEF Init
  <2> QED
    BY <2>1, <2>3 DEF Init, EncodingOK
<1> QED
  BY <1>2, <1>4 DEF Init, RoundInv, TransferOK, DecodingOK, RoundTrip

LEMMA ConcatToTheRight ==
  ASSUME NEW s \in Seq(Nat), NEW t \in Seq(Nat), NEW u \in Seq(Nat)
  PROVE  (s \o t) \o u = s \o (t \o u)
BY ConcatAssociative

LEMMA LastBlock ==
  ASSUME NEW s \in Seq(Nat), NEW b \in Nat, 3 * b < Len(s), BlockLength(s, b) # 3
  PROVE  /\ 3 * b + BlockLength(s, b) = Len(s)
         /\ 3 * b + BlockLength(s, b) \in 0 .. Len(s)
<1>1. PICK n \in Nat : n = Len(s)
  OBVIOUS
<1>2. BlockLength(s, b) = n - 3 * b
  BY <1>1 DEF BlockLength
<1> QED
  BY <1>1, <1>2

LEMMA EncodeRoundKeeps ==
  ASSUME RoundInv, EncodeRound
  PROVE  RoundInv'
<1>1. /\ phase = "encode" /\ unread # <<>>
      /\ phase' = phase /\ input' = input /\ in' = <<>> /\ output' = <<>>
      /\ input \in Seq(Octet) /\ input \in Seq(Nat) /\ text \in Seq(Nat)
  BY OctetsAreNumbers DEF EncodeRound, RoundInv, TextOK, EncodingOK
<1>2. PICK b \in Nat : /\ 3 * b <= Len(input) /\ unread = After(input, 3 * b)
                       /\ Holds(text, input, 4 * b)
  BY <1>1 DEF RoundInv, EncodingOK
<1>3. 3 * b < Len(input)
  <2>1. Len(input) \in Nat /\ 3 * b \in 0 .. Len(input)
    BY <1>1, <1>2
  <2>2. 3 * b # Len(input)
    BY <1>1, <1>2, <2>1, EmptyAfter
  <2> QED
    BY <2>1, <2>2
<1>4. PICK l : l = BlockLength(input, b)
  OBVIOUS
<1>5. IsRound(unread, input, b, l)
  BY <1>1, <1>2, <1>3, <1>4, RoundReadsBlock
<1>6. l \in 1 .. 3
  BY <1>1, <1>3, <1>4, BlockShape
<1>7. PICK breaks \in {<<CR, LF>>, <<>>} :
        /\ text' = text \o EncodeBlock(BlockBytes(input, b), l) \o breaks
        /\ unread' = After(input, 3 * b + l)
  BY <1>5 DEF EncodeRound, IsRound
<1> DEFINE e == Encoded(input, b)
<1>8. text' = text \o (e \o breaks)
  <2>1. e \in Seq(Nat)
    BY <1>1, <1>3, EncodedIsSeq
  <2>2. breaks \in Seq(Nat)
    <3>1. CASE breaks = <<>>
      BY <3>1
    <3>2. CASE breaks = <<66, 67>>
      BY <3>2
    <3> QED
      BY <3>1, <3>2 DEF CR, LF
  <2>3. text' = (text \o e) \o breaks
    BY <1>4, <1>7 DEF Encoded
  <2> HIDE DEF e
  <2>4. text \in Seq(Nat) /\ e \in Seq(Nat) /\ breaks \in Seq(Nat)
    BY <1>1, <2>1, <2>2
  <2>5. (text \o e) \o breaks = text \o (e \o breaks)
    BY <2>4, ConcatToTheRight
  <2> QED
    BY <2>3, <2>5
<1>9. e \o breaks \in Seq(Nat) /\ Adds(e \o breaks, input, 4 * b, l + 1)
  BY <1>1, <1>3, <1>4, BlockAdds
<1> HIDE DEF e
<1>10. text' \in Seq(Nat) /\ Holds(text', input, 4 * b + l + 1)
  <2>1. PICK m \in Nat, k \in Nat : m = 4 * b /\ k = l + 1 /\ m + k = 4 * b + l + 1
    BY <1>6
  <2>2. Holds(text \o (e \o breaks), input, m + k)
    BY <1>1, <1>2, <1>9, <2>1, AddLetters
  <2> QED
    BY <1>1, <1>8, <1>9, <2>1, <2>2
<1>11. EncodingOK'
  <2>1. CASE l = 3
    <3>1. PICK c \in Nat : c = b + 1 /\ 3 * c = 3 * b + l /\ 4 * c = 4 * b + l + 1
      BY <2>1
    <3>2. 3 * c <= Len(input)
      BY <1>1, <1>3, <1>4, <2>1, <3>1 DEF BlockLength
    <3>3. unread' = After(input, 3 * c) /\ Holds(text', input, 4 * c)
      BY <1>7, <1>10, <3>1
    <3> QED
      BY <1>1, <3>2, <3>3 DEF EncodingOK
  <2>2. CASE l # 3
    <3>1. 3 * b + l = Len(input) /\ 3 * b + l \in 0 .. Len(input)
      BY <1>1, <1>3, <1>4, <2>2, LastBlock
    <3>2. unread' = <<>>
      BY <1>1, <1>7, <3>1, EmptyAfter
    <3>3. Letters(3 * b + l) = 4 * b + l + 1
      BY <1>6, LettersOfRest
    <3>4. Holds(text', input, Letters(Len(input)))
      BY <1>10, <3>1, <3>3
    <3>5. Holds(text', input', All')
      BY <1>1, <3>4 DEF All
    <3> QED
      BY <1>1, <3>2, <3>5 DEF EncodingOK
  <2> QED
    BY <2>1, <2>2
<1>12. TextOK'
  BY <1>1, <1>10 DEF TextOK
<1> QED
  BY <1>1, <1>11, <1>12, OnlyEncodes

LEMMA EncodeEndKeeps ==
  ASSUME RoundInv, EncodeEnd
  PROVE  RoundInv'
<1>1. /\ phase = "encode" /\ unread = <<>> /\ phase' = "transfer"
      /\ UNCHANGED <<input, text>> /\ in' = <<>> /\ output' = <<>>
      /\ input \in Seq(Octet) /\ input \in Seq(Nat) /\ text \in Seq(Nat)
  BY OctetsAreNumbers DEF EncodeEnd, RoundInv, TextOK, EncodingOK
<1>2. Holds(text, input, All)
  <2>1. ASSUME NEW b \in Nat, 3 * b <= Len(input), unread = After(input, 3 * b),
               Holds(text, input, 4 * b)
        PROVE  Holds(text, input, All)
    <3>1. 3 * b \in 0 .. Len(input)
      BY <1>1, <2>1
    <3>2. 3 * b = Len(input)
      BY <1>1, <2>1, <3>1, EmptyAfter
    <3>3. Letters(3 * b) = 4 * b
      BY LettersOfFull
    <3> QED
      BY <2>1, <3>2, <3>3 DEF All
  <2> QED
    BY <1>1, <2>1 DEF RoundInv, EncodingOK
<1>3. TransferOK' /\ TextOK'
  BY <1>1, <1>2 DEF TransferOK, TextOK, All
<1> QED
  BY <1>1, <1>3, OnlyTransfers

LEMMA AddForeignKeeps ==
  ASSUME NulIsNotForeign, RoundInv, AddForeign
  PROVE  RoundInv'
<1>1. /\ phase = "transfer" /\ phase' = "transfer" /\ input' = input
      /\ in' = <<>> /\ output' = <<>>
      /\ input \in Seq(Octet) /\ text \in Seq(Nat) /\ Holds(text, input, All)
  BY DEF AddForeign, RoundInv, TextOK, TransferOK
<1>2. PICK c \in Foreign, n \in 0 .. Len(text) :
        text' = Prefix(text, n) \o <<c>> \o After(text, n)
  BY DEF AddForeign
<1>3. c \in Nat /\ ~InTable(c)
  BY <1>2, ForeignAssumption DEF NulIsNotForeign, InTable, NUL, UNKNOWN
<1>4. All \in Nat
  <2>1. PICK n0 \in Nat : n0 = Len(input)
    BY <1>1
  <2>2. Letters(n0) \in Nat
    BY DEF Letters
  <2> QED
    BY <2>1, <2>2 DEF All
<1>5. text' \in Seq(Nat) /\ Holds(text', input, All)
  BY <1>1, <1>2, <1>3, <1>4, InsertForeign
<1>6. TransferOK' /\ TextOK'
  BY <1>1, <1>5 DEF TransferOK, TextOK, All
<1> QED
  BY <1>1, <1>6, OnlyTransfers

LEMMA ReceivedKeeps ==
  ASSUME RoundInv, Received
  PROVE  RoundInv'
<1>1. /\ phase = "transfer" /\ phase' = "decode" /\ UNCHANGED <<input, text, in, output>>
      /\ in = <<>> /\ output = <<>> /\ unread' = text
      /\ input \in Seq(Octet) /\ input \in Seq(Nat) /\ text \in Seq(Nat)
      /\ Holds(text, input, All)
  BY OctetsAreNumbers DEF Received, RoundInv, TextOK, TransferOK
<1>2. PICK C : Counts(C, text, input, All)
  BY <1>1 DEF Holds
<1>3. PICK r \in 0 .. Len(text) : r = 0
  BY <1>1
<1>4. unread' = After(text, r) /\ C[r] = 0
  BY <1>1, <1>2, <1>3, AllBytes DEF Counts
<1>5. Reads(input, C[r], in, output)
  <2>1. PICK b \in Nat : b = 0 /\ 0 = 4 * b + 0 /\ 3 * b = 0
    OBVIOUS
  <2>2. in \in Seq(Nat) /\ Len(in) = 0 /\ HasLetters(in, input, b)
    BY <1>1 DEF HasLetters
  <2>3. output = Prefix(input, 3 * b)
    BY <1>1, <2>1, AllBytes
  <2> QED
    BY <1>4, <2>1, <2>2, <2>3 DEF Reads
<1>6. DecodingOK' /\ TextOK'
  BY <1>1, <1>2, <1>4, <1>5 DEF DecodingOK, TextOK, All
<1> QED
  BY <1>1, <1>6, OnlyDecodes

LEMMA AfterNext ==
  ASSUME NEW s \in Seq(Nat), NEW n \in Nat, n < Len(s)
  PROVE  Head(After(s, n)) = s[n + 1] /\ Tail(After(s, n)) = After(s, n + 1)
<1> DEFINE a == After(s, n)
           z == After(s, n + 1)
<1>1. Len(s) \in Nat /\ n \in 0 .. Len(s) /\ n + 1 \in 0 .. Len(s)
  OBVIOUS
<1>2. Follows(a, s, n) /\ Follows(z, s, n + 1)
  BY <1>1, AfterFollows
<1> HIDE DEF a, z
<1>3. /\ a \in Seq(Nat) /\ Len(a) = Len(s) - n /\ Len(a) # 0
      /\ \A k \in 1 .. Len(s) - n : a[k] = s[n + k]
      /\ z \in Seq(Nat) /\ Len(z) = Len(s) - (n + 1)
      /\ \A k \in 1 .. Len(s) - (n + 1) : z[k] = s[n + 1 + k]
  BY <1>1, <1>2 DEF Follows
<1>4. a # <<>>
  BY <1>3
<1>5. Head(a) = s[n + 1]
  <2>1. Head(a) = a[1]
    BY <1>3, <1>4
  <2>2. 1 \in 1 .. Len(s) - n
    BY <1>1
  <2> QED
    BY <1>3, <2>1, <2>2
<1>6. Tail(a) = z
  <2>1. /\ Tail(a) \in Seq(Nat) /\ Len(Tail(a)) = Len(a) - 1
        /\ \A k \in 1 .. Len(a) - 1 : Tail(a)[k] = a[k + 1]
    BY <1>3, <1>4
  <2>2. ASSUME NEW k \in 1 .. Len(Tail(a)) PROVE Tail(a)[k] = z[k]
    <3>1. k \in 1 .. Len(s) - (n + 1) /\ k + 1 \in 1 .. Len(s) - n
          /\ k \in 1 .. Len(a) - 1 /\ n + (k + 1) = n + 1 + k
      BY <1>1, <1>3, <2>1
    <3>2. Tail(a)[k] = a[k + 1]
      BY <2>1, <3>1
    <3>3. a[k + 1] = s[n + 1 + k]
      BY <1>3, <3>1
    <3> QED
      BY <1>3, <3>1, <3>2, <3>3
  <2>3. Len(Tail(a)) = Len(z) /\ \A k \in 1 .. Len(Tail(a)) : Tail(a)[k] = z[k]
    BY <1>1, <1>3, <2>1, <2>2
  <2>4. Tail(a) \in Seq(Nat) /\ z \in Seq(Nat)
    BY <1>3, <2>1
  <2> QED
    BY <2>3, <2>4, SeqEqual, Zenon
<1> QED
  BY <1>5, <1>6 DEF a, z

LEMMA OneMoreLetter ==
  ASSUME NEW s, NEW b \in Nat, NEW more \in Seq(Nat), NEW c \in Nat,
         HasLetters(more, s, b), c = Letter(s, 4 * b + (Len(more) + 1))
  PROVE  /\ Append(more, c) \in Seq(Nat) /\ Len(Append(more, c)) = Len(more) + 1
         /\ HasLetters(Append(more, c), s, b)
<1>1. /\ Append(more, c) \in Seq(Nat) /\ Len(Append(more, c)) = Len(more) + 1
      /\ \A i \in 1 .. Len(more) : Append(more, c)[i] = more[i]
      /\ Append(more, c)[Len(more) + 1] = c
  OBVIOUS
<1>2. ASSUME NEW i \in 1 .. Len(more) + 1
      PROVE  Append(more, c)[i] = Letter(s, 4 * b + i)
  <2>1. CASE i = Len(more) + 1
    BY <1>1, <2>1
  <2>2. CASE i # Len(more) + 1
    <3>1. i \in 1 .. Len(more)
      BY <2>2
    <3> QED
      BY <1>1, <3>1 DEF HasLetters
  <2> QED
    BY <2>1, <2>2
<1> QED
  BY <1>1, <1>2 DEF HasLetters

\* Where a block is decoded, the output goes on with its bytes.
LEMMA BlockAppended ==
  ASSUME NEW s \in Seq(Octet), NEW b \in Nat, 3 * b < Len(s),
         NEW more \in Seq(Nat), Len(more) = BlockLength(s, b) + 1, HasLetters(more, s, b)
  PROVE  Prefix(s, 3 * b) \o DecodedBytes(more) = Prefix(s, 3 * b + BlockLength(s, b))
BY BlockDecoded, BlockFollows

LEMMA DecodeCharKeeps ==
  ASSUME RoundInv, DecodeChar
  PROVE  RoundInv'
<1>1. /\ phase = "decode" /\ phase' = "decode" /\ UNCHANGED <<input, text>>
      /\ unread # <<>> /\ unread' = Tail(unread)
      /\ input \in Seq(Octet) /\ input \in Seq(Nat) /\ text \in Seq(Nat)
  BY OctetsAreNumbers DEF DecodeChar, RoundInv, TextOK
<1>2. PICK C : \E r \in 0 .. Len(text) :
        Counts(C, text, input, All) /\ unread = After(text, r) /\ Reads(input, C[r], in, output)
  BY <1>1 DEF RoundInv, DecodingOK
<1>a. PICK r \in 0 .. Len(text) :
        Counts(C, text, input, All) /\ unread = After(text, r) /\ Reads(input, C[r], in, output)
  BY <1>2
<1>3. PICK j \in Nat : j = r + 1
  BY <1>1
<1>4. r \in Nat /\ r < Len(text) /\ j \in 1 .. Len(text) /\ j \in 0 .. Len(text) /\ j - 1 = r
  <2>1. Len(text) \in Nat
    BY <1>1
  <2>2. r # Len(text)
    BY <1>1, <1>a, EmptyAfter
  <2> QED
    BY <1>3, <2>1, <2>2
<1>5. Head(unread) = text[j] /\ unread' = After(text, j) /\ text[j] \in Nat
  <2>1. Head(unread) = text[r + 1] /\ Tail(unread) = After(text, r + 1)
    BY <1>1, <1>a, <1>4, AfterNext
  <2>2. text[j] \in Nat
    BY <1>1, <1>4
  <2> QED
    BY <1>1, <1>3, <2>1, <2>2
<1>6. PICK b \in Nat : /\ C[r] = 4 * b + Len(in) /\ Len(in) \in 0 .. 3
                       /\ in \in Seq(Nat) /\ HasLetters(in, input, b)
                       /\ output = Prefix(input, 3 * b)
  BY <1>a DEF Reads
<1>b. PICK l \in 0 .. 3 : l = Len(in)
  BY <1>6
<1>7. /\ C[j] \in 0 .. All
      /\ IF InTable(text[j]) THEN C[j] = C[r] + 1 /\ text[j] = Letter(input, C[j])
         ELSE C[j] = C[r]
  BY <1>a, <1>4 DEF Counts
<1>8. Reads(input, C[j], in', output')
  <2>1. CASE ~InTable(text[j])
    <3>1. Len(in) # 4
      <4>1. l # 4
        OBVIOUS
      <4> QED
        BY <1>b, <4>1
    <3>2. in' = in /\ output' = output
      BY <1>5, <2>1, <3>1 DEF DecodeChar
    <3> QED
      BY <1>a, <1>7, <2>1, <3>2
  <2>2. CASE InTable(text[j])
    <3> DEFINE more == Append(in, text[j])
    <3>1. C[j] = 4 * b + (Len(in) + 1) /\ text[j] = Letter(input, 4 * b + (Len(in) + 1))
      <4>1. C[r] + 1 = 4 * b + (Len(in) + 1)
        BY <1>6
      <4> QED
        BY <1>7, <2>2, <4>1
    <3>2. more \in Seq(Nat) /\ Len(more) = Len(in) + 1 /\ HasLetters(more, input, b)
      BY <1>5, <1>6, <3>1, OneMoreLetter
    <3>3. IF Len(more) = 4 THEN in' = <<>> /\ output' = output \o DecodedBytes(more)
          ELSE in' = more /\ output' = output
      BY <1>5, <2>2 DEF DecodeChar
    <3> HIDE DEF more
    <3>4. CASE Len(more) # 4
      <4>1. Len(more) \in 0 .. 3
        <5>1. Len(more) = l + 1
          BY <1>b, <3>2
        <5> QED
          BY <3>4, <5>1
      <4>2. C[j] = 4 * b + Len(more)
        BY <3>1, <3>2
      <4> QED
        BY <1>6, <3>2, <3>3, <3>4, <4>1, <4>2 DEF Reads
    <3>5. CASE Len(more) = 4
      <4>1. PICK n \in Nat : n = Len(input)
        BY <1>1
      <4>2. 3 * b + 3 <= n
        <5>1. 4 * b + 4 <= Letters(n)
          <6>1. Letters(n) \in Nat
            BY DEF Letters
          <6>2. C[j] \in 0 .. Letters(n) /\ C[j] = 4 * b + 4
            BY <1>7, <3>1, <3>2, <3>5, <4>1 DEF All
          <6> QED
            BY <6>1, <6>2
        <5> QED
          BY <5>1, LettersBound
      <4>3. BlockLength(input, b) = 3 /\ 3 * b < Len(input)
        BY <4>1, <4>2 DEF BlockLength
      <4>4. output \o DecodedBytes(more) = Prefix(input, 3 * b + 3)
        <5>1. Len(more) = BlockLength(input, b) + 1
          BY <3>5, <4>3
        <5> QED
          BY <1>1, <1>6, <3>2, <4>3, <5>1, BlockAppended
      <4>5. PICK c \in Nat : c = b + 1 /\ 3 * c = 3 * b + 3 /\ 4 * c + 0 = 4 * b + 4
        OBVIOUS
      <4>6. in' \in Seq(Nat) /\ Len(in') = 0 /\ HasLetters(in', input, c)
        BY <3>3, <3>5 DEF HasLetters
      <4>7. C[j] = 4 * c + Len(in') /\ Len(in') \in 0 .. 3
        <5>1. Len(in) + 1 = 4
          BY <3>2, <3>5
        <5>2. C[j] = 4 * b + 4
          BY <3>1, <5>1
        <5> QED
          BY <4>5, <4>6, <5>2
      <4>8. output' = Prefix(input, 3 * c)
        BY <3>3, <3>5, <4>4, <4>5
      <4> QED
        BY <4>6, <4>7, <4>8 DEF Reads
    <3> QED
      BY <3>4, <3>5
  <2> QED
    BY <2>1, <2>2
<1>9. DecodingOK' /\ TextOK'
  <2>1. Counts(C, text', input', All') /\ j \in 0 .. Len(text') /\ unread' = After(text', j)
        /\ Reads(input', C[j], in', output')
    BY <1>1, <1>a, <1>4, <1>5, <1>8 DEF All
  <2> QED
    BY <1>1, <2>1 DEF DecodingOK, TextOK
<1> QED
  BY <1>1, <1>9, OnlyDecodes

LEMMA DecodeEndKeeps ==
  ASSUME RoundInv, DecodeEnd
  PROVE  RoundInv'
<1>1. /\ phase = "decode" /\ phase' = "done" /\ UNCHANGED <<input, text>> /\ unread = <<>>
      /\ output' = IF in = <<>> THEN output ELSE output \o DecodedBytes(in)
      /\ input \in Seq(Octet) /\ input \in Seq(Nat) /\ text \in Seq(Nat)
  BY OctetsAreNumbers DEF DecodeEnd, RoundInv, TextOK
<1>2. PICK C : \E r \in 0 .. Len(text) :
        Counts(C, text, input, All) /\ unread = After(text, r) /\ Reads(input, C[r], in, output)
  BY <1>1 DEF RoundInv, DecodingOK
<1>a. PICK r \in 0 .. Len(text) :
        Counts(C, text, input, All) /\ unread = After(text, r) /\ Reads(input, C[r], in, output)
  BY <1>2
<1>3. r = Len(text)
  BY <1>1, <1>a, EmptyAfter
<1>4. PICK n \in Nat : n = Len(input)
  BY <1>1
<1>5. C[r] = Letters(n)
  BY <1>a, <1>3, <1>4 DEF Counts, All
<1>6. PICK b \in Nat : /\ C[r] = 4 * b + Len(in) /\ Len(in) \in 0 .. 3
                       /\ in \in Seq(Nat) /\ HasLetters(in, input, b)
                       /\ output = Prefix(input, 3 * b)
  BY <1>a DEF Reads
<1>7. output' = input
  <2>1. CASE in = <<>>
    <3>1. Letters(n) = 4 * b
      BY <1>5, <1>6, <2>1
    <3>2. n = 3 * b
      BY <3>1, LettersBound
    <3> QED
      BY <1>1, <1>4, <1>6, <2>1, <3>2, AllBytes
  <2>2. CASE in # <<>>
    <3>1. PICK l \in 1 .. 3 : l = Len(in)
      BY <1>6, <2>2, EmptySeq
    <3>2. Letters(n) = 4 * b + l
      BY <1>5, <1>6, <3>1
    <3>3. l \in 2 .. 3 /\ n = 3 * b + l - 1
      BY <3>2, LettersBound
    <3>4. BlockLength(input, b) = l - 1 /\ 3 * b < Len(input) /\ 3 * b + (l - 1) = Len(input)
      BY <1>4, <3>3 DEF BlockLength
    <3>5. output \o DecodedBytes(in) = Prefix(input, Len(input))
      <4>1. Len(in) = BlockLength(input, b) + 1
        BY <3>1, <3>3, <3>4
      <4>2. output \o DecodedBytes(in) = Prefix(input, 3 * b + BlockLength(input, b))
        BY <1>1, <1>6, <3>4, <4>1, BlockAppended
      <4> QED
        BY <3>4, <4>2
    <3> QED
      BY <1>1, <2>2, <3>5, AllBytes
  <2> QED
    BY <2>1, <2>2
<1> QED
  BY <1>1, <1>7 DEF RoundInv, TextOK, EncodingOK, TransferOK, DecodingOK, RoundTrip

(***************************************************************************)
(* base64_decode gives back the bytes that base64_encode_l was given: for  *)
(* inputs of every length and every byte value, every line size, and       *)
(* however many characters the transfer adds, as long as none of them is a *)
(* NUL (in the code, the text would end there) or of the table.            *)
(***************************************************************************)
THEOREM DecodingGivesBack ==
  ASSUME NulIsNotForeign
  PROVE  Spec => []RoundTrip
<1>1. Init => RoundInv
  BY InitRound
<1>2. RoundInv /\ [Next]_vars => RoundInv'
  <2> SUFFICES ASSUME RoundInv, [Next]_vars PROVE RoundInv'
    OBVIOUS
  <2>1. CASE EncodeRound
    BY <2>1, EncodeRoundKeeps
  <2>2. CASE EncodeEnd
    BY <2>2, EncodeEndKeeps
  <2>3. CASE AddForeign
    BY <2>3, AddForeignKeeps
  <2>4. CASE Received
    BY <2>4, ReceivedKeeps
  <2>5. CASE DecodeChar
    BY <2>5, DecodeCharKeeps
  <2>6. CASE DecodeEnd
    BY <2>6, DecodeEndKeeps
  <2>7. CASE UNCHANGED vars
    BY <2>7 DEF vars, RoundInv, TextOK, EncodingOK, TransferOK, DecodingOK, RoundTrip, All
  <2> QED
    BY <2>1, <2>2, <2>3, <2>4, <2>5, <2>6, <2>7 DEF Next
<1>3. RoundInv => RoundTrip
  BY DEF RoundInv
<1> QED
  BY <1>1, <1>2, <1>3, PTL DEF Spec
-----------------------------------------------------------------------------
(* The lines of the text.                                                  *)

BreaksOf(t) == {k \in DOMAIN t : t[k] = LF}
LengthsOf(S) ==
  {p[2] - p[1] - 2 : p \in {q \in (S \cup {0}) \X S : q[1] < q[2] /\ ~\E b \in S : q[1] < b /\ b < q[2]}}
FullOf(line) == ((line + 3) \div 4) * 4
Lengths(full) == {full} \cup {n \in 1 .. full : n % 4 = 0}

\* There is no break of S between p and q.
IsLine(S, p, q) == p \in S \cup {0} /\ p < q /\ \A b \in S : b <= p \/ b >= q

\* w characters of a line have been written, and the line is not full.
LEMMA LineGrows ==
  ASSUME NEW line \in Nat \ {0}, NEW w \in Nat, w % 4 = 0, w < line
  PROVE  /\ FullOf(line) \in Nat /\ FullOf(line) > 0
         /\ w + 4 \in 1 .. FullOf(line) /\ (w + 4) % 4 = 0
         /\ w + 4 >= line => w + 4 = FullOf(line)
<1>1. PICK c \in Nat : w = 4 * c
  <2>1. w = 4 * (w \div 4) + (w % 4) /\ w \div 4 \in Nat
    OBVIOUS
  <2> QED
    BY <2>1
<1>2. PICK d \in Nat : d = (line + 3) \div 4
  OBVIOUS
<1>3. 4 * d <= line + 3 /\ line < 4 * d + 1
  BY <1>2
<1>4. c + 1 <= d /\ (4 * c + 4 >= line => d = c + 1)
  BY <1>1, <1>3
<1>5. FullOf(line) = 4 * d
  BY <1>2 DEF FullOf
<1> QED
  BY <1>1, <1>4, <1>5

LEMMA BreaksOfJoin ==
  ASSUME NEW s \in Seq(Nat), NEW u \in Seq(Nat)
  PROVE  BreaksOf(s \o u) = BreaksOf(s) \cup {Len(s) + k : k \in BreaksOf(u)}
<1>1. PICK n \in Nat, m \in Nat : n = Len(s) /\ m = Len(u)
  BY LenProperties
<1>2. PICK x : x = s \o u
  OBVIOUS
<1>3. /\ DOMAIN s = 1 .. n /\ DOMAIN u = 1 .. m /\ DOMAIN x = 1 .. n + m
      /\ \A k \in 1 .. n + m : x[k] = IF k <= n THEN s[k] ELSE u[k - n]
  <2>1. /\ x \in Seq(Nat) /\ Len(x) = n + m
        /\ \A k \in 1 .. n + m : x[k] = IF k <= n THEN s[k] ELSE u[k - n]
    BY <1>1, <1>2, ConcatProperties
  <2> QED
    BY <1>1, <2>1, LenProperties
<1>4. ASSUME NEW k, k \in BreaksOf(x)
      PROVE  k \in BreaksOf(s) \cup {n + h : h \in BreaksOf(u)}
  <2>1. k \in 1 .. n + m /\ x[k] = LF
    BY <1>3, <1>4 DEF BreaksOf
  <2>2. CASE k <= n
    <3>1. k \in 1 .. n
      BY <2>1, <2>2
    <3> QED
      BY <1>3, <2>1, <2>2, <3>1 DEF BreaksOf
  <2>3. CASE ~(k <= n)
    <3>1. PICK h \in 1 .. m : k - n = h /\ k = n + h
      BY <2>1, <2>3
    <3>2. u[h] = LF
      BY <1>3, <2>1, <2>3, <3>1
    <3> QED
      BY <1>3, <3>1, <3>2 DEF BreaksOf
  <2> QED
    BY <2>2, <2>3
<1>5. ASSUME NEW k \in BreaksOf(s) PROVE k \in BreaksOf(x)
  <2>1. k \in 1 .. n /\ s[k] = LF
    BY <1>3, <1>5 DEF BreaksOf
  <2>2. k \in 1 .. n + m /\ k <= n
    BY <2>1
  <2> QED
    BY <1>3, <2>1, <2>2 DEF BreaksOf
<1>6. ASSUME NEW h \in BreaksOf(u) PROVE n + h \in BreaksOf(x)
  <2>1. h \in 1 .. m /\ u[h] = LF
    BY <1>3, <1>6 DEF BreaksOf
  <2>2. PICK k \in 1 .. n + m : k = n + h /\ ~(k <= n) /\ k - n = h
    BY <2>1
  <2> QED
    BY <1>3, <2>1, <2>2 DEF BreaksOf
<1>7. BreaksOf(x) = BreaksOf(s) \cup {n + h : h \in BreaksOf(u)}
  BY <1>4, <1>5, <1>6
<1> QED
  BY <1>1, <1>2, <1>7

\* What a round adds: the four letters of a block, and perhaps a line break.
LEMMA BreaksGrow ==
  ASSUME NEW t \in Seq(Nat), NEW e \in Seq(Nat), Len(e) = 4, BreaksOf(e) = {},
         NEW breaks, breaks \in {<<CR, LF>>, <<>>}
  PROVE  /\ t \o (e \o breaks) \in Seq(Nat)
         /\ breaks = <<>> => /\ Len(t \o (e \o breaks)) = Len(t) + 4
                             /\ BreaksOf(t \o (e \o breaks)) = BreaksOf(t)
         /\ breaks # <<>> => /\ Len(t \o (e \o breaks)) = Len(t) + 6
                             /\ BreaksOf(t \o (e \o breaks)) = BreaksOf(t) \cup {Len(t) + 6}
<1>1. /\ breaks \in Seq(Nat)
      /\ breaks = <<>> => Len(breaks) = 0 /\ BreaksOf(breaks) = {}
      /\ breaks # <<>> => Len(breaks) = 2 /\ BreaksOf(breaks) = {2}
  <2>1. <<>> \in Seq(Nat) /\ Len(<<>>) = 0 /\ BreaksOf(<<>>) = {}
    BY EmptySeq DEF BreaksOf
  <2>2. <<66, 67>> \in Seq(Nat) /\ Len(<<66, 67>>) = 2 /\ BreaksOf(<<66, 67>>) = {2}
    BY DEF BreaksOf, LF
  <2> QED
    BY <2>1, <2>2 DEF CR, LF
<1>2. PICK v \in Seq(Nat) : v = e \o breaks
  BY <1>1, ConcatProperties
<1>3. Len(v) = 4 + Len(breaks) /\ BreaksOf(v) = {4 + k : k \in BreaksOf(breaks)}
  <2>1. Len(v) = Len(e) + Len(breaks)
    <3>1. breaks \in Seq(Nat)
      BY <1>1
    <3> QED
      BY <1>2, <3>1, ConcatProperties, Zenon
  <2>2. BreaksOf(v) = BreaksOf(e) \cup {Len(e) + k : k \in BreaksOf(breaks)}
    BY <1>1, <1>2, BreaksOfJoin
  <2> QED
    BY <2>1, <2>2
<1>4. PICK n \in Nat : n = Len(t)
  BY LenProperties
<1>5. PICK x \in Seq(Nat) : x = t \o v
  BY <1>2, ConcatProperties
<1>6. Len(x) = n + Len(v)
  BY <1>4, <1>5, ConcatProperties
<1>7. BreaksOf(x) = BreaksOf(t) \cup {n + k : k \in BreaksOf(v)}
  BY <1>4, <1>5, BreaksOfJoin
<1>8. CASE breaks = <<>>
  <2>1. BreaksOf(v) = {} /\ Len(v) = 4
    BY <1>1, <1>3, <1>8
  <2>2. BreaksOf(x) = BreaksOf(t) /\ Len(x) = n + 4
    BY <1>6, <1>7, <2>1
  <2> QED
    BY <1>2, <1>4, <1>5, <1>8, <2>2
<1>9. CASE breaks # <<>>
  <2>1. BreaksOf(breaks) = {2} /\ Len(breaks) = 2
    BY <1>1, <1>9
  <2>2. {4 + k : k \in {2}} = {6} /\ {n + k : k \in {6}} = {n + 6}
    OBVIOUS
  <2>3. BreaksOf(v) = {6} /\ Len(v) = 6
    BY <1>3, <2>1, <2>2
  <2>4. BreaksOf(x) = BreaksOf(t) \cup {n + 6} /\ Len(x) = n + 6
    BY <1>6, <1>7, <2>2, <2>3
  <2> QED
    BY <1>2, <1>4, <1>5, <1>9, <2>4
<1> QED
  BY <1>8, <1>9

\* The lines of a text that a last one, of w characters, has been added to.
LEMMA LengthsGrow ==
  ASSUME NEW S \in SUBSET (Nat \ {0}), NEW last \in S \cup {0}, NEW full \in Nat,
         NEW w \in 1 .. full, w % 4 = 0,
         \A b \in S : b <= last /\ IsLine(S, b - (full + 2), b)
  PROVE  LengthsOf(S \cup {last + w + 2}) \subseteq Lengths(full)
<1> DEFINE z == last + w + 2
           T == S \cup {z}
<1>1. z \in Nat /\ z > last /\ \A b \in S : b \in Nat /\ b <= last /\ b < z
  OBVIOUS
<1>2. ASSUME NEW p \in T \cup {0}, NEW q \in T, p < q, \A b \in T : b <= p \/ b >= q
      PROVE  q - p - 2 \in Lengths(full)
  <2>1. CASE q = z
    <3>1. p \in S \cup {0} /\ p <= last
      BY <1>1, <1>2, <2>1
    <3>2. last <= p
      BY <1>1, <1>2, <2>1
    <3>3. q - p - 2 = w
      BY <1>1, <2>1, <3>1, <3>2
    <3> QED
      BY <3>3 DEF Lengths
  <2>2. CASE q \in S
    <3>1. PICK a : a = q - (full + 2) /\ a \in S \cup {0} /\ a < q /\ \A b \in S : b <= a \/ b >= q
      BY <2>2 DEF IsLine
    <3>2. p \in S \cup {0}
      BY <1>1, <1>2, <2>2
    <3>3. p <= a
      BY <1>1, <1>2, <2>2, <3>1, <3>2
    <3>4. a <= p
      BY <1>1, <1>2, <2>2, <3>1, <3>2
    <3>5. q - p - 2 = full
      BY <1>1, <2>2, <3>1, <3>2, <3>3, <3>4
    <3> QED
      BY <3>5 DEF Lengths
  <2> QED
    BY <2>1, <2>2
<1> HIDE DEF z
<1>3. ASSUME NEW r \in {q \in (T \cup {0}) \X T : q[1] < q[2] /\ ~\E b \in T : q[1] < b /\ b < q[2]}
      PROVE  r[2] - r[1] - 2 \in Lengths(full)
  <2>1. PICK p \in T \cup {0}, q \in T : r[1] = p /\ r[2] = q
    BY <1>3
  <2>2. p < q /\ \A b \in T : ~(p < b /\ b < q)
    BY <1>3, <2>1
  <2>3. \A b \in T : b <= p \/ b >= q
    BY <1>1, <2>1, <2>2
  <2> QED
    BY <1>2, <2>1, <2>2, <2>3
<1>4. LengthsOf(T) \subseteq Lengths(full)
  BY <1>3 DEF LengthsOf
<1> QED
  BY <1>4 DEF z

LEMMA LineCount ==
  ASSUME NEW n \in Nat, NEW w \in Nat \ {0}, NEW r \in 0 .. w - 1
  PROVE  (n * w + r) \div w = n
OBVIOUS

LEMMA NoBreakInBlock ==
  ASSUME NEW s \in Seq(Octet), NEW b \in Nat, 3 * b < Len(s)
  PROVE  BreaksOf(Encoded(s, b)) = {}
<1>1. PICK c1, c2, c3, c4 \in 0 .. PAD : Encoded(s, b) = <<c1, c2, c3, c4>>
  BY EncodedShape
<1>2. c1 # LF /\ c2 # LF /\ c3 # LF /\ c4 # LF
  BY DEF PAD, LF
<1> QED
  BY <1>1, <1>2 DEF BreaksOf

\* What has been read: b blocks.
HasBlocks(b) == 3 * b <= Len(input) /\ unread = After(input, 3 * b)

\* l lines have been ended, the last one at end, and b blocks are written.
Written(end, l, b) ==
  /\ HasBlocks(b)
  /\ Len(text) = end + b_out /\ end = l * (Full + 2) /\ Len(text) = 4 * b + 2 * l
  /\ end \in Breakpoints \cup {0}
  /\ \A k \in Breakpoints : k <= end /\ IsLine(Breakpoints, k - (Full + 2), k)

Writing ==
  /\ unread # <<>> \/ input = <<>>
  /\ b_out \in Nat /\ b_out % 4 = 0 /\ b_out < Line
  /\ \E end \in Nat : \E l \in Nat : \E b \in Nat : Written(end, l, b)

InLines ==
  /\ Len(text) \in Breakpoints
  /\ LineLengths \subseteq Lengths(Full)
  /\ Len(text) = ((Len(input) + 2) \div 3) * 4 + 2 * ((Len(text) + Full + 1) \div (Full + 2))

InOneLine == Breakpoints = {} /\ (unread = <<>> \/ \E b \in Nat : HasBlocks(b))
Broken == unread = <<>> /\ input # <<>> /\ InLines

EncodingLines ==
  /\ text \in Seq(Nat)
  /\ input = <<>> => text = <<>> /\ unread = <<>>
  /\ Line = NO_LINE_BREAK => InOneLine
  /\ Line # NO_LINE_BREAK => Writing \/ Broken

LinesInv ==
  /\ input \in Seq(Octet) /\ linesize \in LineSizes /\ added \in Nat
  /\ phase = "encode" => EncodingLines
  /\ LinesAreFull

LEMMA LineIsPositive ==
  ASSUME linesize \in LineSizes, Line # NO_LINE_BREAK PROVE Line \in Nat \ {0} /\ Full = FullOf(Line)
BY LineAssumption DEF Line, Full, FullOf

\* A round of the loop: block b, of l bytes, adds letters, and breaks.
IsLineRound(b, l, e, breaks) ==
  /\ 3 * b < Len(input) /\ 3 * b + l <= Len(input)
  /\ unread' = After(input, 3 * b + l)
  /\ l # 3 => unread' = <<>>
  /\ e \in Seq(Nat) /\ Len(e) = 4 /\ BreaksOf(e) = {}
  /\ breaks = (IF Breaks(b_out + 4, unread') THEN <<CR, LF>> ELSE <<>>)
  /\ b_out' = (IF Breaks(b_out + 4, unread') THEN 0 ELSE b_out + 4)
  /\ text' = text \o (e \o breaks)

LEMMA LineRound ==
  ASSUME input \in Seq(Octet), text \in Seq(Nat), EncodeRound, NEW b \in Nat, HasBlocks(b)
  PROVE  \E l \in 1 .. 3 : \E e, breaks : IsLineRound(b, l, e, breaks)
<1>1. input \in Seq(Nat) /\ unread # <<>> /\ unread = After(input, 3 * b) /\ 3 * b <= Len(input)
  BY OctetsAreNumbers DEF EncodeRound, HasBlocks
<1>2. 3 * b < Len(input)
  <2>1. Len(input) \in Nat /\ 3 * b \in 0 .. Len(input)
    BY <1>1
  <2>2. 3 * b # Len(input)
    BY <1>1, <2>1, EmptyAfter
  <2> QED
    BY <2>1, <2>2
<1>3. PICK l : l = BlockLength(input, b)
  OBVIOUS
<1>4. IsRound(unread, input, b, l)
  BY <1>1, <1>2, <1>3, RoundReadsBlock
<1>5. l \in 1 .. 3 /\ 3 * b + l <= Len(input)
  <2>1. l \in 1 .. 3
    BY <1>1, <1>2, <1>3, BlockShape
  <2>2. PICK n \in Nat : n = Len(input)
    BY <1>1, LenProperties
  <2>3. l = IF n - 3 * b < 3 THEN n - 3 * b ELSE 3
    BY <1>3, <2>2 DEF BlockLength
  <2>4. 3 * b + l <= n
    <3>1. PICK d \in Nat : d = 3 * b
      OBVIOUS
    <3>2. d < n /\ l = IF n - d < 3 THEN n - d ELSE 3
      BY <1>2, <2>2, <2>3, <3>1
    <3>3. d + l <= n
      BY <3>2
    <3> QED
      BY <3>1, <3>3
  <2> QED
    BY <2>1, <2>2, <2>4
<1>6. PICK e : e = EncodeBlock(BlockBytes(input, b), l)
  OBVIOUS
<1>7. e \in Seq(Nat) /\ Len(e) = 4 /\ BreaksOf(e) = {}
  BY <1>2, <1>3, <1>6, EncodedIsSeq, NoBreakInBlock DEF Encoded
<1>8. PICK breaks : breaks = IF Breaks(b_out + 4, unread') THEN <<CR, LF>> ELSE <<>>
  OBVIOUS
<1>9. /\ unread' = After(input, 3 * b + l)
      /\ text' = text \o e \o breaks
      /\ b_out' = IF Breaks(b_out + 4, unread') THEN 0 ELSE b_out + 4
  BY <1>4, <1>6, <1>8 DEF EncodeRound, IsRound
<1>10. text' = text \o (e \o breaks)
  <2>1. breaks \in Seq(Nat)
    <3>1. <<>> \in Seq(Nat) /\ <<66, 67>> \in Seq(Nat)
      OBVIOUS
    <3> QED
      BY <1>8, <3>1 DEF CR, LF
  <2>2. (text \o e) \o breaks = text \o (e \o breaks)
    BY <1>7, <2>1, ConcatToTheRight
  <2> QED
    BY <1>9, <2>2
<1>11. l # 3 => unread' = <<>>
  <2> SUFFICES ASSUME l # 3 PROVE unread' = <<>>
    OBVIOUS
  <2>1. 3 * b + l = Len(input) /\ 3 * b + l \in 0 .. Len(input)
    BY <1>1, <1>2, <1>3, LastBlock
  <2> QED
    BY <1>1, <1>9, <2>1, EmptyAfter
<1> QED
  BY <1>2, <1>5, <1>7, <1>8, <1>9, <1>10, <1>11 DEF IsLineRound

LEMMA LineAdded ==
  ASSUME NEW S \in SUBSET (Nat \ {0}), NEW last \in S \cup {0}, NEW w \in Nat \ {0},
         \A k \in S : k <= last /\ IsLine(S, k - w, k)
  PROVE  \A k \in S \cup {last + w} : k <= last + w /\ IsLine(S \cup {last + w}, k - w, k)
<1>1. PICK z \in Nat : z = last + w /\ z - w = last /\ last < z
  OBVIOUS
<1>2. IsLine(S \cup {z}, z - w, z)
  BY <1>1 DEF IsLine
<1>3. ASSUME NEW k \in S PROVE k <= z /\ IsLine(S \cup {z}, k - w, k)
  BY <1>1 DEF IsLine
<1> QED
  BY <1>1, <1>2, <1>3

LEMMA OneMoreLine == ASSUME NEW l \in Nat, NEW w \in Nat PROVE (l + 1) * w = l * w + w
OBVIOUS

\* the state that the lines are about, after a round
LEMMA LinesRoundFacts ==
  ASSUME LinesInv, EncodeRound
  PROVE  /\ phase = "encode" /\ phase' = "encode" /\ unread # <<>> /\ input # <<>>
         /\ UNCHANGED <<input, linesize, added>> /\ Line' = Line /\ Full' = Full
         /\ input \in Seq(Octet) /\ Len(input) \in Nat /\ linesize \in LineSizes /\ added \in Nat
         /\ text \in Seq(Nat) /\ Len(text) \in Nat
         /\ LinesAreFull' /\ (EncodingLines' => LinesInv')
<1>1. /\ phase = "encode" /\ phase' = "encode" /\ unread # <<>>
      /\ UNCHANGED <<input, linesize, added>>
  BY DEF EncodeRound
<1>2. /\ input \in Seq(Octet) /\ linesize \in LineSizes /\ added \in Nat /\ text \in Seq(Nat)
      /\ input # <<>>
  BY <1>1 DEF LinesInv, EncodingLines, InOneLine, Broken
<1>3. Line' = Line /\ Full' = Full
  BY <1>1 DEF Line, Full
<1>4. LinesAreFull'
  BY <1>1 DEF LinesAreFull
<1>5. Len(input) \in Nat /\ Len(text) \in Nat
  BY <1>2, LenProperties
<1> QED
  BY <1>1, <1>2, <1>3, <1>4, <1>5 DEF LinesInv

LEMMA BreakpointsAre == Breakpoints = BreaksOf(text) /\ LineLengths = LengthsOf(Breakpoints)
BY DEF Breakpoints, BreaksOf, LineLengths, LengthsOf

LEMMA RoundInOneLine ==
  ASSUME LinesInv, EncodeRound, Line = NO_LINE_BREAK
  PROVE  LinesInv'
<1>1. PICK b \in Nat : HasBlocks(b)
  BY LinesRoundFacts DEF LinesInv, EncodingLines, InOneLine, Broken
<1>2. PICK l \in 1 .. 3 : \E e, breaks : IsLineRound(b, l, e, breaks)
  BY <1>1, LinesRoundFacts, LineRound
<1>3. PICK e, breaks : IsLineRound(b, l, e, breaks)
  BY <1>2
<1>4. breaks = <<>> /\ e \in Seq(Nat) /\ Len(e) = 4 /\ BreaksOf(e) = {} /\ text' = text \o (e \o breaks)
  BY <1>3 DEF IsLineRound, Breaks
<1>5. text' \in Seq(Nat) /\ BreaksOf(text') = BreaksOf(text)
  BY <1>4, LinesRoundFacts, BreaksGrow
<1>6. Breakpoints' = {}
  <2>1. Breakpoints = BreaksOf(text) /\ Breakpoints' = BreaksOf(text')
    BY DEF Breakpoints, BreaksOf
  <2> QED
    BY <1>5, <2>1, LinesRoundFacts DEF LinesInv, EncodingLines, InOneLine, Broken
<1>7. unread' = <<>> \/ \E c \in Nat : HasBlocks(c)'
  <2>1. CASE l = 3
    <3>1. PICK c \in Nat : c = b + 1 /\ 3 * c = 3 * b + l
      BY <2>1
    <3>2. HasBlocks(c)'
      BY <1>3, <3>1, LinesRoundFacts DEF IsLineRound, HasBlocks
    <3> QED
      BY <3>2
  <2> QED
    BY <1>3, <2>1 DEF IsLineRound
<1>8. EncodingLines'
  BY <1>5, <1>6, <1>7, LinesRoundFacts DEF EncodingLines, InOneLine, Broken
<1> QED
  BY <1>8, LinesRoundFacts

\* What a round with line breaks starts from.
LEMMA RoundFrom ==
  ASSUME LinesInv, EncodeRound, Line # NO_LINE_BREAK
  PROVE  /\ Line \in Nat \ {0} /\ Full \in Nat /\ Full > 0
         /\ b_out \in Nat /\ b_out + 4 \in 1 .. Full /\ (b_out + 4) % 4 = 0
         /\ b_out + 4 >= Line => b_out + 4 = Full
         /\ \E end \in Nat : \E m \in Nat : \E b \in Nat : \E l \in 1 .. 3 : \E e, breaks :
              Written(end, m, b) /\ IsLineRound(b, l, e, breaks)
<1>1. /\ b_out \in Nat /\ b_out % 4 = 0 /\ b_out < Line
      /\ \E end \in Nat : \E m \in Nat : \E b \in Nat : Written(end, m, b)
  BY LinesRoundFacts DEF LinesInv, EncodingLines, InOneLine, Broken, Writing
<1>2. Line \in Nat \ {0} /\ Full = FullOf(Line)
  BY LinesRoundFacts, LineIsPositive
<1>3. PICK line \in Nat \ {0}, w \in Nat : line = Line /\ w = b_out /\ w % 4 = 0 /\ w < line
  BY <1>1, <1>2
<1>4. /\ FullOf(line) \in Nat /\ FullOf(line) > 0
      /\ w + 4 \in 1 .. FullOf(line) /\ (w + 4) % 4 = 0
      /\ w + 4 >= line => w + 4 = FullOf(line)
  BY <1>3, LineGrows
<1>5. PICK end \in Nat : \E m \in Nat : \E b \in Nat : Written(end, m, b)
  BY <1>1
<1>6. PICK m \in Nat : \E b \in Nat : Written(end, m, b)
  BY <1>5
<1>7. PICK b \in Nat : Written(end, m, b)
  BY <1>6
<1>8. \E l \in 1 .. 3 : \E e, breaks : IsLineRound(b, l, e, breaks)
  BY <1>7, LinesRoundFacts, LineRound DEF Written
<1> QED
  BY <1>1, <1>2, <1>3, <1>4, <1>7, <1>8

\* The breakpoints before and after a round, as sets.
LEMMA RoundBreaks ==
  ASSUME text \in Seq(Nat), NEW b, NEW l, NEW e, NEW breaks, IsLineRound(b, l, e, breaks)
  PROVE  /\ text' \in Seq(Nat) /\ Breakpoints \subseteq Nat \ {0}
         /\ ~Breaks(b_out + 4, unread') =>
              b_out' = b_out + 4 /\ Len(text') = Len(text) + 4 /\ Breakpoints' = Breakpoints
         /\ Breaks(b_out + 4, unread') =>
              /\ b_out' = 0 /\ Len(text') = Len(text) + 6
              /\ Breakpoints' = Breakpoints \cup {Len(text) + 6}
<1>1. /\ e \in Seq(Nat) /\ Len(e) = 4 /\ BreaksOf(e) = {} /\ text' = text \o (e \o breaks)
      /\ breaks \in {<<CR, LF>>, <<>>}
      /\ Breaks(b_out + 4, unread') => breaks = <<CR, LF>> /\ b_out' = 0
      /\ ~Breaks(b_out + 4, unread') => breaks = <<>> /\ b_out' = b_out + 4
  BY DEF IsLineRound
<1>2. <<CR, LF>> # <<>>
  OBVIOUS
<1>3. /\ text' \in Seq(Nat)
      /\ breaks = <<>> => Len(text') = Len(text) + 4 /\ BreaksOf(text') = BreaksOf(text)
      /\ breaks # <<>> => /\ Len(text') = Len(text) + 6
                          /\ BreaksOf(text') = BreaksOf(text) \cup {Len(text) + 6}
  BY <1>1, BreaksGrow
<1>4. Breakpoints = BreaksOf(text) /\ Breakpoints' = BreaksOf(text')
  BY DEF Breakpoints, BreaksOf
<1>5. Breakpoints \subseteq Nat \ {0}
  BY LenProperties DEF Breakpoints
<1> QED
  BY <1>1, <1>2, <1>3, <1>4, <1>5

\* The line goes on, or ends because it is full.
LEMMA RoundWithin ==
  ASSUME LinesInv, EncodeRound, Line # NO_LINE_BREAK, unread' # <<>>
  PROVE  Writing' /\ text' \in Seq(Nat)
<1>1. PICK end \in Nat : \E m \in Nat : \E b \in Nat : \E l \in 1 .. 3 : \E e, breaks :
        Written(end, m, b) /\ IsLineRound(b, l, e, breaks)
  BY RoundFrom
<1>2. PICK m \in Nat : \E b \in Nat : \E l \in 1 .. 3 : \E e, breaks :
        Written(end, m, b) /\ IsLineRound(b, l, e, breaks)
  BY <1>1
<1>3. PICK b \in Nat : \E l \in 1 .. 3 : \E e, breaks :
        Written(end, m, b) /\ IsLineRound(b, l, e, breaks)
  BY <1>2
<1>4. PICK l \in 1 .. 3 : \E e, breaks : Written(end, m, b) /\ IsLineRound(b, l, e, breaks)
  BY <1>3
<1>5. PICK e, breaks : Written(end, m, b) /\ IsLineRound(b, l, e, breaks)
  BY <1>4
<1>6. l = 3 /\ 3 * b + l <= Len(input) /\ unread' = After(input, 3 * b + l)
  BY <1>5 DEF IsLineRound
<1>7. PICK c \in Nat : c = b + 1 /\ 3 * c = 3 * b + l /\ 4 * c = 4 * b + 4
  BY <1>6
<1>8. HasBlocks(c)'
  BY <1>6, <1>7, LinesRoundFacts DEF HasBlocks
<1>9. /\ text' \in Seq(Nat) /\ Breakpoints \subseteq Nat \ {0}
      /\ ~Breaks(b_out + 4, unread') =>
           b_out' = b_out + 4 /\ Len(text') = Len(text) + 4 /\ Breakpoints' = Breakpoints
      /\ Breaks(b_out + 4, unread') =>
           /\ b_out' = 0 /\ Len(text') = Len(text) + 6
           /\ Breakpoints' = Breakpoints \cup {Len(text) + 6}
  BY <1>5, LinesRoundFacts, RoundBreaks
<1>10. /\ Line \in Nat \ {0} /\ Full \in Nat /\ b_out \in Nat
       /\ (b_out + 4) % 4 = 0 /\ (b_out + 4 >= Line => b_out + 4 = Full)
  BY RoundFrom
<1>11. /\ Len(text) \in Nat /\ Len(text) = end + b_out /\ end = m * (Full + 2)
       /\ Len(text) = 4 * b + 2 * m /\ end \in Breakpoints \cup {0}
       /\ \A k \in Breakpoints : k <= end /\ IsLine(Breakpoints, k - (Full + 2), k)
  BY <1>5, LinesRoundFacts DEF Written
<1>12. Line' = Line /\ Full' = Full
  BY LinesRoundFacts
<1>13. CASE b_out + 4 >= Line
  <2>1. Breaks(b_out + 4, unread')
    BY <1>13 DEF Breaks
  <2>2. PICK z \in Nat : z = Len(text) + 6 /\ z = end + (Full + 2)
    BY <1>10, <1>11, <1>13
  <2>3. b_out' = 0 /\ Len(text') = z /\ Breakpoints' = Breakpoints \cup {z}
    BY <1>9, <2>1, <2>2
  <2>4. PICK n \in Nat : n = m + 1
    OBVIOUS
  <2>5. z = n * (Full + 2)
    <3>1. PICK w \in Nat : w = Full + 2
      BY <1>10
    <3>2. (m + 1) * w = m * w + w
      BY OneMoreLine
    <3> QED
      BY <1>11, <2>2, <2>4, <3>1, <3>2
  <2>6. z = 4 * c + 2 * n
    BY <1>7, <1>11, <2>2, <2>4
  <2>7. \A k \in Breakpoints \cup {z} : k <= z /\ IsLine(Breakpoints \cup {z}, k - (Full + 2), k)
    <3>1. PICK w \in Nat \ {0} : w = Full + 2
      BY <1>10
    <3>2. Breakpoints \in SUBSET (Nat \ {0}) /\ end \in Breakpoints \cup {0}
          /\ \A k \in Breakpoints : k <= end /\ IsLine(Breakpoints, k - w, k)
      BY <1>9, <1>11, <3>1
    <3>3. \A k \in Breakpoints \cup {end + w} :
            k <= end + w /\ IsLine(Breakpoints \cup {end + w}, k - w, k)
      BY <3>2, LineAdded
    <3> QED
      BY <2>2, <3>1, <3>3
  <2>8. Len(text') = z + b_out'
    BY <2>2, <2>3
  <2>9. Written(z, n, c)'
    BY <1>8, <1>12, <2>3, <2>5, <2>6, <2>7, <2>8 DEF Written
  <2>10. 0 % 4 = 0 /\ 0 < Line
    BY <1>10
  <2> QED
    BY <1>9, <1>12, <2>2, <2>3, <2>4, <2>9, <2>10 DEF Writing
<1>14. CASE ~(b_out + 4 >= Line)
  <2>1. ~Breaks(b_out + 4, unread')
    BY <1>14 DEF Breaks
  <2>2. b_out' = b_out + 4 /\ Len(text') = Len(text) + 4 /\ Breakpoints' = Breakpoints
    BY <1>9, <2>1
  <2>3. Len(text') = end + b_out' /\ Len(text') = 4 * c + 2 * m
    BY <1>7, <1>10, <1>11, <2>2
  <2>4. Written(end, m, c)'
    BY <1>8, <1>11, <1>12, <2>2, <2>3 DEF Written
  <2>5. b_out' \in Nat /\ b_out' % 4 = 0 /\ b_out' < Line
    BY <1>10, <1>14, <2>2
  <2> QED
    BY <1>9, <1>12, <2>4, <2>5 DEF Writing
<1> QED
  BY <1>13, <1>14

\* The last block ends its line, whether it is full or not.
LEMMA RoundAtEnd ==
  ASSUME LinesInv, EncodeRound, Line # NO_LINE_BREAK, unread' = <<>>
  PROVE  InLines' /\ text' \in Seq(Nat)
<1>1. PICK end \in Nat : \E m \in Nat : \E b \in Nat : \E l \in 1 .. 3 : \E e, breaks :
        Written(end, m, b) /\ IsLineRound(b, l, e, breaks)
  BY RoundFrom
<1>2. PICK m \in Nat : \E b \in Nat : \E l \in 1 .. 3 : \E e, breaks :
        Written(end, m, b) /\ IsLineRound(b, l, e, breaks)
  BY <1>1
<1>3. PICK b \in Nat : \E l \in 1 .. 3 : \E e, breaks :
        Written(end, m, b) /\ IsLineRound(b, l, e, breaks)
  BY <1>2
<1>4. PICK l \in 1 .. 3 : \E e, breaks : Written(end, m, b) /\ IsLineRound(b, l, e, breaks)
  BY <1>3
<1>5. PICK e, breaks : Written(end, m, b) /\ IsLineRound(b, l, e, breaks)
  BY <1>4
<1>6. 3 * b < Len(input) /\ 3 * b + l = Len(input)
  <2>1. 3 * b < Len(input) /\ 3 * b + l <= Len(input) /\ unread' = After(input, 3 * b + l)
    BY <1>5 DEF IsLineRound
  <2>2. 3 * b + l \in 0 .. Len(input)
    BY <2>1
  <2>3. input \in Seq(Nat)
    BY LinesRoundFacts, OctetsAreNumbers
  <2> QED
    BY <2>1, <2>2, <2>3, EmptyAfter
<1>7. Breaks(b_out + 4, unread')
  BY DEF Breaks
<1>8. PICK w \in 1 .. Full : w = b_out + 4 /\ w % 4 = 0
  BY RoundFrom
<1>9. Full \in Nat
  BY RoundFrom
<1>10. /\ Len(text) \in Nat /\ Len(text) = end + b_out /\ end = m * (Full + 2)
       /\ Len(text) = 4 * b + 2 * m /\ end \in Breakpoints \cup {0}
       /\ \A k \in Breakpoints : k <= end /\ IsLine(Breakpoints, k - (Full + 2), k)
  BY <1>5, LinesRoundFacts DEF Written
<1>11. Len(text) + 6 = end + w + 2
  <2>1. b_out \in Nat
    BY RoundFrom
  <2> QED
    BY <1>8, <1>10, <2>1
<1>12. PICK z \in Nat : z = end + w + 2
  BY <1>8
<1>13. /\ text' \in Seq(Nat) /\ Breakpoints \in SUBSET (Nat \ {0})
       /\ Len(text') = z /\ Breakpoints' = Breakpoints \cup {z}
  BY <1>5, <1>7, <1>11, <1>12, LinesRoundFacts, RoundBreaks
<1>14. (LineLengths \subseteq Lengths(Full))'
  <2>1. LengthsOf(Breakpoints \cup {end + w + 2}) \subseteq Lengths(Full)
    BY <1>8, <1>9, <1>10, <1>13, LengthsGrow
  <2>2. LineLengths' = LengthsOf(Breakpoints')
    BY DEF LineLengths, LengthsOf
  <2>3. Lengths(Full)' = Lengths(Full)
    BY LinesRoundFacts DEF Lengths
  <2> QED
    BY <1>12, <1>13, <2>1, <2>2, <2>3
<1>15. (Len(input) + 2) \div 3 = b + 1
  <2>1. PICK n \in Nat : n = Len(input) /\ n = 3 * b + l
    BY <1>6, LinesRoundFacts
  <2>2. (n + 2) \div 3 = b + 1
    BY <2>1
  <2> QED
    BY <2>1, <2>2
<1>16. (z + Full + 1) \div (Full + 2) = m + 1
  <2>1. PICK x \in Nat \ {0} : x = Full + 2
    BY <1>9
  <2>2. PICK r \in 0 .. x - 1 : r = w + 1
    BY <1>9, <2>1
  <2>3. PICK p \in Nat : p = m + 1
    OBVIOUS
  <2>4. p * x = m * x + x
    BY <2>3, OneMoreLine
  <2>5. z + Full + 1 = p * x + r
    BY <1>9, <1>10, <1>12, <2>1, <2>2, <2>4
  <2>6. (p * x + r) \div x = p
    BY LineCount
  <2> QED
    BY <2>1, <2>3, <2>5, <2>6
<1>17. z = (b + 1) * 4 + 2 * (m + 1)
  BY <1>10, <1>11, <1>12
<1>18. (Len(text) = ((Len(input) + 2) \div 3) * 4 + 2 * ((Len(text) + Full + 1) \div (Full + 2)))'
  BY <1>13, <1>15, <1>16, <1>17, LinesRoundFacts
<1> QED
  BY <1>13, <1>14, <1>18 DEF InLines

LEMMA RoundInLines ==
  ASSUME LinesInv, EncodeRound
  PROVE  LinesInv'
<1>1. CASE Line = NO_LINE_BREAK
  BY <1>1, RoundInOneLine
<1>2. CASE Line # NO_LINE_BREAK /\ unread' # <<>>
  <2>1. EncodingLines'
    <3>1. Writing' /\ text' \in Seq(Nat) /\ input' # <<>> /\ Line' # NO_LINE_BREAK
      BY <1>2, RoundWithin, LinesRoundFacts
    <3> QED
      BY <3>1 DEF EncodingLines
  <2> QED
    BY <2>1, LinesRoundFacts
<1>3. CASE Line # NO_LINE_BREAK /\ unread' = <<>>
  <2>1. EncodingLines'
    <3>1. InLines' /\ text' \in Seq(Nat) /\ input' # <<>> /\ Line' # NO_LINE_BREAK
      BY <1>3, RoundAtEnd, LinesRoundFacts
    <3>2. Broken'
      BY <1>3, <3>1 DEF Broken
    <3> QED
      BY <3>1, <3>2 DEF EncodingLines
  <2> QED
    BY <2>1, LinesRoundFacts
<1> QED
  BY <1>1, <1>2, <1>3

\* A step that leaves the text, the input and the line size alone.
LinesStay ==
  /\ Line' = Line /\ Full' = Full /\ Breakpoints' = Breakpoints /\ LineLengths' = LineLengths
  /\ InLines => InLines'

LEMMA LinesDoStay ==
  ASSUME UNCHANGED <<input, linesize, text>>
  PROVE  LinesStay
<1>1. Line' = Line /\ Full' = Full /\ Breakpoints' = Breakpoints /\ LineLengths' = LineLengths
  BY DEF Line, Full, Breakpoints, LineLengths
<1>2. Lengths(Full)' = Lengths(Full)
  BY <1>1 DEF Lengths
<1> QED
  BY <1>1, <1>2 DEF LinesStay, InLines

LEMMA InitLines == ASSUME Init PROVE LinesInv
<1>1. input \in Seq(Octet) /\ input \in Seq(Nat)
  <2>1. input \in Seq(Octet)
    BY InitRound DEF RoundInv, TextOK
  <2> QED
    BY <2>1, OctetsAreNumbers
<1>2. /\ phase = "encode" /\ text = <<>> /\ unread = input /\ b_out = 0 /\ added = 0
      /\ linesize \in LineSizes
  BY DEF Init
<1>3. Breakpoints = {} /\ text \in Seq(Nat) /\ Len(text) = 0
  BY <1>2, EmptySeq DEF Breakpoints
<1>4. PICK b \in Nat : b = 0
  OBVIOUS
<1>5. HasBlocks(b)
  <2>1. 3 * b = 0 /\ 0 <= Len(input)
    BY <1>1, <1>4, LenProperties
  <2>2. After(input, 0) = input
    BY <1>1, AllBytes
  <2> QED
    BY <1>2, <2>1, <2>2 DEF HasBlocks
<1>6. Line # NO_LINE_BREAK => Writing
  <2> SUFFICES ASSUME Line # NO_LINE_BREAK PROVE Writing
    OBVIOUS
  <2>1. Line \in Nat \ {0} /\ Full = FullOf(Line)
    BY <1>2, LineIsPositive
  <2>2. FullOf(Line) \in Nat
    <3>1. PICK line \in Nat \ {0}, w \in Nat : line = Line /\ w = 0 /\ w % 4 = 0 /\ w < line
      BY <2>1
    <3> QED
      BY <3>1, LineGrows
  <2>3. b * (Full + 2) = 0 /\ 4 * b + 2 * b = 0 /\ b + 0 = 0
    BY <1>4, <2>1, <2>2
  <2>4. Written(b, b, b)
    BY <1>2, <1>3, <1>4, <1>5, <2>3 DEF Written
  <2>5. 0 % 4 = 0 /\ 0 < Line
    BY <2>1
  <2> QED
    BY <1>2, <2>4, <2>5 DEF Writing
<1>7. LinesAreFull
  BY <1>2 DEF LinesAreFull
<1>8. EncodingLines
  <2>1. InOneLine
    BY <1>3, <1>5 DEF InOneLine
  <2> QED
    BY <1>2, <1>3, <1>6, <2>1 DEF EncodingLines
<1> QED
  BY <1>1, <1>2, <1>7, <1>8 DEF LinesInv

(***************************************************************************)
(* base64_encode_l, for inputs of every length and every line size: each   *)
(* line but the last is the first multiple of four characters that reaches *)
(* the line size, the last is neither empty nor longer, and the text ends  *)
(* with a line break; without a line size there is none.                   *)
(***************************************************************************)
THEOREM EncodingFillsLines == Spec => []LinesAreFull
<1>1. Init => LinesInv
  BY InitLines
<1>2. LinesInv /\ [Next]_vars => LinesInv'
  <2> SUFFICES ASSUME LinesInv, [Next]_vars PROVE LinesInv'
    OBVIOUS
  <2>1. CASE EncodeRound
    BY <2>1, RoundInLines
  <2>2. CASE EncodeEnd
    <3>1. /\ phase = "encode" /\ unread = <<>> /\ phase' = "transfer"
          /\ UNCHANGED <<input, linesize, text, b_out, added>>
      BY <2>2 DEF EncodeEnd
    <3>2. LinesAreFull'
      <4>1. CASE input = <<>>
        <5>1. text = <<>>
          BY <3>1, <4>1 DEF LinesInv, EncodingLines, InOneLine, Broken
        <5>2. Breakpoints' = {}
          BY <3>1, <5>1, EmptySeq DEF Breakpoints
        <5> QED
          BY <3>1, <4>1, <5>2 DEF LinesAreFull
      <4>2. CASE Line = NO_LINE_BREAK
        <5>1. Breakpoints' = {} /\ Line' = NO_LINE_BREAK
          BY <3>1, <4>2 DEF LinesInv, EncodingLines, InOneLine, Broken, Breakpoints, Line
        <5> QED
          BY <5>1 DEF LinesAreFull
      <4>3. CASE input # <<>> /\ Line # NO_LINE_BREAK
        <5>1. InLines
          BY <3>1, <4>3 DEF LinesInv, EncodingLines, InOneLine, Broken, Writing
        <5>2. LinesStay
          BY <3>1, LinesDoStay
        <5>3. InLines'
          BY <5>1, <5>2 DEF LinesStay
        <5> QED
            <6>1. Len(text)' \in Breakpoints' /\ LineLengths' \subseteq Lengths(Full)'
                  /\ (Len(text) = ((Len(input) + 2) \div 3) * 4
                                 + 2 * ((Len(text) + Full + 1) \div (Full + 2)))'
              BY <5>3 DEF InLines
            <6>2. Lengths(Full)' = ({Full} \cup {n \in 1 .. Full : n % 4 = 0})'
              BY DEF Lengths
            <6>3. input' # <<>> /\ Line' # NO_LINE_BREAK
              BY <3>1, <4>3, <5>2 DEF LinesStay
            <6> QED
              BY <6>1, <6>2, <6>3 DEF LinesAreFull
      <4> QED
        BY <4>1, <4>2, <4>3
    <3> QED
      BY <3>1, <3>2 DEF LinesInv
  <2>3. CASE AddForeign
    <3>1. /\ phase' = "transfer" /\ added' = added + 1 /\ UNCHANGED <<input, linesize>>
      BY <2>3 DEF AddForeign
    <3>2. added' \in Nat /\ added' # 0
      BY <3>1 DEF LinesInv
    <3> QED
      BY <3>1, <3>2 DEF LinesInv, LinesAreFull
  <2>4. CASE Received \/ DecodeChar \/ DecodeEnd
    <3>1. phase' # "encode" /\ phase' # "transfer" /\ UNCHANGED <<input, linesize, added>>
      BY <2>4 DEF Received, DecodeChar, DecodeEnd
    <3> QED
      BY <3>1 DEF LinesInv, LinesAreFull
  <2>5. CASE UNCHANGED vars
    <3>1. UNCHANGED <<input, linesize, phase, unread, text, b_out, added>>
      BY <2>5 DEF vars
    <3>2. LinesStay
      BY <3>1, LinesDoStay
    <3>3. Writing => Writing'
      <4> SUFFICES ASSUME Writing PROVE Writing'
        OBVIOUS
      <4>1. \A end, l, b : Written(end, l, b) => Written(end, l, b)'
        BY <3>1, <3>2 DEF LinesStay, Written, HasBlocks
      <4> QED
        BY <3>1, <3>2, <4>1 DEF LinesStay, Writing
    <3>4. EncodingLines => EncodingLines'
      BY <3>1, <3>2, <3>3 DEF LinesStay, EncodingLines, InOneLine, Broken, HasBlocks
    <3>5. LinesAreFull'
      BY <3>1, <3>2 DEF LinesInv, LinesStay, LinesAreFull
    <3> QED
      BY <3>1, <3>4, <3>5 DEF LinesInv
  <2> QED
    BY <2>1, <2>2, <2>3, <2>4, <2>5 DEF Next
<1>3. LinesInv => LinesAreFull
  BY DEF LinesInv
<1> QED
  BY <1>1, <1>2, <1>3, PTL DEF Spec
=============================================================================
