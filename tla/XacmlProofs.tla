---------------------------- MODULE XacmlProofs ----------------------------
(***************************************************************************)
(* For any number of XACML objects: each has one owner, none is deleted    *)
(* twice and none is left behind, whoever uses them (XacmlObjects), and    *)
(* unmarshalling uses them as their owner (Unmarshalling).                 *)
(*                                                                         *)
(* The argument is about a forest: H[p] is what p points to, L the live    *)
(* objects and O those that the application has to delete.                 *)
(***************************************************************************)
EXTENDS Unmarshalling, TLAPS

OneHolder(H) ==
  \A p, q, x \in Objects : x \in H[p] /\ x \in H[q] => p = q

\* every set of objects has one that nothing in the set points to
NoCycles(H) ==
  \A S \in SUBSET Objects : S # {} => \E x \in S : \A y \in S : x \notin H[y]

Forest(H, L, O) ==
  /\ H \in [Objects -> SUBSET Objects]
  /\ L \subseteq Objects
  /\ O \subseteq L
  /\ \A p \in Objects : H[p] \subseteq L \ O
  /\ \A p \in Objects \ L : H[p] = {}
  /\ \A x \in L \ O : \E p \in Objects : x \in H[p]
  /\ OneHolder(H)
  /\ NoCycles(H)

Closed(H, S) == \A y \in S : H[y] \subseteq S
Reach(H, o)  == {x \in Objects : \A S \in SUBSET Objects : Closed(H, S) /\ o \in S => x \in S}

-----------------------------------------------------------------------------
(* What an object reaches.                                                 *)

LEMMA ReachIsClosed ==
  ASSUME NEW H \in [Objects -> SUBSET Objects], NEW o \in Objects
  PROVE  /\ o \in Reach(H, o)
         /\ Closed(H, Reach(H, o))
         /\ Reach(H, o) \in SUBSET Objects
  BY DEF Reach, Closed

LEMMA ReachIsLeast ==
  ASSUME NEW H, NEW o \in Objects, NEW S \in SUBSET Objects, Closed(H, S), o \in S
  PROVE  Reach(H, o) \subseteq S
  BY DEF Reach

\* with fewer pointers less is reached
LEMMA ReachShrinks ==
  ASSUME NEW H \in [Objects -> SUBSET Objects], NEW o \in Objects,
         NEW G, \A y \in Objects : G[y] \subseteq H[y]
  PROVE  Reach(G, o) \subseteq Reach(H, o)
<1>1. \A S \in SUBSET Objects : Closed(H, S) => Closed(G, S)
  BY DEF Closed
<1> QED BY <1>1 DEF Reach

\* what is reached is o, or something reached points to it
LEMMA ReachHasHolder ==
  ASSUME NEW H \in [Objects -> SUBSET Objects], NEW o \in Objects,
         NEW x \in Reach(H, o), x # o
  PROVE  \E y \in Reach(H, o) : x \in H[y]
<1> DEFINE T == Reach(H, o)
<1>1. SUFFICES ASSUME \A y \in T : x \notin H[y] PROVE FALSE
  OBVIOUS
<1>2. Closed(H, T \ {x}) /\ o \in T \ {x} /\ T \ {x} \in SUBSET Objects
  BY <1>1, ReachIsClosed DEF Closed
<1>3. T \subseteq T \ {x}
  <2> HIDE DEF T
  <2>1. Reach(H, o) \subseteq T \ {x}
    BY <1>2, ReachIsLeast
  <2> QED BY <2>1 DEF T
<1> QED BY <1>3

\* an object that something points to is not reached by it again
LEMMA HolderIsNotReached ==
  ASSUME NEW H, NEW L, NEW O, Forest(H, L, O),
         NEW p \in Objects, NEW o \in Objects, o \in H[p]
  PROVE  p \notin Reach(H, o)
<1>0. H \in [Objects -> SUBSET Objects] /\ NoCycles(H)
  BY DEF Forest
<1>1. SUFFICES ASSUME p \in Reach(H, o) PROVE FALSE
  OBVIOUS
<1>2. o \in Reach(H, o) /\ Reach(H, o) \in SUBSET Objects
  BY <1>0, ReachIsClosed
<1>3. PICK x \in Reach(H, o) : \A y \in Reach(H, o) : x \notin H[y]
  <2> DEFINE T == Reach(H, o)
  <2>1. T \in SUBSET Objects /\ T # {}
    BY <1>2
  <2> HIDE DEF T
  <2>2. \E x \in T : \A y \in T : x \notin H[y]
    BY <1>0, <2>1 DEF NoCycles
  <2> QED BY <2>2 DEF T
<1>4. x # o
  BY <1>1, <1>3
<1> QED BY <1>0, <1>3, <1>4, ReachHasHolder

\* what is reached is live
LEMMA ReachIsLive ==
  ASSUME NEW H, NEW L, NEW O, Forest(H, L, O), NEW o \in L
  PROVE  Reach(H, o) \subseteq L
<1>1. Closed(H, L) /\ o \in Objects /\ L \in SUBSET Objects
  BY DEF Forest, Closed
<1> QED BY <1>1, ReachIsLeast

-----------------------------------------------------------------------------
(* What an operation makes of a forest.                                    *)

LEMMA ForestGrows ==
  ASSUME NEW H, NEW L, NEW O, Forest(H, L, O), NEW o \in Objects \ L
  PROVE  Forest(H, L \cup {o}, O \cup {o})
  BY DEF Forest

LEMMA ForestGives ==
  ASSUME NEW H, NEW L, NEW O, Forest(H, L, O),
         NEW p \in L, NEW o \in O, p \notin Reach(H, o)
  PROVE  Forest([H EXCEPT ![p] = @ \cup {o}], L, O \ {o})
<1> DEFINE G == [H EXCEPT ![p] = @ \cup {o}]
<1>0. /\ H \in [Objects -> SUBSET Objects] /\ p \in Objects /\ o \in Objects
      /\ NoCycles(H) /\ OneHolder(H)
  BY DEF Forest
<1>1. G \in [Objects -> SUBSET Objects]
  BY <1>0
<1>2. \A y \in Objects : G[y] = IF y = p THEN H[y] \cup {o} ELSE H[y]
  BY <1>0
<1> HIDE DEF G
<1>3. OneHolder(G)
  <2>1. \A y \in Objects : o \notin H[y]
    BY DEF Forest
  <2> QED BY <1>0, <1>2, <2>1 DEF OneHolder
<1>4. NoCycles(G)
  <2> SUFFICES ASSUME NEW S \in SUBSET Objects, S # {}
               PROVE  \E x \in S : \A y \in S : x \notin G[y]
    BY DEF NoCycles
  <2> DEFINE T == Reach(H, o)
             R == S \ T
  <2>1. o \in T /\ Closed(H, T) /\ T \in SUBSET Objects
    BY <1>0, ReachIsClosed
  <2>2. p \notin T
    OBVIOUS
  <2> HIDE DEF T
  <2>3. CASE R # {}
    <3>1. PICK x \in R : \A y \in R : x \notin H[y]
      <4>1. R \in SUBSET Objects
        OBVIOUS
      <4> HIDE DEF R
      <4> QED BY <1>0, <2>3, <4>1 DEF NoCycles
    <3>2. x \in S /\ x # o /\ \A y \in S : x \notin H[y]
      BY <2>1, <3>1 DEF Closed
    <3> QED BY <1>2, <3>2
  <2>4. CASE R = {}
    <3>1. p \notin S
      BY <2>2, <2>4
    <3>2. PICK x \in S : \A y \in S : x \notin H[y]
      BY <1>0 DEF NoCycles
    <3> QED BY <1>2, <3>1, <3>2
  <2> QED BY <2>3, <2>4
<1>5. \A q \in Objects : G[q] \subseteq L \ (O \ {o})
  BY <1>2 DEF Forest
<1>6. \A q \in Objects \ L : G[q] = {}
  BY <1>2 DEF Forest
<1>7. \A x \in L \ (O \ {o}) : \E q \in Objects : x \in G[q]
  BY <1>0, <1>2 DEF Forest
<1>8. L \subseteq Objects /\ O \ {o} \subseteq L
  BY DEF Forest
<1>9. Forest(G, L, O \ {o})
  BY <1>1, <1>3, <1>4, <1>5, <1>6, <1>7, <1>8 DEF Forest
<1> QED BY <1>9 DEF G

\* o, and all that it reaches, is deleted; what pointed to it no longer does
LEMMA ForestLoses ==
  ASSUME NEW H, NEW L, NEW O, Forest(H, L, O), NEW o \in L
  PROVE  LET T == Reach(H, o)
         IN  Forest([x \in Objects |-> IF x \in T THEN {} ELSE H[x] \ {o}], L \ T, O \ {o})
<1> DEFINE T == Reach(H, o)
           G == [x \in Objects |-> IF x \in T THEN {} ELSE H[x] \ {o}]
<1>0. /\ H \in [Objects -> SUBSET Objects] /\ o \in Objects
      /\ NoCycles(H) /\ OneHolder(H)
  BY DEF Forest
<1>1. o \in T /\ Closed(H, T) /\ T \in SUBSET Objects
  BY <1>0, ReachIsClosed
<1>2. \A x \in T : x # o => \E y \in T : x \in H[y]
  BY <1>0, ReachHasHolder
<1>3. T \subseteq L
  BY ReachIsLive
<1> HIDE DEF T
<1>4. G \in [Objects -> SUBSET Objects]
  BY <1>0
<1>5. \A x \in Objects : G[x] = IF x \in T THEN {} ELSE H[x] \ {o}
  OBVIOUS
<1> HIDE DEF G
<1>6. \A x \in Objects : G[x] \subseteq H[x]
  BY <1>5
<1>7. OneHolder(G) /\ NoCycles(G)
  BY <1>0, <1>6 DEF OneHolder, NoCycles
<1>8. \A q \in Objects : G[q] \cap T = {}
  <2> SUFFICES ASSUME NEW q \in Objects, NEW x \in T, x \in G[q] PROVE FALSE
    OBVIOUS
  <2>1. q \notin T /\ x # o /\ x \in H[q]
    BY <1>5
  <2>2. PICK y \in T : x \in H[y]
    BY <1>2, <2>1
  <2> QED BY <1>0, <1>1, <2>1, <2>2 DEF OneHolder
<1>9. (O \ {o}) \cap T = {}
  BY <1>1, <1>2 DEF Forest
<1>10. \A q \in Objects : G[q] \subseteq (L \ T) \ (O \ {o})
  BY <1>6, <1>8 DEF Forest
<1>11. \A q \in Objects \ (L \ T) : G[q] = {}
  BY <1>5, <1>6 DEF Forest
<1>12. \A x \in (L \ T) \ (O \ {o}) : \E q \in Objects : x \in G[q]
  <2> SUFFICES ASSUME NEW x \in (L \ T) \ (O \ {o}) PROVE \E q \in Objects : x \in G[q]
    OBVIOUS
  <2>1. x # o /\ x \in L \ O
    BY <1>1
  <2>2. PICK q \in Objects : x \in H[q]
    BY <2>1 DEF Forest
  <2>3. q \notin T
    BY <1>1, <2>2 DEF Closed
  <2> QED BY <1>5, <2>1, <2>2, <2>3
<1>13. L \ T \subseteq Objects /\ O \ {o} \subseteq L \ T
  BY <1>9 DEF Forest
<1>14. Forest(G, L \ T, O \ {o})
  BY <1>4, <1>7, <1>10, <1>11, <1>12, <1>13 DEF Forest
<1> QED BY <1>14 DEF G, T

\* p lets go of o, which becomes the application's
LEMMA ForestReturns ==
  ASSUME NEW H, NEW L, NEW O, Forest(H, L, O),
         NEW p \in Objects, NEW o \in Objects, o \in H[p]
  PROVE  Forest([H EXCEPT ![p] = @ \ {o}], L, O \cup {o})
<1> DEFINE G == [H EXCEPT ![p] = @ \ {o}]
<1>0. H \in [Objects -> SUBSET Objects] /\ NoCycles(H) /\ OneHolder(H)
  BY DEF Forest
<1>1. G \in [Objects -> SUBSET Objects]
  BY <1>0
<1>2. \A y \in Objects : G[y] = IF y = p THEN H[y] \ {o} ELSE H[y]
  BY <1>0
<1> HIDE DEF G
<1>3. OneHolder(G) /\ NoCycles(G)
  <2>1. \A y \in Objects : G[y] \subseteq H[y]
    BY <1>2
  <2> QED BY <1>0, <2>1 DEF OneHolder, NoCycles
<1>4. o \in L
  BY DEF Forest
<1>5. \A q \in Objects : G[q] \subseteq L \ (O \cup {o})
  BY <1>0, <1>2 DEF Forest, OneHolder
<1>6. \A q \in Objects \ L : G[q] = {}
  BY <1>2 DEF Forest
<1>7. \A x \in L \ (O \cup {o}) : \E q \in Objects : x \in G[q]
  BY <1>2 DEF Forest
<1>8. L \subseteq Objects /\ O \cup {o} \subseteq L
  BY <1>4 DEF Forest
<1>9. Forest(G, L, O \cup {o})
  BY <1>1, <1>3, <1>5, <1>6, <1>7, <1>8 DEF Forest
<1> QED BY <1>9 DEF G

-----------------------------------------------------------------------------
(* The invariant of XacmlObjects.                                          *)

Slots == Lists \cup Children

\* what p points to through one of its lists or pointers
Via(p, f) == IF f \in Lists THEN Elements(p, f) ELSE ChildOf(p, f)

HoldsOf == [o \in Objects |-> Holds(o)]

LinkTypes ==
  /\ kind  \in [Objects -> Kinds \cup {"free"}]
  /\ list  \in [Objects -> [Lists -> Seq(Objects)]]
  /\ child \in [Objects -> [Children -> Objects \cup {NULL}]]

ListsOf == {<<"request", "subjects">>, <<"request", "resources">>, <<"subject", "attributes">>,
            <<"resource", "attributes">>, <<"action", "attributes">>,
            <<"environment", "attributes">>, <<"response", "results">>,
            <<"result", "obligations">>, <<"obligation", "assignments">>}

ChildrenOf == {<<"request", "action">>, <<"request", "environment">>, <<"response", "request">>,
               <<"result", "status">>, <<"status", "code">>, <<"statuscode", "subcode">>}

\* an object uses the lists and pointers of its kind only
Schema ==
  /\ \A o \in Objects : \A l \in Lists : list[o][l] # <<>> => <<kind[o], l>> \in ListsOf
  /\ \A o \in Objects : \A c \in Children : child[o][c] # NULL => <<kind[o], c>> \in ChildrenOf

\* an object is in one list, or behind one pointer, of what points to it
OneSlot ==
  \A p \in Objects : \A f, g \in Slots : f # g => Via(p, f) \cap Via(p, g) = {}

Owned == Forest(HoldsOf, Live, ours)

XInv == LinkTypes /\ Schema /\ OneSlot /\ Owned /\ ObjectsDeletedOnce

LEMMA ViaIsObjects ==
  ASSUME LinkTypes, NEW p \in Objects, NEW f \in Slots
  PROVE  Via(p, f) \subseteq Objects
<1>1. CASE f \in Lists
  <2>1. list[p][f] \in Seq(Objects)
    BY <1>1 DEF LinkTypes
  <2> QED BY <1>1, <2>1 DEF Via, Elements
<1>2. CASE f \notin Lists
  <2>1. child[p][f] \in Objects \cup {NULL}
    BY <1>2 DEF LinkTypes, Slots
  <2> QED BY <1>2, <2>1 DEF Via, ChildOf
<1> QED BY <1>1, <1>2

LEMMA HoldsIsVia ==
  ASSUME LinkTypes, NEW p \in Objects
  PROVE  \A x : x \in Holds(p) <=> \E f \in Slots : x \in Via(p, f)
<1>1. \A l \in Lists : Via(p, l) = Elements(p, l)
  BY DEF Via
<1>2. \A c \in Children : Via(p, c) = ChildOf(p, c)
  BY DEF Via, Lists, Children
<1>3. \A f \in Slots : Via(p, f) \subseteq Objects
  BY ViaIsObjects
<1> QED BY <1>1, <1>2, <1>3 DEF Slots, Holds

LEMMA HoldsIsObjects ==
  ASSUME LinkTypes
  PROVE  HoldsOf \in [Objects -> SUBSET Objects]
  BY HoldsIsVia, ViaIsObjects DEF HoldsOf

\* the delete functions reach all that an object points to
LEMMA DeletesIsHolds ==
  ASSUME LinkTypes, Schema, NEW o \in Objects
  PROVE  Deletes(o) = Holds(o)
<1>1. \A l \in Lists : <<kind[o], l>> \notin ListsOf => Elements(o, l) = {}
  BY DEF Schema, Elements
<1>2. \A c \in Children : <<kind[o], c>> \notin ChildrenOf => ChildOf(o, c) = {}
  BY DEF Schema, ChildOf
<1>3. Holds(o) = Elements(o, "subjects") \cup Elements(o, "resources") \cup Elements(o, "attributes")
        \cup Elements(o, "results") \cup Elements(o, "obligations") \cup Elements(o, "assignments")
        \cup ChildOf(o, "action") \cup ChildOf(o, "environment") \cup ChildOf(o, "request")
        \cup ChildOf(o, "status") \cup ChildOf(o, "code") \cup ChildOf(o, "subcode")
  <2>1. \A x : x \in Holds(o) <=> \/ \E l \in Lists : x \in Elements(o, l)
                                \/ \E c \in Children : x \in ChildOf(o, c)
    <3>1. \A l \in Lists : Via(o, l) = Elements(o, l)
      BY DEF Via
    <3>2. \A c \in Children : Via(o, c) = ChildOf(o, c)
      BY DEF Via, Lists, Children
    <3> QED BY <3>1, <3>2, HoldsIsVia DEF Slots
  <2> QED BY <2>1 DEF Lists, Children
<1>4. kind[o] \in Kinds \cup {"free"}
  BY DEF LinkTypes
<1>5. CASE kind[o] = "request"
  BY <1>1, <1>2, <1>3, <1>5 DEF Deletes, RequestDeletes, Lists, Children, ListsOf, ChildrenOf
<1>6. CASE kind[o] = "subject"
  BY <1>1, <1>2, <1>3, <1>6 DEF Deletes, SubjectDeletes, Lists, Children, ListsOf, ChildrenOf
<1>7. CASE kind[o] = "resource"
  BY <1>1, <1>2, <1>3, <1>7 DEF Deletes, ResourceDeletes, Lists, Children, ListsOf, ChildrenOf
<1>8. CASE kind[o] = "action"
  BY <1>1, <1>2, <1>3, <1>8 DEF Deletes, ActionDeletes, Lists, Children, ListsOf, ChildrenOf
<1>9. CASE kind[o] = "environment"
  BY <1>1, <1>2, <1>3, <1>9 DEF Deletes, EnvironmentDeletes, Lists, Children, ListsOf, ChildrenOf
<1>10. CASE kind[o] = "response"
  BY <1>1, <1>2, <1>3, <1>10 DEF Deletes, ResponseDeletes, Lists, Children, ListsOf, ChildrenOf
<1>11. CASE kind[o] = "result"
  BY <1>1, <1>2, <1>3, <1>11 DEF Deletes, ResultDeletes, Lists, Children, ListsOf, ChildrenOf
<1>12. CASE kind[o] = "status"
  BY <1>1, <1>2, <1>3, <1>12 DEF Deletes, StatusDeletes, Lists, Children, ListsOf, ChildrenOf
<1>13. CASE kind[o] = "statuscode"
  BY <1>1, <1>2, <1>3, <1>13 DEF Deletes, StatuscodeDeletes, Lists, Children, ListsOf, ChildrenOf
<1>14. CASE kind[o] = "obligation"
  BY <1>1, <1>2, <1>3, <1>14 DEF Deletes, ObligationDeletes, Lists, Children, ListsOf, ChildrenOf
<1>15. CASE kind[o] \in {"attribute", "assignment", "free"}
  BY <1>1, <1>2, <1>3, <1>15 DEF Deletes, Lists, Children, ListsOf, ChildrenOf
<1> QED BY <1>4, <1>5, <1>6, <1>7, <1>8, <1>9, <1>10, <1>11, <1>12, <1>13, <1>14, <1>15 DEF Kinds

LEMMA TreeIsReach ==
  ASSUME LinkTypes, Schema, NEW o \in Objects
  PROVE  Tree(o) = Reach(HoldsOf, o)
<1>1. \A S \in SUBSET Objects : Closed(HoldsOf, S) <=> \A y \in S : Deletes(y) \subseteq S
  BY DeletesIsHolds DEF Closed, HoldsOf
<1> QED BY <1>1 DEF Tree, Reach

\* deleting an object that is the application's, or that something points to
LEMMA DeletedOnce ==
  ASSUME XInv, NEW o \in Live, o \in ours \/ \E p \in Objects : o \in Holds(p)
  PROVE  ~MeetsTwice(o)
<1>0. LinkTypes /\ Schema /\ Forest(HoldsOf, Live, ours)
  BY DEF XInv, Owned
<1>1. o \in Objects /\ HoldsOf \in [Objects -> SUBSET Objects] /\ OneHolder(HoldsOf)
  BY <1>0, HoldsIsObjects DEF Live, Forest
<1> DEFINE T == Reach(HoldsOf, o)
<1>2. Tree(o) = T
  BY <1>0, <1>1, TreeIsReach
<1>3. T \subseteq Live /\ T \in SUBSET Objects
  BY <1>0, <1>1, ReachIsLive, ReachIsClosed
<1>4. \A y \in T : o \notin HoldsOf[y]
  <2>1. CASE o \in ours
    BY <1>0, <1>3, <2>1 DEF Forest
  <2>2. CASE \E p \in Objects : o \in Holds(p)
    <3>1. PICK p \in Objects : o \in HoldsOf[p]
      BY <2>2 DEF HoldsOf
    <3>2. p \notin T
      BY <1>0, <1>1, <3>1, HolderIsNotReached
    <3> HIDE DEF T
    <3> QED BY <1>1, <1>3, <3>1, <3>2 DEF OneHolder
  <2> QED BY <2>1, <2>2
<1> HIDE DEF T
<1>5. \A y \in T : Deletes(y) = HoldsOf[y] /\ kind[y] # "free"
  BY <1>0, <1>3, DeletesIsHolds DEF HoldsOf, Live
<1>6. \A y, z \in T : y # z => Deletes(y) \cap Deletes(z) = {}
  <2> SUFFICES ASSUME NEW y \in T, NEW z \in T, y # z, NEW x, x \in Deletes(y), x \in Deletes(z)
               PROVE  FALSE
    OBVIOUS
  <2>1. x \in HoldsOf[y] /\ x \in HoldsOf[z] /\ y \in Objects /\ z \in Objects
    BY <1>3, <1>5
  <2>2. x \in Objects
    BY <1>1, <2>1
  <2> QED BY <1>1, <2>1, <2>2 DEF OneHolder
<1> QED BY <1>2, <1>4, <1>5, <1>6 DEF MeetsTwice

-----------------------------------------------------------------------------
(* Each operation preserves the invariant.                                 *)

LEMMA RangeOfAppend ==
  ASSUME NEW S, NEW s \in Seq(S), NEW e
  PROVE  \A x : (\E k \in DOMAIN Append(s, e) : Append(s, e)[k] = x)
                  <=> (\E k \in DOMAIN s : s[k] = x) \/ x = e
<1>1. DOMAIN s = 1..Len(s) /\ Len(s) \in Nat /\ DOMAIN Append(s, e) = 1..(Len(s) + 1)
  OBVIOUS
<1>2. \A k \in 1..Len(s) : Append(s, e)[k] = s[k]
  OBVIOUS
<1>3. Append(s, e)[Len(s) + 1] = e
  OBVIOUS
<1> QED BY <1>1, <1>2, <1>3

\* string setters, and all that leaves the objects alone
LEMMA LinksStay ==
  ASSUME XInv, UNCHANGED <<kind, list, child, ours>>, fault' # "object"
  PROVE  XInv'
<1>1. LinkTypes' /\ Schema'
  BY DEF XInv, LinkTypes, Schema
<1>2. OneSlot'
  BY DEF XInv, OneSlot, Via, Elements, ChildOf
<1>3. HoldsOf' = HoldsOf /\ Live' = Live
  BY DEF HoldsOf, Holds, Elements, ChildOf, Live
<1>4. Owned'
  BY <1>3 DEF XInv, Owned
<1> QED BY <1>1, <1>2, <1>4 DEF XInv, ObjectsDeletedOnce

LEMMA CreateKeeps ==
  ASSUME XInv, NEW o \in Objects, NEW k \in Kinds,
         kind[o] = "free", kind' = [kind EXCEPT ![o] = k], ours' = ours \cup {o},
         UNCHANGED <<list, child, fault>>
  PROVE  XInv'
<1>0. LinkTypes /\ Schema /\ OneSlot /\ Forest(HoldsOf, Live, ours)
  BY DEF XInv, Owned
<1>1. LinkTypes'
  BY <1>0 DEF LinkTypes
<1>2. Schema'
  <2>1. \A x \in Objects : kind'[x] = IF x = o THEN k ELSE kind[x]
    BY <1>0 DEF LinkTypes
  <2>2. \A l \in Lists : list[o][l] = <<>>
    BY <1>0 DEF Schema, ListsOf
  <2>3. \A c \in Children : child[o][c] = NULL
    BY <1>0 DEF Schema, ChildrenOf
  <2> QED BY <1>0, <2>1, <2>2, <2>3 DEF Schema
<1>3. OneSlot'
  BY <1>0 DEF OneSlot, Via, Elements, ChildOf
<1>4. HoldsOf' = HoldsOf
  BY DEF HoldsOf, Holds, Elements, ChildOf
<1>5. o \in Objects \ Live /\ Live' = Live \cup {o}
  BY <1>0 DEF Live, LinkTypes, Kinds
<1>6. Forest(HoldsOf, Live \cup {o}, ours \cup {o})
  BY <1>0, <1>5, ForestGrows
<1>7. Owned'
  BY <1>4, <1>5, <1>6 DEF Owned
<1> QED BY <1>1, <1>2, <1>3, <1>7 DEF XInv, ObjectsDeletedOnce

LEMMA AddKeeps ==
  ASSUME XInv, NEW p \in Objects, NEW o \in Objects, NEW l \in Lists,
         <<kind[p], l>> \in ListsOf, AddTo(p, l, o)
  PROVE  XInv'
<1>0. LinkTypes /\ Schema /\ OneSlot /\ Forest(HoldsOf, Live, ours)
  BY DEF XInv, Owned
<1>1. /\ list[p][l] \in Seq(Objects)
      /\ list' = [list EXCEPT ![p][l] = Append(list[p][l], o)]
      /\ UNCHANGED <<kind, child, text, fault>>
      /\ ours' = ours \ {o}
      /\ MayAdd(p, l, o)
  BY <1>0 DEF LinkTypes, AddTo
<1>2. /\ list' \in [Objects -> [Lists -> Seq(Objects)]]
      /\ \A q \in Objects : \A m \in Lists :
           list'[q][m] = IF q = p /\ m = l THEN Append(list[p][l], o) ELSE list[q][m]
  BY <1>0, <1>1 DEF LinkTypes
<1>3. LinkTypes'
  BY <1>0, <1>1, <1>2 DEF LinkTypes
<1>4. Schema'
  BY <1>0, <1>1, <1>2 DEF Schema
<1>5. \A q \in Objects : \A m \in Lists :
        Elements(q, m)' = IF q = p /\ m = l THEN Elements(q, m) \cup {o} ELSE Elements(q, m)
  <2> SUFFICES ASSUME NEW q \in Objects, NEW m \in Lists
               PROVE  Elements(q, m)' = IF q = p /\ m = l THEN Elements(q, m) \cup {o}
                                                          ELSE Elements(q, m)
    OBVIOUS
  <2>1. CASE q = p /\ m = l
    <3> DEFINE s == list[p][l]
    <3>1. list'[q][m] = Append(s, o) /\ s \in Seq(Objects)
      BY <1>1, <1>2, <2>1
    <3>2. \A x : x \in Elements(q, m) <=> \E k \in DOMAIN s : s[k] = x
      BY <2>1 DEF Elements
    <3>3. \A x : x \in Elements(q, m)' <=> \E k \in DOMAIN Append(s, o) : Append(s, o)[k] = x
      BY <3>1 DEF Elements
    <3> HIDE DEF s
    <3>4. \A x : x \in Elements(q, m)' <=> x \in Elements(q, m) \/ x = o
      BY <3>1, <3>2, <3>3, RangeOfAppend
    <3> QED BY <2>1, <3>4
  <2>2. CASE ~(q = p /\ m = l)
    <3>1. list'[q][m] = list[q][m]
      BY <1>2, <2>2
    <3> QED BY <2>2, <3>1 DEF Elements
  <2> QED BY <2>1, <2>2
<1>6. \A q \in Objects : \A c \in Children : ChildOf(q, c)' = ChildOf(q, c)
  BY <1>1 DEF ChildOf
<1>7. \A q \in Objects : Holds(q)' = IF q = p THEN Holds(q) \cup {o} ELSE Holds(q)
  BY <1>5, <1>6 DEF Holds
<1>8. \A q \in Objects : \A f \in Slots :
        Via(q, f)' = IF q = p /\ f = l THEN Via(q, f) \cup {o} ELSE Via(q, f)
  BY <1>5, <1>6 DEF Via, Slots
<1>9. Live' = Live
  BY <1>1 DEF Live
<1>10. p \in Live
  BY DEF Live, ListsOf
<1>11. CASE o \in ours /\ p \notin Tree(o)
  <2>1. \A q \in Objects : o \notin Holds(q)
    BY <1>0, <1>11 DEF Forest, HoldsOf
  <2>2. OneSlot'
    <3>1. \A f \in Slots : o \notin Via(p, f)
      BY <1>0, <2>1, HoldsIsVia
    <3> QED BY <1>0, <1>8, <3>1 DEF OneSlot
  <2>3. Forest([HoldsOf EXCEPT ![p] = @ \cup {o}], Live, ours \ {o})
    BY <1>0, <1>10, <1>11, TreeIsReach, ForestGives
  <2>4. HoldsOf' = [HoldsOf EXCEPT ![p] = @ \cup {o}]
    BY <1>7 DEF HoldsOf
  <2>5. Owned'
    BY <1>1, <1>9, <2>3, <2>4 DEF Owned
  <2> QED BY <1>1, <1>3, <1>4, <2>2, <2>5 DEF XInv, ObjectsDeletedOnce
<1>12. CASE o \in Elements(p, l)
  <2>1. o \in Holds(p) /\ o \notin ours
    BY <1>0, <1>12 DEF Holds, Forest, HoldsOf
  <2>2. OneSlot'
    <3>1. o \in Via(p, l)
      BY <1>12 DEF Via
    <3> QED BY <1>0, <1>8, <3>1 DEF OneSlot
  <2>3. HoldsOf' = HoldsOf
    BY <1>7, <2>1 DEF HoldsOf
  <2>4. ours' = ours
    BY <1>1, <2>1
  <2>5. Owned'
    BY <1>0, <1>9, <2>3, <2>4 DEF Owned
  <2> QED BY <1>1, <1>3, <1>4, <2>2, <2>5 DEF XInv, ObjectsDeletedOnce
<1> QED BY <1>1, <1>11, <1>12 DEF MayAdd

LEMMA FreesKeeps ==
  ASSUME XInv, NEW o \in Objects, o \in ours, Frees(o)
  PROVE  XInv'
<1>0. LinkTypes /\ Schema /\ OneSlot /\ Forest(HoldsOf, Live, ours)
  BY DEF XInv, Owned
<1> DEFINE T == Tree(o)
<1>1. T = Reach(HoldsOf, o) /\ o \in Live
  BY <1>0, TreeIsReach DEF Forest
<1>2. /\ kind'  = [x \in Objects |-> IF x \in T THEN "free" ELSE kind[x]]
      /\ list'  = [x \in Objects |-> IF x \in T THEN NoLists ELSE list[x]]
      /\ child' = [x \in Objects |-> IF x \in T THEN NoChild ELSE child[x]]
      /\ ours'  = ours \ {o}
  BY DEF Frees, Cleared
<1>3. fault' # "object"
  <2>1. ~MeetsTwice(o)
    BY <1>1, DeletedOnce
  <2> QED BY <2>1 DEF Frees, After, XInv, ObjectsDeletedOnce
<1> HIDE DEF T
<1>4. LinkTypes'
  BY <1>0, <1>2 DEF LinkTypes, NoLists, NoChild
<1>5. Schema'
  BY <1>0, <1>2 DEF Schema, NoLists, NoChild
<1>6. \A q \in Objects : \A m \in Lists :
        Elements(q, m)' = IF q \in T THEN {} ELSE Elements(q, m)
  BY <1>2 DEF Elements, NoLists
<1>7. \A q \in Objects : \A c \in Children :
        ChildOf(q, c)' = IF q \in T THEN {} ELSE ChildOf(q, c)
  BY <1>2 DEF ChildOf, NoChild
<1>8. \A q \in Objects : Holds(q)' = IF q \in T THEN {} ELSE Holds(q)
  BY <1>6, <1>7 DEF Holds
<1>9. OneSlot'
  <2>1. \A q \in Objects : \A f \in Slots : Via(q, f)' = IF q \in T THEN {} ELSE Via(q, f)
    BY <1>6, <1>7 DEF Via, Slots
  <2> QED BY <1>0, <2>1 DEF OneSlot
<1>10. HoldsOf' = [x \in Objects |-> IF x \in T THEN {} ELSE HoldsOf[x] \ {o}]
  <2>1. \A q \in Objects : Holds(q) = Holds(q) \ {o}
    BY <1>0 DEF Forest, HoldsOf
  <2> QED BY <1>8, <2>1 DEF HoldsOf
<1>11. Live' = Live \ T
  BY <1>0, <1>2 DEF Live, LinkTypes
<1>12. Owned'
  BY <1>0, <1>1, <1>2, <1>10, <1>11, ForestLoses DEF Owned
<1> QED BY <1>3, <1>4, <1>5, <1>9, <1>12 DEF XInv, ObjectsDeletedOnce

LEMMA RelinquishKeeps ==
  ASSUME XInv, NEW r \in Objects, RelinquishRequest(r)
  PROVE  XInv'
<1>0. LinkTypes /\ Schema /\ OneSlot /\ Forest(HoldsOf, Live, ours)
  BY DEF XInv, Owned
<1> DEFINE o == child[r]["request"]
<1>1. /\ o \in Objects
      /\ child' = [child EXCEPT ![r]["request"] = NULL]
      /\ UNCHANGED <<kind, list, text, fault>>
      /\ ours' = ours \cup {o}
  BY <1>0 DEF LinkTypes, RelinquishRequest, Children
<1>2. /\ child' \in [Objects -> [Children -> Objects \cup {NULL}]]
      /\ \A q \in Objects : \A c \in Children :
           child'[q][c] = IF q = r /\ c = "request" THEN NULL ELSE child[q][c]
  BY <1>0, <1>1 DEF LinkTypes
<1>3. LinkTypes' /\ Schema'
  BY <1>0, <1>1, <1>2 DEF LinkTypes, Schema
<1>4. o \in Via(r, "request") /\ "request" \in Slots
  BY <1>1, NullAssumption DEF Via, ChildOf, Lists, Children, Slots
<1>5. \A q \in Objects : \A m \in Lists : Elements(q, m)' = Elements(q, m)
  BY <1>1 DEF Elements
<1>6. \A q \in Objects : \A c \in Children :
        ChildOf(q, c)' = IF q = r /\ c = "request" THEN {} ELSE ChildOf(q, c)
  BY <1>2 DEF ChildOf
<1>7. ChildOf(r, "request") = {o}
  BY <1>1, NullAssumption DEF ChildOf
<1>8. \A m \in Lists : o \notin Elements(r, m)
  <2>1. \A m \in Lists : m \in Slots /\ m # "request" /\ Via(r, m) = Elements(r, m)
    BY DEF Lists, Slots, Via
  <2> QED BY <1>0, <1>4, <2>1 DEF OneSlot
<1>9. \A c \in Children : c # "request" => o \notin ChildOf(r, c)
  <2>1. \A c \in Children : c \in Slots /\ Via(r, c) = ChildOf(r, c)
    BY DEF Lists, Children, Slots, Via
  <2> QED BY <1>0, <1>4, <2>1 DEF OneSlot
<1> HIDE DEF o
<1>10. \A q \in Objects : Holds(q)' = IF q = r THEN Holds(q) \ {o} ELSE Holds(q)
  BY <1>5, <1>6, <1>7, <1>8, <1>9 DEF Holds, Children
<1>11. OneSlot'
  <2>1. \A q \in Objects : \A f \in Slots : Via(q, f)' \subseteq Via(q, f)
    BY <1>5, <1>6 DEF Via, Slots
  <2> QED BY <1>0, <2>1 DEF OneSlot
<1>12. HoldsOf' = [HoldsOf EXCEPT ![r] = @ \ {o}] /\ o \in HoldsOf[r]
  <2>1. o \in Holds(r)
    BY <1>0, <1>4, HoldsIsVia
  <2> QED BY <1>10, <2>1 DEF HoldsOf
<1>13. Live' = Live
  BY <1>1 DEF Live
<1>14. Owned'
  BY <1>0, <1>1, <1>12, <1>13, ForestReturns DEF Owned
<1> QED BY <1>1, <1>3, <1>11, <1>14 DEF XInv, ObjectsDeletedOnce

\* o is NULL, or an object of the application that does not reach p
LEMMA ReplaceKeeps ==
  ASSUME XInv, NEW p \in Objects, NEW c \in Children, <<kind[p], c>> \in ChildrenOf,
         NEW o \in Objects \cup {NULL}, o = NULL \/ (o \in ours /\ p \notin Tree(o)),
         Replace(p, c, o)
  PROVE  XInv'
<1>0. LinkTypes /\ Schema /\ OneSlot /\ Forest(HoldsOf, Live, ours)
  BY DEF XInv, Owned
<1> DEFINE old  == child[p][c]
           gone == IF old = NULL THEN {} ELSE Tree(old)
           new  == {o} \ {NULL}
<1>1. /\ kind'  = [x \in Objects |-> IF x \in gone THEN "free" ELSE kind[x]]
      /\ list'  = [x \in Objects |-> IF x \in gone THEN NoLists ELSE list[x]]
      /\ child' = [[x \in Objects |-> IF x \in gone THEN NoChild ELSE child[x]]
                     EXCEPT ![p][c] = o]
      /\ ours'  = ours \ {o}
  BY DEF Replace, Cleared
<1>2. HoldsOf \in [Objects -> SUBSET Objects] /\ p \in Live /\ old \in Objects \cup {NULL}
  BY <1>0, HoldsIsObjects DEF Live, ChildrenOf, LinkTypes
<1>3. c \in Slots /\ c \notin Lists /\ Via(p, c) = ChildOf(p, c) /\ ChildOf(p, c) = {old} \ {NULL}
  BY DEF Slots, Children, Lists, Via, ChildOf
<1>4. old # NULL => old \in Objects /\ old \in Holds(p) /\ old \in Live /\ old \notin ours
  BY <1>0, <1>2, <1>3, HoldsIsVia DEF Forest, HoldsOf
<1>5. fault' # "object"
  <2>1. CASE old = NULL
    BY <2>1 DEF Replace, XInv, ObjectsDeletedOnce
  <2>2. CASE old # NULL
    <3>1. ~MeetsTwice(old)
      BY <1>4, <2>2, DeletedOnce
    <3> QED BY <2>2, <3>1 DEF Replace, After, XInv, ObjectsDeletedOnce
  <2> QED BY <2>1, <2>2
<1>6. p \notin gone
  <2>1. CASE old = NULL
    BY <2>1
  <2>2. CASE old # NULL
    <3>1. gone = Reach(HoldsOf, old) /\ old \in HoldsOf[p]
      BY <1>0, <1>4, <2>2, TreeIsReach DEF HoldsOf
    <3> QED BY <1>0, <1>4, <2>2, <3>1, HolderIsNotReached
  <2> QED BY <2>1, <2>2
<1>7. \A x \in new : x \in ours /\ x \in Objects /\ p \notin Reach(HoldsOf, x)
  BY <1>0, TreeIsReach
<1>8. \A q \in Objects : \A x \in new : x \notin Holds(q)
  BY <1>0, <1>7 DEF Forest, HoldsOf
<1> HIDE DEF old, gone
<1>9. \A q \in Objects : \A d \in Children :
        child'[q][d] = IF q = p /\ d = c THEN o
                       ELSE IF q \in gone THEN NULL ELSE child[q][d]
  BY <1>0, <1>1, <1>6 DEF LinkTypes, NoChild
<1>10. LinkTypes'
  <2>1. child' \in [Objects -> [Children -> Objects \cup {NULL}]]
    BY <1>0, <1>1, <1>6 DEF LinkTypes, NoChild
  <2> QED BY <1>0, <1>1, <2>1 DEF LinkTypes, NoLists
<1>11. Schema'
  BY <1>0, <1>1, <1>6, <1>9 DEF Schema, NoLists
<1>12. \A q \in Objects : \A m \in Lists :
         Elements(q, m)' = IF q \in gone THEN {} ELSE Elements(q, m)
  BY <1>1 DEF Elements, NoLists
<1>13. \A q \in Objects : \A d \in Children :
         ChildOf(q, d)' = IF q = p /\ d = c THEN new
                          ELSE IF q \in gone THEN {} ELSE ChildOf(q, d)
  BY <1>9 DEF ChildOf
<1> HIDE DEF new
<1>14. \A q \in Objects : \A f \in Slots :
         Via(q, f)' = IF q = p /\ f = c THEN new ELSE IF q \in gone THEN {} ELSE Via(q, f)
  BY <1>3, <1>12, <1>13 DEF Via, Slots
<1>15. OneSlot'
  <2>1. \A f \in Slots : \A x \in new : x \notin Via(p, f)
    BY <1>0, <1>8, HoldsIsVia
  <2> QED BY <1>0, <1>14, <2>1 DEF OneSlot
<1>16. \A q \in Objects :
         Holds(q)' = IF q \in gone THEN {}
                     ELSE IF q = p THEN (Holds(q) \ {old}) \cup new ELSE Holds(q)
  <2> SUFFICES ASSUME NEW q \in Objects
               PROVE  Holds(q)' = IF q \in gone THEN {}
                                  ELSE IF q = p THEN (Holds(q) \ {old}) \cup new ELSE Holds(q)
    OBVIOUS
  <2>1. CASE q \in gone
    BY <1>6, <1>12, <1>13, <2>1 DEF Holds
  <2>2. CASE q \notin gone /\ q # p
    BY <1>12, <1>13, <2>2 DEF Holds
  <2>3. CASE q = p
    <3>1. \A m \in Lists : Elements(p, m)' = Elements(p, m) /\ old \notin Elements(p, m)
      <4>1. \A m \in Lists : m \in Slots /\ m # c /\ Via(p, m) = Elements(p, m)
        BY <1>3 DEF Slots, Via
      <4>2. \A m \in Lists : old = NULL => old \notin Elements(p, m)
        BY <1>0, <4>1, ViaIsObjects, NullAssumption
      <4> QED BY <1>0, <1>3, <1>6, <1>12, <4>1, <4>2 DEF OneSlot
    <3>2. \A d \in Children : d # c => ChildOf(p, d)' = ChildOf(p, d) /\ old \notin ChildOf(p, d)
      <4>1. \A d \in Children : d \in Slots /\ Via(p, d) = ChildOf(p, d)
        BY DEF Slots, Via, Lists, Children
      <4>2. \A d \in Children : NULL \notin ChildOf(p, d)
        BY DEF ChildOf
      <4> QED BY <1>0, <1>3, <1>6, <1>13, <4>1, <4>2 DEF OneSlot
    <3>3. ChildOf(p, c)' = new /\ ChildOf(p, c) \subseteq {old} /\ new \subseteq Objects
      BY <1>3, <1>7, <1>13
    <3> QED BY <1>6, <2>3, <3>1, <3>2, <3>3 DEF Holds
  <2> QED BY <2>1, <2>2, <2>3
<1> DEFINE K == [x \in Objects |-> IF x \in gone THEN {} ELSE HoldsOf[x] \ {old}]
<1>17. Forest(K, Live \ gone, ours)
  <2>1. CASE old = NULL
    <3>1. gone = {} /\ \A x \in Objects : old \notin HoldsOf[x]
      BY <1>2, <2>1, NullAssumption DEF gone
    <3>2. K = HoldsOf /\ Live \ gone = Live
      BY <1>2, <3>1
    <3> HIDE DEF K
    <3> QED BY <1>0, <3>2
  <2>2. CASE old # NULL
    <3>1. gone = Reach(HoldsOf, old) /\ ours \ {old} = ours
      BY <1>0, <1>4, <2>2, TreeIsReach DEF gone
    <3> QED BY <1>0, <1>4, <2>2, <3>1, ForestLoses
  <2> QED BY <2>1, <2>2
<1>18. HoldsOf' = [K EXCEPT ![p] = @ \cup new]
  <2>1. \A q \in Objects : q # p => Holds(q) \ {old} = Holds(q)
    <3> SUFFICES ASSUME NEW q \in Objects, q # p, old \in Holds(q) PROVE FALSE
      OBVIOUS
    <3>1. old \in Objects
      BY <1>0, <1>2 DEF Holds
    <3>2. old \in HoldsOf[q] /\ old \in HoldsOf[p]
      BY <1>4, <3>1, NullAssumption DEF HoldsOf
    <3> QED BY <1>0, <3>1, <3>2 DEF Forest, OneHolder
  <2> QED BY <1>6, <1>16, <2>1 DEF HoldsOf
<1>19. Live' = Live \ gone
  BY <1>0, <1>1 DEF Live, LinkTypes
<1>20. Owned'
  <2>1. CASE o = NULL
    <3>1. new = {} /\ ours' = ours
      BY <1>0, <1>1, <2>1, NullAssumption DEF new, Forest, Live
    <3>2. HoldsOf' = K
      BY <1>18, <3>1
    <3> HIDE DEF K
    <3> QED BY <1>17, <1>19, <3>1, <3>2 DEF Owned
  <2>2. CASE o # NULL
    <3>1. o \in new /\ new = {o}
      BY <2>2 DEF new
    <3>2. p \notin Reach(K, o)
      <4>1. \A y \in Objects : K[y] \subseteq HoldsOf[y]
        OBVIOUS
      <4> HIDE DEF K
      <4> QED BY <1>2, <1>7, <3>1, <4>1, ReachShrinks
    <3> HIDE DEF K
    <3>3. Forest([K EXCEPT ![p] = @ \cup {o}], Live \ gone, ours \ {o})
      BY <1>2, <1>6, <1>7, <1>17, <3>1, <3>2, ForestGives
    <3> QED BY <1>1, <1>18, <1>19, <3>1, <3>3 DEF Owned
  <2> QED BY <2>1, <2>2
<1> QED BY <1>5, <1>10, <1>11, <1>15, <1>20 DEF XInv, ObjectsDeletedOnce

-----------------------------------------------------------------------------
(* The theorems about XacmlObjects.                                        *)

LEMMA InitOwned == Init => XInv
<1> SUFFICES ASSUME Init PROVE XInv
  OBVIOUS
<1>1. LinkTypes
  BY DEF Init, LinkTypes, NoLists, NoChild
<1>2. \A q \in Objects : (\A m \in Lists : list[q][m] = <<>>) /\ (\A c \in Children : child[q][c] = NULL)
  BY DEF Init, NoLists, NoChild
<1>3. Schema /\ \A q \in Objects : \A f \in Slots : Via(q, f) = {}
  BY <1>2 DEF Schema, Via, Slots, Elements, ChildOf
<1>4. OneSlot /\ \A q \in Objects : Holds(q) = {}
  BY <1>1, <1>3, HoldsIsVia DEF OneSlot
<1>5. HoldsOf = [q \in Objects |-> {}] /\ Live = {} /\ ours = {}
  BY <1>4 DEF HoldsOf, Live, Init
<1>6. Owned
  BY <1>5 DEF Owned, Forest, OneHolder, NoCycles
<1> QED BY <1>1, <1>3, <1>4, <1>6 DEF XInv, ObjectsDeletedOnce, Init

LEMMA StringKeeps ==
  ASSUME XInv, NEW o \in Objects, SetString(o)
  PROVE  XInv'
<1>1. UNCHANGED <<kind, list, child, ours>>
  BY DEF SetString, SetCategory, SetContent, SetAttributeId, SetObligationId, SetAssignmentId,
         SetAttributeDatatype, SetAssignmentDatatype, SetIssuer, SetResourceid, SetMessage,
         SetStatuscodeValue, SetAssignmentValue, Kept, Mandatory, Optional, links
<1>2. fault' # "object"
  <2>1. \E f \in {"category", "content", "id", "datatype", "issuer", "resourceid", "message",
                  "value"} : FreeOld(o, f)
    BY DEF SetString, SetCategory, SetContent, SetAttributeId, SetObligationId, SetAssignmentId,
           SetAttributeDatatype, SetAssignmentDatatype, SetIssuer, SetResourceid, SetMessage,
           SetStatuscodeValue, SetAssignmentValue, Kept, Mandatory, Optional
  <2> QED BY <2>1 DEF FreeOld, XInv, ObjectsDeletedOnce
<1> QED BY <1>1, <1>2, LinksStay

LEMMA CreateSomeKeeps ==
  ASSUME XInv, NEW o \in Objects, CreateSome(o)
  PROVE  XInv'
<1>1. /\ kind[o] = "free" /\ ours' = ours \cup {o}
      /\ UNCHANGED <<list, child, fault>>
      /\ \E k \in Kinds : kind' = [kind EXCEPT ![o] = k]
  BY DEF CreateSome, CreateRequest, CreateSubject, CreateResource, CreateAction,
         CreateEnvironment, CreateAttribute, CreateResponse, CreateResult, CreateStatus,
         CreateStatuscode, CreateObligation, CreateAssignment, Create, Kinds
<1> QED BY <1>1, CreateKeeps

LEMMA UnsetKeeps ==
  ASSUME XInv, NEW r \in Objects, UnsetAction(r) \/ UnsetEnvironment(r)
  PROVE  XInv'
<1>1. PICK c \in {"action", "environment"} : kind[r] = "request" /\ Replace(r, c, NULL)
  BY DEF UnsetAction, UnsetEnvironment
<1>2. c \in Children /\ <<kind[r], c>> \in ChildrenOf
  BY <1>1 DEF Children, ChildrenOf
<1> QED BY <1>1, <1>2, ReplaceKeeps

\* all that gives an object to another
LEMMA CombineKeeps ==
  ASSUME XInv, NEW p \in Objects, NEW o \in Objects, Combine(p, o)
  PROVE  XInv'
<1>1. CASE \E l \in Lists : <<kind[p], l>> \in ListsOf /\ AddTo(p, l, o)
  BY <1>1, AddKeeps
<1>2. CASE \E c \in Children : <<kind[p], c>> \in ChildrenOf /\ SetTo(p, c, o)
  BY <1>2, ReplaceKeeps DEF SetTo
<1>3. CASE CloneAttribute(p, o)
  BY <1>3, CreateKeeps DEF CloneAttribute, Kinds
<1>4. \/ \E l \in Lists : <<kind[p], l>> \in ListsOf /\ AddTo(p, l, o)
      \/ \E c \in Children : <<kind[p], c>> \in ChildrenOf /\ SetTo(p, c, o)
      \/ CloneAttribute(p, o)
  BY DEF Combine, AddSubject, AddResource, SubjectAddAttribute, ResourceAddAttribute,
         ActionAddAttribute, EnvironmentAddAttribute, AddResult, AddObligation, AddAssignment,
         SetAction, SetEnvironment, SetRequest, SetStatus, SetCode, SetSubcode,
         Lists, Children, ListsOf, ChildrenOf
<1> QED BY <1>1, <1>2, <1>3, <1>4

LEMMA NextKeeps == XInv /\ [Next]_vars => XInv'
<1> SUFFICES ASSUME XInv, [Next]_vars PROVE XInv'
  OBVIOUS
<1>1. CASE UNCHANGED vars
  BY <1>1, LinksStay DEF vars, links, XInv, ObjectsDeletedOnce
<1>2. CASE \E o \in Objects : CreateSome(o)
  BY <1>2, CreateSomeKeeps
<1>3. CASE \E o \in Objects : Delete(o)
  BY <1>3, FreesKeeps DEF Delete
<1>4. CASE \E o \in Objects : SetString(o)
  BY <1>4, StringKeeps
<1>5. CASE \E o \in Objects : UnsetAction(o) \/ UnsetEnvironment(o)
  BY <1>5, UnsetKeeps
<1>6. CASE \E o \in Objects : RelinquishRequest(o)
  BY <1>6, RelinquishKeeps
<1>7. CASE \E p, o \in Objects : Combine(p, o)
  BY <1>7, CombineKeeps
<1> QED BY <1>1, <1>2, <1>3, <1>4, <1>5, <1>6, <1>7 DEF Next

(***************************************************************************)
(* In every state, of any number of objects, each object that exists is    *)
(* the application's or in one place of one other object (request.c,       *)
(* response.c, result.c and the others, every operation).                  *)
(***************************************************************************)
THEOREM ObjectsAreOwned == Spec => []XInv
<1>1. Init => XInv
  BY InitOwned
<1>2. XInv /\ [Next]_vars => XInv'
  BY NextKeeps
<1> QED BY <1>1, <1>2, PTL DEF Spec

LEMMA XInvIsOwnedOnce == XInv => OwnedOnce
<1> SUFFICES ASSUME XInv PROVE OwnedOnce
  OBVIOUS
<1>1. Forest(HoldsOf, Live, ours)
  BY DEF XInv, Owned
<1>2. \A p \in Objects : HoldsOf[p] = Holds(p) /\ Holds(p) \subseteq Objects
  BY DEF HoldsOf, Holds
<1>3. UNION {Holds(p) : p \in Objects} = Live \ ours
  BY <1>1, <1>2 DEF Forest
<1>4. \A p, q \in Objects : p # q => Holds(p) \cap Holds(q) = {}
  BY <1>1, <1>2 DEF Forest, OneHolder
<1> QED BY <1>1, <1>3, <1>4 DEF OwnedOnce, Forest

\* without an object of the application there is no object
LEMMA XInvIsNothingLeaks == XInv => NothingLeaks
<1> SUFFICES ASSUME XInv, ours = {}, Live # {} PROVE FALSE
  BY DEF NothingLeaks
<1>1. Forest(HoldsOf, Live, {})
  BY DEF XInv, Owned
<1>2. PICK x \in Live : \A y \in Live : x \notin HoldsOf[y]
  BY <1>1 DEF Forest, NoCycles
<1>3. PICK p \in Objects : x \in HoldsOf[p]
  BY <1>1 DEF Forest
<1>4. p \in Live
  BY <1>1, <1>3 DEF Forest
<1> QED BY <1>2, <1>3, <1>4

(* The invariant says it of every state: one owner each.                   *)
THEOREM OneOwner == Spec => []OwnedOnce
  BY ObjectsAreOwned, XInvIsOwnedOnce, PTL

(* No sequence of calls deletes an object a second time.                   *)
THEOREM NoDoubleDelete == Spec => []ObjectsDeletedOnce
<1>1. XInv => ObjectsDeletedOnce
  BY DEF XInv
<1> QED BY <1>1, ObjectsAreOwned, PTL

(* An application that has deleted what it owns has released everything.   *)
THEOREM NoLeak == Spec => []NothingLeaks
  BY ObjectsAreOwned, XInvIsNothingLeaks, PTL

-----------------------------------------------------------------------------
(* Types, and which strings can be freed and still be pointed to.          *)

TextTypes ==
  /\ text \in [Objects -> [Fields -> {"null", "own", "freed"}]]
  /\ \A o \in Objects : \A f \in Fields : text[o][f] = "freed" => f \in {"category", "content"}
  /\ fault \in {"none", "object", "string"}

LEMMA SetterTypes ==
  ASSUME TextTypes, NEW o \in Objects, SetString(o)
  PROVE  TextTypes'
<1>1. ASSUME NEW f \in Fields, Mandatory(o, f) \/ Optional(o, f) PROVE TextTypes'
  <2>1. \E t \in {"own", "null"} : text' = [text EXCEPT ![o][f] = t]
    BY <1>1 DEF Mandatory, Optional, Copied
  <2>2. fault' \in {"none", "object", "string"}
    BY <1>1 DEF Mandatory, Optional, FreeOld, TextTypes
  <2> QED BY <2>1, <2>2 DEF TextTypes
<1>2. ASSUME NEW f \in Fields \cap {"category", "content"}, Kept(o, f) PROVE TextTypes'
  <2>1. \E t \in {"own", "null", "freed"} : text' = [text EXCEPT ![o][f] = t]
    BY <1>2 DEF Kept, Copied
  <2>2. fault' \in {"none", "object", "string"}
    BY <1>2 DEF Kept, FreeOld, TextTypes
  <2> QED BY <2>1, <2>2 DEF TextTypes
<1> QED BY <1>1, <1>2 DEF SetString, SetCategory, SetContent, SetAttributeId, SetObligationId,
    SetAssignmentId, SetAttributeDatatype, SetAssignmentDatatype, SetIssuer, SetResourceid,
    SetMessage, SetStatuscodeValue, SetAssignmentValue

LEMMA ClearedTypes ==
  ASSUME TextTypes, NEW S, text' = Cleared(text, S, NoText), NEW r, After(r) \/ UNCHANGED fault
  PROVE  TextTypes'
<1>1. fault' \in {"none", "object", "string"}
  BY DEF After, TextTypes
<1>2. text' = [o \in Objects |-> IF o \in S THEN [f \in Fields |-> "null"] ELSE text[o]]
  BY DEF Cleared, NoText
<1> QED BY <1>1, <1>2 DEF TextTypes

LEMMA NextTypes ==
  ASSUME TextTypes, [Next]_vars
  PROVE  TextTypes'
<1>1. CASE UNCHANGED <<text, fault>>
  BY <1>1 DEF TextTypes
<1>2. ASSUME NEW o \in Objects, CreateSome(o) PROVE TextTypes'
  <2>1. PICK k, given : Create(o, k, given)
    BY <1>2 DEF CreateSome, CreateRequest, CreateSubject, CreateResource, CreateAction,
           CreateEnvironment, CreateAttribute, CreateResponse, CreateResult, CreateStatus,
           CreateStatuscode, CreateObligation, CreateAssignment
  <2>2. PICK t : text' = [text EXCEPT ![o] = [f \in Fields |-> IF f \in t THEN "own" ELSE "null"]]
    BY <2>1 DEF Create
  <2> QED BY <2>1, <2>2 DEF Create, TextTypes
<1>3. ASSUME NEW p \in Objects, NEW o \in Objects, Combine(p, o) PROVE TextTypes'
  <2>1. \/ \E l : AddTo(p, l, o)
        \/ \E c : Replace(p, c, o)
        \/ CloneAttribute(p, o)
    BY <1>3 DEF Combine, AddSubject, AddResource, SubjectAddAttribute, ResourceAddAttribute,
           ActionAddAttribute, EnvironmentAddAttribute, AddResult, AddObligation, AddAssignment,
           SetAction, SetEnvironment, SetRequest, SetStatus, SetCode, SetSubcode, SetTo
  <2>2. CASE \E l : AddTo(p, l, o)
    BY <1>1, <2>2 DEF AddTo
  <2>3. CASE \E c : Replace(p, c, o)
    BY <2>3, ClearedTypes DEF Replace
  <2>4. CASE CloneAttribute(p, o)
    BY <2>4 DEF CloneAttribute, TextTypes
  <2> QED BY <2>1, <2>2, <2>3, <2>4
<1>4. ASSUME NEW o \in Objects, UnsetAction(o) \/ UnsetEnvironment(o) \/ Delete(o)
      PROVE  TextTypes'
  BY <1>4, ClearedTypes DEF UnsetAction, UnsetEnvironment, Replace, Delete, Frees
<1> QED BY <1>1, <1>2, <1>3, <1>4, SetterTypes DEF Next, RelinquishRequest, vars

(***************************************************************************)
(* Types; and only the category of a subject and the content of a resource *)
(* are ever freed while the object still points to them.                   *)
(***************************************************************************)
THEOREM XacmlTypes == Spec => []TypeOK
<1>1. Init => XInv /\ TextTypes
  BY InitOwned DEF Init, TextTypes, NoText
<1>2. XInv /\ TextTypes /\ [Next]_vars => (XInv /\ TextTypes)'
  BY NextKeeps, NextTypes
<1>3. XInv /\ TextTypes => TypeOK
  BY DEF XInv, LinkTypes, Owned, Forest, TextTypes, TypeOK
<1> QED BY <1>1, <1>2, <1>3, PTL DEF Spec

-----------------------------------------------------------------------------
(* Unmarshalling is a user of the XACML objects.                           *)

LEMMA ForestHasRoots ==
  ASSUME NEW H, NEW L, NEW r, Forest(H, L, {r})
  PROVE  Reach(H, r) = L
<1>0. H \in [Objects -> SUBSET Objects] /\ NoCycles(H) /\ r \in Objects /\ r \in L
  BY DEF Forest
<1> DEFINE T == Reach(H, r)
           S == L \ T
<1>1. T \subseteq L
  BY <1>0, ReachIsLive
<1>2. r \in T /\ Closed(H, T)
  BY <1>0, ReachIsClosed
<1> HIDE DEF T
<1>3. SUFFICES ASSUME S # {} PROVE FALSE
  BY <1>1 DEF T
<1>4. PICK x \in S : \A y \in S : x \notin H[y]
  <2>1. S \in SUBSET Objects
    BY DEF Forest
  <2> HIDE DEF S
  <2> QED BY <1>0, <1>3, <2>1 DEF NoCycles
<1>5. PICK p \in Objects : x \in H[p]
  BY <1>2, <1>4 DEF Forest
<1>6. p \in L /\ p \notin T
  BY <1>2, <1>4, <1>5 DEF Forest, Closed
<1> QED BY <1>4, <1>5, <1>6

\* what the stack fills
Filled == {stack[i].obj : i \in 1..Len(stack)}

StackTypes ==
  /\ call \in {"idle", "reading", "failing", "ok", "error"}
  /\ stack \in Seq(Frames)
  /\ (stack = <<>>) <=> call \in {"idle", "ok", "error"}

StackDistinct == \A i, j \in 1..Len(stack) : stack[i].obj = stack[j].obj => i = j

StackOwns == call # "ok" => ours = Filled

Answer == call = "ok" => \E r \in ours : ours = {r}

UInv == StackTypes /\ StackDistinct /\ StackOwns /\ Answer

LEMMA UInvIsUTypeOK == UInv => UTypeOK
  BY DEF UInv, UTypeOK, StackTypes, StackDistinct, StackOwns, Filled

LEMMA TopIsOurs ==
  ASSUME UInv, stack # <<>>
  PROVE  Len(stack) \in Nat \ {0} /\ Top \in Frames /\ Top.obj \in ours
<1>1. Len(stack) \in Nat \ {0} /\ Top \in Frames
  BY DEF UInv, StackTypes, Top
<1> QED BY <1>1 DEF UInv, StackTypes, StackOwns, Filled, Top

\* the frames change, and what they fill does not
LEMMA InPlace ==
  ASSUME UInv, stack # <<>>, NEW x \in Keys,
         stack' = [stack EXCEPT ![Len(stack)].at = x],
         call' = "reading", call = "reading", ours' = ours
  PROVE  UInv'
<1>1. Len(stack) \in Nat \ {0} /\ stack \in Seq(Frames)
  BY TopIsOurs DEF UInv, StackTypes
<1> DEFINE f == [stack[Len(stack)] EXCEPT !.at = x]
<1>6. f \in Frames /\ f.obj = stack[Len(stack)].obj
  <2>1. stack[Len(stack)] \in Frames
    BY <1>1
  <2> QED BY <2>1 DEF Frames
<1>7. stack' = [stack EXCEPT ![Len(stack)] = f]
  OBVIOUS
<1> HIDE DEF f
<1>2. stack' \in Seq(Frames) /\ Len(stack') = Len(stack) /\ stack' # <<>>
  BY <1>1, <1>6, <1>7
<1>3. \A i \in 1..Len(stack) : stack'[i].obj = stack[i].obj
  BY <1>1, <1>6, <1>7
<1>4. Filled' = Filled
  BY <1>2, <1>3 DEF Filled
<1>5. StackDistinct'
  BY <1>2, <1>3 DEF UInv, StackDistinct
<1> QED BY <1>2, <1>4, <1>5 DEF UInv, StackTypes, StackOwns, Answer

LEMMA PushKeeps ==
  ASSUME XInv, UInv, NEW o \in Objects, kind[o] = "free", ours' = ours \cup {o},
         Push(o), call \in {"idle", "reading"}
  PROVE  UInv'
<1> DEFINE f == [obj |-> o, at |-> "keys"]
<1>1. stack \in Seq(Frames) /\ f \in Frames /\ Len(stack) \in Nat
  BY DEF UInv, StackTypes, Frames, Keys
<1>2. stack' = Append(stack, f) /\ call' = "reading"
  BY DEF Push
<1>3. /\ stack' \in Seq(Frames) /\ stack' # <<>> /\ Len(stack') = Len(stack) + 1
      /\ \A i \in 1..Len(stack) : stack'[i] = stack[i]
      /\ stack'[Len(stack) + 1] = f
  <2> HIDE DEF f
  <2> QED BY <1>1, <1>2
<1>4. stack'[Len(stack) + 1].obj = o
  BY <1>3
<1>5. o \notin ours /\ ours = Filled
  BY DEF XInv, Owned, Forest, Live, UInv, StackOwns
<1>6. \A i \in 1..Len(stack) : stack[i].obj # o
  BY <1>5 DEF Filled
<1> HIDE DEF f
<1>7. StackDistinct'
  BY <1>1, <1>3, <1>4, <1>6 DEF UInv, StackDistinct
<1>8. Filled' = Filled \cup {o}
  BY <1>1, <1>3, <1>4 DEF Filled
<1> QED BY <1>2, <1>3, <1>5, <1>7, <1>8 DEF UInv, StackTypes, StackOwns, Answer

\* a call ends: the frames below it stay, but for the last one's place in its map
LEMMA PopKeeps ==
  ASSUME UInv, stack # <<>>, ours' = ours \ {Top.obj},
         stack' \in Seq(Frames), Len(stack') = Len(stack) - 1,
         \A i \in 1..(Len(stack) - 1) : stack'[i].obj = stack[i].obj,
         call' = (IF Len(stack) = 1 THEN "error" ELSE call), call \in {"reading", "failing"}
  PROVE  UInv'
<1>1. Len(stack) \in Nat \ {0} /\ stack \in Seq(Frames)
  BY TopIsOurs DEF UInv, StackTypes
<1>2. (stack' = <<>>) <=> Len(stack) = 1
  BY <1>1
<1>3. StackDistinct'
  BY <1>1 DEF UInv, StackDistinct
<1>4. Filled' = Filled \ {Top.obj}
  BY <1>1 DEF Filled, UInv, StackDistinct, Top
<1> QED BY <1>1, <1>2, <1>3, <1>4 DEF UInv, StackTypes, StackOwns, Answer

\* reading a pair: a setter, or on to a list or a map of its own
LEMMA ReadPairSteps ==
  ASSUME UInv, NEW o \in Objects, ReadPair(o)
  PROVE  /\ call = "reading"
         /\ \/ \E x \in Keys : Into(x)
            \/ SetString(o) /\ call' \in {"reading", "failing"} /\ UNCHANGED stack
<1>1. call = "reading"
  BY DEF ReadPair, ResponseKeys, RequestKeys, SubjectKeys, ResourceKeys, ActionKeys,
         EnvironmentKeys, AttributeKeys, ResultKeys, StatusKeys, StatuscodeKeys,
         ObligationKeys, AssignmentKeys, Reads
<1> DEFINE Goes == \E x \in Keys : Into(x)
           Sets == SetString(o) /\ \E f \in Fields : Mandatorily(o, f) \/ Optionally(o, f)
<1>2. {"request", "results", "subjects", "resources", "action", "environment", "attributes",
       "status", "obligations", "code", "subcode", "assignments"} \subseteq Keys
  BY DEF Keys, Lists, Children
<1>3. Sets => SetString(o) /\ call' \in {"reading", "failing"} /\ UNCHANGED stack
  BY DEF Mandatorily, Optionally
<1> HIDE DEF Goes
<1>4. ResponseKeys(o) => Goes \/ Sets
  BY <1>2 DEF ResponseKeys, Goes
<1>5. RequestKeys(o) => Goes \/ Sets
  BY <1>2 DEF RequestKeys, Goes
<1>6. SubjectKeys(o) => Goes \/ Sets
  BY <1>2 DEF SubjectKeys, Goes, SetString
<1>7. ResourceKeys(o) => Goes \/ Sets
  BY <1>2 DEF ResourceKeys, Goes, SetString
<1>8. ActionKeys(o) => Goes \/ Sets
  BY <1>2 DEF ActionKeys, Goes
<1>9. EnvironmentKeys(o) => Goes \/ Sets
  BY <1>2 DEF EnvironmentKeys, Goes
<1>10. AttributeKeys(o) => Goes \/ Sets
  BY <1>2 DEF AttributeKeys, Goes, SetString
<1>11. ResultKeys(o) => Goes \/ Sets
  BY <1>2 DEF ResultKeys, Goes, SetString
<1>12. StatusKeys(o) => Goes \/ Sets
  BY <1>2 DEF StatusKeys, Goes, SetString
<1>13. StatuscodeKeys(o) => Goes \/ Sets
  BY <1>2 DEF StatuscodeKeys, Goes, SetString
<1>14. ObligationKeys(o) => Goes \/ Sets
  BY <1>2 DEF ObligationKeys, Goes, SetString
<1>15. AssignmentKeys(o) => Goes \/ Sets
  BY <1>2 DEF AssignmentKeys, Goes, SetString
<1>16. Goes \/ Sets
  <2> HIDE DEF Sets
  <2> QED BY <1>4, <1>5, <1>6, <1>7, <1>8, <1>9, <1>10, <1>11, <1>12, <1>13, <1>14, <1>15 DEF ReadPair
<1> QED BY <1>1, <1>3, <1>16 DEF Goes

LEMMA StringLeavesOwners ==
  ASSUME NEW o, SetString(o)
  PROVE  ours' = ours
  BY DEF SetString, SetCategory, SetContent, SetAttributeId, SetObligationId, SetAssignmentId,
         SetAttributeDatatype, SetAssignmentDatatype, SetIssuer, SetResourceid, SetMessage,
         SetStatuscodeValue, SetAssignmentValue, Kept, Mandatory, Optional, links

LEMMA CreatedIsOurs ==
  ASSUME NEW o \in Objects, Start(o) \/ Enter(o)
  PROVE  /\ CreateSome(o) /\ Push(o)
         /\ kind[o] = "free" /\ ours' = ours \cup {o}
         /\ call \in {"idle", "reading"}
<1>1. CreateSome(o) /\ Push(o) /\ call \in {"idle", "reading"}
  BY DEF Start, Enter, CreateSome
<1>2. CreateSome(o) => kind[o] = "free" /\ ours' = ours \cup {o}
  BY DEF CreateSome, CreateRequest, CreateSubject, CreateResource, CreateAction,
         CreateEnvironment, CreateAttribute, CreateResponse, CreateResult, CreateStatus,
         CreateStatuscode, CreateObligation, CreateAssignment, Create
<1> QED BY <1>1, <1>2

LEMMA KeepsGives ==
  ASSUME NEW p, NEW o, Keeps(p, o)
  PROVE  Combine(p, o) /\ ours' = ours \ {o}
<1>1. Combine(p, o)
  BY DEF Keeps, ResponseKeeps, RequestKeeps, SubjectKeeps, ResourceKeeps, ActionKeeps,
         EnvironmentKeeps, ResultKeeps, StatusKeeps, StatuscodeKeeps, ObligationKeeps, Combine
<1>2. (\E l : AddTo(p, l, o)) \/ (\E c : SetTo(p, c, o))
  BY DEF Keeps, ResponseKeeps, RequestKeeps, SubjectKeeps, ResourceKeeps, ActionKeeps,
         EnvironmentKeeps, ResultKeeps, StatusKeeps, StatuscodeKeeps, ObligationKeeps,
         AddSubject, AddResource, SubjectAddAttribute, ResourceAddAttribute,
         ActionAddAttribute, EnvironmentAddAttribute, AddResult, AddObligation, AddAssignment,
         SetAction, SetEnvironment, SetRequest, SetStatus, SetCode, SetSubcode
<1>3. ours' = ours \ {o}
  BY <1>2 DEF AddTo, SetTo, Replace
<1> QED BY <1>1, <1>3

LEMMA UnwindDeletes ==
  ASSUME UInv, Unwind
  PROVE  Top.obj \in Objects /\ Delete(Top.obj) /\ stack # <<>>
<1>1. stack # <<>> /\ Frees(Top.obj)
  BY DEF Unwind, UInv, StackTypes
<1> QED BY <1>1, TopIsOurs DEF Delete, Frames

(* Every step of unmarshalling is a step of a legal application, or none.  *)
LEMMA StepIsLegal == UInv /\ [UNext]_allVars => [Next]_vars
<1> SUFFICES ASSUME UInv, [UNext]_allVars PROVE [Next]_vars
  OBVIOUS
<1>1. CASE UNCHANGED allVars
  BY <1>1 DEF allVars
<1>2. CASE UNext
  <2> USE <1>2
  <2>1. fault = "none" /\ TextsBounded'
    BY DEF UNext
  <2>2. CASE \E o \in Objects : ReadPair(o)
    BY <2>1, <2>2, ReadPairSteps DEF Next, Into
  <2>3. CASE \E o \in Objects : Start(o) \/ Enter(o)
    BY <2>1, <2>3, CreatedIsOurs DEF Next
  <2>4. CASE \E p, o \in Objects : Leave(p, o)
    BY <2>1, <2>4, KeepsGives DEF Next, Leave
  <2>5. CASE EndOfList \/ Return \/ Refuse
    BY <2>5 DEF EndOfList, Return, Refuse
  <2>6. CASE Unwind
    BY <2>1, <2>6, UnwindDeletes DEF Next
  <2>7. CASE Again
    BY <2>1, <2>7 DEF Again, Next
  <2> QED BY <2>2, <2>3, <2>4, <2>5, <2>6, <2>7 DEF UNext
<1> QED BY <1>1, <1>2

-----------------------------------------------------------------------------
(* The invariant of Unmarshalling.                                         *)

LEMMA InitUInv == UInit => UInv
  BY DEF UInit, Init, UInv, StackTypes, StackDistinct, StackOwns, Answer, Filled

LEMMA ReadPairKeeps ==
  ASSUME UInv, NEW o \in Objects, ReadPair(o)
  PROVE  UInv'
<1>1. call = "reading" /\ stack # <<>>
  BY ReadPairSteps DEF UInv, StackTypes
<1>2. CASE \E x \in Keys : Into(x)
  BY <1>1, <1>2, InPlace DEF Into, vars
<1>3. CASE SetString(o) /\ call' \in {"reading", "failing"} /\ UNCHANGED stack
  <2>1. ours' = ours
    BY <1>3, StringLeavesOwners
  <2> QED BY <1>1, <1>3, <2>1 DEF UInv, StackTypes, StackDistinct, StackOwns, Answer, Filled
<1> QED BY <1>2, <1>3, ReadPairSteps

LEMMA LeaveKeeps ==
  ASSUME UInv, NEW p \in Objects, NEW o \in Objects, Leave(p, o)
  PROVE  UInv'
<1> DEFINE n == Len(stack)
           f == [stack[n - 1] EXCEPT !.at = IF stack[n - 1].at \in Lists THEN stack[n - 1].at
                                                                       ELSE "keys"]
<1>1. /\ call = "reading" /\ call' = "reading" /\ ours' = ours \ {o} /\ Top.obj = o
      /\ stack \in Seq(Frames) /\ n \in Nat /\ n > 1 /\ stack # <<>>
  BY KeepsGives DEF Leave, Ends, UInv, StackTypes
<1>2. /\ Front(stack) \in Seq(Frames) /\ Len(Front(stack)) = n - 1
      /\ \A i \in 1..(n - 1) : Front(stack)[i] = stack[i]
  BY <1>1 DEF Front
<1>3. f \in Frames /\ f.obj = stack[n - 1].obj
  <2>1. stack[n - 1] \in Frames
    BY <1>1
  <2> QED BY <2>1 DEF Frames, Keys
<1>4. stack' = [Front(stack) EXCEPT ![n - 1] = f]
  <2>1. Front(stack)[n - 1] = stack[n - 1]
    BY <1>1, <1>2
  <2> QED BY <2>1 DEF Leave, Returned
<1> HIDE DEF f
<1>5. /\ stack' \in Seq(Frames) /\ Len(stack') = n - 1
      /\ \A i \in 1..(n - 1) : stack'[i].obj = stack[i].obj
  <2> DEFINE g == Front(stack)
  <2>1. g \in Seq(Frames) /\ Len(g) = n - 1 /\ n - 1 \in 1..(n - 1)
    BY <1>1, <1>2
  <2> HIDE DEF g
  <2>2. stack' = [g EXCEPT ![n - 1] = f]
    BY <1>4 DEF g
  <2>3. stack' \in Seq(Frames) /\ Len(stack') = n - 1
    BY <1>3, <2>1, <2>2
  <2>4. \A i \in 1..(n - 1) : stack'[i] = IF i = n - 1 THEN f ELSE g[i]
    BY <2>1, <2>2
  <2>5. \A i \in 1..(n - 1) : g[i] = stack[i]
    BY <1>2 DEF g
  <2> HIDE DEF n
  <2> QED BY <1>3, <2>3, <2>4, <2>5
<1> QED BY <1>1, <1>5, PopKeeps

\* the front of a sequence of frames
LEMMA FrontIsFrames ==
  ASSUME NEW s \in Seq(Frames), Len(s) # 0
  PROVE  LET n == Len(s) - 1
             g == SubSeq(s, 1, n)
         IN  g \in Seq(Frames) /\ Len(g) = n /\ \A i \in 1..n : g[i] = s[i]
<1> DEFINE n == Len(s) - 1
<1>1. n \in Nat /\ n <= Len(s)
  OBVIOUS
<1>2. SubSeq(s, 1, n) = [i \in 1..n |-> s[i]]
  BY <1>1
<1>3. \A i \in 1..n : s[i] \in Frames
  BY <1>1
<1> HIDE DEF n
<1>4. [i \in 1..n |-> s[i]] \in Seq(Frames) /\ Len([i \in 1..n |-> s[i]]) = n
  BY <1>1, <1>3
<1> QED BY <1>2, <1>4 DEF n

LEMMA UnwindKeeps ==
  ASSUME UInv, Unwind
  PROVE  UInv'
<1>1. /\ stack # <<>> /\ ours' = ours \ {Top.obj} /\ stack \in Seq(Frames) /\ call = "failing"
      /\ stack' = SubSeq(stack, 1, Len(stack) - 1) /\ Len(stack) \in Nat \ {0}
      /\ call' = IF Len(stack) = 1 THEN "error" ELSE call
  BY UnwindDeletes, TopIsOurs DEF Unwind, Frees, Front, UInv, StackTypes
<1> DEFINE n == Len(stack)
           g == SubSeq(stack, 1, n - 1)
<1>2. n \in Nat /\ n > 0 /\ stack \in Seq(Frames)
  BY <1>1
<1>3. g \in Seq(Frames) /\ Len(g) = n - 1 /\ \A i \in 1..(n - 1) : g[i] = stack[i]
  BY <1>2, FrontIsFrames
<1>4. stack' = g
  BY <1>1
<1> HIDE DEF g
<1>5. /\ stack' \in Seq(Frames) /\ Len(stack') = Len(stack) - 1
      /\ \A i \in 1..(Len(stack) - 1) : stack'[i] = stack[i]
  BY <1>3, <1>4
<1> QED BY <1>1, <1>5, PopKeeps

LEMMA ReturnKeeps ==
  ASSUME UInv, Return
  PROVE  UInv'
<1>1. call = "reading" /\ Len(stack) = 1 /\ call' = "ok" /\ stack' = <<>> /\ ours' = ours
  BY DEF Return, vars
<1>2. ours = {stack[1].obj}
  BY <1>1 DEF UInv, StackOwns, Filled
<1> QED BY <1>1, <1>2 DEF UInv, StackTypes, StackDistinct, StackOwns, Answer

LEMMA AgainKeeps ==
  ASSUME UInv, Again
  PROVE  UInv'
<1>1. call' = "idle" /\ stack' = <<>> /\ call \in {"ok", "error"}
  BY DEF Again, UInv, StackTypes
<1>2. ours' = {}
  <2>1. CASE call = "ok"
    BY <2>1 DEF Again, Delete, Frees, UInv, Answer
  <2>2. CASE call = "error"
    BY <2>2 DEF Again, vars, UInv, StackTypes, StackOwns, Filled
  <2> QED BY <1>1, <2>1, <2>2
<1> QED BY <1>1, <1>2 DEF UInv, StackTypes, StackDistinct, StackOwns, Answer, Filled

LEMMA UNextKeeps == XInv /\ UInv /\ [UNext]_allVars => UInv'
<1> SUFFICES ASSUME XInv, UInv, [UNext]_allVars PROVE UInv'
  OBVIOUS
<1>1. CASE UNCHANGED allVars
  BY <1>1 DEF allVars, vars, UInv, StackTypes, StackDistinct, StackOwns, Answer, Filled
<1>2. CASE \E o \in Objects : ReadPair(o)
  BY <1>2, ReadPairKeeps
<1>3. CASE \E o \in Objects : Start(o) \/ Enter(o)
  BY <1>3, CreatedIsOurs, PushKeeps
<1>4. CASE \E p, o \in Objects : Leave(p, o)
  BY <1>4, LeaveKeeps
<1>5. CASE EndOfList
  <2>1. stack # <<>> /\ "keys" \in Keys
    BY <1>5 DEF EndOfList, UInv, StackTypes, Keys
  <2> QED BY <1>5, <2>1, InPlace DEF EndOfList, vars
<1>6. CASE Refuse
  BY <1>6 DEF Refuse, vars, UInv, StackTypes, StackDistinct, StackOwns, Answer, Filled
<1>7. CASE Return \/ Unwind \/ Again
  BY <1>7, ReturnKeeps, UnwindKeeps, AgainKeeps
<1> QED BY <1>1, <1>2, <1>3, <1>4, <1>5, <1>6, <1>7 DEF UNext

LEMMA UInvariance == USpec => [](XInv /\ UInv)
<1>1. UInit => XInv /\ UInv
  BY InitOwned, InitUInv DEF UInit
<1>2. XInv /\ UInv /\ [UNext]_allVars => (XInv /\ UInv)'
  BY StepIsLegal, NextKeeps, UNextKeeps
<1> QED BY <1>1, <1>2, PTL DEF USpec

(***************************************************************************)
(* However a message is built, and wherever unmarshalling fails, io.c uses *)
(* the objects as an application may: what holds of every application in   *)
(* XacmlObjects holds of it.                                               *)
(***************************************************************************)
THEOREM UnmarshallingIsDisciplined == USpec => IsDisciplined
<1>1. UInit => Init
  BY DEF UInit
<1>2. UInv /\ [UNext]_allVars => [Next]_vars
  BY StepIsLegal
<1> QED BY <1>1, <1>2, UInvariance, PTL DEF USpec, IsDisciplined, Spec

(* The calls in progress fill different objects, each of them its own.     *)
THEOREM StackIsTyped == USpec => []UTypeOK
  BY UInvariance, UInvIsUTypeOK, PTL

(* After an error nothing is left, at any depth of the message.            *)
THEOREM NothingAfterError == USpec => []ErrorLeavesNothing
<1>1. XInv /\ UInv => ErrorLeavesNothing
  <2> SUFFICES ASSUME XInv, UInv, call = "error" PROVE Live = {}
    BY DEF ErrorLeavesNothing
  <2>1. ours = {}
    BY DEF UInv, StackTypes, StackOwns, Filled
  <2> QED BY <2>1, XInvIsNothingLeaks DEF NothingLeaks
<1> QED BY <1>1, UInvariance, PTL

-----------------------------------------------------------------------------
(* The response that is returned.                                          *)

\* an object of the application is not part of any other
LEMMA RootIsNotReached ==
  ASSUME XInv, NEW r \in ours, NEW o \in Objects, r \in Tree(o)
  PROVE  r = o
<1>0. LinkTypes /\ Schema /\ Forest(HoldsOf, Live, ours)
  BY DEF XInv, Owned
<1>1. SUFFICES ASSUME r # o PROVE FALSE
  OBVIOUS
<1>2. HoldsOf \in [Objects -> SUBSET Objects] /\ r \in Reach(HoldsOf, o)
  BY <1>0, TreeIsReach DEF Forest
<1>3. PICK y \in Reach(HoldsOf, o) : r \in HoldsOf[y]
  BY <1>1, <1>2, ReachHasHolder
<1>4. y \in Objects
  BY <1>3 DEF Reach
<1> QED BY <1>0, <1>3, <1>4 DEF Forest

\* an object of the application stays what it is until it is deleted
LEMMA RootKeepsKind ==
  ASSUME XInv, [Next]_vars, NEW r \in ours, r \in ours'
  PROVE  kind'[r] = kind[r]
<1>0. LinkTypes /\ Forest(HoldsOf, Live, ours)
  BY DEF XInv, Owned
<1>1. r \in Objects /\ kind[r] # "free" /\ kind \in [Objects -> Kinds \cup {"free"}]
  BY <1>0 DEF Forest, Live, LinkTypes
<1>2. CASE UNCHANGED kind
  BY <1>2
<1>3. ASSUME NEW o \in Objects, kind[o] = "free", NEW k, kind' = [kind EXCEPT ![o] = k]
      PROVE  kind'[r] = kind[r]
  BY <1>1, <1>3
<1>4. ASSUME NEW o \in Objects, Frees(o) PROVE kind'[r] = kind[r]
  <2>1. r # o
    BY <1>4 DEF Frees
  <2>2. r \notin Tree(o)
    BY <2>1, RootIsNotReached
  <2> QED BY <1>1, <1>4, <2>2 DEF Frees, Cleared
<1>5. ASSUME NEW p \in Objects, NEW c \in Children, NEW o, Replace(p, c, o)
      PROVE  kind'[r] = kind[r]
  <2> DEFINE old  == child[p][c]
             gone == IF old = NULL THEN {} ELSE Tree(old)
  <2>1. old \in Objects \cup {NULL} /\ old # r
    <3>1. old \in Objects \cup {NULL}
      BY <1>0 DEF LinkTypes
    <3>2. old \in HoldsOf[p] \/ old = NULL
      BY <3>1 DEF HoldsOf, Holds, ChildOf
    <3> QED BY <1>0, <1>1, <3>1, <3>2, NullAssumption DEF Forest
  <2>2. r \notin gone
    BY <2>1, RootIsNotReached
  <2>3. kind' = Cleared(kind, gone, "free")
    BY <1>5 DEF Replace
  <2> HIDE DEF gone
  <2> QED BY <1>1, <2>2, <2>3 DEF Cleared
<1>6. ASSUME NEW o \in Objects, CreateSome(o) PROVE kind'[r] = kind[r]
  <2>1. \E k : kind[o] = "free" /\ kind' = [kind EXCEPT ![o] = k]
    BY <1>6 DEF CreateSome, CreateRequest, CreateSubject, CreateResource, CreateAction,
           CreateEnvironment, CreateAttribute, CreateResponse, CreateResult, CreateStatus,
           CreateStatuscode, CreateObligation, CreateAssignment, Create
  <2> QED BY <1>3, <2>1
<1>7. ASSUME NEW p \in Objects, NEW o \in Objects, Combine(p, o) PROVE kind'[r] = kind[r]
  <2>1. \/ \E l : AddTo(p, l, o)
        \/ \E c \in Children : Replace(p, c, o)
        \/ CloneAttribute(p, o)
    BY <1>7 DEF Combine, AddSubject, AddResource, SubjectAddAttribute, ResourceAddAttribute,
           ActionAddAttribute, EnvironmentAddAttribute, AddResult, AddObligation, AddAssignment,
           SetAction, SetEnvironment, SetRequest, SetStatus, SetCode, SetSubcode, SetTo, Children
  <2>2. CASE \E l : AddTo(p, l, o)
    BY <1>2, <2>2 DEF AddTo
  <2>3. CASE CloneAttribute(p, o)
    BY <1>3, <2>3 DEF CloneAttribute
  <2> QED BY <1>5, <2>1, <2>2, <2>3
<1>8. ASSUME NEW o \in Objects, SetString(o) PROVE UNCHANGED kind
  BY <1>8 DEF SetString, SetCategory, SetContent, SetAttributeId, SetObligationId,
     SetAssignmentId, SetAttributeDatatype, SetAssignmentDatatype, SetIssuer, SetResourceid,
     SetMessage, SetStatuscodeValue, SetAssignmentValue, Kept, Mandatory, Optional, links
<1>9. ASSUME NEW o \in Objects, UnsetAction(o) \/ UnsetEnvironment(o) PROVE kind'[r] = kind[r]
  BY <1>5, <1>9 DEF UnsetAction, UnsetEnvironment, Children
<1>10. ASSUME NEW o \in Objects, RelinquishRequest(o) PROVE UNCHANGED kind
  BY <1>10 DEF RelinquishRequest
<1>11. ASSUME NEW o \in Objects, Delete(o) PROVE kind'[r] = kind[r]
  BY <1>4, <1>11 DEF Delete
<1>12. CASE UNCHANGED vars
  BY <1>2, <1>12 DEF vars, links
<1> QED BY <1>2, <1>6, <1>7, <1>8, <1>9, <1>10, <1>11, <1>12 DEF Next

\* the outermost call fills a response, and that is what it returns
AnswerIsResponse ==
  /\ stack # <<>> => kind[stack[1].obj] = "response"
  /\ call = "ok" => \A r \in ours : kind[r] = "response"

\* the outermost call stays the same one until it returns
LEMMA BottomStays ==
  ASSUME UInv, [UNext]_allVars, stack # <<>>, stack' # <<>>
  PROVE  stack'[1].obj = stack[1].obj
<1>1. stack \in Seq(Frames) /\ Len(stack) \in Nat \ {0} /\ stack[1] \in Frames
  BY DEF UInv, StackTypes
<1>2. ASSUME NEW x, stack' = [stack EXCEPT ![Len(stack)].at = x]
      PROVE  stack'[1].obj = stack[1].obj
  <2> DEFINE f == [stack[Len(stack)] EXCEPT !.at = x]
  <2>1. f.obj = stack[Len(stack)].obj
    <3>1. stack[Len(stack)] \in Frames
      BY <1>1
    <3> QED BY <3>1 DEF Frames
  <2>2. stack' = [stack EXCEPT ![Len(stack)] = f]
    BY <1>2
  <2> HIDE DEF f
  <2> QED BY <1>1, <2>1, <2>2
<1>3. CASE UNCHANGED stack
  BY <1>3
<1>4. CASE \E o \in Objects : ReadPair(o)
  BY <1>2, <1>3, <1>4, ReadPairSteps DEF Into
<1>5. ASSUME NEW o, Push(o) PROVE stack'[1].obj = stack[1].obj
  <2> DEFINE f == [obj |-> o, at |-> "keys"]
  <2>1. stack' = Append(stack, f)
    BY <1>5 DEF Push
  <2> HIDE DEF f
  <2> QED BY <1>1, <2>1
<1>6. CASE \E p, o \in Objects : Leave(p, o)
  <2> DEFINE n == Len(stack) - 1
             g == Front(stack)
  <2>1. n \in Nat /\ n > 0 /\ stack' = [g EXCEPT ![n].at = IF @ \in Lists THEN @ ELSE "keys"]
    BY <1>1, <1>6 DEF Leave, Returned, Ends
  <2>2. g \in Seq(Frames) /\ Len(g) = n /\ g[1] = stack[1]
    <3>1. g = SubSeq(stack, 1, n)
      BY DEF Front
    <3> QED BY <1>1, <2>1, <3>1, FrontIsFrames
  <2> DEFINE f == [g[n] EXCEPT !.at = IF g[n].at \in Lists THEN g[n].at ELSE "keys"]
  <2>3. f.obj = g[n].obj
    <3>1. g[n] \in Frames
      BY <2>1, <2>2
    <3> QED BY <3>1 DEF Frames
  <2>4. stack' = [g EXCEPT ![n] = f]
    BY <2>1
  <2> HIDE DEF f, n, g
  <2> QED BY <2>1, <2>2, <2>3, <2>4
<1>7. CASE Unwind
  <2> DEFINE n == Len(stack) - 1
  <2>1. stack' = SubSeq(stack, 1, n)
    BY <1>7 DEF Unwind, Front
  <2>2. stack' \in Seq(Frames) /\ Len(stack') = n /\ \A i \in 1..n : stack'[i] = stack[i]
    BY <1>1, <2>1, FrontIsFrames
  <2>3. n \in Nat /\ n # 0
    BY <1>1, <2>2
  <2> HIDE DEF n
  <2> QED BY <2>2, <2>3
<1>8. CASE \E o \in Objects : Start(o) \/ Enter(o)
  BY <1>5, <1>8, CreatedIsOurs
<1> QED BY <1>2, <1>3, <1>4, <1>6, <1>7, <1>8
        DEF UNext, allVars, EndOfList, Refuse, Again, Return

LEMMA AnswerStep ==
  ASSUME XInv, UInv, UInv', AnswerIsResponse, [UNext]_allVars
  PROVE  AnswerIsResponse'
<1>0. [Next]_vars
  BY StepIsLegal
<1>1. ASSUME stack' # <<>> PROVE kind'[stack'[1].obj] = "response"
  <2>1. CASE stack # <<>>
    <3> DEFINE r == stack[1].obj
    <3>1. stack'[1].obj = r
      BY <1>1, <2>1, BottomStays
    <3>2. Len(stack) \in Nat \ {0} /\ Len(stack') \in Nat \ {0}
      BY <1>1, <2>1 DEF UInv, StackTypes
    <3>3. r \in ours
      BY <2>1, <3>2 DEF UInv, StackTypes, StackOwns, Filled
    <3>4. r \in ours'
      BY <1>1, <3>1, <3>2 DEF UInv, StackTypes, StackOwns, Filled
    <3> HIDE DEF r
    <3>5. kind'[r] = kind[r]
      BY <1>0, <3>3, <3>4, RootKeepsKind
    <3> QED BY <2>1, <3>1, <3>5 DEF AnswerIsResponse, r
  <2>2. CASE stack = <<>>
    <3>1. PICK o \in Objects : Start(o)
      BY <1>1, <2>2 DEF UNext, allVars, UInv, StackTypes, Leave, Ends, EndOfList, Return,
         Refuse, Unwind, Again, Enter, ReadPair, ResponseKeys, RequestKeys, SubjectKeys,
         ResourceKeys, ActionKeys, EnvironmentKeys, AttributeKeys, ResultKeys, StatusKeys,
         StatuscodeKeys, ObligationKeys, AssignmentKeys, Reads
    <3>2. kind'[o] = "response"
      BY <3>1 DEF Start, CreateResponse, Create, XInv, LinkTypes
    <3>3. stack'[1].obj = o
      <4> DEFINE f == [obj |-> o, at |-> "keys"]
      <4>1. stack' = Append(<<>>, f)
        BY <2>2, <3>1 DEF Start, Push
      <4>2. stack'[1] = f
        <5> HIDE DEF f
        <5> QED BY <4>1
      <4> QED BY <4>2
    <3> QED BY <3>2, <3>3
  <2> QED BY <2>1, <2>2
<1>2. ASSUME call' = "ok" PROVE \A r \in ours' : kind'[r] = "response"
  <2>1. CASE call = "ok"
    <3>1. UNCHANGED allVars
      BY <1>2, <2>1 DEF UNext, UInv, StackTypes, Leave, Ends, EndOfList, Return,
         Refuse, Unwind, Again, Start, Enter, ReadPair, ResponseKeys, RequestKeys, SubjectKeys,
         ResourceKeys, ActionKeys, EnvironmentKeys, AttributeKeys, ResultKeys, StatusKeys,
         StatuscodeKeys, ObligationKeys, AssignmentKeys, Reads
    <3> QED BY <2>1, <3>1 DEF AnswerIsResponse, allVars, vars, links
  <2>2. CASE call # "ok"
    <3>1. Return
      <4>1. ~\E o \in Objects : ReadPair(o)
        BY <1>2, ReadPairSteps DEF Into, UInv, StackTypes
      <4>2. ~\E o \in Objects : Start(o) \/ Enter(o)
        BY <1>2 DEF Start, Enter, Push
      <4> QED BY <1>2, <2>2, <4>1, <4>2 DEF UNext, allVars, Leave, Ends, EndOfList, Refuse,
              Unwind, Again
    <3>2. ours = {stack[1].obj} /\ stack # <<>>
      BY <3>1 DEF Return, UInv, StackTypes, StackOwns, Filled
    <3> QED BY <3>1, <3>2 DEF Return, vars, links, AnswerIsResponse
  <2> QED BY <2>1, <2>2
<1> QED BY <1>1, <1>2 DEF AnswerIsResponse

(* The response that is returned owns all that was created for it.         *)
THEOREM AnswerOwnsAll == USpec => []ResponseOwnsAll
<1>1. UInit => XInv /\ UInv /\ AnswerIsResponse
  BY InitOwned, InitUInv DEF UInit, AnswerIsResponse
<1>2. XInv /\ UInv /\ AnswerIsResponse /\ [UNext]_allVars => (XInv /\ UInv /\ AnswerIsResponse)'
  BY StepIsLegal, NextKeeps, UNextKeeps, AnswerStep
<1>3. XInv /\ UInv /\ AnswerIsResponse => ResponseOwnsAll
  <2> SUFFICES ASSUME XInv, UInv, AnswerIsResponse, call = "ok"
               PROVE  \E r \in ours : kind[r] = "response" /\ ours = {r} /\ Tree(r) = Live
    BY DEF ResponseOwnsAll
  <2>1. PICK r \in ours : ours = {r}
    BY DEF UInv, Answer
  <2>2. LinkTypes /\ Schema /\ Forest(HoldsOf, Live, ours) /\ r \in Objects
    BY DEF XInv, Owned, Forest
  <2>3. Tree(r) = Live
    BY <2>1, <2>2, TreeIsReach, ForestHasRoots
  <2> QED BY <2>1, <2>3 DEF AnswerIsResponse
<1> QED BY <1>1, <1>2, <1>3, PTL DEF USpec

=============================================================================
