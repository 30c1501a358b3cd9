--------------------------- MODULE HessianProofs ---------------------------
(***************************************************************************)
(* Writing: marshalling releases what it holds, for requests of any size   *)
(* and depth, fails for want of memory or of an attribute's id only, and   *)
(* otherwise builds the object of the whole request.  MInv says, for each  *)
(* call that has not returned, which of its variables own something at     *)
(* which step; NInv, that each call is for a part of the request, whose    *)
(* kind decides the fields, and why the innermost failed; CInv, what each  *)
(* call has written so far, and what it waits for.                         *)
(*                                                                         *)
(* Reading: whatever the bytes are, only objects that were being read are  *)
(* lost, and only when the reading fails.  DInv says which objects can     *)
(* still be reached, and which parts of a list or map have been moved.     *)
(* TInv says more while no allocation has failed and every reference was   *)
(* sound: nothing holds an object that was freed, and the parts that have  *)
(* yet to be moved are in nothing else, so that nothing is freed twice.    *)
(***************************************************************************)
EXTENDS RequestMarshalling, HessianReading, FiniteSetTheorems, TLAPS

Steps == {"map", "field", "items", "append", "put", "calling"}
Marks == {"none", "own", "given"}

\* frames whose nodes and documents are in D
Frames(D) ==
  [node : D, step : Steps, at : Nat \ {0}, own : [Owners -> Marks],
   value : D, items : Seq(D), pairs : D]

FieldAt(f) == FieldsOf(f.node.kind)[f.at]

HoldsList(f) ==
  \/ f.step \in {"items", "append"}
  \/ f.step \in {"put", "calling"} /\ FieldAt(f) \in Lists

\* what the variables of a call own at each of its steps
Owns(f) ==
  /\ f.own["null"] = "none"
  /\ f.own["key"] # "own"
  /\ f.step = "map" => \A l \in Owners : f.own[l] = "none"
  /\ f.step # "map" => f.own["map"] = "own"
  /\ f.own["list"] = "own" <=> HoldsList(f)
  /\ f.own["value"] = "own" => f.step = "append" \/ (f.step = "put" /\ FieldAt(f) \notin Lists)
  /\ f.step = "append" => f.own["value"] = "own"
  /\ f.step = "put" /\ FieldAt(f) \notin Lists => f.own["value"] # "given"
  /\ f.step \in {"items", "append"} => FieldAt(f) \in Lists

Typed == \E D : stack \in Seq(Frames(D))

\* all calls but the innermost wait for the next one
Waiting ==
  /\ \A k \in 1 .. Len(stack) : Owns(stack[k])
  /\ \A k \in 1 .. Len(stack) - 1 : stack[k].step = "calling"
  /\ phase \in {"marshalling", "failing"} <=> stack # <<>>
  /\ phase = "marshalling" => This.step # "calling"
  /\ phase = "failing" => This.step = "calling"

\* only the lack of memory loses anything, and never what a variable owns
Clean ==
  /\ starved \in BOOLEAN /\ hollow \in BOOLEAN
  /\ LocalsReleased
  /\ leaks # {} \/ fault # "none" \/ hollow => starved

MInv == Typed /\ Waiting /\ Clean

-----------------------------------------------------------------------------
(* Sequences and stacks.                                                   *)

Elements(s) == {s[k] : k \in DOMAIN s}

LEMMA FramesGrow ==
  ASSUME NEW D, NEW E, D \subseteq E, NEW s \in Seq(Frames(D))
  PROVE  s \in Seq(Frames(E))
<1>1. Frames(D) \subseteq Frames(E)
  <2>1. \A i \in Seq(D) : i \in Seq(E)
    OBVIOUS
  <2> QED BY <2>1 DEF Frames
<1> HIDE DEF Frames
<1> QED BY <1>1

LEMMA LengthIs ==
  ASSUME NEW A, NEW s \in Seq(A)
  PROVE  /\ Len(s) \in Nat /\ DOMAIN s = 1 .. Len(s) /\ (s = <<>> <=> Len(s) = 0)
         /\ \A k \in 1 .. Len(s) : s[k] \in A
  OBVIOUS

LEMMA LastChanges ==
  ASSUME NEW A, NEW s \in Seq(A), s # <<>>, NEW f \in A
  PROVE  LET t == [s EXCEPT ![Len(s)] = f]
         IN  /\ t \in Seq(A) /\ Len(t) = Len(s) /\ t # <<>>
             /\ t[Len(t)] = f
             /\ \A k \in 1 .. Len(s) - 1 : t[k] = s[k]
  OBVIOUS

LEMMA FrontIs ==
  ASSUME NEW A, NEW s \in Seq(A), s # <<>>
  PROVE  LET n == Len(s) - 1
             t == SubSeq(s, 1, n)
         IN  n \in Nat /\ t \in Seq(A) /\ Len(t) = n /\ \A k \in 1 .. n : t[k] = s[k]
<1> DEFINE n == Len(s) - 1
<1>1. n \in Nat /\ n <= Len(s)
  OBVIOUS
<1>2. SubSeq(s, 1, n) = [k \in 1 .. n |-> s[k]]
  BY <1>1
<1>3. \A k \in 1 .. n : s[k] \in A
  BY <1>1
<1> HIDE DEF n
<1>4. [k \in 1 .. n |-> s[k]] \in Seq(A) /\ Len([k \in 1 .. n |-> s[k]]) = n
  BY <1>1, <1>3
<1> QED BY <1>1, <1>2, <1>4 DEF n

LEMMA Pushed ==
  ASSUME NEW A, NEW s \in Seq(A), NEW f \in A
  PROVE  LET t == Append(s, f)
         IN  /\ t \in Seq(A) /\ Len(t) = Len(s) + 1 /\ t # <<>>
             /\ t[Len(t)] = f /\ t[Len(s) + 1] = f
             /\ \A k \in 1 .. Len(s) : t[k] = s[k]
  OBVIOUS

-----------------------------------------------------------------------------
(* What a step of a call, or its failure, makes of the stack.              *)

\* the call goes on: f is its frame now
LEMMA BecomesKeeps ==
  ASSUME Waiting, NEW D, stack \in Seq(Frames(D)), phase = "marshalling",
         NEW f \in Frames(D), Owns(f), f.step # "calling",
         Becomes(f), phase' = phase
  PROVE  Typed' /\ Waiting'
<1> DEFINE A == Frames(D)
<1>1. stack \in Seq(A) /\ stack # <<>> /\ f \in A /\ stack' = [stack EXCEPT ![Len(stack)] = f]
  BY DEF Waiting, Becomes
<1> HIDE DEF A
<1>2. /\ stack' \in Seq(A) /\ Len(stack') = Len(stack) /\ stack' # <<>>
      /\ stack'[Len(stack')] = f
      /\ \A k \in 1 .. Len(stack) - 1 : stack'[k] = stack[k]
  BY <1>1, LastChanges
<1>3. Typed'
  BY <1>2 DEF A, Typed
<1>4. \A k \in 1 .. Len(stack') : Owns(stack'[k])
  <2> SUFFICES ASSUME NEW k \in 1 .. Len(stack') PROVE Owns(stack'[k])
    OBVIOUS
  <2>1. CASE k = Len(stack')
    BY <1>2, <2>1
  <2>2. CASE k # Len(stack')
    <3>1. Len(stack) \in Nat /\ k \in 1 .. Len(stack) /\ k # Len(stack)
      BY <1>1, <1>2, <2>2, LengthIs
    <3>2. k \in 1 .. Len(stack) - 1
      BY <3>1
    <3>3. stack'[k] = stack[k] /\ Owns(stack[k])
      BY <1>2, <3>1, <3>2 DEF Waiting
    <3> QED BY <3>3
  <2> QED BY <2>1, <2>2
<1>5. \A k \in 1 .. Len(stack') - 1 : stack'[k].step = "calling"
  BY <1>2 DEF Waiting
<1> QED BY <1>2, <1>3, <1>4, <1>5 DEF Waiting, This

\* the call fails: its caller is the innermost now
LEMMA ExitKeeps ==
  ASSUME Typed, Waiting, phase \in {"marshalling", "failing"}, stack' = Callers,
         phase' = IF Len(stack) = 1 THEN "failed" ELSE "failing"
  PROVE  Typed' /\ Waiting'
<1>1. PICK D : stack \in Seq(Frames(D))
  BY DEF Typed
<1> DEFINE A == Frames(D)
<1>2. stack \in Seq(A) /\ stack # <<>> /\ stack' = SubSeq(stack, 1, Len(stack) - 1)
  BY <1>1 DEF Waiting, Callers
<1> HIDE DEF A
<1>3. /\ stack' \in Seq(A) /\ Len(stack') = Len(stack) - 1
      /\ \A k \in 1 .. Len(stack) - 1 : stack'[k] = stack[k]
  BY <1>2, FrontIs
<1>4. Len(stack) \in Nat \ {0} /\ (stack' = <<>> <=> Len(stack) = 1)
  <2>1. Len(stack) \in Nat /\ Len(stack) # 0
    BY <1>2, LengthIs
  <2>2. stack' = <<>> <=> Len(stack') = 0
    <3>1. stack' \in Seq(A)
      BY <1>3
    <3> QED BY <3>1, LengthIs
  <2> QED BY <1>3, <2>1, <2>2
<1>5. /\ \A k \in 1 .. Len(stack') : Owns(stack'[k]) /\ stack'[k].step = "calling"
      /\ stack' # <<>> => stack'[Len(stack')].step = "calling"
  BY <1>3, <1>4 DEF Waiting
<1> QED BY <1>3, <1>4, <1>5 DEF A, Waiting, Typed, This

\* nothing is lost by a function that deletes, of its variables, all those that
\* own something and none that gave it away
LEMMA ExitIsClean ==
  ASSUME Clean, NEW f, NEW S, NEW less \in BOOLEAN, Exit(f, S, less), starved => less,
         \A l \in S : f.own[l] # "given",
         \A l \in Locals : f.own[l] = "own" => l \in S,
         f.own["null"] = "own" => less
  PROVE  Clean'
<1> DEFINE lost == {l \in Owners : f.own[l] = "own"} \ S
<1>1. lost \cap Locals = {} /\ (lost # {} => less)
  BY DEF Owners
<1>2. hollow' = hollow
  BY DEF Exit
<1>3. PICK crowded, maps : Destroys(crowded, maps, lost, less)
  BY DEF Exit
<1> HIDE DEF lost
<1>4. "content" \notin Locals
  BY DEF Locals
<1> QED BY <1>1, <1>2, <1>3, <1>4 DEF Destroys, Clean, LocalsReleased

LEMMA ExitHolds ==
  ASSUME Typed, Waiting, phase \in {"marshalling", "failing"},
         NEW f, NEW S, NEW less \in BOOLEAN, Exit(f, S, less)
  PROVE  Typed' /\ Waiting'
BY ExitKeeps DEF Exit

LEMMA ThisIs ==
  ASSUME MInv, phase \in {"marshalling", "failing"}
  PROVE  /\ stack # <<>> /\ Len(stack) \in Nat \ {0}
         /\ Owns(This)
         /\ \E D : stack \in Seq(Frames(D)) /\ This \in Frames(D)
<1>1. PICK D : stack \in Seq(Frames(D))
  BY DEF MInv, Typed
<1> DEFINE A == Frames(D)
<1>2. stack \in Seq(A) /\ stack # <<>>
  BY <1>1 DEF MInv, Waiting
<1> HIDE DEF A
<1>3. Len(stack) \in Nat /\ Len(stack) # 0
  BY <1>2, LengthIs
<1>4. Len(stack) \in 1 .. Len(stack)
  BY <1>3
<1>5. This \in A
  BY <1>2, <1>4 DEF This
<1>6. Owns(This)
  BY <1>4 DEF MInv, Waiting, This
<1> QED BY <1>1, <1>2, <1>3, <1>5, <1>6 DEF A

\* the call goes on with frame f, in which v is new
LEMMA GoesOn ==
  ASSUME MInv, phase = "marshalling", phase' = phase, NEW f, NEW v, Becomes(f),
         \A D : This \in Frames(D) /\ v \in D => f \in Frames(D),
         Owns(f), f.step # "calling"
  PROVE  Typed' /\ Waiting'
<1>1. PICK D : stack \in Seq(Frames(D)) /\ This \in Frames(D)
  BY ThisIs
<1> DEFINE E == D \cup {v}
<1>2. D \subseteq E /\ v \in E
  OBVIOUS
<1> HIDE DEF E
<1>3. stack \in Seq(Frames(E))
  BY <1>1, <1>2, FramesGrow
<1>4. This \in Frames(E)
  BY <1>1, <1>2 DEF Frames
<1>5. f \in Frames(E)
  BY <1>2, <1>4
<1>6. Waiting
  BY DEF MInv
<1> QED BY <1>3, <1>5, <1>6, BecomesKeeps

LEMMA SucceedsIsClean ==
  ASSUME MInv, hollow' = hollow, Succeeds
  PROVE  Clean'
BY DEF MInv, Clean, Succeeds, LocalsReleased

LEMMA StarvesIsClean ==
  ASSUME MInv, hollow' \in BOOLEAN, Starves
  PROVE  Clean'
BY DEF MInv, Clean, Starves, LocalsReleased

\* the function gives up, and deletes the variables in S
LEMMA FailsWell ==
  ASSUME MInv, phase \in {"marshalling", "failing"},
         NEW f, NEW S, NEW less \in BOOLEAN, Exit(f, S, less), starved => less,
         \A l \in S : f.own[l] # "given",
         \A l \in Locals : f.own[l] = "own" => l \in S,
         f.own["null"] = "own" => less
  PROVE  MInv'
BY ExitHolds, ExitIsClean DEF MInv

LEMMA GivesUpWell ==
  ASSUME MInv, phase \in {"marshalling", "failing"},
         NEW S, GivesUp(S),
         \A l \in S : This.own[l] # "given",
         \A l \in Locals : This.own[l] = "own" => l \in S
  PROVE  MInv'
<1>1. PICK less \in BOOLEAN : less = TRUE
  OBVIOUS
<1>2. Exit(This, S, less)
  BY <1>1 DEF GivesUp
<1>3. (starved => less) /\ (This.own["null"] = "own" => less)
  BY <1>1
<1> QED BY <1>2, <1>3, FailsWell

-----------------------------------------------------------------------------
(* The steps of a call.                                                    *)

LEMMA CreateMapHolds == ASSUME MInv, CreateMap PROVE MInv'
<1>1. phase = "marshalling" /\ This.step = "map"
  BY DEF CreateMap, AtStep
<1>2. Owns(This)
  BY <1>1, ThisIs
<1>3. PICK D : This \in Frames(D)
  BY <1>1, ThisIs
<1> DEFINE f == [Holds(This, "map") EXCEPT !.step = "field"]
<1>4. CASE Becomes(f) /\ Succeeds /\ Continues
  <2>1. \A E : This \in Frames(E) => f \in Frames(E)
    BY DEF Frames, Holds, Owners, Locals, Marks, Steps
  <2>2. Owns(f) /\ f.step # "calling"
    BY <1>1, <1>2, <1>3 DEF Frames, Owns, Holds, Owners, Locals, HoldsList
  <2>3. phase' = phase /\ hollow' = hollow
    BY <1>4 DEF Continues
  <2> HIDE DEF f
  <2>4. Typed' /\ Waiting'
    BY <1>1, <1>4, <2>1, <2>2, <2>3, GoesOn
  <2> QED BY <1>4, <2>3, <2>4, SucceedsIsClean DEF MInv
<1>5. CASE GivesUp({})
  <2>1. \A l \in Owners : This.own[l] = "none"
    BY <1>1, <1>2 DEF Owns
  <2>2. \A l \in Locals : This.own[l] # "own"
    BY <2>1 DEF Owners
  <2> QED BY <1>1, <1>5, <2>2, GivesUpWell
<1> QED BY <1>4, <1>5 DEF CreateMap

LEMMA FailsAtField ==
  ASSUME MInv, AtStep("field"), NEW less \in BOOLEAN, starved => less,
         Exit(This, {"map"}, less)
  PROVE  MInv'
<1>1. phase = "marshalling" /\ This.step = "field"
  BY DEF AtStep
<1>2. Owns(This)
  BY <1>1, ThisIs
<1>3. This.own["map"] = "own" /\ \A l \in {"list", "key", "value", "null"} : This.own[l] # "own"
  BY <1>1, <1>2 DEF Owns, HoldsList
<1> QED BY <1>1, <1>3, FailsWell DEF Locals

LEMMA GivesUpAtField ==
  ASSUME MInv, AtStep("field"), GivesUp({"map"})
  PROVE  MInv'
<1>1. PICK less \in BOOLEAN : less = TRUE
  OBVIOUS
<1>2. Exit(This, {"map"}, less) /\ (starved => less)
  BY <1>1 DEF GivesUp
<1> QED BY <1>2, FailsAtField

LEMMA FailsAtItems ==
  ASSUME MInv, AtStep("items"), GivesUp({"map", "list"})
  PROVE  MInv'
<1>1. phase = "marshalling" /\ This.step = "items"
  BY DEF AtStep
<1>2. Owns(This)
  BY <1>1, ThisIs
<1>3. /\ This.own["map"] = "own" /\ This.own["list"] = "own"
      /\ \A l \in {"key", "value", "null"} : This.own[l] # "own"
  BY <1>1, <1>2 DEF Owns, HoldsList
<1> QED BY <1>1, <1>3, GivesUpWell DEF Locals

LEMMA FailsAtAppend ==
  ASSUME MInv, AtStep("append"), GivesUp({"map", "list", "value"})
  PROVE  MInv'
<1>1. phase = "marshalling" /\ This.step = "append"
  BY DEF AtStep
<1>2. Owns(This)
  BY <1>1, ThisIs
<1>3. /\ This.own["map"] = "own" /\ This.own["list"] = "own" /\ This.own["value"] = "own"
      /\ This.own["key"] # "own"
  BY <1>1, <1>2 DEF Owns, HoldsList
<1> QED BY <1>1, <1>3, GivesUpWell DEF Locals

LEMMA SkipOptionalHolds == ASSUME MInv, SkipOptional PROVE MInv'
<1>1. phase = "marshalling" /\ This.step = "field" /\ AtStep("field")
  BY DEF SkipOptional, Writes, AtStep
<1>2. Owns(This)
  BY <1>1, ThisIs
<1>3. PICK D : This \in Frames(D)
  BY <1>1, ThisIs
<1>4. FieldAt(This) = Field
  BY DEF FieldAt, Field
<1>5. ASSUME Becomes([This EXCEPT !.at = @ + 1]), Succeeds, Continues
     PROVE  MInv'
  <2> DEFINE f == [This EXCEPT !.at = @ + 1]
  <2>1. \A E : This \in Frames(E) /\ NULL \in E => f \in Frames(E)
    BY DEF Frames, Holds, Owners, Locals, Marks, Steps
  <2>2. /\ f.step = "field" /\ f.at = This.at + 1 /\ f.node = This.node
        /\ \A l \in Owners : f.own[l] = This.own[l]
    BY <1>1, <1>3 DEF Frames, Holds, Owners, Locals
  <2>3. phase' = phase /\ hollow' = hollow /\ Becomes(f)
    BY <1>5 DEF Continues
  <2> HIDE DEF f
  <2>4. Owns(f) /\ f.step # "calling"
    BY <1>1, <1>2, <1>4, <2>2, <1>5
       DEF Owns, Owners, Locals, HoldsList, FieldAt, Strings, Children, Lists
  <2>5. Typed' /\ Waiting'
    BY <1>1, <2>1, <2>3, <2>4, GoesOn
  <2> QED BY <1>5, <2>3, <2>5, SucceedsIsClean DEF MInv
<1> QED BY <1>4, <1>5 DEF SkipOptional, Writes

LEMMA MissingIdHolds == ASSUME MInv, MissingId PROVE MInv'
<1>1. phase = "marshalling" /\ This.step = "field" /\ AtStep("field")
  BY DEF MissingId, Writes, AtStep
<1>2. Owns(This)
  BY <1>1, ThisIs
<1>3. PICK D : This \in Frames(D)
  BY <1>1, ThisIs
<1>4. FieldAt(This) = Field
  BY DEF FieldAt, Field
<1>5. ASSUME Exit(This, {"map"}, starved)
     PROVE  MInv'
  BY <1>1, <1>5, FailsAtField DEF MInv, Clean
<1> QED BY <1>4, <1>5 DEF MissingId, Writes

LEMMA CreateStringHolds == ASSUME MInv, CreateString PROVE MInv'
<1>1. phase = "marshalling" /\ This.step = "field" /\ AtStep("field")
  BY DEF CreateString, Writes, AtStep
<1>2. Owns(This)
  BY <1>1, ThisIs
<1>3. PICK D : This \in Frames(D)
  BY <1>1, ThisIs
<1>4. FieldAt(This) = Field
  BY DEF FieldAt, Field
<1>5. ASSUME Becomes([Holds(This, "value") EXCEPT !.value = StringOf(Content), !.step = "put"]),
            Succeeds, Continues, Field \in Strings
     PROVE  MInv'
  <2> DEFINE f == [Holds(This, "value") EXCEPT !.value = StringOf(Content), !.step = "put"]
  <2>1. \A E : This \in Frames(E) /\ StringOf(Content) \in E => f \in Frames(E)
    BY DEF Frames, Holds, Owners, Locals, Marks, Steps
  <2>2. /\ f.step = "put" /\ f.at = This.at /\ f.node = This.node
        /\ \A l \in Owners : f.own[l] = IF l = "value" THEN "own" ELSE This.own[l]
    BY <1>1, <1>3 DEF Frames, Holds, Owners, Locals
  <2>3. phase' = phase /\ hollow' = hollow /\ Becomes(f)
    BY <1>5 DEF Continues
  <2> HIDE DEF f
  <2>4. Owns(f) /\ f.step # "calling"
    BY <1>1, <1>2, <1>4, <2>2, <1>5
       DEF Owns, Owners, Locals, HoldsList, FieldAt, Strings, Children, Lists
  <2>5. Typed' /\ Waiting'
    BY <1>1, <2>1, <2>3, <2>4, GoesOn
  <2> QED BY <1>5, <2>3, <2>5, SucceedsIsClean DEF MInv
<1>6. ASSUME GivesUp({"map"})
     PROVE  MInv'
  BY <1>1, <1>6, GivesUpAtField DEF MInv, Clean
<1>7. ASSUME Becomes([This EXCEPT !.own["value"] = "none", !.value = NULL, !.step = "put"]),
            Starves, Continues, Field \in Strings
     PROVE  MInv'
  <2> DEFINE f == [This EXCEPT !.own["value"] = "none", !.value = NULL, !.step = "put"]
  <2>1. \A E : This \in Frames(E) /\ NULL \in E => f \in Frames(E)
    BY DEF Frames, Holds, Owners, Locals, Marks, Steps
  <2>2. /\ f.step = "put" /\ f.at = This.at /\ f.node = This.node
        /\ \A l \in Owners : f.own[l] = IF l = "value" THEN "none" ELSE This.own[l]
    BY <1>1, <1>3 DEF Frames, Holds, Owners, Locals
  <2>3. phase' = phase /\ hollow' = hollow /\ Becomes(f)
    BY <1>7 DEF Continues
  <2> HIDE DEF f
  <2>4. Owns(f) /\ f.step # "calling"
    BY <1>1, <1>2, <1>4, <2>2, <1>7
       DEF Owns, Owners, Locals, HoldsList, FieldAt, Strings, Children, Lists
  <2>5. Typed' /\ Waiting'
    BY <1>1, <2>1, <2>3, <2>4, GoesOn
  <2> QED BY <1>7, <2>3, <2>5, StarvesIsClean DEF MInv, Clean
<1> QED BY <1>4, <1>5, <1>6, <1>7 DEF CreateString, Writes

LEMMA CreateListHolds == ASSUME MInv, CreateList PROVE MInv'
<1>1. phase = "marshalling" /\ This.step = "field" /\ AtStep("field")
  BY DEF CreateList, Writes, AtStep
<1>2. Owns(This)
  BY <1>1, ThisIs
<1>3. PICK D : This \in Frames(D)
  BY <1>1, ThisIs
<1>4. FieldAt(This) = Field
  BY DEF FieldAt, Field
<1>5. ASSUME Becomes([Holds(This, "list") EXCEPT !.items = <<>>, !.step = "items"]),
            Succeeds, Continues, Field \in Lists
     PROVE  MInv'
  <2> DEFINE f == [Holds(This, "list") EXCEPT !.items = <<>>, !.step = "items"]
  <2>1. ASSUME NEW E, This \in Frames(E) PROVE f \in Frames(E)
    <3> DEFINE q == <<>>
    <3>1. q \in Seq(E)
      OBVIOUS
    <3> HIDE DEF q
    <3>2. [Holds(This, "list") EXCEPT !.items = q, !.step = "items"] \in Frames(E)
      BY <2>1, <3>1 DEF Frames, Holds, Owners, Locals, Marks, Steps
    <3> QED BY <3>2 DEF q
  <2>2. /\ f.step = "items" /\ f.at = This.at /\ f.node = This.node
        /\ \A l \in Owners : f.own[l] = IF l = "list" THEN "own" ELSE This.own[l]
    BY <1>1, <1>3 DEF Frames, Holds, Owners, Locals
  <2>3. phase' = phase /\ hollow' = hollow /\ Becomes(f)
    BY <1>5 DEF Continues
  <2> HIDE DEF f
  <2>4. Owns(f) /\ f.step # "calling"
    BY <1>1, <1>2, <1>4, <2>2, <1>5
       DEF Owns, Owners, Locals, HoldsList, FieldAt, Strings, Children, Lists
  <2>5. Typed' /\ Waiting'
    BY <1>1, <2>1, <2>3, <2>4, GoesOn
  <2> QED BY <1>5, <2>3, <2>5, SucceedsIsClean DEF MInv
<1>6. ASSUME GivesUp({"map"})
     PROVE  MInv'
  BY <1>1, <1>6, GivesUpAtField DEF MInv, Clean
<1> QED BY <1>4, <1>5, <1>6 DEF CreateList, Writes

LEMMA CreateElementHolds == ASSUME MInv, CreateElement PROVE MInv'
<1>1. phase = "marshalling" /\ This.step = "items" /\ AtStep("items")
  BY DEF CreateElement, Writes, AtStep
<1>2. Owns(This)
  BY <1>1, ThisIs
<1>3. PICK D : This \in Frames(D)
  BY <1>1, ThisIs
<1>4. FieldAt(This) = Field
  BY DEF FieldAt, Field
<1>5. ASSUME Becomes([Holds(This, "value") EXCEPT !.value = StringOf(NextItem), !.step = "append"]),
            Succeeds, Continues
     PROVE  MInv'
  <2> DEFINE f == [Holds(This, "value") EXCEPT !.value = StringOf(NextItem), !.step = "append"]
  <2>1. \A E : This \in Frames(E) /\ StringOf(NextItem) \in E => f \in Frames(E)
    BY DEF Frames, Holds, Owners, Locals, Marks, Steps
  <2>2. /\ f.step = "append" /\ f.at = This.at /\ f.node = This.node
        /\ \A l \in Owners : f.own[l] = IF l = "value" THEN "own" ELSE This.own[l]
    BY <1>1, <1>3 DEF Frames, Holds, Owners, Locals
  <2>3. phase' = phase /\ hollow' = hollow /\ Becomes(f)
    BY <1>5 DEF Continues
  <2> HIDE DEF f
  <2>4. Owns(f) /\ f.step # "calling"
    BY <1>1, <1>2, <1>4, <2>2, <1>5
       DEF Owns, Owners, Locals, HoldsList, FieldAt, Strings, Children, Lists
  <2>5. Typed' /\ Waiting'
    BY <1>1, <2>1, <2>3, <2>4, GoesOn
  <2> QED BY <1>5, <2>3, <2>5, SucceedsIsClean DEF MInv
<1>6. ASSUME GivesUp({"map", "list"})
     PROVE  MInv'
  BY <1>1, <1>6, FailsAtItems DEF MInv, Clean
<1> QED BY <1>4, <1>5, <1>6 DEF CreateElement, Writes

LEMMA MarshalNullHolds == ASSUME MInv, MarshalNull PROVE MInv'
<1>1. phase = "marshalling" /\ This.step = "field" /\ AtStep("field")
  BY DEF MarshalNull, Writes, AtStep
<1>2. Owns(This)
  BY <1>1, ThisIs
<1>3. PICK D : This \in Frames(D)
  BY <1>1, ThisIs
<1>4. FieldAt(This) = Field
  BY DEF FieldAt, Field
<1>5. ASSUME Becomes([Holds(This, "value") EXCEPT !.value = NullObject, !.step = "put"]),
            Succeeds, Continues, Field \in Children
     PROVE  MInv'
  <2> DEFINE f == [Holds(This, "value") EXCEPT !.value = NullObject, !.step = "put"]
  <2>1. \A E : This \in Frames(E) /\ NullObject \in E => f \in Frames(E)
    BY DEF Frames, Holds, Owners, Locals, Marks, Steps
  <2>2. /\ f.step = "put" /\ f.at = This.at /\ f.node = This.node
        /\ \A l \in Owners : f.own[l] = IF l = "value" THEN "own" ELSE This.own[l]
    BY <1>1, <1>3 DEF Frames, Holds, Owners, Locals
  <2>3. phase' = phase /\ hollow' = hollow /\ Becomes(f)
    BY <1>5 DEF Continues
  <2> HIDE DEF f
  <2>4. Owns(f) /\ f.step # "calling"
    BY <1>1, <1>2, <1>4, <2>2, <1>5
       DEF Owns, Owners, Locals, HoldsList, FieldAt, Strings, Children, Lists
  <2>5. Typed' /\ Waiting'
    BY <1>1, <2>1, <2>3, <2>4, GoesOn
  <2> QED BY <1>5, <2>3, <2>5, SucceedsIsClean DEF MInv
<1>6. ASSUME GivesUp({"map"})
     PROVE  MInv'
  BY <1>1, <1>6, GivesUpAtField DEF MInv, Clean
<1> QED BY <1>4, <1>5, <1>6 DEF MarshalNull, Writes

LEMMA EndOfItemsHolds == ASSUME MInv, EndOfItems PROVE MInv'
<1>1. phase = "marshalling" /\ This.step = "items" /\ AtStep("items")
  BY DEF EndOfItems, Writes, AtStep
<1>2. Owns(This)
  BY <1>1, ThisIs
<1>3. PICK D : This \in Frames(D)
  BY <1>1, ThisIs
<1>4. FieldAt(This) = Field
  BY DEF FieldAt, Field
<1>5. ASSUME Becomes([This EXCEPT !.step = "put"]), Succeeds, Continues
     PROVE  MInv'
  <2> DEFINE f == [This EXCEPT !.step = "put"]
  <2>1. \A E : This \in Frames(E) /\ NULL \in E => f \in Frames(E)
    BY DEF Frames, Holds, Owners, Locals, Marks, Steps
  <2>2. /\ f.step = "put" /\ f.at = This.at /\ f.node = This.node
        /\ \A l \in Owners : f.own[l] = This.own[l]
    BY <1>1, <1>3 DEF Frames, Holds, Owners, Locals
  <2>3. phase' = phase /\ hollow' = hollow /\ Becomes(f)
    BY <1>5 DEF Continues
  <2> HIDE DEF f
  <2>4. Owns(f) /\ f.step # "calling"
    BY <1>1, <1>2, <1>4, <2>2, <1>5
       DEF Owns, Owners, Locals, HoldsList, FieldAt, Strings, Children, Lists
  <2>5. Typed' /\ Waiting'
    BY <1>1, <2>1, <2>3, <2>4, GoesOn
  <2> QED BY <1>5, <2>3, <2>5, SucceedsIsClean DEF MInv
<1> QED BY <1>4, <1>5 DEF EndOfItems, Writes

LEMMA AppendItemHolds == ASSUME MInv, AppendItem PROVE MInv'
<1>1. phase = "marshalling" /\ This.step = "append" /\ AtStep("append")
  BY DEF AppendItem, Writes, AtStep
<1>2. Owns(This)
  BY <1>1, ThisIs
<1>3. PICK D : This \in Frames(D)
  BY <1>1, ThisIs
<1>4. FieldAt(This) = Field
  BY DEF FieldAt, Field
<1>5. ASSUME Becomes([This EXCEPT !.items = Append(@, This.value), !.own["value"] = "given", !.step = "items"]),
            Succeeds, Continues
     PROVE  MInv'
  <2> DEFINE f == [This EXCEPT !.items = Append(@, This.value), !.own["value"] = "given", !.step = "items"]
  <2>1. ASSUME NEW E, This \in Frames(E) PROVE f \in Frames(E)
    <3> DEFINE q == Append(This.items, This.value)
    <3>1. q \in Seq(E)
      BY <2>1 DEF Frames
    <3> HIDE DEF q
    <3>2. [This EXCEPT !.items = q, !.own["value"] = "given", !.step = "items"] \in Frames(E)
      BY <2>1, <3>1 DEF Frames, Owners, Locals, Marks, Steps
    <3> QED BY <3>2 DEF q
  <2>2. /\ f.step = "items" /\ f.at = This.at /\ f.node = This.node
        /\ \A l \in Owners : f.own[l] = IF l = "value" THEN "given" ELSE This.own[l]
    BY <1>1, <1>3 DEF Frames, Holds, Owners, Locals
  <2>3. phase' = phase /\ hollow' = hollow /\ Becomes(f)
    BY <1>5 DEF Continues
  <2> HIDE DEF f
  <2>4. Owns(f) /\ f.step # "calling"
    BY <1>1, <1>2, <1>4, <2>2, <1>5
       DEF Owns, Owners, Locals, HoldsList, FieldAt, Strings, Children, Lists
  <2>5. Typed' /\ Waiting'
    BY <1>1, <2>1, <2>3, <2>4, GoesOn
  <2> QED BY <1>5, <2>3, <2>5, SucceedsIsClean DEF MInv
<1>6. ASSUME GivesUp({"map", "list", "value"})
     PROVE  MInv'
  BY <1>1, <1>6, FailsAtAppend DEF MInv, Clean
<1> QED BY <1>4, <1>5, <1>6 DEF AppendItem, Writes

\* the element that is called for is the innermost now
LEMMA CallsHolds ==
  ASSUME MInv, phase = "marshalling", NEW n, Calls(n), Owns([This EXCEPT !.step = "calling"])
  PROVE  MInv'
<1>1. PICK D : stack \in Seq(Frames(D)) /\ This \in Frames(D)
  BY ThisIs
<1> DEFINE E == D \cup {n, NULL, <<>>}
           A == Frames(E)
           f == [This EXCEPT !.step = "calling"]
           g == FrameFor(n)
           t == [stack EXCEPT ![Len(stack)] = f]
<1>2. stack \in Seq(A)
  <2>1. D \subseteq E
    OBVIOUS
  <2> HIDE DEF E
  <2> QED BY <1>1, <2>1, FramesGrow
<1>3. This \in A
  BY <1>1 DEF Frames
<1>4. f \in A /\ f.step = "calling"
  BY <1>3 DEF Frames, Steps
<1>5. g \in A /\ g.step = "map" /\ Owns(g)
  BY DEF FrameFor, Frames, NothingOwned, Owners, Locals, Marks, Steps, Owns, HoldsList
<1>6. stack' = Append(t, g)
  BY DEF Calls, This
<1>7. stack # <<>> /\ Len(stack) \in Nat \ {0}
  BY ThisIs
<1> HIDE DEF A, f, g, t
<1>8. /\ t \in Seq(A) /\ Len(t) = Len(stack) /\ t[Len(t)] = f
      /\ \A k \in 1 .. Len(stack) - 1 : t[k] = stack[k]
  BY <1>2, <1>4, <1>7, LastChanges DEF t
<1>9. /\ stack' \in Seq(A) /\ Len(stack') = Len(t) + 1 /\ stack' # <<>>
      /\ stack'[Len(stack')] = g
      /\ \A k \in 1 .. Len(t) : stack'[k] = t[k]
  BY <1>5, <1>6, <1>8, Pushed
<1>10. Typed'
  BY <1>9 DEF A, Typed
<1>11. ASSUME NEW k \in 1 .. Len(stack') - 1
       PROVE  stack'[k].step = "calling" /\ Owns(stack'[k])
  <2>1. k \in 1 .. Len(stack) /\ stack'[k] = t[k]
    BY <1>7, <1>8, <1>9
  <2>2. CASE k = Len(stack)
    <3>1. stack'[k] = f
      BY <1>8, <2>1, <2>2
    <3>2. Owns(f)
      BY DEF f
    <3> QED BY <1>4, <3>1, <3>2
  <2>3. CASE k # Len(stack)
    <3>1. k \in 1 .. Len(stack) - 1
      BY <1>7, <2>1, <2>3
    <3>2. stack'[k] = stack[k]
      BY <1>8, <2>1, <3>1
    <3> QED BY <2>1, <3>1, <3>2 DEF MInv, Waiting
  <2> QED BY <2>2, <2>3
<1>12. \A k \in 1 .. Len(stack') : Owns(stack'[k])
  <2> SUFFICES ASSUME NEW k \in 1 .. Len(stack') PROVE Owns(stack'[k])
    OBVIOUS
  <2>1. CASE k = Len(stack')
    BY <1>5, <1>9, <2>1
  <2>2. CASE k # Len(stack')
    <3>1. k \in 1 .. Len(stack') - 1
      BY <1>7, <1>8, <1>9, <2>2
    <3> QED BY <1>11, <3>1
  <2> QED BY <2>1, <2>2
<1>13. phase' = phase /\ hollow' = hollow /\ Succeeds
  BY DEF Calls, Continues
<1>14. Waiting'
  BY <1>5, <1>9, <1>11, <1>12, <1>13 DEF Waiting, This
<1> QED BY <1>10, <1>13, <1>14, SucceedsIsClean DEF MInv

LEMMA MarshalElementHolds == ASSUME MInv, MarshalElement PROVE MInv'
<1>1. phase = "marshalling" /\ This.step = "items" /\ Field \in Lists /\ FieldAt(This) = Field
  BY DEF MarshalElement, Writes, AtStep, FieldAt, Field
<1>2. Owns(This)
  BY <1>1, ThisIs
<1>3. PICK D : This \in Frames(D)
  BY <1>1, ThisIs
<1> DEFINE f == [This EXCEPT !.step = "calling"]
<1>4. f.step = "calling" /\ f.at = This.at /\ f.node = This.node /\ f.own = This.own
  BY <1>3 DEF Frames
<1> HIDE DEF f
<1>5. Owns(f)
  BY <1>1, <1>2, <1>4 DEF Owns, HoldsList, FieldAt
<1> QED BY <1>1, <1>5, CallsHolds DEF MarshalElement, f

LEMMA MarshalChildHolds == ASSUME MInv, MarshalChild PROVE MInv'
<1>1. phase = "marshalling" /\ This.step = "field" /\ Field \in Children /\ FieldAt(This) = Field
  BY DEF MarshalChild, Writes, AtStep, FieldAt, Field
<1>2. Owns(This)
  BY <1>1, ThisIs
<1>3. PICK D : This \in Frames(D)
  BY <1>1, ThisIs
<1> DEFINE f == [This EXCEPT !.step = "calling"]
<1>4. f.step = "calling" /\ f.at = This.at /\ f.node = This.node /\ f.own = This.own
  BY <1>3 DEF Frames
<1> HIDE DEF f
<1>5. Owns(f)
  BY <1>1, <1>2, <1>4 DEF Owns, HoldsList, FieldAt, Lists, Children
<1> QED BY <1>1, <1>5, CallsHolds DEF MarshalChild, f

-----------------------------------------------------------------------------
(* A pair for the map.                                                     *)

LEMMA PairIsOwned ==
  ASSUME MInv, AtStep("put"), NEW v, Becomes(Pairs(v)), phase' = phase
  PROVE  Typed' /\ Waiting'
<1>1. phase = "marshalling" /\ This.step = "put" /\ FieldAt(This) = Field
  BY DEF AtStep, FieldAt, Field
<1>2. Owns(This)
  BY <1>1, ThisIs
<1>3. PICK D : This \in Frames(D)
  BY <1>1, ThisIs
<1> DEFINE f == Pairs(v)
           p == Append(This.pairs, <<Field, v>>)
<1>4. ASSUME NEW E, This \in Frames(E), p \in E
      PROVE  f \in Frames(E)
  <2> DEFINE o == [This.own EXCEPT !["key"] = "given"]
             w == [o EXCEPT ![Subject] = IF This.own[Subject] = "own" THEN "given"
                                         ELSE This.own[Subject]]
  <2>1. o \in [Owners -> Marks] /\ Subject \in Owners
    BY <1>4 DEF Frames, Marks, Subject, Owners, Locals
  <2>2. This.own[Subject] \in Marks
    BY <1>4, <2>1 DEF Frames
  <2>3. w \in [Owners -> Marks]
    <3> HIDE DEF o
    <3> QED BY <2>1, <2>2 DEF Marks
  <2> DEFINE next == This.at + 1
             g == [This EXCEPT !.own = w, !.at = next, !.step = "field"]
  <2>4. Given(This) = g
    BY <1>4 DEF Frames, Given
  <2>5. g \in Frames(E) /\ g.pairs = This.pairs
    <3>1. next \in Nat \ {0}
      BY <1>4 DEF Frames
    <3>2. This \in Frames(E)
      BY <1>4
    <3> HIDE DEF w, next, o, p, f
    <3> QED BY <2>3, <3>1, <3>2 DEF Frames, Steps
  <2> HIDE DEF g
  <2> QED BY <1>4, <2>4, <2>5 DEF Frames, Pairs
<1>5. /\ f.step = "field"
      /\ \A l \in Owners : f.own[l] = IF l = Subject /\ This.own[l] = "own" THEN "given"
                                      ELSE IF l = "key" THEN "given" ELSE This.own[l]
  BY <1>3 DEF Frames, Pairs, Given, Subject, Owners, Locals
<1> HIDE DEF f, p
<1>6. Owns(f) /\ f.step # "calling"
  BY <1>1, <1>2, <1>5 DEF Owns, Owners, Locals, HoldsList, Subject
<1>7. Becomes(f)
  BY DEF f
<1> QED BY <1>1, <1>4, <1>6, <1>7, GoesOn

LEMMA PutPairHolds == ASSUME MInv, PutPair PROVE MInv'
<1>1. AtStep("put") /\ phase' = phase
  BY DEF PutPair, Continues
<1>2. CASE Becomes(Pairs(Document)) /\ Succeeds /\ Continues
  BY <1>1, <1>2, PairIsOwned, SucceedsIsClean DEF Continues, MInv
<1>3. CASE Becomes(Pairs(NullObject)) /\ Succeeds /\ Continues
  BY <1>1, <1>3, PairIsOwned, SucceedsIsClean DEF Continues, MInv
<1>4. CASE Becomes(Pairs(NULL)) /\ hollow' = TRUE /\ Starves
  <2>1. hollow' \in BOOLEAN
    BY <1>4
  <2> QED BY <1>1, <1>4, <2>1, PairIsOwned, StarvesIsClean DEF MInv
<1> QED BY <1>2, <1>3, <1>4 DEF PutPair

LEMMA FailsAtPut ==
  ASSUME MInv, AtStep("put"), NEW f, NEW less \in BOOLEAN, less,
         Exit(f, {"map", "key", Subject}, less),
         f.own["key"] # "given",
         \A l \in {"map", "list", "value"} : f.own[l] = This.own[l]
  PROVE  MInv'
<1>1. phase = "marshalling" /\ This.step = "put" /\ FieldAt(This) = Field
  BY DEF AtStep, FieldAt, Field
<1>2. Owns(This)
  BY <1>1, ThisIs
<1> DEFINE S == {"map", "key", Subject}
<1>3. \A l \in S : f.own[l] # "given"
  BY <1>1, <1>2 DEF Owns, HoldsList, Subject
<1>4. \A l \in Locals : f.own[l] = "own" => l \in S
  BY <1>1, <1>2 DEF Owns, HoldsList, Subject, Locals
<1> QED BY <1>1, <1>3, <1>4, FailsWell

LEMMA KeyFailsHolds == ASSUME MInv, KeyFails PROVE MInv'
<1>1. AtStep("put") /\ phase = "marshalling"
  BY DEF KeyFails, AtStep
<1>2. PICK D : This \in Frames(D)
  BY <1>1, ThisIs
<1> DEFINE f == [This EXCEPT !.own["key"] = "none"]
<1>3. f.own["key"] # "given" /\ \A l \in {"map", "list", "value"} : f.own[l] = This.own[l]
  BY <1>2 DEF Frames, Owners, Locals
<1>4. PICK less \in BOOLEAN : less = TRUE
  OBVIOUS
<1>5. Exit(f, {"map", "key", Subject}, less) /\ less
  BY <1>4 DEF KeyFails
<1> HIDE DEF f
<1> QED BY <1>1, <1>3, <1>5, FailsAtPut

LEMMA AddFailsHolds == ASSUME MInv, AddFails PROVE MInv'
<1>1. AtStep("put") /\ phase = "marshalling"
  BY DEF AddFails, AtStep
<1>2. PICK D : This \in Frames(D)
  BY <1>1, ThisIs
<1> DEFINE f == Holds(This, "key")
<1>3. f.own["key"] # "given" /\ \A l \in {"map", "list", "value"} : f.own[l] = This.own[l]
  BY <1>2 DEF Frames, Owners, Locals, Holds
<1>4. PICK less \in BOOLEAN : less = TRUE
  OBVIOUS
<1>5. Exit(f, {"map", "key", Subject}, less) /\ less
  BY <1>4 DEF AddFails
<1> HIDE DEF f
<1> QED BY <1>1, <1>3, <1>5, FailsAtPut

LEMMA NullLostHolds == ASSUME MInv, NullLost PROVE MInv'
<1>1. AtStep("put") /\ phase = "marshalling"
  BY DEF NullLost, AtStep
<1>2. PICK D : This \in Frames(D)
  BY <1>1, ThisIs
<1> DEFINE f == Holds(Holds(This, "key"), "null")
<1>3. f.own["key"] # "given" /\ \A l \in {"map", "list", "value"} : f.own[l] = This.own[l]
  BY <1>2 DEF Frames, Owners, Locals, Holds
<1>4. PICK less \in BOOLEAN : less = TRUE
  OBVIOUS
<1>5. Exit(f, {"map", "key", Subject}, less) /\ less
  BY <1>4 DEF NullLost
<1> HIDE DEF f
<1> QED BY <1>1, <1>3, <1>5, FailsAtPut

-----------------------------------------------------------------------------
(* Returning, failing, and the call itself.                                *)

LEMMA UnwindHolds == ASSUME MInv, CallerFails PROVE MInv'
<1> DEFINE S == IF Field \in Lists THEN {"map", "list"} ELSE {"map"}
<1>1. /\ phase = "failing" /\ This.step = "calling" /\ FieldAt(This) = Field
      /\ Exit(This, S, starved)
  BY DEF CallerFails, MInv, Waiting, FieldAt, Field
<1>2. Owns(This)
  BY <1>1, ThisIs
<1>3. \A l \in S : This.own[l] # "given"
  BY <1>1, <1>2 DEF Owns, HoldsList
<1>4. /\ \A l \in Locals : This.own[l] = "own" => l \in S
      /\ This.own["null"] # "own"
  BY <1>1, <1>2 DEF Owns, HoldsList, Locals
<1>5. starved \in BOOLEAN
  BY DEF MInv, Clean
<1> HIDE DEF S
<1> QED BY <1>1, <1>3, <1>4, <1>5, FailsWell

LEMMA ReturnHolds == ASSUME MInv, Return PROVE MInv'
<1> DEFINE doc    == MapOf(This.node.kind, This.pairs)
           n      == Len(stack) - 1
           caller == stack[n]
           f      == [Holds(caller, "value") EXCEPT !.value = doc,
                        !.step = IF FieldAt(caller) \in Lists THEN "append" ELSE "put"]
<1>1. phase = "marshalling" /\ hollow' = hollow /\ Succeeds
  BY DEF Return, AtStep
<1>2. Len(stack) \in Nat \ {0} /\ stack # <<>>
  BY <1>1, ThisIs
<1>3. Clean'
  BY <1>1, SucceedsIsClean
<1>4. CASE stack' = <<>> /\ phase' = "built"
  <2>1. stack' \in Seq(Frames({}))
    BY <1>4
  <2> QED BY <1>3, <1>4, <2>1 DEF MInv, Typed, Waiting
<1>5. CASE Len(stack) > 1 /\ stack' = [Callers EXCEPT ![Len(Callers)] = f] /\ phase' = phase
  <2>1. PICK D : stack \in Seq(Frames(D))
    BY DEF MInv, Typed
  <2> DEFINE E == D \cup {doc}
             A == Frames(E)
  <2>2. stack \in Seq(A)
    <3>1. D \subseteq E
      OBVIOUS
    <3> HIDE DEF E
    <3> QED BY <2>1, <3>1, FramesGrow
  <2>3. n \in 1 .. Len(stack) /\ n \in 1 .. Len(stack) - 1
    BY <1>2, <1>5
  <2>4. caller \in A
    <3> HIDE DEF A
    <3> QED BY <2>2, <2>3
  <2>5. Owns(caller) /\ caller.step = "calling"
    BY <2>3 DEF MInv, Waiting
  <2>6. f \in A
    BY <2>4 DEF Frames, Holds, Marks, Steps, Owners, Locals
  <2>7. /\ f.step = IF FieldAt(caller) \in Lists THEN "append" ELSE "put"
        /\ f.at = caller.at /\ f.node = caller.node
        /\ \A l \in Owners : f.own[l] = IF l = "value" THEN "own" ELSE caller.own[l]
    BY <2>4 DEF Frames, Holds, Owners, Locals
  <2> HIDE DEF caller, f
  <2>8. Owns(f) /\ f.step # "calling"
    BY <2>5, <2>7 DEF Owns, HoldsList, FieldAt, Owners, Locals
  <2> HIDE DEF A, n
  <2>9. /\ Callers \in Seq(A) /\ Len(Callers) = n
        /\ \A k \in 1 .. n : Callers[k] = stack[k]
    BY <1>2, <2>2, FrontIs DEF Callers, n
  <2>10. Callers # <<>>
    BY <2>3, <2>9, LengthIs
  <2>11. /\ stack' \in Seq(A) /\ Len(stack') = n /\ stack' # <<>>
         /\ stack'[n] = f
         /\ \A k \in 1 .. n - 1 : stack'[k] = Callers[k]
    BY <1>5, <2>6, <2>9, <2>10, LastChanges
  <2>12. Typed'
    BY <2>11 DEF A, Typed
  <2>13. ASSUME NEW k \in 1 .. n - 1
         PROVE  stack'[k].step = "calling" /\ Owns(stack'[k])
    <3>1. k \in 1 .. n /\ k \in 1 .. Len(stack) /\ k \in 1 .. Len(stack) - 1
      BY <1>2, <2>3 DEF n
    <3> QED BY <2>9, <2>11, <3>1 DEF MInv, Waiting
  <2>14. \A k \in 1 .. n : Owns(stack'[k])
    <3> SUFFICES ASSUME NEW k \in 1 .. n PROVE Owns(stack'[k])
      OBVIOUS
    <3>1. CASE k = n
      BY <2>8, <2>11, <3>1
    <3>2. CASE k # n
      <4>1. k \in 1 .. n - 1
        BY <1>2, <2>3, <3>2 DEF n
      <4> QED BY <2>13, <4>1
    <3> QED BY <3>1, <3>2
  <2>15. Waiting'
    BY <1>1, <1>5, <2>8, <2>11, <2>13, <2>14 DEF Waiting, This
  <2> QED BY <1>3, <2>12, <2>15 DEF MInv
<1> QED BY <1>4, <1>5 DEF Return, FieldAt

LEMMA StartHolds == ASSUME MInv, fault = "none", NEW r, Start(r) PROVE MInv'
<1> DEFINE g == FrameFor(r)
           E == {r, NULL, <<>>}
<1>1. g \in Frames(E) /\ g.step = "map" /\ Owns(g)
  BY DEF FrameFor, Frames, NothingOwned, Owners, Locals, Marks, Steps, Owns, HoldsList
<1>2. stack' = <<g>> /\ phase' = "marshalling"
  BY DEF Start
<1> HIDE DEF g, E
<1>3. Typed'
  <2> DEFINE A == Frames(E)
  <2>1. g \in A
    BY <1>1
  <2> HIDE DEF A
  <2>2. stack' \in Seq(A)
    BY <1>2, <2>1
  <2> QED BY <2>2 DEF A, Typed
<1>4. Waiting'
  BY <1>1, <1>2 DEF Waiting, This
<1>5. Clean'
  BY DEF Start, Clean, LocalsReleased
<1> QED BY <1>3, <1>4, <1>5 DEF MInv

LEMMA SerializeHolds == ASSUME MInv, fault = "none", Serialize PROVE MInv'
<1>1. stack = <<>> /\ stack' = stack /\ hollow' = hollow /\ phase' \in {"sent", "failed"}
  BY DEF Serialize, MInv, Waiting
<1>2. Typed' /\ Waiting'
  BY <1>1 DEF MInv, Typed, Waiting
<1>3. /\ leaks' = leaks \/ (leaks' = leaks \cup {"content"} /\ starved')
      /\ fault' = "none" \/ (fault' = "null_array" /\ starved')
      /\ starved' = starved \/ starved' = TRUE
  BY DEF Serialize, Destroys
<1>4. Clean'
  <2>1. LocalsReleased'
    BY <1>3 DEF MInv, Clean, LocalsReleased, Locals
  <2>2. starved' \in BOOLEAN /\ hollow' \in BOOLEAN
    BY <1>1, <1>3 DEF MInv, Clean
  <2>3. leaks # {} \/ fault # "none" \/ hollow => starved
    BY DEF MInv, Clean
  <2>4. starved => starved'
    BY <1>3
  <2>5. leaks' # {} \/ fault' # "none" \/ hollow' => starved'
    BY <1>1, <1>3, <2>3, <2>4
  <2> QED BY <2>1, <2>2, <2>5 DEF Clean
<1> QED BY <1>2, <1>4 DEF MInv

LEMMA MInvHolds == MSpec => []MInv
<1>1. MInit => MInv
  <2> SUFFICES ASSUME MInit PROVE MInv
    OBVIOUS
  <2>1. stack \in Seq(Frames({}))
    BY DEF MInit
  <2>2. Typed
    BY <2>1 DEF Typed
  <2>3. Waiting
    BY DEF MInit, Waiting
  <2>4. Clean
    BY DEF MInit, Clean, LocalsReleased
  <2> QED BY <2>2, <2>3, <2>4 DEF MInv
<1>2. MInv /\ [MNext]_mvars => MInv'
  <2> SUFFICES ASSUME MInv, [MNext]_mvars PROVE MInv'
    OBVIOUS
  <2>1. CASE UNCHANGED mvars
    BY <2>1 DEF mvars, MInv, Typed, Waiting, Clean, LocalsReleased, This
  <2>2. CASE MStep
    BY <2>2, CreateMapHolds, SkipOptionalHolds, MissingIdHolds, CreateStringHolds,
       CreateListHolds, CreateElementHolds, MarshalElementHolds, MarshalChildHolds,
       MarshalNullHolds, AppendItemHolds, EndOfItemsHolds, PutPairHolds, KeyFailsHolds,
       AddFailsHolds, NullLostHolds, ReturnHolds, UnwindHolds, SerializeHolds DEF MStep
  <2>3. CASE fault = "none" /\ \E r \in Requests : Start(r)
    BY <2>3, StartHolds
  <2> QED BY <2>1, <2>2, <2>3 DEF MNext
<1> QED BY <1>1, <1>2, PTL DEF MSpec

-----------------------------------------------------------------------------
(* Which request fails.                                                    *)

IsSequence(s) == Len(s) \in Nat /\ DOMAIN s = 1 .. Len(s)

\* what has attributes
Holders(r) == Elements(r.subjects) \cup Elements(r.resources) \cup ({r.action, r.environment} \ {NULL})
HolderKinds == {"subject", "resource", "action", "environment"}

\* the struct types of the XACML objects
WellFormed(r) ==
  /\ r.kind = "request"
  /\ IsSequence(r.subjects) /\ IsSequence(r.resources)
  /\ \A n \in Holders(r) : n.kind \in HolderKinds /\ IsSequence(n.attributes)
  /\ \A a \in AttributesOf(r) : a.kind = "attribute" /\ IsSequence(a.values)

PartOf(n, r) == n = r \/ n \in Holders(r) \/ n \in AttributesOf(r)

\* each call is for a part of the request, and fails for one of two reasons
NInv ==
  /\ stack # <<>> => request \in Requests
  /\ \A k \in 1 .. Len(stack) : PartOf(stack[k].node, request)
  /\ phase \in {"failing", "failed"} => starved \/ HasNamelessAttribute(request)

LEMMA AttributesAre ==
  ASSUME NEW r
  PROVE  AttributesOf(r) = UNION {Elements(n.attributes) : n \in Holders(r)}
BY DEF AttributesOf, Holders, Elements

LEMMA ThisNode ==
  ASSUME MInv, NInv, phase \in {"marshalling", "failing"},
         \A r \in Requests : WellFormed(r)
  PROVE  WellFormed(request) /\ PartOf(This.node, request)
<1>1. stack # <<>> /\ Len(stack) \in 1 .. Len(stack)
  BY ThisIs
<1> QED BY <1>1 DEF NInv, This

\* the fields of each kind of node
LEMMA FieldKinds ==
  ASSUME MInv, NInv, phase = "marshalling", \A r \in Requests : WellFormed(r),
         This.at <= Len(FieldsOf(This.node.kind))
  PROVE  /\ This.node = request => Field \in {"subjects", "resources", "action", "environment"}
         /\ This.node \in Holders(request) => Field \in {"category", "content", "attributes"}
         /\ This.node \in AttributesOf(request) => Field \in {"id", "datatype", "issuer", "values"}
<1>1. PICK D : This \in Frames(D)
  BY ThisIs
<1> DEFINE i == This.at
           kind == This.node.kind
<1>2. i \in Nat \ {0}
  BY <1>1 DEF Frames
<1>3. WellFormed(request)
  BY ThisNode
<1> HIDE DEF i, kind
<1>4. Field = FieldsOf(kind)[i] /\ i <= Len(FieldsOf(kind))
  BY DEF Field, i, kind
<1>5. ASSUME kind = "request" PROVE Field \in {"subjects", "resources", "action", "environment"}
  <2>1. FieldsOf(kind) = <<"subjects", "resources", "action", "environment">>
    BY <1>5 DEF FieldsOf, RequestFields
  <2>2. i \in {1, 2, 3, 4}
    BY <1>2, <1>4, <2>1
  <2> QED BY <1>4, <2>1, <2>2
<1>6. ASSUME kind = "attribute" PROVE Field \in {"id", "datatype", "issuer", "values"}
  <2>1. FieldsOf(kind) = <<"id", "datatype", "issuer", "values">>
    BY <1>6 DEF FieldsOf, AttributeFields
  <2>2. i \in {1, 2, 3, 4}
    BY <1>2, <1>4, <2>1
  <2> QED BY <1>4, <2>1, <2>2
<1>7. ASSUME kind \in HolderKinds PROVE Field \in {"category", "content", "attributes"}
  <2>1. \/ FieldsOf(kind) = <<"category", "attributes">>
        \/ FieldsOf(kind) = <<"content", "attributes">>
        \/ FieldsOf(kind) = <<"attributes">>
    BY <1>7
       DEF HolderKinds, FieldsOf, SubjectFields, ResourceFields, ActionFields, EnvironmentFields
  <2>2. i \in {1, 2}
    BY <1>2, <1>4, <2>1
  <2> QED BY <1>2, <1>4, <2>1, <2>2
<1>8. kind = This.node.kind
  BY DEF kind
<1> QED BY <1>3, <1>5, <1>6, <1>7, <1>8 DEF WellFormed

\* the call goes on, and is for the same node
LEMMA SameNode ==
  ASSUME MInv, NInv, phase = "marshalling", NEW f, Becomes(f), f.node = This.node,
         phase' = phase, request' = request
  PROVE  NInv'
<1>1. PICK D : stack \in Seq(Frames(D))
  BY DEF MInv, Typed
<1> DEFINE A == Frames(D) \cup {f}
<1>2. stack # <<>> /\ Len(stack) \in Nat \ {0} /\ f \in A
  BY ThisIs
<1>3. stack \in Seq(A)
  <2> DEFINE B == Frames(D)
  <2>1. stack \in Seq(B) /\ B \subseteq A
    BY <1>1
  <2> HIDE DEF A, B
  <2> QED BY <2>1
<1> HIDE DEF A
<1>4. /\ Len(stack') = Len(stack) /\ stack'[Len(stack')] = f
      /\ \A k \in 1 .. Len(stack) - 1 : stack'[k] = stack[k]
  BY <1>2, <1>3, LastChanges DEF Becomes
<1>5. ASSUME NEW k \in 1 .. Len(stack') PROVE PartOf(stack'[k].node, request)
  <2>1. CASE k = Len(stack')
    <3>1. k \in 1 .. Len(stack) /\ stack[k] = This
      BY <1>4, <2>1 DEF This
    <3> QED BY <1>4, <2>1, <3>1 DEF NInv
  <2>2. CASE k # Len(stack')
    <3>1. k \in 1 .. Len(stack) - 1 /\ k \in 1 .. Len(stack)
      BY <1>2, <1>4, <2>2
    <3> QED BY <1>4, <3>1 DEF NInv
  <2> QED BY <2>1, <2>2
<1>6. request \in Requests
  BY <1>2 DEF NInv
<1> QED BY <1>5, <1>6 DEF NInv

LEMMA ExitNodes ==
  ASSUME MInv, NInv, phase \in {"marshalling", "failing"},
         NEW f, NEW S, NEW less \in BOOLEAN, Exit(f, S, less),
         less \/ HasNamelessAttribute(request)
  PROVE  NInv'
<1>1. PICK D : stack \in Seq(Frames(D))
  BY DEF MInv, Typed
<1> DEFINE A == Frames(D)
<1>2. stack \in Seq(A) /\ stack # <<>> /\ Len(stack) \in Nat \ {0}
  BY <1>1, ThisIs
<1> HIDE DEF A
<1>3. Len(stack') = Len(stack) - 1 /\ \A k \in 1 .. Len(stack) - 1 : stack'[k] = stack[k]
  BY <1>2, FrontIs DEF Exit, Callers
<1>4. request' = request /\ request \in Requests
  BY <1>2 DEF Exit, NInv
<1>5. ASSUME NEW k \in 1 .. Len(stack') PROVE PartOf(stack'[k].node, request)
  <2>1. k \in 1 .. Len(stack) - 1 /\ k \in 1 .. Len(stack)
    BY <1>2, <1>3
  <2> QED BY <1>3, <2>1 DEF NInv
<1>6. starved' = less \/ starved' = TRUE
  BY DEF Exit, Destroys
<1> QED BY <1>4, <1>5, <1>6 DEF NInv

LEMMA ExitStarved ==
  ASSUME MInv, NInv, phase = "marshalling", NEW f, NEW S, NEW less \in BOOLEAN,
         less, Exit(f, S, less)
  PROVE  NInv'
BY ExitNodes

LEMMA GivesUpNodes ==
  ASSUME MInv, NInv, phase = "marshalling", NEW S, GivesUp(S)
  PROVE  NInv'
<1>1. PICK less \in BOOLEAN : less = TRUE
  OBVIOUS
<1>2. Exit(This, S, less) /\ less
  BY <1>1 DEF GivesUp
<1> QED BY <1>2, ExitStarved

LEMMA CreateMapNodes == ASSUME MInv, NInv, CreateMap PROVE NInv'
<1>1. phase = "marshalling"
  BY DEF CreateMap, Writes, AtStep
<1>2. PICK D : This \in Frames(D)
  BY <1>1, ThisIs
<1>3. CASE Becomes([Holds(This, "map") EXCEPT !.step = "field"]) /\ Continues
  <2> DEFINE f == [Holds(This, "map") EXCEPT !.step = "field"]
  <2>1. f.node = This.node
    BY <1>2 DEF Frames, Holds, Owners, Locals
  <2> HIDE DEF f
  <2>2. Becomes(f) /\ phase' = phase /\ request' = request
    BY <1>3 DEF f, Continues
  <2> QED BY <1>1, <2>1, <2>2, SameNode
<1>4. CASE GivesUp({})
  BY <1>1, <1>4, GivesUpNodes
<1> QED BY <1>3, <1>4 DEF CreateMap

LEMMA SkipOptionalNodes == ASSUME MInv, NInv, SkipOptional PROVE NInv'
<1>1. phase = "marshalling"
  BY DEF SkipOptional, Writes, AtStep
<1>2. PICK D : This \in Frames(D)
  BY <1>1, ThisIs
<1>3. CASE Becomes([This EXCEPT !.at = @ + 1]) /\ Continues
  <2> DEFINE f == [This EXCEPT !.at = @ + 1]
  <2>1. f.node = This.node
    BY <1>2 DEF Frames, Holds, Owners, Locals
  <2> HIDE DEF f
  <2>2. Becomes(f) /\ phase' = phase /\ request' = request
    BY <1>3 DEF f, Continues
  <2> QED BY <1>1, <2>1, <2>2, SameNode
<1> QED BY <1>3 DEF SkipOptional

LEMMA CreateStringNodes == ASSUME MInv, NInv, CreateString PROVE NInv'
<1>1. phase = "marshalling"
  BY DEF CreateString, Writes, AtStep
<1>2. PICK D : This \in Frames(D)
  BY <1>1, ThisIs
<1>3. CASE Becomes([Holds(This, "value") EXCEPT !.value = StringOf(Content), !.step = "put"]) /\ Continues
  <2> DEFINE f == [Holds(This, "value") EXCEPT !.value = StringOf(Content), !.step = "put"]
  <2>1. f.node = This.node
    BY <1>2 DEF Frames, Holds, Owners, Locals
  <2> HIDE DEF f
  <2>2. Becomes(f) /\ phase' = phase /\ request' = request
    BY <1>3 DEF f, Continues
  <2> QED BY <1>1, <2>1, <2>2, SameNode
<1>4. CASE Becomes([This EXCEPT !.own["value"] = "none", !.value = NULL, !.step = "put"]) /\ Continues
  <2> DEFINE f == [This EXCEPT !.own["value"] = "none", !.value = NULL, !.step = "put"]
  <2>1. f.node = This.node
    BY <1>2 DEF Frames, Holds, Owners, Locals
  <2> HIDE DEF f
  <2>2. Becomes(f) /\ phase' = phase /\ request' = request
    BY <1>4 DEF f, Continues
  <2> QED BY <1>1, <2>1, <2>2, SameNode
<1>5. CASE GivesUp({"map"})
  BY <1>1, <1>5, GivesUpNodes
<1> QED BY <1>3, <1>4, <1>5 DEF CreateString

LEMMA CreateListNodes == ASSUME MInv, NInv, CreateList PROVE NInv'
<1>1. phase = "marshalling"
  BY DEF CreateList, Writes, AtStep
<1>2. PICK D : This \in Frames(D)
  BY <1>1, ThisIs
<1>3. CASE Becomes([Holds(This, "list") EXCEPT !.items = <<>>, !.step = "items"]) /\ Continues
  <2> DEFINE f == [Holds(This, "list") EXCEPT !.items = <<>>, !.step = "items"]
  <2>1. f.node = This.node
    BY <1>2 DEF Frames, Holds, Owners, Locals
  <2> HIDE DEF f
  <2>2. Becomes(f) /\ phase' = phase /\ request' = request
    BY <1>3 DEF f, Continues
  <2> QED BY <1>1, <2>1, <2>2, SameNode
<1>4. CASE GivesUp({"map"})
  BY <1>1, <1>4, GivesUpNodes
<1> QED BY <1>3, <1>4 DEF CreateList

LEMMA CreateElementNodes == ASSUME MInv, NInv, CreateElement PROVE NInv'
<1>1. phase = "marshalling"
  BY DEF CreateElement, Writes, AtStep
<1>2. PICK D : This \in Frames(D)
  BY <1>1, ThisIs
<1>3. CASE Becomes([Holds(This, "value") EXCEPT !.value = StringOf(NextItem), !.step = "append"]) /\ Continues
  <2> DEFINE f == [Holds(This, "value") EXCEPT !.value = StringOf(NextItem), !.step = "append"]
  <2>1. f.node = This.node
    BY <1>2 DEF Frames, Holds, Owners, Locals
  <2> HIDE DEF f
  <2>2. Becomes(f) /\ phase' = phase /\ request' = request
    BY <1>3 DEF f, Continues
  <2> QED BY <1>1, <2>1, <2>2, SameNode
<1>4. CASE GivesUp({"map", "list"})
  BY <1>1, <1>4, GivesUpNodes
<1> QED BY <1>3, <1>4 DEF CreateElement

LEMMA MarshalNullNodes == ASSUME MInv, NInv, MarshalNull PROVE NInv'
<1>1. phase = "marshalling"
  BY DEF MarshalNull, Writes, AtStep
<1>2. PICK D : This \in Frames(D)
  BY <1>1, ThisIs
<1>3. CASE Becomes([Holds(This, "value") EXCEPT !.value = NullObject, !.step = "put"]) /\ Continues
  <2> DEFINE f == [Holds(This, "value") EXCEPT !.value = NullObject, !.step = "put"]
  <2>1. f.node = This.node
    BY <1>2 DEF Frames, Holds, Owners, Locals
  <2> HIDE DEF f
  <2>2. Becomes(f) /\ phase' = phase /\ request' = request
    BY <1>3 DEF f, Continues
  <2> QED BY <1>1, <2>1, <2>2, SameNode
<1>4. CASE GivesUp({"map"})
  BY <1>1, <1>4, GivesUpNodes
<1> QED BY <1>3, <1>4 DEF MarshalNull

LEMMA EndOfItemsNodes == ASSUME MInv, NInv, EndOfItems PROVE NInv'
<1>1. phase = "marshalling"
  BY DEF EndOfItems, Writes, AtStep
<1>2. PICK D : This \in Frames(D)
  BY <1>1, ThisIs
<1>3. CASE Becomes([This EXCEPT !.step = "put"]) /\ Continues
  <2> DEFINE f == [This EXCEPT !.step = "put"]
  <2>1. f.node = This.node
    BY <1>2 DEF Frames, Holds, Owners, Locals
  <2> HIDE DEF f
  <2>2. Becomes(f) /\ phase' = phase /\ request' = request
    BY <1>3 DEF f, Continues
  <2> QED BY <1>1, <2>1, <2>2, SameNode
<1> QED BY <1>3 DEF EndOfItems

LEMMA AppendItemNodes == ASSUME MInv, NInv, AppendItem PROVE NInv'
<1>1. phase = "marshalling"
  BY DEF AppendItem, Writes, AtStep
<1>2. PICK D : This \in Frames(D)
  BY <1>1, ThisIs
<1>3. CASE Becomes([This EXCEPT !.items = Append(@, This.value), !.own["value"] = "given", !.step = "items"]) /\ Continues
  <2> DEFINE f == [This EXCEPT !.items = Append(@, This.value), !.own["value"] = "given", !.step = "items"]
  <2>1. f.node = This.node
    BY <1>2 DEF Frames, Holds, Owners, Locals
  <2> HIDE DEF f
  <2>2. Becomes(f) /\ phase' = phase /\ request' = request
    BY <1>3 DEF f, Continues
  <2> QED BY <1>1, <2>1, <2>2, SameNode
<1>4. CASE GivesUp({"map", "list", "value"})
  BY <1>1, <1>4, GivesUpNodes
<1> QED BY <1>3, <1>4 DEF AppendItem

LEMMA PairNodes ==
  ASSUME MInv, NInv, AtStep("put"), NEW v, Becomes(Pairs(v)), phase' = phase, request' = request
  PROVE  NInv'
<1>1. phase = "marshalling"
  BY DEF AtStep
<1>2. PICK D : This \in Frames(D)
  BY <1>1, ThisIs
<1> DEFINE f == Pairs(v)
<1>3. f.node = This.node
  BY <1>2 DEF Frames, Pairs, Given
<1> HIDE DEF f
<1>4. Becomes(f)
  BY DEF f
<1> QED BY <1>1, <1>3, <1>4, SameNode

LEMMA PutPairNodes == ASSUME MInv, NInv, PutPair PROVE NInv'
<1>1. AtStep("put") /\ phase' = phase /\ request' = request
  BY DEF PutPair, Continues
<1>2. \E v : Becomes(Pairs(v))
  BY DEF PutPair
<1> QED BY <1>1, <1>2, PairNodes

LEMMA KeyFailsNodes == ASSUME MInv, NInv, KeyFails PROVE NInv'
<1>1. PICK less \in BOOLEAN : less = TRUE
  OBVIOUS
<1>2. /\ phase = "marshalling" /\ less
      /\ Exit([This EXCEPT !.own["key"] = "none"], {"map", "key", Subject}, less)
  BY <1>1 DEF KeyFails, AtStep
<1> QED BY <1>2, ExitStarved

LEMMA AddFailsNodes == ASSUME MInv, NInv, AddFails PROVE NInv'
<1>1. PICK less \in BOOLEAN : less = TRUE
  OBVIOUS
<1>2. phase = "marshalling" /\ less /\ Exit(Holds(This, "key"), {"map", "key", Subject}, less)
  BY <1>1 DEF AddFails, AtStep
<1> QED BY <1>2, ExitStarved

LEMMA NullLostNodes == ASSUME MInv, NInv, NullLost PROVE NInv'
<1>1. PICK less \in BOOLEAN : less = TRUE
  OBVIOUS
<1>2. /\ phase = "marshalling" /\ less
      /\ Exit(Holds(Holds(This, "key"), "null"), {"map", "key", Subject}, less)
  BY <1>1 DEF NullLost, AtStep
<1> QED BY <1>2, ExitStarved

\* only the id of an attribute must be there
LEMMA MissingIdNodes ==
  ASSUME MInv, NInv, MissingId, \A r \in Requests : WellFormed(r)
  PROVE  NInv'
<1>1. /\ phase = "marshalling" /\ This.at <= Len(FieldsOf(This.node.kind))
      /\ Field = "id" /\ Content = NULL /\ Exit(This, {"map"}, starved)
  BY DEF MissingId, Writes, AtStep
<1>2. This.node \in AttributesOf(request)
  BY <1>1, FieldKinds, ThisNode DEF PartOf
<1>3. This.node.id = NULL
  BY <1>1 DEF Content
<1>4. HasNamelessAttribute(request)
  BY <1>2, <1>3 DEF HasNamelessAttribute
<1>5. starved \in BOOLEAN
  BY DEF MInv, Clean
<1> QED BY <1>1, <1>4, <1>5, ExitNodes

LEMMA UnwindNodes == ASSUME MInv, NInv, CallerFails PROVE NInv'
<1> DEFINE S == IF Field \in Lists THEN {"map", "list"} ELSE {"map"}
<1>1. phase = "failing" /\ Exit(This, S, starved)
  BY DEF CallerFails
<1>2. starved \in BOOLEAN /\ (starved \/ HasNamelessAttribute(request))
  BY <1>1 DEF MInv, Clean, NInv
<1> HIDE DEF S
<1> QED BY <1>1, <1>2, ExitNodes

LEMMA CallsNodes ==
  ASSUME MInv, NInv, phase = "marshalling", NEW n, Calls(n), PartOf(n, request)
  PROVE  NInv'
<1>1. PICK D : stack \in Seq(Frames(D)) /\ This \in Frames(D)
  BY ThisIs
<1> DEFINE f == [This EXCEPT !.step = "calling"]
           g == FrameFor(n)
           t == [stack EXCEPT ![Len(stack)] = f]
           A == Frames(D) \cup {f, g}
<1>2. stack # <<>> /\ Len(stack) \in Nat \ {0}
  BY ThisIs
<1>3. f.node = This.node /\ g.node = n
  BY <1>1 DEF Frames, FrameFor
<1>4. stack' = Append(t, g) /\ phase' = phase /\ request' = request
  BY DEF Calls, This, Continues
<1>5. stack \in Seq(A) /\ f \in A /\ g \in A
  <2> DEFINE B == Frames(D)
  <2>1. stack \in Seq(B) /\ B \subseteq A /\ f \in A /\ g \in A
    BY <1>1
  <2> HIDE DEF A, B, f, g
  <2> QED BY <2>1
<1> HIDE DEF A, f, g, t
<1>6. /\ t \in Seq(A) /\ Len(t) = Len(stack) /\ t[Len(t)] = f
      /\ \A k \in 1 .. Len(stack) - 1 : t[k] = stack[k]
  BY <1>2, <1>5, LastChanges DEF t
<1>7. /\ Len(stack') = Len(t) + 1 /\ stack'[Len(stack')] = g
      /\ \A k \in 1 .. Len(t) : stack'[k] = t[k]
  BY <1>4, <1>5, <1>6, Pushed
<1>8. ASSUME NEW k \in 1 .. Len(stack') PROVE PartOf(stack'[k].node, request)
  <2>1. CASE k = Len(stack')
    BY <1>3, <1>7, <2>1
  <2>2. CASE k = Len(stack)
    <3>1. k \in 1 .. Len(t) /\ stack'[k] = f /\ k \in 1 .. Len(stack) /\ stack[k] = This
      BY <1>2, <1>6, <1>7, <2>2 DEF This
    <3> QED BY <1>3, <3>1 DEF NInv
  <2>3. CASE k # Len(stack') /\ k # Len(stack)
    <3>1. k \in 1 .. Len(t) /\ k \in 1 .. Len(stack) - 1 /\ k \in 1 .. Len(stack)
      BY <1>2, <1>6, <1>7, <2>3
    <3>2. stack'[k] = stack[k]
      BY <1>6, <1>7, <3>1
    <3> QED BY <3>1, <3>2 DEF NInv
  <2> QED BY <2>1, <2>2, <2>3
<1>9. request \in Requests
  BY <1>2 DEF NInv
<1> QED BY <1>4, <1>8, <1>9 DEF NInv

LEMMA MarshalElementNodes ==
  ASSUME MInv, NInv, MarshalElement, \A r \in Requests : WellFormed(r)
  PROVE  NInv'
<1>1. /\ phase = "marshalling" /\ This.at <= Len(FieldsOf(This.node.kind))
      /\ Field \in {"attributes", "subjects", "resources"}
      /\ Content = This.node[Field] /\ Len(This.items) < Len(Content) /\ Calls(NextItem)
  BY DEF MarshalElement, Writes, AtStep, Lists, Content, More
<1>2. PICK D : This \in Frames(D)
  BY <1>1, ThisIs
<1>3. Len(This.items) \in Nat
  BY <1>2 DEF Frames
<1>4. WellFormed(request) /\ PartOf(This.node, request)
  BY <1>1, ThisNode
<1>5. ASSUME IsSequence(Content) PROVE NextItem \in Elements(Content)
  BY <1>1, <1>3, <1>5 DEF IsSequence, Elements, NextItem
<1>6. CASE This.node = request
  <2>1. Field \in {"subjects", "resources"}
    BY <1>1, <1>6, FieldKinds
  <2>2. Content = request.subjects \/ Content = request.resources
    BY <1>1, <1>6, <2>1
  <2>3. NextItem \in Holders(request)
    BY <1>4, <1>5, <2>2 DEF WellFormed, Holders
  <2> QED BY <1>1, <2>3, CallsNodes DEF PartOf
<1>7. CASE This.node \in Holders(request)
  <2>1. Field = "attributes"
    BY <1>1, <1>7, FieldKinds
  <2>2. Content = This.node.attributes
    BY <1>1, <2>1
  <2>3. NextItem \in Elements(This.node.attributes)
    BY <1>4, <1>5, <1>7, <2>2 DEF WellFormed
  <2>4. NextItem \in AttributesOf(request)
    BY <1>7, <2>3, AttributesAre
  <2> QED BY <1>1, <2>4, CallsNodes DEF PartOf
<1>8. CASE This.node \in AttributesOf(request)
  BY <1>1, <1>8, FieldKinds
<1> QED BY <1>4, <1>6, <1>7, <1>8 DEF PartOf

LEMMA MarshalChildNodes ==
  ASSUME MInv, NInv, MarshalChild, \A r \in Requests : WellFormed(r)
  PROVE  NInv'
<1>1. /\ phase = "marshalling" /\ This.at <= Len(FieldsOf(This.node.kind))
      /\ Field \in {"action", "environment"}
      /\ Content = This.node[Field] /\ Content # NULL /\ Calls(Content)
  BY DEF MarshalChild, Writes, AtStep, Children, Content
<1>2. This.node = request
  BY <1>1, FieldKinds, ThisNode DEF PartOf
<1>3. Content = request.action \/ Content = request.environment
  BY <1>1, <1>2
<1>4. Content \in Holders(request)
  BY <1>1, <1>3 DEF Holders
<1> QED BY <1>1, <1>4, CallsNodes DEF PartOf

LEMMA ReturnNodes == ASSUME MInv, NInv, Return PROVE NInv'
<1> DEFINE doc    == MapOf(This.node.kind, This.pairs)
           n      == Len(stack) - 1
           caller == stack[n]
           f      == [Holds(caller, "value") EXCEPT !.value = doc,
                        !.step = IF FieldAt(caller) \in Lists THEN "append" ELSE "put"]
<1>1. phase = "marshalling" /\ request' = request
  BY DEF Return, AtStep
<1>2. Len(stack) \in Nat \ {0} /\ stack # <<>>
  BY <1>1, ThisIs
<1>3. CASE stack' = <<>> /\ phase' = "built"
  BY <1>3 DEF NInv
<1>4. CASE Len(stack) > 1 /\ stack' = [Callers EXCEPT ![Len(Callers)] = f] /\ phase' = phase
  <2>1. PICK D : stack \in Seq(Frames(D))
    BY DEF MInv, Typed
  <2> DEFINE B == Frames(D)
             A == B \cup {f}
  <2>2. n \in 1 .. Len(stack)
    BY <1>2, <1>4
  <2>3. caller \in B
    <3>1. stack \in Seq(B)
      BY <2>1
    <3> HIDE DEF B
    <3> QED BY <2>2, <3>1
  <2>4. f.node = caller.node
    BY <2>3 DEF Frames, Holds, Owners, Locals
  <2> HIDE DEF f
  <2>5. stack \in Seq(A) /\ f \in A
    <3>1. stack \in Seq(B) /\ B \subseteq A /\ f \in A
      BY <2>1
    <3> HIDE DEF A, B
    <3> QED BY <3>1
  <2> HIDE DEF A, B, n, caller
  <2>6. /\ Callers \in Seq(A) /\ Len(Callers) = n
        /\ \A k \in 1 .. n : Callers[k] = stack[k]
    BY <1>2, <2>5, FrontIs DEF Callers, n
  <2>7. Callers # <<>>
    BY <2>2, <2>6, LengthIs
  <2>8. /\ Len(stack') = n /\ stack'[n] = f
        /\ \A k \in 1 .. n - 1 : stack'[k] = Callers[k]
    BY <1>4, <2>5, <2>6, <2>7, LastChanges
  <2>9. ASSUME NEW k \in 1 .. Len(stack') PROVE PartOf(stack'[k].node, request)
    <3>1. n \in Nat /\ k \in 1 .. n /\ k \in 1 .. Len(stack)
      BY <1>2, <2>8 DEF n
    <3>2. CASE k = n
      BY <2>2, <2>4, <2>8, <3>2 DEF NInv, caller
    <3>3. CASE k # n
      <4>1. k \in 1 .. n - 1
        BY <3>1, <3>3
      <4>2. stack'[k] = stack[k]
        BY <2>6, <2>8, <3>1, <4>1
      <4> QED BY <3>1, <4>2 DEF NInv
    <3> QED BY <3>2, <3>3
  <2>10. request \in Requests
    BY <1>2 DEF NInv
  <2> QED BY <1>1, <1>4, <2>9, <2>10 DEF NInv
<1> QED BY <1>3, <1>4 DEF Return, FieldAt

LEMMA StartNodes == ASSUME NEW r \in Requests, Start(r) PROVE NInv'
<1> DEFINE g == FrameFor(r)
<1>1. g.node = r
  BY DEF FrameFor
<1>2. stack' = <<g>> /\ phase' = "marshalling" /\ request' = r
  BY DEF Start
<1> HIDE DEF g
<1>3. Len(stack') = 1 /\ stack'[1] = g
  BY <1>2
<1> QED BY <1>1, <1>2, <1>3 DEF NInv, PartOf

LEMMA SerializeNodes == ASSUME MInv, NInv, Serialize PROVE NInv'
<1>1. stack = <<>> /\ stack' = stack
  BY DEF Serialize, MInv, Waiting
<1>2. phase' = "failed" => hollow
  BY DEF Serialize
<1>3. hollow => starved
  BY DEF MInv, Clean
<1>4. starved => starved'
  BY DEF Serialize, Destroys
<1>5. phase' \in {"sent", "failed"}
  BY DEF Serialize
<1> QED BY <1>1, <1>2, <1>3, <1>4, <1>5 DEF NInv

LEMMA NInvHolds ==
  ASSUME \A r \in Requests : WellFormed(r)
  PROVE  MSpec => []NInv
<1>1. MInit => NInv
  BY DEF MInit, NInv
<1>2. MInv /\ NInv /\ [MNext]_mvars => NInv'
  <2> SUFFICES ASSUME MInv, NInv, [MNext]_mvars PROVE NInv'
    OBVIOUS
  <2>1. CASE UNCHANGED mvars
    BY <2>1 DEF mvars, NInv
  <2>2. CASE MStep
    BY <2>2, CreateMapNodes, SkipOptionalNodes, MissingIdNodes, CreateStringNodes,
       CreateListNodes, CreateElementNodes, MarshalElementNodes, MarshalChildNodes,
       MarshalNullNodes, AppendItemNodes, EndOfItemsNodes, PutPairNodes, KeyFailsNodes,
       AddFailsNodes, NullLostNodes, ReturnNodes, UnwindNodes, SerializeNodes DEF MStep
  <2>3. CASE \E r \in Requests : Start(r)
    BY <2>3, StartNodes
  <2> QED BY <2>1, <2>2, <2>3 DEF MNext
<1> QED BY <1>1, <1>2, MInvHolds, PTL DEF MSpec

-----------------------------------------------------------------------------
(* What has been written.                                                  *)

Skipped(n, field) == field \in Optional /\ n[field] = NULL

\* v may stand under a field of node n
ValueFits(v, n, field, exact) ==
  /\ field \in Strings => v \in Text(n[field], exact \/ field \notin Unchecked)
  /\ field = "values" => v = ListOf([k \in DOMAIN n.values |-> StringOf(n.values[k])])
  /\ field = "attributes" => AttributeList(v, n.attributes, exact)
  /\ field \in {"subjects", "resources"} => HolderList(v, n[field], exact)
  /\ field \in Children => MaybeHolder(v, n[field], exact)

\* d may be element k of the list under that field
ItemFits(d, n, field, k, exact) ==
  /\ field = "values" => d = StringOf(n.values[k])
  /\ field = "attributes" => AttributeMap(d, n.attributes[k], exact)
  /\ field \in {"subjects", "resources"} => HolderMap(d, n[field][k], exact)

\* qs are the pairs ps and the one for the field
FieldPut(ps, qs, n, field, exact) ==
  IF Skipped(n, field) THEN qs = ps
  ELSE \E v : ValueFits(v, n, field, exact) /\ qs = Append(ps, <<field, v>>)

\* heads[m] are the pairs before field m
Heads(heads, n, at, exact) ==
  /\ heads[1] = <<>>
  /\ \A m \in 1 .. at - 1 : FieldPut(heads[m], heads[m + 1], n, FieldsOf(n.kind)[m], exact)

PairsFit(ps, n, at, exact) == \E heads : Heads(heads, n, at, exact) /\ heads[at] = ps

ItemsFit(f, exact) ==
  LET all == f.node[FieldAt(f)]
  IN  /\ Len(f.items) <= Len(all)
      /\ \A k \in 1 .. Len(f.items) : ItemFits(f.items[k], f.node, FieldAt(f), k, exact)
      /\ f.step \in {"append", "calling"} => Len(f.items) < Len(all)
      /\ f.step = "append" => ItemFits(f.value, f.node, FieldAt(f), Len(f.items) + 1, exact)
      /\ f.step = "put" => Len(f.items) = Len(all)

ValueFit(f, exact) ==
  /\ ~Skipped(f.node, FieldAt(f))
  /\ FieldAt(f) \notin Lists =>
       \/ ValueFits(f.value, f.node, FieldAt(f), exact)
       \/ FieldAt(f) \in Unchecked /\ ~exact /\ f.value = NULL

FrameFits(f, exact) ==
  /\ f.at <= Len(FieldsOf(f.node.kind)) + 1
  /\ f.step \in {"items", "append", "put", "calling"} => f.at <= Len(FieldsOf(f.node.kind))
  /\ PairsFit(f.pairs, f.node, f.at, exact)
  /\ HoldsList(f) => ItemsFit(f, exact)
  /\ f.step = "put" => ValueFit(f, exact)

\* the call with frame f waits for that for node n
CallsFor(f, n) ==
  /\ FieldAt(f) \in (Lists \cup Children) \ {"values"}
  /\ n = IF FieldAt(f) \in Lists THEN f.node[FieldAt(f)][Len(f.items) + 1] ELSE f.node[FieldAt(f)]
  /\ FieldAt(f) \in Children => n # NULL
  /\ IF FieldAt(f) = "attributes" THEN n.kind = "attribute" ELSE n.kind \in HolderKinds

StackFits ==
  /\ stack[1].node = request
  /\ \A k \in 1 .. Len(stack) : FrameFits(stack[k], ~starved)
  /\ \A k \in 1 .. Len(stack) - 1 : CallsFor(stack[k], stack[k + 1].node)

CInv ==
  /\ phase = "marshalling" /\ ~hollow => StackFits
  /\ phase = "sent" => ~hollow
  /\ phase \in {"built", "sent"} /\ ~hollow => RequestMap(sent, request, ~starved)

-----------------------------------------------------------------------------
(* What fits while there is memory also fits without it.                   *)

LEMMA TextStill ==
  ASSUME NEW t, NEW e \in BOOLEAN, NEW e2 \in BOOLEAN, e2 => e
  PROVE  Text(t, e) \subseteq Text(t, e2)
BY DEF Text

LEMMA AttributeStill ==
  ASSUME NEW d, NEW a, NEW e \in BOOLEAN, NEW e2 \in BOOLEAN, e2 => e, AttributeMap(d, a, e)
  PROVE  AttributeMap(d, a, e2)
BY TextStill, Zenon DEF AttributeMap

LEMMA AttributesStill ==
  ASSUME NEW d, NEW ns, NEW e \in BOOLEAN, NEW e2 \in BOOLEAN, e2 => e, AttributeList(d, ns, e)
  PROVE  AttributeList(d, ns, e2)
BY AttributeStill, Zenon DEF AttributeList

LEMMA HolderStill ==
  ASSUME NEW d, NEW n, NEW e \in BOOLEAN, NEW e2 \in BOOLEAN, e2 => e, HolderMap(d, n, e)
  PROVE  HolderMap(d, n, e2)
BY AttributesStill, Zenon DEF HolderMap

LEMMA HoldersStill ==
  ASSUME NEW d, NEW ns, NEW e \in BOOLEAN, NEW e2 \in BOOLEAN, e2 => e, HolderList(d, ns, e)
  PROVE  HolderList(d, ns, e2)
BY HolderStill, Zenon DEF HolderList

LEMMA MaybeStill ==
  ASSUME NEW d, NEW n, NEW e \in BOOLEAN, NEW e2 \in BOOLEAN, e2 => e, MaybeHolder(d, n, e)
  PROVE  MaybeHolder(d, n, e2)
BY HolderStill, Zenon DEF MaybeHolder

LEMMA RequestStill ==
  ASSUME NEW d, NEW r, NEW e \in BOOLEAN, NEW e2 \in BOOLEAN, e2 => e, RequestMap(d, r, e)
  PROVE  RequestMap(d, r, e2)
BY HoldersStill, MaybeStill, Zenon DEF RequestMap

LEMMA ValueStill ==
  ASSUME NEW v, NEW n, NEW field, NEW e \in BOOLEAN, NEW e2 \in BOOLEAN, e2 => e,
         ValueFits(v, n, field, e)
  PROVE  ValueFits(v, n, field, e2)
<1>1. field \in Strings => v \in Text(n[field], e2 \/ field \notin Unchecked)
  BY DEF ValueFits, Text
<1>2. field = "attributes" => AttributeList(v, n.attributes, e2)
  BY AttributesStill DEF ValueFits
<1>3. field \in {"subjects", "resources"} => HolderList(v, n[field], e2)
  BY HoldersStill DEF ValueFits
<1>4. field \in Children => MaybeHolder(v, n[field], e2)
  BY MaybeStill DEF ValueFits
<1> QED
  BY <1>1, <1>2, <1>3, <1>4 DEF ValueFits

LEMMA ItemStill ==
  ASSUME NEW d, NEW n, NEW field, NEW k, NEW e \in BOOLEAN, NEW e2 \in BOOLEAN, e2 => e,
         ItemFits(d, n, field, k, e)
  PROVE  ItemFits(d, n, field, k, e2)
BY AttributeStill, HolderStill DEF ItemFits

LEMMA PairsStill ==
  ASSUME NEW ps, NEW n, NEW at, NEW e \in BOOLEAN, NEW e2 \in BOOLEAN, e2 => e,
         PairsFit(ps, n, at, e)
  PROVE  PairsFit(ps, n, at, e2)
<1>1. PICK heads : Heads(heads, n, at, e) /\ heads[at] = ps
  BY DEF PairsFit
<1>2. \A m \in 1 .. at - 1 : FieldPut(heads[m], heads[m + 1], n, FieldsOf(n.kind)[m], e2)
  BY <1>1, ValueStill DEF Heads, FieldPut
<1>3. Heads(heads, n, at, e2)
  BY <1>1, <1>2 DEF Heads
<1> QED
  BY <1>1, <1>3 DEF PairsFit

LEMMA FrameStill ==
  ASSUME NEW f, NEW e \in BOOLEAN, NEW e2 \in BOOLEAN, e2 => e, FrameFits(f, e)
  PROVE  FrameFits(f, e2)
<1>1. PairsFit(f.pairs, f.node, f.at, e2)
  BY PairsStill DEF FrameFits
<1>2. HoldsList(f) => ItemsFit(f, e2)
  BY ItemStill DEF FrameFits, ItemsFit
<1>3. f.step = "put" => ValueFit(f, e2)
  BY ValueStill DEF FrameFits, ValueFit
<1> QED
  BY <1>1, <1>2, <1>3 DEF FrameFits

-----------------------------------------------------------------------------
(* What a step makes of a frame that fits.                                 *)

LEMMA FieldsLength == ASSUME NEW kind PROVE Len(FieldsOf(kind)) \in Nat \ {0}
<1>1. FieldsOf(kind) \in {AttributeFields, SubjectFields, ResourceFields, ActionFields,
                          EnvironmentFields, RequestFields}
  BY DEF FieldsOf
<1>2. Len(AttributeFields) \in Nat \ {0} /\ Len(SubjectFields) \in Nat \ {0}
  BY DEF AttributeFields, SubjectFields
<1>3. Len(ResourceFields) \in Nat \ {0} /\ Len(ActionFields) \in Nat \ {0}
  BY DEF ResourceFields, ActionFields
<1>4. Len(EnvironmentFields) \in Nat \ {0} /\ Len(RequestFields) \in Nat \ {0}
  BY DEF EnvironmentFields, RequestFields
<1> QED
  BY <1>1, <1>2, <1>3, <1>4

\* nothing is written yet
LEMMA FrameForFits ==
  ASSUME NEW n, NEW e \in BOOLEAN
  PROVE  FrameFits(FrameFor(n), e)
<1> DEFINE f == FrameFor(n)
<1>1. f.at = 1 /\ f.step = "map" /\ f.pairs = <<>> /\ f.node = n
  BY DEF FrameFor
<1>2. ~HoldsList(f)
  BY <1>1 DEF HoldsList
<1> HIDE DEF f
<1>3. PairsFit(f.pairs, f.node, f.at, e)
  <2> DEFINE heads == [m \in {1} |-> <<>>]
  <2>1. heads[1] = <<>>
    OBVIOUS
  <2> HIDE DEF heads
  <2>2. Heads(heads, n, 1, e)
    BY <2>1 DEF Heads
  <2> QED
    BY <1>1, <2>1, <2>2 DEF PairsFit
<1>4. f.at <= Len(FieldsOf(f.node.kind)) + 1
  BY <1>1, FieldsLength
<1>5. FrameFits(f, e)
  BY <1>1, <1>2, <1>3, <1>4 DEF FrameFits
<1> QED
  BY <1>5 DEF f

\* the next field is written
LEMMA PairsGrow ==
  ASSUME NEW ps, NEW qs, NEW n, NEW at \in Nat \ {0}, NEW e \in BOOLEAN, PairsFit(ps, n, at, e),
         FieldPut(ps, qs, n, FieldsOf(n.kind)[at], e)
  PROVE  PairsFit(qs, n, at + 1, e)
<1>1. PICK heads : Heads(heads, n, at, e) /\ heads[at] = ps
  BY DEF PairsFit
<1> DEFINE more == [m \in 1 .. at + 1 |-> IF m = at + 1 THEN qs ELSE heads[m]]
<1>2. more[at + 1] = qs /\ \A m \in 1 .. at : more[m] = heads[m]
  <2>1. at + 1 \in 1 .. at + 1 /\ \A m \in 1 .. at : m \in 1 .. at + 1 /\ m # at + 1
    OBVIOUS
  <2> QED
    BY <2>1
<1> HIDE DEF more
<1>3. more[1] = <<>>
  BY <1>1, <1>2 DEF Heads
<1>4. ASSUME NEW m \in 1 .. at + 1 - 1
      PROVE  FieldPut(more[m], more[m + 1], n, FieldsOf(n.kind)[m], e)
  <2>1. CASE m = at
    BY <1>1, <1>2, <2>1
  <2>2. CASE m # at
    <3>1. m \in 1 .. at - 1 /\ m \in 1 .. at /\ m + 1 \in 1 .. at
      BY <2>2
    <3>2. more[m] = heads[m] /\ more[m + 1] = heads[m + 1]
      BY <1>2, <3>1
    <3> QED
      BY <1>1, <3>1, <3>2 DEF Heads
  <2> QED
    BY <2>1, <2>2
<1>5. Heads(more, n, at + 1, e)
  BY <1>3, <1>4 DEF Heads
<1> QED
  BY <1>2, <1>5 DEF PairsFit

\* the call stays at its field
LEMMA SameField ==
  ASSUME NEW f, NEW g, NEW e \in BOOLEAN, FrameFits(f, e),
         g.node = f.node, g.at = f.at, g.pairs = f.pairs
  PROVE  /\ FieldAt(g) = FieldAt(f)
         /\ g.at <= Len(FieldsOf(g.node.kind)) + 1
         /\ PairsFit(g.pairs, g.node, g.at, e)
BY DEF FrameFits, FieldAt

\* it goes on to the next one
LEMMA NextField ==
  ASSUME NEW f, NEW g, NEW e \in BOOLEAN, FrameFits(f, e), f.at \in Nat \ {0},
         f.at <= Len(FieldsOf(f.node.kind)),
         g.node = f.node, g.at = f.at + 1, g.step = "field",
         FieldPut(f.pairs, g.pairs, f.node, FieldAt(f), e)
  PROVE  FrameFits(g, e)
<1>1. PairsFit(f.pairs, f.node, f.at, e)
  BY DEF FrameFits
<1>2. PairsFit(g.pairs, f.node, f.at + 1, e)
  BY <1>1, PairsGrow DEF FieldAt
<1>3. ~HoldsList(g)
  BY DEF HoldsList
<1>4. g.at <= Len(FieldsOf(g.node.kind)) + 1
  BY FieldsLength
<1> QED
  BY <1>2, <1>3, <1>4 DEF FrameFits

LEMMA FieldSets ==
  /\ "values" \in Lists /\ "values" \notin Strings \cup Children
  /\ "attributes" \in Lists /\ Unchecked \subseteq Optional /\ Optional \subseteq Strings
  /\ Strings \cap Lists = {} /\ Strings \cap Children = {} /\ Lists \cap Children = {}
  /\ Lists = {"values", "attributes", "subjects", "resources"}
  /\ Children = {"action", "environment"}
BY DEF Strings, Optional, Unchecked, Lists, Children

\* a call goes on at its field: to the end of the list, or with a value
LEMMA ListGoesOn ==
  ASSUME NEW f, NEW g, NEW e \in BOOLEAN, FrameFits(f, e), f.at <= Len(FieldsOf(f.node.kind)),
         g.node = f.node, g.at = f.at, g.pairs = f.pairs, FieldAt(f) \in Lists,
         ItemsFit(g, e)
  PROVE  FrameFits(g, e)
<1>1. ~Skipped(g.node, FieldAt(g)) /\ FieldAt(g) \in Lists
  BY SameField, FieldSets DEF Skipped
<1> QED
  BY <1>1, SameField DEF FrameFits, ValueFit

LEMMA ValueGoesOn ==
  ASSUME NEW f, NEW g, NEW e \in BOOLEAN, FrameFits(f, e), f.at <= Len(FieldsOf(f.node.kind)),
         g.node = f.node, g.at = f.at, g.pairs = f.pairs, FieldAt(f) \notin Lists,
         g.step \in {"field", "calling"} \/ (g.step = "put" /\ ValueFit(g, e))
  PROVE  FrameFits(g, e)
<1>1. ~HoldsList(g)
  BY SameField DEF HoldsList
<1> QED
  BY <1>1, SameField DEF FrameFits

\* the list that has been filled
LEMMA ListIsFull ==
  ASSUME NEW f, NEW e \in BOOLEAN, NEW D, f.items \in Seq(D), ItemsFit(f, e), f.step = "put",
         FieldAt(f) \in Lists, IsSequence(f.node[FieldAt(f)])
  PROVE  ValueFits(ListOf(f.items), f.node, FieldAt(f), e)
<1> DEFINE d == ListOf(f.items)
<1>1. d.parts = f.items /\ d = ListOf(d.parts)
  BY DEF ListOf
<1>2. DOMAIN f.items = 1 .. Len(f.items) /\ Len(f.items) = Len(f.node[FieldAt(f)])
  BY DEF ItemsFit
<1>3. \A k \in DOMAIN f.items : ItemFits(f.items[k], f.node, FieldAt(f), k, e)
  BY <1>2 DEF ItemsFit
<1> HIDE DEF d
<1>4. FieldAt(f) = "values" => d = ListOf([k \in DOMAIN f.node.values |-> StringOf(f.node.values[k])])
  <2> SUFFICES ASSUME FieldAt(f) = "values"
               PROVE  d = ListOf([k \in DOMAIN f.node.values |-> StringOf(f.node.values[k])])
    OBVIOUS
  <2> DEFINE all == [k \in DOMAIN f.node.values |-> StringOf(f.node.values[k])]
  <2>1. DOMAIN f.node.values = DOMAIN f.items
    BY <1>2 DEF IsSequence
  <2>2. \A k \in DOMAIN f.items : f.items[k] = all[k]
    BY <1>3, <2>1 DEF ItemFits
  <2>3. f.items = [k \in DOMAIN f.items |-> f.items[k]]
    OBVIOUS
  <2>4. f.items = all
    BY <2>1, <2>2, <2>3
  <2> QED
    BY <1>1, <2>4
<1>5. FieldAt(f) = "attributes" => AttributeList(d, f.node.attributes, e)
  BY <1>1, <1>2, <1>3 DEF AttributeList, ItemFits
<1>6. FieldAt(f) \in {"subjects", "resources"} => HolderList(d, f.node[FieldAt(f)], e)
  BY <1>1, <1>2, <1>3 DEF HolderList, ItemFits
<1>7. FieldAt(f) \notin Strings /\ FieldAt(f) \notin Children
  BY FieldSets
<1>8. ValueFits(d, f.node, FieldAt(f), e)
  BY <1>4, <1>5, <1>6, <1>7 DEF ValueFits
<1> QED
  BY <1>8 DEF d

-----------------------------------------------------------------------------
(* The map whose fields have all been written.                             *)

LEMMA AppendFirst == ASSUME NEW x PROVE Append(<<>>, x) = <<x>>
OBVIOUS

LEMMA AppendSecond ==
  ASSUME NEW x, NEW y PROVE Append(<<x>>, y) = <<x, y>>
<1> DEFINE t == Append(<<x>>, y)
<1>1. <<x>> \in Seq({x, y}) /\ Len(<<x>>) = 1
  OBVIOUS
<1>2. t \in Seq({x, y}) /\ Len(t) = 2 /\ t[1] = x /\ t[2] = y
  BY <1>1
<1>3. DOMAIN t = 1 .. 2 /\ t = [k \in 1 .. 2 |-> t[k]]
  BY <1>2
<1> HIDE DEF t
<1>4. t = <<x, y>>
  BY <1>2, <1>3
<1> QED
  BY <1>4 DEF t

LEMMA AppendThird ==
  ASSUME NEW x, NEW y, NEW z PROVE Append(<<x, y>>, z) = <<x, y, z>>
<1> DEFINE t == Append(<<x, y>>, z)
<1>1. <<x, y>> \in Seq({x, y, z}) /\ Len(<<x, y>>) = 2
  OBVIOUS
<1>2. t \in Seq({x, y, z}) /\ Len(t) = 3 /\ t[1] = x /\ t[2] = y /\ t[3] = z
  BY <1>1
<1>3. DOMAIN t = 1 .. 3 /\ t = [k \in 1 .. 3 |-> t[k]]
  BY <1>2
<1> HIDE DEF t
<1>4. t = <<x, y, z>>
  BY <1>2, <1>3
<1> QED
  BY <1>4 DEF t

LEMMA AppendFourth ==
  ASSUME NEW x, NEW y, NEW z, NEW u PROVE Append(<<x, y, z>>, u) = <<x, y, z, u>>
<1> DEFINE t == Append(<<x, y, z>>, u)
<1>1. <<x, y, z>> \in Seq({x, y, z, u}) /\ Len(<<x, y, z>>) = 3
  OBVIOUS
<1>2. t \in Seq({x, y, z, u}) /\ Len(t) = 4 /\ t[1] = x /\ t[2] = y /\ t[3] = z /\ t[4] = u
  BY <1>1
<1>3. DOMAIN t = 1 .. 4 /\ t = [k \in 1 .. 4 |-> t[k]]
  BY <1>2
<1> HIDE DEF t
<1>4. t = <<x, y, z, u>>
  BY <1>2, <1>3
<1> QED
  BY <1>4 DEF t

LEMMA FourLong ==
  ASSUME NEW s, NEW x, NEW y, NEW z, NEW u, s = <<x, y, z, u>> PROVE Len(s) + 1 = 5
OBVIOUS

LEMMA PutOptional ==
  ASSUME NEW ps, NEW qs, NEW n, NEW field \in Optional, NEW e \in BOOLEAN, FieldPut(ps, qs, n, field, e)
  PROVE  \E v \in Text(n[field], e \/ field \notin Unchecked) : qs = Adding(ps, n, field, v)
<1>1. field \in Strings
  BY FieldSets
<1>2. CASE n[field] = NULL
  <2>1. StringOf(n[field]) \in Text(n[field], e \/ field \notin Unchecked)
    BY DEF Text
  <2>2. qs = Adding(ps, n, field, StringOf(n[field]))
    BY <1>2 DEF FieldPut, Skipped, Adding
  <2> QED
    BY <2>1, <2>2
<1>3. CASE n[field] # NULL
  <2>1. PICK v : ValueFits(v, n, field, e) /\ qs = Append(ps, <<field, v>>)
    BY <1>3 DEF FieldPut, Skipped
  <2>2. v \in Text(n[field], e \/ field \notin Unchecked)
    BY <1>1, <2>1 DEF ValueFits
  <2>3. qs = Adding(ps, n, field, v)
    BY <1>3, <2>1 DEF Adding
  <2> QED
    BY <2>2, <2>3
<1> QED
  BY <1>2, <1>3

LEMMA AttributeIsWritten ==
  ASSUME NEW ps, NEW n, NEW e \in BOOLEAN, n.kind = "attribute",
         PairsFit(ps, n, Len(FieldsOf(n.kind)) + 1, e)
  PROVE  AttributeMap(MapOf(n.kind, ps), n, e)
<1>1. FieldsOf(n.kind) = <<"id", "datatype", "issuer", "values">>
  BY DEF FieldsOf, AttributeFields
<1>2. Len(FieldsOf(n.kind)) + 1 = 5
  BY <1>1, FourLong
<1>3. PICK heads : Heads(heads, n, 5, e) /\ heads[5] = ps
  BY <1>2 DEF PairsFit
<1>4. /\ heads[1] = <<>>
      /\ FieldPut(heads[1], heads[2], n, "id", e)
      /\ FieldPut(heads[2], heads[3], n, "datatype", e)
      /\ FieldPut(heads[3], heads[4], n, "issuer", e)
      /\ FieldPut(heads[4], heads[5], n, "values", e)
  <2>1. heads[1] = <<>> /\ \A m \in {1, 2, 3, 4} :
          FieldPut(heads[m], heads[m + 1], n, FieldsOf(n.kind)[m], e)
    BY <1>3 DEF Heads
  <2>2. /\ FieldPut(heads[1], heads[1 + 1], n, FieldsOf(n.kind)[1], e)
        /\ FieldPut(heads[2], heads[2 + 1], n, FieldsOf(n.kind)[2], e)
        /\ FieldPut(heads[3], heads[3 + 1], n, FieldsOf(n.kind)[3], e)
        /\ FieldPut(heads[4], heads[4 + 1], n, FieldsOf(n.kind)[4], e)
    BY <2>1
  <2>3. 1 + 1 = 2 /\ 2 + 1 = 3 /\ 3 + 1 = 4 /\ 4 + 1 = 5
    OBVIOUS
  <2> QED
    BY <1>1, <2>1, <2>2, <2>3
<1>5. heads[2] = <<<<"id", StringOf(n.id)>>>>
  <2>1. "id" \notin Optional /\ "id" \in Strings /\ "id" \notin Unchecked
    BY DEF Optional, Strings, Unchecked
  <2>2. PICK v : ValueFits(v, n, "id", e) /\ heads[2] = Append(heads[1], <<"id", v>>)
    BY <1>4, <2>1 DEF FieldPut, Skipped
  <2>3. v = StringOf(n.id)
    BY <2>1, <2>2 DEF ValueFits, Text
  <2> QED
    BY <1>4, <2>2, <2>3, AppendFirst
<1>6. PICK datatype \in Text(n.datatype, e) : heads[3] = Adding(heads[2], n, "datatype", datatype)
  <2>1. "datatype" \in Optional /\ "datatype" \in Unchecked
    BY DEF Optional, Strings, Unchecked
  <2> QED
    BY <1>4, <2>1, PutOptional DEF Text
<1>7. PICK issuer \in Text(n.issuer, e) : heads[4] = Adding(heads[3], n, "issuer", issuer)
  <2>1. "issuer" \in Optional /\ "issuer" \in Unchecked
    BY DEF Optional, Strings, Unchecked
  <2> QED
    BY <1>4, <2>1, PutOptional DEF Text
<1>8. heads[5] = Append(heads[4], <<"values", ListOf([k \in DOMAIN n.values |-> StringOf(n.values[k])])>>)
  <2>1. "values" \notin Optional
    BY DEF Optional, Strings
  <2>2. PICK v : ValueFits(v, n, "values", e) /\ heads[5] = Append(heads[4], <<"values", v>>)
    BY <1>4, <2>1 DEF FieldPut, Skipped
  <2> QED
    BY <2>2 DEF ValueFits
<1> QED
  BY <1>3, <1>5, <1>6, <1>7, <1>8 DEF AttributeMap

\* the attributes are the last pair
LEMMA HolderIs ==
  ASSUME NEW about, NEW n, NEW v, NEW e \in BOOLEAN, AttributeList(v, n.attributes, e),
         about = <<>> \/ \E x : about = <<x>>,
         about = CASE n.kind = "subject"  -> Adding(<<>>, n, "category", StringOf(n.category))
                   [] n.kind = "resource" -> Adding(<<>>, n, "content", StringOf(n.content))
                   [] OTHER               -> <<>>
  PROVE  HolderMap(MapOf(n.kind, Append(about, <<"attributes", v>>)), n, e)
<1> DEFINE ps == Append(about, <<"attributes", v>>)
           d == MapOf(n.kind, ps)
<1>1. ps[Len(ps)] = <<"attributes", v>>
  <2>1. CASE about = <<>>
    <3>1. ps = <<<<"attributes", v>>>>
      BY <2>1, AppendFirst
    <3> QED
      BY <3>1
  <2>2. ASSUME NEW x, about = <<x>> PROVE ps[Len(ps)] = <<"attributes", v>>
    <3>1. ps = <<x, <<"attributes", v>>>>
      BY <2>2, AppendSecond
    <3> QED
      BY <3>1
  <2> QED
    BY <2>1, <2>2
<1>2. d.parts = ps /\ d = MapOf(n.kind, ps)
  BY DEF MapOf
<1>3. ps = Append(about, <<"attributes", v>>)
  OBVIOUS
<1> HIDE DEF ps, d
<1>4. d.parts[Len(d.parts)][2] = v
  BY <1>1, <1>2
<1>5. HolderMap(d, n, e)
  BY <1>2, <1>3, <1>4 DEF HolderMap
<1> QED
  BY <1>5 DEF d, ps

LEMMA HolderIsWritten ==
  ASSUME NEW ps, NEW n, NEW e \in BOOLEAN, n.kind \in HolderKinds,
         PairsFit(ps, n, Len(FieldsOf(n.kind)) + 1, e)
  PROVE  HolderMap(MapOf(n.kind, ps), n, e)
<1>1. "attributes" \notin Optional
  BY DEF Optional, Strings
<1>2. ASSUME NEW heads, NEW field \in {"category", "content"}, heads[1] = <<>>, heads[3] = ps,
             FieldPut(heads[1], heads[2], n, field, e), FieldPut(heads[2], heads[3], n, "attributes", e),
             field = IF n.kind = "subject" THEN "category" ELSE "content",
             n.kind \in {"subject", "resource"}
      PROVE  HolderMap(MapOf(n.kind, ps), n, e)
  <2>1. field \in Optional /\ field \notin Unchecked
    BY DEF Optional, Strings, Unchecked
  <2>2. heads[2] = Adding(<<>>, n, field, StringOf(n[field]))
    BY <1>2, <2>1, PutOptional DEF Text
  <2>3. heads[2] = <<>> \/ \E x : heads[2] = <<x>>
    BY <2>2, AppendFirst DEF Adding
  <2>4. PICK v : ValueFits(v, n, "attributes", e) /\ ps = Append(heads[2], <<"attributes", v>>)
    BY <1>1, <1>2 DEF FieldPut, Skipped
  <2>5. AttributeList(v, n.attributes, e)
    BY <2>4 DEF ValueFits
  <2>6. heads[2] = CASE n.kind = "subject"  -> Adding(<<>>, n, "category", StringOf(n.category))
                     [] n.kind = "resource" -> Adding(<<>>, n, "content", StringOf(n.content))
                     [] OTHER               -> <<>>
    BY <1>2, <2>2
  <2> QED
    BY <2>3, <2>4, <2>5, <2>6, HolderIs
<1>3. CASE n.kind \in {"subject", "resource"}
  <2> DEFINE field == IF n.kind = "subject" THEN "category" ELSE "content"
  <2>1. FieldsOf(n.kind) = <<field, "attributes">>
    BY <1>3 DEF FieldsOf, SubjectFields, ResourceFields
  <2> HIDE DEF field
  <2>2. Len(FieldsOf(n.kind)) + 1 = 3
    BY <2>1
  <2>3. PICK heads : Heads(heads, n, 3, e) /\ heads[3] = ps
    BY <2>2 DEF PairsFit
  <2>4. heads[1] = <<>> /\ \A m \in {1, 2} :
          FieldPut(heads[m], heads[m + 1], n, FieldsOf(n.kind)[m], e)
    BY <2>3 DEF Heads
  <2>5. /\ FieldPut(heads[1], heads[1 + 1], n, FieldsOf(n.kind)[1], e)
        /\ FieldPut(heads[2], heads[2 + 1], n, FieldsOf(n.kind)[2], e)
    BY <2>4
  <2>6. 1 + 1 = 2 /\ 2 + 1 = 3
    OBVIOUS
  <2>7. FieldPut(heads[1], heads[2], n, field, e) /\ FieldPut(heads[2], heads[3], n, "attributes", e)
    BY <2>1, <2>5, <2>6
  <2>8. field = (IF n.kind = "subject" THEN "category" ELSE "content") /\ field \in {"category", "content"}
    BY DEF field
  <2> QED
    BY <1>2, <1>3, <2>3, <2>4, <2>7, <2>8
<1>4. CASE n.kind \in {"action", "environment"}
  <2>1. FieldsOf(n.kind) = <<"attributes">>
    BY <1>4 DEF FieldsOf, ActionFields, EnvironmentFields
  <2>2. Len(FieldsOf(n.kind)) + 1 = 2
    BY <2>1
  <2>3. PICK heads : Heads(heads, n, 2, e) /\ heads[2] = ps
    BY <2>2 DEF PairsFit
  <2>4. heads[1] = <<>> /\ FieldPut(heads[1], heads[2], n, "attributes", e)
    <3>1. heads[1] = <<>> /\ FieldPut(heads[1], heads[1 + 1], n, FieldsOf(n.kind)[1], e)
      BY <2>3 DEF Heads
    <3>2. 1 + 1 = 2
      OBVIOUS
    <3> QED
      BY <2>1, <3>1, <3>2
  <2>5. PICK v : ValueFits(v, n, "attributes", e) /\ ps = Append(heads[1], <<"attributes", v>>)
    BY <1>1, <2>3, <2>4 DEF FieldPut, Skipped
  <2>6. AttributeList(v, n.attributes, e)
    BY <2>5 DEF ValueFits
  <2>7. heads[1] = CASE n.kind = "subject"  -> Adding(<<>>, n, "category", StringOf(n.category))
                     [] n.kind = "resource" -> Adding(<<>>, n, "content", StringOf(n.content))
                     [] OTHER               -> <<>>
    BY <1>4, <2>4
  <2> QED
    BY <2>4, <2>5, <2>6, <2>7, HolderIs
<1> QED
  BY <1>3, <1>4 DEF HolderKinds

LEMMA RequestIsWritten ==
  ASSUME NEW ps, NEW n, NEW e \in BOOLEAN, n.kind = "request",
         PairsFit(ps, n, Len(FieldsOf(n.kind)) + 1, e)
  PROVE  RequestMap(MapOf(n.kind, ps), n, e)
<1>1. FieldsOf(n.kind) = <<"subjects", "resources", "action", "environment">>
  BY DEF FieldsOf, RequestFields
<1>2. Len(FieldsOf(n.kind)) + 1 = 5
  BY <1>1, FourLong
<1>3. PICK heads : Heads(heads, n, 5, e) /\ heads[5] = ps
  BY <1>2 DEF PairsFit
<1>4. /\ heads[1] = <<>>
      /\ FieldPut(heads[1], heads[2], n, "subjects", e)
      /\ FieldPut(heads[2], heads[3], n, "resources", e)
      /\ FieldPut(heads[3], heads[4], n, "action", e)
      /\ FieldPut(heads[4], heads[5], n, "environment", e)
  <2>1. heads[1] = <<>> /\ \A m \in {1, 2, 3, 4} :
          FieldPut(heads[m], heads[m + 1], n, FieldsOf(n.kind)[m], e)
    BY <1>3 DEF Heads
  <2>2. /\ FieldPut(heads[1], heads[1 + 1], n, FieldsOf(n.kind)[1], e)
        /\ FieldPut(heads[2], heads[2 + 1], n, FieldsOf(n.kind)[2], e)
        /\ FieldPut(heads[3], heads[3 + 1], n, FieldsOf(n.kind)[3], e)
        /\ FieldPut(heads[4], heads[4 + 1], n, FieldsOf(n.kind)[4], e)
    BY <2>1
  <2>3. 1 + 1 = 2 /\ 2 + 1 = 3 /\ 3 + 1 = 4 /\ 4 + 1 = 5
    OBVIOUS
  <2> QED
    BY <1>1, <2>1, <2>2, <2>3
<1>5. {"subjects", "resources", "action", "environment"} \cap Optional = {}
  BY DEF Optional, Strings
<1>6. PICK s : ValueFits(s, n, "subjects", e) /\ heads[2] = Append(heads[1], <<"subjects", s>>)
  BY <1>4, <1>5 DEF FieldPut, Skipped
<1>7. PICK r : ValueFits(r, n, "resources", e) /\ heads[3] = Append(heads[2], <<"resources", r>>)
  BY <1>4, <1>5 DEF FieldPut, Skipped
<1>8. PICK a : ValueFits(a, n, "action", e) /\ heads[4] = Append(heads[3], <<"action", a>>)
  BY <1>4, <1>5 DEF FieldPut, Skipped
<1>9. PICK v : ValueFits(v, n, "environment", e) /\ heads[5] = Append(heads[4], <<"environment", v>>)
  BY <1>4, <1>5 DEF FieldPut, Skipped
<1>10. ps = <<<<"subjects", s>>, <<"resources", r>>, <<"action", a>>, <<"environment", v>>>>
  <2>1. heads[2] = <<<<"subjects", s>>>>
    BY <1>4, <1>6, AppendFirst
  <2>2. heads[3] = <<<<"subjects", s>>, <<"resources", r>>>>
    BY <1>7, <2>1, AppendSecond
  <2>3. heads[4] = <<<<"subjects", s>>, <<"resources", r>>, <<"action", a>>>>
    BY <1>8, <2>2, AppendThird
  <2> QED
    BY <1>3, <1>9, <2>3, AppendFourth
<1>11. /\ HolderList(s, n.subjects, e) /\ HolderList(r, n.resources, e)
       /\ MaybeHolder(a, n.action, e) /\ MaybeHolder(v, n.environment, e)
  BY <1>6, <1>7, <1>8, <1>9 DEF ValueFits, Children
<1> DEFINE d == MapOf("request", ps)
<1>12. d.parts = ps
  BY DEF MapOf
<1> HIDE DEF d
<1>13. d.parts[1][2] = s /\ d.parts[2][2] = r /\ d.parts[3][2] = a /\ d.parts[4][2] = v
  BY <1>10, <1>12
<1>14. RequestMap(d, n, e)
  BY <1>10, <1>11, <1>13 DEF RequestMap, d
<1> QED
  BY <1>14 DEF d

-----------------------------------------------------------------------------
(* The steps.                                                              *)

\* the call goes on with a frame that fits
LEMMA CallFits ==
  ASSUME MInv, CInv, phase = "marshalling", phase' = phase, request' = request,
         starved' \in BOOLEAN, starved => starved', hollow => hollow',
         NEW f, Becomes(f), f.node = This.node,
         ~hollow' /\ FrameFits(This, ~starved') => FrameFits(f, ~starved')
  PROVE  CInv'
<1> SUFFICES ASSUME ~hollow' PROVE StackFits'
  BY DEF CInv
<1>1. PICK D : stack \in Seq(Frames(D))
  BY DEF MInv, Typed
<1> DEFINE A == Frames(D) \cup {f}
<1>2. stack # <<>> /\ Len(stack) \in Nat \ {0} /\ f \in A
  BY ThisIs
<1>3. stack \in Seq(A)
  <2> DEFINE B == Frames(D)
  <2>1. stack \in Seq(B) /\ B \subseteq A
    BY <1>1
  <2> HIDE DEF A, B
  <2> QED BY <2>1
<1> HIDE DEF A
<1>4. /\ Len(stack') = Len(stack) /\ stack'[Len(stack)] = f
      /\ \A k \in 1 .. Len(stack) - 1 : stack'[k] = stack[k]
  BY <1>2, <1>3, LastChanges DEF Becomes
<1>5. StackFits /\ starved \in BOOLEAN
  BY DEF CInv, MInv, Clean
<1>6. \A k \in 1 .. Len(stack) : FrameFits(stack[k], ~starved')
  <2>1. (~starved) \in BOOLEAN /\ (~starved') \in BOOLEAN /\ (~starved' => ~starved)
    BY <1>5
  <2> QED
    BY <1>5, <2>1, FrameStill DEF StackFits
<1>7. FrameFits(f, ~starved')
  BY <1>2, <1>6 DEF This
<1>8. ASSUME NEW k \in 1 .. Len(stack)
      PROVE  FrameFits(stack'[k], ~starved') /\ stack'[k].node = stack[k].node
  <2>1. CASE k = Len(stack)
    BY <1>4, <1>7, <2>1 DEF This
  <2>2. CASE k # Len(stack)
    <3>1. k \in 1 .. Len(stack) - 1
      BY <1>2, <2>2
    <3> QED
      BY <1>4, <1>6, <3>1
  <2> QED
    BY <2>1, <2>2
<1>9. ASSUME NEW k \in 1 .. Len(stack) - 1
      PROVE  CallsFor(stack'[k], stack'[k + 1].node)
  <2>1. k + 1 \in 1 .. Len(stack)
    BY <1>2
  <2>2. stack'[k] = stack[k] /\ stack'[k + 1].node = stack[k + 1].node
    BY <1>4, <1>8, <2>1
  <2> QED
    BY <1>5, <2>2 DEF StackFits
<1>10. stack'[1].node = request'
  BY <1>2, <1>5, <1>8 DEF StackFits
<1> QED
  BY <1>4, <1>8, <1>9, <1>10 DEF StackFits

\* a call that has failed has nothing to show
LEMMA ExitFits ==
  ASSUME NEW f, NEW S, NEW less, Exit(f, S, less) PROVE CInv'
BY DEF Exit, CInv

LEMMA GivesUpFits == ASSUME NEW S, GivesUp(S) PROVE CInv'
BY ExitFits DEF GivesUp

\* the call is at one of its fields
LEMMA AtField ==
  ASSUME MInv, phase = "marshalling"
  PROVE  /\ FieldAt(This) = Field /\ Content = This.node[Field]
         /\ This.at \in Nat \ {0} /\ starved \in BOOLEAN
         /\ \E D : This \in Frames(D)
<1>1. PICK D : This \in Frames(D)
  BY ThisIs
<1> QED
  BY <1>1 DEF FieldAt, Field, Content, Frames, MInv, Clean

LEMMA CreateMapFits == ASSUME MInv, CInv, CreateMap PROVE CInv'
<1>1. phase = "marshalling" /\ This.step = "map"
  BY DEF CreateMap, AtStep
<1>2. PICK D : This \in Frames(D)
  BY <1>1, AtField
<1>3. ASSUME Becomes([Holds(This, "map") EXCEPT !.step = "field"]), Succeeds, Continues
      PROVE  CInv'
  <2> DEFINE f == [Holds(This, "map") EXCEPT !.step = "field"]
  <2>1. f.node = This.node /\ f.at = This.at /\ f.pairs = This.pairs /\ f.step = "field"
    BY <1>2 DEF Frames, Holds, Owners, Locals
  <2>2. Becomes(f) /\ phase' = phase /\ request' = request /\ starved' = starved /\ hollow' = hollow
    BY <1>3 DEF Continues, Succeeds
  <2> HIDE DEF f
  <2>3. ASSUME FrameFits(This, ~starved') PROVE FrameFits(f, ~starved')
    <3>1. ~HoldsList(f)
      BY <2>1 DEF HoldsList
    <3> QED
      BY <2>1, <2>3, <3>1, SameField DEF FrameFits
  <2> QED
    BY <1>1, <2>1, <2>2, <2>3, AtField, CallFits
<1> QED
  BY <1>3, GivesUpFits DEF CreateMap

LEMMA SkipOptionalFits == ASSUME MInv, CInv, SkipOptional PROVE CInv'
<1>1. /\ phase = "marshalling" /\ This.step = "field" /\ Field \in Optional /\ Content = NULL
      /\ This.at <= Len(FieldsOf(This.node.kind))
  BY DEF SkipOptional, Writes, AtStep
<1>2. PICK D : This \in Frames(D)
  BY <1>1, AtField
<1> DEFINE f == [This EXCEPT !.at = @ + 1]
<1>3. /\ f.node = This.node /\ f.at = This.at + 1 /\ f.pairs = This.pairs /\ f.step = "field"
      /\ Becomes(f) /\ phase' = phase /\ request' = request /\ starved' = starved /\ hollow' = hollow
  BY <1>1, <1>2 DEF Frames, SkipOptional, Continues, Succeeds
<1> HIDE DEF f
<1>4. ASSUME FrameFits(This, ~starved') PROVE FrameFits(f, ~starved')
  <2>1. FieldPut(This.pairs, f.pairs, This.node, FieldAt(This), ~starved')
    BY <1>1, <1>3, AtField DEF FieldPut, Skipped
  <2>2. (~starved') \in BOOLEAN
    BY <1>1, <1>3, AtField
  <2> QED
    BY <1>1, <1>3, <1>4, <2>1, <2>2, AtField, NextField
<1> QED
  BY <1>1, <1>3, <1>4, AtField, CallFits

LEMMA StringFits ==
  ASSUME NEW v, NEW n, NEW field \in Strings, NEW e \in BOOLEAN, v = StringOf(n[field])
  PROVE  ValueFits(v, n, field, e)
BY FieldSets DEF ValueFits, Text

LEMMA CreateStringFits == ASSUME MInv, CInv, CreateString PROVE CInv'
<1>1. /\ phase = "marshalling" /\ Field \in Strings /\ Content # NULL
      /\ This.at <= Len(FieldsOf(This.node.kind))
  BY DEF CreateString, Writes, AtStep
<1>2. PICK D : This \in Frames(D)
  BY <1>1, AtField
<1>3. Field \notin Lists /\ ~Skipped(This.node, Field)
  BY <1>1, AtField, FieldSets DEF Skipped
<1>4. ASSUME Becomes([Holds(This, "value") EXCEPT !.value = StringOf(Content), !.step = "put"]),
             Succeeds, Continues
      PROVE  CInv'
  <2> DEFINE f == [Holds(This, "value") EXCEPT !.value = StringOf(Content), !.step = "put"]
  <2>1. /\ f.node = This.node /\ f.at = This.at /\ f.pairs = This.pairs /\ f.step = "put"
        /\ f.value = StringOf(Content)
    BY <1>2 DEF Frames, Holds, Owners, Locals
  <2>2. Becomes(f) /\ phase' = phase /\ request' = request /\ starved' = starved /\ hollow' = hollow
    BY <1>4 DEF Continues, Succeeds
  <2> HIDE DEF f
  <2>3. ASSUME FrameFits(This, ~starved') PROVE FrameFits(f, ~starved')
    <3>1. FieldAt(f) = Field /\ (~starved') \in BOOLEAN
      BY <1>1, <2>1, <2>2, AtField DEF FieldAt
    <3>2. ValueFits(f.value, f.node, Field, ~starved')
      BY <1>1, <2>1, <3>1, AtField, StringFits
    <3>3. ValueFit(f, ~starved')
      BY <1>3, <2>1, <3>1, <3>2 DEF ValueFit
    <3> QED
      BY <1>1, <1>3, <2>1, <2>3, <3>1, <3>3, AtField, ValueGoesOn
  <2> QED
    BY <1>1, <2>1, <2>2, <2>3, AtField, CallFits
<1>5. ASSUME Field \in Unchecked, Starves, Continues,
             Becomes([This EXCEPT !.own["value"] = "none", !.value = NULL, !.step = "put"])
      PROVE  CInv'
  <2> DEFINE f == [This EXCEPT !.own["value"] = "none", !.value = NULL, !.step = "put"]
  <2>1. /\ f.node = This.node /\ f.at = This.at /\ f.pairs = This.pairs /\ f.step = "put"
        /\ f.value = NULL
    BY <1>2 DEF Frames, Owners, Locals
  <2>2. Becomes(f) /\ phase' = phase /\ request' = request /\ starved' = TRUE /\ hollow' = hollow
    BY <1>5 DEF Continues, Starves
  <2> HIDE DEF f
  <2>3. ASSUME FrameFits(This, ~starved') PROVE FrameFits(f, ~starved')
    <3>1. FieldAt(f) = Field /\ (~starved') \in BOOLEAN
      BY <1>1, <2>1, <2>2, AtField DEF FieldAt
    <3>2. ValueFit(f, ~starved')
      BY <1>3, <1>5, <2>1, <2>2, <3>1 DEF ValueFit
    <3> QED
      BY <1>1, <1>3, <2>1, <2>3, <3>1, <3>2, AtField, ValueGoesOn
  <2> QED
    BY <1>1, <2>1, <2>2, <2>3, CallFits
<1> QED
  BY <1>4, <1>5, GivesUpFits DEF CreateString

LEMMA MarshalNullFits == ASSUME MInv, CInv, MarshalNull PROVE CInv'
<1>1. /\ phase = "marshalling" /\ Field \in Children /\ Content = NULL
      /\ This.at <= Len(FieldsOf(This.node.kind))
  BY DEF MarshalNull, Writes, AtStep
<1>2. PICK D : This \in Frames(D)
  BY <1>1, AtField
<1>3. /\ Field \notin Lists /\ Field \notin Strings /\ ~Skipped(This.node, Field)
      /\ Field \notin {"values", "attributes", "subjects", "resources"}
  BY <1>1, FieldSets DEF Skipped
<1>4. ASSUME Becomes([Holds(This, "value") EXCEPT !.value = NullObject, !.step = "put"]),
             Succeeds, Continues
      PROVE  CInv'
  <2> DEFINE f == [Holds(This, "value") EXCEPT !.value = NullObject, !.step = "put"]
  <2>1. /\ f.node = This.node /\ f.at = This.at /\ f.pairs = This.pairs /\ f.step = "put"
        /\ f.value = NullObject
    BY <1>2 DEF Frames, Holds, Owners, Locals
  <2>2. Becomes(f) /\ phase' = phase /\ request' = request /\ starved' = starved /\ hollow' = hollow
    BY <1>4 DEF Continues, Succeeds
  <2> HIDE DEF f
  <2>3. ASSUME FrameFits(This, ~starved') PROVE FrameFits(f, ~starved')
    <3>1. FieldAt(f) = Field /\ (~starved') \in BOOLEAN
      BY <1>1, <2>1, <2>2, AtField DEF FieldAt
    <3>2. ValueFits(f.value, f.node, Field, ~starved')
      BY <1>1, <1>3, <2>1, AtField DEF ValueFits, MaybeHolder
    <3>3. ValueFit(f, ~starved')
      BY <1>3, <2>1, <3>1, <3>2 DEF ValueFit
    <3> QED
      BY <1>1, <1>3, <2>1, <2>3, <3>1, <3>3, AtField, ValueGoesOn
  <2> QED
    BY <1>1, <2>1, <2>2, <2>3, AtField, CallFits
<1> QED
  BY <1>4, GivesUpFits DEF MarshalNull

\* a list of a node is a sequence
LEMMA ContentIsSequence ==
  ASSUME MInv, NInv, phase = "marshalling", \A r \in Requests : WellFormed(r),
         This.at <= Len(FieldsOf(This.node.kind)), Field \in Lists
  PROVE  IsSequence(Content) /\ Content = This.node[Field]
<1>1. WellFormed(request) /\ PartOf(This.node, request) /\ Content = This.node[Field]
  BY AtField, ThisNode
<1>2. CASE This.node = request
  <2>1. Field = "subjects" \/ Field = "resources"
    BY <1>2, FieldKinds DEF Lists
  <2> QED BY <1>1, <1>2, <2>1 DEF WellFormed
<1>3. CASE This.node \in Holders(request)
  <2>1. Field = "attributes"
    BY <1>3, FieldKinds DEF Lists
  <2> QED BY <1>1, <1>3, <2>1 DEF WellFormed
<1>4. CASE This.node \in AttributesOf(request)
  <2>1. Field = "values"
    BY <1>4, FieldKinds DEF Lists
  <2> QED BY <1>1, <1>4, <2>1 DEF WellFormed
<1> QED
  BY <1>1, <1>2, <1>3, <1>4 DEF PartOf

LEMMA CreateListFits ==
  ASSUME MInv, NInv, CInv, CreateList, \A r \in Requests : WellFormed(r)
  PROVE  CInv'
<1>1. /\ phase = "marshalling" /\ Field \in Lists
      /\ This.at <= Len(FieldsOf(This.node.kind))
  BY DEF CreateList, Writes, AtStep
<1>2. PICK D : This \in Frames(D)
  BY <1>1, AtField
<1>3. ASSUME Becomes([Holds(This, "list") EXCEPT !.items = <<>>, !.step = "items"]),
             Succeeds, Continues
      PROVE  CInv'
  <2> DEFINE f == [Holds(This, "list") EXCEPT !.items = <<>>, !.step = "items"]
  <2>1. /\ f.node = This.node /\ f.at = This.at /\ f.pairs = This.pairs /\ f.step = "items"
        /\ f.items = <<>>
    BY <1>2 DEF Frames, Holds, Owners, Locals
  <2>2. Becomes(f) /\ phase' = phase /\ request' = request /\ starved' = starved /\ hollow' = hollow
    BY <1>3 DEF Continues, Succeeds
  <2> HIDE DEF f
  <2>3. ASSUME FrameFits(This, ~starved') PROVE FrameFits(f, ~starved')
    <3>1. FieldAt(f) = Field /\ (~starved') \in BOOLEAN /\ FieldAt(This) \in Lists
      BY <1>1, <2>1, <2>2, AtField DEF FieldAt
    <3>2. Len(f.node[Field]) \in Nat
      BY <1>1, <2>1, ContentIsSequence DEF IsSequence
    <3>3. ItemsFit(f, ~starved')
      BY <2>1, <3>1, <3>2 DEF ItemsFit
    <3> QED
      BY <1>1, <2>1, <2>3, <3>1, <3>3, ListGoesOn
  <2> QED
    BY <1>1, <2>1, <2>2, <2>3, AtField, CallFits
<1> QED
  BY <1>3, GivesUpFits DEF CreateList

LEMMA CreateElementFits == ASSUME MInv, NInv, CInv, CreateElement PROVE CInv'
<1>1. /\ phase = "marshalling" /\ This.step = "items" /\ Field = "values" /\ Field \in Lists
      /\ This.at <= Len(FieldsOf(This.node.kind)) /\ Len(This.items) < Len(Content)
  BY DEF CreateElement, Writes, AtStep, More, Lists
<1>2. PICK D : This \in Frames(D)
  BY <1>1, AtField
<1>3. ASSUME Becomes([Holds(This, "value") EXCEPT !.value = StringOf(NextItem), !.step = "append"]),
             Succeeds, Continues
      PROVE  CInv'
  <2> DEFINE f == [Holds(This, "value") EXCEPT !.value = StringOf(NextItem), !.step = "append"]
  <2>1. /\ f.node = This.node /\ f.at = This.at /\ f.pairs = This.pairs /\ f.step = "append"
        /\ f.items = This.items /\ f.value = StringOf(NextItem)
    BY <1>2 DEF Frames, Holds, Owners, Locals
  <2>2. Becomes(f) /\ phase' = phase /\ request' = request /\ starved' = starved /\ hollow' = hollow
    BY <1>3 DEF Continues, Succeeds
  <2> HIDE DEF f
  <2>3. ASSUME FrameFits(This, ~starved') PROVE FrameFits(f, ~starved')
    <3>1. FieldAt(f) = Field /\ (~starved') \in BOOLEAN /\ FieldAt(This) = Field
      BY <1>1, <2>1, <2>2, AtField DEF FieldAt
    <3>2. ItemsFit(This, ~starved')
      BY <1>1, <2>3 DEF FrameFits, HoldsList
    <3>3. f.value = StringOf(f.node.values[Len(f.items) + 1])
      BY <1>1, <2>1 DEF NextItem, Content
    <3>4. ItemFits(f.value, f.node, FieldAt(f), Len(f.items) + 1, ~starved')
      BY <1>1, <3>1, <3>3 DEF ItemFits
    <3>5. Len(f.items) < Len(f.node[FieldAt(f)])
      BY <1>1, <2>1, <3>1, AtField
    <3>6. ItemsFit(f, ~starved')
      BY <2>1, <3>1, <3>2, <3>4, <3>5 DEF ItemsFit
    <3> QED
      BY <1>1, <2>1, <2>3, <3>1, <3>6, ListGoesOn
  <2> QED
    BY <1>1, <2>1, <2>2, <2>3, AtField, CallFits
<1> QED
  BY <1>3, GivesUpFits DEF CreateElement

\* one element more
LEMMA ItemsGrow ==
  ASSUME NEW f, NEW g, NEW e \in BOOLEAN, NEW D, f.items \in Seq(D), f.value \in D,
         Len(f.node[FieldAt(f)]) \in Nat,
         ItemsFit(f, e), f.step = "append", g.step = "items", g.node = f.node,
         FieldAt(g) = FieldAt(f), g.items = Append(f.items, f.value)
  PROVE  ItemsFit(g, e)
<1> DEFINE n == Len(f.items)
           all == f.node[FieldAt(f)]
<1>1. n \in Nat /\ Len(g.items) = n + 1 /\ g.items[n + 1] = f.value
  OBVIOUS
<1>2. \A k \in 1 .. n : g.items[k] = f.items[k]
  OBVIOUS
<1>3. n < Len(all) /\ ItemFits(f.value, f.node, FieldAt(f), n + 1, e)
  BY DEF ItemsFit
<1>4. \A k \in 1 .. n : ItemFits(f.items[k], f.node, FieldAt(f), k, e)
  BY DEF ItemsFit
<1>5. Len(all) \in Nat
  OBVIOUS
<1> HIDE DEF n, all
<1>6. \A k \in 1 .. n + 1 : ItemFits(g.items[k], g.node, FieldAt(g), k, e)
  BY <1>1, <1>2, <1>3, <1>4
<1>7. n + 1 <= Len(all) /\ all = g.node[FieldAt(g)]
  BY <1>1, <1>3, <1>5 DEF all
<1> QED
  BY <1>1, <1>6, <1>7 DEF ItemsFit

LEMMA AppendItemFits ==
  ASSUME MInv, NInv, CInv, AppendItem, \A r \in Requests : WellFormed(r)
  PROVE  CInv'
<1>1. /\ phase = "marshalling" /\ This.step = "append" /\ Field \in Lists
      /\ This.at <= Len(FieldsOf(This.node.kind))
  BY DEF AppendItem, Writes, AtStep
<1>2. PICK D : This \in Frames(D)
  BY <1>1, AtField
<1>3. ASSUME Becomes([This EXCEPT !.items = Append(@, This.value), !.own["value"] = "given", !.step = "items"]),
             Succeeds, Continues
      PROVE  CInv'
  <2> DEFINE f == [This EXCEPT !.items = Append(@, This.value), !.own["value"] = "given", !.step = "items"]
  <2>1. /\ f.node = This.node /\ f.at = This.at /\ f.pairs = This.pairs /\ f.step = "items"
        /\ f.items = Append(This.items, This.value)
    BY <1>2 DEF Frames, Owners, Locals
  <2>2. Becomes(f) /\ phase' = phase /\ request' = request /\ starved' = starved /\ hollow' = hollow
    BY <1>3 DEF Continues, Succeeds
  <2> HIDE DEF f
  <2>3. ASSUME FrameFits(This, ~starved') PROVE FrameFits(f, ~starved')
    <3>1. FieldAt(f) = Field /\ (~starved') \in BOOLEAN /\ FieldAt(This) = Field
      BY <1>1, <2>1, <2>2, AtField DEF FieldAt
    <3>2. ItemsFit(This, ~starved')
      BY <1>1, <2>3 DEF FrameFits, HoldsList
    <3>3. Len(This.node[FieldAt(This)]) \in Nat
      BY <1>1, <3>1, ContentIsSequence DEF IsSequence
    <3>4. This.items \in Seq(D) /\ This.value \in D
      BY <1>2 DEF Frames
    <3>5. ItemsFit(f, ~starved')
      BY <1>1, <2>1, <3>1, <3>2, <3>3, <3>4, ItemsGrow
    <3> QED
      BY <1>1, <2>1, <2>3, <3>1, <3>5, ListGoesOn
  <2> QED
    BY <1>1, <2>1, <2>2, <2>3, AtField, CallFits
<1> QED
  BY <1>3, GivesUpFits DEF AppendItem

LEMMA EndOfItemsFits ==
  ASSUME MInv, NInv, CInv, EndOfItems, \A r \in Requests : WellFormed(r)
  PROVE  CInv'
<1>1. /\ phase = "marshalling" /\ This.step = "items" /\ Field \in Lists
      /\ This.at <= Len(FieldsOf(This.node.kind)) /\ ~(Len(This.items) < Len(Content))
      /\ Becomes([This EXCEPT !.step = "put"]) /\ Succeeds /\ Continues
  BY DEF EndOfItems, Writes, AtStep, More
<1>2. PICK D : This \in Frames(D)
  BY <1>1, AtField
<1> DEFINE f == [This EXCEPT !.step = "put"]
<1>3. /\ f.node = This.node /\ f.at = This.at /\ f.pairs = This.pairs /\ f.step = "put"
      /\ f.items = This.items
  BY <1>2 DEF Frames
<1>4. Becomes(f) /\ phase' = phase /\ request' = request /\ starved' = starved /\ hollow' = hollow
  BY <1>1 DEF Continues, Succeeds
<1> HIDE DEF f
<1>5. ASSUME FrameFits(This, ~starved') PROVE FrameFits(f, ~starved')
  <2>1. FieldAt(f) = Field /\ (~starved') \in BOOLEAN /\ FieldAt(This) = Field
    BY <1>1, <1>3, <1>4, AtField DEF FieldAt
  <2>2. ItemsFit(This, ~starved')
    BY <1>1, <1>5 DEF FrameFits, HoldsList
  <2>3. Len(f.items) = Len(f.node[FieldAt(f)])
    <3>1. Len(Content) \in Nat /\ Content = This.node[Field]
      BY <1>1, ContentIsSequence DEF IsSequence
    <3>2. Len(This.items) \in Nat
      BY <1>2 DEF Frames
    <3>3. Len(This.items) <= Len(Content)
      BY <2>1, <2>2, <3>1 DEF ItemsFit
    <3> QED
      BY <1>1, <1>3, <2>1, <3>1, <3>2, <3>3
  <2>4. ItemsFit(f, ~starved')
    BY <1>3, <2>1, <2>2, <2>3 DEF ItemsFit
  <2> QED
    BY <1>1, <1>3, <1>5, <2>1, <2>4, ListGoesOn
<1> QED
  BY <1>1, <1>3, <1>4, <1>5, AtField, CallFits

\* NULL is no Hessian object
NullApart == \A x, y : NULL \notin {StringOf(x), ListOf(x), MapOf(x, y), NullObject}

\* what fits is an object
LEMMA ObjectFits ==
  ASSUME NEW v, NEW n, NEW field \in Strings \cup Children, NEW e, ValueFits(v, n, field, e), NullApart
  PROVE  v # NULL
<1>1. CASE field \in Strings
  <2>1. v \in Text(n[field], e \/ field \notin Unchecked)
    BY <1>1 DEF ValueFits
  <2>2. v = StringOf(n[field]) \/ v = NullObject
    BY <2>1 DEF Text
  <2> QED BY <2>2 DEF NullApart
<1>2. CASE field \in Children
  <2>1. MaybeHolder(v, n[field], e)
    BY <1>2 DEF ValueFits
  <2>2. v = NullObject \/ \E x, y : v = MapOf(x, y)
    BY <2>1 DEF MaybeHolder, HolderMap
  <2> QED BY <2>2 DEF NullApart
<1> QED
  BY <1>1, <1>2

\* the pair that is put fits, and the next field is due
LEMMA PairFits ==
  ASSUME MInv, CInv, AtStep("put"), NEW v, Becomes(Pairs(v)), phase' = phase, request' = request,
         starved' \in BOOLEAN, starved => starved', hollow => hollow',
         ~hollow' /\ FrameFits(This, ~starved') => ValueFits(v, This.node, Field, ~starved')
  PROVE  CInv'
<1>1. phase = "marshalling" /\ This.step = "put"
  BY DEF AtStep
<1>2. PICK D : This \in Frames(D)
  BY <1>1, AtField
<1> DEFINE f == Pairs(v)
<1>3. /\ f.node = This.node /\ f.at = This.at + 1 /\ f.step = "field"
      /\ f.pairs = Append(This.pairs, <<Field, v>>)
  BY <1>2 DEF Frames, Pairs, Given
<1>4. Becomes(f)
  OBVIOUS
<1> HIDE DEF f
<1>5. ASSUME ~hollow', FrameFits(This, ~starved') PROVE FrameFits(f, ~starved')
  <2>1. ~Skipped(This.node, FieldAt(This)) /\ This.at <= Len(FieldsOf(This.node.kind))
    BY <1>1, <1>5 DEF FrameFits, ValueFit
  <2>2. FieldPut(This.pairs, f.pairs, This.node, FieldAt(This), ~starved')
    BY <1>1, <1>3, <1>5, <2>1, AtField DEF FieldPut
  <2>3. (~starved') \in BOOLEAN
    OBVIOUS
  <2> QED
    BY <1>1, <1>3, <1>5, <2>1, <2>2, <2>3, AtField, NextField
<1> QED
  BY <1>1, <1>3, <1>4, <1>5, CallFits

\* what the call is about to put fits, unless it could not be created
LEMMA DocumentFits ==
  ASSUME MInv, NInv, phase = "marshalling", This.step = "put", \A r \in Requests : WellFormed(r),
         NullApart, NEW e \in BOOLEAN, FrameFits(This, e)
  PROVE  \/ Document # NULL /\ ValueFits(Document, This.node, Field, e)
         \/ Document = NULL /\ Field \in Unchecked /\ ~e
<1>1. PICK D : This \in Frames(D)
  BY AtField
<1>2. FieldAt(This) = Field /\ This.at <= Len(FieldsOf(This.node.kind)) /\ ValueFit(This, e)
  BY AtField DEF FrameFits
<1>3. CASE Field \in Lists
  <2>1. ItemsFit(This, e)
    BY <1>2, <1>3 DEF FrameFits, HoldsList
  <2>2. IsSequence(This.node[FieldAt(This)])
    BY <1>2, <1>3, ContentIsSequence
  <2>3. This.items \in Seq(D)
    BY <1>1 DEF Frames
  <2>4. ValueFits(ListOf(This.items), This.node, FieldAt(This), e)
    BY <1>2, <1>3, <2>1, <2>2, <2>3, ListIsFull
  <2>5. ListOf(This.items) # NULL
    BY DEF NullApart
  <2> QED BY <1>2, <1>3, <2>4, <2>5 DEF Document
<1>4. CASE Field \notin Lists
  <2>1. Document = This.value
    BY <1>4 DEF Document
  <2>2. ValueFits(Document, This.node, Field, e) \/ (Field \in Unchecked /\ ~e /\ Document = NULL)
    BY <1>2, <1>4, <2>1 DEF ValueFit
  <2>3. Field \in Strings \cup Children
    <3>1. WellFormed(request) /\ PartOf(This.node, request)
      BY ThisNode
    <3> QED BY <1>2, <1>4, <3>1, FieldKinds DEF PartOf, Strings, Children, Lists
  <2> QED BY <2>2, <2>3, ObjectFits
<1> QED
  BY <1>3, <1>4

LEMMA NullFits ==
  ASSUME NEW n, NEW field \in Unchecked, NEW e \in BOOLEAN, ~e
  PROVE  ValueFits(NullObject, n, field, e)
BY DEF ValueFits, Text, Unchecked, Strings, Children

LEMMA PutPairFits ==
  ASSUME MInv, NInv, CInv, PutPair, \A r \in Requests : WellFormed(r), NullApart
  PROVE  CInv'
<1>1. AtStep("put") /\ phase = "marshalling" /\ This.step = "put" /\ starved \in BOOLEAN
  BY AtField DEF PutPair, AtStep
<1>2. CASE Document # NULL /\ Becomes(Pairs(Document)) /\ Succeeds /\ Continues
  <2>1. phase' = phase /\ request' = request /\ starved' = starved /\ hollow' = hollow
    BY <1>2 DEF Succeeds, Continues
  <2>2. (~starved') \in BOOLEAN /\ starved' \in BOOLEAN
    BY <1>1, <2>1
  <2>3. FrameFits(This, ~starved') => ValueFits(Document, This.node, Field, ~starved')
    BY <1>1, <1>2, <2>2, DocumentFits
  <2> QED
    BY <1>1, <1>2, <2>1, <2>2, <2>3, PairFits
<1>3. CASE Document = NULL /\ Becomes(Pairs(NullObject)) /\ Succeeds /\ Continues
  <2>1. phase' = phase /\ request' = request /\ starved' = starved /\ hollow' = hollow
    BY <1>3 DEF Succeeds, Continues
  <2>2. (~starved') \in BOOLEAN /\ starved' \in BOOLEAN
    BY <1>1, <2>1
  <2>3. FrameFits(This, ~starved') => ValueFits(NullObject, This.node, Field, ~starved')
    BY <1>1, <1>3, <2>2, DocumentFits, NullFits
  <2> QED
    BY <1>1, <1>3, <2>1, <2>2, <2>3, PairFits
<1>4. CASE Becomes(Pairs(NULL)) /\ hollow' = TRUE /\ phase' = phase
  BY <1>1, <1>4 DEF CInv
<1> QED
  BY <1>2, <1>3, <1>4 DEF PutPair

LEMMA FailuresFit ==
  ASSUME MissingId \/ KeyFails \/ AddFails \/ NullLost \/ CallerFails
  PROVE  CInv'
BY ExitFits DEF MissingId, KeyFails, AddFails, NullLost, CallerFails

\* the call waits for that of one of its parts
LEMMA CallsFit ==
  ASSUME MInv, CInv, phase = "marshalling", NEW n, Calls(n),
         NEW f, f = [This EXCEPT !.step = "calling"], CallsFor(f, n),
         FrameFits(This, ~starved) => FrameFits(f, ~starved)
  PROVE  CInv'
<1>1. PICK D : stack \in Seq(Frames(D)) /\ This \in Frames(D)
  BY ThisIs
<1> DEFINE g == FrameFor(n)
           t == [stack EXCEPT ![Len(stack)] = f]
           A == Frames(D) \cup {f, g}
<1>2. stack # <<>> /\ Len(stack) \in Nat \ {0} /\ starved \in BOOLEAN
  BY ThisIs DEF MInv, Clean
<1>3. f.node = This.node /\ g.node = n
  BY <1>1 DEF Frames, FrameFor
<1>4. /\ stack' = Append(t, g) /\ phase' = phase /\ request' = request
      /\ starved' = starved /\ hollow' = hollow
  BY DEF Calls, This, Continues, Succeeds
<1> SUFFICES ASSUME ~hollow PROVE StackFits'
  BY <1>4 DEF CInv
<1>5. StackFits
  BY DEF CInv
<1>6. stack \in Seq(A) /\ f \in A /\ g \in A
  <2> DEFINE B == Frames(D)
  <2>1. stack \in Seq(B) /\ B \subseteq A /\ f \in A /\ g \in A
    BY <1>1
  <2> HIDE DEF A, B, g
  <2> QED BY <2>1
<1>7. FrameFits(g, ~starved)
  BY <1>2, FrameForFits
<1> HIDE DEF A, g, t
<1>8. /\ t \in Seq(A) /\ Len(t) = Len(stack) /\ t[Len(t)] = f
      /\ \A k \in 1 .. Len(stack) - 1 : t[k] = stack[k]
  BY <1>2, <1>6, LastChanges DEF t
<1>9. /\ Len(stack') = Len(t) + 1 /\ stack'[Len(stack')] = g
      /\ \A k \in 1 .. Len(t) : stack'[k] = t[k]
  BY <1>4, <1>6, <1>8, Pushed
<1>10. FrameFits(f, ~starved)
  BY <1>2, <1>5 DEF StackFits, This
<1>11. ASSUME NEW k \in 1 .. Len(stack)
       PROVE  FrameFits(stack'[k], ~starved) /\ stack'[k].node = stack[k].node
  <2>1. k \in 1 .. Len(t) /\ stack'[k] = t[k]
    BY <1>8, <1>9
  <2>2. CASE k = Len(stack)
    BY <1>3, <1>8, <1>10, <2>1, <2>2 DEF This
  <2>3. CASE k # Len(stack)
    <3>1. k \in 1 .. Len(stack) - 1
      BY <1>2, <2>3
    <3>2. stack'[k] = stack[k]
      BY <1>8, <2>1, <3>1
    <3> QED BY <1>5, <3>2 DEF StackFits
  <2> QED
    BY <2>2, <2>3
<1>12. ASSUME NEW k \in 1 .. Len(stack') PROVE FrameFits(stack'[k], ~starved)
  <2>1. CASE k = Len(stack')
    BY <1>7, <1>9, <2>1
  <2>2. CASE k # Len(stack')
    <3>1. k \in 1 .. Len(stack)
      BY <1>2, <1>8, <1>9, <2>2
    <3> QED BY <1>11, <3>1
  <2> QED
    BY <2>1, <2>2
<1>13. ASSUME NEW k \in 1 .. Len(stack') - 1 PROVE CallsFor(stack'[k], stack'[k + 1].node)
  <2>1. k \in 1 .. Len(stack)
    BY <1>2, <1>8, <1>9
  <2>2. CASE k = Len(stack)
    <3>1. stack'[k] = f /\ stack'[k + 1] = g
      BY <1>2, <1>8, <1>9, <2>1, <2>2
    <3> QED BY <1>3, <3>1
  <2>3. CASE k # Len(stack)
    <3>1. k \in 1 .. Len(stack) - 1 /\ k + 1 \in 1 .. Len(stack)
      BY <1>2, <2>1, <2>3
    <3>2. stack'[k] = stack[k] /\ stack'[k + 1].node = stack[k + 1].node
      BY <1>8, <1>9, <1>11, <2>1, <3>1
    <3> QED BY <1>5, <3>1, <3>2 DEF StackFits
  <2> QED
    BY <2>2, <2>3
<1>14. stack'[1].node = request
  BY <1>2, <1>5, <1>11 DEF StackFits
<1> QED
  BY <1>4, <1>12, <1>13, <1>14 DEF StackFits

LEMMA MarshalElementFits ==
  ASSUME MInv, NInv, CInv, MarshalElement, \A r \in Requests : WellFormed(r)
  PROVE  CInv'
<1>1. /\ phase = "marshalling" /\ This.step = "items"
      /\ This.at <= Len(FieldsOf(This.node.kind))
      /\ Field \in {"attributes", "subjects", "resources"} /\ Field \in Lists
      /\ Len(This.items) < Len(Content) /\ Calls(NextItem)
  BY DEF MarshalElement, Writes, AtStep, Lists, More
<1>2. PICK D : This \in Frames(D)
  BY <1>1, AtField
<1>3. /\ FieldAt(This) = Field /\ Content = This.node[Field] /\ IsSequence(Content)
      /\ (~starved) \in BOOLEAN
  BY <1>1, AtField, ContentIsSequence
<1> DEFINE f == [This EXCEPT !.step = "calling"]
<1>4. /\ f.node = This.node /\ f.at = This.at /\ f.pairs = This.pairs /\ f.step = "calling"
      /\ f.items = This.items
  BY <1>2 DEF Frames
<1>5. f = [This EXCEPT !.step = "calling"]
  OBVIOUS
<1> HIDE DEF f
<1>6. FieldAt(f) = Field
  BY <1>3, <1>4 DEF FieldAt
<1>7. ASSUME FrameFits(This, ~starved) PROVE FrameFits(f, ~starved)
  <2>1. ItemsFit(This, ~starved)
    BY <1>1, <1>7 DEF FrameFits, HoldsList
  <2>2. ItemsFit(f, ~starved)
    BY <1>1, <1>3, <1>4, <1>6, <2>1 DEF ItemsFit
  <2> QED
    BY <1>1, <1>3, <1>4, <1>7, <2>2, ListGoesOn
<1>8. NextItem \in Elements(Content)
  <2>1. Len(This.items) \in Nat
    BY <1>2 DEF Frames
  <2> QED
    BY <1>1, <1>3, <2>1 DEF IsSequence, Elements, NextItem
<1>9. IF Field = "attributes" THEN NextItem.kind = "attribute" ELSE NextItem.kind \in HolderKinds
  <2>1. WellFormed(request) /\ PartOf(This.node, request)
    BY <1>1, ThisNode
  <2>2. CASE Field = "attributes"
    <3>1. This.node \in Holders(request)
      BY <1>1, <2>1, <2>2, FieldKinds DEF PartOf
    <3>2. NextItem \in AttributesOf(request)
      BY <1>3, <1>8, <2>2, <3>1, AttributesAre
    <3> QED BY <2>1, <2>2, <3>2 DEF WellFormed
  <2>3. CASE Field # "attributes"
    <3>1. This.node = request
      BY <1>1, <2>1, <2>3, FieldKinds DEF PartOf
    <3>2. Content = request.subjects \/ Content = request.resources
      BY <1>1, <1>3, <2>3, <3>1
    <3>3. NextItem \in Holders(request)
      BY <1>8, <3>2 DEF Holders
    <3> QED BY <2>1, <2>3, <3>3 DEF WellFormed
  <2> QED
    BY <2>2, <2>3
<1>10. CallsFor(f, NextItem)
  BY <1>1, <1>3, <1>4, <1>6, <1>9, FieldSets DEF CallsFor, NextItem
<1> QED
  BY <1>1, <1>5, <1>7, <1>10, CallsFit

LEMMA MarshalChildFits ==
  ASSUME MInv, NInv, CInv, MarshalChild, \A r \in Requests : WellFormed(r)
  PROVE  CInv'
<1>1. /\ phase = "marshalling" /\ This.step = "field"
      /\ This.at <= Len(FieldsOf(This.node.kind))
      /\ Field \in {"action", "environment"} /\ Field \in Children
      /\ Content # NULL /\ Calls(Content)
  BY DEF MarshalChild, Writes, AtStep, Children
<1>2. PICK D : This \in Frames(D)
  BY <1>1, AtField
<1>3. FieldAt(This) = Field /\ Content = This.node[Field] /\ (~starved) \in BOOLEAN
  BY <1>1, AtField
<1> DEFINE f == [This EXCEPT !.step = "calling"]
<1>4. /\ f.node = This.node /\ f.at = This.at /\ f.pairs = This.pairs /\ f.step = "calling"
      /\ f.items = This.items
  BY <1>2 DEF Frames
<1>5. f = [This EXCEPT !.step = "calling"]
  OBVIOUS
<1> HIDE DEF f
<1>6. FieldAt(f) = Field /\ Field \notin Lists
  BY <1>1, <1>3, <1>4, FieldSets DEF FieldAt
<1>7. FrameFits(This, ~starved) => FrameFits(f, ~starved)
  BY <1>1, <1>3, <1>4, <1>6, ValueGoesOn
<1>8. Content.kind \in HolderKinds
  <2>1. WellFormed(request) /\ PartOf(This.node, request)
    BY <1>1, ThisNode
  <2>2. This.node = request
    BY <1>1, <2>1, FieldKinds DEF PartOf
  <2>3. Content \in Holders(request)
    BY <1>1, <1>3, <2>2 DEF Holders
  <2> QED
    BY <2>1, <2>3 DEF WellFormed
<1>9. CallsFor(f, Content)
  BY <1>1, <1>3, <1>4, <1>6, <1>8, FieldSets DEF CallsFor
<1> QED
  BY <1>1, <1>5, <1>7, <1>9, CallsFit

\* the map that is returned is what its caller waits for
LEMMA ReturnedFits ==
  ASSUME NEW f, NEW g, NEW n, NEW ps, NEW e \in BOOLEAN, FrameFits(f, e), f.step = "calling",
         CallsFor(f, n), PairsFit(ps, n, Len(FieldsOf(n.kind)) + 1, e),
         g.node = f.node, g.at = f.at, g.pairs = f.pairs, g.items = f.items,
         g.value = MapOf(n.kind, ps),
         g.step = IF FieldAt(f) \in Lists THEN "append" ELSE "put"
  PROVE  FrameFits(g, e)
<1>1. FieldAt(g) = FieldAt(f) /\ f.at <= Len(FieldsOf(f.node.kind))
  BY DEF FrameFits, FieldAt
<1>2. FieldAt(f) = "attributes" => AttributeMap(g.value, n, e)
  BY AttributeIsWritten DEF CallsFor
<1>3. FieldAt(f) # "attributes" => HolderMap(g.value, n, e)
  BY HolderIsWritten DEF CallsFor
<1>4. CASE FieldAt(f) \in Lists
  <2>1. ItemsFit(f, e)
    BY <1>4 DEF FrameFits, HoldsList
  <2>2. n = f.node[FieldAt(f)][Len(f.items) + 1] /\ FieldAt(f) # "values"
    BY <1>4 DEF CallsFor
  <2>3. ItemFits(g.value, g.node, FieldAt(g), Len(g.items) + 1, e)
    BY <1>1, <1>2, <1>3, <2>2 DEF ItemFits
  <2>4. ItemsFit(g, e)
    BY <1>1, <1>4, <2>1, <2>3 DEF ItemsFit
  <2> QED
    BY <1>1, <1>4, <2>4, ListGoesOn
<1>5. CASE FieldAt(f) \notin Lists
  <2>1. FieldAt(f) \in Children /\ n = f.node[FieldAt(f)] /\ n # NULL
    BY <1>5 DEF CallsFor
  <2>2. /\ FieldAt(f) \notin Strings
        /\ FieldAt(f) \notin {"values", "attributes", "subjects", "resources"}
    BY <2>1, FieldSets
  <2>3. HolderMap(g.value, n, e)
    BY <1>3, <2>2
  <2>4. ValueFits(g.value, g.node, FieldAt(g), e)
    BY <1>1, <2>1, <2>2, <2>3 DEF ValueFits, MaybeHolder
  <2>5. ~Skipped(g.node, FieldAt(g))
    BY <1>1, <2>2, FieldSets DEF Skipped
  <2>6. ValueFit(g, e) /\ g.step = "put"
    BY <1>5, <2>4, <2>5 DEF ValueFit
  <2> QED
    BY <1>1, <1>5, <2>6, ValueGoesOn
<1> QED
  BY <1>4, <1>5

LEMMA ReturnFits ==
  ASSUME MInv, NInv, CInv, Return, \A r \in Requests : WellFormed(r)
  PROVE  CInv'
<1> DEFINE doc    == MapOf(This.node.kind, This.pairs)
           n      == Len(stack) - 1
           caller == stack[n]
           f      == [Holds(caller, "value") EXCEPT !.value = doc,
                        !.step = IF FieldAt(caller) \in Lists THEN "append" ELSE "put"]
<1>1. /\ phase = "marshalling" /\ request' = request /\ starved' = starved /\ hollow' = hollow
      /\ This.at > Len(FieldsOf(This.node.kind)) /\ phase' \in {"marshalling", "built"}
  BY DEF Return, AtStep, Succeeds
<1>2. Len(stack) \in Nat \ {0} /\ stack # <<>> /\ starved \in BOOLEAN /\ (~starved) \in BOOLEAN
  BY <1>1, ThisIs DEF MInv, Clean
<1> SUFFICES ASSUME ~hollow PROVE CInv'
  BY <1>1 DEF CInv
<1>3. StackFits
  BY <1>1 DEF CInv
<1>4. PairsFit(This.pairs, This.node, Len(FieldsOf(This.node.kind)) + 1, ~starved)
  <2>1. FrameFits(This, ~starved)
    BY <1>2, <1>3 DEF StackFits, This
  <2>2. This.at \in Nat /\ Len(FieldsOf(This.node.kind)) \in Nat
    BY <1>1, AtField, FieldsLength
  <2>3. This.at <= Len(FieldsOf(This.node.kind)) + 1
    BY <2>1 DEF FrameFits
  <2>4. This.at = Len(FieldsOf(This.node.kind)) + 1
    BY <1>1, <2>2, <2>3
  <2> QED
    BY <2>1, <2>4 DEF FrameFits
<1>5. CASE Len(stack) = 1 /\ sent' = doc /\ phase' = "built"
  <2>1. This.node = request
    BY <1>3, <1>5 DEF StackFits, This
  <2>2. request.kind = "request"
    BY <1>1, ThisNode DEF WellFormed
  <2>3. RequestMap(doc, request, ~starved)
    BY <1>2, <1>4, <2>1, <2>2, RequestIsWritten
  <2> QED
    BY <1>1, <1>5, <2>3 DEF CInv
<1>6. CASE Len(stack) > 1 /\ stack' = [Callers EXCEPT ![Len(Callers)] = f] /\ phase' = phase
  <2>1. PICK D : stack \in Seq(Frames(D))
    BY DEF MInv, Typed
  <2> DEFINE B == Frames(D)
             A == B \cup {f}
  <2>2. n \in 1 .. Len(stack) /\ n \in 1 .. Len(stack) - 1
    BY <1>2, <1>6
  <2>3. caller \in B
    <3>1. stack \in Seq(B)
      BY <2>1
    <3> HIDE DEF B
    <3> QED BY <2>2, <3>1
  <2>4. /\ f.node = caller.node /\ f.at = caller.at /\ f.pairs = caller.pairs
        /\ f.items = caller.items /\ f.value = doc
        /\ f.step = IF FieldAt(caller) \in Lists THEN "append" ELSE "put"
    BY <2>3 DEF Frames, Holds, Owners, Locals
  <2>5. caller.step = "calling"
    BY <2>2 DEF MInv, Waiting
  <2>6. FrameFits(caller, ~starved) /\ CallsFor(caller, This.node)
    <3>1. FrameFits(stack[n], ~starved) /\ CallsFor(stack[n], stack[n + 1].node)
      BY <1>3, <2>2 DEF StackFits
    <3>2. n + 1 = Len(stack)
      BY <1>2
    <3> QED
      BY <3>1, <3>2 DEF This
  <2> HIDE DEF f, doc, caller
  <2>7. FrameFits(f, ~starved)
    <3>1. f.value = MapOf(This.node.kind, This.pairs)
      BY <2>4 DEF doc
    <3> QED
      BY <1>2, <1>4, <2>4, <2>5, <2>6, <3>1, ReturnedFits
  <2>8. stack \in Seq(A) /\ f \in A
    <3>1. stack \in Seq(B) /\ B \subseteq A /\ f \in A
      BY <2>1
    <3> HIDE DEF A, B
    <3> QED BY <3>1
  <2> HIDE DEF A, B, n
  <2>9. /\ Callers \in Seq(A) /\ Len(Callers) = n
        /\ \A k \in 1 .. n : Callers[k] = stack[k]
    BY <1>2, <2>8, FrontIs DEF Callers, n
  <2>10. Callers # <<>>
    BY <2>2, <2>9, LengthIs
  <2>11. /\ Len(stack') = n /\ stack'[n] = f
         /\ \A k \in 1 .. n - 1 : stack'[k] = Callers[k]
    BY <1>6, <2>8, <2>9, <2>10, LastChanges
  <2>12. n \in Nat \ {0} /\ 1 .. n \subseteq 1 .. Len(stack) /\ 1 .. n - 1 \subseteq 1 .. Len(stack) - 1
    <3>1. n = Len(stack) - 1 /\ n \in 1 .. Len(stack)
      BY <2>2 DEF n
    <3> QED
      BY <1>2, <3>1
  <2>13. ASSUME NEW k \in 1 .. n
         PROVE  FrameFits(stack'[k], ~starved) /\ stack'[k].node = stack[k].node
    <3>1. CASE k = n
      BY <2>4, <2>7, <2>11, <3>1 DEF caller
    <3>2. CASE k # n
      <4>1. k \in 1 .. n - 1
        BY <2>12, <3>2
      <4>2. stack'[k] = stack[k] /\ k \in 1 .. Len(stack)
        BY <2>9, <2>11, <2>12, <4>1
      <4> QED
        BY <1>3, <4>2 DEF StackFits
    <3> QED
      BY <3>1, <3>2
  <2>14. ASSUME NEW k \in 1 .. n - 1 PROVE CallsFor(stack'[k], stack'[k + 1].node)
    <3>1. k \in 1 .. n /\ k + 1 \in 1 .. n /\ k \in 1 .. Len(stack) - 1
      BY <2>12
    <3>2. stack'[k] = stack[k] /\ stack'[k + 1].node = stack[k + 1].node
      BY <2>9, <2>11, <2>13, <3>1
    <3> QED
      BY <1>3, <3>1, <3>2 DEF StackFits
  <2>15. stack'[1].node = request
    BY <1>3, <2>12, <2>13 DEF StackFits
  <2>16. StackFits'
    BY <1>1, <2>11, <2>13, <2>14, <2>15 DEF StackFits
  <2> QED
    BY <1>1, <1>6, <2>16 DEF CInv
<1> QED
  BY <1>5, <1>6 DEF Return, FieldAt

LEMMA StartFits == ASSUME NEW r, Start(r) PROVE CInv'
<1> DEFINE g == FrameFor(r)
<1>1. g.node = r /\ FrameFits(g, TRUE)
  BY FrameForFits DEF FrameFor
<1>2. stack' = <<g>> /\ phase' = "marshalling" /\ request' = r /\ starved' = FALSE
  BY DEF Start
<1> HIDE DEF g
<1>3. Len(stack') = 1 /\ stack'[1] = g
  BY <1>2
<1>4. ~starved' = TRUE
  BY <1>2
<1>5. \A k \in 1 .. Len(stack') : FrameFits(stack'[k], ~starved')
  <2>1. \A k \in 1 .. Len(stack') : k = 1
    BY <1>3
  <2> QED
    BY <1>1, <1>3, <1>4, <2>1
<1>6. StackFits'
  BY <1>1, <1>2, <1>3, <1>5 DEF StackFits
<1> QED
  BY <1>2, <1>6 DEF CInv

\* the memory may have been short for the serialization
LEMMA SerializeFits == ASSUME MInv, CInv, Serialize PROVE CInv'
<1>1. /\ phase = "built" /\ request' = request /\ hollow' = hollow /\ phase' \in {"sent", "failed"}
      /\ (phase' = "sent" => ~hollow)
  BY DEF Serialize
<1> SUFFICES ASSUME ~hollow, phase' = "sent" PROVE RequestMap(sent', request', ~starved')
  BY <1>1 DEF CInv
<1>2. sent' = sent /\ RequestMap(sent, request, ~starved)
  BY <1>1 DEF Serialize, CInv
<1>3. starved \in BOOLEAN /\ (starved' = starved \/ starved' = TRUE)
  BY DEF MInv, Clean, Serialize, Destroys
<1>4. (~starved) \in BOOLEAN /\ (~starved') \in BOOLEAN /\ (~starved' => ~starved)
  BY <1>3, Zenon
<1>5. RequestMap(sent, request, ~starved')
  BY <1>2, <1>4, RequestStill
<1> QED
  BY <1>1, <1>2, <1>5

LEMMA CInvHolds ==
  ASSUME \A r \in Requests : WellFormed(r), NullApart
  PROVE  MSpec => []CInv
<1>1. MInit => CInv
  BY DEF MInit, CInv
<1>2. MInv /\ NInv /\ CInv /\ [MNext]_mvars => CInv'
  <2> SUFFICES ASSUME MInv, NInv, CInv, [MNext]_mvars PROVE CInv'
    OBVIOUS
  <2>1. CASE UNCHANGED mvars
    BY <2>1 DEF mvars, CInv, StackFits
  <2>2. CASE MStep
    BY <2>2, CreateMapFits, SkipOptionalFits, CreateStringFits, CreateListFits,
       CreateElementFits, MarshalElementFits, MarshalChildFits, MarshalNullFits,
       AppendItemFits, EndOfItemsFits, PutPairFits, FailuresFit, ReturnFits,
       SerializeFits DEF MStep
  <2>3. CASE \E r \in Requests : Start(r)
    BY <2>3, StartFits
  <2> QED BY <2>1, <2>2, <2>3 DEF MNext
<1> QED BY <1>1, <1>2, MInvHolds, NInvHolds, PTL DEF MSpec

-----------------------------------------------------------------------------
(***************************************************************************)
(* Requests of any size and depth, whatever allocation fails: each of the  *)
(* marshal functions of io.c deletes on its error exits what its variables *)
(* own, and none of what a map or a list holds already.                    *)
(***************************************************************************)
THEOREM MarshallingReleasesLocals == MSpec => []LocalsReleased
<1>1. MInv => LocalsReleased
  BY DEF MInv, Clean
<1> QED BY <1>1, MInvHolds, PTL

(***************************************************************************)
(* While there is memory, marshalling a request loses nothing, leaves no   *)
(* pair without a value, and fails only where an attribute has no id,      *)
(* however many subjects, resources and attributes it has.  The objects    *)
(* are taken to have the types of their structs.                           *)
(***************************************************************************)
THEOREM MarshallingFailsOnlyStarved ==
  ASSUME \A r \in Requests : WellFormed(r)
  PROVE  MSpec => []OnlyStarvationFails
<1>1. MInv /\ NInv => OnlyStarvationFails
  BY DEF MInv, Clean, NInv, OnlyStarvationFails
<1> QED BY <1>1, MInvHolds, NInvHolds, PTL

(***************************************************************************)
(* The object that is sent is that of the whole request, however many      *)
(* subjects, resources, attributes and values it has and whatever          *)
(* allocations fail: each map has the pairs of its fields in their order,  *)
(* each list all its elements in theirs; at most a datatype or an issuer   *)
(* has become null, and only for want of memory.                           *)
(***************************************************************************)
THEOREM MarshallingIsComplete ==
  ASSUME \A r \in Requests : WellFormed(r), NullApart
  PROVE  MSpec => []RequestIsComplete
<1>1. CInv => RequestIsComplete
  BY DEF CInv, RequestIsComplete
<1> QED BY <1>1, CInvHolds, PTL

-----------------------------------------------------------------------------
(* Induction over the natural numbers, for a set: a set that is not all of *)
(* Nat would lack a smallest number, as intervals are finite sets.         *)

LEMMA SmallestMissing ==
  ASSUME NEW T, NEW n \in Nat, n \notin T
  PROVE  \E m \in Nat : m \notin T /\ \A k \in Nat : k < m => k \in T
<1> DEFINE Missing == {k \in Nat : k \notin T}
           Smaller(k) == 0 .. k - 1
           Intervals == {Smaller(k) : k \in Missing}
           R == StrictSubsetOrdering(Nat)
<1>1. IsWellFoundedOn(R, FiniteSubsetsOf(Nat))
  BY FS_StrictSubsetOrderingWellFounded
<1>2. Intervals \subseteq FiniteSubsetsOf(Nat)
  <2> SUFFICES ASSUME NEW k \in Missing PROVE Smaller(k) \in FiniteSubsetsOf(Nat)
    OBVIOUS
  <2>1. Smaller(k) \in SUBSET Nat
    OBVIOUS
  <2>2. IsFiniteSet(Smaller(k))
    BY FS_Interval
  <2> QED
    BY <2>1, <2>2 DEF FiniteSubsetsOf
<1>3. Intervals # {}
  OBVIOUS
<1>4. PICK x \in Intervals : \A y \in Intervals : <<y, x>> \notin R
  <2> HIDE DEF Intervals, R
  <2> QED
    BY <1>1, <1>2, <1>3, WFMin
<1>5. PICK m \in Missing : x = Smaller(m)
  OBVIOUS
<1>6. ASSUME NEW k \in Nat, k < m, k \notin T PROVE FALSE
  <2>1. Smaller(k) \in Intervals
    BY <1>6
  <2>2. k \in Smaller(m) /\ k \notin Smaller(k) /\ Smaller(k) \subseteq Smaller(m)
    BY <1>6
  <2>3. Smaller(k) \in SUBSET Nat /\ Smaller(m) \in SUBSET Nat
    OBVIOUS
  <2>4. <<Smaller(k), Smaller(m)>> \in R
    <3> HIDE DEF Smaller
    <3> QED
      BY <2>2, <2>3 DEF StrictSubsetOrdering
  <2> QED
    BY <1>4, <1>5, <2>1, <2>4
<1> QED
  BY <1>6

LEMMA SetInduction ==
  ASSUME NEW T, 0 \in T, \A n \in Nat : n \in T => n + 1 \in T
  PROVE  \A n \in Nat : n \in T
<1> SUFFICES ASSUME NEW n \in Nat, n \notin T PROVE FALSE
  OBVIOUS
<1>1. PICK m \in Nat : m \notin T /\ \A k \in Nat : k < m => k \in T
  BY SmallestMissing
<1>2. m # 0 /\ m - 1 \in Nat /\ m - 1 < m
  BY <1>1
<1>3. (m - 1) + 1 \in T
  BY <1>1, <1>2
<1> QED
  BY <1>1, <1>3

-----------------------------------------------------------------------------
(* What is below an object: the least set that holds it and, with every    *)
(* object, its parts.                                                      *)

Kids(h, x) == Elements(h[x].parts)
PartsFollow(h) == \A x \in 1 .. Len(h) : Kids(h, x) \subseteq x + 1 .. Len(h)

HoldsKids(h, S) == \A x \in S : Kids(h, x) \subseteq S
LeastBelow(h, o) ==
  {y \in 1 .. Len(h) : \A S \in SUBSET (1 .. Len(h)) : o \in S /\ HoldsKids(h, S) => y \in S}

IsBelow(h, f) == f = [x \in 1 .. Len(h) |-> {x} \cup UNION {f[y] : y \in Kids(h, x)}]
BelowOf(h, o) == (CHOOSE f : IsBelow(h, f))[o]

LEMMA BelowIs == \A h, o : Below(h, o) = BelowOf(h, o)
BY DEF Below, BelowOf, IsBelow, Kids, Elements

LEMMA KidsFollow ==
  ASSUME NEW h, Len(h) \in Nat, PartsFollow(h), NEW x \in 1 .. Len(h), NEW y \in Kids(h, x)
  PROVE  y \in 1 .. Len(h) /\ x < y
<1>1. Kids(h, x) \subseteq x + 1 .. Len(h)
  BY DEF PartsFollow
<1> QED
  BY <1>1

LEMMA LeastHoldsKids ==
  ASSUME NEW h, Len(h) \in Nat, PartsFollow(h), NEW o \in 1 .. Len(h)
  PROVE  o \in LeastBelow(h, o) /\ HoldsKids(h, LeastBelow(h, o))
<1>1. o \in LeastBelow(h, o)
  BY DEF LeastBelow
<1>2. ASSUME NEW x \in LeastBelow(h, o), NEW y \in Kids(h, x)
      PROVE  y \in LeastBelow(h, o)
  <2>1. x \in 1 .. Len(h)
    BY DEF LeastBelow
  <2>2. y \in 1 .. Len(h)
    BY <2>1, KidsFollow
  <2>3. ASSUME NEW S \in SUBSET (1 .. Len(h)), o \in S, HoldsKids(h, S) PROVE y \in S
    <3>1. x \in S
      BY <2>3 DEF LeastBelow
    <3> QED
      BY <2>3, <3>1 DEF HoldsKids
  <2> QED
    BY <2>2, <2>3 DEF LeastBelow
<1> QED
  BY <1>1, <1>2 DEF HoldsKids

LEMMA LeastIsLeast ==
  ASSUME NEW h, NEW o \in 1 .. Len(h), NEW S \in SUBSET (1 .. Len(h)), o \in S, HoldsKids(h, S)
  PROVE  LeastBelow(h, o) \subseteq S
BY DEF LeastBelow

LEMMA LeastUnfolds ==
  ASSUME NEW h, Len(h) \in Nat, PartsFollow(h), NEW x \in 1 .. Len(h)
  PROVE  LeastBelow(h, x) = {x} \cup UNION {LeastBelow(h, y) : y \in Kids(h, x)}
<1> DEFINE S == {x} \cup UNION {LeastBelow(h, y) : y \in Kids(h, x)}
<1>1. \A y \in Kids(h, x) : y \in 1 .. Len(h)
  BY KidsFollow
<1>2. S \in SUBSET (1 .. Len(h))
  BY DEF LeastBelow
<1>3. HoldsKids(h, S)
  <2> SUFFICES ASSUME NEW w \in S, NEW k \in Kids(h, w) PROVE k \in S
    BY DEF HoldsKids
  <2>1. CASE w = x
    <3>1. k \in LeastBelow(h, k)
      BY <1>1, <2>1, LeastHoldsKids
    <3> QED
      BY <2>1, <3>1
  <2>2. CASE w # x
    <3>1. PICK y \in Kids(h, x) : w \in LeastBelow(h, y)
      BY <2>2
    <3>2. HoldsKids(h, LeastBelow(h, y))
      BY <1>1, LeastHoldsKids
    <3>3. k \in LeastBelow(h, y)
      BY <3>1, <3>2 DEF HoldsKids
    <3> QED
      BY <3>3
  <2> QED
    BY <2>1, <2>2
<1>4. LeastBelow(h, x) \subseteq S
  <2> HIDE DEF S
  <2>1. x \in S
    BY DEF S
  <2> QED
    BY <1>2, <1>3, <2>1, LeastIsLeast
<1>5. ASSUME NEW y \in Kids(h, x) PROVE LeastBelow(h, y) \subseteq LeastBelow(h, x)
  <2>1. LeastBelow(h, x) \in SUBSET (1 .. Len(h))
    BY DEF LeastBelow
  <2>2. x \in LeastBelow(h, x) /\ HoldsKids(h, LeastBelow(h, x))
    BY LeastHoldsKids
  <2>3. y \in LeastBelow(h, x) /\ y \in 1 .. Len(h)
    BY <2>2, <1>1 DEF HoldsKids
  <2> QED
    BY <2>1, <2>2, <2>3, LeastIsLeast
<1>6. x \in LeastBelow(h, x)
  BY LeastHoldsKids
<1> QED
  BY <1>4, <1>5, <1>6

LEMMA BelowIsLeast ==
  ASSUME NEW h, Len(h) \in Nat, PartsFollow(h), NEW o \in 1 .. Len(h)
  PROVE  Below(h, o) = LeastBelow(h, o)
<1> DEFINE n == Len(h)
           g == [x \in 1 .. n |-> LeastBelow(h, x)]
           f == CHOOSE f : IsBelow(h, f)
<1>1. IsBelow(h, g)
  <2>1. ASSUME NEW x \in 1 .. n PROVE g[x] = {x} \cup UNION {g[y] : y \in Kids(h, x)}
    <3>1. \A y \in Kids(h, x) : y \in 1 .. n
      BY KidsFollow
    <3>2. LeastBelow(h, x) = {x} \cup UNION {LeastBelow(h, y) : y \in Kids(h, x)}
      BY LeastUnfolds
    <3> QED
      BY <3>1, <3>2
  <2> QED
    BY <2>1 DEF IsBelow
<1>2. IsBelow(h, f)
  BY <1>1
<1>3. \A x \in 1 .. n : f[x] = {x} \cup UNION {f[y] : y \in Kids(h, x)}
  <2> HIDE DEF f
  <2> QED
    BY <1>2 DEF IsBelow
<1> DEFINE T == {j \in Nat : \A x \in 1 .. n : n - x < j => f[x] = LeastBelow(h, x)}
<1> HIDE DEF f
<1>4. 0 \in T
  OBVIOUS
<1>5. ASSUME NEW j \in Nat, j \in T PROVE j + 1 \in T
  <2> SUFFICES ASSUME NEW x \in 1 .. n, n - x < j + 1 PROVE f[x] = LeastBelow(h, x)
    OBVIOUS
  <2>1. ASSUME NEW y \in Kids(h, x) PROVE f[y] = LeastBelow(h, y)
    <3>1. y \in 1 .. n /\ x < y
      BY KidsFollow
    <3>2. n - y < j
      BY <3>1
    <3> QED
      BY <1>5, <3>1, <3>2
  <2>2. LeastBelow(h, x) = {x} \cup UNION {LeastBelow(h, y) : y \in Kids(h, x)}
    BY LeastUnfolds
  <2> QED
    BY <1>3, <2>1, <2>2
<1>6. \A j \in Nat : j \in T
  <2> HIDE DEF T
  <2> QED
    BY <1>4, <1>5, SetInduction
<1>7. n - o + 1 \in Nat /\ n - o < n - o + 1
  OBVIOUS
<1>8. f[o] = LeastBelow(h, o)
  BY <1>6, <1>7
<1> QED
  BY <1>8, BelowIs DEF BelowOf, f

LEMMA AllBelowHoldsKids ==
  ASSUME NEW h, Len(h) \in Nat, PartsFollow(h), NEW R \in SUBSET (1 .. Len(h))
  PROVE  /\ R \subseteq AllBelow(h, R)
         /\ AllBelow(h, R) \subseteq 1 .. Len(h)
         /\ HoldsKids(h, AllBelow(h, R))
<1>1. \A o \in R : o \in 1 .. Len(h) /\ Below(h, o) = LeastBelow(h, o)
  BY BelowIsLeast
<1>2. AllBelow(h, R) = UNION {LeastBelow(h, o) : o \in R}
  BY <1>1 DEF AllBelow
<1>3. \A o \in R : o \in LeastBelow(h, o) /\ HoldsKids(h, LeastBelow(h, o))
  BY LeastHoldsKids
<1>4. \A o : LeastBelow(h, o) \subseteq 1 .. Len(h)
  BY DEF LeastBelow
<1>5. HoldsKids(h, AllBelow(h, R))
  BY <1>2, <1>3 DEF HoldsKids
<1> QED
  BY <1>2, <1>3, <1>4, <1>5

LEMMA AllBelowIsLeast ==
  ASSUME NEW h, Len(h) \in Nat, PartsFollow(h), NEW R \in SUBSET (1 .. Len(h)),
         NEW S \in SUBSET (1 .. Len(h)), R \subseteq S, HoldsKids(h, S)
  PROVE  AllBelow(h, R) \subseteq S
<1>1. \A o \in R : o \in 1 .. Len(h) /\ Below(h, o) = LeastBelow(h, o)
  BY BelowIsLeast
<1>2. AllBelow(h, R) = UNION {LeastBelow(h, o) : o \in R}
  BY <1>1 DEF AllBelow
<1>3. \A o \in R : LeastBelow(h, o) \subseteq S
  BY LeastIsLeast
<1> QED
  BY <1>2, <1>3

(***************************************************************************)
(* Objects may gain parts and the set F be given up: what was below the    *)
(* roots R still is below R2, when R2 and F reach R.                       *)
(***************************************************************************)
LEMMA ReachIsKept ==
  ASSUME NEW h, Len(h) \in Nat, PartsFollow(h), NEW h2, Len(h2) \in Nat, PartsFollow(h2),
         Len(h) <= Len(h2),
         \A x \in 1 .. Len(h) : Kids(h, x) \subseteq Kids(h2, x),
         NEW F \in SUBSET (1 .. Len(h)), HoldsKids(h, F),
         NEW R \in SUBSET (1 .. Len(h)), NEW R2 \in SUBSET (1 .. Len(h2)),
         R \subseteq AllBelow(h2, R2) \cup F
  PROVE  AllBelow(h, R) \subseteq AllBelow(h2, R2) \cup F
<1> DEFINE S == {x \in 1 .. Len(h) : x \in AllBelow(h2, R2) \cup F}
<1>1. HoldsKids(h, S)
  <2> SUFFICES ASSUME NEW x \in S, NEW y \in Kids(h, x) PROVE y \in S
    BY DEF HoldsKids
  <2>1. y \in 1 .. Len(h)
    BY KidsFollow
  <2>2. CASE x \in F
    BY <2>1, <2>2 DEF HoldsKids
  <2>3. CASE x \in AllBelow(h2, R2)
    <3>1. HoldsKids(h2, AllBelow(h2, R2))
      BY AllBelowHoldsKids
    <3>2. y \in Kids(h2, x)
      OBVIOUS
    <3>3. y \in AllBelow(h2, R2)
      BY <2>3, <3>1, <3>2 DEF HoldsKids
    <3> QED
      BY <2>1, <3>3
  <2> QED
    BY <2>2, <2>3
<1>2. S \in SUBSET (1 .. Len(h)) /\ R \subseteq S
  OBVIOUS
<1>3. AllBelow(h, R) \subseteq S
  <2> HIDE DEF S
  <2> QED
    BY <1>1, <1>2, AllBelowIsLeast
<1> QED
  BY <1>3

-----------------------------------------------------------------------------
(* Sequences, and sequences one of whose members changes.                  *)

LEMMA SeqGrows ==
  ASSUME NEW S, NEW T, S \subseteq T, NEW s \in Seq(S)
  PROVE  s \in Seq(T)
  OBVIOUS

LEMMA MemberChanges ==
  ASSUME NEW A, NEW s \in Seq(A), NEW o \in 1 .. Len(s), NEW e \in A
  PROVE  LET t == [s EXCEPT ![o] = e]
         IN  /\ t \in Seq(A) /\ Len(t) = Len(s) /\ t[o] = e
             /\ \A k \in 1 .. Len(s) : k # o => t[k] = s[k]
  OBVIOUS

-----------------------------------------------------------------------------
(* Heaps.                                                                  *)

IsRecord(o) ==
  o = [type |-> o.type, value |-> o.value, text |-> o.text, class |-> o.class,
       parts |-> o.parts, freed |-> o.freed]

Marked(o, v) == [o EXCEPT !.freed = v]

LEMMA FreedChanges ==
  ASSUME NEW o, IsRecord(o), NEW v
  PROVE  LET e == Marked(o, v)
         IN  IsRecord(e) /\ e.type = o.type /\ e.parts = o.parts /\ e.freed = v
  BY DEF IsRecord, Marked

LEMMA PartsChange ==
  ASSUME NEW o, IsRecord(o), NEW v
  PROVE  LET e == [o EXCEPT !.parts = v]
         IN  IsRecord(e) /\ e.type = o.type /\ e.parts = v /\ e.freed = o.freed
  BY DEF IsRecord

LEMMA TextIsOfNoInterest ==
  ASSUME NEW o, IsRecord(o), NEW v
  PROVE  LET e == [o EXCEPT !.text = v]
         IN  IsRecord(e) /\ e.type = o.type /\ e.parts = o.parts /\ e.freed = o.freed
  BY DEF IsRecord

\* an object that may be the xth of n
IsObject(o, x, n) ==
  /\ IsRecord(o)
  /\ o.parts \in Seq(x + 1 .. n)
  /\ o.freed \in BOOLEAN
  /\ o.type = "ref" => o.parts = <<>>

IsHeap(h) ==
  /\ \E D : h \in Seq(D)
  /\ \A x \in 1 .. Len(h) : IsObject(h[x], x, Len(h))

LEMMA HeapIs ==
  ASSUME NEW h, IsHeap(h)
  PROVE  /\ Len(h) \in Nat /\ DOMAIN h = 1 .. Len(h) /\ PartsFollow(h)
         /\ \A x \in 1 .. Len(h) : h[x].type = "ref" => Kids(h, x) = {}
<1>1. PICK D : h \in Seq(D)
  BY DEF IsHeap
<1>2. Len(h) \in Nat /\ DOMAIN h = 1 .. Len(h)
  BY <1>1, LengthIs
<1>3. ASSUME NEW x \in 1 .. Len(h) PROVE Kids(h, x) \subseteq x + 1 .. Len(h)
  <2> DEFINE p == h[x].parts
             A == x + 1 .. Len(h)
  <2>1. p \in Seq(A)
    BY DEF IsHeap, IsObject
  <2> HIDE DEF p, A
  <2>2. DOMAIN p = 1 .. Len(p) /\ \A k \in 1 .. Len(p) : p[k] \in A
    BY <2>1, LengthIs
  <2> QED
    BY <2>2 DEF Kids, Elements, p, A
<1>4. ASSUME NEW x \in 1 .. Len(h), h[x].type = "ref" PROVE Kids(h, x) = {}
  <2>1. h[x].parts = <<>>
    BY <1>4 DEF IsHeap, IsObject
  <2>2. DOMAIN h[x].parts = {}
    BY <2>1
  <2> QED
    BY <2>2 DEF Kids, Elements
<1> QED
  BY <1>2, <1>3, <1>4 DEF PartsFollow

\* h2 has the objects of h, and these may have gained parts
Extends(h2, h) ==
  /\ Len(h) <= Len(h2)
  /\ \A x \in 1 .. Len(h) : h2[x].type = h[x].type /\ Kids(h, x) \subseteq Kids(h2, x)
                            /\ (h[x].freed => h2[x].freed)

SameMarks(h2, h) ==
  \A x \in 1 .. Len(h) : h2[x].freed = h[x].freed /\ h2[x].type = h[x].type

LEMMA ObjectGrows ==
  ASSUME NEW x \in Nat, NEW n \in Nat, NEW m \in Nat, n <= m, NEW o, IsObject(o, x, n)
  PROVE  IsObject(o, x, m)
<1>1. x + 1 .. n \subseteq x + 1 .. m
  OBVIOUS
<1>2. o.parts \in Seq(x + 1 .. n)
  BY DEF IsObject
<1>3. o.parts \in Seq(x + 1 .. m)
  BY <1>1, <1>2, SeqGrows
<1> QED
  BY <1>3 DEF IsObject

(***************************************************************************)
(* An object is allocated: it has no parts, and all others are as before.  *)
(***************************************************************************)
LEMMA AllocatedIs ==
  ASSUME NEW h, IsHeap(h), NEW type, NEW value, NEW text, NEW class
  PROVE  LET h2 == Append(h, Object(type, value, text, class))
             n == Len(h) + 1
         IN  /\ IsHeap(h2) /\ Extends(h2, h) /\ Len(h2) = n
             /\ \A x \in 1 .. Len(h) : h2[x] = h[x]
             /\ h2[n].type = type /\ ~h2[n].freed
<1> DEFINE o == Object(type, value, text, class)
           h2 == Append(h, o)
           n == Len(h) + 1
<1>1. PICK D : h \in Seq(D)
  BY DEF IsHeap
<1>2. Len(h) \in Nat
  BY <1>1, LengthIs
<1>3. o.type = type /\ ~o.freed /\ IsObject(o, n, n)
  BY <1>2 DEF Object, IsObject, IsRecord
<1> HIDE DEF o
<1>4. h \in Seq(D \cup {o}) /\ o \in D \cup {o}
  BY <1>1, SeqGrows
<1>5. h2 \in Seq(D \cup {o}) /\ Len(h2) = n /\ h2[n] = o /\ \A x \in 1 .. Len(h) : h2[x] = h[x]
  BY <1>4, Pushed
<1> HIDE DEF h2
<1>6. ASSUME NEW x \in 1 .. n PROVE IsObject(h2[x], x, n)
  <2>1. CASE x = n
    BY <1>3, <1>5, <2>1
  <2>2. CASE x # n
    <3>1. x \in 1 .. Len(h) /\ x \in Nat /\ n \in Nat /\ Len(h) <= n
      BY <1>2, <2>2
    <3>2. IsObject(h[x], x, Len(h)) /\ h2[x] = h[x]
      BY <1>5, <3>1 DEF IsHeap
    <3> QED
      BY <1>2, <3>1, <3>2, ObjectGrows
  <2> QED
    BY <2>1, <2>2
<1>7. IsHeap(h2)
  BY <1>5, <1>6 DEF IsHeap
<1>8. Extends(h2, h)
  BY <1>2, <1>5 DEF Extends, Kids
<1> QED
  BY <1>3, <1>5, <1>7, <1>8 DEF h2, o

(***************************************************************************)
(* One object changes and keeps its type; it may gain parts or be freed.   *)
(***************************************************************************)
LEMMA ObjectChanges ==
  ASSUME NEW h, IsHeap(h), NEW o \in 1 .. Len(h), NEW e, IsObject(e, o, Len(h)),
         e.type = h[o].type, h[o].freed => e.freed,
         Kids(h, o) \subseteq Elements(e.parts)
  PROVE  LET h2 == [h EXCEPT ![o] = e]
         IN  /\ IsHeap(h2) /\ Extends(h2, h) /\ Len(h2) = Len(h)
             /\ h2[o] = e
             /\ \A x \in 1 .. Len(h) : x # o => h2[x] = h[x]
<1> DEFINE h2 == [h EXCEPT ![o] = e]
<1>1. PICK D : h \in Seq(D)
  BY DEF IsHeap
<1>2. Len(h) \in Nat
  BY <1>1, LengthIs
<1>3. h \in Seq(D \cup {e}) /\ e \in D \cup {e}
  BY <1>1, SeqGrows
<1>4. h2 \in Seq(D \cup {e}) /\ Len(h2) = Len(h) /\ h2[o] = e
      /\ \A x \in 1 .. Len(h) : x # o => h2[x] = h[x]
  BY <1>3, MemberChanges
<1> HIDE DEF h2
<1>5. \A x \in 1 .. Len(h2) : IsObject(h2[x], x, Len(h2))
  BY <1>4 DEF IsHeap
<1>6. IsHeap(h2)
  BY <1>4, <1>5 DEF IsHeap
<1>7. Extends(h2, h)
  BY <1>2, <1>4 DEF Extends, Kids
<1> QED
  BY <1>4, <1>6, <1>7 DEF h2

IsReleased(h2, h, o) ==
  /\ IsHeap(h2) /\ Extends(h2, h) /\ Len(h2) = Len(h)
  /\ \A x \in 1 .. Len(h) : Kids(h2, x) = Kids(h, x)
  /\ \A x \in 1 .. Len(h) : x # o => h2[x] = h[x]
  /\ h2[o].freed /\ h2[o].type = h[o].type

LEMMA ReleasedIs ==
  ASSUME NEW h, IsHeap(h), NEW o \in 1 .. Len(h)
  PROVE  IsReleased([h EXCEPT ![o].freed = TRUE], h, o)
<1> DEFINE e == [h[o] EXCEPT !.freed = TRUE]
           h2 == [h EXCEPT ![o] = e]
<1>1. IsObject(h[o], o, Len(h))
  BY DEF IsHeap
<1>a. IsRecord(e) /\ e.type = h[o].type /\ e.parts = h[o].parts /\ e.freed = TRUE
  BY <1>1, FreedChanges DEF IsObject, Marked
<1> HIDE DEF e
<1>2. e.freed /\ e.type = h[o].type /\ e.parts = h[o].parts /\ IsObject(e, o, Len(h))
  BY <1>1, <1>a DEF IsObject
<1>3. /\ IsHeap(h2) /\ Extends(h2, h) /\ Len(h2) = Len(h) /\ h2[o] = e
      /\ \A x \in 1 .. Len(h) : x # o => h2[x] = h[x]
  BY <1>2, ObjectChanges DEF Kids
<1> HIDE DEF h2
<1>4. \A x \in 1 .. Len(h) : Kids(h2, x) = Kids(h, x)
  BY <1>2, <1>3 DEF Kids
<1> QED
  BY <1>2, <1>3, <1>4 DEF h2, e, IsReleased

LEMMA TextChanges ==
  ASSUME NEW h, IsHeap(h), NEW o \in 1 .. Len(h), NEW text
  PROVE  LET h2 == [h EXCEPT ![o].text = text]
         IN  /\ IsHeap(h2) /\ Extends(h2, h) /\ Len(h2) = Len(h)
             /\ SameMarks(h2, h)
<1> DEFINE e == [h[o] EXCEPT !.text = text]
           h2 == [h EXCEPT ![o] = e]
<1>1. IsObject(h[o], o, Len(h))
  BY DEF IsHeap
<1>2. e.freed = h[o].freed /\ e.type = h[o].type /\ e.parts = h[o].parts /\ IsObject(e, o, Len(h))
  BY <1>1, TextIsOfNoInterest DEF IsObject
<1> HIDE DEF e
<1>3. /\ IsHeap(h2) /\ Extends(h2, h) /\ Len(h2) = Len(h) /\ h2[o] = e
      /\ \A x \in 1 .. Len(h) : x # o => h2[x] = h[x]
  BY <1>2, ObjectChanges DEF Kids
<1> HIDE DEF h2
<1>4. SameMarks(h2, h)
  BY <1>2, <1>3 DEF SameMarks
<1> QED
  BY <1>3, <1>4 DEF h2, e

LEMMA ElementsJoin ==
  ASSUME NEW A, NEW s \in Seq(A), NEW t \in Seq(A)
  PROVE  /\ s \o t \in Seq(A)
         /\ Elements(s) \subseteq Elements(s \o t)
         /\ Elements(t) \subseteq Elements(s \o t)
<1> DEFINE u == s \o t
<1>1. /\ u \in Seq(A) /\ Len(u) = Len(s) + Len(t) /\ Len(s) \in Nat /\ Len(t) \in Nat
      /\ \A k \in 1 .. Len(s) : u[k] = s[k]
      /\ \A k \in 1 .. Len(t) : u[Len(s) + k] = t[k]
      /\ DOMAIN s = 1 .. Len(s) /\ DOMAIN t = 1 .. Len(t) /\ DOMAIN u = 1 .. Len(u)
  OBVIOUS
<1> HIDE DEF u
<1>2. ASSUME NEW k \in DOMAIN s PROVE s[k] \in Elements(u)
  BY <1>1 DEF Elements
<1>3. ASSUME NEW k \in DOMAIN t PROVE t[k] \in Elements(u)
  <2>1. Len(s) + k \in DOMAIN u
    BY <1>1
  <2> QED
    BY <1>1, <2>1 DEF Elements
<1> QED
  BY <1>1, <1>2, <1>3 DEF u, Elements

\* the objects os, which follow o, become parts of it
LEMMA PartsMove ==
  ASSUME NEW h, IsHeap(h), NEW o \in 1 .. Len(h), h[o].type # "ref",
         NEW os \in Seq(o + 1 .. Len(h))
  PROVE  LET h2 == [h EXCEPT ![o].parts = @ \o os]
         IN  /\ IsHeap(h2) /\ Extends(h2, h) /\ Len(h2) = Len(h)
             /\ SameMarks(h2, h)
             /\ Elements(os) \subseteq Kids(h2, o)
<1> DEFINE p == h[o].parts \o os
           e == [h[o] EXCEPT !.parts = p]
           h2 == [h EXCEPT ![o] = e]
           A == o + 1 .. Len(h)
<1>1. IsObject(h[o], o, Len(h)) /\ h[o].parts \in Seq(A)
  BY DEF IsHeap, IsObject
<1>a. os \in Seq(A)
  OBVIOUS
<1>2. /\ p \in Seq(A) /\ Kids(h, o) \subseteq Elements(p)
      /\ Elements(os) \subseteq Elements(p)
  <2> DEFINE q == h[o].parts
  <2>1. q \in Seq(A) /\ os \in Seq(A)
    BY <1>1, <1>a
  <2> HIDE DEF A, q
  <2>2. /\ q \o os \in Seq(A)
        /\ Elements(q) \subseteq Elements(q \o os)
        /\ Elements(os) \subseteq Elements(q \o os)
    BY <2>1, ElementsJoin
  <2>3. p = q \o os
    BY DEF q
  <2>4. Kids(h, o) = Elements(q)
    BY DEF Kids, q
  <2> HIDE DEF p
  <2> QED
    BY <2>2, <2>3, <2>4
<1> HIDE DEF p
<1>b. IsRecord(e) /\ e.type = h[o].type /\ e.parts = p /\ e.freed = h[o].freed
  BY <1>1, PartsChange DEF IsObject
<1> HIDE DEF e
<1>3. e.freed = h[o].freed /\ e.type = h[o].type /\ e.parts = p /\ IsObject(e, o, Len(h))
  BY <1>1, <1>2, <1>b DEF IsObject
<1>4. /\ IsHeap(h2) /\ Extends(h2, h) /\ Len(h2) = Len(h) /\ h2[o] = e
      /\ \A x \in 1 .. Len(h) : x # o => h2[x] = h[x]
  <2>1. Kids(h, o) \subseteq Elements(e.parts)
    BY <1>2, <1>3
  <2>2. e.type = h[o].type /\ (h[o].freed => e.freed) /\ IsObject(e, o, Len(h))
    BY <1>3
  <2> QED
    BY <2>1, <2>2, ObjectChanges
<1> HIDE DEF h2
<1>5. SameMarks(h2, h)
  BY <1>3, <1>4 DEF SameMarks
<1>6. Elements(os) \subseteq Kids(h2, o)
  BY <1>2, <1>3, <1>4 DEF Kids
<1> QED
  BY <1>4, <1>5, <1>6 DEF h2, e, p

-----------------------------------------------------------------------------
(* The objects that are being read.                                        *)

IsFrameRecord(f) ==
  f = [obj |-> f.obj, tag |-> f.tag, refs |-> f.refs, step |-> f.step, done |-> f.done]

LEMMA RefsChange ==
  ASSUME NEW f, IsFrameRecord(f), NEW v
  PROVE  LET g == [f EXCEPT !.refs = v]
         IN  /\ IsFrameRecord(g) /\ g.refs = v
             /\ g.obj = f.obj /\ g.step = f.step /\ g.done = f.done
  BY DEF IsFrameRecord

IsFrame(f, n) ==
  /\ IsFrameRecord(f)
  /\ f.obj \in 1 .. n
  /\ f.refs \in Seq(f.obj + 1 .. n)
  /\ f.done \in Nat
  /\ f.step \in {"parts", "chunks", "end", "moving"}
  /\ f.step = "parts" => f.done = 0
  /\ f.step \in {"chunks", "end"} => f.refs = <<>>

\* each is read for a part of the one before, which is allocated earlier
Before(f, g) == f.obj < g.obj /\ f.step = "parts"

IsStack(fs, n) ==
  /\ \E D : fs \in Seq(D)
  /\ \A k \in 1 .. Len(fs) : IsFrame(fs[k], n)
  /\ \A j, k \in 1 .. Len(fs) : j < k => Before(fs[j], fs[k])

Held(f) == {f.obj} \cup Elements(f.refs)
HeldBy(fs) == UNION {Held(fs[k]) : k \in 1 .. Len(fs)}

LEMMA ObjIs ==
  ASSUME NEW n \in Nat, NEW f, IsFrame(f, n)
  PROVE  f.obj \in Nat /\ f.obj \in 1 .. n
BY DEF IsFrame

LEMMA FrameIs ==
  ASSUME NEW n, n \in Nat, NEW f, IsFrame(f, n)
  PROVE  /\ Held(f) \subseteq 1 .. n
         /\ \A x \in Elements(f.refs) : x \in f.obj + 1 .. n
         /\ DOMAIN f.refs = 1 .. Len(f.refs) /\ Len(f.refs) \in Nat
         /\ \A k \in 1 .. Len(f.refs) : f.refs[k] \in Elements(f.refs)
<1> DEFINE A == f.obj + 1 .. n
           s == f.refs
<1>1. s \in Seq(A) /\ f.obj \in 1 .. n
  BY DEF IsFrame
<1> HIDE DEF s
<1>2. DOMAIN s = 1 .. Len(s) /\ Len(s) \in Nat /\ \A k \in 1 .. Len(s) : s[k] \in A
  <2> HIDE DEF A
  <2> QED
    BY <1>1, LengthIs
<1>3. Elements(s) \subseteq A /\ \A k \in 1 .. Len(s) : s[k] \in Elements(s)
  BY <1>2 DEF Elements
<1>4. A \subseteq 1 .. n
  BY <1>1
<1> QED
  BY <1>1, <1>2, <1>3, <1>4 DEF s, Held

LEMMA FrameGrows ==
  ASSUME NEW n \in Nat, NEW m \in Nat, n <= m, NEW f, IsFrame(f, n)
  PROVE  IsFrame(f, m)
<1>1. f.obj \in 1 .. m
  BY DEF IsFrame
<1>2. f.obj + 1 .. n \subseteq f.obj + 1 .. m
  BY <1>1
<1>3. f.refs \in Seq(f.obj + 1 .. n)
  BY DEF IsFrame
<1>4. f.refs \in Seq(f.obj + 1 .. m)
  BY <1>2, <1>3, SeqGrows
<1> QED
  BY <1>1, <1>4 DEF IsFrame

LEMMA StackGrows ==
  ASSUME NEW n \in Nat, NEW m \in Nat, n <= m, NEW fs, IsStack(fs, n)
  PROVE  IsStack(fs, m)
BY FrameGrows DEF IsStack

LEMMA StackIs ==
  ASSUME NEW n \in Nat, NEW fs, IsStack(fs, n)
  PROVE  /\ Len(fs) \in Nat /\ (fs = <<>> <=> Len(fs) = 0)
         /\ HeldBy(fs) \subseteq 1 .. n
<1>1. Len(fs) \in Nat /\ (fs = <<>> <=> Len(fs) = 0)
  BY LengthIs DEF IsStack
<1>2. \A k \in 1 .. Len(fs) : Held(fs[k]) \subseteq 1 .. n
  BY FrameIs DEF IsStack
<1> QED
  BY <1>1, <1>2 DEF HeldBy

LEMMA EmptyStack ==
  ASSUME NEW n \in Nat
  PROVE  IsStack(<<>>, n) /\ HeldBy(<<>>) = {}
<1>1. <<>> \in Seq({0}) /\ Len(<<>>) = 0 /\ 1 .. 0 = {}
  OBVIOUS
<1>2. IsStack(<<>>, n)
  BY <1>1 DEF IsStack
<1>3. HeldBy(<<>>) = {}
  BY <1>1 DEF HeldBy
<1> QED
  BY <1>2, <1>3

\* the innermost object and those that wait for it
LEMMA TopIs ==
  ASSUME NEW n \in Nat, NEW fs, IsStack(fs, n), fs # <<>>
  PROVE  LET f == fs[Len(fs)]
             rest == SubSeq(fs, 1, Len(fs) - 1)
         IN  /\ Len(fs) \in 1 .. Len(fs)
             /\ IsFrame(f, n) /\ IsStack(rest, n)
             /\ rest # <<>> => Before(rest[Len(rest)], f)
             /\ HeldBy(fs) = HeldBy(rest) \cup Held(f)
<1> DEFINE l == Len(fs)
           m == Len(fs) - 1
           f == fs[l]
           rest == SubSeq(fs, 1, m)
<1>1. PICK D : fs \in Seq(D)
  BY DEF IsStack
<1>2. l \in Nat /\ l # 0
  BY <1>1, LengthIs
<1>3. m \in Nat /\ rest \in Seq(D) /\ Len(rest) = m /\ \A k \in 1 .. m : rest[k] = fs[k]
  BY <1>1, FrontIs
<1>4. rest # <<>> => m # 0
  BY <1>3, LengthIs
<1> HIDE DEF rest
<1>5. l \in 1 .. l /\ \A k \in 1 .. m : k \in 1 .. l /\ k < l
  BY <1>2
<1>6. IsFrame(f, n)
  BY <1>5 DEF IsStack
<1>7. IsStack(rest, n)
  BY <1>3, <1>5 DEF IsStack
<1>8. rest # <<>> => Before(rest[Len(rest)], f)
  <2> SUFFICES ASSUME rest # <<>> PROVE Before(rest[m], f)
    BY <1>3
  <2>1. m \in 1 .. m
    BY <1>3, <1>4
  <2> QED
    BY <1>3, <1>5, <2>1 DEF IsStack
<1>9. HeldBy(fs) = HeldBy(rest) \cup Held(f)
  <2>1. 1 .. l = (1 .. m) \cup {l}
    BY <1>2
  <2>2. HeldBy(fs) = (UNION {Held(fs[k]) : k \in 1 .. m}) \cup Held(fs[l])
    BY <2>1 DEF HeldBy
  <2>3. HeldBy(rest) = UNION {Held(fs[k]) : k \in 1 .. m}
    BY <1>3 DEF HeldBy
  <2> QED
    BY <2>2, <2>3
<1> QED
  BY <1>5, <1>6, <1>7, <1>8, <1>9 DEF rest

LEMMA HeldByTwo ==
  ASSUME NEW fs, NEW gs, Len(fs) \in Nat, Len(gs) = Len(fs) + 1,
         \A k \in 1 .. Len(fs) : gs[k] = fs[k]
  PROVE  HeldBy(gs) = HeldBy(fs) \cup Held(gs[Len(gs)])
<1> DEFINE m == Len(fs)
<1>1. 1 .. m + 1 = (1 .. m) \cup {m + 1}
  OBVIOUS
<1>2. HeldBy(gs) = (UNION {Held(gs[k]) : k \in 1 .. m}) \cup Held(gs[m + 1])
  BY <1>1 DEF HeldBy
<1>3. HeldBy(fs) = UNION {Held(gs[k]) : k \in 1 .. m}
  BY DEF HeldBy
<1> QED
  BY <1>2, <1>3

\* the innermost object is at another point
LEMMA TopChanges ==
  ASSUME NEW n \in Nat, NEW fs, IsStack(fs, n), fs # <<>>,
         NEW f, IsFrame(f, n), f.obj = fs[Len(fs)].obj
  PROVE  LET gs == [fs EXCEPT ![Len(fs)] = f]
         IN  /\ IsStack(gs, n) /\ gs # <<>> /\ Len(gs) = Len(fs) /\ gs[Len(gs)] = f
             /\ HeldBy(gs) = HeldBy(SubSeq(fs, 1, Len(fs) - 1)) \cup Held(f)
<1> DEFINE l == Len(fs)
           m == Len(fs) - 1
           gs == [fs EXCEPT ![l] = f]
           rest == SubSeq(fs, 1, m)
<1>1. PICK D : fs \in Seq(D)
  BY DEF IsStack
<1>2. l \in Nat /\ l # 0 /\ l \in 1 .. l /\ m \in Nat /\ m + 1 = l
  BY <1>1, LengthIs
<1>3. fs \in Seq(D \cup {f}) /\ f \in D \cup {f}
  BY <1>1, SeqGrows
<1>4. /\ gs \in Seq(D \cup {f}) /\ Len(gs) = l /\ gs[l] = f
      /\ \A k \in 1 .. l : k # l => gs[k] = fs[k]
  <2> DEFINE E == D \cup {f}
  <2>1. fs \in Seq(E) /\ l \in 1 .. Len(fs) /\ f \in E
    BY <1>2, <1>3
  <2> HIDE DEF E, l
  <2>2. LET t == [fs EXCEPT ![l] = f]
        IN  t \in Seq(E) /\ Len(t) = Len(fs) /\ t[l] = f /\ \A k \in 1 .. Len(fs) : k # l => t[k] = fs[k]
    BY <2>1, MemberChanges
  <2> QED
    BY <2>2 DEF E, l
<1>5. rest \in Seq(D) /\ Len(rest) = m /\ \A k \in 1 .. m : rest[k] = fs[k]
  BY <1>1, FrontIs
<1> HIDE DEF gs, rest
<1>6. \A k \in 1 .. l : IsFrame(gs[k], n)
  BY <1>4 DEF IsStack
<1>7. ASSUME NEW j \in 1 .. l, NEW k \in 1 .. l, j < k PROVE Before(gs[j], gs[k])
  <2>a. j # l
    <3>1. j \in Nat /\ k \in Nat /\ k <= l /\ j < k
      BY <1>2, <1>7
    <3> HIDE DEF l
    <3> QED
      BY <1>2, <3>1
  <2>b. gs[j] = fs[j]
    BY <1>4, <2>a
  <2>c. Before(fs[j], fs[k])
    BY <1>7 DEF IsStack
  <2>d. gs[k].obj = fs[k].obj
    BY <1>4
  <2>1. gs[j] = fs[j] /\ Before(fs[j], fs[k]) /\ gs[k].obj = fs[k].obj
    BY <2>b, <2>c, <2>d
  <2> QED
    BY <2>1 DEF Before
<1>8. IsStack(gs, n)
  BY <1>4, <1>6, <1>7 DEF IsStack
<1>9. HeldBy(gs) = HeldBy(rest) \cup Held(gs[Len(gs)])
  <2>1. ASSUME NEW k \in 1 .. m PROVE gs[k] = rest[k]
    <3>1. k \in 1 .. l /\ k # l
      <4> DEFINE i == l
      <4>1. i \in Nat /\ m = i - 1
        BY <1>2
      <4> HIDE DEF i, m
      <4>2. k \in 1 .. i /\ k # i
        BY <4>1
      <4> QED
        BY <4>2 DEF i
    <3> QED
      BY <1>4, <1>5, <3>1
  <2> QED
    BY <1>2, <1>4, <1>5, <2>1, HeldByTwo
<1>10. gs # <<>>
  BY <1>2, <1>4, LengthIs
<1> QED
  BY <1>2, <1>4, <1>8, <1>9, <1>10 DEF gs, rest

\* another object is read, for a part of the innermost
LEMMA StackPushed ==
  ASSUME NEW n \in Nat, NEW fs, IsStack(fs, n), NEW f, IsFrame(f, n),
         fs # <<>> => Before(fs[Len(fs)], f)
  PROVE  LET gs == Append(fs, f)
         IN  IsStack(gs, n) /\ gs # <<>> /\ gs[Len(gs)] = f /\ HeldBy(gs) = HeldBy(fs) \cup Held(f)
<1> DEFINE l == Len(fs)
           gs == Append(fs, f)
<1>1. PICK D : fs \in Seq(D)
  BY DEF IsStack
<1>2. l \in Nat /\ (fs = <<>> <=> l = 0)
  BY <1>1, LengthIs
<1>3. fs \in Seq(D \cup {f}) /\ f \in D \cup {f}
  BY <1>1, SeqGrows
<1>4. /\ gs \in Seq(D \cup {f}) /\ Len(gs) = l + 1 /\ gs # <<>> /\ gs[l + 1] = f
      /\ \A k \in 1 .. l : gs[k] = fs[k]
  BY <1>3, Pushed
<1> HIDE DEF gs
<1>5. \A k \in 1 .. l + 1 : k = l + 1 \/ k \in 1 .. l
  BY <1>2
<1>6. \A k \in 1 .. l + 1 : IsFrame(gs[k], n)
  BY <1>4, <1>5 DEF IsStack
<1>7. ASSUME NEW j \in 1 .. l + 1, NEW k \in 1 .. l + 1, j < k PROVE Before(gs[j], gs[k])
  <2>1. j \in 1 .. l /\ gs[j] = fs[j]
    BY <1>2, <1>4, <1>5, <1>7
  <2>2. CASE k # l + 1
    BY <1>4, <1>5, <1>7, <2>1, <2>2 DEF IsStack
  <2>3. CASE k = l + 1
    <3>1. fs # <<>> /\ l \in 1 .. l
      BY <1>2, <2>1
    <3>2. Before(fs[l], f)
      BY <3>1
    <3>3. CASE j = l
      BY <1>4, <2>1, <2>3, <3>2, <3>3
    <3>4. CASE j # l
      <4>1. Before(fs[j], fs[l])
        BY <1>2, <2>1, <3>1, <3>4 DEF IsStack
      <4>2. fs[j].obj \in Nat /\ fs[l].obj \in Nat /\ f.obj \in Nat
        <5>1. IsFrame(fs[j], n) /\ IsFrame(fs[l], n) /\ IsFrame(f, n)
          BY <2>1, <3>1 DEF IsStack
        <5> QED
          BY <5>1, ObjIs
      <4>3. Before(fs[j], f)
        BY <3>2, <4>1, <4>2 DEF Before
      <4> QED
        BY <1>4, <2>1, <2>3, <4>3
    <3> QED
      BY <3>3, <3>4
  <2> QED
    BY <2>2, <2>3
<1>8. IsStack(gs, n)
  BY <1>4, <1>6, <1>7 DEF IsStack
<1>9. HeldBy(gs) = HeldBy(fs) \cup Held(gs[Len(gs)])
  BY <1>2, <1>4, HeldByTwo
<1> QED
  BY <1>4, <1>8, <1>9 DEF gs

\* object o is appended to the parts that have been read for the innermost
LEMMA TopTakes ==
  ASSUME NEW n \in Nat, NEW fs, IsStack(fs, n), fs # <<>>, fs[Len(fs)].step = "parts",
         NEW o \in fs[Len(fs)].obj + 1 .. n
  PROVE  LET gs == [fs EXCEPT ![Len(fs)].refs = Append(@, o)]
         IN  /\ IsStack(gs, n) /\ gs # <<>> /\ gs[Len(gs)].step = "parts"
             /\ HeldBy(gs) = HeldBy(fs) \cup {o}
<1> DEFINE f == fs[Len(fs)]
           rest == SubSeq(fs, 1, Len(fs) - 1)
           r == Append(f.refs, o)
           g == [f EXCEPT !.refs = r]
           gs == [fs EXCEPT ![Len(fs)] = g]
           A == f.obj + 1 .. n
<1>1. IsFrame(f, n) /\ HeldBy(fs) = HeldBy(rest) \cup Held(f)
  BY TopIs
<1> HIDE DEF f, rest
<1>2. f.refs \in Seq(A) /\ o \in A
  BY <1>1 DEF IsFrame, f
<1>3. r \in Seq(A) /\ Len(r) = Len(f.refs) + 1 /\ r[Len(r)] = o /\ Len(f.refs) \in Nat
      /\ DOMAIN r = 1 .. Len(r) /\ DOMAIN f.refs = 1 .. Len(f.refs)
      /\ \A k \in 1 .. Len(f.refs) : r[k] = f.refs[k]
  <2> HIDE DEF A, r
  <2>1. r \in Seq(A) /\ Len(r) = Len(f.refs) + 1 /\ r[Len(f.refs) + 1] = o
        /\ \A k \in 1 .. Len(f.refs) : r[k] = f.refs[k]
    BY <1>2, Pushed DEF r
  <2> QED
    BY <1>2, <2>1, LengthIs
<1> HIDE DEF r
<1>4. Elements(r) = Elements(f.refs) \cup {o}
  <2>1. 1 .. Len(r) = (1 .. Len(f.refs)) \cup {Len(r)}
    BY <1>3
  <2>2. Elements(r) = {r[k] : k \in 1 .. Len(f.refs)} \cup {r[Len(r)]}
    BY <1>3, <2>1 DEF Elements
  <2>3. Elements(f.refs) = {r[k] : k \in 1 .. Len(f.refs)}
    BY <1>3 DEF Elements
  <2> QED
    BY <1>3, <2>2, <2>3
<1>a. f.step = "parts" /\ IsFrameRecord(f)
  BY <1>1 DEF IsFrame, f
<1>5. g.obj = f.obj /\ g.refs = r /\ g.step = "parts" /\ g.done = f.done /\ IsFrameRecord(g)
  BY <1>a, RefsChange
<1> HIDE DEF g
<1>6. IsFrame(g, n)
  BY <1>1, <1>3, <1>a, <1>5 DEF IsFrame
<1>7. IsStack(gs, n) /\ gs # <<>> /\ gs[Len(gs)] = g /\ HeldBy(gs) = HeldBy(rest) \cup Held(g)
  <2>1. g.obj = fs[Len(fs)].obj
    BY <1>5 DEF f
  <2>2. LET hs == [fs EXCEPT ![Len(fs)] = g]
        IN  /\ IsStack(hs, n) /\ hs # <<>> /\ Len(hs) = Len(fs) /\ hs[Len(hs)] = g
            /\ HeldBy(hs) = HeldBy(SubSeq(fs, 1, Len(fs) - 1)) \cup Held(g)
    <3> HIDE DEF gs
    <3> QED
      BY <1>6, <2>1, TopChanges, ZenonT(40)
  <2> QED
    BY <2>2 DEF rest
<1> HIDE DEF gs
<1>8. Held(g) = Held(f) \cup {o}
  BY <1>4, <1>5 DEF Held
<1>9. gs = [fs EXCEPT ![Len(fs)].refs = Append(@, o)]
  BY DEF gs, g, r, f
<1> QED
  BY <1>1, <1>5, <1>7, <1>8, <1>9

-----------------------------------------------------------------------------
(* What holds of every state that has not misused memory.                  *)

Covered(h, R) == \A x \in 1 .. Len(h) : ~h[x].freed => x \in AllBelow(h, R)
OnlyRefsFreed(h) == \A x \in 1 .. Len(h) : h[x].freed => h[x].type = "ref"

\* the parts that have been moved; those of a map come in pairs
Moving(f, h) ==
  /\ f.done \in 0 .. Len(f.refs)
  /\ h[f.obj].type = "map" => Len(f.refs) % 2 = 0 /\ f.done % 2 = 0
  /\ \A k \in 1 .. f.done : h[f.refs[k]].freed \/ f.refs[k] \in Kids(h, f.obj)

Roots == abandoned \cup HeldBy(frames) \cup (IF mode = "done" THEN {result} ELSE {})

Sound ==
  /\ IsHeap(heap) /\ IsStack(frames, Len(heap))
  /\ abandoned \subseteq 1 .. Len(heap)
  /\ abandoned # {} => mode \in {"failing", "failed"}
  /\ mode \in {"idle", "done", "deleted", "failed"} => frames = <<>>
  /\ mode = "done" => result \in 1 .. Len(heap)
  /\ mode = "reading" => OnlyRefsFreed(heap)
  /\ mode = "reading" /\ frames # <<>> => (Top.step = "moving" => Moving(Top, heap))
  /\ mode # "deleted" => Covered(heap, Roots)
  /\ mode = "deleted" => \A x \in 1 .. Len(heap) : heap[x].freed

DInv == misuse = "none" => Sound

LEMMA StillReached ==
  ASSUME NEW h, IsHeap(h), NEW h2, IsHeap(h2), Extends(h2, h),
         NEW R \in SUBSET (1 .. Len(h)), NEW R2 \in SUBSET (1 .. Len(h2)), Covered(h, R),
         NEW F \in SUBSET (1 .. Len(h)), HoldsKids(h, F), \A x \in F : h2[x].freed,
         \A r \in R : r \in F \/ r \in R2 \/ \E q \in R2 : r \in Kids(h2, q),
         \A x \in 1 .. Len(h2) : x \in 1 .. Len(h) \/ x \in R2
  PROVE  Covered(h2, R2)
<1>1. Len(h) \in Nat /\ Len(h2) \in Nat /\ PartsFollow(h) /\ PartsFollow(h2)
  BY HeapIs
<1>2. R2 \subseteq AllBelow(h2, R2) /\ HoldsKids(h2, AllBelow(h2, R2))
  BY <1>1, AllBelowHoldsKids
<1>3. R \subseteq AllBelow(h2, R2) \cup F
  BY <1>2 DEF HoldsKids
<1>4. Len(h) <= Len(h2) /\ (\A x \in 1 .. Len(h) : Kids(h, x) \subseteq Kids(h2, x))
      /\ \A x \in 1 .. Len(h) : h[x].freed => h2[x].freed
  BY DEF Extends
<1>5. AllBelow(h, R) \subseteq AllBelow(h2, R2) \cup F
  BY <1>1, <1>3, <1>4, ReachIsKept
<1>6. ASSUME NEW x \in 1 .. Len(h2), ~h2[x].freed PROVE x \in AllBelow(h2, R2)
  <2>1. CASE x \in R2
    BY <1>2, <2>1
  <2>2. CASE x \in 1 .. Len(h)
    <3>1. ~h[x].freed
      BY <1>4, <1>6, <2>2
    <3>2. x \in AllBelow(h, R)
      BY <2>2, <3>1 DEF Covered
    <3> QED
      BY <1>5, <1>6, <3>2
  <2> QED
    BY <2>1, <2>2
<1> QED
  BY <1>6 DEF Covered

LEMMA NoneIsLost ==
  ASSUME NEW h, IsHeap(h), NEW h2, IsHeap(h2), Extends(h2, h),
         NEW R \in SUBSET (1 .. Len(h)), NEW R2 \in SUBSET (1 .. Len(h2)), Covered(h, R),
         R \subseteq R2,
         \A x \in 1 .. Len(h2) : x \in 1 .. Len(h) \/ x \in R2
  PROVE  Covered(h2, R2)
<1> DEFINE F == {}
<1>1. F \in SUBSET (1 .. Len(h)) /\ HoldsKids(h, F) /\ \A x \in F : h2[x].freed
  BY DEF HoldsKids
<1> HIDE DEF F
<1> QED
  BY <1>1, StillReached

LEMMA ReadingIs ==
  ASSUME DInv, misuse = "none", mode \in {"reading", "failing"}
  PROVE  /\ IsHeap(heap) /\ IsStack(frames, Len(heap)) /\ Len(heap) \in Nat
         /\ abandoned \subseteq 1 .. Len(heap) /\ HeldBy(frames) \subseteq 1 .. Len(heap)
         /\ Covered(heap, abandoned \cup HeldBy(frames))
         /\ mode = "reading" => abandoned = {} /\ OnlyRefsFreed(heap)
         /\ mode = "reading" => Covered(heap, HeldBy(frames))
         /\ mode = "reading" /\ frames # <<>> => (Top.step = "moving" => Moving(Top, heap))
<1>1. Sound /\ mode # "done" /\ mode # "deleted"
  BY DEF DInv
<1>2. Len(heap) \in Nat
  BY <1>1, HeapIs DEF Sound
<1>3. HeldBy(frames) \subseteq 1 .. Len(heap)
  BY <1>1, <1>2, StackIs DEF Sound
<1>4. Roots = abandoned \cup HeldBy(frames)
  BY <1>1 DEF Roots
<1>5. Covered(heap, abandoned \cup HeldBy(frames))
  BY <1>1, <1>4 DEF Sound
<1>6. mode = "reading" => abandoned = {}
  BY <1>1 DEF Sound
<1>7. mode = "reading" => Covered(heap, HeldBy(frames))
  <2> SUFFICES ASSUME mode = "reading" PROVE Covered(heap, HeldBy(frames))
    OBVIOUS
  <2>1. abandoned \cup HeldBy(frames) = HeldBy(frames)
    BY <1>6
  <2> QED
    BY <1>5, <2>1
<1> QED
  BY <1>1, <1>2, <1>3, <1>5, <1>6, <1>7 DEF Sound

LEMMA InnermostIs ==
  ASSUME DInv, misuse = "none", mode \in {"reading", "failing"}, frames # <<>>
  PROVE  /\ Len(frames) \in 1 .. Len(frames)
         /\ IsFrame(Top, Len(heap)) /\ IsStack(Rest, Len(heap))
         /\ Top.obj \in 1 .. Len(heap)
         /\ Rest # <<>> => Before(Rest[Len(Rest)], Top)
         /\ HeldBy(frames) = HeldBy(Rest) \cup Held(Top)
         /\ Elements(Top.refs) \subseteq 1 .. Len(heap)
         /\ \A x \in Elements(Top.refs) : x \in Top.obj + 1 .. Len(heap)
         /\ DOMAIN Top.refs = 1 .. Len(Top.refs) /\ Len(Top.refs) \in Nat
         /\ \A k \in 1 .. Len(Top.refs) : Top.refs[k] \in Elements(Top.refs)
<1>1. IsStack(frames, Len(heap)) /\ Len(heap) \in Nat
  BY ReadingIs
<1>2. /\ Len(frames) \in 1 .. Len(frames)
      /\ IsFrame(Top, Len(heap)) /\ IsStack(Rest, Len(heap))
      /\ Rest # <<>> => Before(Rest[Len(Rest)], Top)
      /\ HeldBy(frames) = HeldBy(Rest) \cup Held(Top)
  BY <1>1, TopIs DEF Top, Rest
<1>3. /\ Held(Top) \subseteq 1 .. Len(heap)
      /\ \A x \in Elements(Top.refs) : x \in Top.obj + 1 .. Len(heap)
      /\ DOMAIN Top.refs = 1 .. Len(Top.refs) /\ Len(Top.refs) \in Nat
      /\ \A k \in 1 .. Len(Top.refs) : Top.refs[k] \in Elements(Top.refs)
  BY <1>1, <1>2, FrameIs
<1>4. Top.obj \in 1 .. Len(heap) /\ Elements(Top.refs) \subseteq 1 .. Len(heap)
  BY <1>3 DEF Held
<1> QED
  BY <1>2, <1>3, <1>4

LEMMA InnermostBecomes ==
  ASSUME DInv, misuse = "none", mode \in {"reading", "failing"}, frames # <<>>,
         NEW g, IsFrame(g, Len(heap)), g.obj = Top.obj, frames' = [frames EXCEPT ![Len(frames)] = g]
  PROVE  /\ IsStack(frames', Len(heap)) /\ frames' # <<>> /\ Top' = g
         /\ HeldBy(frames') = HeldBy(Rest) \cup Held(g)
<1>1. IsStack(frames, Len(heap)) /\ Len(heap) \in Nat
  BY ReadingIs
<1>2. g.obj = frames[Len(frames)].obj
  BY DEF Top
<1>3. LET gs == [frames EXCEPT ![Len(frames)] = g]
      IN  /\ IsStack(gs, Len(heap)) /\ gs # <<>> /\ Len(gs) = Len(frames) /\ gs[Len(gs)] = g
          /\ HeldBy(gs) = HeldBy(SubSeq(frames, 1, Len(frames) - 1)) \cup Held(g)
  BY <1>1, <1>2, TopChanges
<1> QED
  BY <1>3 DEF Top, Rest

-----------------------------------------------------------------------------
(* The states that a step may lead to.                                     *)

LEMMA FailingHolds ==
  ASSUME mode' = "failing", IsHeap(heap'), IsStack(frames', Len(heap')),
         abandoned' \subseteq 1 .. Len(heap'), Covered(heap', abandoned' \cup HeldBy(frames'))
  PROVE  DInv'
<1>1. Roots' = abandoned' \cup HeldBy(frames')
  BY DEF Roots
<1>2. Covered(heap', Roots')
  BY <1>1
<1> QED
  BY <1>2 DEF DInv, Sound

LEMMA ReadingHolds ==
  ASSUME mode' = "reading", IsHeap(heap'), IsStack(frames', Len(heap')),
         abandoned' = {}, OnlyRefsFreed(heap'), Covered(heap', HeldBy(frames')),
         frames' # <<>> => (Top'.step = "moving" => Moving(Top', heap'))
  PROVE  DInv'
<1>1. Roots' = HeldBy(frames')
  BY DEF Roots
<1>2. Covered(heap', Roots')
  BY <1>1
<1>3. abandoned' \subseteq 1 .. Len(heap')
  OBVIOUS
<1> QED
  BY <1>2, <1>3 DEF DInv, Sound

LEMMA DeliverHolds ==
  ASSUME NEW o, NEW callers, NEW wanting, Deliver(o, callers, wanting),
         mode = "reading", abandoned' = {},
         IsHeap(heap'), IsStack(callers, Len(heap')), o \in 1 .. Len(heap'),
         callers # <<>> => callers[Len(callers)].step = "parts"
                           /\ o \in callers[Len(callers)].obj + 1 .. Len(heap'),
         OnlyRefsFreed(heap'), Covered(heap', HeldBy(callers) \cup {o})
  PROVE  DInv'
<1> DEFINE n == Len(heap')
<1>1. n \in Nat
  BY HeapIs
<1>2. CASE callers = <<>>
  <2>1. mode' = "done" /\ result' = o /\ frames' = <<>>
    BY <1>2 DEF Deliver
  <2>2. IsStack(frames', n) /\ HeldBy(frames') = {} /\ HeldBy(callers) = {}
    BY <1>1, <1>2, <2>1, EmptyStack
  <2>3. Roots' = HeldBy(callers) \cup {o}
    BY <2>1, <2>2 DEF Roots
  <2>4. Covered(heap', Roots')
    BY <2>3
  <2>5. abandoned' \subseteq 1 .. n
    OBVIOUS
  <2> QED
    BY <2>1, <2>2, <2>4, <2>5 DEF DInv, Sound
<1>3. CASE callers # <<>>
  <2>1. /\ frames' = [callers EXCEPT ![Len(callers)].refs = Append(@, o)]
        /\ mode' = "reading" \/ mode' = "failing"
    BY <1>3 DEF Deliver
  <2>2. /\ IsStack(frames', n) /\ frames' # <<>> /\ frames'[Len(frames')].step = "parts"
        /\ HeldBy(frames') = HeldBy(callers) \cup {o}
    <3>1. /\ IsStack(callers, n) /\ callers # <<>> /\ callers[Len(callers)].step = "parts"
          /\ o \in callers[Len(callers)].obj + 1 .. n
      BY <1>3
    <3> DEFINE gs == [callers EXCEPT ![Len(callers)].refs = Append(@, o)]
    <3> HIDE DEF n
    <3>2. /\ IsStack(gs, n) /\ gs # <<>> /\ gs[Len(gs)].step = "parts"
          /\ HeldBy(gs) = HeldBy(callers) \cup {o}
      BY <1>1, <3>1, TopTakes
    <3>3. frames' = gs
      BY <2>1
    <3> HIDE DEF gs
    <3> QED
      BY <3>2, <3>3
  <2>3. Covered(heap', HeldBy(frames'))
    BY <2>2
  <2>4. CASE mode' = "reading"
    <3>1. Top'.step = "parts"
      BY <2>2 DEF Top
    <3> QED
      BY <2>2, <2>3, <2>4, <3>1, ReadingHolds
  <2>5. CASE mode' = "failing"
    <3>1. abandoned' \cup HeldBy(frames') = HeldBy(frames') /\ abandoned' \subseteq 1 .. n
      OBVIOUS
    <3> QED
      BY <2>2, <2>3, <2>5, <3>1, FailingHolds
  <2> QED
    BY <2>1, <2>4, <2>5
<1> QED
  BY <1>2, <1>3

LEMMA JustFails ==
  ASSUME DInv, misuse = "none", mode = "reading",
         mode' = "failing", heap' = heap, frames' = frames, abandoned' = abandoned
  PROVE  DInv'
<1>1. /\ IsHeap(heap) /\ IsStack(frames, Len(heap)) /\ abandoned \subseteq 1 .. Len(heap)
      /\ Covered(heap, abandoned \cup HeldBy(frames))
  BY ReadingIs
<1> QED
  BY <1>1, FailingHolds

-----------------------------------------------------------------------------
(* The steps that read tags and allocate objects.                          *)

LEMMA RefuseTagHolds == ASSUME DInv, misuse = "none", RefuseTag PROVE DInv'
<1>1. mode = "reading" /\ mode' = "failing" /\ frames' = frames /\ heap' = heap /\ abandoned' = abandoned
  BY DEF RefuseTag, ReadsTag, NoMemory, Fails
<1> QED
  BY <1>1, JustFails

\* where a tag is read, an object may be allocated for it
LEMMA AllocationIs ==
  ASSUME DInv, misuse = "none", ReadsTag, NEW type, NEW value, NEW text, NEW class,
         heap' = Allocated(Object(type, value, text, class))
  PROVE  /\ NewId \in Nat /\ Len(heap') = NewId /\ Len(heap) \in Nat
         /\ IsHeap(heap') /\ OnlyRefsFreed(heap') /\ heap'[NewId].type = type
         /\ IsStack(frames, NewId) /\ NewId \in 1 .. NewId
         /\ frames # <<>> => /\ frames[Len(frames)].step = "parts"
                             /\ frames[Len(frames)].obj < NewId
                             /\ NewId \in frames[Len(frames)].obj + 1 .. NewId
         /\ Covered(heap', HeldBy(frames) \cup {NewId})
<1> DEFINE n == Len(heap) + 1
           R == HeldBy(frames)
           R2 == HeldBy(frames) \cup {n}
<1>1. mode = "reading"
  BY DEF ReadsTag
<1>2. /\ IsHeap(heap) /\ IsStack(frames, Len(heap)) /\ Len(heap) \in Nat
      /\ HeldBy(frames) \subseteq 1 .. Len(heap)
      /\ OnlyRefsFreed(heap) /\ Covered(heap, HeldBy(frames))
  BY <1>1, ReadingIs
<1>3. /\ IsHeap(heap') /\ Extends(heap', heap) /\ Len(heap') = n
      /\ \A x \in 1 .. Len(heap) : heap'[x] = heap[x]
      /\ heap'[n].type = type /\ ~heap'[n].freed
  BY <1>2, AllocatedIs DEF Allocated
<1>4. n \in Nat /\ n \in 1 .. n /\ Len(heap) <= n /\ \A x \in 1 .. n : x = n \/ x \in 1 .. Len(heap)
  BY <1>2
<1>5. OnlyRefsFreed(heap')
  BY <1>2, <1>3, <1>4 DEF OnlyRefsFreed
<1>6. IsStack(frames, n)
  BY <1>2, <1>4, StackGrows
<1>7. ASSUME frames # <<>>
      PROVE  /\ frames[Len(frames)].step = "parts"
             /\ frames[Len(frames)].obj < n /\ n \in frames[Len(frames)].obj + 1 .. n
  <2>1. Top.obj \in 1 .. Len(heap)
    BY <1>1, <1>7, InnermostIs
  <2>2. Top.obj < n /\ n \in Top.obj + 1 .. n
    BY <1>2, <2>1
  <2> QED
    BY <1>7, <2>2 DEF Top, ReadsTag
<1>8. Covered(heap', R2)
  <2>1. R \in SUBSET (1 .. Len(heap)) /\ R2 \in SUBSET (1 .. n)
    BY <1>2, <1>4
  <2>3. R \subseteq R2 /\ \A x \in 1 .. n : x \in 1 .. Len(heap) \/ x \in R2
    BY <1>4
  <2> HIDE DEF R, R2, n
  <2>4. Covered(heap, R)
    BY <1>2 DEF R
  <2> QED
    BY <1>2, <1>3, <2>1, <2>3, <2>4, NoneIsLost
<1> QED
  BY <1>2, <1>3, <1>4, <1>5, <1>6, <1>7, <1>8 DEF NewId

LEMMA LeafHolds ==
  ASSUME DInv, misuse = "none", ReadsTag, NEW type, NEW value, NEW text, NEW class,
         heap' = Allocated(Object(type, value, text, class)),
         NEW wanting, Deliver(NewId, frames, wanting), abandoned' = abandoned
  PROVE  DInv'
<1>1. mode = "reading"
  BY DEF ReadsTag
<1>2. abandoned' = {}
  BY <1>1, ReadingIs
<1>3. /\ Len(heap') = NewId /\ IsHeap(heap') /\ OnlyRefsFreed(heap')
      /\ IsStack(frames, NewId) /\ NewId \in 1 .. NewId
      /\ frames # <<>> => /\ frames[Len(frames)].step = "parts"
                          /\ NewId \in frames[Len(frames)].obj + 1 .. NewId
      /\ Covered(heap', HeldBy(frames) \cup {NewId})
  BY AllocationIs
<1> HIDE DEF NewId
<1> QED
  BY <1>1, <1>2, <1>3, DeliverHolds

LEMMA ReadNullHolds == ASSUME DInv, misuse = "none", ReadNull PROVE DInv'
BY LeafHolds DEF ReadNull, Reads, Leaf

LEMMA ReadBooleanHolds == ASSUME DInv, misuse = "none", ReadBoolean PROVE DInv'
BY LeafHolds DEF ReadBoolean, Reads, Leaf

LEMMA ReadIntegerHolds == ASSUME DInv, misuse = "none", ReadInteger PROVE DInv'
BY LeafHolds DEF ReadInteger, Reads, Leaf

LEMMA ReadLongHolds == ASSUME DInv, misuse = "none", ReadLong PROVE DInv'
BY LeafHolds DEF ReadLong, Reads, Leaf

LEMMA ReadDoubleHolds == ASSUME DInv, misuse = "none", ReadDouble PROVE DInv'
BY LeafHolds DEF ReadDouble, Reads, Leaf

LEMMA ReadRemoteHolds == ASSUME DInv, misuse = "none", ReadRemote PROVE DInv'
<1> DEFINE Complete(class, url) ==
             /\ heap' = Allocated(Object("remote", 0, url.text, class.text))
             /\ Deliver(NewId, frames, class.starved \/ url.starved)
             /\ abandoned' = abandoned
           Lost ==
             /\ heap' = Allocated(Object("remote", 0, <<>>, <<>>))
             /\ abandoned' = abandoned \cup {NewId}
             /\ Fails
<1>1. ReadsTag /\ (Lost \/ \E class, url : Complete(class, url))
  BY DEF ReadRemote, Reads
<1>2. ASSUME NEW class, NEW url, Complete(class, url) PROVE DInv'
  BY <1>1, <1>2, LeafHolds
<1>3. CASE Lost
  <2>1. mode = "reading" /\ mode' = "failing" /\ frames' = frames
    BY <1>1, <1>3 DEF ReadsTag, Fails
  <2>2. abandoned' = {NewId}
    BY <1>3, <2>1, ReadingIs
  <2>3. heap' = Allocated(Object("remote", 0, <<>>, <<>>))
    BY <1>3
  <2>4. /\ Len(heap') = NewId /\ IsHeap(heap')
        /\ IsStack(frames, NewId) /\ NewId \in 1 .. NewId
        /\ Covered(heap', HeldBy(frames) \cup {NewId})
    BY <1>1, <2>3, AllocationIs
  <2>5. abandoned' \cup HeldBy(frames') = HeldBy(frames) \cup {NewId}
    BY <2>1, <2>2
  <2> QED
    BY <2>1, <2>2, <2>4, <2>5, FailingHolds
<1> QED
  BY <1>1, <1>2, <1>3

\* the frame of an object that is not complete yet
LEMMA OpensHolds ==
  ASSUME DInv, misuse = "none", ReadsTag, NEW type, NEW class, NEW next, Opens(type, class, next),
         mode' = mode \/ mode' = "failing", abandoned' = abandoned
  PROVE  DInv'
<1> DEFINE f == [obj |-> NewId, tag |-> ByteAt(pos), refs |-> <<>>,
                 step |-> IF type \in Texts THEN "chunks" ELSE "parts", done |-> 0]
<1>1. mode = "reading"
  BY DEF ReadsTag
<1>2. abandoned' = {}
  BY <1>1, ReadingIs
<1>3. /\ NewId \in Nat /\ Len(heap') = NewId /\ IsHeap(heap') /\ OnlyRefsFreed(heap')
      /\ IsStack(frames, NewId) /\ NewId \in 1 .. NewId
      /\ frames # <<>> => /\ frames[Len(frames)].step = "parts"
                          /\ frames[Len(frames)].obj < NewId
      /\ Covered(heap', HeldBy(frames) \cup {NewId})
  BY AllocationIs DEF Opens
<1> HIDE DEF NewId
<1>4. f.obj = NewId /\ f.refs = <<>> /\ f.step # "moving" /\ f.step \in {"chunks", "parts"}
      /\ f.done = 0 /\ IsFrameRecord(f)
  BY DEF IsFrameRecord
<1>5. frames' = Append(frames, f)
  BY DEF Opens
<1> HIDE DEF f
<1>6. IsFrame(f, NewId)
  BY <1>3, <1>4 DEF IsFrame
<1>7. frames # <<>> => Before(frames[Len(frames)], f)
  BY <1>3, <1>4 DEF Before
<1>8. /\ IsStack(frames', NewId) /\ frames' # <<>> /\ frames'[Len(frames')] = f
      /\ HeldBy(frames') = HeldBy(frames) \cup Held(f)
  BY <1>3, <1>5, <1>6, <1>7, StackPushed
<1>9. Held(f) = {NewId}
  BY <1>4 DEF Held, Elements
<1>10. Covered(heap', HeldBy(frames')) /\ Covered(heap', abandoned' \cup HeldBy(frames'))
  BY <1>2, <1>3, <1>8, <1>9
<1>11. CASE mode' = mode
  <2>1. Top'.step # "moving"
    BY <1>4, <1>8 DEF Top
  <2> QED
    BY <1>1, <1>2, <1>3, <1>8, <1>10, <1>11, <2>1, ReadingHolds
<1>12. CASE mode' = "failing"
  BY <1>2, <1>3, <1>8, <1>10, <1>12, FailingHolds
<1> QED
  BY <1>11, <1>12

LEMMA OpenContainerHolds == ASSUME DInv, misuse = "none", OpenContainer PROVE DInv'
<1>1. /\ ReadsTag /\ abandoned' = abandoned
      /\ mode' = mode \/ mode' = "failing"
      /\ \E type, class, next : Opens(type, class, next)
  BY DEF OpenContainer, OpensContainer, Reads
<1> QED
  BY <1>1, OpensHolds

LEMMA OpenSpoiltHolds == ASSUME DInv, misuse = "none", OpenSpoilt PROVE DInv'
<1>1. /\ ReadsTag /\ abandoned' = abandoned
      /\ mode' = mode \/ mode' = "failing"
      /\ \E type, class, next : Opens(type, class, next)
  BY DEF OpenSpoilt, OpensContainer, Reads
<1> QED
  BY <1>1, OpensHolds

LEMMA NameFaultsHolds == ASSUME DInv, misuse = "none", NameFaults PROVE DInv'
BY DEF NameFaults, DInv

LEMMA OpenTextHolds == ASSUME DInv, misuse = "none", OpenText PROVE DInv'
<1>1. /\ ReadsTag /\ abandoned' = abandoned
      /\ mode' = mode \/ mode' = "failing"
      /\ \E type, class, next : Opens(type, class, next)
  BY DEF OpenText, Reads
<1> QED
  BY <1>1, OpensHolds

-----------------------------------------------------------------------------
(* Texts.                                                                  *)

LEMMA ChunkFailsHolds == ASSUME DInv, misuse = "none", ChunkFails PROVE DInv'
BY DEF ChunkFails, DInv

LEMMA ChunkHangsHolds == ASSUME DInv, misuse = "none", ChunkHangs PROVE DInv'
<1>1. mode = "reading" /\ mode' = "hung" /\ frames' = frames /\ heap' = heap /\ abandoned' = abandoned
  BY DEF ChunkHangs, ReadsChunk
<1>2. /\ IsHeap(heap) /\ IsStack(frames, Len(heap)) /\ abandoned = {}
      /\ Covered(heap, HeldBy(frames))
  BY <1>1, ReadingIs
<1>3. Roots' = HeldBy(frames)
  BY <1>1, <1>2 DEF Roots
<1>4. Covered(heap', Roots')
  BY <1>1, <1>2, <1>3
<1> QED
  BY <1>1, <1>2, <1>4 DEF DInv, Sound

\* the text of an object changes: all are held as before
LEMMA TextKeeps ==
  ASSUME DInv, misuse = "none", mode = "reading", NEW o \in 1 .. Len(heap), NEW text,
         heap' = [heap EXCEPT ![o].text = text]
  PROVE  /\ IsHeap(heap') /\ Len(heap') = Len(heap) /\ Extends(heap', heap)
         /\ OnlyRefsFreed(heap')
         /\ \A R \in SUBSET (1 .. Len(heap)) : Covered(heap, R) => Covered(heap', R)
<1>1. IsHeap(heap) /\ OnlyRefsFreed(heap) /\ Len(heap) \in Nat
  BY ReadingIs
<1>2. /\ IsHeap(heap') /\ Extends(heap', heap) /\ Len(heap') = Len(heap)
      /\ SameMarks(heap', heap)
  BY <1>1, TextChanges
<1>3. OnlyRefsFreed(heap')
  BY <1>1, <1>2 DEF OnlyRefsFreed, SameMarks
<1>4. ASSUME NEW R \in SUBSET (1 .. Len(heap)), Covered(heap, R) PROVE Covered(heap', R)
  <2>1. \A x \in 1 .. Len(heap') : x \in 1 .. Len(heap) \/ x \in R
    BY <1>2
  <2>2. R \in SUBSET (1 .. Len(heap'))
    BY <1>2
  <2> QED
    BY <1>1, <1>2, <1>4, <2>1, <2>2, NoneIsLost
<1> QED
  BY <1>2, <1>3, <1>4

Advanced(f, t, s) == [f EXCEPT !.tag = t, !.step = s]

LEMMA TagStepChange ==
  ASSUME NEW f, IsFrameRecord(f), NEW t, NEW s
  PROVE  LET g == Advanced(f, t, s)
         IN  /\ IsFrameRecord(g) /\ g.step = s
             /\ g.obj = f.obj /\ g.refs = f.refs /\ g.done = f.done
<1> DEFINE e == [f EXCEPT !.tag = t]
           g == [e EXCEPT !.step = s]
<1>1. IsFrameRecord(e) /\ e.obj = f.obj /\ e.refs = f.refs /\ e.done = f.done
  BY DEF IsFrameRecord
<1>2. g = Advanced(f, t, s)
  BY DEF Advanced
<1> HIDE DEF e
<1>3. IsFrameRecord(g) /\ g.step = s /\ g.obj = e.obj /\ g.refs = e.refs /\ g.done = e.done
  BY <1>1 DEF IsFrameRecord
<1> QED
  BY <1>1, <1>2, <1>3

LEMMA PassChunkHolds ==
  ASSUME DInv, misuse = "none", ReadsChunk, NEW text, PassChunk(text), UNCHANGED <<mode, abandoned>>
  PROVE  DInv'
<1>1. mode = "reading" /\ frames # <<>> /\ Top.step = "chunks"
      /\ mode' = mode /\ abandoned' = abandoned
  BY DEF ReadsChunk
<1>2. PICK t, s, u : /\ frames' = [frames EXCEPT ![Len(frames)].tag = t, ![Len(frames)].step = s]
                     /\ s \in {"chunks", "end"}
                     /\ heap' = [heap EXCEPT ![Top.obj].text = u]
  BY DEF PassChunk
<1> DEFINE g == Advanced(Top, t, s)
<1>3. /\ IsStack(frames, Len(heap)) /\ Len(heap) \in Nat /\ abandoned = {}
      /\ Covered(heap, HeldBy(frames)) /\ HeldBy(frames) \subseteq 1 .. Len(heap)
  BY <1>1, ReadingIs
<1>4. /\ IsFrame(Top, Len(heap)) /\ Top.obj \in 1 .. Len(heap)
      /\ HeldBy(frames) = HeldBy(Rest) \cup Held(Top) /\ Len(frames) \in 1 .. Len(frames)
  BY <1>1, InnermostIs
<1>5. IsFrameRecord(g) /\ g.step = s /\ g.obj = Top.obj /\ g.refs = Top.refs /\ g.done = Top.done
  <2>1. IsFrameRecord(Top)
    BY <1>4 DEF IsFrame
  <2> QED
    BY <2>1, TagStepChange
<1>6. frames' = [frames EXCEPT ![Len(frames)] = g]
  BY <1>2, <1>4 DEF Top, Advanced
<1> HIDE DEF g
<1>7. IsFrame(g, Len(heap))
  BY <1>1, <1>2, <1>4, <1>5 DEF IsFrame
<1>8. /\ IsStack(frames', Len(heap)) /\ frames' # <<>> /\ Top' = g
      /\ HeldBy(frames') = HeldBy(Rest) \cup Held(g)
  BY <1>1, <1>5, <1>6, <1>7, InnermostBecomes
<1>9. HeldBy(frames') = HeldBy(frames)
  BY <1>4, <1>5, <1>8 DEF Held
<1>10. /\ IsHeap(heap') /\ Len(heap') = Len(heap) /\ OnlyRefsFreed(heap')
       /\ Covered(heap', HeldBy(frames'))
  BY <1>1, <1>2, <1>3, <1>4, <1>9, TextKeeps
<1>11. Top'.step # "moving"
  BY <1>2, <1>5, <1>8
<1> QED
  BY <1>1, <1>3, <1>8, <1>10, <1>11, ReadingHolds

LEMMA ReadChunkHolds == ASSUME DInv, misuse = "none", ReadChunk PROVE DInv'
BY PassChunkHolds DEF ReadChunk

LEMMA GrowthFailsHolds == ASSUME DInv, misuse = "none", GrowthFails PROVE DInv'
<1>1. CASE misuse' = "null text" /\ UNCHANGED <<pos, frames, heap>>
  BY <1>1 DEF GrowthFails, DInv
<1>2. ASSUME NEW text, PassChunk(text) PROVE DInv'
  BY <1>2, PassChunkHolds DEF GrowthFails
<1>3. \/ misuse' = "null text" /\ UNCHANGED <<pos, frames, heap>>
      \/ \E text : PassChunk(text)
  BY DEF GrowthFails
<1> QED
  BY <1>1, <1>2, <1>3

LEMMA TextFailsHolds == ASSUME DInv, misuse = "none", TextFails PROVE DInv'
<1>1. mode = "reading" /\ mode' = "failing" /\ frames' = frames /\ heap' = heap /\ abandoned' = abandoned
  BY DEF TextFails, NoMemory, Fails
<1> QED
  BY <1>1, JustFails

\* the innermost object is complete: it is what the one before it waits for
LEMMA CompleteHolds ==
  ASSUME DInv, misuse = "none", mode = "reading", frames # <<>>,
         NEW wanting, Deliver(Top.obj, Rest, wanting), abandoned' = abandoned,
         IsHeap(heap'), Len(heap') = Len(heap), OnlyRefsFreed(heap'),
         Covered(heap', HeldBy(Rest) \cup {Top.obj})
  PROVE  DInv'
<1>1. abandoned' = {} /\ Len(heap) \in Nat
  BY ReadingIs
<1>2. /\ IsStack(Rest, Len(heap)) /\ Top.obj \in 1 .. Len(heap)
      /\ Rest # <<>> => Before(Rest[Len(Rest)], Top)
  BY InnermostIs
<1>3. ASSUME Rest # <<>>
      PROVE  /\ Rest[Len(Rest)].step = "parts"
             /\ Top.obj \in Rest[Len(Rest)].obj + 1 .. Len(heap)
  <2>1. Rest[Len(Rest)].step = "parts" /\ Rest[Len(Rest)].obj < Top.obj
    BY <1>2, <1>3 DEF Before
  <2>2. IsFrame(Rest[Len(Rest)], Len(heap))
    BY <1>1, <1>2, <1>3, TopIs
  <2>3. Rest[Len(Rest)].obj \in Nat
    BY <1>1, <2>2, ObjIs
  <2> QED
    BY <1>1, <1>2, <2>1, <2>3
<1> QED
  BY <1>1, <1>2, <1>3, DeliverHolds

LEMMA EndOfTextHolds == ASSUME DInv, misuse = "none", EndOfText PROVE DInv'
<1>1. /\ mode = "reading" /\ frames # <<>> /\ Top.step = "end" /\ abandoned' = abandoned
      /\ \E wanting : Deliver(Top.obj, Rest, wanting)
      /\ heap' = heap \/ heap' = [heap EXCEPT ![Top.obj].text = <<>>]
  BY DEF EndOfText
<1>2. /\ IsHeap(heap) /\ OnlyRefsFreed(heap) /\ Covered(heap, HeldBy(frames))
      /\ HeldBy(frames) \subseteq 1 .. Len(heap)
  BY <1>1, ReadingIs
<1>3. /\ IsFrame(Top, Len(heap)) /\ Top.obj \in 1 .. Len(heap)
      /\ HeldBy(frames) = HeldBy(Rest) \cup Held(Top)
  BY <1>1, InnermostIs
<1>4. Held(Top) = {Top.obj}
  <2>1. Top.refs = <<>>
    BY <1>1, <1>3 DEF IsFrame
  <2> QED
    BY <2>1 DEF Held, Elements
<1>5. /\ IsHeap(heap') /\ Len(heap') = Len(heap) /\ OnlyRefsFreed(heap')
      /\ Covered(heap', HeldBy(frames))
  BY <1>1, <1>2, <1>3, TextKeeps
<1>6. Covered(heap', HeldBy(Rest) \cup {Top.obj})
  BY <1>3, <1>4, <1>5
<1> QED
  BY <1>1, <1>5, <1>6, CompleteHolds

-----------------------------------------------------------------------------
(* The ends of lists and maps.                                             *)

Stepped(f, s) == [f EXCEPT !.step = s]

LEMMA StepChange ==
  ASSUME NEW f, IsFrameRecord(f), NEW s
  PROVE  LET g == Stepped(f, s)
         IN  /\ IsFrameRecord(g) /\ g.step = s
             /\ g.obj = f.obj /\ g.refs = f.refs /\ g.done = f.done
  BY DEF IsFrameRecord, Stepped

LEMMA CloseContainerHolds == ASSUME DInv, misuse = "none", CloseContainer PROVE DInv'
<1>1. /\ mode = "reading" /\ heap' = heap /\ abandoned' = abandoned /\ ReadsTag /\ AtEnd
      /\ \/ frames' = [frames EXCEPT ![Len(frames)].step = "moving"] /\ mode' = mode
         \/ NoMemory
  BY DEF CloseContainer, ReadsTag
<1>2. CASE NoMemory
  BY <1>1, <1>2, JustFails DEF NoMemory, Fails
<1>3. CASE frames' = [frames EXCEPT ![Len(frames)].step = "moving"] /\ mode' = mode
  <2> DEFINE g == Stepped(Top, "moving")
  <2>1. frames # <<>> /\ Top.step = "parts" /\ (TypeOfTop = "map" => Len(Top.refs) % 2 # 1)
    BY <1>1 DEF AtEnd, ReadsTag, AwaitsValue, InsideMap
  <2>2. /\ IsHeap(heap) /\ abandoned = {} /\ OnlyRefsFreed(heap) /\ Len(heap) \in Nat
        /\ Covered(heap, HeldBy(frames))
    BY <1>1, ReadingIs
  <2>3. /\ IsFrame(Top, Len(heap)) /\ Len(Top.refs) \in Nat /\ Len(frames) \in 1 .. Len(frames)
        /\ HeldBy(frames) = HeldBy(Rest) \cup Held(Top)
    BY <1>1, <2>1, InnermostIs
  <2>4. IsFrameRecord(g) /\ g.step = "moving" /\ g.obj = Top.obj /\ g.refs = Top.refs /\ g.done = Top.done
    <3>1. IsFrameRecord(Top)
      BY <2>3 DEF IsFrame
    <3> QED
      BY <3>1, StepChange
  <2>5. frames' = [frames EXCEPT ![Len(frames)] = g]
    BY <1>3, <2>3 DEF Stepped, Top
  <2> HIDE DEF g
  <2>6. IsFrame(g, Len(heap))
    BY <2>3, <2>4 DEF IsFrame
  <2>7. /\ IsStack(frames', Len(heap)) /\ frames' # <<>> /\ Top' = g
        /\ HeldBy(frames') = HeldBy(Rest) \cup Held(g)
    BY <1>1, <2>1, <2>4, <2>5, <2>6, InnermostBecomes
  <2>8. HeldBy(frames') = HeldBy(frames)
    BY <2>3, <2>4, <2>7 DEF Held
  <2>9. Moving(g, heap)
    <3>1. g.done = 0
      BY <2>1, <2>3, <2>4 DEF IsFrame
    <3>2. 0 \in 0 .. Len(g.refs) /\ \A k : k \notin 1 .. 0
      BY <2>3, <2>4
    <3>3. heap[g.obj].type = "map" => Len(g.refs) % 2 = 0 /\ 0 % 2 = 0
      <4>1. heap[g.obj].type = "map" => Len(g.refs) % 2 # 1
        BY <2>1, <2>4 DEF TypeOfTop
      <4>2. \A l \in Nat : l % 2 # 1 => l % 2 = 0
        OBVIOUS
      <4>3. Len(g.refs) \in Nat /\ 0 % 2 = 0
        BY <2>3, <2>4
      <4> QED
        BY <4>1, <4>2, <4>3
    <3> QED
      BY <3>1, <3>2, <3>3 DEF Moving
  <2> QED
    BY <1>1, <1>3, <2>2, <2>7, <2>8, <2>9, ReadingHolds
<1> QED
  BY <1>1, <1>2, <1>3

-----------------------------------------------------------------------------
(* Parts move from the temporary list to where they belong.                *)

LEMMA ExtendsTwice ==
  ASSUME NEW h, NEW h1, NEW h2, Extends(h1, h), Extends(h2, h1),
         Len(h) \in Nat, Len(h1) \in Nat, Len(h2) \in Nat
  PROVE  Extends(h2, h)
<1>1. \A x \in 1 .. Len(h) : x \in 1 .. Len(h1)
  BY DEF Extends
<1> QED
  BY <1>1 DEF Extends

\* what a container gains by one move: its new parts, and perhaps a reference less
Gains(h2, h, o, os) ==
  /\ IsHeap(h2) /\ Extends(h2, h) /\ Len(h2) = Len(h)
  /\ OnlyRefsFreed(h) => OnlyRefsFreed(h2)
  /\ Elements(os) \subseteq Kids(h2, o)

LEMMA PartsGained ==
  ASSUME NEW h, IsHeap(h), NEW o \in 1 .. Len(h), h[o].type # "ref",
         NEW os \in Seq(o + 1 .. Len(h)), NEW h2, h2 = [h EXCEPT ![o].parts = @ \o os]
  PROVE  Gains(h2, h, o, os) /\ SameMarks(h2, h)
<1>1. /\ IsHeap(h2) /\ Extends(h2, h) /\ Len(h2) = Len(h)
      /\ SameMarks(h2, h) /\ Elements(os) \subseteq Kids(h2, o)
  BY PartsMove, ZenonT(40)
<1>2. OnlyRefsFreed(h) => OnlyRefsFreed(h2)
  BY <1>1 DEF OnlyRefsFreed, SameMarks
<1> QED
  BY <1>1, <1>2 DEF Gains

LosesReference(h1, h, e) ==
  /\ IsHeap(h1) /\ Extends(h1, h) /\ Len(h1) = Len(h)
  /\ OnlyRefsFreed(h) => OnlyRefsFreed(h1)
  /\ \A x \in 1 .. Len(h) : h1[x].type = h[x].type
  /\ h1[e].freed

LEMMA ReferenceReleased ==
  ASSUME NEW h, IsHeap(h), NEW e \in 1 .. Len(h), h[e].type = "ref"
  PROVE  LosesReference([h EXCEPT ![e].freed = TRUE], h, e)
<1> DEFINE h1 == [h EXCEPT ![e].freed = TRUE]
<1>1. IsReleased(h1, h, e)
  BY ReleasedIs
<1> HIDE DEF h1
<1>2. OnlyRefsFreed(h) => OnlyRefsFreed(h1)
  BY <1>1 DEF OnlyRefsFreed, IsReleased
<1>3. \A x \in 1 .. Len(h) : h1[x].type = h[x].type
  BY <1>1 DEF IsReleased
<1>4. LosesReference(h1, h, e)
  BY <1>1, <1>2, <1>3 DEF LosesReference, IsReleased
<1> QED
  BY <1>4 DEF h1

LEMMA PartsReplaceReference ==
  ASSUME NEW h, IsHeap(h), NEW o \in 1 .. Len(h), h[o].type # "ref",
         NEW os \in Seq(o + 1 .. Len(h)), NEW e \in 1 .. Len(h), h[e].type = "ref",
         NEW h1, h1 = [h EXCEPT ![e].freed = TRUE],
         NEW h2, h2 = [h1 EXCEPT ![o].parts = @ \o os]
  PROVE  Gains(h2, h, o, os) /\ h2[e].freed
<1>1. /\ IsHeap(h1) /\ Extends(h1, h) /\ Len(h1) = Len(h)
      /\ OnlyRefsFreed(h) => OnlyRefsFreed(h1)
      /\ h1[o].type # "ref" /\ h1[e].freed
  <2>1. LosesReference(h1, h, e)
    BY ReferenceReleased
  <2> QED
    BY <2>1 DEF LosesReference
<1>2. o \in 1 .. Len(h1) /\ os \in Seq(o + 1 .. Len(h1))
  BY <1>1
<1>3. Gains(h2, h1, o, os) /\ SameMarks(h2, h1)
  BY <1>1, <1>2, PartsGained
<1>4. Len(h) \in Nat /\ Len(h1) \in Nat /\ Len(h2) \in Nat
  BY <1>1, <1>3, HeapIs DEF Gains
<1>5. Extends(h2, h)
  BY <1>1, <1>3, <1>4, ExtendsTwice, ZenonT(40) DEF Gains
<1>6. h2[e].freed
  BY <1>1, <1>3 DEF SameMarks
<1> QED
  BY <1>1, <1>3, <1>5, <1>6 DEF Gains

LEMMA SomeParts ==
  ASSUME NEW A, NEW x \in A, NEW y \in A
  PROVE  /\ <<x>> \in Seq(A) /\ x \in Elements(<<x>>)
         /\ <<x, y>> \in Seq(A) /\ x \in Elements(<<x, y>>) /\ y \in Elements(<<x, y>>)
<1>1. /\ <<x>> \in Seq(A) /\ <<x>>[1] = x /\ 1 \in DOMAIN <<x>>
      /\ <<x, y>> \in Seq(A) /\ <<x, y>>[1] = x /\ <<x, y>>[2] = y
      /\ 1 \in DOMAIN <<x, y>> /\ 2 \in DOMAIN <<x, y>>
  OBVIOUS
<1> QED
  BY <1>1 DEF Elements

\* what has been moved stays moved
LEMMA MovingStays ==
  ASSUME NEW n, NEW f, IsFrame(f, n), NEW h, NEW h2, Len(h) = n, n \in Nat, Extends(h2, h), Moving(f, h)
  PROVE  \A k \in 1 .. f.done : h2[f.refs[k]].freed \/ f.refs[k] \in Kids(h2, f.obj)
<1> SUFFICES ASSUME NEW k \in 1 .. f.done
             PROVE  h2[f.refs[k]].freed \/ f.refs[k] \in Kids(h2, f.obj)
  OBVIOUS
<1>1. /\ \A x \in Elements(f.refs) : x \in f.obj + 1 .. n
      /\ \A j \in 1 .. Len(f.refs) : f.refs[j] \in Elements(f.refs)
      /\ f.obj \in 1 .. n /\ Len(f.refs) \in Nat
  BY FrameIs, ObjIs
<1>2. k \in 1 .. Len(f.refs)
  BY <1>1 DEF Moving
<1>3. f.refs[k] \in f.obj + 1 .. n
  BY <1>1, <1>2
<1>4. f.refs[k] \in 1 .. n
  BY <1>1, <1>3
<1>5. h[f.refs[k]].freed \/ f.refs[k] \in Kids(h, f.obj)
  BY DEF Moving
<1> QED
  BY <1>1, <1>4, <1>5 DEF Extends

-----------------------------------------------------------------------------
(* Elements.                                                               *)

Onward(f) == [f EXCEPT !.done = @ + 1]

LEMMA DoneChange ==
  ASSUME NEW f, IsFrameRecord(f)
  PROVE  LET g == Onward(f)
         IN  /\ IsFrameRecord(g) /\ g.done = f.done + 1
             /\ g.obj = f.obj /\ g.refs = f.refs /\ g.step = f.step
  BY DEF IsFrameRecord, Onward

\* the next element, and the one that it names
LEMMA ElementIs ==
  ASSUME DInv, misuse = "none", MovesMore("list")
  PROVE  /\ mode = "reading" /\ frames # <<>> /\ Top.step = "moving" /\ TypeOfTop = "list"
         /\ Moving(Top, heap)
         /\ Top.done \in Nat /\ Top.done + 1 \in 1 .. Len(Top.refs)
         /\ Element \in Elements(Top.refs)
         /\ ListTarget \in DOMAIN Top.refs => Top.refs[ListTarget] \in Elements(Top.refs)
<1>1. /\ mode = "reading" /\ frames # <<>> /\ Top.step = "moving" /\ TypeOfTop = "list"
      /\ Top.done < Len(Top.refs)
  BY DEF MovesMore, Moves
<1>2. Moving(Top, heap)
  BY <1>1, ReadingIs
<1>3. /\ IsFrame(Top, Len(heap))
      /\ DOMAIN Top.refs = 1 .. Len(Top.refs) /\ Len(Top.refs) \in Nat
      /\ \A k \in 1 .. Len(Top.refs) : Top.refs[k] \in Elements(Top.refs)
  BY <1>1, InnermostIs
<1>4. Top.done \in Nat
  BY <1>3 DEF IsFrame
<1>5. Top.done + 1 \in 1 .. Len(Top.refs)
  BY <1>1, <1>3, <1>4
<1> QED
  BY <1>1, <1>2, <1>3, <1>4, <1>5 DEF Element

LEMMA MoveElementHolds == ASSUME DInv, misuse = "none", MoveElement PROVE DInv'
<1> DEFINE n == Len(heap)
           o == Top.obj
           g == Onward(Top)
           target == Top.refs[ListTarget]
<1>1. /\ MovesMore("list") /\ mode' = mode /\ abandoned' = abandoned
      /\ frames' = [frames EXCEPT ![Len(frames)].done = @ + 1]
      /\ \/ ~IsRef(Element) /\ heap' = Moved(heap, <<Element>>)
         \/ /\ IsRef(Element) /\ ListTarget \in DOMAIN Top.refs
            /\ heap' = Moved(Released(Element), <<target>>)
  BY DEF MoveElement
<1>2. /\ mode = "reading" /\ frames # <<>> /\ Top.step = "moving" /\ TypeOfTop = "list"
      /\ Moving(Top, heap)
      /\ Top.done \in Nat /\ Top.done + 1 \in 1 .. Len(Top.refs)
      /\ Element \in Elements(Top.refs)
      /\ ListTarget \in DOMAIN Top.refs => target \in Elements(Top.refs)
  BY <1>1, ElementIs
<1>3. /\ IsHeap(heap) /\ n \in Nat /\ abandoned = {} /\ OnlyRefsFreed(heap)
      /\ HeldBy(frames) \subseteq 1 .. n /\ Covered(heap, HeldBy(frames))
  BY <1>2, ReadingIs
<1>4. /\ IsFrame(Top, n) /\ o \in 1 .. n /\ Len(frames) \in 1 .. Len(frames)
      /\ HeldBy(frames) = HeldBy(Rest) \cup Held(Top)
      /\ Elements(Top.refs) \subseteq 1 .. n
      /\ \A x \in Elements(Top.refs) : x \in o + 1 .. n
      /\ Len(Top.refs) \in Nat
  BY <1>2, InnermostIs
<1>5. Element \in o + 1 .. n /\ Element \in 1 .. n /\ heap[o].type # "ref"
  BY <1>2, <1>4 DEF TypeOfTop
<1>6. \E os : Gains(heap', heap, o, os) /\ (heap'[Element].freed \/ Element \in Elements(os))
  <2>1. CASE ~IsRef(Element) /\ heap' = Moved(heap, <<Element>>)
    <3>1. <<Element>> \in Seq(o + 1 .. n) /\ Element \in Elements(<<Element>>)
      BY <1>5, SomeParts
    <3>2. heap' = [heap EXCEPT ![o].parts = @ \o <<Element>>]
      BY <2>1 DEF Moved
    <3>3. Gains(heap', heap, o, <<Element>>)
      BY <1>3, <1>4, <1>5, <3>1, <3>2, PartsGained
    <3> QED
      BY <3>1, <3>3
  <2>2. CASE IsRef(Element) /\ ListTarget \in DOMAIN Top.refs
             /\ heap' = Moved(Released(Element), <<target>>)
    <3>1. target \in o + 1 .. n
      BY <1>2, <1>4, <2>2
    <3>2. <<target>> \in Seq(o + 1 .. n)
      BY <3>1, SomeParts
    <3>3. /\ heap' = [Released(Element) EXCEPT ![o].parts = @ \o <<target>>]
          /\ Released(Element) = [heap EXCEPT ![Element].freed = TRUE]
      BY <2>2 DEF Moved, Released
    <3>4. heap[Element].type = "ref"
      BY <2>2 DEF IsRef
    <3>5. Gains(heap', heap, o, <<target>>) /\ heap'[Element].freed
      <4> HIDE DEF target, o
      <4> QED
        BY <1>3, <1>4, <1>5, <3>2, <3>3, <3>4, PartsReplaceReference
    <3> QED
      BY <3>5
  <2> QED
    BY <1>1, <2>1, <2>2
<1>7. /\ IsHeap(heap') /\ Extends(heap', heap) /\ Len(heap') = n /\ OnlyRefsFreed(heap')
      /\ heap'[Element].freed \/ Element \in Kids(heap', o)
  BY <1>3, <1>6 DEF Gains
<1>8. IsFrameRecord(g) /\ g.step = Top.step /\ g.obj = o /\ g.refs = Top.refs /\ g.done = Top.done + 1
  <2>1. IsFrameRecord(Top)
    BY <1>4 DEF IsFrame
  <2> QED
    BY <2>1, DoneChange
<1>9. frames' = [frames EXCEPT ![Len(frames)] = g]
  BY <1>1, <1>4 DEF Onward, Top
<1> HIDE DEF g, target
<1>10. IsFrame(g, n)
  BY <1>2, <1>4, <1>8 DEF IsFrame
<1>11. /\ IsStack(frames', n) /\ frames' # <<>> /\ Top' = g
       /\ HeldBy(frames') = HeldBy(Rest) \cup Held(g)
  BY <1>2, <1>8, <1>9, <1>10, InnermostBecomes
<1>12. HeldBy(frames') = HeldBy(frames)
  BY <1>4, <1>8, <1>11 DEF Held
<1>13. Covered(heap', HeldBy(frames'))
  <2>1. HeldBy(frames) \subseteq 1 .. Len(heap') /\ HeldBy(frames) \subseteq HeldBy(frames')
        /\ \A x \in 1 .. Len(heap') : x \in 1 .. Len(heap)
    BY <1>3, <1>7, <1>12
  <2> QED
    BY <1>3, <1>7, <1>12, <2>1, NoneIsLost
<1>14. Moving(g, heap')
  <2>1. \A k \in 1 .. Top.done : heap'[Top.refs[k]].freed \/ Top.refs[k] \in Kids(heap', o)
    BY <1>2, <1>3, <1>4, <1>7, MovingStays
  <2>2. ASSUME NEW k \in 1 .. g.done
        PROVE  heap'[g.refs[k]].freed \/ g.refs[k] \in Kids(heap', g.obj)
    <3>1. k \in 1 .. Top.done \/ k = Top.done + 1
      BY <1>2, <1>8
    <3> QED
      BY <1>7, <1>8, <2>1, <3>1 DEF Element
  <2>3. g.done \in 0 .. Len(g.refs)
    BY <1>2, <1>8
  <2>4. heap'[g.obj].type # "map"
    BY <1>2, <1>4, <1>7, <1>8 DEF Extends, TypeOfTop
  <2> QED
    BY <2>2, <2>3, <2>4 DEF Moving
<1> QED
  BY <1>1, <1>2, <1>3, <1>7, <1>11, <1>13, <1>14, ReadingHolds

-----------------------------------------------------------------------------
(* Objects are deleted.                                                    *)

\* h after those in S have been freed
Without(h, S) == [x \in DOMAIN h |-> [h[x] EXCEPT !.freed = @ \/ x \in S]]

Freed(h2, h, S) ==
  /\ IsHeap(h2) /\ Extends(h2, h) /\ Len(h2) = Len(h)
  /\ \A x \in 1 .. Len(h) : Kids(h2, x) = Kids(h, x)
  /\ \A x \in 1 .. Len(h) : h2[x].freed <=> (h[x].freed \/ x \in S)

LEMMA WithoutIs ==
  ASSUME NEW h, IsHeap(h), NEW S
  PROVE  Freed(Without(h, S), h, S)
<1> DEFINE e(x) == [h[x] EXCEPT !.freed = @ \/ x \in S]
           h2 == [x \in 1 .. Len(h) |-> e(x)]
           D == {e(x) : x \in 1 .. Len(h)}
<1>1. Len(h) \in Nat /\ DOMAIN h = 1 .. Len(h)
  BY HeapIs
<1>2. Without(h, S) = h2
  BY <1>1 DEF Without
<1>3. ASSUME NEW x \in 1 .. Len(h)
      PROVE  /\ IsObject(e(x), x, Len(h)) /\ e(x).type = h[x].type /\ e(x).parts = h[x].parts
             /\ e(x).freed <=> (h[x].freed \/ x \in S)
  <2>1. IsObject(h[x], x, Len(h))
    BY DEF IsHeap
  <2>2. PICK v \in BOOLEAN : v = (h[x].freed \/ x \in S)
    OBVIOUS
  <2>3. e(x) = Marked(h[x], v)
    BY <2>2 DEF Marked
  <2> HIDE DEF e
  <2>4. IsRecord(e(x)) /\ e(x).type = h[x].type /\ e(x).parts = h[x].parts /\ e(x).freed = v
    BY <2>1, <2>3, FreedChanges DEF IsObject
  <2>5. IsObject(e(x), x, Len(h))
    BY <2>1, <2>4 DEF IsObject
  <2> QED
    BY <2>2, <2>4, <2>5
<1> HIDE DEF e
<1>4. h2 \in Seq(D) /\ Len(h2) = Len(h)
  BY <1>1
<1>5. \A x \in 1 .. Len(h) : h2[x] = e(x)
  OBVIOUS
<1> HIDE DEF h2
<1>6. IsHeap(h2)
  BY <1>3, <1>4, <1>5 DEF IsHeap
<1>7. \A x \in 1 .. Len(h) : Kids(h2, x) = Kids(h, x)
  BY <1>3, <1>5 DEF Kids
<1>8. \A x \in 1 .. Len(h) : h2[x].freed <=> (h[x].freed \/ x \in S)
  BY <1>3, <1>5
<1>9. Extends(h2, h)
  BY <1>1, <1>3, <1>4, <1>5, <1>7, <1>8 DEF Extends
<1> QED
  BY <1>2, <1>4, <1>6, <1>7, <1>8, <1>9 DEF Freed

LEMMA FreesIs ==
  ASSUME NEW h, IsHeap(h), NEW S, Frees(h, S), misuse = "none"
  PROVE  misuse' = "none" => /\ heap' = Without(h, AllBelow(h, S))
                             /\ \A o \in AllBelow(h, S) : ~h[o].freed
BY DEF Frees, Without

\* what is freed already is deleted again
LEMMA FreedTwice ==
  ASSUME NEW h, IsHeap(h), NEW S \in SUBSET (1 .. Len(h)), NEW o \in S, h[o].freed,
         Frees(h, S), misuse = "none"
  PROVE  misuse' # "none"
<1>1. S \subseteq AllBelow(h, S)
  BY HeapIs, AllBelowHoldsKids
<1> QED
  BY <1>1, FreesIs

LEMMA PartsIs == Parts(Top) = Elements(Top.refs)
BY DEF Parts, Elements

LEMMA DanglingElementHolds == ASSUME DInv, misuse = "none", DanglingElement PROVE DInv'
<1>1. MovesMore("list") /\ Frees(Released(Element), Elements(Top.refs))
  BY PartsIs DEF DanglingElement
<1>2. mode = "reading" /\ frames # <<>> /\ Element \in Elements(Top.refs)
  BY <1>1, ElementIs
<1>3. IsHeap(heap) /\ Elements(Top.refs) \subseteq 1 .. Len(heap)
  BY <1>2, ReadingIs, InnermostIs
<1>4. IsReleased(Released(Element), heap, Element)
  BY <1>2, <1>3, ReleasedIs DEF Released
<1>5. /\ IsHeap(Released(Element)) /\ Released(Element)[Element].freed
      /\ Elements(Top.refs) \in SUBSET (1 .. Len(Released(Element)))
  BY <1>3, <1>4 DEF IsReleased
<1>6. misuse' # "none"
  BY <1>1, <1>2, <1>5, FreedTwice
<1> QED
  BY <1>6 DEF DInv

LEMMA ElementRefusedHolds == ASSUME DInv, misuse = "none", ElementRefused PROVE DInv'
<1> DEFINE o == IF IsRef(Element) THEN Top.refs[ListTarget] ELSE Element
           h == IF IsRef(Element) THEN Released(Element) ELSE heap
           h2 == Without(h, Below(h, o))
<1>1. /\ MovesMore("list") /\ (IsRef(Element) => ListTarget \in DOMAIN Top.refs)
      /\ misuse' # "none" \/ Frees(h2, Elements(Top.refs))
  BY PartsIs DEF ElementRefused, NamesElement, Without
<1>2. /\ mode = "reading" /\ frames # <<>> /\ Element \in Elements(Top.refs)
      /\ o \in Elements(Top.refs)
  BY <1>1, ElementIs
<1>3. IsHeap(heap) /\ Elements(Top.refs) \subseteq 1 .. Len(heap)
  BY <1>2, ReadingIs, InnermostIs
<1>4. IsHeap(h) /\ Len(h) = Len(heap)
  <2>1. IsReleased(Released(Element), heap, Element)
    BY <1>2, <1>3, ReleasedIs DEF Released
  <2> QED
    BY <1>3, <2>1 DEF IsReleased
<1> HIDE DEF o, h
<1>5. o \in 1 .. Len(h) /\ Len(h) \in Nat /\ PartsFollow(h)
  BY <1>2, <1>3, <1>4, HeapIs
<1>6. o \in Below(h, o)
  BY <1>5, BelowIsLeast, LeastHoldsKids
<1>7. Freed(h2, h, Below(h, o))
  BY <1>4, WithoutIs
<1> HIDE DEF h2
<1>8. IsHeap(h2) /\ Len(h2) = Len(heap) /\ h2[o].freed
  BY <1>4, <1>5, <1>6, <1>7 DEF Freed
<1>9. Elements(Top.refs) \in SUBSET (1 .. Len(h2))
  BY <1>3, <1>8
<1>10. misuse' # "none"
  BY <1>1, <1>2, <1>8, <1>9, FreedTwice
<1> QED
  BY <1>10 DEF DInv

-----------------------------------------------------------------------------
(* Pairs of a map.                                                         *)

LEMMA Pairwise ==
  ASSUME NEW l \in Nat, NEW d \in Nat, l % 2 = 0, d % 2 = 0, d < l
  PROVE  d + 1 \in 1 .. l /\ d + 2 \in 1 .. l /\ d + 2 \in 0 .. l /\ (d + 2) % 2 = 0
  OBVIOUS

LEMMA TargetInside ==
  ASSUME NEW l \in Nat, NEW v \in 0 .. l \div 2 - 1
  PROVE  2 * (v + 1) \in 1 .. l
<1>1. l = 2 * (l \div 2) + (l % 2) /\ l \div 2 \in Nat /\ l % 2 \in 0 .. 1
  OBVIOUS
<1>2. 2 * (v + 1) <= 2 * (l \div 2)
  BY <1>1
<1> QED
  BY <1>1, <1>2

\* the pair at k is done, and its value is v
Paired(f, k, v) == [f EXCEPT !.done = @ + 2, !.refs[k] = v]
Replaced(s, k, v) == [s EXCEPT ![k] = v]

LEMMA PairChange ==
  ASSUME NEW f, IsFrameRecord(f), NEW k, NEW v
  PROVE  LET g == Paired(f, k, v)
         IN  /\ IsFrameRecord(g) /\ g.done = f.done + 2 /\ g.refs = Replaced(f.refs, k, v)
             /\ g.obj = f.obj /\ g.step = f.step
<1> DEFINE d == f.done + 2
           r == Replaced(f.refs, k, v)
           e == [f EXCEPT !.done = d]
           g == [e EXCEPT !.refs = r]
<1>1. g = Paired(f, k, v)
  BY DEF Paired, Replaced, IsFrameRecord
<1> HIDE DEF d, r
<1>2. IsFrameRecord(e) /\ e.done = d /\ e.obj = f.obj /\ e.step = f.step
  BY DEF IsFrameRecord
<1> HIDE DEF e
<1>3. IsFrameRecord(g) /\ g.refs = r /\ g.done = e.done /\ g.obj = e.obj /\ g.step = e.step
  BY <1>2 DEF IsFrameRecord
<1> QED
  BY <1>1, <1>2, <1>3 DEF d, r

HasInstead(t, s, k, v) ==
  /\ Len(t) = Len(s) /\ t[k] = v
  /\ \A j \in 1 .. Len(s) : j # k => t[j] = s[j]
  /\ Elements(s) \subseteq Elements(t) \cup {s[k]}
  /\ v = s[k] => Elements(t) = Elements(s)

LEMMA ElementReplaced ==
  ASSUME NEW A, NEW s \in Seq(A), NEW k \in 1 .. Len(s), NEW v \in A
  PROVE  Replaced(s, k, v) \in Seq(A) /\ HasInstead(Replaced(s, k, v), s, k, v)
<1> DEFINE t == Replaced(s, k, v)
<1>1. t \in Seq(A) /\ Len(t) = Len(s) /\ t[k] = v /\ \A j \in 1 .. Len(s) : j # k => t[j] = s[j]
  BY MemberChanges DEF Replaced
<1> HIDE DEF t
<1>2. DOMAIN s = 1 .. Len(s) /\ DOMAIN t = 1 .. Len(s)
  BY <1>1, LengthIs
<1>3. Elements(s) \subseteq Elements(t) \cup {s[k]}
  BY <1>1, <1>2 DEF Elements
<1>4. v = s[k] => Elements(t) = Elements(s)
  BY <1>1, <1>2 DEF Elements
<1> QED
  BY <1>1, <1>3, <1>4 DEF t, HasInstead

\* the next pair, and the value that is put for it
LEMMA PairIs ==
  ASSUME DInv, misuse = "none", MovesMore("map")
  PROVE  /\ mode = "reading" /\ frames # <<>> /\ Top.step = "moving" /\ TypeOfTop = "map"
         /\ Moving(Top, heap)
         /\ Top.done \in Nat /\ Top.done + 1 \in 1 .. Len(Top.refs)
         /\ Top.done + 2 \in 1 .. Len(Top.refs) /\ Top.done + 2 \in 0 .. Len(Top.refs)
         /\ (Top.done + 2) % 2 = 0 /\ Len(Top.refs) % 2 = 0
         /\ PairKey \in Elements(Top.refs) /\ PairValue \in Elements(Top.refs)
         /\ NamesPair => Top.refs[MapTarget] \in Elements(Top.refs)
<1>1. /\ mode = "reading" /\ frames # <<>> /\ Top.step = "moving" /\ TypeOfTop = "map"
      /\ Top.done < Len(Top.refs)
  BY DEF MovesMore, Moves
<1>2. Moving(Top, heap)
  BY <1>1, ReadingIs
<1>3. /\ IsFrame(Top, Len(heap)) /\ Len(Top.refs) \in Nat
      /\ \A k \in 1 .. Len(Top.refs) : Top.refs[k] \in Elements(Top.refs)
  BY <1>1, InnermostIs
<1>4. Top.done \in Nat
  BY <1>3 DEF IsFrame
<1>5. Len(Top.refs) % 2 = 0 /\ Top.done % 2 = 0
  BY <1>1, <1>2 DEF Moving, TypeOfTop
<1>6. /\ Top.done + 1 \in 1 .. Len(Top.refs)
      /\ Top.done + 2 \in 1 .. Len(Top.refs) /\ Top.done + 2 \in 0 .. Len(Top.refs)
      /\ (Top.done + 2) % 2 = 0
  BY <1>1, <1>3, <1>4, <1>5, Pairwise
<1>7. NamesPair => MapTarget \in 1 .. Len(Top.refs)
  BY <1>3, TargetInside DEF NamesPair, MapTarget
<1> QED
  BY <1>1, <1>2, <1>3, <1>4, <1>5, <1>6, <1>7 DEF PairKey, PairValue

LEMMA MovePairHolds == ASSUME DInv, misuse = "none", MovePair PROVE DInv'
<1> DEFINE n == Len(heap)
           o == Top.obj
           v == IF NamesPair THEN Top.refs[MapTarget] ELSE PairValue
           k == Top.done + 2
           g == Paired(Top, k, v)
           os == <<PairKey, v>>
<1>1. /\ MovesMore("map") /\ mode' = mode /\ abandoned' = abandoned
      /\ frames' = [frames EXCEPT ![Len(frames)].done = @ + 2, ![Len(frames)].refs[k] = v]
      /\ heap' = Moved(IF NamesPair THEN Released(PairValue) ELSE heap, os)
  BY DEF MovePair
<1>2. /\ mode = "reading" /\ frames # <<>> /\ Top.step = "moving" /\ TypeOfTop = "map"
      /\ Moving(Top, heap)
      /\ Top.done \in Nat /\ k \in 1 .. Len(Top.refs) /\ k \in 0 .. Len(Top.refs)
      /\ k % 2 = 0 /\ Len(Top.refs) % 2 = 0
      /\ PairKey \in Elements(Top.refs) /\ PairValue \in Elements(Top.refs)
      /\ v \in Elements(Top.refs)
  BY <1>1, PairIs
<1>3. /\ IsHeap(heap) /\ n \in Nat /\ abandoned = {} /\ OnlyRefsFreed(heap)
      /\ HeldBy(frames) \subseteq 1 .. n /\ Covered(heap, HeldBy(frames))
  BY <1>2, ReadingIs
<1>4. /\ IsFrame(Top, n) /\ o \in 1 .. n /\ Len(frames) \in 1 .. Len(frames)
      /\ HeldBy(frames) = HeldBy(Rest) \cup Held(Top)
      /\ Elements(Top.refs) \subseteq 1 .. n
      /\ \A x \in Elements(Top.refs) : x \in o + 1 .. n
      /\ Len(Top.refs) \in Nat
  BY <1>2, InnermostIs
<1>5. /\ PairKey \in o + 1 .. n /\ v \in o + 1 .. n /\ PairValue \in 1 .. n
      /\ heap[o].type # "ref"
  BY <1>2, <1>4 DEF TypeOfTop
<1>6. Top.refs[k] = PairValue /\ Top.refs[Top.done + 1] = PairKey
  BY DEF PairValue, PairKey
<1>7. IsFrameRecord(g) /\ g.done = k /\ g.refs = Replaced(Top.refs, k, v)
      /\ g.obj = o /\ g.step = Top.step
  <2>1. IsFrameRecord(Top)
    BY <1>4 DEF IsFrame
  <2> HIDE DEF v
  <2> QED
    BY <2>1, PairChange
<1>8. frames' = [frames EXCEPT ![Len(frames)] = g]
  BY <1>1, <1>4 DEF Paired, Top
<1>9. v = PairValue \/ NamesPair
  OBVIOUS
<1>10. /\ os \in Seq(o + 1 .. n) /\ PairKey \in Elements(os) /\ v \in Elements(os)
  <2> HIDE DEF v
  <2> QED
    BY <1>5, SomeParts
<1>11. Gains(heap', heap, o, os) /\ (NamesPair => heap'[PairValue].freed)
  <2> HIDE DEF os
  <2>1. CASE NamesPair
    <3>1. /\ heap' = [Released(PairValue) EXCEPT ![o].parts = @ \o os]
          /\ Released(PairValue) = [heap EXCEPT ![PairValue].freed = TRUE]
      BY <1>1, <2>1 DEF Moved, Released
    <3>2. heap[PairValue].type = "ref"
      BY <2>1 DEF NamesPair, IsRef
    <3> HIDE DEF o
    <3> QED
      BY <1>3, <1>4, <1>5, <1>10, <3>1, <3>2, PartsReplaceReference
  <2>2. CASE ~NamesPair
    <3>1. heap' = [heap EXCEPT ![o].parts = @ \o os]
      BY <1>1, <2>2 DEF Moved
    <3> HIDE DEF o
    <3> QED
      BY <1>3, <1>4, <1>5, <1>10, <2>2, <3>1, PartsGained
  <2> QED
    BY <2>1, <2>2
<1> HIDE DEF g, v, os
<1>12. /\ g.refs \in Seq(o + 1 .. n) /\ Len(g.refs) = Len(Top.refs) /\ g.refs[k] = v
       /\ \A j \in 1 .. Len(Top.refs) : j # k => g.refs[j] = Top.refs[j]
       /\ Elements(Top.refs) \subseteq Elements(g.refs) \cup {PairValue}
       /\ v = PairValue => Elements(g.refs) = Elements(Top.refs)
  <2> DEFINE A == o + 1 .. n
             s == Top.refs
  <2>1. s \in Seq(A) /\ k \in 1 .. Len(s) /\ v \in A
    BY <1>2, <1>4, <1>5 DEF IsFrame
  <2> HIDE DEF A
  <2>2. Replaced(s, k, v) \in Seq(A) /\ HasInstead(Replaced(s, k, v), s, k, v)
    <3> HIDE DEF s, k
    <3> QED
      BY <2>1, ElementReplaced
  <2> QED
    BY <1>6, <1>7, <2>2 DEF A, HasInstead
<1>13. /\ IsHeap(heap') /\ Extends(heap', heap) /\ Len(heap') = n /\ OnlyRefsFreed(heap')
       /\ Elements(os) \subseteq Kids(heap', o)
  BY <1>3, <1>11 DEF Gains
<1>14. IsFrame(g, n)
  BY <1>2, <1>4, <1>7, <1>12 DEF IsFrame
<1>15. /\ IsStack(frames', n) /\ frames' # <<>> /\ Top' = g
       /\ HeldBy(frames') = HeldBy(Rest) \cup Held(g)
  BY <1>2, <1>7, <1>8, <1>14, InnermostBecomes
<1>16. Covered(heap', HeldBy(frames'))
  <2>1. HeldBy(frames') \subseteq 1 .. n
    BY <1>3, <1>15, StackIs
  <2>2. CASE NamesPair
    <3> DEFINE F == {PairValue}
    <3>1. F \in SUBSET (1 .. n) /\ \A x \in F : heap'[x].freed
      BY <1>5, <1>11, <2>2
    <3>2. HoldsKids(heap, F)
      <4>1. heap[PairValue].type = "ref"
        BY <2>2 DEF NamesPair, IsRef
      <4>2. Kids(heap, PairValue) = {}
        BY <1>3, <1>5, <4>1, HeapIs
      <4> QED
        BY <4>2 DEF HoldsKids
    <3>3. \A r \in HeldBy(frames) : r \in F \/ r \in HeldBy(frames')
      BY <1>4, <1>7, <1>12, <1>15 DEF Held
    <3>4. \A x \in 1 .. Len(heap') : x \in 1 .. Len(heap)
      BY <1>13
    <3> HIDE DEF F
    <3> QED
      BY <1>3, <1>13, <2>1, <3>1, <3>2, <3>3, <3>4, StillReached
  <2>3. CASE v = PairValue
    <3>1. HeldBy(frames) \subseteq HeldBy(frames')
      BY <1>4, <1>7, <1>12, <1>15, <2>3 DEF Held
    <3>2. \A x \in 1 .. Len(heap') : x \in 1 .. Len(heap)
      BY <1>13
    <3> QED
      BY <1>3, <1>13, <2>1, <3>1, <3>2, NoneIsLost
  <2> QED
    BY <1>9, <2>2, <2>3
<1>m. \A j : j \in 1 .. Top.done \/ j = Top.done + 1 => j # k /\ j \in 1 .. Len(Top.refs)
  <2> DEFINE d == Top.done
             m == Len(Top.refs)
  <2>1. d \in Nat /\ m \in Nat /\ k = d + 2 /\ k \in 1 .. m
    BY <1>2, <1>4
  <2> HIDE DEF d, k, m
  <2>2. \A j : j \in 1 .. d \/ j = d + 1 => j # k /\ j \in 1 .. m
    BY <2>1
  <2> QED
    BY <2>2, Zenon DEF d, m
<1>17. Moving(g, heap')
  <2>1. \A j \in 1 .. Top.done : heap'[Top.refs[j]].freed \/ Top.refs[j] \in Kids(heap', o)
    BY <1>2, <1>3, <1>4, <1>13, MovingStays
  <2>2. ASSUME NEW j \in 1 .. g.done
        PROVE  heap'[g.refs[j]].freed \/ g.refs[j] \in Kids(heap', g.obj)
    <3>1. j \in 1 .. Top.done \/ j = Top.done + 1 \/ j = k
      BY <1>2, <1>7
    <3>2. CASE j = k
      BY <1>7, <1>10, <1>12, <1>13, <3>2
    <3>3. CASE j = Top.done + 1
      <4>1. j # k /\ j \in 1 .. Len(Top.refs)
        BY <1>m, <3>3, Zenon
      <4>2. g.refs[j] = PairKey
        BY <1>6, <1>12, <3>3, <4>1
      <4> QED
        BY <1>7, <1>10, <1>13, <4>2
    <3>4. CASE j \in 1 .. Top.done
      <4>1. j # k /\ j \in 1 .. Len(Top.refs)
        BY <1>m, <3>4, Zenon
      <4> QED
        BY <1>7, <1>12, <2>1, <3>4, <4>1
    <3> QED
      BY <3>1, <3>2, <3>3, <3>4
  <2>3. g.done \in 0 .. Len(g.refs) /\ Len(g.refs) % 2 = 0 /\ g.done % 2 = 0
    BY <1>2, <1>7, <1>12
  <2> QED
    BY <2>2, <2>3 DEF Moving
<1> QED
  BY <1>1, <1>2, <1>3, <1>13, <1>15, <1>16, <1>17, ReadingHolds

LEMMA NoRefs ==
  ASSUME NEW f, IsFrameRecord(f)
  PROVE  LET g == [f EXCEPT !.refs = <<>>]
         IN  /\ IsFrameRecord(g) /\ g.refs = <<>>
             /\ g.obj = f.obj /\ g.step = f.step /\ g.done = f.done
  BY RefsChange

LEMMA PairRefusedHolds == ASSUME DInv, misuse = "none", PairRefused PROVE DInv'
<1> DEFINE n == Len(heap)
           g == [Top EXCEPT !.refs = <<>>]
<1>1. /\ MovesMore("map") /\ abandoned' = abandoned \cup Elements(Top.refs)
      /\ frames' = [frames EXCEPT ![Len(frames)].refs = <<>>]
      /\ heap' = IF NamesPair THEN Released(PairValue) ELSE heap
      /\ mode' = "failing"
  BY PartsIs DEF PairRefused
<1>2. /\ mode = "reading" /\ frames # <<>> /\ Top.step = "moving"
      /\ PairValue \in Elements(Top.refs)
  BY <1>1, PairIs
<1>3. /\ IsHeap(heap) /\ n \in Nat /\ abandoned = {} /\ OnlyRefsFreed(heap)
      /\ HeldBy(frames) \subseteq 1 .. n /\ Covered(heap, HeldBy(frames))
  BY <1>2, ReadingIs
<1>4. /\ IsFrame(Top, n) /\ Top.obj \in 1 .. n /\ Len(frames) \in 1 .. Len(frames)
      /\ HeldBy(frames) = HeldBy(Rest) \cup Held(Top)
      /\ Elements(Top.refs) \subseteq 1 .. n
  BY <1>2, InnermostIs
<1>5. IsFrameRecord(g) /\ g.refs = <<>> /\ g.obj = Top.obj /\ g.step = Top.step /\ g.done = Top.done
  <2>1. IsFrameRecord(Top)
    BY <1>4 DEF IsFrame
  <2> QED
    BY <2>1, NoRefs
<1>6. frames' = [frames EXCEPT ![Len(frames)] = g]
  BY <1>1, <1>4 DEF Top
<1> HIDE DEF g
<1>7. IsFrame(g, n)
  BY <1>2, <1>4, <1>5 DEF IsFrame
<1>8. /\ IsStack(frames', n) /\ HeldBy(frames') = HeldBy(Rest) \cup Held(g)
  BY <1>2, <1>5, <1>6, <1>7, InnermostBecomes
<1>9. IsHeap(heap') /\ Extends(heap', heap) /\ Len(heap') = n
  <2>1. PairValue \in 1 .. n
    BY <1>2, <1>4
  <2>2. IsReleased(Released(PairValue), heap, PairValue)
    BY <1>3, <2>1, ReleasedIs DEF Released
  <2>3. Extends(heap, heap)
    BY <1>3 DEF Extends
  <2> QED
    BY <1>1, <1>3, <2>2, <2>3 DEF IsReleased
<1>10. abandoned' \cup HeldBy(frames') = HeldBy(frames) /\ abandoned' \subseteq 1 .. n
  <2>1. Held(g) = {Top.obj}
    BY <1>5 DEF Held, Elements
  <2> QED
    BY <1>1, <1>3, <1>4, <1>8, <2>1 DEF Held
<1>11. Covered(heap', abandoned' \cup HeldBy(frames'))
  <2> DEFINE R == HeldBy(frames)
  <2>1. R \in SUBSET (1 .. Len(heap)) /\ R \in SUBSET (1 .. Len(heap')) /\ R \subseteq R
        /\ \A x \in 1 .. Len(heap') : x \in 1 .. Len(heap)
    BY <1>3, <1>9
  <2>2. Covered(heap, R)
    BY <1>3
  <2> HIDE DEF R
  <2>3. Covered(heap', R)
    BY <1>3, <1>9, <2>1, <2>2, NoneIsLost
  <2> QED
    BY <1>10, <2>3 DEF R
<1> QED
  BY <1>1, <1>8, <1>9, <1>10, <1>11, FailingHolds

LEMMA EndOfContainerHolds == ASSUME DInv, misuse = "none", EndOfContainer PROVE DInv'
<1> DEFINE n == Len(heap)
           R2 == HeldBy(Rest) \cup {Top.obj}
           F == {x \in 1 .. n : heap[x].freed}
<1>1. /\ mode = "reading" /\ frames # <<>> /\ Top.step = "moving" /\ ~(Top.done < Len(Top.refs))
      /\ heap' = heap /\ abandoned' = abandoned /\ Deliver(Top.obj, Rest, FALSE)
  BY DEF EndOfContainer, Moves, MovesMore
<1>2. /\ IsHeap(heap) /\ n \in Nat /\ OnlyRefsFreed(heap) /\ Moving(Top, heap)
      /\ HeldBy(frames) \subseteq 1 .. n /\ Covered(heap, HeldBy(frames))
  BY <1>1, ReadingIs
<1>3. /\ HeldBy(frames) = HeldBy(Rest) \cup Held(Top)
      /\ DOMAIN Top.refs = 1 .. Len(Top.refs) /\ Len(Top.refs) \in Nat
      /\ Elements(Top.refs) \subseteq 1 .. n
  BY <1>1, InnermostIs
<1>4. Top.done = Len(Top.refs)
  BY <1>1, <1>2, <1>3 DEF Moving
<1>5. ASSUME NEW r \in Elements(Top.refs) PROVE r \in F \/ r \in Kids(heap, Top.obj)
  <2>1. PICK k \in 1 .. Len(Top.refs) : r = Top.refs[k]
    BY <1>3 DEF Elements
  <2>2. heap[r].freed \/ r \in Kids(heap, Top.obj)
    BY <1>2, <1>4, <2>1 DEF Moving
  <2> QED
    BY <1>3, <2>2
<1>6. F \in SUBSET (1 .. n) /\ HoldsKids(heap, F) /\ \A x \in F : heap[x].freed
  BY <1>2, HeapIs DEF HoldsKids, OnlyRefsFreed
<1>7. R2 \in SUBSET (1 .. n) /\ HeldBy(frames) \in SUBSET (1 .. n)
  BY <1>2, <1>3 DEF Held
<1>8. \A r \in HeldBy(frames) : r \in F \/ r \in R2 \/ \E q \in R2 : r \in Kids(heap, q)
  BY <1>3, <1>5 DEF Held
<1>9. Extends(heap, heap)
  BY <1>2 DEF Extends
<1>10. Covered(heap, R2)
  <2> HIDE DEF F, R2
  <2> QED
    BY <1>2, <1>6, <1>7, <1>8, <1>9, StillReached
<1> QED
  BY <1>1, <1>2, <1>10, CompleteHolds

-----------------------------------------------------------------------------
(* Failure, deletion, and the next call.                                   *)

LEMMA UnwindReadHolds == ASSUME DInv, misuse = "none", Unwind PROVE DInv'
<1> DEFINE n == Len(heap)
           P == Elements(Top.refs)
           F == AllBelow(heap, P)
           R == abandoned \cup HeldBy(frames)
           R2 == abandoned' \cup HeldBy(frames')
<1>1. /\ mode = "failing" /\ mode' = mode /\ frames # <<>> /\ frames' = Rest
      /\ abandoned' = abandoned \cup {Top.obj} /\ Frees(heap, P)
  BY PartsIs DEF Unwind
<1>2. /\ IsHeap(heap) /\ n \in Nat /\ abandoned \subseteq 1 .. n
      /\ HeldBy(frames) \subseteq 1 .. n /\ Covered(heap, R)
  BY <1>1, ReadingIs
<1>3. /\ IsStack(Rest, n) /\ Top.obj \in 1 .. n /\ P \subseteq 1 .. n
      /\ HeldBy(frames) = HeldBy(Rest) \cup Held(Top)
  BY <1>1, InnermostIs
<1> SUFFICES ASSUME misuse' = "none" PROVE DInv'
  BY DEF DInv
<1>4. heap' = Without(heap, F)
  BY <1>1, <1>2, FreesIs
<1>5. Freed(heap', heap, F)
  BY <1>2, <1>4, WithoutIs
<1>6. F \subseteq 1 .. n /\ HoldsKids(heap, F) /\ P \subseteq F
  BY <1>2, <1>3, HeapIs, AllBelowHoldsKids
<1>7. /\ IsHeap(heap') /\ Extends(heap', heap) /\ Len(heap') = n
      /\ \A x \in F : heap'[x].freed
  BY <1>5, <1>6 DEF Freed
<1>8. R \in SUBSET (1 .. n) /\ R2 \in SUBSET (1 .. n)
  BY <1>1, <1>2, <1>3
<1>9. (\A r \in R : r \in F \/ r \in R2) /\ \A x \in 1 .. Len(heap') : x \in 1 .. n
  BY <1>1, <1>3, <1>6, <1>7 DEF Held
<1>10. Covered(heap', R2)
  <2> HIDE DEF F, R, R2
  <2> QED
    BY <1>2, <1>6, <1>7, <1>8, <1>9, StillReached
<1>11. abandoned' \subseteq 1 .. n
  BY <1>1, <1>2, <1>3
<1> QED
  BY <1>1, <1>3, <1>7, <1>10, <1>11, FailingHolds

LEMMA ReturnNullHolds == ASSUME DInv, misuse = "none", ReturnNull PROVE DInv'
<1>1. /\ mode = "failing" /\ mode' = "failed" /\ frames = <<>> /\ frames' = frames
      /\ heap' = heap /\ abandoned' = abandoned
  BY DEF ReturnNull
<1>2. /\ IsHeap(heap) /\ IsStack(frames, Len(heap)) /\ abandoned \subseteq 1 .. Len(heap)
      /\ Covered(heap, abandoned \cup HeldBy(frames))
  BY <1>1, ReadingIs
<1>3. Roots' = abandoned \cup HeldBy(frames)
  BY <1>1 DEF Roots
<1>4. Covered(heap', Roots')
  BY <1>1, <1>2, <1>3
<1> QED
  BY <1>1, <1>2, <1>4 DEF DInv, Sound

LEMMA DeleteResultHolds == ASSUME DInv, misuse = "none", DeleteResult PROVE DInv'
<1> DEFINE F == AllBelow(heap, {result})
<1>1. /\ mode = "done" /\ mode' = "deleted" /\ frames' = frames /\ abandoned' = abandoned
      /\ Frees(heap, {result})
  BY DEF DeleteResult
<1>2. /\ IsHeap(heap) /\ frames = <<>> /\ abandoned = {} /\ Covered(heap, Roots)
  BY <1>1 DEF DInv, Sound
<1>3. Len(heap) \in Nat
  BY <1>2, HeapIs
<1>4. Roots = {result}
  BY <1>1, <1>2, EmptyStack DEF Roots
<1> SUFFICES ASSUME misuse' = "none" PROVE DInv'
  BY DEF DInv
<1>5. heap' = Without(heap, F)
  BY <1>1, <1>2, FreesIs
<1>6. Freed(heap', heap, F)
  BY <1>2, <1>5, WithoutIs
<1>7. /\ IsHeap(heap') /\ Len(heap') = Len(heap)
      /\ \A x \in 1 .. Len(heap) : heap'[x].freed <=> (heap[x].freed \/ x \in F)
  BY <1>6 DEF Freed
<1>8. \A x \in 1 .. Len(heap) : ~heap[x].freed => x \in F
  BY <1>2, <1>4 DEF Covered
<1>9. \A x \in 1 .. Len(heap') : heap'[x].freed
  BY <1>7, <1>8
<1>10. IsStack(frames', Len(heap')) /\ frames' = <<>> /\ abandoned' = {} /\ abandoned' \subseteq 1 .. Len(heap')
  BY <1>1, <1>2, <1>3, <1>7, EmptyStack
<1> QED
  BY <1>1, <1>7, <1>9, <1>10 DEF DInv, Sound

\* nothing has been read
LEMMA NothingRead ==
  ASSUME NEW h, NEW fs, h = <<>>, fs = <<>>
  PROVE  /\ IsHeap(h) /\ IsStack(fs, Len(h)) /\ HeldBy(fs) = {}
         /\ OnlyRefsFreed(h) /\ \A R : Covered(h, R)
<1>1. h \in Seq({0}) /\ Len(h) = 0 /\ Len(h) \in Nat /\ 1 .. 0 = {}
  OBVIOUS
<1>2. IsStack(fs, Len(h)) /\ HeldBy(fs) = {}
  BY <1>1, EmptyStack
<1> QED
  BY <1>1, <1>2 DEF IsHeap, OnlyRefsFreed, Covered

LEMMA ArrivesHolds == ASSUME DInv, Arrives PROVE DInv'
<1>1. mode' = "reading" /\ frames' = <<>> /\ heap' = <<>> /\ abandoned' = {}
  BY DEF Arrives
<1>2. /\ IsHeap(heap') /\ IsStack(frames', Len(heap')) /\ OnlyRefsFreed(heap')
      /\ Covered(heap', HeldBy(frames'))
  BY <1>1, NothingRead
<1> QED
  BY <1>1, <1>2, ReadingHolds

LEMMA ForgetHolds == ASSUME DInv, Forget PROVE DInv'
<1>1. mode' = "idle" /\ frames' = <<>> /\ heap' = <<>> /\ abandoned' = {}
  BY DEF Forget
<1>2. /\ IsHeap(heap') /\ IsStack(frames', Len(heap')) /\ Covered(heap', Roots')
  BY <1>1, NothingRead
<1>3. abandoned' \subseteq 1 .. Len(heap')
  BY <1>1
<1> QED
  BY <1>1, <1>2, <1>3 DEF DInv, Sound

LEMMA StepHolds == ASSUME DInv, DStep PROVE DInv'
<1>1. misuse = "none"
  BY DEF DStep
<1>2. CASE RefuseTag \/ ReadNull \/ ReadBoolean \/ ReadInteger \/ ReadLong \/ ReadDouble
           \/ ReadRemote \/ OpenContainer \/ OpenSpoilt \/ NameFaults \/ OpenText
  BY <1>1, <1>2, RefuseTagHolds, ReadNullHolds, ReadBooleanHolds, ReadIntegerHolds, ReadLongHolds,
     ReadDoubleHolds, ReadRemoteHolds, OpenContainerHolds, OpenSpoiltHolds, NameFaultsHolds, OpenTextHolds
<1>3. CASE ChunkFails \/ ChunkHangs \/ ReadChunk \/ GrowthFails \/ TextFails \/ EndOfText \/ CloseContainer
  BY <1>1, <1>3, ChunkFailsHolds, ChunkHangsHolds, ReadChunkHolds, GrowthFailsHolds, TextFailsHolds,
     EndOfTextHolds, CloseContainerHolds
<1>4. CASE MoveElement \/ DanglingElement \/ ElementRefused \/ MovePair \/ PairRefused
           \/ EndOfContainer \/ Unwind \/ ReturnNull \/ DeleteResult
  BY <1>1, <1>4, MoveElementHolds, DanglingElementHolds, ElementRefusedHolds, MovePairHolds,
     PairRefusedHolds, EndOfContainerHolds, UnwindReadHolds, ReturnNullHolds, DeleteResultHolds
<1> QED
  BY <1>2, <1>3, <1>4 DEF DStep

LEMMA DInvHolds == DSpec => []DInv
<1>1. DInit => DInv
  <2> SUFFICES ASSUME DInit PROVE DInv
    OBVIOUS
  <2>1. mode = "idle" /\ frames = <<>> /\ heap = <<>> /\ abandoned = {}
    BY DEF DInit
  <2>2. /\ IsHeap(heap) /\ IsStack(frames, Len(heap)) /\ Covered(heap, Roots)
    BY <2>1, NothingRead
  <2>3. abandoned \subseteq 1 .. Len(heap)
    BY <2>1
  <2> QED
    BY <2>1, <2>2, <2>3 DEF DInv, Sound
<1>2. ASSUME DInv, [DNext]_dvars PROVE DInv'
  <2>1. CASE DNext
    BY <1>2, <2>1, ArrivesHolds, StepHolds, ForgetHolds DEF DNext
  <2>2. CASE UNCHANGED dvars
    BY <1>2, <2>2 DEF dvars, DInv, Sound, Top, Roots
  <2> QED
    BY <1>2, <2>1, <2>2
<1> QED
  BY <1>1, <1>2, PTL DEF DSpec

(***************************************************************************)
(* Whatever bytes come: when the object that was read is deleted, every    *)
(* object is; when the reading fails, only the objects that were being     *)
(* read and the content of a map without memory are lost.                  *)
(***************************************************************************)
THEOREM ReadingLosesOnlyAbandoned == DSpec => []OnlyAbandonedLost
<1>1. DInv => OnlyAbandonedLost
  <2> SUFFICES ASSUME DInv, misuse = "none" PROVE OnlyAbandonedLost
    BY DEF OnlyAbandonedLost
  <2>1. Sound
    BY DEF DInv
  <2>2. DOMAIN heap = 1 .. Len(heap)
    BY <2>1, HeapIs DEF Sound
  <2>3. mode = "deleted" => \A o \in DOMAIN heap : heap[o].freed
    BY <2>1, <2>2 DEF Sound
  <2>4. ASSUME mode = "failed" PROVE \A o \in DOMAIN heap : ~heap[o].freed => o \in AllBelow(heap, abandoned)
    <3>1. Roots = abandoned
      BY <2>1, <2>4, EmptyStack DEF Sound, Roots
    <3> QED
      BY <2>1, <2>2, <2>4, <3>1 DEF Sound, Covered
  <2> QED
    BY <2>3, <2>4 DEF OnlyAbandonedLost
<1> QED
  BY <1>1, DInvHolds, PTL

-----------------------------------------------------------------------------
(***************************************************************************)
(* What holds of every state, as long as no allocation has failed and      *)
(* every reference was sound.  No object holds one that was freed, and no  *)
(* part that has yet to be moved is part of anything; while the reading    *)
(* fails this is so of the objects before b, which have still to be        *)
(* deleted.                                                                *)
(***************************************************************************)

Alive(h, b) ==
  \A x \in 1 .. b - 1 : /\ Kids(h, x) \subseteq 1 .. b - 1
                        /\ ~h[x].freed => \A y \in Kids(h, x) : ~h[y].freed

\* the parts that have yet to be moved
Pending(f) == {f.refs[k] : k \in f.done + 1 .. Len(f.refs)}

FrameTidy(f, h) ==
  /\ ~h[f.obj].freed
  /\ \A y \in 1 .. Len(h) : y < f.obj => Kids(h, y) \subseteq 1 .. f.obj - 1
  /\ \A y \in 1 .. Len(h) : y # f.obj => \A r \in Elements(f.refs) : r \notin Kids(h, y)
  /\ \A j, k \in f.done + 1 .. Len(f.refs) : j < k => f.refs[j] < f.refs[k]
  /\ f.step # "moving" => Kids(h, f.obj) = {}
  /\ \A x \in Pending(f) : ~h[x].freed
  /\ h[f.obj].type = "map" => \A x \in Elements(f.refs) : ~h[x].freed
  /\ \A x \in Kids(h, f.obj) \cap Pending(f) : h[x].type # "ref"
  /\ h[f.obj].type = "list" => \A x \in Kids(h, f.obj) : h[x].type # "ref"

\* f and its parts come before b
Precedes(f, b) == f.obj < b /\ \A r \in Elements(f.refs) : r < b

Tidy(fs, h, b) ==
  /\ \A k \in 1 .. Len(fs) : FrameTidy(fs[k], h) /\ Precedes(fs[k], b)
  /\ \A j, k \in 1 .. Len(fs) : j < k => Precedes(fs[j], fs[k].obj)

TidyReading == Alive(heap, Len(heap) + 1) /\ Tidy(frames, heap, Len(heap) + 1)

TInv ==
  misuse = "none" /\ ~short /\ ~loose =>
    /\ mode = "reading" => TidyReading
    /\ mode = "failing" => \E b \in 1 .. Len(heap) + 1 : Alive(heap, b) /\ Tidy(frames, heap, b)
    /\ mode = "failing" => \A k \in 1 .. Len(frames) : frames[k].step # "moving"
    /\ mode = "done" => Alive(heap, Len(heap) + 1) /\ ~heap[result].freed

CausedInv ==
  /\ MisuseNeedsCause
  /\ mode = "idle" => misuse = "none"
  /\ TInv

\* the objects before o of h are the same in h2
AsBefore(h2, h, o) ==
  \A x \in 1 .. Len(h) : /\ h2[x].type = h[x].type
                         /\ x < o => Kids(h2, x) = Kids(h, x) /\ h2[x].freed = h[x].freed

LEMMA FrameStaysTidy ==
  ASSUME NEW h, IsHeap(h), NEW h2, IsHeap(h2), Len(h) <= Len(h2),
         NEW o \in 1 .. Len(h) + 1, AsBefore(h2, h, o),
         NEW f, IsFrame(f, Len(h)), FrameTidy(f, h), Precedes(f, o)
  PROVE  FrameTidy(f, h2)
<1> DEFINE n == Len(h)
           m == Len(h2)
<1>1. n \in Nat /\ m \in Nat /\ n <= m /\ PartsFollow(h2)
  BY HeapIs
<1>2. f.obj \in 1 .. n /\ f.obj < o
  BY DEF IsFrame, Precedes
<1>3. /\ \A x \in Elements(f.refs) : x \in f.obj + 1 .. n /\ x < o
      /\ \A k \in 1 .. Len(f.refs) : f.refs[k] \in Elements(f.refs)
      /\ Len(f.refs) \in Nat
  BY <1>1, FrameIs DEF Precedes
<1>4. /\ Kids(h2, f.obj) = Kids(h, f.obj) /\ h2[f.obj].freed = h[f.obj].freed
      /\ h2[f.obj].type = h[f.obj].type
  BY <1>2 DEF AsBefore
<1>5. \A x \in Elements(f.refs) : x \in 1 .. n /\ h2[x].freed = h[x].freed /\ h2[x].type = h[x].type
  <2>1. \A x \in Elements(f.refs) : x \in 1 .. n /\ x < o
    BY <1>1, <1>2, <1>3
  <2> QED
    BY <2>1 DEF AsBefore
<1>6. Pending(f) \subseteq Elements(f.refs)
  <2>1. f.done \in Nat
    BY DEF IsFrame
  <2>2. \A k \in f.done + 1 .. Len(f.refs) : k \in 1 .. Len(f.refs)
    BY <1>3, <2>1
  <2> QED
    BY <1>3, <2>2 DEF Pending
<1>7. ASSUME NEW y \in 1 .. m, y < f.obj PROVE Kids(h2, y) \subseteq 1 .. f.obj - 1
  <2>1. y \in 1 .. n /\ y < o
    BY <1>1, <1>2, <1>7
  <2>2. Kids(h2, y) = Kids(h, y)
    BY <2>1 DEF AsBefore
  <2> QED
    BY <1>7, <2>1, <2>2 DEF FrameTidy
<1>8. ASSUME NEW y \in 1 .. m, y # f.obj, NEW r \in Elements(f.refs) PROVE r \notin Kids(h2, y)
  <2>1. CASE y < o
    <3>1. y \in 1 .. n
      BY <1>1, <2>1
    <3>2. Kids(h2, y) = Kids(h, y)
      BY <2>1, <3>1 DEF AsBefore
    <3> QED
      BY <1>8, <3>1, <3>2 DEF FrameTidy
  <2>2. CASE ~(y < o)
    <3>1. Kids(h2, y) \subseteq y + 1 .. m
      BY <1>1 DEF PartsFollow
    <3>2. r \in Nat /\ r < o
      BY <1>2, <1>3
    <3> QED
      BY <2>2, <3>1, <3>2
  <2> QED
    BY <2>1, <2>2
<1>9. ASSUME NEW x \in Pending(f) PROVE ~h2[x].freed
  <2>1. x \in Elements(f.refs) /\ ~h[x].freed
    BY <1>6, <1>9 DEF FrameTidy
  <2> QED
    BY <1>5, <2>1
<1>10. h2[f.obj].type = "map" => \A x \in Elements(f.refs) : ~h2[x].freed
  BY <1>4, <1>5 DEF FrameTidy
<1>11. \A x \in Kids(h2, f.obj) \cap Pending(f) : h2[x].type # "ref"
  <2> SUFFICES ASSUME NEW x \in Kids(h2, f.obj) \cap Pending(f) PROVE h2[x].type # "ref"
    OBVIOUS
  <2>1. x \in Kids(h, f.obj) /\ x \in Pending(f) /\ x \in Elements(f.refs)
    BY <1>4, <1>6
  <2>2. h[x].type # "ref"
    BY <2>1 DEF FrameTidy
  <2> QED
    BY <1>5, <2>1, <2>2
<1>12. ASSUME h2[f.obj].type = "list", NEW x \in Kids(h2, f.obj) PROVE h2[x].type # "ref"
  <2>1. x \in Kids(h, f.obj) /\ h[f.obj].type = "list"
    BY <1>4, <1>12
  <2>2. h[x].type # "ref"
    BY <2>1 DEF FrameTidy
  <2>3. x \in 1 .. n
    BY <1>2, <2>1, HeapIs, KidsFollow
  <2> QED
    BY <2>2, <2>3 DEF AsBefore
<1>13. f.step # "moving" => Kids(h2, f.obj) = {}
  BY <1>4 DEF FrameTidy
<1>14. /\ ~h2[f.obj].freed
       /\ \A j, k \in f.done + 1 .. Len(f.refs) : j < k => f.refs[j] < f.refs[k]
  BY <1>4 DEF FrameTidy
<1> QED
  BY <1>7, <1>8, <1>9, <1>10, <1>11, <1>12, <1>13, <1>14 DEF FrameTidy

LEMMA TidyStays ==
  ASSUME NEW h, IsHeap(h), NEW h2, IsHeap(h2), Len(h) <= Len(h2),
         NEW o \in 1 .. Len(h) + 1, AsBefore(h2, h, o),
         NEW fs, IsStack(fs, Len(h)), NEW b, Tidy(fs, h, b), \A k \in 1 .. Len(fs) : Precedes(fs[k], o)
  PROVE  Tidy(fs, h2, o)
<1>1. ASSUME NEW k \in 1 .. Len(fs) PROVE FrameTidy(fs[k], h2)
  <2>1. IsFrame(fs[k], Len(h)) /\ FrameTidy(fs[k], h) /\ Precedes(fs[k], o)
    BY DEF IsStack, Tidy
  <2> QED
    BY <2>1, FrameStaysTidy
<1> QED
  BY <1>1 DEF Tidy

\* a frame is put on a stack
LEMMA TidyJoins ==
  ASSUME NEW fs, NEW gs, Len(fs) \in Nat, Len(gs) = Len(fs) + 1,
         \A k \in 1 .. Len(fs) : gs[k] = fs[k],
         NEW h, NEW c, Tidy(fs, h, c), NEW b,
         \A k \in 1 .. Len(fs) : Precedes(fs[k], b) /\ Precedes(fs[k], gs[Len(gs)].obj),
         FrameTidy(gs[Len(gs)], h), Precedes(gs[Len(gs)], b)
  PROVE  Tidy(gs, h, b)
<1> DEFINE m == Len(fs)
<1>1. \A k \in 1 .. m + 1 : k \in 1 .. m \/ k = m + 1
  OBVIOUS
<1>2. \A j, k \in 1 .. m + 1 : j < k => j \in 1 .. m
  OBVIOUS
<1>3. \A k \in 1 .. m + 1 : FrameTidy(gs[k], h) /\ Precedes(gs[k], b)
  BY <1>1 DEF Tidy
<1>4. ASSUME NEW j \in 1 .. m + 1, NEW k \in 1 .. m + 1, j < k PROVE Precedes(gs[j], gs[k].obj)
  <2>1. j \in 1 .. m
    BY <1>2, <1>4
  <2>2. CASE k = m + 1
    BY <2>1, <2>2
  <2>3. CASE k \in 1 .. m
    BY <1>4, <2>1, <2>3 DEF Tidy
  <2> QED
    BY <1>1, <2>2, <2>3
<1> QED
  BY <1>3, <1>4 DEF Tidy

\* the innermost frame and those that wait for it
LEMMA TidyParts ==
  ASSUME NEW n \in Nat, NEW fs, IsStack(fs, n), fs # <<>>, NEW h, NEW b, Tidy(fs, h, b)
  PROVE  LET f == fs[Len(fs)]
             rest == SubSeq(fs, 1, Len(fs) - 1)
         IN  /\ FrameTidy(f, h) /\ Precedes(f, b)
             /\ Tidy(rest, h, b) /\ Len(rest) \in Nat /\ Len(fs) = Len(rest) + 1
             /\ \A k \in 1 .. Len(rest) : fs[k] = rest[k]
             /\ \A k \in 1 .. Len(rest) : Precedes(rest[k], f.obj) /\ Precedes(rest[k], b)
<1> DEFINE m == Len(fs) - 1
           rest == SubSeq(fs, 1, m)
<1>1. PICK D : fs \in Seq(D)
  BY DEF IsStack
<1>2. m \in Nat /\ Len(rest) = m /\ \A k \in 1 .. m : rest[k] = fs[k]
  BY <1>1, FrontIs
<1>3. Len(fs) \in 1 .. Len(fs) /\ Len(fs) = m + 1
  BY <1>1, <1>2, LengthIs
<1> HIDE DEF rest
<1>4. \A k \in 1 .. m : k \in 1 .. Len(fs) /\ k < Len(fs)
  BY <1>3, <1>2
<1> QED
  BY <1>2, <1>3, <1>4 DEF Tidy, rest

Taken(f, o) == [f EXCEPT !.refs = Append(@, o)]

\* one more object has been read for a list or a map
LEMMA FrameTakes ==
  ASSUME NEW h, IsHeap(h), NEW f, IsFrame(f, Len(h)), FrameTidy(f, h), f.step = "parts",
         NEW o \in f.obj + 1 .. Len(h), Precedes(f, o), ~h[o].freed,
         \A y \in 1 .. Len(h) : o \notin Kids(h, y)
  PROVE  /\ FrameTidy(Taken(f, o), h) /\ Taken(f, o).obj = f.obj
         /\ Elements(Taken(f, o).refs) = Elements(f.refs) \cup {o}
<1> DEFINE g == Taken(f, o)
           A == f.obj + 1 .. Len(h)
           r == Append(f.refs, o)
           l == Len(f.refs)
<1>1. f.refs \in Seq(A) /\ o \in A /\ f.done = 0 /\ IsFrameRecord(f) /\ Kids(h, f.obj) = {}
  BY DEF IsFrame, FrameTidy
<1>2. /\ Len(r) = l + 1 /\ r[l + 1] = o /\ l \in Nat /\ DOMAIN r = 1 .. Len(r) /\ DOMAIN f.refs = 1 .. l
      /\ \A k \in 1 .. l : r[k] = f.refs[k]
  <2> HIDE DEF A, r
  <2>1. r \in Seq(A) /\ Len(r) = Len(f.refs) + 1 /\ r[Len(f.refs) + 1] = o
        /\ \A k \in 1 .. Len(f.refs) : r[k] = f.refs[k]
    BY <1>1, Pushed DEF r
  <2> QED
    BY <1>1, <2>1, LengthIs
<1>3. g = [f EXCEPT !.refs = r]
  BY DEF Taken
<1> HIDE DEF r, l, g
<1>4. g.refs = r /\ g.obj = f.obj /\ g.done = f.done /\ g.step = f.step
  BY <1>1, <1>3, RefsChange
<1>5. \A k \in 1 .. l + 1 : k \in 1 .. l \/ k = l + 1
  BY <1>2
<1>6. Elements(r) = Elements(f.refs) \cup {o}
  <2>1. 1 .. Len(r) = (1 .. l) \cup {l + 1}
    BY <1>2
  <2>2. Elements(r) = {r[k] : k \in 1 .. l} \cup {r[l + 1]}
    BY <1>2, <2>1 DEF Elements
  <2>3. Elements(f.refs) = {r[k] : k \in 1 .. l}
    BY <1>2 DEF Elements
  <2> QED
    BY <1>2, <2>2, <2>3
<1>7. Pending(g) = Elements(r) /\ Pending(f) = Elements(f.refs)
  <2>1. f.done + 1 = 1
    BY <1>1
  <2>2. Len(f.refs) = l
    BY DEF l
  <2> QED
    BY <1>2, <1>4, <2>1, <2>2 DEF Pending, Elements
<1>8. ASSUME NEW j \in 1 .. l + 1, NEW k \in 1 .. l + 1, j < k PROVE r[j] < r[k]
  <2>1. j \in 1 .. l
    BY <1>2, <1>8
  <2>2. CASE k \in 1 .. l
    <3>1. \A i, m \in 1 .. l : i < m => f.refs[i] < f.refs[m]
      BY <1>1 DEF FrameTidy, l
    <3>2. f.refs[j] < f.refs[k]
      BY <1>8, <2>1, <2>2, <3>1
    <3> QED
      BY <1>2, <2>1, <2>2, <3>2
  <2>3. CASE k = l + 1
    <3>1. f.refs[j] \in Elements(f.refs)
      BY <1>2, <2>1 DEF Elements
    <3> QED
      BY <1>2, <2>1, <2>3, <3>1 DEF Precedes
  <2> QED
    BY <1>5, <2>2, <2>3
<1>9. \A j, k \in g.done + 1 .. Len(g.refs) : j < k => g.refs[j] < g.refs[k]
  <2>1. g.done + 1 = 1 /\ Len(g.refs) = l + 1
    BY <1>1, <1>2, <1>4
  <2> QED
    BY <1>4, <1>8, <2>1
<1>10. \A x \in Elements(g.refs) : ~h[x].freed
  <2>1. \A x \in Elements(f.refs) : ~h[x].freed
    BY <1>7 DEF FrameTidy
  <2> QED
    BY <1>4, <1>6, <2>1
<1>11. \A y \in 1 .. Len(h) : y # g.obj => \A x \in Elements(g.refs) : x \notin Kids(h, y)
  <2> SUFFICES ASSUME NEW y \in 1 .. Len(h), y # f.obj, NEW x \in Elements(r) PROVE x \notin Kids(h, y)
    BY <1>4
  <2>1. CASE x = o
    BY <2>1
  <2>2. CASE x \in Elements(f.refs)
    BY <2>2 DEF FrameTidy
  <2> QED
    BY <1>6, <2>1, <2>2
<1>12. \A x \in Pending(g) : ~h[x].freed
  BY <1>4, <1>7, <1>10
<1>13. ~h[g.obj].freed /\ Kids(h, g.obj) = {}
       /\ \A y \in 1 .. Len(h) : y < g.obj => Kids(h, y) \subseteq 1 .. g.obj - 1
  BY <1>1, <1>4 DEF FrameTidy
<1>14. FrameTidy(g, h)
  BY <1>9, <1>10, <1>11, <1>12, <1>13 DEF FrameTidy
<1> QED
  BY <1>4, <1>6, <1>14 DEF g

-----------------------------------------------------------------------------
(* The states that a step may lead to.                                     *)

LEMMA ReadingTidy ==
  ASSUME TInv, misuse = "none", ~short, ~loose, mode = "reading"
  PROVE  TidyReading
BY DEF TInv

LEMMA StillTidy ==
  ASSUME mode' = "reading", TidyReading'
  PROVE  TInv'
BY DEF TInv

LEMMA FailsTidily ==
  ASSUME mode' = "failing", IsHeap(heap'), TidyReading',
         \A k \in 1 .. Len(frames') : frames'[k].step # "moving"
  PROVE  TInv'
<1>1. Len(heap') + 1 \in 1 .. Len(heap') + 1
  BY HeapIs
<1> QED
  BY <1>1 DEF TInv, TidyReading

LEMMA DeliverTidy ==
  ASSUME NEW o, NEW callers, NEW wanting, Deliver(o, callers, wanting), ~short', mode = "reading",
         IsHeap(heap'), IsStack(callers, Len(heap')),
         Alive(heap', Len(heap') + 1), Tidy(callers, heap', Len(heap') + 1),
         o \in 1 .. Len(heap'), ~heap'[o].freed, \A y \in 1 .. Len(heap') : o \notin Kids(heap', y),
         callers # <<>> => callers[Len(callers)].step = "parts"
                           /\ o \in callers[Len(callers)].obj + 1 .. Len(heap'),
         \A k \in 1 .. Len(callers) : Precedes(callers[k], o)
  PROVE  TInv'
<1> DEFINE n == Len(heap')
           f == callers[Len(callers)]
           g == Taken(f, o)
           rest == SubSeq(callers, 1, Len(callers) - 1)
<1>1. n \in Nat
  BY HeapIs
<1>2. CASE callers = <<>>
  <2>1. mode' = "done" /\ result' = o
    BY <1>2 DEF Deliver
  <2> QED
    BY <2>1 DEF TInv
<1>3. CASE callers # <<>>
  <2>1. /\ frames' = [callers EXCEPT ![Len(callers)].refs = Append(@, o)]
        /\ mode' = "reading"
    BY <1>3 DEF Deliver
  <2>2. /\ FrameTidy(f, heap') /\ Precedes(f, n + 1)
        /\ Tidy(rest, heap', n + 1) /\ Len(rest) \in Nat /\ Len(callers) = Len(rest) + 1
        /\ \A k \in 1 .. Len(rest) : callers[k] = rest[k]
        /\ \A k \in 1 .. Len(rest) : Precedes(rest[k], f.obj) /\ Precedes(rest[k], n + 1)
    BY <1>1, <1>3, TidyParts
  <2> HIDE DEF rest
  <2>3. IsFrame(f, n) /\ Len(callers) \in 1 .. Len(callers)
    BY <1>1, <1>3, TopIs
  <2>4. PICK D : callers \in Seq(D)
    BY DEF IsStack
  <2>5. f.step = "parts" /\ o \in f.obj + 1 .. n /\ Precedes(f, o)
    BY <1>3, <2>3
  <2>6. /\ FrameTidy(g, heap') /\ g.obj = f.obj
        /\ Elements(g.refs) = Elements(f.refs) \cup {o}
    <3> HIDE DEF f
    <3> QED
      BY <2>2, <2>3, <2>5, FrameTakes
  <2>7. frames' = [callers EXCEPT ![Len(callers)] = g]
    BY <2>1 DEF Taken
  <2> HIDE DEF g
  <2>8. /\ Len(frames') = Len(callers) /\ frames'[Len(callers)] = g
        /\ \A k \in 1 .. Len(callers) : k # Len(callers) => frames'[k] = callers[k]
    <3>1. callers \in Seq(D \cup {g}) /\ g \in D \cup {g}
      BY <2>4, SeqGrows
    <3> QED
      BY <2>3, <2>7, <3>1, MemberChanges
  <2>9. \A k \in 1 .. Len(rest) : frames'[k] = rest[k]
    <3>1. \A k \in 1 .. Len(rest) : k \in 1 .. Len(callers) /\ k # Len(callers)
      BY <2>2
    <3> QED
      BY <2>2, <2>8, <3>1
  <2>10. Precedes(g, n + 1)
    BY <1>1, <2>2, <2>6 DEF Precedes
  <2>11. Tidy(frames', heap', n + 1)
    <3>1. Len(frames') = Len(rest) + 1 /\ frames'[Len(frames')] = g
      BY <2>2, <2>8
    <3> HIDE DEF f
    <3> QED
      BY <2>2, <2>6, <2>9, <2>10, <3>1, TidyJoins
  <2> QED
    BY <2>1, <2>11, StillTidy DEF TidyReading
<1> QED
  BY <1>2, <1>3

-----------------------------------------------------------------------------
(* The steps that read tags and allocate objects.                          *)

\* objects that are reachable through a part are not alone in being read
LEMMA WaitingPrecede ==
  ASSUME NEW n \in Nat, NEW fs, IsStack(fs, n), NEW h, NEW b, Tidy(fs, h, b), NEW o \in Nat, b <= o, b \in Nat
  PROVE  \A k \in 1 .. Len(fs) : Precedes(fs[k], o)
<1> SUFFICES ASSUME NEW k \in 1 .. Len(fs) PROVE Precedes(fs[k], o)
  OBVIOUS
<1>1. IsFrame(fs[k], n) /\ Precedes(fs[k], b)
  BY DEF IsStack, Tidy
<1>2. fs[k].obj \in Nat /\ \A x \in Elements(fs[k].refs) : x \in Nat
  <2>1. fs[k].obj \in 1 .. n /\ \A x \in Elements(fs[k].refs) : x \in fs[k].obj + 1 .. n
    BY <1>1, FrameIs, ObjIs
  <2> QED
    BY <2>1
<1> QED
  BY <1>1, <1>2 DEF Precedes

\* no frame is moving parts where a tag is read
LEMMA NoneMoves ==
  ASSUME NEW n \in Nat, NEW fs, IsStack(fs, n), fs # <<>> => fs[Len(fs)].step # "moving"
  PROVE  \A k \in 1 .. Len(fs) : fs[k].step # "moving"
<1> SUFFICES ASSUME NEW k \in 1 .. Len(fs) PROVE fs[k].step # "moving"
  OBVIOUS
<1>1. Len(fs) \in Nat /\ (fs = <<>> <=> Len(fs) = 0)
  BY StackIs
<1>2. CASE k = Len(fs)
  BY <1>1, <1>2
<1>3. CASE k # Len(fs)
  <2>1. Len(fs) \in 1 .. Len(fs) /\ k < Len(fs)
    BY <1>1, <1>3
  <2>2. Before(fs[k], fs[Len(fs)])
    BY <2>1 DEF IsStack
  <2> QED
    BY <2>2 DEF Before
<1> QED
  BY <1>2, <1>3

LEMMA AllocationTidy ==
  ASSUME DInv, TInv, misuse = "none", ~short, ~loose, ReadsTag, NEW type, NEW value, NEW text, NEW class,
         heap' = Allocated(Object(type, value, text, class))
  PROVE  /\ Alive(heap', NewId + 1) /\ Tidy(frames, heap', NewId) /\ Tidy(frames, heap', NewId + 1)
         /\ ~heap'[NewId].freed /\ Kids(heap', NewId) = {}
         /\ \A y \in 1 .. NewId : NewId \notin Kids(heap', y)
         /\ \A y \in 1 .. NewId : y < NewId => Kids(heap', y) \subseteq 1 .. NewId - 1
         /\ \A k \in 1 .. Len(frames) : Precedes(frames[k], NewId)
<1> DEFINE l == Len(heap)
           n == l + 1
<1>1. mode = "reading"
  BY DEF ReadsTag
<1>2. IsHeap(heap) /\ IsStack(frames, l) /\ l \in Nat
  BY <1>1, ReadingIs
<1>3. Alive(heap, n) /\ Tidy(frames, heap, n)
  BY <1>1, ReadingTidy DEF TidyReading
<1>4. /\ IsHeap(heap') /\ Len(heap') = n
      /\ \A x \in 1 .. l : heap'[x] = heap[x]
      /\ heap'[n].type = type /\ ~heap'[n].freed
  BY <1>2, AllocatedIs DEF Allocated
<1>5. n \in Nat /\ n \in 1 .. n /\ l <= n /\ n \in 1 .. l + 1 /\ \A x \in 1 .. n : x = n \/ x \in 1 .. l
  BY <1>2
<1>6. PartsFollow(heap) /\ PartsFollow(heap')
  BY <1>2, <1>4, HeapIs
<1>7. Kids(heap', n) = {}
  <2>1. Kids(heap', n) \subseteq n + 1 .. n
    BY <1>4, <1>5, <1>6 DEF PartsFollow
  <2> QED
    BY <1>5, <2>1
<1>8. \A y \in 1 .. l : Kids(heap', y) = Kids(heap, y) /\ Kids(heap', y) \subseteq 1 .. l
  <2>1. \A y \in 1 .. l : Kids(heap', y) = Kids(heap, y)
    BY <1>4 DEF Kids
  <2>2. \A y \in 1 .. l : Kids(heap, y) \subseteq y + 1 .. l
    BY <1>6 DEF PartsFollow
  <2>3. \A y \in 1 .. l : y + 1 .. l \subseteq 1 .. l
    OBVIOUS
  <2> QED
    BY <2>1, <2>2, <2>3
<1>9. Alive(heap', n + 1)
  <2> SUFFICES ASSUME NEW x \in 1 .. n
               PROVE  /\ Kids(heap', x) \subseteq 1 .. n
                      /\ ~heap'[x].freed => \A y \in Kids(heap', x) : ~heap'[y].freed
    BY <1>5 DEF Alive
  <2>1. CASE x = n
    BY <1>7, <2>1
  <2>2. CASE x \in 1 .. l
    <3>1. Kids(heap', x) \subseteq 1 .. l /\ 1 .. l \subseteq 1 .. n
      BY <1>2, <1>8, <2>2
    <3>2. ~heap[x].freed => \A y \in Kids(heap, x) : ~heap[y].freed
      <4>1. x \in 1 .. n - 1
        BY <1>2, <2>2
      <4> QED
        BY <1>3, <4>1 DEF Alive
    <3> QED
      BY <1>4, <1>8, <2>2, <3>1, <3>2
  <2> QED
    BY <1>5, <2>1, <2>2
<1>10. \A k \in 1 .. Len(frames) : Precedes(frames[k], n)
  BY <1>3 DEF Tidy
<1>11. AsBefore(heap', heap, n)
  BY <1>4, <1>8 DEF AsBefore
<1>12. Tidy(frames, heap', n)
  <2> HIDE DEF n, l
  <2> QED
    BY <1>2, <1>3, <1>4, <1>5, <1>10, <1>11, TidyStays DEF l
<1>13. Tidy(frames, heap', n + 1)
  <2>1. \A k \in 1 .. Len(frames) : Precedes(frames[k], n + 1)
    BY <1>2, <1>3, <1>5, WaitingPrecede
  <2> QED
    BY <1>12, <2>1 DEF Tidy
<1>14. \A y \in 1 .. n : n \notin Kids(heap', y)
  <2>1. n \notin 1 .. l
    BY <1>2
  <2> QED
    BY <1>5, <1>7, <1>8, <2>1
<1>15. \A y \in 1 .. n : y < n => Kids(heap', y) \subseteq 1 .. n - 1
  <2>1. n - 1 = l /\ ~(n < n)
    BY <1>2
  <2> QED
    BY <1>5, <1>8, <2>1
<1> QED
  BY <1>4, <1>7, <1>9, <1>10, <1>12, <1>13, <1>14, <1>15 DEF NewId

LEMMA LeafTidy ==
  ASSUME DInv, TInv, misuse = "none", ~short, ~loose, ~short',
         ReadsTag, NEW type, NEW value, NEW text, NEW class,
         heap' = Allocated(Object(type, value, text, class)),
         NEW wanting, Deliver(NewId, frames, wanting)
  PROVE  TInv'
<1>1. mode = "reading"
  BY DEF ReadsTag
<1>2. /\ NewId \in Nat /\ Len(heap') = NewId /\ IsHeap(heap')
      /\ IsStack(frames, NewId) /\ NewId \in 1 .. NewId
      /\ frames # <<>> => /\ frames[Len(frames)].step = "parts"
                          /\ NewId \in frames[Len(frames)].obj + 1 .. NewId
  BY AllocationIs
<1>3. /\ Alive(heap', NewId + 1) /\ Tidy(frames, heap', NewId + 1)
      /\ ~heap'[NewId].freed /\ \A y \in 1 .. NewId : NewId \notin Kids(heap', y)
      /\ \A k \in 1 .. Len(frames) : Precedes(frames[k], NewId)
  BY AllocationTidy
<1> HIDE DEF NewId
<1> QED
  BY <1>1, <1>2, <1>3, DeliverTidy

\* an object is allocated, and the reading fails
LEMMA LostTidy ==
  ASSUME DInv, TInv, misuse = "none", ~short, ~loose,
         ReadsTag, NEW type, NEW value, NEW text, NEW class,
         heap' = Allocated(Object(type, value, text, class)), mode' = "failing", frames' = frames
  PROVE  TInv'
<1>1. /\ NewId \in Nat /\ Len(heap') = NewId /\ IsHeap(heap') /\ IsStack(frames, NewId)
      /\ frames # <<>> => frames[Len(frames)].step = "parts"
  BY AllocationIs
<1>2. Alive(heap', NewId + 1) /\ Tidy(frames, heap', NewId + 1)
  BY AllocationTidy
<1>3. \A k \in 1 .. Len(frames) : frames[k].step # "moving"
  BY <1>1, NoneMoves
<1> QED
  BY <1>1, <1>2, <1>3, FailsTidily DEF TidyReading

LEMMA OpensTidy ==
  ASSUME DInv, TInv, misuse = "none", ~short, ~loose,
         ReadsTag, NEW type, NEW class, NEW next, Opens(type, class, next),
         mode' = mode \/ mode' = "failing"
  PROVE  TInv'
<1> DEFINE f == [obj |-> NewId, tag |-> ByteAt(pos), refs |-> <<>>,
                 step |-> IF type \in Texts THEN "chunks" ELSE "parts", done |-> 0]
<1>1. mode = "reading"
  BY DEF ReadsTag
<1>2. /\ NewId \in Nat /\ Len(heap') = NewId /\ IsHeap(heap') /\ IsStack(frames, NewId)
      /\ frames # <<>> => frames[Len(frames)].step = "parts"
  BY AllocationIs DEF Opens
<1>3. /\ Alive(heap', NewId + 1) /\ Tidy(frames, heap', NewId)
      /\ ~heap'[NewId].freed /\ Kids(heap', NewId) = {}
      /\ \A y \in 1 .. NewId : NewId \notin Kids(heap', y)
      /\ \A y \in 1 .. NewId : y < NewId => Kids(heap', y) \subseteq 1 .. NewId - 1
      /\ \A k \in 1 .. Len(frames) : Precedes(frames[k], NewId)
      /\ Tidy(frames, heap', NewId + 1)
  BY AllocationTidy DEF Opens
<1> HIDE DEF NewId
<1>4. f.obj = NewId /\ f.refs = <<>> /\ f.step # "moving" /\ f.done = 0
  OBVIOUS
<1>5. frames' = Append(frames, f)
  BY DEF Opens
<1> HIDE DEF f
<1>6. Elements(f.refs) = {} /\ Pending(f) = {} /\ Len(f.refs) = 0
  BY <1>4 DEF Elements, Pending
<1>7. FrameTidy(f, heap')
  <2>1. f.done + 1 .. Len(f.refs) = {}
    BY <1>4, <1>6
  <2> QED
    BY <1>2, <1>3, <1>4, <1>6, <2>1 DEF FrameTidy
<1>8. Precedes(f, NewId + 1)
  BY <1>2, <1>4, <1>6 DEF Precedes
<1>9. /\ Len(frames') = Len(frames) + 1 /\ frames'[Len(frames')] = f /\ Len(frames) \in Nat
      /\ \A k \in 1 .. Len(frames) : frames'[k] = frames[k]
  <2>1. PICK D : frames \in Seq(D)
    BY <1>2 DEF IsStack
  <2>2. frames \in Seq(D \cup {f}) /\ f \in D \cup {f}
    BY <2>1, SeqGrows
  <2> QED
    BY <1>5, <2>1, <2>2, Pushed, LengthIs
<1>10. Tidy(frames', heap', NewId + 1)
  <2>1. \A k \in 1 .. Len(frames) : Precedes(frames[k], NewId + 1) /\ Precedes(frames[k], f.obj)
    BY <1>3, <1>4 DEF Tidy
  <2> QED
    BY <1>3, <1>7, <1>8, <1>9, <2>1, TidyJoins
<1>11. TidyReading'
  BY <1>2, <1>3, <1>10 DEF TidyReading
<1>12. CASE mode' = mode
  BY <1>1, <1>11, <1>12, StillTidy
<1>13. CASE mode' = "failing"
  <2>1. \A k \in 1 .. Len(frames) : frames[k].step # "moving"
    BY <1>2, NoneMoves
  <2>2. \A k \in 1 .. Len(frames) + 1 : k \in 1 .. Len(frames) \/ k = Len(frames) + 1
    BY <1>9
  <2>3. \A k \in 1 .. Len(frames') : frames'[k].step # "moving"
    BY <1>4, <1>9, <2>1, <2>2
  <2> QED
    BY <1>2, <1>11, <1>13, <2>3, FailsTidily
<1> QED
  BY <1>12, <1>13

LEMMA RefuseTagTidy ==
  ASSUME DInv, TInv, misuse = "none", ~short, ~loose, RefuseTag
  PROVE  TInv'
<1>1. mode = "reading" /\ mode' = "failing" /\ frames' = frames /\ heap' = heap
      /\ (frames # <<>> => Top.step = "parts")
  BY DEF RefuseTag, ReadsTag, NoMemory, Fails
<1>2. IsHeap(heap) /\ IsStack(frames, Len(heap)) /\ Len(heap) \in Nat /\ TidyReading
  BY <1>1, ReadingIs, ReadingTidy
<1>3. \A k \in 1 .. Len(frames) : frames[k].step # "moving"
  BY <1>1, <1>2, NoneMoves DEF Top
<1>4. TidyReading'
  BY <1>1, <1>2 DEF TidyReading
<1> QED
  BY <1>1, <1>2, <1>3, <1>4, FailsTidily

LEMMA LeavesTidy ==
  ASSUME DInv, TInv, misuse = "none", ~short, ~loose, ~short',
         ReadNull \/ ReadBoolean \/ ReadInteger \/ ReadLong \/ ReadDouble
  PROVE  TInv'
<1>1. /\ ReadsTag /\ Deliver(NewId, frames, FALSE)
      /\ \E type, value, text : heap' = Allocated(Object(type, value, text, <<>>))
  BY DEF ReadNull, ReadBoolean, ReadInteger, ReadLong, ReadDouble, Reads, Leaf
<1> QED
  BY <1>1, LeafTidy

LEMMA ReadRemoteTidy ==
  ASSUME DInv, TInv, misuse = "none", ~short, ~loose, ~short', ReadRemote
  PROVE  TInv'
<1> DEFINE Complete(class, url) ==
             /\ heap' = Allocated(Object("remote", 0, url.text, class.text))
             /\ Deliver(NewId, frames, class.starved \/ url.starved)
           Lost ==
             /\ heap' = Allocated(Object("remote", 0, <<>>, <<>>))
             /\ Fails
<1>1. ReadsTag /\ (Lost \/ \E class, url : Complete(class, url))
  BY DEF ReadRemote, Reads
<1>2. ASSUME NEW class, NEW url, Complete(class, url) PROVE TInv'
  BY <1>1, <1>2, LeafTidy
<1>3. CASE Lost
  BY <1>1, <1>3, LostTidy DEF Fails
<1> QED
  BY <1>1, <1>2, <1>3

LEMMA OpeningTidy ==
  ASSUME DInv, TInv, misuse = "none", ~short, ~loose, OpenContainer \/ OpenText
  PROVE  TInv'
<1>1. /\ ReadsTag /\ (mode' = mode \/ mode' = "failing")
      /\ \E type, class, next : Opens(type, class, next)
  BY DEF OpenContainer, OpensContainer, OpenText, Reads
<1> QED
  BY <1>1, OpensTidy

-----------------------------------------------------------------------------
(* Texts, and the ends of objects.                                         *)

LEMMA AliveStays ==
  ASSUME NEW h, IsHeap(h), NEW h2, NEW b \in 1 .. Len(h) + 1, AsBefore(h2, h, b), Alive(h, b)
  PROVE  Alive(h2, b)
<1> SUFFICES ASSUME NEW x \in 1 .. b - 1
             PROVE  /\ Kids(h2, x) \subseteq 1 .. b - 1
                    /\ ~h2[x].freed => \A y \in Kids(h2, x) : ~h2[y].freed
  BY DEF Alive
<1>1. Len(h) \in Nat
  BY HeapIs
<1>2. \A y \in 1 .. b - 1 : y \in 1 .. Len(h) /\ y < b
  BY <1>1
<1>3. \A y \in 1 .. b - 1 : Kids(h2, y) = Kids(h, y) /\ h2[y].freed = h[y].freed
  BY <1>2 DEF AsBefore
<1>4. Kids(h, x) \subseteq 1 .. b - 1 /\ (~h[x].freed => \A y \in Kids(h, x) : ~h[y].freed)
  BY DEF Alive
<1> QED
  BY <1>3, <1>4

LEMMA FrameGoesOn ==
  ASSUME NEW h, NEW f, FrameTidy(f, h), NEW g, g.obj = f.obj, g.refs = f.refs, g.done = f.done,
         g.step # "moving" => f.step # "moving"
  PROVE  FrameTidy(g, h)
BY DEF FrameTidy, Pending

\* the innermost frame becomes g
LEMMA InnermostTidy ==
  ASSUME DInv, misuse = "none", mode \in {"reading", "failing"}, frames # <<>>, Len(heap') = Len(heap),
         Tidy(frames, heap, Len(heap) + 1), Tidy(Rest, heap', Len(heap) + 1),
         NEW g, FrameTidy(g, heap'), g.obj = Top.obj, Elements(g.refs) \subseteq Elements(Top.refs),
         frames' = [frames EXCEPT ![Len(frames)] = g]
  PROVE  Tidy(frames', heap', Len(heap') + 1)
<1> DEFINE n == Len(heap)
<1>1. IsStack(frames, n) /\ n \in Nat
  BY ReadingIs
<1>2. /\ Precedes(Top, n + 1) /\ Len(Rest) \in Nat /\ Len(frames) = Len(Rest) + 1
      /\ \A k \in 1 .. Len(Rest) : frames[k] = Rest[k]
      /\ \A k \in 1 .. Len(Rest) : Precedes(Rest[k], Top.obj) /\ Precedes(Rest[k], n + 1)
  BY <1>1, TidyParts DEF Top, Rest
<1>3. PICK D : frames \in Seq(D)
  BY <1>1 DEF IsStack
<1>4. /\ Len(frames') = Len(frames) /\ frames'[Len(frames)] = g
      /\ \A k \in 1 .. Len(frames) : k # Len(frames) => frames'[k] = frames[k]
  <2>1. frames \in Seq(D \cup {g}) /\ g \in D \cup {g}
    BY <1>3, SeqGrows
  <2>2. Len(frames) \in 1 .. Len(frames)
    BY <1>2
  <2> QED
    BY <2>1, <2>2, MemberChanges
<1>5. \A k \in 1 .. Len(Rest) : frames'[k] = Rest[k]
  <2>1. \A k \in 1 .. Len(Rest) : k \in 1 .. Len(frames) /\ k # Len(frames)
    BY <1>2
  <2> QED
    BY <1>2, <1>4, <2>1
<1>6. Precedes(g, n + 1)
  BY <1>2 DEF Precedes
<1>7. Len(frames') = Len(Rest) + 1 /\ frames'[Len(frames')] = g
  BY <1>2, <1>4
<1> HIDE DEF Rest, Top
<1> QED
  BY <1>2, <1>5, <1>6, <1>7, TidyJoins, ZenonT(40)

\* the text of an object changes: nothing else does
LEMMA TextLeaves ==
  ASSUME NEW h, IsHeap(h), NEW o \in 1 .. Len(h), NEW text
  PROVE  LET h2 == [h EXCEPT ![o].text = text]
         IN  IsHeap(h2) /\ Len(h2) = Len(h) /\ AsBefore(h2, h, Len(h) + 1)
<1> DEFINE e == [h[o] EXCEPT !.text = text]
           h2 == [h EXCEPT ![o] = e]
<1>1. IsObject(h[o], o, Len(h))
  BY DEF IsHeap
<1>2. e.freed = h[o].freed /\ e.type = h[o].type /\ e.parts = h[o].parts
  BY <1>1, TextIsOfNoInterest DEF IsObject
<1> HIDE DEF e
<1>3. PICK D : h \in Seq(D)
  BY DEF IsHeap
<1>4. h2[o] = e /\ \A x \in 1 .. Len(h) : x # o => h2[x] = h[x]
  <2>1. h \in Seq(D \cup {e}) /\ e \in D \cup {e}
    BY <1>3, SeqGrows
  <2> QED
    BY <2>1, MemberChanges
<1>5. IsHeap(h2) /\ Len(h2) = Len(h)
  BY TextChanges DEF e
<1> HIDE DEF h2
<1>6. \A x \in 1 .. Len(h) : Kids(h2, x) = Kids(h, x) /\ h2[x].freed = h[x].freed /\ h2[x].type = h[x].type
  BY <1>2, <1>4 DEF Kids
<1> QED
  BY <1>5, <1>6 DEF AsBefore, h2, e

\* the objects are the same, those that are being read too
LEMMA HeapUnchanged ==
  ASSUME DInv, misuse = "none", mode = "reading", TidyReading,
         IsHeap(heap'), Len(heap') = Len(heap), AsBefore(heap', heap, Len(heap) + 1)
  PROVE  Alive(heap', Len(heap') + 1) /\ Tidy(frames, heap', Len(heap') + 1)
<1>1. IsHeap(heap) /\ IsStack(frames, Len(heap)) /\ Len(heap) \in Nat
  BY ReadingIs
<1>2. Len(heap) + 1 \in 1 .. Len(heap) + 1
  BY <1>1
<1>3. Alive(heap', Len(heap) + 1)
  BY <1>1, <1>2, AliveStays DEF TidyReading
<1>4. Tidy(frames, heap', Len(heap) + 1)
  <2>1. \A k \in 1 .. Len(frames) : Precedes(frames[k], Len(heap) + 1)
    BY DEF TidyReading, Tidy
  <2>2. Tidy(frames, heap, Len(heap) + 1) /\ Len(heap) <= Len(heap')
    BY <1>1 DEF TidyReading
  <2> QED
    BY <1>1, <1>2, <2>1, <2>2, TidyStays
<1> QED
  BY <1>3, <1>4

LEMMA HeapSame == AsBefore(heap, heap, Len(heap) + 1)
BY DEF AsBefore

LEMMA ReadChunkTidy ==
  ASSUME DInv, TInv, misuse = "none", ~short, ~loose, ReadChunk
  PROVE  TInv'
<1>1. mode = "reading" /\ frames # <<>> /\ Top.step = "chunks" /\ mode' = mode
  BY DEF ReadChunk, ReadsChunk
<1>2. PICK t, s, u : /\ frames' = [frames EXCEPT ![Len(frames)].tag = t, ![Len(frames)].step = s]
                     /\ s \in {"chunks", "end"}
                     /\ heap' = [heap EXCEPT ![Top.obj].text = u]
  BY DEF ReadChunk, PassChunk
<1> DEFINE g == Advanced(Top, t, s)
<1>3. IsHeap(heap) /\ TidyReading /\ IsStack(frames, Len(heap)) /\ Len(heap) \in Nat
  BY <1>1, ReadingIs, ReadingTidy
<1>4. IsFrame(Top, Len(heap)) /\ Top.obj \in 1 .. Len(heap) /\ Len(frames) \in 1 .. Len(frames)
  BY <1>1, InnermostIs
<1>5. g.step = s /\ g.obj = Top.obj /\ g.refs = Top.refs /\ g.done = Top.done
  <2>1. IsFrameRecord(Top)
    BY <1>4 DEF IsFrame
  <2> QED
    BY <2>1, TagStepChange
<1>6. frames' = [frames EXCEPT ![Len(frames)] = g]
  BY <1>2, <1>4 DEF Top, Advanced
<1> HIDE DEF g
<1>7. IsHeap(heap') /\ Len(heap') = Len(heap) /\ AsBefore(heap', heap, Len(heap) + 1)
  BY <1>2, <1>3, <1>4, TextLeaves
<1>8. Alive(heap', Len(heap') + 1) /\ Tidy(frames, heap', Len(heap') + 1)
  BY <1>1, <1>3, <1>7, HeapUnchanged
<1>9. FrameTidy(Top, heap') /\ Tidy(Rest, heap', Len(heap) + 1)
  BY <1>1, <1>3, <1>7, <1>8, TidyParts DEF Top, Rest
<1>10. FrameTidy(g, heap')
  BY <1>1, <1>5, <1>9, FrameGoesOn
<1>11. Tidy(frames', heap', Len(heap') + 1)
  BY <1>1, <1>3, <1>5, <1>6, <1>7, <1>9, <1>10, InnermostTidy DEF TidyReading
<1> QED
  BY <1>1, <1>8, <1>11, StillTidy DEF TidyReading

LEMMA CompleteTidy ==
  ASSUME DInv, misuse = "none", mode = "reading", TidyReading, frames # <<>>, heap' = heap,
         NEW wanting, Deliver(Top.obj, Rest, wanting), ~short'
  PROVE  TInv'
<1> DEFINE n == Len(heap)
<1>1. IsHeap(heap) /\ n \in Nat /\ IsStack(frames, n) /\ PartsFollow(heap)
  BY ReadingIs, HeapIs
<1>2. /\ IsStack(Rest, n) /\ Top.obj \in 1 .. n
      /\ Rest # <<>> => Before(Rest[Len(Rest)], Top)
  BY InnermostIs
<1>3. /\ FrameTidy(Top, heap) /\ Tidy(Rest, heap, n + 1)
      /\ \A k \in 1 .. Len(Rest) : Precedes(Rest[k], Top.obj)
  BY <1>1, TidyParts DEF TidyReading, Top, Rest
<1>4. ASSUME NEW y \in 1 .. n PROVE Top.obj \notin Kids(heap, y)
  <2>1. CASE y < Top.obj
    <3>1. Kids(heap, y) \subseteq 1 .. Top.obj - 1
      BY <1>3, <2>1 DEF FrameTidy
    <3> QED
      BY <1>2, <3>1
  <2>2. CASE ~(y < Top.obj)
    <3>1. Kids(heap, y) \subseteq y + 1 .. n
      BY <1>1 DEF PartsFollow
    <3> QED
      BY <1>2, <2>2, <3>1
  <2> QED
    BY <2>1, <2>2
<1>5. ASSUME Rest # <<>>
      PROVE  /\ Rest[Len(Rest)].step = "parts"
             /\ Top.obj \in Rest[Len(Rest)].obj + 1 .. n
  <2>1. Rest[Len(Rest)].step = "parts" /\ Rest[Len(Rest)].obj < Top.obj
    BY <1>2, <1>5 DEF Before
  <2>2. IsFrame(Rest[Len(Rest)], n)
    BY <1>1, <1>2, <1>5, TopIs
  <2>3. Rest[Len(Rest)].obj \in Nat
    BY <1>1, <2>2, ObjIs
  <2> QED
    BY <1>1, <1>2, <2>1, <2>3
<1>6. ~heap[Top.obj].freed /\ Alive(heap, n + 1)
  BY <1>3 DEF FrameTidy, TidyReading
<1> HIDE DEF Top, Rest
<1> QED
  BY <1>1, <1>2, <1>3, <1>4, <1>5, <1>6, DeliverTidy

LEMMA EndOfTextTidy ==
  ASSUME DInv, TInv, misuse = "none", ~short, ~loose, ~short', EndOfText
  PROVE  TInv'
<1>1. /\ mode = "reading" /\ frames # <<>>
      /\ \/ heap' = heap /\ Deliver(Top.obj, Rest, FALSE)
         \/ Deliver(Top.obj, Rest, TRUE)
  BY DEF EndOfText
<1>2. ~Deliver(Top.obj, Rest, TRUE)
  BY DEF Deliver
<1>3. TidyReading
  BY <1>1, ReadingTidy
<1> QED
  BY <1>1, <1>2, <1>3, CompleteTidy

LEMMA EndOfContainerTidy ==
  ASSUME DInv, TInv, misuse = "none", ~short, ~loose, ~short', EndOfContainer
  PROVE  TInv'
<1>1. mode = "reading" /\ frames # <<>> /\ heap' = heap /\ Deliver(Top.obj, Rest, FALSE)
  BY DEF EndOfContainer, Moves
<1>2. TidyReading
  BY <1>1, ReadingTidy
<1> QED
  BY <1>1, <1>2, CompleteTidy

LEMMA CloseContainerTidy ==
  ASSUME DInv, TInv, misuse = "none", ~short, ~loose, ~short', CloseContainer
  PROVE  TInv'
<1> DEFINE g == Stepped(Top, "moving")
<1>1. /\ mode = "reading" /\ heap' = heap /\ frames # <<>> /\ mode' = mode
      /\ frames' = [frames EXCEPT ![Len(frames)].step = "moving"]
  BY DEF CloseContainer, ReadsTag, NoMemory, AtEnd
<1>2. IsHeap(heap) /\ TidyReading /\ IsStack(frames, Len(heap)) /\ Len(heap) \in Nat
  BY <1>1, ReadingIs, ReadingTidy
<1>3. IsFrame(Top, Len(heap)) /\ Len(frames) \in 1 .. Len(frames)
  BY <1>1, InnermostIs
<1>4. g.step = "moving" /\ g.obj = Top.obj /\ g.refs = Top.refs /\ g.done = Top.done
  <2>1. IsFrameRecord(Top)
    BY <1>3 DEF IsFrame
  <2> QED
    BY <2>1, StepChange
<1>5. frames' = [frames EXCEPT ![Len(frames)] = g]
  BY <1>1, <1>3 DEF Stepped, Top
<1> HIDE DEF g
<1>6. FrameTidy(Top, heap) /\ Tidy(Rest, heap, Len(heap) + 1)
  BY <1>1, <1>2, TidyParts DEF TidyReading, Top, Rest
<1>7. FrameTidy(g, heap)
  BY <1>4, <1>6, FrameGoesOn
<1>8. Tidy(frames', heap', Len(heap') + 1)
  BY <1>1, <1>2, <1>4, <1>5, <1>6, <1>7, InnermostTidy DEF TidyReading
<1> QED
  BY <1>1, <1>2, <1>8, StillTidy DEF TidyReading

-----------------------------------------------------------------------------
(* Parts move: what the container holds then, and who is not freed.        *)

LEMMA ElementsOfJoin ==
  ASSUME NEW A, NEW s \in Seq(A), NEW t \in Seq(A)
  PROVE  Elements(s \o t) = Elements(s) \cup Elements(t)
<1> DEFINE u == s \o t
           l == Len(s)
<1>1. /\ u \in Seq(A) /\ Len(u) = l + Len(t) /\ l \in Nat /\ Len(t) \in Nat
      /\ \A k \in 1 .. l : u[k] = s[k]
      /\ \A k \in 1 .. Len(t) : u[l + k] = t[k]
      /\ DOMAIN s = 1 .. l /\ DOMAIN t = 1 .. Len(t) /\ DOMAIN u = 1 .. Len(u)
  OBVIOUS
<1>2. Elements(s) \subseteq Elements(u) /\ Elements(t) \subseteq Elements(u)
  BY ElementsJoin
<1> HIDE DEF u, l
<1>3. ASSUME NEW k \in DOMAIN u PROVE u[k] \in Elements(s) \cup Elements(t)
  <2>1. CASE k \in 1 .. l
    BY <1>1, <2>1 DEF Elements
  <2>2. CASE k \notin 1 .. l
    <3>1. k - l \in 1 .. Len(t) /\ l + (k - l) = k
      BY <1>1, <2>2
    <3>2. u[k] = t[k - l]
      BY <1>1, <3>1
    <3> QED
      BY <1>1, <3>1, <3>2 DEF Elements
  <2> QED
    BY <2>1, <2>2
<1>4. Elements(u) \subseteq Elements(s) \cup Elements(t)
  BY <1>3 DEF Elements
<1> QED
  BY <1>2, <1>4 DEF u

\* o gains the parts os, and those in E are freed
Transfers(h2, h, o, os, E) ==
  /\ IsHeap(h2) /\ Len(h2) = Len(h)
  /\ Kids(h2, o) = Kids(h, o) \cup Elements(os)
  /\ \A x \in 1 .. Len(h) : x # o => Kids(h2, x) = Kids(h, x)
  /\ \A x \in 1 .. Len(h) : h2[x].type = h[x].type
  /\ \A x \in 1 .. Len(h) : IF x \in E THEN h2[x].freed ELSE h2[x].freed = h[x].freed

LEMMA PartsTransfer ==
  ASSUME NEW h, IsHeap(h), NEW o \in 1 .. Len(h), h[o].type # "ref",
         NEW os \in Seq(o + 1 .. Len(h)), NEW h2, h2 = [h EXCEPT ![o].parts = @ \o os]
  PROVE  Transfers(h2, h, o, os, {})
<1> DEFINE p == h[o].parts \o os
           e == [h[o] EXCEPT !.parts = p]
           A == o + 1 .. Len(h)
<1>1. IsObject(h[o], o, Len(h)) /\ h[o].parts \in Seq(A) /\ os \in Seq(A)
  BY DEF IsHeap, IsObject
<1>2. Elements(p) = Kids(h, o) \cup Elements(os)
  <2> HIDE DEF A
  <2> QED
    BY <1>1, ElementsOfJoin DEF Kids
<1> HIDE DEF p
<1>3. e.type = h[o].type /\ e.parts = p /\ e.freed = h[o].freed
  BY <1>1, PartsChange DEF IsObject
<1>4. h2 = [h EXCEPT ![o] = e]
  BY DEF p, e
<1> HIDE DEF e
<1>5. h2[o] = e /\ \A x \in 1 .. Len(h) : x # o => h2[x] = h[x]
  <2>1. PICK D : h \in Seq(D)
    BY DEF IsHeap
  <2>2. h \in Seq(D \cup {e}) /\ e \in D \cup {e}
    BY <2>1, SeqGrows
  <2> QED
    BY <1>4, <2>2, MemberChanges
<1>6. IsHeap(h2) /\ Len(h2) = Len(h)
  BY PartsMove, ZenonT(40)
<1>7. Kids(h2, o) = Kids(h, o) \cup Elements(os)
  BY <1>2, <1>3, <1>5 DEF Kids
<1>8. \A x \in 1 .. Len(h) : x # o => Kids(h2, x) = Kids(h, x)
  BY <1>5 DEF Kids
<1>9. \A x \in 1 .. Len(h) : h2[x].type = h[x].type /\ h2[x].freed = h[x].freed
  BY <1>3, <1>5
<1> QED
  BY <1>6, <1>7, <1>8, <1>9 DEF Transfers

LEMMA ReferenceTransfers ==
  ASSUME NEW h, IsHeap(h), NEW o \in 1 .. Len(h), h[o].type # "ref",
         NEW os \in Seq(o + 1 .. Len(h)), NEW e \in 1 .. Len(h),
         NEW h1, h1 = [h EXCEPT ![e].freed = TRUE],
         NEW h2, h2 = [h1 EXCEPT ![o].parts = @ \o os]
  PROVE  Transfers(h2, h, o, os, {e})
<1>1. IsReleased(h1, h, e)
  BY ReleasedIs
<1>r. IsHeap(h1) /\ Len(h1) = Len(h) /\ \A x \in 1 .. Len(h) : h1[x].type = h[x].type
  BY <1>1, Zenon DEF IsReleased
<1>2. IsHeap(h1) /\ Len(h1) = Len(h) /\ h1[o].type # "ref" /\ \A x \in 1 .. Len(h) : h1[x].type = h[x].type
  <2>1. h1[o].type = h[o].type
    BY <1>r, Zenon
  <2> QED
    BY <1>r, <2>1, Zenon
<1>3. Transfers(h2, h1, o, os, {})
  <2>1. /\ IsHeap(h1) /\ h1[o].type # "ref" /\ o \in 1 .. Len(h1) /\ os \in Seq(o + 1 .. Len(h1))
        /\ h2 = [h1 EXCEPT ![o].parts = @ \o os]
    BY <1>2, Zenon
  <2> QED
    BY <2>1, PartsTransfer, Zenon
<1>4. \A x \in 1 .. Len(h) : Kids(h1, x) = Kids(h, x) /\ (x # e => h1[x].freed = h[x].freed)
  BY <1>1 DEF IsReleased
<1>5. h1[e].freed
  BY <1>1 DEF IsReleased
<1> DEFINE n == Len(h)
<1>6. IsHeap(h2) /\ Len(h2) = n
  BY <1>2, <1>3 DEF Transfers
<1>7. Kids(h2, o) = Kids(h, o) \cup Elements(os)
  <2>1. Kids(h2, o) = Kids(h1, o) \cup Elements(os)
    BY <1>3 DEF Transfers
  <2> QED
    BY <1>4, <2>1
<1>8. ASSUME NEW x \in 1 .. n
      PROVE  /\ x # o => Kids(h2, x) = Kids(h, x)
             /\ h2[x].type = h[x].type
             /\ IF x \in {e} THEN h2[x].freed ELSE h2[x].freed = h[x].freed
  <2>1. x \in 1 .. Len(h1)
    BY <1>2
  <2>2. x # o => Kids(h2, x) = Kids(h1, x)
    BY <1>3, <2>1, Zenon DEF Transfers
  <2>3. h2[x].type = h1[x].type
    BY <1>3, <2>1, Zenon DEF Transfers
  <2>4. h2[x].freed = h1[x].freed
    BY <1>3, <2>1, Zenon DEF Transfers
  <2>5. /\ Kids(h1, x) = Kids(h, x) /\ h1[x].type = h[x].type
        /\ x # e => h1[x].freed = h[x].freed
    BY <1>2, <1>4
  <2>6. CASE x = e
    BY <1>5, <2>2, <2>3, <2>4, <2>5, <2>6, Zenon
  <2>7. CASE x # e
    BY <2>2, <2>3, <2>4, <2>5, <2>7, Zenon
  <2> QED
    BY <2>6, <2>7
<1> QED
  BY <1>6, <1>7, <1>8, Zenon DEF Transfers

LEMMA AliveMoves ==
  ASSUME NEW h, IsHeap(h), NEW h2, NEW f, IsFrame(f, Len(h)), FrameTidy(f, h),
         NEW os, NEW E, Transfers(h2, h, f.obj, os, E),
         \A x \in Elements(os) : x \in f.obj + 1 .. Len(h) /\ x \notin E /\ ~h[x].freed,
         \A e \in E : e \in Elements(f.refs) /\ e \notin Kids(h, f.obj),
         Alive(h, Len(h) + 1)
  PROVE  Alive(h2, Len(h) + 1)
<1> DEFINE n == Len(h)
<1>1. n \in Nat /\ PartsFollow(h) /\ f.obj \in 1 .. n
  BY HeapIs, ObjIs
<1>2. \A x \in 1 .. n : x \in 1 .. n + 1 - 1
  BY <1>1
<1> SUFFICES ASSUME NEW x \in 1 .. n
             PROVE  /\ Kids(h2, x) \subseteq 1 .. n
                    /\ ~h2[x].freed => \A y \in Kids(h2, x) : ~h2[y].freed
  BY <1>1 DEF Alive
<1>3. Kids(h, x) \subseteq 1 .. n
  BY <1>1, KidsFollow
<1>4. ~h[x].freed => \A y \in Kids(h, x) : ~h[y].freed
  BY <1>2 DEF Alive
<1>5. ~h2[x].freed => ~h[x].freed
  BY DEF Transfers
<1>6. CASE x = f.obj
  <2>1. Kids(h2, x) = Kids(h, x) \cup Elements(os)
    BY <1>6 DEF Transfers
  <2>2. Elements(os) \subseteq 1 .. n
    BY <1>1
  <2>3. ASSUME NEW y \in Kids(h2, x), ~h2[x].freed PROVE ~h2[y].freed
    <3>1. y \notin E /\ ~h[y].freed /\ y \in 1 .. n
      BY <1>3, <1>4, <1>5, <1>6, <2>1, <2>2, <2>3
    <3> QED
      BY <3>1 DEF Transfers
  <2> QED
    BY <1>3, <2>1, <2>2, <2>3
<1>7. CASE x # f.obj
  <2>1. Kids(h2, x) = Kids(h, x)
    BY <1>7 DEF Transfers
  <2>2. ASSUME NEW y \in Kids(h2, x), ~h2[x].freed PROVE ~h2[y].freed
    <3>1. ~h[y].freed /\ y \in 1 .. n
      BY <1>3, <1>4, <1>5, <2>1, <2>2
    <3>2. y \notin E
      BY <1>7, <2>1 DEF FrameTidy
    <3> QED
      BY <3>1, <3>2 DEF Transfers
  <2> QED
    BY <1>3, <2>1, <2>2
<1> QED
  BY <1>6, <1>7

LEMMA FrameMoves ==
  ASSUME NEW h, IsHeap(h), NEW h2, NEW f, IsFrame(f, Len(h)), FrameTidy(f, h),
         NEW os, NEW E, Transfers(h2, h, f.obj, os, E),
         \A x \in Elements(os) : x \in f.obj + 1 .. Len(h) /\ x \notin E /\ ~h[x].freed,
         \A e \in E : e \in Elements(f.refs) /\ e \notin Kids(h, f.obj),
         NEW g, g.obj = f.obj, g.step = "moving",
         Elements(g.refs) \subseteq Elements(f.refs), Pending(g) \subseteq Pending(f),
         Pending(g) \subseteq Elements(f.refs),
         \A j, k \in g.done + 1 .. Len(g.refs) : j < k => g.refs[j] < g.refs[k],
         \A x \in Pending(g) : x \notin E /\ (x \in Elements(os) => h[x].type # "ref"),
         h[f.obj].type = "map" => \A x \in Elements(g.refs) : x \notin E,
         h[f.obj].type = "list" => \A x \in Elements(os) : h[x].type # "ref"
  PROVE  FrameTidy(g, h2)
<1> DEFINE n == Len(h)
           o == f.obj
<1>1. n \in Nat /\ PartsFollow(h) /\ o \in 1 .. n
  BY HeapIs, ObjIs
<1>2. \A x \in Elements(f.refs) : x \in o + 1 .. n /\ x \in 1 .. n
  <2>1. \A x \in Elements(f.refs) : x \in o + 1 .. n
    BY <1>1, FrameIs
  <2> QED
    BY <1>1, <2>1
<1>3. o \notin E /\ \A x \in Elements(os) : x \in 1 .. n
  <2>1. o \notin o + 1 .. n
    BY <1>1
  <2> QED
    BY <1>1, <1>2, <2>1
<1>4. Len(h2) = n /\ Kids(h2, o) = Kids(h, o) \cup Elements(os)
      /\ \A x \in 1 .. n : h2[x].type = h[x].type
  BY DEF Transfers
<1>5. ~h2[o].freed
  BY <1>1, <1>3 DEF Transfers, FrameTidy
<1>6. ASSUME NEW y \in 1 .. n, y < o PROVE Kids(h2, y) \subseteq 1 .. o - 1
  <2>1. y # o
    BY <1>1, <1>6
  <2>2. Kids(h2, y) = Kids(h, y)
    BY <2>1 DEF Transfers
  <2> QED
    BY <1>6, <2>2 DEF FrameTidy
<1>7. ASSUME NEW y \in 1 .. n, y # o, NEW r \in Elements(g.refs) PROVE r \notin Kids(h2, y)
  <2>1. Kids(h2, y) = Kids(h, y)
    BY <1>7 DEF Transfers
  <2> QED
    BY <1>7, <2>1 DEF FrameTidy
<1>8. ASSUME NEW x \in Pending(g) PROVE ~h2[x].freed
  <2>1. ~h[x].freed /\ x \notin E /\ x \in 1 .. n
    BY <1>2 DEF FrameTidy
  <2> QED
    BY <2>1 DEF Transfers
<1>9. ASSUME h2[o].type = "map", NEW x \in Elements(g.refs) PROVE ~h2[x].freed
  <2>1. h[o].type = "map"
    BY <1>1, <1>4, <1>9
  <2>2. ~h[x].freed /\ x \notin E /\ x \in 1 .. n
    BY <1>2, <2>1 DEF FrameTidy
  <2> QED
    BY <2>2 DEF Transfers
<1>10. ASSUME NEW x \in Kids(h2, o), x \in Pending(g) PROVE h2[x].type # "ref"
  <2>1. x \in 1 .. n
    BY <1>2, <1>10
  <2>2. h[x].type # "ref"
    <3>1. CASE x \in Kids(h, o)
      BY <1>10, <3>1 DEF FrameTidy
    <3>2. CASE x \in Elements(os)
      BY <1>10, <3>2
    <3> QED
      BY <1>4, <3>1, <3>2
  <2> QED
    BY <1>4, <2>1, <2>2
<1>11. ASSUME h2[o].type = "list", NEW x \in Kids(h2, o) PROVE h2[x].type # "ref"
  <2>1. h[o].type = "list"
    BY <1>1, <1>4, <1>11
  <2>2. x \in 1 .. n /\ h[x].type # "ref"
    <3>1. CASE x \in Kids(h, o)
      BY <1>1, <2>1, <3>1, KidsFollow DEF FrameTidy
    <3>2. CASE x \in Elements(os)
      BY <1>3, <2>1, <3>2
    <3> QED
      BY <1>4, <3>1, <3>2
  <2> QED
    BY <1>4, <2>2
<1> HIDE DEF o
<1>12. g.obj = o
  BY DEF o
<1> QED
  BY <1>4, <1>5, <1>6, <1>7, <1>8, <1>9, <1>10, <1>11, <1>12 DEF FrameTidy

\* the innermost container takes parts, and the rest stays as it was
LEMMA MoveTidy ==
  ASSUME DInv, misuse = "none", mode = "reading", mode' = mode, TidyReading, frames # <<>>,
         NEW os, NEW E, Transfers(heap', heap, Top.obj, os, E),
         \A x \in Elements(os) : x \in Top.obj + 1 .. Len(heap) /\ x \notin E /\ ~heap[x].freed,
         \A e \in E : e \in Elements(Top.refs) /\ e \notin Kids(heap, Top.obj),
         NEW g, FrameTidy(g, heap'), g.obj = Top.obj, Elements(g.refs) \subseteq Elements(Top.refs),
         frames' = [frames EXCEPT ![Len(frames)] = g]
  PROVE  TInv'
<1> DEFINE n == Len(heap)
           o == Top.obj
<1>1. IsHeap(heap) /\ n \in Nat /\ IsStack(frames, n)
  BY ReadingIs
<1>2. /\ IsFrame(Top, n) /\ o \in 1 .. n /\ IsStack(Rest, n)
      /\ \A x \in Elements(Top.refs) : x \in o + 1 .. n
  BY InnermostIs
<1>3. /\ FrameTidy(Top, heap) /\ Tidy(Rest, heap, n + 1)
      /\ \A k \in 1 .. Len(Rest) : Precedes(Rest[k], o)
  BY <1>1, TidyParts DEF TidyReading, Top, Rest
<1>4. Alive(heap', n + 1)
  <2>1. Alive(heap, n + 1)
    BY DEF TidyReading
  <2> HIDE DEF Top
  <2> QED
    BY <1>1, <1>2, <1>3, <2>1, AliveMoves
<1>5. IsHeap(heap') /\ Len(heap') = n
  BY DEF Transfers
<1>6. AsBefore(heap', heap, o)
  <2>1. \A x \in 1 .. n : x < o => x # o /\ x \notin E
    BY <1>2
  <2> QED
    BY <2>1 DEF AsBefore, Transfers
<1>7. Tidy(Rest, heap', n + 1)
  <2>1. o \in 1 .. n + 1 /\ n <= Len(heap')
    BY <1>1, <1>2, <1>5
  <2>2. Tidy(Rest, heap', o)
    <3> HIDE DEF Rest, Top
    <3> QED
      BY <1>1, <1>2, <1>3, <1>5, <1>6, <2>1, TidyStays
  <2>3. \A k \in 1 .. Len(Rest) : Precedes(Rest[k], n + 1)
    BY <1>3 DEF Tidy
  <2> QED
    BY <2>2, <2>3 DEF Tidy
<1>8. Tidy(frames', heap', n + 1)
  BY <1>5, <1>7, InnermostTidy DEF TidyReading
<1> QED
  BY <1>4, <1>5, <1>8, StillTidy DEF TidyReading

LEMMA PendingIs ==
  ASSUME NEW n \in Nat, NEW f, IsFrame(f, n)
  PROVE  Pending(f) \subseteq Elements(f.refs)
<1>1. /\ Len(f.refs) \in Nat /\ \A k \in 1 .. Len(f.refs) : f.refs[k] \in Elements(f.refs)
  BY FrameIs
<1>2. f.done \in Nat
  BY DEF IsFrame
<1>3. \A k \in f.done + 1 .. Len(f.refs) : k \in 1 .. Len(f.refs)
  BY <1>1, <1>2
<1> QED
  BY <1>1, <1>3 DEF Pending

LEMMA OneElement ==
  ASSUME NEW x
  PROVE  Elements(<<x>>) = {x}
<1>1. DOMAIN <<x>> = {1} /\ <<x>>[1] = x
  OBVIOUS
<1> QED
  BY <1>1 DEF Elements

LEMMA TwoElements ==
  ASSUME NEW x, NEW y
  PROVE  Elements(<<x, y>>) = {x, y}
<1>1. DOMAIN <<x, y>> = {1, 2} /\ <<x, y>>[1] = x /\ <<x, y>>[2] = y
  OBVIOUS
<1> QED
  BY <1>1 DEF Elements

LEMMA MoveElementTidy ==
  ASSUME DInv, TInv, misuse = "none", ~short, ~loose, ~loose', MoveElement
  PROVE  TInv'
<1> DEFINE n == Len(heap)
           g == Onward(Top)
           target == Top.refs[ListTarget]
           v == IF IsRef(Element) THEN target ELSE Element
           E == IF IsRef(Element) THEN {Element} ELSE {}
           d == Top.done
<1>1. /\ MovesMore("list") /\ mode' = mode /\ SoundElement
      /\ frames' = [frames EXCEPT ![Len(frames)].done = @ + 1]
      /\ \/ ~IsRef(Element) /\ heap' = Moved(heap, <<Element>>)
         \/ /\ IsRef(Element) /\ ListTarget \in DOMAIN Top.refs
            /\ heap' = Moved(Released(Element), <<target>>)
  BY DEF MoveElement, MeetsReference
<1>2. /\ mode = "reading" /\ frames # <<>> /\ Top.step = "moving" /\ TypeOfTop = "list"
      /\ d \in Nat /\ d + 1 \in 1 .. Len(Top.refs)
      /\ Element \in Elements(Top.refs)
      /\ ListTarget \in DOMAIN Top.refs => target \in Elements(Top.refs)
  BY <1>1, ElementIs
<1>3. IsHeap(heap) /\ n \in Nat /\ IsStack(frames, n) /\ OnlyRefsFreed(heap) /\ TidyReading
  BY <1>2, ReadingIs, ReadingTidy
<1>4. /\ IsFrame(Top, n) /\ Top.obj \in 1 .. n /\ Len(frames) \in 1 .. Len(frames)
      /\ Elements(Top.refs) \subseteq 1 .. n
      /\ \A x \in Elements(Top.refs) : x \in Top.obj + 1 .. n
      /\ Len(Top.refs) \in Nat
  BY <1>2, InnermostIs
<1>5. FrameTidy(Top, heap)
  BY <1>2, <1>3, TidyParts DEF TidyReading, Top
<1>6. heap[Top.obj].type = "list" /\ heap[Top.obj].type # "ref" /\ heap[Top.obj].type # "map"
  BY <1>2 DEF TypeOfTop
<1>7. v \in Elements(Top.refs) /\ heap[v].type # "ref" /\ v \notin E
  BY <1>1, <1>2 DEF SoundElement, IsRef
<1>8. v \in Top.obj + 1 .. n /\ ~heap[v].freed
  BY <1>3, <1>4, <1>7 DEF OnlyRefsFreed
<1>9. Transfers(heap', heap, Top.obj, <<v>>, E)
  <2>1. <<v>> \in Seq(Top.obj + 1 .. n)
    BY <1>8, SomeParts
  <2>2. CASE ~IsRef(Element)
    <3>1. heap' = [heap EXCEPT ![Top.obj].parts = @ \o <<v>>]
      BY <1>1, <2>2 DEF Moved
    <3> HIDE DEF v
    <3> QED
      BY <1>3, <1>4, <1>6, <2>1, <2>2, <3>1, PartsTransfer
  <2>3. CASE IsRef(Element)
    <3>1. /\ heap' = [Released(Element) EXCEPT ![Top.obj].parts = @ \o <<v>>]
          /\ Released(Element) = [heap EXCEPT ![Element].freed = TRUE]
      BY <1>1, <2>3 DEF Moved, Released
    <3>2. Element \in 1 .. n
      BY <1>2, <1>4
    <3> HIDE DEF v
    <3> QED
      BY <1>3, <1>4, <1>6, <2>1, <2>3, <3>1, <3>2, ReferenceTransfers
  <2> QED
    BY <2>2, <2>3
<1>10. g.step = Top.step /\ g.obj = Top.obj /\ g.refs = Top.refs /\ g.done = d + 1
  <2>1. IsFrameRecord(Top)
    BY <1>4 DEF IsFrame
  <2> QED
    BY <2>1, DoneChange
<1>11. frames' = [frames EXCEPT ![Len(frames)] = g]
  BY <1>1, <1>4 DEF Onward, Top
<1>12. \A e \in E : e = Element /\ heap[e].type = "ref"
  BY DEF IsRef
<1>13. \A x \in Elements(<<v>>) : x = v
  BY OneElement
<1> HIDE DEF g, target, v, E
<1>14. \A e \in E : e \in Elements(Top.refs) /\ e \notin Kids(heap, Top.obj)
  BY <1>2, <1>5, <1>6, <1>12 DEF FrameTidy
<1>15. Pending(g) \subseteq Pending(Top) /\ Pending(Top) \subseteq Elements(Top.refs)
  <2>1. \A k \in d + 1 + 1 .. Len(Top.refs) : k \in d + 1 .. Len(Top.refs)
    BY <1>2, <1>4
  <2>2. Pending(g) \subseteq Pending(Top)
    BY <1>10, <2>1 DEF Pending
  <2> QED
    BY <1>3, <1>4, <2>2, PendingIs
<1>16. Element \notin Pending(g)
  <2>1. ASSUME NEW k \in d + 1 + 1 .. Len(Top.refs) PROVE Element < Top.refs[k]
    <3>1. d + 1 \in d + 1 .. Len(Top.refs) /\ k \in d + 1 .. Len(Top.refs) /\ d + 1 < k
      BY <1>2, <1>4
    <3> QED
      BY <1>5, <3>1 DEF FrameTidy, Element
  <2>2. Element \in Nat
    BY <1>2, <1>4
  <2>3. \A k \in d + 1 + 1 .. Len(Top.refs) : Element # Top.refs[k]
    BY <2>1, <2>2
  <2> QED
    BY <1>10, <2>3 DEF Pending
<1>17. \A j, k \in g.done + 1 .. Len(g.refs) : j < k => g.refs[j] < g.refs[k]
  <2>1. \A k \in d + 1 + 1 .. Len(Top.refs) : k \in d + 1 .. Len(Top.refs)
    BY <1>2, <1>4
  <2> QED
    BY <1>5, <1>10, <2>1 DEF FrameTidy
<1>18. FrameTidy(g, heap')
  <2>1. \A x \in Elements(<<v>>) : x \in Top.obj + 1 .. n /\ x \notin E /\ ~heap[x].freed
    BY <1>7, <1>8, <1>13
  <2>2. \A x \in Pending(g) : x \notin E /\ (x \in Elements(<<v>>) => heap[x].type # "ref")
    BY <1>7, <1>12, <1>13, <1>16
  <2>3. \A x \in Elements(<<v>>) : heap[x].type # "ref"
    BY <1>7, <1>13
  <2>4. Elements(g.refs) \subseteq Elements(Top.refs) /\ g.step = "moving"
        /\ Pending(g) \subseteq Elements(Top.refs)
    BY <1>2, <1>10, <1>15
  <2> HIDE DEF Top
  <2> QED
    BY <1>3, <1>4, <1>5, <1>6, <1>9, <1>10, <1>14, <1>15, <1>17, <2>1, <2>2, <2>3, <2>4, FrameMoves
<1>19. \A x \in Elements(<<v>>) : x \in Top.obj + 1 .. n /\ x \notin E /\ ~heap[x].freed
  BY <1>7, <1>8, <1>13
<1>20. g.obj = Top.obj /\ Elements(g.refs) \subseteq Elements(Top.refs)
  BY <1>10
<1> QED
  BY <1>1, <1>2, <1>3, <1>9, <1>11, <1>14, <1>18, <1>19, <1>20, MoveTidy

LEMMA MovePairTidy ==
  ASSUME DInv, TInv, misuse = "none", ~short, ~loose, ~loose', MovePair
  PROVE  TInv'
<1> DEFINE n == Len(heap)
           o == Top.obj
           target == Top.refs[MapTarget]
           v == IF NamesPair THEN target ELSE PairValue
           E == IF NamesPair THEN {PairValue} ELSE {}
           d == Top.done
           k == d + 2
           g == Paired(Top, k, v)
           os == <<PairKey, v>>
<1>1. /\ MovesMore("map") /\ mode' = mode /\ SoundPair
      /\ frames' = [frames EXCEPT ![Len(frames)].done = @ + 2, ![Len(frames)].refs[k] = v]
      /\ heap' = Moved(IF NamesPair THEN Released(PairValue) ELSE heap, os)
  BY DEF MovePair, MeetsReference
<1>2. /\ mode = "reading" /\ frames # <<>> /\ Top.step = "moving" /\ TypeOfTop = "map"
      /\ Moving(Top, heap)
      /\ d \in Nat /\ d + 1 \in 1 .. Len(Top.refs) /\ k \in 1 .. Len(Top.refs)
      /\ PairKey \in Elements(Top.refs) /\ PairValue \in Elements(Top.refs)
      /\ v \in Elements(Top.refs)
  BY <1>1, PairIs
<1>3. IsHeap(heap) /\ n \in Nat /\ IsStack(frames, n) /\ OnlyRefsFreed(heap) /\ TidyReading
  BY <1>2, ReadingIs, ReadingTidy
<1>4. /\ IsFrame(Top, n) /\ o \in 1 .. n /\ Len(frames) \in 1 .. Len(frames)
      /\ Elements(Top.refs) \subseteq 1 .. n
      /\ \A x \in Elements(Top.refs) : x \in o + 1 .. n
      /\ Len(Top.refs) \in Nat
  BY <1>2, InnermostIs
<1>5. FrameTidy(Top, heap)
  BY <1>2, <1>3, TidyParts DEF TidyReading, Top
<1>6. heap[o].type = "map" /\ heap[o].type # "ref" /\ heap[o].type # "list"
  BY <1>2 DEF TypeOfTop
<1>7. Top.refs[k] = PairValue /\ Top.refs[d + 1] = PairKey
  BY DEF PairValue, PairKey
<1>8. \A x \in Elements(Top.refs) : ~heap[x].freed
  BY <1>5, <1>6 DEF FrameTidy
<1>m. /\ d + 1 \in d + 1 .. Len(Top.refs) /\ k \in d + 1 .. Len(Top.refs) /\ d + 1 < k
      /\ \A j \in k + 1 .. Len(Top.refs) : /\ j \in d + 1 .. Len(Top.refs) /\ j \in 1 .. Len(Top.refs)
                                           /\ j # k /\ d + 1 < j /\ k < j
  <2> DEFINE m == Len(Top.refs)
  <2>1. d \in Nat /\ m \in Nat /\ k = d + 2 /\ k \in 1 .. m
    BY <1>2, <1>4
  <2> HIDE DEF d, k, m
  <2>2. /\ d + 1 \in d + 1 .. m /\ k \in d + 1 .. m /\ d + 1 < k
        /\ \A j \in k + 1 .. m : j \in d + 1 .. m /\ j \in 1 .. m /\ j # k /\ d + 1 < j /\ k < j
    BY <2>1
  <2> QED
    BY <2>2, Zenon DEF m
<1>9. PairKey < PairValue /\ PairKey \in Pending(Top) /\ PairValue \in Pending(Top)
  <2>1. d + 1 \in d + 1 .. Len(Top.refs) /\ k \in d + 1 .. Len(Top.refs) /\ d + 1 < k
    BY <1>m, Zenon
  <2> QED
    BY <1>5, <1>7, <2>1 DEF FrameTidy, Pending
<1>10. NamesPair => heap[PairValue].type = "ref" /\ PairValue \notin Kids(heap, o)
  <2> SUFFICES ASSUME NamesPair PROVE heap[PairValue].type = "ref" /\ PairValue \notin Kids(heap, o)
    OBVIOUS
  <2>1. heap[PairValue].type = "ref"
    BY DEF NamesPair, IsRef
  <2> QED
    BY <1>5, <1>9, <2>1 DEF FrameTidy
\* a value that is named is a part already, or no reference
<1>11. NamesPair => target # PairValue /\ (target \in Kids(heap, o) \/ heap[target].type # "ref")
  <2> SUFFICES ASSUME NamesPair
               PROVE  target # PairValue /\ (target \in Kids(heap, o) \/ heap[target].type # "ref")
    OBVIOUS
  <2>1. CASE heap[target].type # "ref"
    BY <1>10, <2>1
  <2>2. CASE heap[target].type = "ref"
    <3>1. MapTarget <= d
      BY <1>1, <2>2 DEF SoundPair, IsRef
    <3>2. MapTarget \in 1 .. d
      <4>1. MapTarget \in 1 .. Len(Top.refs)
        BY <1>4, TargetInside DEF NamesPair, MapTarget
      <4> QED
        BY <1>2, <3>1, <4>1
    <3>3. target \in Kids(heap, o)
      <4>1. heap[target].freed \/ target \in Kids(heap, o)
        BY <1>2, <3>2 DEF Moving
      <4> QED
        BY <1>2, <1>8, <4>1
    <3> QED
      BY <1>10, <3>3
  <2> QED
    BY <2>1, <2>2
<1>12. Transfers(heap', heap, o, os, E)
  <2>1. os \in Seq(o + 1 .. n)
    <3> HIDE DEF v
    <3> QED
      BY <1>2, <1>4, SomeParts
  <2> HIDE DEF os
  <2>2. CASE ~NamesPair
    <3>1. heap' = [heap EXCEPT ![o].parts = @ \o os]
      BY <1>1, <2>2 DEF Moved
    <3> HIDE DEF o
    <3> QED
      BY <1>3, <1>4, <1>6, <2>1, <2>2, <3>1, PartsTransfer
  <2>3. CASE NamesPair
    <3>1. /\ heap' = [Released(PairValue) EXCEPT ![o].parts = @ \o os]
          /\ Released(PairValue) = [heap EXCEPT ![PairValue].freed = TRUE]
      BY <1>1, <2>3 DEF Moved, Released
    <3>2. PairValue \in 1 .. n
      BY <1>2, <1>4
    <3> HIDE DEF o
    <3> QED
      BY <1>3, <1>4, <1>6, <2>1, <2>3, <3>1, <3>2, ReferenceTransfers
  <2> QED
    BY <2>2, <2>3
<1>13. g.done = k /\ g.refs = Replaced(Top.refs, k, v) /\ g.obj = o /\ g.step = Top.step
  <2>1. IsFrameRecord(Top)
    BY <1>4 DEF IsFrame
  <2> HIDE DEF v
  <2> QED
    BY <2>1, PairChange
<1>14. frames' = [frames EXCEPT ![Len(frames)] = g]
  BY <1>1, <1>4 DEF Paired, Top
<1>15. \A e \in E : e = PairValue /\ heap[e].type = "ref" /\ e \notin Kids(heap, o)
  BY <1>10
<1>16. \A x \in Elements(os) : x = PairKey \/ x = v
  BY TwoElements
<1>17. v \notin E /\ PairKey \notin E
  <2>1. PairKey # PairValue
    <3>1. PairKey \in Nat /\ PairValue \in Nat
      BY <1>2, <1>4
    <3> QED
      BY <1>9, <3>1
  <2> QED
    BY <1>11, <2>1
<1>a. (v = PairValue /\ ~NamesPair) \/ (v = target /\ NamesPair)
  OBVIOUS
<1>b. E = {} \/ NamesPair
  OBVIOUS
<1> HIDE DEF g, v, os, E, target
<1>18. /\ Len(g.refs) = Len(Top.refs) /\ g.refs[k] = v
       /\ \A j \in 1 .. Len(Top.refs) : j # k => g.refs[j] = Top.refs[j]
       /\ DOMAIN g.refs = 1 .. Len(Top.refs)
  <2> DEFINE A == o + 1 .. n
             s == Top.refs
  <2>1. s \in Seq(A) /\ k \in 1 .. Len(s) /\ v \in A
    BY <1>2, <1>4 DEF IsFrame
  <2> HIDE DEF A
  <2>2. Replaced(s, k, v) \in Seq(A) /\ HasInstead(Replaced(s, k, v), s, k, v)
    <3> HIDE DEF s, k
    <3> QED
      BY <2>1, ElementReplaced
  <2> QED
    BY <1>13, <2>2, LengthIs DEF HasInstead
<1>19. Elements(g.refs) \subseteq Elements(Top.refs)
  <2> SUFFICES ASSUME NEW j \in 1 .. Len(Top.refs) PROVE g.refs[j] \in Elements(Top.refs)
    BY <1>18 DEF Elements
  <2>1. \A i \in 1 .. Len(Top.refs) : Top.refs[i] \in Elements(Top.refs)
    BY <1>2, InnermostIs
  <2> QED
    BY <1>2, <1>18, <2>1
\* the parts that have yet to be moved are the same and follow this pair
<1>20. \A j \in k + 1 .. Len(Top.refs) : /\ j \in d + 1 .. Len(Top.refs) /\ j \in 1 .. Len(Top.refs) /\ j # k
                                        /\ g.refs[j] = Top.refs[j] /\ Top.refs[j] \in Pending(Top)
  <2>1. \A j \in k + 1 .. Len(Top.refs) : j \in d + 1 .. Len(Top.refs) /\ j \in 1 .. Len(Top.refs) /\ j # k
    BY <1>m, Zenon
  <2> QED
    BY <1>18, <2>1 DEF Pending
<1>21. Pending(g) \subseteq Pending(Top) /\ Pending(Top) \subseteq Elements(Top.refs)
  <2>1. Pending(g) = {g.refs[j] : j \in k + 1 .. Len(Top.refs)}
    BY <1>13, <1>18 DEF Pending
  <2> QED
    BY <1>3, <1>4, <1>20, <2>1, PendingIs
<1>22. PairKey \notin Pending(g) /\ PairValue \notin Pending(g)
  <2>1. ASSUME NEW j \in k + 1 .. Len(Top.refs) PROVE PairKey < g.refs[j] /\ PairValue < g.refs[j]
    <3>1. /\ d + 1 \in d + 1 .. Len(Top.refs) /\ k \in d + 1 .. Len(Top.refs)
          /\ d + 1 < j /\ k < j /\ j \in d + 1 .. Len(Top.refs)
      BY <1>m, Zenon
    <3>2. Top.refs[d + 1] < Top.refs[j] /\ Top.refs[k] < Top.refs[j]
      BY <1>5, <3>1 DEF FrameTidy
    <3> QED
      BY <1>7, <1>20, <3>2
  <2>2. PairKey \in Nat /\ PairValue \in Nat
    BY <1>2, <1>4
  <2>3. \A j \in k + 1 .. Len(Top.refs) : PairKey # g.refs[j] /\ PairValue # g.refs[j]
    BY <2>1, <2>2
  <2> QED
    BY <1>13, <1>18, <2>3 DEF Pending
<1>23. \A i, j \in g.done + 1 .. Len(g.refs) : i < j => g.refs[i] < g.refs[j]
  <2>1. g.done = k /\ Len(g.refs) = Len(Top.refs)
    BY <1>13, <1>18
  <2>2. \A i, j \in d + 1 .. Len(Top.refs) : i < j => Top.refs[i] < Top.refs[j]
    BY <1>5 DEF FrameTidy
  <2> QED
    BY <1>20, <2>1, <2>2
<1>24. \A x \in Elements(os) : x \in o + 1 .. n /\ x \notin E /\ ~heap[x].freed
  BY <1>2, <1>4, <1>8, <1>16, <1>17
<1>25. \A e \in E : e \in Elements(Top.refs) /\ e \notin Kids(heap, o)
  BY <1>2, <1>15
<1>26. \A x \in Pending(g) : x \notin E /\ (x \in Elements(os) => heap[x].type # "ref")
  <2> SUFFICES ASSUME NEW x \in Pending(g) PROVE x \notin E /\ (x \in Elements(os) => heap[x].type # "ref")
    OBVIOUS
  <2>1. x \notin E
    BY <1>15, <1>22
  <2>2. ASSUME x \in Elements(os) PROVE heap[x].type # "ref"
    <3>1. x = v /\ x = target /\ NamesPair
      BY <1>16, <1>22, <1>a, <2>2
    <3>2. x \in Pending(Top)
      BY <1>21
    <3> QED
      BY <1>5, <1>11, <3>1, <3>2 DEF FrameTidy
  <2> QED
    BY <2>1, <2>2
<1>27. \A x \in Elements(g.refs) : x \notin E
  <2> SUFFICES ASSUME NEW j \in 1 .. Len(Top.refs), NamesPair PROVE g.refs[j] # PairValue
    BY <1>15, <1>18, <1>b DEF Elements
  <2>1. CASE j = k
    BY <1>11, <1>18, <1>a, <2>1
  <2>2. CASE j # k
    <3>1. CASE j \in 1 .. d
      <4>1. Top.refs[j] \in Elements(Top.refs)
        BY <1>2, InnermostIs
      <4>2. Top.refs[j] \in Kids(heap, o)
        BY <1>2, <1>8, <3>1, <4>1 DEF Moving
      <4> QED
        BY <1>10, <1>18, <2>2, <4>2
    <3>2. CASE j = d + 1
      <4>1. g.refs[j] = PairKey
        BY <1>7, <1>18, <2>2, <3>2
      <4>2. PairKey # PairValue
        <5>1. PairKey \in Nat /\ PairValue \in Nat
          BY <1>2, <1>4
        <5> QED
          BY <1>9, <5>1
      <4> QED
        BY <4>1, <4>2
    <3>3. CASE j \in k + 1 .. Len(Top.refs)
      <4>1. g.done = k /\ Len(g.refs) = Len(Top.refs)
        BY <1>13, <1>18
      <4>2. g.refs[j] \in Pending(g)
        BY <3>3, <4>1 DEF Pending
      <4> QED
        BY <1>22, <4>2
    <3>4. j \in 1 .. d \/ j = d + 1 \/ j \in k + 1 .. Len(Top.refs)
      <4> DEFINE m == Len(Top.refs)
      <4>1. m \in Nat /\ d \in Nat /\ k = d + 2 /\ j \in 1 .. m /\ j # k
        BY <1>2, <1>4, <2>2
      <4> HIDE DEF m, d, k
      <4>2. j \in 1 .. d \/ j = d + 1 \/ j \in k + 1 .. m
        BY <4>1
      <4> QED
        BY <4>2 DEF m
    <3> HIDE DEF d, k
    <3> QED
      BY <3>1, <3>2, <3>3, <3>4, Zenon
  <2> QED
    BY <2>1, <2>2
<1>28. FrameTidy(g, heap')
  <2>1. g.step = "moving" /\ Pending(g) \subseteq Elements(Top.refs)
    BY <1>2, <1>13, <1>21
  <2> HIDE DEF Top
  <2> QED
    BY <1>3, <1>4, <1>5, <1>6, <1>12, <1>13, <1>19, <1>21, <1>23, <1>24, <1>25, <1>26, <1>27, <2>1, FrameMoves
<1> QED
  BY <1>1, <1>2, <1>3, <1>12, <1>13, <1>14, <1>19, <1>24, <1>25, <1>28, MoveTidy

-----------------------------------------------------------------------------
(* What is deleted was not freed.                                          *)

\* nothing below a part that was not freed was freed
LEMMA WholeBelow ==
  ASSUME NEW h, IsHeap(h), NEW b \in 1 .. Len(h) + 1, Alive(h, b),
         NEW S \in SUBSET (1 .. b - 1), \A x \in S : ~h[x].freed
  PROVE  \A x \in AllBelow(h, S) : ~h[x].freed
<1> DEFINE T == {x \in 1 .. b - 1 : ~h[x].freed}
<1>1. Len(h) \in Nat /\ PartsFollow(h)
  BY HeapIs
<1>2. T \in SUBSET (1 .. Len(h)) /\ S \in SUBSET (1 .. Len(h)) /\ S \subseteq T
  BY <1>1
<1>3. HoldsKids(h, T)
  BY DEF HoldsKids, Alive
<1>4. AllBelow(h, S) \subseteq T
  <2> HIDE DEF T
  <2> QED
    BY <1>1, <1>2, <1>3, AllBelowIsLeast
<1> QED
  BY <1>4

LEMMA NotTwice ==
  ASSUME NEW h, NEW S, \A x \in AllBelow(h, S) : ~h[x].freed, Frees(h, S), misuse = "none"
  PROVE  misuse' = "none"
BY DEF Frees

\* the objects before one that is being read hold nothing that follows it
LEMMA AliveBefore ==
  ASSUME NEW h, IsHeap(h), NEW b \in 1 .. Len(h) + 1, Alive(h, b),
         NEW f, IsFrame(f, Len(h)), FrameTidy(f, h), f.obj < b
  PROVE  Alive(h, f.obj)
<1>1. Len(h) \in Nat /\ f.obj \in 1 .. Len(h)
  BY HeapIs, ObjIs
<1>2. \A x \in 1 .. f.obj - 1 : x \in 1 .. b - 1 /\ x \in 1 .. Len(h) /\ x < f.obj
  BY <1>1
<1> QED
  BY <1>2 DEF Alive, FrameTidy

LEMMA UnwindTidy ==
  ASSUME DInv, TInv, misuse = "none", ~short, ~loose, Unwind
  PROVE  misuse' = "none" /\ TInv'
<1> DEFINE n == Len(heap)
           o == Top.obj
           P == Elements(Top.refs)
           F == AllBelow(heap, P)
<1>1. mode = "failing" /\ mode' = mode /\ frames # <<>> /\ frames' = Rest /\ Frees(heap, P)
  BY PartsIs DEF Unwind
<1>2. PICK b \in 1 .. n + 1 : Alive(heap, b) /\ Tidy(frames, heap, b)
  BY <1>1 DEF TInv
<1>3. \A k \in 1 .. Len(frames) : frames[k].step # "moving"
  BY <1>1 DEF TInv
<1>4. IsHeap(heap) /\ n \in Nat /\ IsStack(frames, n) /\ PartsFollow(heap)
  BY <1>1, ReadingIs, HeapIs
<1>5. /\ IsFrame(Top, n) /\ o \in 1 .. n /\ IsStack(Rest, n) /\ Len(frames) \in 1 .. Len(frames)
      /\ \A x \in P : x \in o + 1 .. n
      /\ P \subseteq 1 .. n
      /\ DOMAIN Top.refs = 1 .. Len(Top.refs)
  BY <1>1, InnermostIs
<1>6. /\ FrameTidy(Top, heap) /\ Precedes(Top, b) /\ Tidy(Rest, heap, b)
      /\ Len(Rest) \in Nat /\ Len(frames) = Len(Rest) + 1
      /\ \A k \in 1 .. Len(Rest) : frames[k] = Rest[k]
      /\ \A k \in 1 .. Len(Rest) : Precedes(Rest[k], o)
  BY <1>1, <1>2, <1>4, TidyParts DEF Top, Rest
\* the parts of the innermost have all yet to be moved
<1>7. \A x \in P : ~heap[x].freed
  <2>1. Top.step # "moving"
    BY <1>3, <1>5 DEF Top
  <2>2. Top.done = 0 \/ P = {}
    <3>1. Top.step = "parts" => Top.done = 0
      BY <1>5 DEF IsFrame
    <3>2. Top.step \in {"chunks", "end"} => Top.refs = <<>>
      BY <1>5 DEF IsFrame
    <3>3. Top.refs = <<>> => P = {}
      BY DEF Elements
    <3>4. Top.step \in {"parts", "chunks", "end", "moving"}
      BY <1>5 DEF IsFrame
    <3> QED
      BY <2>1, <3>1, <3>2, <3>3, <3>4
  <2>3. Top.done = 0 => Pending(Top) = P
    BY <1>5 DEF Pending, Elements
  <2> QED
    BY <1>6, <2>2, <2>3 DEF FrameTidy
<1>8. misuse' = "none"
  <2>1. P \in SUBSET (1 .. b - 1)
    <3>1. \A x \in P : x \in 1 .. n /\ x < b
      BY <1>5, <1>6 DEF Precedes
    <3> QED
      BY <1>2, <1>4, <3>1
  <2>2. \A x \in F : ~heap[x].freed
    BY <1>2, <1>4, <1>7, <2>1, WholeBelow
  <2> HIDE DEF P
  <2> QED
    BY <1>1, <2>2, NotTwice
<1>9. heap' = Without(heap, F)
  BY <1>1, <1>4, <1>8, FreesIs
<1>10. Freed(heap', heap, F)
  BY <1>4, <1>9, WithoutIs
<1>11. /\ IsHeap(heap') /\ Len(heap') = n
       /\ \A x \in 1 .. n : heap'[x].type = heap[x].type /\ Kids(heap', x) = Kids(heap, x)
       /\ \A x \in 1 .. n : heap'[x].freed <=> (heap[x].freed \/ x \in F)
  BY <1>10 DEF Freed, Extends
<1>12. F \subseteq o + 1 .. n
  <2> DEFINE S == o + 1 .. n
  <2>1. HoldsKids(heap, S)
    <3> SUFFICES ASSUME NEW x \in S, NEW y \in Kids(heap, x) PROVE y \in S
      BY DEF HoldsKids
    <3>1. x \in 1 .. n
      BY <1>5
    <3>2. y \in 1 .. n /\ x < y
      BY <1>4, <3>1, KidsFollow
    <3> QED
      BY <1>5, <3>2
  <2>2. S \in SUBSET (1 .. n) /\ P \subseteq S
    BY <1>5
  <2> HIDE DEF S, P
  <2>3. F \subseteq S
    BY <1>4, <1>5, <2>1, <2>2, AllBelowIsLeast
  <2> QED
    BY <2>3 DEF S
<1>13. AsBefore(heap', heap, o)
  <2>1. \A x \in 1 .. n : x < o => x \notin F
    BY <1>5, <1>12
  <2>2. \A x \in 1 .. n : heap'[x].freed \in BOOLEAN /\ heap[x].freed \in BOOLEAN
    BY <1>4, <1>11 DEF IsHeap, IsObject
  <2>3. \A x \in 1 .. n : x < o => heap'[x].freed = heap[x].freed
    BY <1>11, <2>1, <2>2
  <2> QED
    BY <1>11, <2>3 DEF AsBefore
<1>14. Alive(heap', o)
  <2>1. o \in 1 .. n + 1
    BY <1>4, <1>5
  <2>2. Alive(heap, o)
    BY <1>2, <1>4, <1>5, <1>6, AliveBefore DEF Precedes
  <2> QED
    BY <1>4, <1>13, <2>1, <2>2, AliveStays
<1>15. Tidy(frames', heap', o)
  <2>1. o \in 1 .. n + 1 /\ n <= Len(heap')
    BY <1>4, <1>5, <1>11
  <2> HIDE DEF Rest, Top
  <2> QED
    BY <1>1, <1>4, <1>5, <1>6, <1>11, <1>13, <2>1, TidyStays
<1>16. \A k \in 1 .. Len(frames') : frames'[k].step # "moving"
  <2>1. \A k \in 1 .. Len(Rest) : k \in 1 .. Len(frames)
    BY <1>6
  <2> QED
    BY <1>1, <1>3, <1>6, <2>1
<1>17. o \in 1 .. Len(heap') + 1
  BY <1>4, <1>5, <1>11
<1> QED
  BY <1>1, <1>8, <1>14, <1>15, <1>16, <1>17 DEF TInv

LEMMA DeleteResultTidy ==
  ASSUME DInv, TInv, misuse = "none", ~short, ~loose, DeleteResult
  PROVE  misuse' = "none"
<1>1. mode = "done" /\ Frees(heap, {result})
  BY DEF DeleteResult
<1>2. IsHeap(heap) /\ result \in 1 .. Len(heap)
  BY <1>1 DEF DInv, Sound
<1>3. Alive(heap, Len(heap) + 1) /\ ~heap[result].freed
  BY <1>1 DEF TInv
<1>4. Len(heap) + 1 \in 1 .. Len(heap) + 1 /\ {result} \in SUBSET (1 .. Len(heap) + 1 - 1)
  BY <1>2, HeapIs
<1>5. \A x \in AllBelow(heap, {result}) : ~heap[x].freed
  BY <1>2, <1>3, <1>4, WholeBelow
<1> QED
  BY <1>1, <1>5, NotTwice

-----------------------------------------------------------------------------
(* Every step.                                                             *)

LEMMA DeliverKeeps ==
  ASSUME NEW o, NEW callers, NEW wanting, Deliver(o, callers, wanting)
  PROVE  short => short'
BY DEF Deliver

LEMMA ShortStays ==
  ASSUME DStep
  PROVE  short => short'
<1>1. CASE RefuseTag
  BY <1>1 DEF RefuseTag, NoMemory
<1>2. CASE ReadNull \/ ReadBoolean \/ ReadInteger \/ ReadLong \/ ReadDouble
  <2>1. Deliver(NewId, frames, FALSE)
    BY <1>2 DEF ReadNull, ReadBoolean, ReadInteger, ReadLong, ReadDouble, Leaf
  <2> QED
    BY <2>1, DeliverKeeps
<1>3. CASE ReadRemote
  BY <1>3, DeliverKeeps DEF ReadRemote
<1>4. CASE OpenContainer \/ OpenSpoilt \/ NameFaults
  BY <1>4 DEF OpenContainer, OpenSpoilt, NameFaults
<1>5. CASE OpenText
  BY <1>5 DEF OpenText
<1>6. CASE ChunkFails \/ GrowthFails
  BY <1>6 DEF ChunkFails, GrowthFails, NoMemory
<1>7. CASE ChunkHangs
  BY <1>7 DEF ChunkHangs
<1>8. CASE ReadChunk
  BY <1>8 DEF ReadChunk
<1>9. CASE TextFails
  BY <1>9 DEF TextFails, NoMemory
<1>10. CASE CloseContainer
  BY <1>10 DEF CloseContainer, NoMemory
<1>11. CASE EndOfText
  <2>1. \E wanting : Deliver(Top.obj, Rest, wanting)
    BY <1>11 DEF EndOfText
  <2> QED
    BY <2>1, DeliverKeeps
<1>12. CASE EndOfContainer
  <2>1. \E wanting : Deliver(Top.obj, Rest, wanting)
    BY <1>12 DEF EndOfContainer
  <2> QED
    BY <2>1, DeliverKeeps
<1>13. CASE MoveElement
  BY <1>13 DEF MoveElement
<1>14. CASE MovePair
  BY <1>14 DEF MovePair
<1>15. CASE DanglingElement
  BY <1>15 DEF DanglingElement
<1>16. CASE ElementRefused
  BY <1>16 DEF ElementRefused, NoMemory
<1>17. CASE PairRefused
  BY <1>17 DEF PairRefused, NoMemory
<1>18. CASE Unwind
  BY <1>18 DEF Unwind
<1>19. CASE ReturnNull \/ DeleteResult
  BY <1>19 DEF ReturnNull, DeleteResult
<1> QED
  BY <1>1, <1>2, <1>3, <1>4, <1>5, <1>6, <1>7, <1>8, <1>9, <1>10, <1>11, <1>12, <1>13, <1>14,
     <1>15, <1>16, <1>17, <1>18, <1>19 DEF DStep

LEMMA LooseStays ==
  ASSUME DStep
  PROVE  loose => loose'
<1>1. CASE MoveElement
  BY <1>1 DEF MoveElement, MeetsReference
<1>2. CASE MovePair
  BY <1>2 DEF MovePair, MeetsReference
<1>3. CASE DanglingElement
  BY <1>3 DEF DanglingElement, MeetsReference
<1>4. CASE ElementRefused
  BY <1>4 DEF ElementRefused, MeetsReference
<1>5. CASE PairRefused
  BY <1>5 DEF PairRefused, MeetsReference
<1>6. CASE RefuseTag \/ ReadNull \/ ReadBoolean \/ ReadInteger \/ ReadLong \/ ReadDouble \/ ReadRemote
           \/ OpenContainer \/ OpenSpoilt \/ NameFaults \/ OpenText
  <2>1. loose' = loose
    BY <1>6 DEF RefuseTag, ReadNull, ReadBoolean, ReadInteger, ReadLong, ReadDouble, ReadRemote,
       OpenContainer, OpenSpoilt, OpensContainer, NameFaults, OpenText, Leaf
  <2> QED
    BY <2>1
<1>7. CASE ChunkFails \/ ChunkHangs \/ ReadChunk \/ GrowthFails \/ TextFails \/ CloseContainer
           \/ EndOfText \/ EndOfContainer \/ Unwind \/ ReturnNull \/ DeleteResult
  <2>1. loose' = loose
    BY <1>7 DEF ChunkFails, ChunkHangs, ReadChunk, GrowthFails, TextFails, CloseContainer, EndOfText,
       EndOfContainer, Unwind, ReturnNull, DeleteResult
  <2> QED
    BY <2>1
<1> QED
  BY <1>1, <1>2, <1>3, <1>4, <1>5, <1>6, <1>7 DEF DStep

\* the steps that may stop the program
Deletes == DanglingElement \/ ElementRefused \/ Unwind \/ DeleteResult
UsesNull == ChunkFails \/ NameFaults \/ GrowthFails

LEMMA WhoMisuses ==
  ASSUME DStep
  PROVE  misuse' = misuse \/ UsesNull \/ Deletes
BY DEF DStep, RefuseTag, ReadNull, ReadBoolean, ReadInteger, ReadLong, ReadDouble, ReadRemote, Leaf,
   OpenContainer, OpenSpoilt, OpensContainer, OpenText, ChunkHangs, ReadChunk, TextFails, EndOfText,
   CloseContainer, MoveElement, MovePair, PairRefused, EndOfContainer, ReturnNull, Deletes, UsesNull

LEMMA StepTidy ==
  ASSUME DInv, TInv, DStep
  PROVE  TInv'
<1> SUFFICES ASSUME misuse' = "none", ~short', ~loose' PROVE TInv'
  BY DEF TInv
<1>1. misuse = "none" /\ ~short /\ ~loose
  BY ShortStays, LooseStays DEF DStep
<1>2. CASE RefuseTag \/ ReadNull \/ ReadBoolean \/ ReadInteger \/ ReadLong \/ ReadDouble
           \/ ReadRemote \/ OpenContainer \/ OpenText
  BY <1>1, <1>2, RefuseTagTidy, LeavesTidy, ReadRemoteTidy, OpeningTidy
<1>3. CASE ReadChunk \/ EndOfText \/ CloseContainer \/ EndOfContainer
  BY <1>1, <1>3, ReadChunkTidy, EndOfTextTidy, CloseContainerTidy, EndOfContainerTidy
<1>4. CASE MoveElement \/ MovePair \/ Unwind
  BY <1>1, <1>4, MoveElementTidy, MovePairTidy, UnwindTidy
<1>5. CASE ChunkFails
  BY <1>5 DEF ChunkFails
<1>6. CASE ChunkHangs
  <2>1. mode' = "hung"
    BY <1>6 DEF ChunkHangs
  <2> QED
    BY <2>1 DEF TInv
\* these need memory that is missing, or a reference that is not sound
<1>7. ~(TextFails \/ DanglingElement \/ ElementRefused \/ PairRefused)
  BY DEF TextFails, DanglingElement, ElementRefused, PairRefused, NoMemory, MeetsReference, SoundElement
<1>9. ~(OpenSpoilt \/ NameFaults \/ GrowthFails)
  BY DEF OpenSpoilt, NameFaults, GrowthFails
<1>8. CASE ReturnNull \/ DeleteResult
  <2>1. mode' \in {"failed", "deleted"}
    BY <1>8 DEF ReturnNull, DeleteResult
  <2> QED
    BY <2>1 DEF TInv
<1> QED
  BY <1>2, <1>3, <1>4, <1>5, <1>6, <1>7, <1>8, <1>9 DEF DStep

LEMMA StepStays ==
  ASSUME DStep
  PROVE  mode' # "idle"
<1>1. ASSUME NEW o, NEW callers, NEW wanting, Deliver(o, callers, wanting), mode = "reading"
      PROVE  mode' # "idle"
  BY <1>1 DEF Deliver
<1>2. CASE RefuseTag \/ ReadNull \/ ReadBoolean \/ ReadInteger \/ ReadLong \/ ReadDouble \/ ReadRemote
  BY <1>1, <1>2 DEF RefuseTag, ReadNull, ReadBoolean, ReadInteger, ReadLong, ReadDouble, ReadRemote,
     Leaf, Reads, ReadsTag, NoMemory, Fails
<1>3. CASE OpenContainer \/ OpenText \/ ChunkFails \/ ChunkHangs \/ ReadChunk \/ TextFails \/ EndOfText
           \/ CloseContainer
  BY <1>1, <1>3 DEF OpenContainer, OpensContainer, OpenText, ChunkFails, ChunkHangs, ReadChunk,
     TextFails, EndOfText, CloseContainer, Reads, ReadsTag, ReadsChunk, NoMemory, Fails
<1>5. CASE OpenSpoilt \/ NameFaults \/ GrowthFails
  BY <1>5 DEF OpenSpoilt, OpensContainer, NameFaults, GrowthFails, Reads, ReadsTag, ReadsChunk
<1>4. CASE MoveElement \/ DanglingElement \/ ElementRefused \/ MovePair \/ PairRefused
           \/ EndOfContainer \/ Unwind \/ ReturnNull \/ DeleteResult
  BY <1>1, <1>4 DEF MoveElement, DanglingElement, ElementRefused, MovePair, PairRefused,
     EndOfContainer, Unwind, ReturnNull, DeleteResult, Moves, MovesMore, NoMemory, Fails
<1> QED
  BY <1>2, <1>3, <1>4, <1>5 DEF DStep

\* what is freed twice
LEMMA FreeingTwiceNeedsCause ==
  ASSUME DInv, TInv, DStep, misuse' = "freed twice"
  PROVE  short' \/ loose'
<1>1. misuse = "none"
  BY DEF DStep
<1>2. Deletes
  <2>1. ~UsesNull
    BY <1>1 DEF UsesNull, ChunkFails, NameFaults, GrowthFails
  <2> QED
    BY <1>1, <2>1, WhoMisuses
<1>3. CASE short \/ loose
  BY <1>3, ShortStays, LooseStays
<1>4. CASE ~short /\ ~loose /\ (Unwind \/ DeleteResult)
  BY <1>1, <1>4, UnwindTidy, DeleteResultTidy
<1>5. CASE DanglingElement
  BY <1>5 DEF DanglingElement, MeetsReference, SoundElement
<1>6. CASE ElementRefused
  BY <1>6 DEF ElementRefused, NoMemory, MeetsReference, SoundElement
<1> QED
  BY <1>2, <1>3, <1>4, <1>5, <1>6 DEF Deletes

\* what is used without memory
LEMMA NullTextNeedsCause ==
  ASSUME DStep, misuse' = "null text"
  PROVE  short' \/ LengthAt(pos)' = Huge
<1>1. ~Deletes
  <2>1. misuse = "none"
    BY DEF DStep
  <2> QED
    BY <2>1 DEF Deletes, DanglingElement, ElementRefused, Unwind, DeleteResult, Frees
<1>2. UsesNull
  BY <1>1, WhoMisuses DEF DStep
<1>3. CASE NameFaults \/ GrowthFails
  BY <1>3 DEF NameFaults, GrowthFails
<1>4. CASE ChunkFails
  <2>1. LengthAt(pos)' = LengthAt(pos)
    BY <1>4 DEF ChunkFails, wire, LengthAt
  <2>2. LengthAt(pos) = Huge \/ short'
    BY <1>4 DEF ChunkFails, NoMemory
  <2> QED
    BY <2>1, <2>2
<1> QED
  BY <1>2, <1>3, <1>4 DEF UsesNull

LEMMA StepCaused ==
  ASSUME DInv, TInv, DStep
  PROVE  MisuseNeedsCause'
<1>1. misuse' = "freed twice" => short' \/ loose'
  BY FreeingTwiceNeedsCause
<1>2. misuse' = "null text" => short' \/ LengthAt(pos)' = Huge
  BY NullTextNeedsCause
<1>3. Huge' = Huge
  BY DEF Huge
<1> QED
  BY <1>1, <1>2, <1>3, Zenon DEF MisuseNeedsCause

LEMMA ArrivesCaused == ASSUME CausedInv, Arrives PROVE CausedInv'
<1>1. mode = "idle" /\ mode' = "reading" /\ frames' = <<>> /\ heap' = <<>> /\ misuse' = misuse
  BY DEF Arrives
<1>2. misuse' = "none"
  BY <1>1 DEF CausedInv
<1>3. Len(heap') = 0 /\ Len(frames') = 0 /\ 1 .. 0 = {} /\ 1 .. 0 + 1 - 1 = {}
  BY <1>1
<1>4. TidyReading'
  BY <1>3 DEF TidyReading, Alive, Tidy
<1> QED
  BY <1>1, <1>2, <1>4, StillTidy DEF CausedInv, MisuseNeedsCause

LEMMA ForgetCaused == ASSUME Forget PROVE CausedInv'
<1>1. mode' = "idle" /\ misuse' = "none"
  BY DEF Forget
<1> QED
  BY <1>1 DEF CausedInv, MisuseNeedsCause, TInv

(***************************************************************************)
(* Whatever bytes come: reading and deleting free an object twice only     *)
(* after an allocation has failed or a reference was not sound, and use a  *)
(* text that is NULL only after an allocation has failed or where the      *)
(* input ends inside a length.                                             *)
(***************************************************************************)
THEOREM MisuseHasCause == DSpec => []MisuseNeedsCause
<1>1. DInit => CausedInv
  BY DEF DInit, CausedInv, MisuseNeedsCause, TInv
<1>2. ASSUME DInv, CausedInv, [DNext]_dvars PROVE CausedInv'
  <2>1. CASE Arrives
    BY <1>2, <2>1, ArrivesCaused
  <2>2. CASE DStep
    BY <1>2, <2>2, StepTidy, StepCaused, StepStays DEF CausedInv
  <2>3. CASE Forget
    BY <2>3, ForgetCaused
  <2>4. CASE UNCHANGED dvars
    <3>1. TInv'
      BY <1>2, <2>4 DEF dvars, CausedInv, TInv, TidyReading, Tidy, Alive
    <3>2. LengthAt(pos)' = LengthAt(pos) /\ Huge' = Huge
      BY <2>4 DEF dvars, LengthAt, Huge
    <3>3. misuse' = "freed twice" => short' \/ loose'
      <4>1. misuse = "freed twice" => short \/ loose
        BY <1>2 DEF CausedInv, MisuseNeedsCause
      <4> QED
        BY <2>4, <4>1 DEF dvars
    <3>4. misuse' = "null text" => short' \/ LengthAt(pos)' = Huge'
      <4>1. misuse = "null text" => short \/ LengthAt(pos) = Huge
        BY <1>2 DEF CausedInv, MisuseNeedsCause
      <4> QED
        BY <2>4, <3>2, <4>1 DEF dvars
    <3>5. MisuseNeedsCause'
      BY <3>3, <3>4, Zenon DEF MisuseNeedsCause
    <3>6. mode' = "idle" => misuse' = "none"
      BY <1>2, <2>4 DEF dvars, CausedInv
    <3> QED
      BY <3>1, <3>5, <3>6 DEF CausedInv
  <2> QED
    BY <1>2, <2>1, <2>2, <2>3, <2>4 DEF DNext
<1>3. CausedInv => MisuseNeedsCause
  BY DEF CausedInv
<1> QED
  BY <1>1, <1>2, <1>3, DInvHolds, PTL DEF DSpec

=============================================================================
