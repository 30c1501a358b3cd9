---------------------------- MODULE ProfileProofs ----------------------------
(***************************************************************************)
(* The profile adapters, for any requests and answers, accounts, groups    *)
(* and number of calls: what the obligation handler adds to an answer,     *)
(* what it takes to stop either adapter, and what the policy information   *)
(* point adds to a request.                                                *)
(***************************************************************************)
EXTENDS ProfileAdapters, SequenceTheorems, FiniteSetTheorems, TLAPS

-----------------------------------------------------------------------------
(* The inductive invariant.                                                *)

InHandler == {"obligations", "assignments", "username", "uidgid", "gids"}
InObligation == InHandler \ {"obligations"}

TypeOK ==
  /\ calls \in Nat /\ length \in Nat
  /\ i \in Nat \ {0} /\ j \in Nat \ {0} /\ k \in Nat \ {0}
  /\ original \in Requests /\ request \in RequestType
  /\ answer \in ResponseType /\ response \in ResponseType
  /\ user \in Texts /\ group \in Texts /\ groups \in Seq(Texts)
  /\ room \in BOOLEAN /\ starved \in BOOLEAN

\* The loop of the policy information point stays within the attributes.
InSubject == at = "subjects" => length <= AttributesOf(i)

\* An id is missing in the request only where the application left it out.
NamesKept == starved \/ NamelessRequest(original) \/ ~NamelessRequest(request)

\* s goes on where t ends.
Continues(s, t) == Len(s) >= Len(t) /\ \A m \in 1 .. Len(t) : s[m] = t[m]

\* What was added to a result is of one of its mappings.
Explained(was, now) ==
  /\ now.decision = was.decision
  /\ was.decision # PERMIT => now = was
  /\ Continues(now.obligations, was.obligations)
  /\ \A m \in Len(was.obligations) + 1 .. Len(now.obligations) :
       \E b \in Mappings(was) : Says(b, now.obligations[m])

AnswerExplained ==
  /\ Len(response) = Len(answer)
  /\ \A n \in 1 .. Len(answer) : Explained(answer[n], response[n])

\* The results that the handler has not got to are as they came.
RestUntouched == at \in InHandler => \A n \in 1 .. Len(answer) : n > i => response[n] = answer[n]

\* how many obligations the handler reads of result n
Brought(n) ==
  IF n <= Len(answer) THEN IF answer[n].decision = PERMIT THEN Len(answer[n].obligations) ELSE 0
  ELSE 0
\* the obligation of the answer that it is at
Current == answer[i].obligations[j]

IsMapping(b) == b.id # NULL /\ Starts(b.id, Posix)

InAnswer ==
  /\ at \in InHandler => length = Brought(i)
  /\ at \in InObligation => i <= Len(answer) /\ j <= length /\ IsMapping(Current)

\* The first n assignments of b have been read.
HasRead(b, n) ==
  /\ n \in 0 .. Len(b.assignments)
  /\ user = LastOf(ValuesAmong(b, UserId)[n])
  /\ group = LastOf(ValuesAmong(b, GroupIdPrimary)[n])
  /\ groups = ValuesAmong(b, GroupId)[n]

InMapping ==
  /\ at \in InObligation => HasRead(Current, k - 1)
  /\ at \in InObligation \ {"assignments"} => k - 1 = Len(Current.assignments)

Starving ==
  /\ fault = "null_array" \/ lost # {} => starved
  /\ at \in InObligation /\ ~room => starved

Nameless ==
  fault = "null_id" => \/ starved \/ NamelessRequest(original)
                       \/ \E n \in DOMAIN answer : NamelessResult(answer[n])
Overflown ==
  fault = "overflow" => \E n \in DOMAIN answer : answer[n].decision = PERMIT /\
                          \E b \in Mappings(answer[n]) : Len(Values(b, GroupId)) > NGroupsMax

AdapterInv ==
  /\ TypeOK /\ InSubject /\ NamesKept
  /\ AnswerExplained /\ RestUntouched /\ InAnswer /\ InMapping
  /\ Starving /\ Nameless /\ Overflown

-----------------------------------------------------------------------------
(* Induction over Nat, for a set instead of a predicate.                   *)

LEMMA SmallestMissing ==
  ASSUME NEW T, NEW n \in Nat, n \notin T
  PROVE  \E m \in Nat : m \notin T /\ \A d \in Nat : d < m => d \in T
<1> DEFINE Missing == {d \in Nat : d \notin T}
           Below(d) == 0 .. d - 1
           Intervals == {Below(d) : d \in Missing}
           R == StrictSubsetOrdering(Nat)
<1>1. IsWellFoundedOn(R, FiniteSubsetsOf(Nat))
  BY FS_StrictSubsetOrderingWellFounded
<1>2. Intervals \subseteq FiniteSubsetsOf(Nat)
  <2> SUFFICES ASSUME NEW d \in Missing PROVE Below(d) \in FiniteSubsetsOf(Nat)
    OBVIOUS
  <2>1. Below(d) \in SUBSET Nat
    OBVIOUS
  <2>2. IsFiniteSet(Below(d))
    BY FS_Interval
  <2> QED
    BY <2>1, <2>2 DEF FiniteSubsetsOf
<1>3. Intervals # {}
  OBVIOUS
<1>4. PICK x \in Intervals : \A y \in Intervals : <<y, x>> \notin R
  <2> HIDE DEF Intervals, R
  <2> QED
    BY <1>1, <1>2, <1>3, WFMin
<1>5. PICK m \in Missing : x = Below(m)
  OBVIOUS
<1>6. ASSUME NEW d \in Nat, d < m, d \notin T PROVE FALSE
  <2>1. Below(d) \in Intervals
    BY <1>6
  <2>2. d \in Below(m) /\ d \notin Below(d) /\ Below(d) \subseteq Below(m)
    BY <1>6
  <2>3. Below(d) \in SUBSET Nat /\ Below(m) \in SUBSET Nat
    OBVIOUS
  <2>4. <<Below(d), Below(m)>> \in R
    <3> HIDE DEF Below
    <3> QED
      BY <2>2, <2>3 DEF StrictSubsetOrdering
  <2> QED
    BY <1>4, <1>5, <2>1, <2>4
<1> QED
  BY <1>6

LEMMA SetInduction ==
  ASSUME NEW T, 0 \in T, \A n \in Nat : n \in T => n + 1 \in T
  PROVE  \A n \in Nat : n \in T
<1> SUFFICES ASSUME NEW n \in Nat, n \notin T PROVE FALSE
  OBVIOUS
<1>1. PICK m \in Nat : m \notin T /\ \A d \in Nat : d < m => d \in T
  BY SmallestMissing
<1>2. m # 0 /\ m - 1 \in Nat /\ m - 1 < m
  BY <1>1
<1>3. (m - 1) + 1 \in T
  BY <1>1, <1>2
<1> QED
  BY <1>1, <1>3

-----------------------------------------------------------------------------
(* What ValuesAmong computes.                                              *)

\* the values v found so far, and that of assignment a if it has the id
Found(v, a, id) == IF a.id = id THEN Append(v, a.value) ELSE v
IsFound(f, es, id, n) == f = [m \in 0 .. n |-> IF m = 0 THEN <<>> ELSE Found(f[m - 1], es[m], id)]

LEMMA FoundExists ==
  ASSUME NEW es, NEW id, NEW n \in Nat
  PROVE  \E f : IsFound(f, es, id, n)
<1> DEFINE T == {m \in Nat : \E f : IsFound(f, es, id, m)}
<1>1. 0 \in T
  <2> DEFINE f == [m \in 0 .. 0 |-> <<>>]
  <2>1. f = [m \in 0 .. 0 |-> IF m = 0 THEN <<>> ELSE Found(f[m - 1], es[m], id)]
    OBVIOUS
  <2>2. IsFound(f, es, id, 0)
    BY <2>1 DEF IsFound
  <2> QED
    BY <2>2
<1>2. ASSUME NEW m \in Nat, m \in T PROVE m + 1 \in T
  <2>1. PICK f : IsFound(f, es, id, m)
    BY <1>2
  <2>2. \A l \in 0 .. m : f[l] = IF l = 0 THEN <<>> ELSE Found(f[l - 1], es[l], id)
    BY <2>1 DEF IsFound
  <2> DEFINE g == [l \in 0 .. m + 1 |-> IF l = m + 1 THEN Found(f[m], es[m + 1], id) ELSE f[l]]
  <2>3. \A l \in 0 .. m + 1 : g[l] = IF l = 0 THEN <<>> ELSE Found(g[l - 1], es[l], id)
    <3> SUFFICES ASSUME NEW l \in 0 .. m + 1
                 PROVE  g[l] = IF l = 0 THEN <<>> ELSE Found(g[l - 1], es[l], id)
      OBVIOUS
    <3>1. CASE l = m + 1
      <4>1. l # 0 /\ l - 1 = m /\ m \in 0 .. m + 1 /\ m # m + 1
        BY <3>1
      <4>2. g[l - 1] = f[m]
        BY <4>1
      <4> QED
        BY <3>1, <4>1, <4>2
    <3>2. CASE l # m + 1
      <4>1. l \in 0 .. m /\ (l # 0 => l - 1 \in 0 .. m + 1 /\ l - 1 # m + 1)
        BY <3>2
      <4>2. g[l] = f[l] /\ (l # 0 => g[l - 1] = f[l - 1])
        BY <3>2, <4>1
      <4> QED
        BY <2>2, <4>1, <4>2
    <3> QED
      BY <3>1, <3>2
  <2>4. g = [l \in 0 .. m + 1 |-> IF l = 0 THEN <<>> ELSE Found(g[l - 1], es[l], id)]
    BY <2>3
  <2>5. IsFound(g, es, id, m + 1)
    BY <2>4 DEF IsFound
  <2> HIDE DEF g
  <2> QED
    BY <2>5
<1>3. \A m \in Nat : m \in T
  <2> HIDE DEF T
  <2> QED
    BY <1>1, <1>2, SetInduction
<1> QED
  BY <1>3

\* f finds the values of id among the assignments es.
Finds(f, es, id) ==
  /\ f[0] = <<>>
  /\ \A m \in 1 .. Len(es) : f[m] = Found(f[m - 1], es[m], id)
  /\ \A m \in 0 .. Len(es) : f[m] \in Seq(Texts) /\ Len(f[m]) <= Len(f[Len(es)])

GoesOn(f, es, id, n) == f[0] = <<>> /\ \A m \in 1 .. n : f[m] = Found(f[m - 1], es[m], id)

LEMMA FoundTypes ==
  ASSUME NEW es \in Seq(AssignmentType), NEW id, NEW f, NEW n \in Nat,
         n = Len(es), GoesOn(f, es, id, n)
  PROVE  /\ \A m \in 0 .. n : f[m] \in Seq(Texts)
         /\ \A m \in 0 .. n : Len(f[m]) <= Len(f[n])
<1>1. \A m \in 1 .. n : es[m].value \in Texts
  <2>1. \A m \in 1 .. n : es[m] \in AssignmentType
    OBVIOUS
  <2> QED
    BY <2>1 DEF AssignmentType
<1> DEFINE T == {m \in Nat : m <= n => f[m] \in Seq(Texts)}
           U == {m \in Nat : m <= n => Len(f[n - m]) <= Len(f[n])}
<1>2. \A m \in Nat : m \in T
  <2>1. 0 \in T
    BY EmptySeq DEF GoesOn
  <2>2. ASSUME NEW m \in Nat, m \in T PROVE m + 1 \in T
    <3> SUFFICES ASSUME m + 1 <= n PROVE f[m + 1] \in Seq(Texts)
      OBVIOUS
    <3>1. f[m] \in Seq(Texts) /\ m + 1 \in 1 .. n /\ (m + 1) - 1 = m
      BY <2>2
    <3>2. f[m + 1] = Found(f[m], es[m + 1], id) /\ es[m + 1].value \in Texts
      BY <1>1, <3>1 DEF GoesOn
    <3>3. Append(f[m], es[m + 1].value) \in Seq(Texts)
      BY <3>1, <3>2, AppendProperties
    <3> QED
      BY <3>1, <3>2, <3>3 DEF Found
  <2> HIDE DEF T
  <2> QED
    BY <2>1, <2>2, SetInduction
<1>3. \A m \in 0 .. n : f[m] \in Seq(Texts) /\ Len(f[m]) \in Nat
  <2>1. \A m \in 0 .. n : f[m] \in Seq(Texts)
    BY <1>2
  <2> QED
    BY <2>1, LenProperties
<1>4. ASSUME NEW m \in 1 .. n PROVE Len(f[m - 1]) <= Len(f[m])
  <2>1. f[m] = Found(f[m - 1], es[m], id) /\ es[m].value \in Texts /\ m - 1 \in 0 .. n
    BY <1>1 DEF GoesOn
  <2>2. f[m - 1] \in Seq(Texts) /\ Len(f[m - 1]) \in Nat
    BY <1>3, <2>1
  <2>3. Len(Append(f[m - 1], es[m].value)) = Len(f[m - 1]) + 1
    BY <2>1, <2>2, AppendProperties
  <2> QED
    BY <2>1, <2>2, <2>3 DEF Found
<1>5. \A m \in Nat : m \in U
  <2>1. 0 \in U
    <3>1. n - 0 = n /\ n \in 0 .. n
      OBVIOUS
    <3> QED
      BY <1>3, <3>1
  <2>2. ASSUME NEW m \in Nat, m \in U PROVE m + 1 \in U
    <3> SUFFICES ASSUME m + 1 <= n PROVE Len(f[n - (m + 1)]) <= Len(f[n])
      OBVIOUS
    <3>1. PICK p \in 1 .. n : p = n - m /\ p - 1 = n - (m + 1)
      OBVIOUS
    <3>2. Len(f[p]) <= Len(f[n])
      BY <2>2, <3>1
    <3>3. Len(f[p - 1]) <= Len(f[p])
      BY <1>4
    <3>4. Len(f[p]) \in Nat /\ Len(f[p - 1]) \in Nat /\ Len(f[n]) \in Nat
      <4>1. p \in 0 .. n /\ p - 1 \in 0 .. n /\ n \in 0 .. n
        OBVIOUS
      <4> QED
        BY <1>3, <4>1
    <3>5. Len(f[p - 1]) <= Len(f[n])
      BY <3>2, <3>3, <3>4
    <3> QED
      BY <3>1, <3>5
  <2> HIDE DEF U
  <2> QED
    BY <2>1, <2>2, SetInduction
<1>6. \A m \in 0 .. n : Len(f[m]) <= Len(f[n])
  <2> SUFFICES ASSUME NEW m \in 0 .. n PROVE Len(f[m]) <= Len(f[n])
    OBVIOUS
  <2> DEFINE p == n - m
  <2>1. p \in Nat /\ n - p = m /\ p <= n
    OBVIOUS
  <2> HIDE DEF p
  <2>2. Len(f[n - p]) <= Len(f[n])
    BY <1>5, <2>1
  <2> QED
    BY <2>1, <2>2
<1> QED
  BY <1>3, <1>6

LEMMA ValuesAreFound ==
  ASSUME NEW b, b.assignments \in Seq(AssignmentType), NEW id
  PROVE  Finds(ValuesAmong(b, id), b.assignments, id)
<1> DEFINE es == b.assignments
           n == Len(b.assignments)
           f == CHOOSE g : IsFound(g, es, id, n)
<1>1. n \in Nat
  OBVIOUS
<1>2. ValuesAmong(b, id) = f
  BY DEF ValuesAmong, IsFound, Found
<1>3. IsFound(f, es, id, n)
  <2>1. \E g : IsFound(g, es, id, n)
    BY <1>1, FoundExists
  <2> HIDE DEF es, n
  <2> QED
    BY <2>1, Zenon
<1> HIDE DEF f
<1>4. \A m \in 0 .. n : f[m] = IF m = 0 THEN <<>> ELSE Found(f[m - 1], es[m], id)
  BY <1>3 DEF IsFound
<1>5. f[0] = <<>> /\ \A m \in 1 .. n : f[m] = Found(f[m - 1], es[m], id)
  <2>1. 0 \in 0 .. n /\ \A m \in 1 .. n : m \in 0 .. n /\ m # 0
    BY <1>1
  <2> QED
    BY <1>4, <2>1
<1>6. /\ \A m \in 0 .. n : f[m] \in Seq(Texts)
      /\ \A m \in 0 .. n : Len(f[m]) <= Len(f[n])
  BY <1>1, <1>5, FoundTypes DEF GoesOn
<1> QED
  BY <1>2, <1>5, <1>6 DEF Finds

-----------------------------------------------------------------------------
(* Sequences that grow, and the requests and responses that hold them.     *)

LEMMA AppendOne ==
  ASSUME NEW S, NEW s \in Seq(S), NEW x \in S
  PROVE  /\ Append(s, x) \in Seq(S) /\ Len(Append(s, x)) = Len(s) + 1
         /\ \A m \in 1 .. Len(s) : Append(s, x)[m] = s[m]
         /\ Append(s, x)[Len(s) + 1] = x
BY AppendProperties

\* q is r with attribute a added to subject n.
GivesSubject(q, r, n, a) ==
  /\ q \in RequestType
  /\ q.environment = r.environment
  /\ Len(q.subjects) = Len(r.subjects)
  /\ \A m \in 1 .. Len(r.subjects) : m # n => q.subjects[m] = r.subjects[m]
  /\ q.subjects[n] = Append(r.subjects[n], a)

LEMMA SubjectGrows ==
  ASSUME NEW r \in RequestType, NEW n \in 1 .. Len(r.subjects), NEW a \in AttributeType
  PROVE  GivesSubject([r EXCEPT !.subjects[n] = Append(@, a)], r, n, a)
<1> DEFINE s == r.subjects
           q == [r EXCEPT !.subjects[n] = Append(@, a)]
           t == [s EXCEPT ![n] = Append(s[n], a)]
<1>1. s \in Seq(Seq(AttributeType)) /\ s[n] \in Seq(AttributeType)
  <2>1. s \in Seq(Seq(AttributeType))
    BY DEF RequestType
  <2> QED
    BY <2>1, ElementOfSeq
<1>2. Append(s[n], a) \in Seq(AttributeType)
  BY <1>1, AppendOne
<1>3. t \in Seq(Seq(AttributeType)) /\ Len(t) = Len(s) /\ t[n] = Append(s[n], a)
      /\ \A m \in 1 .. Len(s) : m # n => t[m] = s[m]
  <2> HIDE DEF s
  <2>1. n \in 1 .. Len(s)
    BY DEF s
  <2>2. t \in Seq(Seq(AttributeType)) /\ Len(t) = Len(s)
    BY <1>1, <1>2, <2>1, ExceptSeq
  <2>3. DOMAIN s = 1 .. Len(s)
    BY <1>1
  <2> QED
    BY <2>1, <2>2, <2>3
<1>4. q = [r EXCEPT !.subjects = t]
  OBVIOUS
<1> HIDE DEF t, s
<1>5. q \in RequestType /\ q.subjects = t /\ q.environment = r.environment
  BY <1>3, <1>4 DEF RequestType
<1> HIDE DEF q
<1> QED
  BY <1>3, <1>5 DEF GivesSubject, s, q

LEMMA NamesOfSubjects ==
  ASSUME NEW q, NEW r \in RequestType, NEW n \in 1 .. Len(r.subjects), NEW a \in AttributeType,
         GivesSubject(q, r, n, a), a.id # NULL, NamelessRequest(q)
  PROVE  NamelessRequest(r)
<1>0. r.subjects \in Seq(Seq(AttributeType)) /\ q.subjects \in Seq(Seq(AttributeType))
  BY DEF RequestType, GivesSubject
<1>1. CASE \E m \in DOMAIN q.subjects : \E l \in DOMAIN q.subjects[m] : q.subjects[m][l].id = NULL
  <2>1. PICK m \in DOMAIN q.subjects : \E l \in DOMAIN q.subjects[m] : q.subjects[m][l].id = NULL
    BY <1>1
  <2>2. PICK l \in DOMAIN q.subjects[m] : q.subjects[m][l].id = NULL
    BY <2>1
  <2>3. m \in 1 .. Len(r.subjects) /\ m \in DOMAIN r.subjects
    BY <1>0, LenProperties DEF GivesSubject
  <2>4. r.subjects[m] \in Seq(AttributeType)
    BY <1>0, <2>3, ElementOfSeq
  <2>5. l \in DOMAIN r.subjects[m] /\ r.subjects[m][l].id = NULL
    <3>1. CASE m # n
      BY <2>2, <2>3, <3>1 DEF GivesSubject
    <3>2. CASE m = n
      <4> DEFINE s == r.subjects[m]
                 t == Append(s, a)
      <4>1. q.subjects[m] = t
        BY <3>2 DEF GivesSubject
      <4> HIDE DEF s
      <4>2. s \in Seq(AttributeType)
        BY <2>4 DEF s
      <4>3. t \in Seq(AttributeType) /\ Len(t) = Len(s) + 1 /\ t[Len(s) + 1] = a
            /\ \A p \in 1 .. Len(s) : t[p] = s[p]
        BY <4>2, AppendOne
      <4> HIDE DEF t
      <4>4. DOMAIN t = 1 .. Len(s) + 1 /\ DOMAIN s = 1 .. Len(s) /\ Len(s) \in Nat
        BY <4>2, <4>3, LenProperties
      <4>5. l \in 1 .. Len(s) + 1 /\ t[l].id = NULL
        BY <2>2, <4>1, <4>4
      <4>6. l # Len(s) + 1
        BY <4>3, <4>5
      <4>7. l \in 1 .. Len(s)
        BY <4>4, <4>5, <4>6
      <4>8. l \in DOMAIN s /\ s[l].id = NULL
        BY <4>3, <4>4, <4>5, <4>7
      <4> QED
        BY <4>8 DEF s
    <3> QED
      BY <3>1, <3>2
  <2> QED
    BY <2>3, <2>5 DEF NamelessRequest
<1>2. CASE q.environment # NULL /\ \E m \in DOMAIN q.environment : q.environment[m].id = NULL
  BY <1>2 DEF NamelessRequest, GivesSubject
<1> QED
  BY <1>1, <1>2 DEF NamelessRequest

LEMMA EnvironmentGrows ==
  ASSUME NEW r \in RequestType, NEW a \in AttributeType, r.environment # NULL
  PROVE  [r EXCEPT !.environment = Append(@, a)] \in RequestType
<1> DEFINE e == r.environment
           t == Append(e, a)
<1>1. e \in Seq(AttributeType)
  BY DEF RequestType
<1>2. t \in Seq(AttributeType)
  <2> HIDE DEF e
  <2> QED
    BY <1>1, AppendOne
<1> HIDE DEF t
<1>3. [r EXCEPT !.environment = t] \in RequestType
  BY <1>2 DEF RequestType
<1> QED
  BY <1>3 DEF t

LEMMA NamesOfEnvironment ==
  ASSUME NEW r \in RequestType, NEW a \in AttributeType, r.environment # NULL, a.id # NULL,
         NamelessRequest([r EXCEPT !.environment = Append(@, a)])
  PROVE  NamelessRequest(r)
<1> DEFINE e == r.environment
           t == Append(e, a)
           q == [r EXCEPT !.environment = t]
<1>0. NamelessRequest(q)
  OBVIOUS
<1>1. q.subjects = r.subjects /\ q.environment = t
  <2> HIDE DEF t
  <2> QED
    BY DEF RequestType
<1> HIDE DEF q
<1>2. e \in Seq(AttributeType)
  BY DEF RequestType
<1>3. CASE \E m \in DOMAIN r.subjects : \E l \in DOMAIN r.subjects[m] : r.subjects[m][l].id = NULL
  BY <1>3 DEF NamelessRequest
<1>4. CASE \E m \in DOMAIN t : t[m].id = NULL
  <2> HIDE DEF e
  <2>1. /\ t \in Seq(AttributeType) /\ Len(t) = Len(e) + 1 /\ t[Len(e) + 1] = a
        /\ \A p \in 1 .. Len(e) : t[p] = e[p]
    BY <1>2, AppendOne
  <2> HIDE DEF t
  <2>2. DOMAIN t = 1 .. Len(e) + 1 /\ DOMAIN e = 1 .. Len(e) /\ Len(e) \in Nat
    BY <1>2, <2>1, LenProperties
  <2>3. PICK m \in 1 .. Len(e) + 1 : t[m].id = NULL
    BY <1>4, <2>2
  <2>4. m # Len(e) + 1
    BY <2>1, <2>3
  <2>5. m \in 1 .. Len(e)
    BY <2>2, <2>3, <2>4
  <2>6. m \in DOMAIN e /\ e[m].id = NULL
    BY <2>1, <2>2, <2>3, <2>5
  <2>7. \E p \in DOMAIN r.environment : r.environment[p].id = NULL
    BY <2>6 DEF e
  <2> QED
    BY <2>7 DEF NamelessRequest
<1> QED
  BY <1>0, <1>1, <1>3, <1>4 DEF NamelessRequest

LEMMA EmptyEnvironment ==
  ASSUME NEW r \in RequestType
  PROVE  /\ [r EXCEPT !.environment = <<>>] \in RequestType
         /\ NamelessRequest([r EXCEPT !.environment = <<>>]) => NamelessRequest(r)
<1> DEFINE q == [r EXCEPT !.environment = <<>>]
<1>1. <<>> \in Seq(AttributeType) /\ DOMAIN <<>> = {}
  BY EmptySeq
<1>2. q \in RequestType /\ q.subjects = r.subjects /\ q.environment = <<>>
  BY <1>1 DEF RequestType
<1> HIDE DEF q
<1>3. NamelessRequest(q) => NamelessRequest(r)
  BY <1>1, <1>2 DEF NamelessRequest
<1> QED
  BY <1>2, <1>3 DEF q

-----------------------------------------------------------------------------
(* What a step leaves alone.                                               *)

\* Memory that runs out only makes an explanation easier.
LEMMA SaysStays ==
  ASSUME starved => starved', NEW b, NEW o, Says(b, o)
  PROVE  Says(b, o)'
BY DEF Says, GidOf, Resolvable

LEMMA ExplainedStays ==
  ASSUME starved => starved', NEW was, NEW now, Explained(was, now)
  PROVE  Explained(was, now)'
<1>1. \A m \in Len(was.obligations) + 1 .. Len(now.obligations) :
        \E b \in Mappings(was) : Says(b, now.obligations[m])'
  <2> SUFFICES ASSUME NEW m \in Len(was.obligations) + 1 .. Len(now.obligations)
               PROVE  \E b \in Mappings(was) : Says(b, now.obligations[m])'
    OBVIOUS
  <2>1. PICK b \in Mappings(was) : Says(b, now.obligations[m])
    BY DEF Explained
  <2>2. PICK o : o = now.obligations[m]
    OBVIOUS
  <2>3. Says(b, o)'
    BY <2>1, <2>2, SaysStays
  <2> QED
    BY <2>2, <2>3
<1> QED
  BY <1>1 DEF Explained, Continues, Mappings

LEMMA AnswerStays ==
  ASSUME UNCHANGED <<answer, response>>, starved => starved', AnswerExplained
  PROVE  AnswerExplained'
<1> SUFFICES ASSUME NEW n \in 1 .. Len(answer)
             PROVE  Explained(answer[n], response[n])'
  BY DEF AnswerExplained
<1>1. PICK was, now : was = answer[n] /\ now = response[n]
  OBVIOUS
<1>2. Explained(was, now)
  BY <1>1 DEF AnswerExplained
<1>3. Explained(was, now)'
  BY <1>2, ExplainedStays
<1> QED
  BY <1>1, <1>3

\* a step that stops nothing and counts what it loses
Harmless == /\ fault = "none" /\ fault' = "none"
            /\ starved \in BOOLEAN /\ starved' \in BOOLEAN
            /\ starved => starved'
            /\ lost' = lost \/ starved'

LEMMA FineIsHarmless == ASSUME fault = "none", TypeOK, Fine PROVE Harmless
BY DEF Fine, Harmless, TypeOK

LEMMA LosesIsHarmless ==
  ASSUME fault = "none", TypeOK, NEW os, Loses(os) PROVE Harmless /\ starved'
BY DEF Loses, Harmless, TypeOK

\* A step outside the handler only has to keep the request in order.
LEMMA RequestStep ==
  ASSUME AdapterInv, Harmless, at' \notin InHandler, UNCHANGED <<answer, response>>,
         TypeOK', InSubject', NamesKept'
  PROVE  AdapterInv'
<1>1. AnswerExplained'
  BY AnswerStays DEF AdapterInv, Harmless
<1>2. InAnswer' /\ InMapping'
  BY DEF InAnswer, InMapping, InObligation
<1>5. RestUntouched'
  BY DEF RestUntouched
<1>3. Starving'
  BY DEF AdapterInv, Starving, Harmless, InObligation
<1>4. Nameless' /\ Overflown'
  BY DEF Harmless, Nameless, Overflown
<1> QED
  BY <1>1, <1>2, <1>3, <1>4, <1>5 DEF AdapterInv

-----------------------------------------------------------------------------
(* The policy information point.                                           *)

LEMMA CountIsNat ==
  ASSUME TypeOK, NEW n \in Nat \ {0}
  PROVE  /\ AttributesOf(n) \in Nat
         /\ n <= Len(request.subjects) => AttributesOf(n) = Len(request.subjects[n])
<1>1. request.subjects \in Seq(Seq(AttributeType))
  BY DEF TypeOK, RequestType
<1>2. CASE n <= Len(request.subjects)
  <2>1. n \in 1 .. Len(request.subjects)
    BY <1>1, <1>2
  <2>2. request.subjects[n] \in Seq(AttributeType)
    BY <1>1, <2>1, ElementOfSeq
  <2>3. Len(request.subjects[n]) \in Nat
    BY <2>2, LenProperties
  <2> QED
    BY <1>2, <2>3 DEF AttributesOf
<1> QED
  BY <1>2 DEF AttributesOf

\* The attribute that the adapter is at is one of the subject.
LEMMA ThisIsAttribute ==
  ASSUME TypeOK, InSubject, AtAttribute
  PROVE  /\ i \in 1 .. Len(request.subjects) /\ This \in AttributeType
         /\ i \in DOMAIN request.subjects /\ j \in DOMAIN request.subjects[i]
<1>1. request.subjects \in Seq(Seq(AttributeType))
  BY DEF TypeOK, RequestType
<1>2. at = "subjects" /\ i \in 1 .. Len(request.subjects) /\ i \in Nat \ {0} /\ j <= length
  BY <1>1 DEF AtAttribute, TypeOK
<1>3. request.subjects[i] \in Seq(AttributeType)
  BY <1>1, <1>2, ElementOfSeq
<1>4. j \in 1 .. Len(request.subjects[i])
  <2>1. AttributesOf(i) = Len(request.subjects[i]) /\ AttributesOf(i) \in Nat
    BY <1>1, <1>2, CountIsNat
  <2>2. length <= AttributesOf(i) /\ length \in Nat /\ j \in Nat \ {0}
    BY <1>2 DEF InSubject, TypeOK
  <2> QED
    BY <1>2, <2>1, <2>2
<1>5. request.subjects[i][j] \in AttributeType
  BY <1>3, <1>4, ElementOfSeq
<1> QED
  BY <1>1, <1>2, <1>3, <1>4, <1>5, LenProperties DEF This

LEMMA BeginPipKeeps ==
  ASSUME AdapterInv, fault = "none", BeginPip
  PROVE  AdapterInv'
<1>1. TypeOK /\ Harmless /\ starved' = starved
  BY FineIsHarmless DEF AdapterInv, BeginPip, Fine
<1>2. AttributesOf(1) \in Nat
  BY <1>1, CountIsNat
<1>3. /\ at' = "subjects" /\ at' \notin InHandler /\ UNCHANGED <<answer, response>>
      /\ UNCHANGED <<calls, original, request, user, group, groups, room, k>>
      /\ i' = 1 /\ j' = 1 /\ length' = AttributesOf(1)
  BY DEF BeginPip, oh, InHandler
<1>4. TypeOK'
  BY <1>1, <1>2, <1>3 DEF TypeOK
<1>5. InSubject'
  BY <1>2, <1>3 DEF InSubject, AttributesOf
<1>6. NamesKept'
  BY <1>1, <1>3 DEF AdapterInv, NamesKept
<1> QED
  BY <1>1, <1>3, <1>4, <1>5, <1>6, RequestStep

LEMMA NullAttributeKeeps ==
  ASSUME AdapterInv, fault = "none", NullAttribute
  PROVE  AdapterInv'
<1>1. /\ fault' = "null_id"
      /\ UNCHANGED <<at, calls, original, answer, request, response, i, j, k, length,
                     user, group, groups, room, lost, starved>>
  BY DEF NullAttribute, Fault, given, loop
<1>2. starved \/ NamelessRequest(original)
  <2>1. i \in DOMAIN request.subjects /\ j \in DOMAIN request.subjects[i]
        /\ request.subjects[i][j].id = NULL
    BY ThisIsAttribute DEF AdapterInv, NullAttribute, This
  <2>2. NamelessRequest(request)
    BY <2>1 DEF NamelessRequest
  <2> QED
    BY <2>2 DEF AdapterInv, NamesKept
<1>3. AnswerExplained'
  BY <1>1, AnswerStays DEF AdapterInv
<1> QED
  BY <1>1, <1>2, <1>3
  DEF AdapterInv, TypeOK, InSubject, AttributesOf, NamesKept, RestUntouched, InAnswer, Brought, Current,
      InMapping,
      HasRead, Starving, Nameless, Overflown

LEMMA SkipAttributeKeeps ==
  ASSUME AdapterInv, fault = "none", SkipAttribute
  PROVE  AdapterInv'
<1>1. TypeOK /\ Harmless /\ starved' = starved
  BY FineIsHarmless DEF AdapterInv, SkipAttribute, Fine
<1>2. /\ at' = "subjects" /\ at' \notin InHandler /\ UNCHANGED <<answer, response>>
      /\ UNCHANGED <<calls, original, request, user, group, groups, room, k, i, length>>
      /\ j' = j + 1
  BY DEF SkipAttribute, AtAttribute, PipStep, oh, InHandler
<1>3. TypeOK'
  BY <1>1, <1>2 DEF TypeOK
<1>4. InSubject'
  BY <1>2 DEF AdapterInv, InSubject, AttributesOf, SkipAttribute, AtAttribute
<1>5. NamesKept'
  BY <1>1, <1>2 DEF AdapterInv, NamesKept
<1> QED
  BY <1>1, <1>2, <1>3, <1>4, <1>5, RequestStep

LEMMA OneSegment == ASSUME NEW S, NEW x \in S PROVE <<x>> \in Seq(S)
OBVIOUS

LEMMA TwoSegments == ASSUME NEW S, NEW x \in S, NEW y \in S PROVE <<x, y>> \in Seq(S)
OBVIOUS

LEMMA ThreeSegments ==
  ASSUME NEW S, NEW x \in S, NEW y \in S, NEW z \in S
  PROVE  <<x, y, z>> \in Seq(S)
OBVIOUS

\* The ids that the adapters give.
LEMMA GivenIds ==
  /\ {KeyInfo, Fqan, FqanPrimary, ProfileId} \subseteq Seq(STRING)
  /\ {Username, UidGid, SecondaryGids, UsernameText, PosixUid, PosixGid} \subseteq Seq(STRING)
<1>1. {KeyInfo, UidGid, SecondaryGids, PosixUid, PosixGid} \subseteq Seq(STRING)
  BY StringAssumption, OneSegment DEF KeyInfo, UidGid, SecondaryGids, PosixUid, PosixGid
<1>2. {Fqan, ProfileId, Username, UsernameText} \subseteq Seq(STRING)
  BY StringAssumption, TwoSegments DEF Fqan, ProfileId, Username, UsernameText
<1>3. FqanPrimary \in Seq(STRING)
  BY StringAssumption, ThreeSegments DEF FqanPrimary
<1> QED
  BY <1>1, <1>2, <1>3

LEMMA CopyHasName ==
  ASSUME NEW a \in AttributeType
  PROVE  CopyOf(a).id \in Seq(STRING) /\ CopyOf(a).id # NULL
<1>1. KeyInfo \in Seq(STRING) /\ FqanPrimary \in Seq(STRING)
  BY GivenIds
<1>2. CopyOf(a).id \in Seq(STRING)
  BY <1>1 DEF CopyOf, Attribute
<1> QED
  BY <1>2, NullAssumption

LEMMA CopyAttributeKeeps ==
  ASSUME AdapterInv, fault = "none", CopyAttribute
  PROVE  AdapterInv'
<1>1. TypeOK /\ InSubject /\ AtAttribute
  BY DEF AdapterInv, CopyAttribute
<1>2. i \in 1 .. Len(request.subjects) /\ This \in AttributeType /\ i \in Nat \ {0}
  BY <1>1, ThisIsAttribute DEF TypeOK
<1>3. PICK id \in {CopyOf(This).id, NULL} :
        /\ request' = [request EXCEPT !.subjects[i] = Append(@, Attribute(id, This.values))]
        /\ IF id # NULL THEN Fine ELSE Loses({})
  BY DEF CopyAttribute
<1> DEFINE a == Attribute(id, This.values)
<1>4. a \in AttributeType /\ a.id = id
  BY <1>2, CopyHasName DEF AttributeType, Attribute, Ids
<1>5. request \in RequestType
  BY <1>1 DEF TypeOK
<1> HIDE DEF a
<1>6. GivesSubject(request', request, i, a)
  BY <1>2, <1>3, <1>4, <1>5, SubjectGrows DEF a
<1>7. Harmless /\ (id = NULL => starved')
  BY <1>1, <1>3, FineIsHarmless, LosesIsHarmless
<1>8. /\ at' = "subjects" /\ at' \notin InHandler /\ UNCHANGED <<answer, response>>
      /\ UNCHANGED <<calls, original, user, group, groups, room, k, i, length>>
      /\ j' = j + 1
  BY DEF CopyAttribute, AtAttribute, PipStep, oh, InHandler
<1>9. TypeOK'
  BY <1>1, <1>6, <1>7, <1>8 DEF TypeOK, GivesSubject, Harmless
<1>10. InSubject'
  <2>1. AttributesOf(i) = Len(request.subjects[i]) /\ AttributesOf(i) \in Nat
        /\ length \in Nat /\ length <= AttributesOf(i)
    BY <1>1, <1>2, CountIsNat DEF InSubject, TypeOK, AtAttribute
  <2>2. request'.subjects[i] = Append(request.subjects[i], a)
        /\ Len(request'.subjects) = Len(request.subjects)
    BY <1>6 DEF GivesSubject
  <2>3. request.subjects[i] \in Seq(AttributeType)
    <3>1. request.subjects \in Seq(Seq(AttributeType))
      BY <1>5 DEF RequestType
    <3> QED
      BY <1>2, <3>1, ElementOfSeq
  <2>4. Len(Append(request.subjects[i], a)) = Len(request.subjects[i]) + 1
    BY <1>4, <2>3, AppendOne
  <2>5. i <= Len(request.subjects)
    BY <1>2
  <2>6. AttributesOf(i)' = Len(request.subjects[i]) + 1
    BY <1>8, <2>2, <2>4, <2>5 DEF AttributesOf
  <2> QED
    BY <1>8, <2>1, <2>6 DEF InSubject
<1>11. NamesKept'
  <2>1. CASE starved'
    BY <2>1 DEF NamesKept
  <2>2. CASE ~starved'
    <3>1. id # NULL /\ ~starved
      BY <1>7, <2>2 DEF Harmless
    <3>2. NamelessRequest(request') => NamelessRequest(request)
      BY <1>2, <1>4, <1>5, <1>6, <3>1, NamesOfSubjects
    <3> QED
      BY <1>8, <3>1, <3>2 DEF AdapterInv, NamesKept
  <2> QED
    BY <2>1, <2>2
<1> QED
  BY <1>7, <1>8, <1>9, <1>10, <1>11, RequestStep

LEMMA CopyFailsKeeps ==
  ASSUME AdapterInv, fault = "none", CopyFails
  PROVE  AdapterInv'
<1>1. TypeOK /\ Harmless /\ starved'
  BY LosesIsHarmless DEF AdapterInv, CopyFails
<1>2. /\ at' = "subjects" /\ at' \notin InHandler /\ UNCHANGED <<answer, response>>
      /\ UNCHANGED <<calls, original, request, user, group, groups, room, k, i, length>>
      /\ j' = j + 1
  BY DEF CopyFails, AtAttribute, PipStep, oh, InHandler
<1>3. TypeOK'
  BY <1>1, <1>2 DEF TypeOK, Harmless
<1>4. InSubject'
  BY <1>2 DEF AdapterInv, InSubject, AttributesOf, CopyFails, AtAttribute
<1>5. NamesKept'
  BY <1>1 DEF NamesKept
<1> QED
  BY <1>1, <1>2, <1>3, <1>4, <1>5, RequestStep

LEMMA NextSubjectKeeps ==
  ASSUME AdapterInv, fault = "none", NextSubject
  PROVE  AdapterInv'
<1>1. TypeOK /\ Harmless /\ starved' = starved
  BY FineIsHarmless DEF AdapterInv, NextSubject, Fine
<1>2. AttributesOf(i + 1) \in Nat /\ i + 1 \in Nat \ {0}
  <2>1. i + 1 \in Nat \ {0}
    BY <1>1 DEF TypeOK
  <2> QED
    BY <1>1, <2>1, CountIsNat
<1>3. /\ at' = "subjects" /\ at' \notin InHandler /\ UNCHANGED <<answer, response>>
      /\ UNCHANGED <<calls, original, request, user, group, groups, room, k>>
      /\ i' = i + 1 /\ j' = 1 /\ length' = AttributesOf(i + 1)
  BY DEF NextSubject, oh, InHandler
<1>4. TypeOK'
  BY <1>1, <1>2, <1>3 DEF TypeOK
<1>5. InSubject'
  <2>1. AttributesOf(i)' = AttributesOf(i + 1)
    BY <1>3 DEF AttributesOf
  <2> QED
    BY <1>2, <1>3, <2>1 DEF InSubject
<1>6. NamesKept'
  BY <1>1, <1>3 DEF AdapterInv, NamesKept
<1> QED
  BY <1>1, <1>3, <1>4, <1>5, <1>6, RequestStep

LEMMA EnvironmentKeeps ==
  ASSUME AdapterInv, fault = "none", Environment
  PROVE  AdapterInv'
<1>1. TypeOK
  BY DEF AdapterInv
<1>2. Harmless
  BY <1>1, FineIsHarmless, LosesIsHarmless DEF Environment
<1>3. request' = request \/ request' = [request EXCEPT !.environment = <<>>]
  BY DEF Environment
<1>4. request' \in RequestType /\ (NamelessRequest(request') => NamelessRequest(request))
  BY <1>1, <1>3, EmptyEnvironment DEF TypeOK
<1>5. /\ at' = "profile" /\ at' \notin InHandler /\ UNCHANGED <<answer, response>>
      /\ UNCHANGED <<calls, original, user, group, groups, room, i, j, k, length>>
  BY DEF Environment, oh, InHandler
<1>6. TypeOK'
  BY <1>1, <1>2, <1>4, <1>5 DEF TypeOK, Harmless
<1>7. InSubject'
  BY <1>5 DEF InSubject
<1>8. NamesKept'
  BY <1>2, <1>4, <1>5 DEF AdapterInv, NamesKept, Harmless
<1> QED
  BY <1>2, <1>5, <1>6, <1>7, <1>8, RequestStep

LEMMA NullProfileKeeps ==
  ASSUME AdapterInv, fault = "none", NullProfile
  PROVE  AdapterInv'
<1>1. /\ fault' = "null_id"
      /\ UNCHANGED <<at, calls, original, answer, request, response, i, j, k, length,
                     user, group, groups, room, lost, starved>>
  BY DEF NullProfile, Fault, given, loop
<1>2. starved \/ NamelessRequest(original)
  <2>1. NamelessRequest(request)
    BY DEF NullProfile, EnvironmentIds, NamelessRequest
  <2> QED
    BY <2>1 DEF AdapterInv, NamesKept
<1>3. AnswerExplained'
  BY <1>1, AnswerStays DEF AdapterInv
<1> QED
  BY <1>1, <1>2, <1>3
  DEF AdapterInv, TypeOK, InSubject, AttributesOf, NamesKept, RestUntouched, InAnswer, Brought, Current,
      InMapping,
      HasRead, Starving, Nameless, Overflown

LEMMA AddProfileIdKeeps ==
  ASSUME AdapterInv, fault = "none", AddProfileId
  PROVE  AdapterInv'
<1>1. TypeOK /\ request \in RequestType
  BY DEF AdapterInv, TypeOK
<1>2. /\ at' = "request" /\ at' \notin InHandler /\ UNCHANGED <<answer, response>>
      /\ UNCHANGED <<original, user, group, groups, room, i, j, k, length>>
      /\ calls' = calls + 1
  BY DEF AddProfileId, oh, InHandler
<1>3. Harmless
  BY <1>1, FineIsHarmless, LosesIsHarmless DEF AddProfileId
<1>4. request' \in RequestType /\ (NamelessRequest(request') => NamelessRequest(request))
  <2>1. CASE request' = request
    BY <1>1, <2>1
  <2>2. ASSUME NEW version \in {"version", NULL}, request.environment # NULL,
               request' = [request EXCEPT !.environment = Append(@, Attribute(ProfileId, version))]
        PROVE  request' \in RequestType /\ (NamelessRequest(request') => NamelessRequest(request))
    <3> DEFINE a == Attribute(ProfileId, version)
    <3>1. ProfileId \in Seq(STRING) /\ ProfileId # NULL
      <4>1. ProfileId \in Seq(STRING)
        BY GivenIds
      <4> QED
        BY <4>1, NullAssumption
    <3>2. a \in AttributeType /\ a.id # NULL
      <4>1. version \in Texts
        BY StringAssumption DEF Texts
      <4> HIDE DEF Texts
      <4>2. ProfileId \in Ids
        BY <3>1 DEF Ids
      <4>3. a.id = ProfileId
        BY DEF Attribute
      <4> QED
        BY <3>1, <4>1, <4>2, <4>3 DEF Attribute, AttributeType
    <3> HIDE DEF a
    <3>3. request' = [request EXCEPT !.environment = Append(@, a)]
      BY <2>2 DEF a
    <3> QED
      BY <1>1, <2>2, <3>2, <3>3, EnvironmentGrows, NamesOfEnvironment
  <2> QED
    BY <2>1, <2>2 DEF AddProfileId
<1>5. TypeOK'
  BY <1>1, <1>2, <1>3, <1>4 DEF TypeOK, Harmless
<1>6. InSubject'
  BY <1>2 DEF InSubject
<1>7. NamesKept'
  BY <1>2, <1>3, <1>4 DEF AdapterInv, NamesKept, Harmless
<1> QED
  BY <1>2, <1>3, <1>5, <1>6, <1>7, RequestStep

-----------------------------------------------------------------------------
(* The obligation handler: where it is in the answer.                      *)

\* A step of the handler only has to keep the answer in order.
LEMMA HandlerStep ==
  ASSUME AdapterInv, Harmless, at' # "subjects", UNCHANGED <<original, request>>,
         TypeOK', AnswerExplained', RestUntouched', InAnswer', InMapping',
         at' \in InObligation /\ ~room' => starved'
  PROVE  AdapterInv'
<1>1. InSubject'
  BY DEF InSubject
<1>2. NamesKept'
  BY DEF AdapterInv, NamesKept, Harmless
<1>3. Starving'
  BY DEF AdapterInv, Starving, Harmless
<1>4. Nameless' /\ Overflown'
  BY DEF Harmless, Nameless, Overflown
<1> QED
  BY <1>1, <1>2, <1>3, <1>4 DEF AdapterInv

\* One that stops the program has to have its cause.
LEMMA FaultStep ==
  ASSUME AdapterInv, NEW f, Fault(f), f = "null_array" => starved, Nameless', Overflown'
  PROVE  AdapterInv'
<1>1. /\ fault' = f
      /\ UNCHANGED <<at, calls, original, answer, request, response, i, j, k, length,
                     user, group, groups, room, lost, starved>>
  BY DEF Fault, given, loop
<1>2. AnswerExplained'
  BY <1>1, AnswerStays DEF AdapterInv
<1> QED
  BY <1>1, <1>2
  DEF AdapterInv, TypeOK, InSubject, AttributesOf, NamesKept, RestUntouched, InAnswer, Brought,
      Current, InMapping, HasRead, Starving

LEMMA ResultTypes ==
  ASSUME NEW r \in ResponseType, NEW n \in 1 .. Len(r)
  PROVE  /\ r[n].obligations \in Seq(ObligationType) /\ r[n].decision \in STRING
         /\ n \in DOMAIN r
         /\ r[n] = [decision |-> r[n].decision, obligations |-> r[n].obligations]
<1>1. r[n] \in [decision : STRING, obligations : Seq(ObligationType)] /\ n \in DOMAIN r
  BY ElementOfSeq, LenProperties DEF ResponseType
<1> QED
  BY <1>1

\* The obligation that the handler is at came with the answer.
IsAt(b) ==
  /\ i \in 1 .. Len(answer) /\ i \in DOMAIN answer /\ answer[i].decision = PERMIT
  /\ length = Len(answer[i].obligations)
  /\ j \in DOMAIN answer[i].obligations
  /\ b = Current /\ b = That
  /\ b \in ObligationType /\ b.assignments \in Seq(AssignmentType)

LEMMA AtThat ==
  ASSUME TypeOK, AnswerExplained, InAnswer, at \in InHandler, i <= Len(answer), j <= length
  PROVE  IsAt(Current)
<1> DEFINE os == answer[i].obligations
<1>1. Len(answer) \in Nat /\ i \in 1 .. Len(answer)
  BY DEF TypeOK, ResponseType
<1>2. os \in Seq(ObligationType) /\ i \in DOMAIN answer /\ Len(os) \in Nat
  <2>1. answer \in ResponseType
    BY DEF TypeOK
  <2>2. os \in Seq(ObligationType) /\ i \in DOMAIN answer
    BY <1>1, <2>1, ResultTypes
  <2> HIDE DEF os
  <2> QED
    BY <2>2, LenProperties
<1>3. answer[i].decision = PERMIT /\ length = Len(os)
  <2>1. length = Brought(i) /\ length # 0
    BY DEF InAnswer, TypeOK
  <2> QED
    BY <1>1, <2>1 DEF Brought
<1>4. j \in 1 .. Len(os) /\ j \in DOMAIN os
  BY <1>2, <1>3 DEF TypeOK
<1>5. That = Current
  <2>1. Continues(response[i].obligations, os)
    BY <1>1 DEF AnswerExplained, Explained
  <2> QED
    BY <1>4, <2>1 DEF Continues, That, Current
<1>6. Current \in ObligationType
  <2> HIDE DEF os
  <2>1. os[j] \in ObligationType
    BY <1>2, <1>4, ElementOfSeq
  <2> QED
    BY <2>1 DEF Current, os
<1>7. Current.assignments \in Seq(AssignmentType)
  BY <1>6 DEF ObligationType
<1> QED
  BY <1>1, <1>2, <1>3, <1>4, <1>5, <1>6, <1>7 DEF IsAt

LEMMA InMappingAt ==
  ASSUME AdapterInv, at \in InObligation
  PROVE  IsAt(Current) /\ Current \in Mappings(answer[i]) /\ HasRead(Current, k - 1)
<1>1. at \in InHandler /\ i <= Len(answer) /\ j <= length /\ IsMapping(Current)
  BY DEF AdapterInv, InAnswer, InObligation
<1>2. IsAt(Current)
  BY <1>1, AtThat DEF AdapterInv
<1>3. Current \in Mappings(answer[i])
  BY <1>1, <1>2 DEF IsAt, IsMapping, Mappings, Current
<1> QED
  BY <1>2, <1>3 DEF AdapterInv, InMapping

-----------------------------------------------------------------------------
(* Obligations that are added to a result.                                 *)

\* q is r with obligation o added to result n.
GivesResult(q, r, n, o) ==
  /\ q \in ResponseType
  /\ Len(q) = Len(r)
  /\ \A m \in 1 .. Len(r) : m # n => q[m] = r[m]
  /\ q[n].decision = r[n].decision
  /\ q[n].obligations = Append(r[n].obligations, o)

LEMMA ResultGrows ==
  ASSUME NEW r \in ResponseType, NEW n \in 1 .. Len(r), NEW o \in ObligationType
  PROVE  GivesResult([r EXCEPT ![n].obligations = Append(@, o)], r, n, o)
<1> DEFINE t == Append(r[n].obligations, o)
           q == [r EXCEPT ![n].obligations = t]
           x == [r[n] EXCEPT !.obligations = t]
<1>1. r[n].obligations \in Seq(ObligationType) /\ r[n].decision \in STRING
      /\ r[n] = [decision |-> r[n].decision, obligations |-> r[n].obligations]
  BY ResultTypes
<1>2. t \in Seq(ObligationType)
  BY <1>1, AppendOne
<1> HIDE DEF t
<1>3. x = [decision |-> r[n].decision, obligations |-> t]
  BY <1>1
<1>4. x \in [decision : STRING, obligations : Seq(ObligationType)]
  BY <1>1, <1>2, <1>3
<1>5. q = [r EXCEPT ![n] = x]
  OBVIOUS
<1>6. x.decision = r[n].decision /\ x.obligations = t
  BY <1>3
<1> HIDE DEF x
<1>7. r \in Seq([decision : STRING, obligations : Seq(ObligationType)]) /\ DOMAIN r = 1 .. Len(r)
  BY LenProperties DEF ResponseType
<1>8. [r EXCEPT ![n] = x] \in Seq([decision : STRING, obligations : Seq(ObligationType)])
      /\ Len([r EXCEPT ![n] = x]) = Len(r)
  BY <1>4, <1>7, ExceptSeq
<1>9. [r EXCEPT ![n] = x][n] = x /\ \A m \in 1 .. Len(r) : m # n => [r EXCEPT ![n] = x][m] = r[m]
  BY <1>7
<1> HIDE DEF q
<1>10. GivesResult(q, r, n, o)
  BY <1>5, <1>6, <1>8, <1>9 DEF GivesResult, ResponseType, t
<1> QED
  BY <1>10 DEF q, t

\* The assignments added are some of es, each whole or without its value.
PartOf(added, es) ==
  \A m \in DOMAIN added : \E n \in DOMAIN es :
    added[m].id = es[n].id /\ added[m].value \in {es[n].value, NULL}

LEMMA ExplainedGrows ==
  ASSUME starved => starved', NEW was, NEW now, Explained(was, now), was.decision = PERMIT,
         was.obligations \in Seq(ObligationType), now.obligations \in Seq(ObligationType),
         NEW o \in ObligationType, NEW b \in Mappings(was), Says(b, o)',
         NEW new, new.decision = now.decision, new.obligations = Append(now.obligations, o)
  PROVE  Explained(was, new)'
<1> DEFINE u == was.obligations
           v == now.obligations
           w == new.obligations
<1>1. Explained(was, now)'
  BY ExplainedStays
<1>2. Len(v) >= Len(u) /\ (\A m \in 1 .. Len(u) : v[m] = u[m])
      /\ \A m \in Len(u) + 1 .. Len(v) : \E c \in Mappings(was) : Says(c, v[m])'
  BY <1>1 DEF Explained, Continues
<1>3. /\ w \in Seq(ObligationType) /\ Len(w) = Len(v) + 1
      /\ \A m \in 1 .. Len(v) : w[m] = v[m]
      /\ w[Len(v) + 1] = o
  <2>1. w = Append(v, o) /\ v \in Seq(ObligationType)
    OBVIOUS
  <2> HIDE DEF w, v
  <2> QED
    BY <2>1, AppendOne
<1>4. Len(u) \in Nat /\ Len(v) \in Nat
  BY LenProperties
<1> HIDE DEF u, v, w
<1>5. Len(w) >= Len(u) /\ \A m \in 1 .. Len(u) : w[m] = u[m]
  <2>1. \A m \in 1 .. Len(u) : m \in 1 .. Len(v)
    BY <1>2, <1>4
  <2> QED
    BY <1>2, <1>3, <1>4, <2>1
<1>6. ASSUME NEW m \in Len(u) + 1 .. Len(w)
      PROVE  \E c \in Mappings(was) : Says(c, w[m])'
  <2>1. CASE m = Len(v) + 1
    BY <1>3, <2>1
  <2>2. CASE m # Len(v) + 1
    <3>1. m \in Len(u) + 1 .. Len(v) /\ m \in 1 .. Len(v)
      BY <1>3, <1>4, <2>2
    <3>2. PICK c \in Mappings(was) : Says(c, v[m])'
      BY <1>2, <3>1
    <3>3. w[m] = v[m]
      BY <1>3, <3>1
    <3> QED
      BY <3>2, <3>3
  <2> QED
    BY <2>1, <2>2
<1>7. new.decision = was.decision
  BY <1>1 DEF Explained
<1> QED
  BY <1>5, <1>6, <1>7 DEF Explained, Continues, u, w

\* What an addition needs: the obligation b, and what is added speaks of it.
Speaks(b, id, es) ==
  \A added \in Seq(AssignmentType) :
    PartOf(added, es) /\ (starved' \/ added = es) => Says(b, Obligation(id, added))'

\* l of the assignments es, those not whole without their value
Kept(es, l, from, whole) ==
  [n \in 1 .. l |-> IF whole[n] THEN es[from[n]] ELSE Assignment(es[from[n]].id, NULL)]

LEMMA AddedPart ==
  ASSUME NEW es \in Seq(AssignmentType), NEW l \in Nat,
         NEW from \in [1 .. l -> DOMAIN es], NEW whole \in [1 .. l -> BOOLEAN]
  PROVE  Kept(es, l, from, whole) \in Seq(AssignmentType) /\ PartOf(Kept(es, l, from, whole), es)
<1>0. PICK added : added = [n \in 1 .. l |-> IF whole[n] THEN es[from[n]]
                                             ELSE Assignment(es[from[n]].id, NULL)]
  OBVIOUS
<1>1. \A n \in 1 .. l : from[n] \in DOMAIN es /\ es[from[n]] \in AssignmentType
  <2>1. \A m \in DOMAIN es : es[m] \in AssignmentType
    BY ElementOfSeq, LenProperties
  <2> QED
    BY <2>1
<1>2. \A n \in 1 .. l : added[n] \in AssignmentType
  <2> SUFFICES ASSUME NEW n \in 1 .. l PROVE added[n] \in AssignmentType
    OBVIOUS
  <2>1. PICK e \in AssignmentType : e = es[from[n]]
    BY <1>1
  <2>2. Assignment(e.id, NULL) \in AssignmentType
    BY <2>1 DEF Assignment, AssignmentType, Texts
  <2>3. added[n] = e \/ added[n] = Assignment(e.id, NULL)
    BY <1>0, <2>1
  <2> QED
    BY <2>1, <2>2, <2>3
<1>3. added \in Seq(AssignmentType) /\ DOMAIN added = 1 .. l
  <2> DEFINE f(n) == IF whole[n] THEN es[from[n]] ELSE Assignment(es[from[n]].id, NULL)
  <2>1. added = [n \in 1 .. l |-> f(n)] /\ \A n \in 1 .. l : f(n) \in AssignmentType
    BY <1>0, <1>2
  <2> HIDE DEF f
  <2>2. [n \in 1 .. l |-> f(n)] \in Seq(AssignmentType)
    BY <2>1
  <2> QED
    BY <2>1, <2>2
<1>4. ASSUME NEW m \in 1 .. l
      PROVE  \E n \in DOMAIN es : added[m].id = es[n].id /\ added[m].value \in {es[n].value, NULL}
  <2>1. added[m].id = es[from[m]].id /\ added[m].value \in {es[from[m]].value, NULL}
    BY <1>0 DEF Assignment
  <2> QED
    BY <1>1, <2>1
<1>5. added \in Seq(AssignmentType) /\ PartOf(added, es)
  BY <1>3, <1>4 DEF PartOf
<1> QED
  BY <1>0, <1>5 DEF Kept

LEMMA AddsKeeps ==
  ASSUME AdapterInv, fault = "none", at \in InObligation, UNCHANGED <<answer, i>>,
         NEW id \in Ids, NEW es \in Seq(AssignmentType), Adds(id, es),
         NEW b, b = Current, Speaks(b, id, es)
  PROVE  /\ Harmless /\ response' \in ResponseType /\ AnswerExplained'
         /\ \A n \in 1 .. Len(answer) : n > i => response'[n] = answer[n]
<1>1. TypeOK /\ AnswerExplained /\ IsAt(b) /\ b \in Mappings(answer[i])
  BY InMappingAt DEF AdapterInv
<1>2. /\ answer \in ResponseType /\ response \in ResponseType /\ Len(response) = Len(answer)
      /\ i \in 1 .. Len(answer) /\ i \in 1 .. Len(response) /\ Len(answer) \in Nat
      /\ \A n \in 1 .. Len(answer) : n > i => response[n] = answer[n]
  <2>1. answer \in ResponseType /\ response \in ResponseType /\ Len(response) = Len(answer)
        /\ i \in 1 .. Len(answer)
    BY <1>1 DEF TypeOK, AnswerExplained, IsAt
  <2>2. Len(answer) \in Nat
    BY <2>1, LenProperties DEF ResponseType
  <2>3. \A n \in 1 .. Len(answer) : n > i => response[n] = answer[n]
    BY DEF AdapterInv, RestUntouched, InObligation
  <2> QED
    BY <2>1, <2>2, <2>3
<1>3. CASE response' = response /\ \E os \in {{}, {"obligation"}, {"assignment"}} : Loses(os)
  <2>1. Harmless
    BY <1>1, <1>3, LosesIsHarmless
  <2>2. AnswerExplained'
    BY <1>1, <1>3, <2>1, AnswerStays DEF Harmless
  <2> QED
    BY <1>2, <1>3, <2>1, <2>2
<1> DEFINE Gives(l, added) ==
             /\ response' = [response EXCEPT ![i].obligations = Append(@, Obligation(id, added))]
             /\ IF added = es THEN Fine ELSE Loses(IF l < Len(es) THEN {"assignment"} ELSE {})
<1>4. ASSUME NEW l \in 0 .. Len(es), NEW from \in [1 .. l -> DOMAIN es],
             NEW whole \in [1 .. l -> BOOLEAN], NEW added,
             added = Kept(es, l, from, whole), Gives(l, added)
      PROVE  /\ Harmless /\ response' \in ResponseType /\ AnswerExplained'
             /\ \A n \in 1 .. Len(answer) : n > i => response'[n] = answer[n]
  <2>1. l \in Nat
    BY LenProperties
  <2>2. added \in Seq(AssignmentType) /\ PartOf(added, es)
    <3>1. Kept(es, l, from, whole) \in Seq(AssignmentType) /\ PartOf(Kept(es, l, from, whole), es)
      BY <2>1, AddedPart
    <3> QED
      BY <1>4, <3>1
  <2>3. Harmless /\ (starved' \/ added = es)
    BY <1>1, <1>4, FineIsHarmless, LosesIsHarmless
  <2>4. PICK o : o = Obligation(id, added)
    OBVIOUS
  <2>5. o \in ObligationType
    BY <2>2, <2>4 DEF Obligation, ObligationType
  <2>6. Says(b, o)'
    BY <2>2, <2>3, <2>4 DEF Speaks
  <2>7. GivesResult(response', response, i, o)
    BY <1>2, <1>4, <2>4, <2>5, ResultGrows
  <2>8. ASSUME NEW n \in 1 .. Len(answer) PROVE Explained(answer[n], response[n])'
    <3>1. PICK was, now, new : was = answer[n] /\ now = response[n] /\ new = response'[n]
      OBVIOUS
    <3>2. Explained(was, now)
      BY <1>1, <3>1 DEF AnswerExplained
    <3>3. CASE n # i
      <4>1. new = now
        BY <1>2, <2>7, <3>1, <3>3 DEF GivesResult
      <4>2. Explained(was, now)'
        BY <2>3, <3>2, ExplainedStays DEF Harmless
      <4> QED
        BY <3>1, <4>1, <4>2
    <3>4. CASE n = i
      <4>1. /\ was.obligations \in Seq(ObligationType) /\ now.obligations \in Seq(ObligationType)
            /\ was.decision = PERMIT /\ b \in Mappings(was)
        BY <1>1, <1>2, <3>1, <3>4, ResultTypes DEF IsAt
      <4>2. new.decision = now.decision /\ new.obligations = Append(now.obligations, o)
        BY <2>7, <3>1, <3>4 DEF GivesResult
      <4>3. starved => starved'
        BY <2>3 DEF Harmless
      <4>4. Explained(was, new)'
        BY <2>5, <2>6, <3>2, <4>1, <4>2, <4>3, ExplainedGrows
      <4> QED
        BY <3>1, <4>4
    <3> QED
      BY <3>3, <3>4
  <2>9. response' \in ResponseType /\ Len(response') = Len(answer)
        /\ \A n \in 1 .. Len(answer) : n > i => response'[n] = answer[n]
    BY <1>2, <2>7 DEF GivesResult
  <2>10. AnswerExplained'
    BY <2>8, <2>9 DEF AnswerExplained
  <2> QED
    BY <2>3, <2>9, <2>10
<1> DEFINE Part(l, from, whole) ==
             LET added == [n \in 1 .. l |-> IF whole[n] THEN es[from[n]]
                                            ELSE Assignment(es[from[n]].id, NULL)]
             IN  /\ \A n \in 1 .. l - 1 : from[n] < from[n + 1]
                 /\ response' = [response EXCEPT ![i].obligations = Append(@, Obligation(id, added))]
                 /\ IF added = es THEN Fine ELSE Loses(IF l < Len(es) THEN {"assignment"} ELSE {})
<1>5. ASSUME NEW l \in 0 .. Len(es), NEW from \in [1 .. l -> DOMAIN es],
             NEW whole \in [1 .. l -> BOOLEAN], Part(l, from, whole)
      PROVE  /\ Harmless /\ response' \in ResponseType /\ AnswerExplained'
             /\ \A n \in 1 .. Len(answer) : n > i => response'[n] = answer[n]
  <2>1. PICK added : added = Kept(es, l, from, whole)
    OBVIOUS
  <2>2. Gives(l, added)
    BY <1>5, <2>1 DEF Kept
  <2> HIDE DEF Gives
  <2> QED
    BY <1>4, <2>1, <2>2
<1>6. \/ UNCHANGED response /\ \E os \in {{}, {"obligation"}, {"assignment"}} : Loses(os)
      \/ \E l \in 0 .. Len(es) : \E from \in [1 .. l -> DOMAIN es], whole \in [1 .. l -> BOOLEAN] :
           Part(l, from, whole)
  BY Zenon DEF Adds
<1> HIDE DEF Part
<1> QED
  BY <1>3, <1>5, <1>6

-----------------------------------------------------------------------------
(* The steps of the obligation handler.                                    *)

LEMMA BroughtIsNat == ASSUME TypeOK, NEW n \in Nat \ {0} PROVE Brought(n) \in Nat
<1>1. CASE n <= Len(answer)
  <2>1. n \in 1 .. Len(answer) /\ answer \in ResponseType
    <3>1. answer \in ResponseType /\ Len(answer) \in Nat
      BY LenProperties DEF TypeOK, ResponseType
    <3> QED
      BY <1>1, <3>1
  <2>2. answer[n].obligations \in Seq(ObligationType)
    BY <2>1, ResultTypes
  <2>3. Len(answer[n].obligations) \in Nat
    BY <2>2, LenProperties
  <2> QED
    BY <2>3 DEF Brought
<1> QED
  BY <1>1 DEF Brought

LEMMA BeginHandlerKeeps ==
  ASSUME AdapterInv, fault = "none", BeginHandler
  PROVE  AdapterInv'
<1>1. TypeOK /\ Harmless
  BY FineIsHarmless DEF AdapterInv, BeginHandler
<1>2. PICK r \in Responses : answer' = r /\ response' = r
  BY DEF BeginHandler
<1>3. r \in ResponseType
  BY ResponseAssumption
<1>4. /\ at' = "obligations" /\ at' # "subjects" /\ at' \notin InObligation
      /\ UNCHANGED <<calls, original, request, user, group, groups, room, k>>
      /\ i' = 1 /\ j' = 1
      /\ length' = IF Len(response') > 0 /\ response'[1].decision = PERMIT
                   THEN Len(response'[1].obligations) ELSE 0
  BY DEF BeginHandler, InObligation
<1>5. length' = Brought(i)'
  <2>1. Len(r) > 0 <=> 1 <= Len(r)
    <3>1. Len(r) \in Nat
      BY <1>3, LenProperties DEF ResponseType
    <3> QED
      BY <3>1
  <2> QED
    BY <1>2, <1>4, <2>1 DEF Brought
<1>6. TypeOK'
  <2>1. length' \in Nat
    <3>1. CASE Len(r) > 0
      <4>1. 1 \in 1 .. Len(r)
        <5>1. Len(r) \in Nat
          BY <1>3, LenProperties DEF ResponseType
        <5> QED
          BY <3>1, <5>1
      <4>2. r[1].obligations \in Seq(ObligationType)
        BY <1>3, <4>1, ResultTypes
      <4>3. Len(r[1].obligations) \in Nat
        BY <4>2, LenProperties
      <4> QED
        BY <1>2, <1>4, <4>3
    <3>2. CASE ~(Len(r) > 0)
      BY <1>2, <1>4, <3>2
    <3> QED
      BY <3>1, <3>2
  <2> QED
    BY <1>1, <1>2, <1>3, <1>4, <2>1 DEF TypeOK, Harmless
<1>7. AnswerExplained'
  <2> SUFFICES ASSUME NEW n \in 1 .. Len(r) PROVE Explained(r[n], r[n])'
    BY <1>2 DEF AnswerExplained
  <2>1. r[n].obligations \in Seq(ObligationType)
    BY <1>3, ResultTypes
  <2>2. Len(r[n].obligations) \in Nat
    BY <2>1, LenProperties
  <2>3. Continues(r[n].obligations, r[n].obligations)
    BY <2>2 DEF Continues
  <2>4. Len(r[n].obligations) + 1 .. Len(r[n].obligations) = {}
    BY <2>2
  <2> QED
    BY <2>3, <2>4 DEF Explained, Continues
<1>8. RestUntouched' /\ InAnswer' /\ InMapping'
  BY <1>2, <1>4, <1>5 DEF RestUntouched, InAnswer, InMapping, InObligation
<1> QED
  BY <1>1, <1>4, <1>6, <1>7, <1>8, HandlerStep

LEMMA ObligationFacts ==
  ASSUME AdapterInv, AtObligation
  PROVE  TypeOK /\ at = "obligations" /\ at \in InHandler /\ IsAt(Current)
<1>1. TypeOK /\ AnswerExplained /\ InAnswer /\ at = "obligations" /\ at \in InHandler
      /\ i <= Len(answer) /\ j <= length
  BY DEF AdapterInv, AtObligation, AnswerExplained, InHandler
<1> QED
  BY <1>1, AtThat

LEMMA NullObligationKeeps ==
  ASSUME AdapterInv, fault = "none", NullObligation
  PROVE  AdapterInv'
<1>1. Fault("null_id") /\ IsAt(Current) /\ That.id = NULL
  BY ObligationFacts DEF NullObligation
<1>2. NamelessResult(answer[i])
  BY <1>1 DEF IsAt, NamelessResult, Current
<1>3. Nameless' /\ Overflown'
  BY <1>1, <1>2 DEF Fault, given, IsAt, Nameless, Overflown
<1> QED
  BY <1>1, <1>3, FaultStep

LEMMA SkipObligationKeeps ==
  ASSUME AdapterInv, fault = "none", SkipObligation
  PROVE  AdapterInv'
<1>1. TypeOK /\ Harmless /\ at = "obligations"
  BY FineIsHarmless DEF AdapterInv, SkipObligation, AtObligation
<1>2. /\ at' = "obligations" /\ at' # "subjects" /\ at' \notin InObligation
      /\ UNCHANGED <<calls, original, answer, request, response, i, k, length,
                     user, group, groups, room>>
      /\ j' = j + 1
  BY <1>1 DEF SkipObligation, OhStep, given, InObligation
<1>3. TypeOK'
  BY <1>1, <1>2 DEF TypeOK, Harmless
<1>4. AnswerExplained'
  BY <1>1, <1>2, AnswerStays DEF AdapterInv, Harmless
<1>5. RestUntouched' /\ InAnswer' /\ InMapping'
  BY <1>1, <1>2 DEF AdapterInv, RestUntouched, InAnswer, InMapping, InObligation, Brought, InHandler
<1> QED
  BY <1>1, <1>2, <1>3, <1>4, <1>5, HandlerStep

LEMMA OpenObligationKeeps ==
  ASSUME AdapterInv, fault = "none", OpenObligation
  PROVE  AdapterInv'
<1>1. TypeOK /\ at = "obligations" /\ IsAt(Current) /\ IsMapping(Current)
  BY ObligationFacts DEF OpenObligation, IsMapping, IsAt
<1>2. Harmless /\ room' \in BOOLEAN /\ (~room' => starved')
  BY <1>1, FineIsHarmless, LosesIsHarmless DEF OpenObligation
<1>3. /\ at' = "assignments" /\ at' # "subjects" /\ at' \in InObligation
      /\ UNCHANGED <<calls, original, answer, request, response, i, j, length>>
      /\ k' = 1 /\ user' = NULL /\ group' = NULL /\ groups' = <<>>
  BY DEF OpenObligation, OhStep, given, InObligation, InHandler
<1>4. TypeOK'
  <2>1. <<>> \in Seq(Texts)
    BY EmptySeq
  <2> QED
    BY <1>1, <1>2, <1>3, <2>1 DEF TypeOK, Harmless, Texts
<1>5. AnswerExplained'
  BY <1>2, <1>3, AnswerStays DEF AdapterInv, Harmless
<1>6. RestUntouched' /\ InAnswer'
  <2>1. length = Brought(i)
    BY <1>1 DEF IsAt, Brought
  <2>2. i <= Len(answer) /\ j <= length
    BY <1>1 DEF IsAt, OpenObligation, AtObligation
  <2>3. \A n \in 1 .. Len(answer) : n > i => response[n] = answer[n]
    BY <1>1 DEF AdapterInv, RestUntouched, InHandler
  <2> QED
    BY <1>1, <1>3, <2>1, <2>2, <2>3 DEF RestUntouched, InAnswer, Brought, IsMapping, Current
<1>7. InMapping'
  <2>1. PICK b : b = Current /\ b.assignments \in Seq(AssignmentType)
    BY <1>1 DEF IsAt
  <2>2. \A id : ValuesAmong(b, id)[0] = <<>>
    BY <2>1, ValuesAreFound DEF Finds
  <2>3. 0 \in 0 .. Len(b.assignments) /\ LastOf(<<>>) = NULL
    <3>1. Len(b.assignments) \in Nat
      BY <2>1, LenProperties
    <3> QED
      BY <3>1 DEF LastOf
  <2>4. b = Current' /\ k' - 1 = 0
    BY <1>3, <2>1 DEF Current
  <2>5. HasRead(Current, k - 1)'
    BY <1>3, <2>2, <2>3, <2>4 DEF HasRead
  <2> QED
    BY <1>3, <2>5 DEF InMapping
<1> QED
  BY <1>2, <1>3, <1>4, <1>5, <1>6, <1>7, HandlerStep

LEMMA NextResultKeeps ==
  ASSUME AdapterInv, fault = "none", NextResult
  PROVE  AdapterInv'
<1>1. TypeOK /\ Harmless /\ at = "obligations" /\ i \in Nat \ {0}
  BY FineIsHarmless DEF AdapterInv, NextResult, TypeOK
<1>2. /\ at' = "obligations" /\ at' # "subjects" /\ at' \notin InObligation
      /\ UNCHANGED <<calls, original, answer, request, response, k, user, group, groups, room>>
      /\ i' = i + 1 /\ j' = 1 /\ length' = ObligationsOf(i + 1)
  BY <1>1 DEF NextResult, OhStep, given, InObligation
<1>3. Len(answer) \in Nat /\ Len(response) = Len(answer)
      /\ \A n \in 1 .. Len(answer) : n > i => response[n] = answer[n]
  <2>1. Len(answer) \in Nat
    BY <1>1, LenProperties DEF TypeOK, ResponseType
  <2> QED
    BY <1>1, <2>1 DEF AdapterInv, AnswerExplained, RestUntouched, InHandler
<1>4. length' = Brought(i)'
  <2>1. PICK n \in Nat : n = i + 1 /\ n > i /\ n # 0
    BY <1>1
  <2>2. n <= Len(answer) => n \in 1 .. Len(answer)
    BY <1>3, <2>1
  <2>3. n <= Len(answer) => response[n] = answer[n]
    BY <1>3, <2>1, <2>2
  <2>4. ObligationsOf(n) = Brought(n)
    BY <1>3, <2>3 DEF ObligationsOf, Permits, Brought
  <2>5. Brought(i)' = Brought(n)
    BY <1>2, <2>1 DEF Brought
  <2> QED
    BY <1>2, <2>1, <2>4, <2>5
<1>5. TypeOK'
  <2>1. i + 1 \in Nat \ {0}
    BY <1>1
  <2>2. Brought(i + 1) \in Nat
    BY <1>1, <2>1, BroughtIsNat
  <2>3. Brought(i)' = Brought(i + 1)
    BY <1>2 DEF Brought
  <2> QED
    BY <1>1, <1>2, <1>4, <2>1, <2>2, <2>3 DEF TypeOK, Harmless
<1>6. AnswerExplained'
  BY <1>1, <1>2, AnswerStays DEF AdapterInv, Harmless
<1>7. RestUntouched'
  <2>1. \A n \in 1 .. Len(answer) : n > i + 1 => n > i
    BY <1>1
  <2> QED
    BY <1>2, <1>3, <2>1 DEF RestUntouched
<1>8. InAnswer' /\ InMapping'
  BY <1>2, <1>4 DEF InAnswer, InMapping, InObligation
<1> QED
  BY <1>1, <1>2, <1>5, <1>6, <1>7, <1>8, HandlerStep

\* The assignment that the handler reads is the k-th of the obligation.
LEMMA AssignmentFacts ==
  ASSUME AdapterInv, AtAssignment
  PROVE  /\ TypeOK /\ at = "assignments" /\ at \in InObligation
         /\ IsAt(Current) /\ Current \in Mappings(answer[i]) /\ HasRead(Current, k - 1)
         /\ k \in 1 .. Len(Current.assignments) /\ k \in DOMAIN Current.assignments
         /\ It = Current.assignments[k] /\ It \in AssignmentType
<1>1. TypeOK /\ at = "assignments" /\ at \in InObligation
  BY DEF AdapterInv, AtAssignment, InObligation, InHandler
<1>2. IsAt(Current) /\ Current \in Mappings(answer[i]) /\ HasRead(Current, k - 1)
  BY <1>1, InMappingAt
<1>3. That = Current /\ Current.assignments \in Seq(AssignmentType)
  BY <1>2 DEF IsAt
<1>4. k \in 1 .. Len(Current.assignments) /\ It = Current.assignments[k]
  <2>1. Len(Current.assignments) \in Nat
    BY <1>3, LenProperties
  <2> QED
    BY <1>1, <1>3, <2>1 DEF AtAssignment, It, TypeOK
<1>5. It \in AssignmentType
  BY <1>3, <1>4, ElementOfSeq
<1> QED
  BY <1>1, <1>2, <1>3, <1>4, <1>5, LenProperties

LEMMA NullAssignmentKeeps ==
  ASSUME AdapterInv, fault = "none", NullAssignment
  PROVE  AdapterInv'
<1>1. /\ Fault("null_id") /\ IsAt(Current) /\ Current \in Mappings(answer[i])
      /\ k \in DOMAIN Current.assignments /\ Current.assignments[k].id = NULL
  BY AssignmentFacts DEF NullAssignment
<1>2. NamelessResult(answer[i])
  BY <1>1 DEF IsAt, NamelessResult
<1>3. Nameless' /\ Overflown'
  BY <1>1, <1>2 DEF Fault, given, IsAt, Nameless, Overflown
<1> QED
  BY <1>1, <1>3, FaultStep

LEMMA NoRoomKeeps ==
  ASSUME AdapterInv, fault = "none", NoRoom
  PROVE  AdapterInv'
<1>1. Fault("null_array") /\ starved
  BY AssignmentFacts DEF NoRoom, AdapterInv, Starving
<1>2. Nameless' /\ Overflown'
  BY <1>1 DEF Fault, Nameless, Overflown
<1> QED
  BY <1>1, <1>2, FaultStep

\* The value that is read goes on with what was found before.
LEMMA ReadsOn ==
  ASSUME NEW b, b.assignments \in Seq(AssignmentType), NEW id,
         NEW n \in 1 .. Len(b.assignments)
  PROVE  /\ ValuesAmong(b, id)[n] = Found(ValuesAmong(b, id)[n - 1], b.assignments[n], id)
         /\ ValuesAmong(b, id)[n - 1] \in Seq(Texts)
         /\ ValuesAmong(b, id)[n] \in Seq(Texts)
         /\ Len(ValuesAmong(b, id)[n]) <= Len(Values(b, id))
<1>1. Finds(ValuesAmong(b, id), b.assignments, id)
  BY ValuesAreFound
<1>2. n \in 0 .. Len(b.assignments) /\ n - 1 \in 0 .. Len(b.assignments)
  OBVIOUS
<1> QED
  BY <1>1, <1>2 DEF Finds, Values

LEMMA TooManyKeeps ==
  ASSUME AdapterInv, fault = "none", TooMany
  PROVE  AdapterInv'
<1>1. /\ Fault("overflow") /\ It.id = GroupId /\ Len(groups) = NGroupsMax
      /\ IsAt(Current) /\ Current \in Mappings(answer[i]) /\ HasRead(Current, k - 1)
      /\ k \in 1 .. Len(Current.assignments) /\ It = Current.assignments[k]
      /\ It \in AssignmentType
  BY AssignmentFacts DEF TooMany
<1>2. PICK b : b = Current /\ b.assignments \in Seq(AssignmentType)
  BY <1>1 DEF IsAt
<1> DEFINE v == ValuesAmong(b, GroupId)[k - 1]
           w == ValuesAmong(b, GroupId)[k]
<1>3. w = Found(v, It, GroupId) /\ v \in Seq(Texts) /\ w \in Seq(Texts)
      /\ Len(w) <= Len(Values(b, GroupId))
  BY <1>1, <1>2, ReadsOn
<1>4. v = groups
  BY <1>1, <1>2 DEF HasRead
<1> HIDE DEF v, w
<1>5. Len(w) = NGroupsMax + 1
  <2>1. w = Append(v, It.value) /\ It.value \in Texts
    BY <1>1, <1>3 DEF Found, AssignmentType
  <2> QED
    BY <1>1, <1>3, <1>4, <2>1, AppendOne
<1>6. Len(Values(b, GroupId)) > NGroupsMax
  <2>1. Len(Values(b, GroupId)) \in Nat
    <3>1. Finds(ValuesAmong(b, GroupId), b.assignments, GroupId) /\ Len(b.assignments) \in Nat
      BY <1>2, ValuesAreFound, LenProperties
    <3>2. Values(b, GroupId) \in Seq(Texts)
      BY <3>1 DEF Finds, Values
    <3> QED
      BY <3>2, LenProperties
  <2> QED
    BY <1>3, <1>5, <2>1, AdapterAssumption
<1>7. Nameless' /\ Overflown'
  BY <1>1, <1>2, <1>6 DEF Fault, given, IsAt, Nameless, Overflown
<1> QED
  BY <1>1, <1>7, FaultStep

LEMMA LastFound ==
  ASSUME NEW v \in Seq(Texts), NEW a \in AssignmentType, NEW id
  PROVE  LastOf(Found(v, a, id)) = IF a.id = id THEN a.value ELSE LastOf(v)
<1>1. CASE a.id = id
  <2> DEFINE w == Append(v, a.value)
  <2>1. a.value \in Texts
    BY DEF AssignmentType
  <2>2. w \in Seq(Texts) /\ Len(w) = Len(v) + 1 /\ w[Len(v) + 1] = a.value /\ Len(v) \in Nat
    BY <2>1, AppendOne, LenProperties
  <2> HIDE DEF w
  <2>3. w # <<>>
    BY <2>2
  <2>4. LastOf(w) = a.value
    BY <2>2, <2>3 DEF LastOf
  <2> QED
    BY <1>1, <2>4 DEF Found, w
<1> QED
  BY <1>1 DEF Found

LEMMA ReadAssignmentKeeps ==
  ASSUME AdapterInv, fault = "none", ReadAssignment
  PROVE  AdapterInv'
<1>1. /\ TypeOK /\ at = "assignments" /\ at \in InObligation
      /\ IsAt(Current) /\ HasRead(Current, k - 1)
      /\ k \in 1 .. Len(Current.assignments) /\ It = Current.assignments[k]
      /\ It \in AssignmentType
  BY AssignmentFacts DEF ReadAssignment
<1>2. /\ at' = at /\ at' # "subjects" /\ at' \in InObligation /\ Harmless
      /\ starved' = starved
      /\ UNCHANGED <<calls, original, answer, request, response, i, j, length, room>>
      /\ k' = k + 1
      /\ user'   = (IF It.id = UserId THEN It.value ELSE user)
      /\ group'  = (IF It.id = GroupIdPrimary THEN It.value ELSE group)
      /\ groups' = (IF It.id = GroupId THEN Append(groups, It.value) ELSE groups)
  BY <1>1, FineIsHarmless DEF ReadAssignment, OhStep, given, Fine
<1>3. It.value \in Texts /\ groups \in Seq(Texts)
  BY <1>1 DEF AssignmentType, TypeOK
<1>4. TypeOK'
  <2>1. Append(groups, It.value) \in Seq(Texts)
    BY <1>3, AppendOne
  <2> QED
    BY <1>1, <1>2, <1>3, <2>1 DEF TypeOK, Harmless
<1>5. AnswerExplained'
  BY <1>2, AnswerStays DEF AdapterInv
<1>6. RestUntouched' /\ InAnswer'
  BY <1>2 DEF AdapterInv, RestUntouched, InAnswer, Brought, Current
<1>7. InMapping'
  <2>1. PICK b : b = Current /\ b.assignments \in Seq(AssignmentType)
    BY <1>1 DEF IsAt
  <2>2. \A id : /\ ValuesAmong(b, id)[k] = Found(ValuesAmong(b, id)[k - 1], It, id)
                /\ ValuesAmong(b, id)[k - 1] \in Seq(Texts)
    BY <1>1, <2>1, ReadsOn
  <2>3. \A id : LastOf(ValuesAmong(b, id)[k])
                  = IF It.id = id THEN It.value ELSE LastOf(ValuesAmong(b, id)[k - 1])
    BY <1>1, <2>2, LastFound
  <2>4. /\ user = LastOf(ValuesAmong(b, UserId)[k - 1])
        /\ group = LastOf(ValuesAmong(b, GroupIdPrimary)[k - 1])
        /\ groups = ValuesAmong(b, GroupId)[k - 1]
    BY <1>1, <2>1 DEF HasRead
  <2>5. /\ user' = LastOf(ValuesAmong(b, UserId)[k])
        /\ group' = LastOf(ValuesAmong(b, GroupIdPrimary)[k])
        /\ groups' = ValuesAmong(b, GroupId)[k]
    BY <1>2, <2>2, <2>3, <2>4 DEF Found
  <2>6. b = Current' /\ k' - 1 = k /\ k \in 0 .. Len(b.assignments)
    <3>1. b = Current' /\ k \in 1 .. Len(b.assignments)
      BY <1>1, <1>2, <2>1 DEF Current
    <3>2. k \in Nat /\ k' = k + 1
      BY <1>1, <1>2 DEF TypeOK
    <3>3. k' - 1 = k
      BY <3>2
    <3>4. k \in 0 .. Len(b.assignments)
      BY <3>1
    <3> QED
      BY <3>1, <3>3, <3>4
  <2>7. HasRead(Current, k - 1)'
    BY <2>5, <2>6 DEF HasRead
  <2> QED
    BY <1>1, <1>2, <2>7 DEF InMapping
<1>8. at' \in InObligation /\ ~room' => starved'
  BY <1>1, <1>2 DEF AdapterInv, Starving
<1> QED
  BY <1>2, <1>4, <1>5, <1>6, <1>7, <1>8, HandlerStep

LEMMA EndOfAssignmentsKeeps ==
  ASSUME AdapterInv, fault = "none", EndOfAssignments
  PROVE  AdapterInv'
<1>1. TypeOK /\ at = "assignments" /\ at \in InObligation
  BY DEF AdapterInv, EndOfAssignments, InObligation, InHandler
<1>2. /\ at' = "username" /\ at' # "subjects" /\ at' \in InObligation /\ at' \in InHandler
      /\ Harmless /\ starved' = starved
      /\ UNCHANGED <<calls, original, answer, request, response, i, j, k, length,
                     user, group, groups, room>>
  BY <1>1, FineIsHarmless
  DEF EndOfAssignments, OhStep, given, loop, InObligation, InHandler, Fine
<1>3. TypeOK'
  BY <1>1, <1>2 DEF TypeOK, Harmless
<1>4. AnswerExplained'
  BY <1>2, AnswerStays DEF AdapterInv
<1>5. RestUntouched' /\ InAnswer'
  BY <1>1, <1>2 DEF AdapterInv, RestUntouched, InAnswer, Brought, Current, InObligation
<1>6. InMapping'
  <2>1. IsAt(Current) /\ HasRead(Current, k - 1)
    BY <1>1, InMappingAt
  <2>2. k > Len(Current.assignments) /\ Len(Current.assignments) \in Nat
    <3>1. That = Current /\ Current.assignments \in Seq(AssignmentType)
      BY <2>1 DEF IsAt
    <3> QED
      BY <3>1, LenProperties DEF EndOfAssignments
  <2>3. k - 1 = Len(Current.assignments)
    BY <1>1, <2>1, <2>2 DEF HasRead, TypeOK
  <2> QED
    BY <1>2, <2>1, <2>3 DEF InMapping, HasRead, Current
<1>7. ~room' => starved'
  BY <1>1, <1>2 DEF AdapterInv, Starving
<1> QED
  BY <1>2, <1>3, <1>4, <1>5, <1>6, <1>7, HandlerStep

-----------------------------------------------------------------------------
(* What the handler adds for one obligation.                               *)

Adding == InObligation \ {"assignments"}

\* a step that added what it should
Grown ==
  /\ Harmless /\ response' \in ResponseType /\ AnswerExplained'
  /\ \A n \in 1 .. Len(answer) : n > i => response'[n] = answer[n]

LEMMA NothingAdded ==
  ASSUME AdapterInv, at \in InObligation, Harmless, UNCHANGED <<answer, response>>
  PROVE  Grown
<1>1. AnswerExplained'
  BY AnswerStays DEF AdapterInv, Harmless
<1>2. response \in ResponseType /\ \A n \in 1 .. Len(answer) : n > i => response[n] = answer[n]
  BY DEF AdapterInv, TypeOK, RestUntouched, InObligation
<1> QED
  BY <1>1, <1>2 DEF Grown

LEMMA AddingStep ==
  ASSUME AdapterInv, at \in Adding, Grown,
         UNCHANGED <<calls, original, answer, request, i, k, length, user, group, groups, room>>,
         \/ at' \in Adding /\ j' = j
         \/ at' = "obligations" /\ j' = j + 1
  PROVE  AdapterInv'
<1>1. TypeOK /\ at \in InObligation /\ at \in InHandler /\ Harmless
  BY DEF AdapterInv, Adding, InObligation, Grown
<1>2. at' # "subjects" /\ at' \in InHandler
  BY DEF Adding, InObligation, InHandler
<1>3. TypeOK'
  <2>1. j' \in Nat \ {0}
    BY <1>1 DEF TypeOK
  <2> QED
    BY <1>1, <2>1 DEF TypeOK, Grown, Harmless
<1>4. AnswerExplained' /\ RestUntouched'
  BY DEF Grown, RestUntouched
<1>5. InAnswer'
  BY <1>1 DEF AdapterInv, InAnswer, Brought, Current, Adding, InObligation
<1>6. InMapping'
  BY <1>1 DEF AdapterInv, InMapping, HasRead, Current, Adding, InObligation
<1>7. at' \in InObligation /\ ~room' => starved'
  BY <1>1 DEF AdapterInv, Starving, Harmless
<1> QED
  BY <1>1, <1>2, <1>3, <1>4, <1>5, <1>6, <1>7, HandlerStep

\* By then the whole obligation has been read.
LEMMA AddingFacts ==
  ASSUME AdapterInv, at \in Adding
  PROVE  /\ TypeOK /\ at \in InObligation /\ IsAt(Current)
         /\ user = Last(Current, UserId) /\ group = Last(Current, GroupIdPrimary)
         /\ groups = Values(Current, GroupId)
<1>1. TypeOK /\ at \in InObligation /\ at \in InObligation \ {"assignments"}
  BY DEF AdapterInv, Adding
<1>2. IsAt(Current) /\ HasRead(Current, k - 1) /\ k - 1 = Len(Current.assignments)
  BY <1>1, InMappingAt DEF AdapterInv, InMapping
<1> QED
  BY <1>1, <1>2 DEF HasRead, Last, Values

LEMMA OnePart ==
  ASSUME NEW e, NEW added, PartOf(added, <<e>>), NEW m \in DOMAIN added
  PROVE  added[m].id = e.id /\ added[m].value \in {e.value, NULL}
<1>1. PICK n \in DOMAIN <<e>> : added[m].id = <<e>>[n].id /\ added[m].value \in {<<e>>[n].value, NULL}
  BY DEF PartOf
<1> QED
  BY <1>1

LEMMA TwoParts ==
  ASSUME NEW e, NEW f, NEW added, PartOf(added, <<e, f>>), NEW m \in DOMAIN added, e.id # f.id
  PROVE  /\ added[m].id = e.id => added[m].value \in {e.value, NULL}
         /\ added[m].id = f.id => added[m].value \in {f.value, NULL}
<1>1. PICK n \in DOMAIN <<e, f>> :
        added[m].id = <<e, f>>[n].id /\ added[m].value \in {<<e, f>>[n].value, NULL}
  BY DEF PartOf
<1>2. n = 1 \/ n = 2
  OBVIOUS
<1> QED
  BY <1>1, <1>2

LEMMA AddUsernameKeeps ==
  ASSUME AdapterInv, fault = "none", AddUsername
  PROVE  AdapterInv'
<1>1. at \in Adding
  BY DEF AddUsername, Adding, InObligation, InHandler
<1>2. PICK b : b = Current
  OBVIOUS
<1>3. TypeOK /\ at \in InObligation /\ user = Last(b, UserId) /\ user \in Texts
  BY <1>1, <1>2, AddingFacts DEF TypeOK
<1>4. /\ at' \in Adding
      /\ UNCHANGED <<calls, original, answer, request, i, j, k, length, user, group, groups, room>>
  BY DEF AddUsername, Goes, given, loop, Adding, InObligation, InHandler
<1>5. CASE user # NULL
  <2> DEFINE e == Assignment(UsernameText, user)
  <2>1. Adds(Username, <<e>>)
    BY <1>5 DEF AddUsername
  <2>2. Username \in Ids /\ UsernameText \in Ids
    BY GivenIds DEF Ids
  <2>3. e \in AssignmentType /\ e.id = UsernameText /\ e.value = user
    BY <1>3, <2>2 DEF Assignment, AssignmentType
  <2> HIDE DEF e
  <2>4. <<e>> \in Seq(AssignmentType)
    BY <2>3, OneSegment
  <2>5. ASSUME NEW added, PartOf(added, <<e>>) PROVE Says(b, Obligation(Username, added))'
    <3>1. PICK o : o = Obligation(Username, added)
      OBVIOUS
    <3>2. o.id = Username /\ o.assignments = added
      BY <3>1 DEF Obligation
    <3>3. \A m \in DOMAIN added : added[m].value \in {Last(b, UserId), NULL}
      BY <1>3, <2>3, <2>5, OnePart
    <3>4. Says(b, o)'
      BY <3>2, <3>3 DEF Says
    <3> QED
      BY <3>1, <3>4
  <2>6. Speaks(b, Username, <<e>>)
    BY <2>5 DEF Speaks
  <2>7. Grown
    BY <1>2, <1>3, <1>4, <2>1, <2>2, <2>4, <2>6, AddsKeeps DEF Grown
  <2> QED
    BY <1>1, <1>4, <2>7, AddingStep
<1>6. CASE user = NULL
  <2>1. Harmless /\ UNCHANGED <<answer, response>>
    BY <1>3, <1>4, <1>6, FineIsHarmless DEF AddUsername
  <2>2. Grown
    BY <1>3, <2>1, NothingAdded
  <2> QED
    BY <1>1, <1>4, <2>2, AddingStep
<1> QED
  BY <1>5, <1>6

LEMMA PosixIds == PosixUid # PosixGid
BY DEF PosixUid, PosixGid

LEMMA AccountTypes ==
  ASSUME NEW name \in DOMAIN Passwd
  PROVE  Passwd[name].uid \in STRING /\ Passwd[name].gid \in STRING
<1>1. Passwd[name] \in [uid : STRING, gid : STRING]
  BY AccountAssumption
<1> QED
  BY <1>1

LEMMA GroupTypes == ASSUME NEW name \in DOMAIN Group PROVE Group[name] \in STRING
BY AccountAssumption

LEMMA AddUidGidKeeps ==
  ASSUME AdapterInv, fault = "none", AddUidGid
  PROVE  AdapterInv'
<1>1. at \in Adding
  BY DEF AddUidGid, Adding, InObligation, InHandler
<1>2. PICK b : b = Current
  OBVIOUS
<1>3. TypeOK /\ at \in InObligation /\ user = Last(b, UserId) /\ group = Last(b, GroupIdPrimary)
  BY <1>1, <1>2, AddingFacts
<1>4. /\ at' \in Adding
      /\ UNCHANGED <<calls, original, answer, request, i, j, k, length, user, group, groups, room>>
  BY DEF AddUidGid, Goes, given, loop, Adding, InObligation, InHandler
<1>5. CASE UNCHANGED response /\ Fine
  <2>1. Harmless /\ UNCHANGED <<answer, response>>
    BY <1>3, <1>4, <1>5, FineIsHarmless
  <2>2. Grown
    BY <1>3, <2>1, NothingAdded
  <2> QED
    BY <1>1, <1>4, <2>2, AddingStep
<1>6. ASSUME NEW account \in Account \ {NULL}, NEW gid \in PrimaryGid(account.gid),
             Adds(UidGid, <<Assignment(PosixUid, account.uid), Assignment(PosixGid, gid)>>)
      PROVE  AdapterInv'
  <2> DEFINE e == Assignment(PosixUid, account.uid)
             f == Assignment(PosixGid, gid)
  <2>1. user \in DOMAIN Passwd /\ account = Passwd[user] /\ account # NULL
    BY <1>6 DEF Account
  <2>2. gid \in {account.gid} \cup (GidOf(group) \ {NULL})
    BY <1>6 DEF PrimaryGid
  <2>3. account.uid \in Texts /\ gid \in Texts
    <3>1. account.uid \in STRING /\ account.gid \in STRING
      BY <2>1, AccountTypes
    <3>2. gid \in STRING
      BY <2>2, <3>1, GroupTypes DEF GidOf
    <3> QED
      BY <3>1, <3>2 DEF Texts
  <2>4. UidGid \in Ids /\ PosixUid \in Ids /\ PosixGid \in Ids
    BY GivenIds DEF Ids
  <2>5. /\ e \in AssignmentType /\ e.id = PosixUid /\ e.value = account.uid
        /\ f \in AssignmentType /\ f.id = PosixGid /\ f.value = gid
    BY <2>3, <2>4 DEF Assignment, AssignmentType
  <2>6. Adds(UidGid, <<e, f>>)
    BY <1>6
  <2> HIDE DEF e, f
  <2>7. <<e, f>> \in Seq(AssignmentType)
    BY <2>5, TwoSegments
  <2>8. ASSUME NEW added, PartOf(added, <<e, f>>) PROVE Says(b, Obligation(UidGid, added))'
    <3>1. PICK o : o = Obligation(UidGid, added)
      OBVIOUS
    <3>2. o.id = UidGid /\ o.assignments = added
      BY <3>1 DEF Obligation
    <3>3. \A m \in DOMAIN added :
            /\ added[m].id = PosixUid => added[m].value \in {account.uid, NULL}
            /\ added[m].id = PosixGid => added[m].value \in {gid, NULL}
      <4> SUFFICES ASSUME NEW m \in DOMAIN added
                   PROVE  /\ added[m].id = PosixUid => added[m].value \in {account.uid, NULL}
                          /\ added[m].id = PosixGid => added[m].value \in {gid, NULL}
        OBVIOUS
      <4>1. e.id # f.id
        BY <2>5, PosixIds
      <4>2. /\ added[m].id = e.id => added[m].value \in {e.value, NULL}
            /\ added[m].id = f.id => added[m].value \in {f.value, NULL}
        BY <2>8, <4>1, TwoParts
      <4> QED
        BY <2>5, <4>2
    <3>4. Last(b, UserId) \in DOMAIN Passwd /\ account = Passwd[Last(b, UserId)]
          /\ gid \in {account.gid} \cup (GidOf(Last(b, GroupIdPrimary)) \ {NULL})
      BY <1>3, <2>1, <2>2
    <3>5. Says(b, o)'
      BY <2>1, <3>2, <3>3, <3>4 DEF Says, GidOf
    <3> QED
      BY <3>1, <3>5
  <2>9. Speaks(b, UidGid, <<e, f>>)
    BY <2>8 DEF Speaks
  <2>10. Grown
    BY <1>2, <1>3, <1>4, <2>4, <2>6, <2>7, <2>9, AddsKeeps DEF Grown
  <2> QED
    BY <1>1, <1>4, <2>10, AddingStep
<1> QED
  BY <1>5, <1>6 DEF AddUidGid

\* the gids of the groups
Gids(names) == [n \in DOMAIN names |-> Assignment(PosixGid, Group[names[n]])]

LEMMA GidsType ==
  ASSUME NEW names \in Seq(Texts), Resolvable(names)
  PROVE  Gids(names) \in Seq(AssignmentType)
<1>1. ASSUME NEW n \in DOMAIN names
      PROVE  Assignment(PosixGid, Group[names[n]]) \in AssignmentType
  <2>1. PosixGid \in Ids
    BY GivenIds DEF Ids
  <2>2. Group[names[n]] \in Texts
    BY GroupTypes DEF Resolvable, Texts
  <2> QED
    BY <2>1, <2>2 DEF Assignment, AssignmentType
<1>2. DOMAIN names = 1 .. Len(names) /\ Len(names) \in Nat
  BY LenProperties
<1> DEFINE g(n) == Assignment(PosixGid, Group[names[n]])
<1>3. \A n \in 1 .. Len(names) : g(n) \in AssignmentType
  BY <1>1, <1>2
<1> HIDE DEF g
<1>4. [n \in 1 .. Len(names) |-> g(n)] \in Seq(AssignmentType)
  BY <1>2, <1>3
<1> QED
  BY <1>2, <1>4 DEF Gids, g

LEMMA AddSecondaryGidsKeeps ==
  ASSUME AdapterInv, fault = "none", AddSecondaryGids
  PROVE  AdapterInv'
<1>1. at \in Adding
  BY DEF AddSecondaryGids, Adding, InObligation, InHandler
<1>2. PICK b : b = Current
  OBVIOUS
<1>3. TypeOK /\ at \in InObligation /\ groups = Values(b, GroupId) /\ groups \in Seq(Texts)
  BY <1>1, <1>2, AddingFacts DEF TypeOK
<1>4. /\ at' = "obligations" /\ j' = j + 1
      /\ UNCHANGED <<calls, original, answer, request, i, k, length, user, group, groups, room>>
  BY DEF AddSecondaryGids, given
<1>5. CASE UNCHANGED response /\ (Fine \/ Loses({}))
  <2>1. Harmless /\ UNCHANGED <<answer, response>>
    BY <1>3, <1>4, <1>5, FineIsHarmless, LosesIsHarmless
  <2>2. Grown
    BY <1>3, <2>1, NothingAdded
  <2> QED
    BY <1>1, <1>4, <2>2, AddingStep
<1>6. CASE Resolvable(groups) /\ Adds(SecondaryGids, Gids(groups))
  <2>1. SecondaryGids \in Ids
    BY GivenIds DEF Ids
  <2>2. PICK es : es = Gids(groups)
    OBVIOUS
  <2>3. es \in Seq(AssignmentType)
    BY <1>3, <1>6, <2>2, GidsType
  <2>4. ASSUME NEW added, PartOf(added, es), starved' \/ added = es
        PROVE  Says(b, Obligation(SecondaryGids, added))'
    <3>1. PICK o : o = Obligation(SecondaryGids, added)
      OBVIOUS
    <3>2. o.id = SecondaryGids /\ o.assignments = added
      BY <3>1 DEF Obligation
    <3>3. \A m \in DOMAIN added :
            added[m].value \in {Group[groups[n]] : n \in DOMAIN groups} \cup {NULL}
      BY <2>2, <2>4 DEF PartOf, Gids, Assignment
    <3>4. ~starved' => o.assignments = Gids(groups)
      BY <2>2, <2>4, <3>2
    <3>5. Says(b, o)'
      BY <1>3, <1>6, <3>2, <3>3, <3>4 DEF Says, Gids, Resolvable
    <3> QED
      BY <3>1, <3>5
  <2>5. Speaks(b, SecondaryGids, es)
    BY <2>4 DEF Speaks
  <2>6. Grown
    BY <1>2, <1>3, <1>4, <1>6, <2>1, <2>2, <2>3, <2>5, AddsKeeps DEF Grown
  <2> QED
    BY <1>1, <1>4, <2>6, AddingStep
<1> QED
  BY <1>5, <1>6 DEF AddSecondaryGids, Gids

LEMMA NoGidsKeeps ==
  ASSUME AdapterInv, fault = "none", NoGids
  PROVE  AdapterInv'
<1>1. /\ fault' = "null_array" /\ starved' = TRUE
      /\ UNCHANGED <<at, calls, original, answer, request, response, i, j, k, length,
                     user, group, groups, room, lost>>
  BY DEF NoGids, given, loop
<1>2. AnswerExplained'
  BY <1>1, AnswerStays DEF AdapterInv
<1> QED
  BY <1>1, <1>2
  DEF AdapterInv, TypeOK, InSubject, AttributesOf, NamesKept, RestUntouched, InAnswer, Brought,
      Current, InMapping, HasRead, Starving, Nameless, Overflown

LEMMA EndOfHandlerKeeps ==
  ASSUME AdapterInv, fault = "none", EndOfHandler
  PROVE  AdapterInv'
<1>1. TypeOK /\ Harmless
  BY FineIsHarmless DEF AdapterInv, EndOfHandler
<1>2. /\ at' = "response" /\ at' # "subjects" /\ at' \notin InHandler /\ at' \notin InObligation
      /\ calls' = calls + 1 /\ answer' = <<>> /\ response' = <<>>
      /\ UNCHANGED <<original, request, i, j, k, length, user, group, groups, room>>
  BY DEF EndOfHandler, loop, InHandler, InObligation
<1>3. TypeOK'
  <2>1. <<>> \in ResponseType
    BY EmptySeq DEF ResponseType
  <2> QED
    BY <1>1, <1>2, <2>1 DEF TypeOK, Harmless
<1>4. AnswerExplained'
  <2>1. Len(<<>>) = 0 /\ 1 .. 0 = {}
    OBVIOUS
  <2> QED
    BY <1>2, <2>1 DEF AnswerExplained
<1>5. RestUntouched' /\ InAnswer' /\ InMapping'
  BY <1>2 DEF RestUntouched, InAnswer, InMapping
<1> QED
  BY <1>1, <1>2, <1>3, <1>4, <1>5, HandlerStep

-----------------------------------------------------------------------------
(* The theorems.                                                           *)

LEMMA InitAdapter == Init => AdapterInv
<1> SUFFICES ASSUME Init PROVE AdapterInv
  OBVIOUS
<1>1. TypeOK
  <2>1. <<>> \in ResponseType /\ <<>> \in Seq(Texts)
    BY EmptySeq DEF ResponseType
  <2>2. original \in Requests /\ request \in RequestType
    BY RequestAssumption DEF Init
  <2>3. user \in Texts /\ group \in Texts /\ groups \in Seq(Texts)
    BY <2>1 DEF Init, Texts
  <2>4. answer \in ResponseType /\ response \in ResponseType
    BY <2>1 DEF Init
  <2>5. calls \in Nat /\ length \in Nat /\ i \in Nat \ {0} /\ j \in Nat \ {0} /\ k \in Nat \ {0}
    <3>1. calls = 0 /\ length = 0 /\ i = 1 /\ j = 1 /\ k = 1
      BY DEF Init
    <3> QED
      BY <3>1
  <2>6. original \in Requests /\ room \in BOOLEAN /\ starved \in BOOLEAN
    BY DEF Init
  <2> QED
    BY <2>2, <2>3, <2>4, <2>5, <2>6 DEF TypeOK
<1>2. AnswerExplained
  <2>1. Len(<<>>) = 0 /\ 1 .. 0 = {}
    OBVIOUS
  <2> QED
    BY <2>1 DEF Init, AnswerExplained
<1> QED
  BY <1>1, <1>2
  DEF Init, AdapterInv, InSubject, NamesKept, RestUntouched, InAnswer, InMapping, Starving,
      Nameless, Overflown, InHandler, InObligation

LEMMA NextKeeps == AdapterInv /\ [Next]_vars => AdapterInv'
<1> SUFFICES ASSUME AdapterInv, [Next]_vars PROVE AdapterInv'
  OBVIOUS
<1>1. CASE UNCHANGED vars
  <2>1. UNCHANGED <<at, calls, original, request, answer, response, i, j, k, length,
                    user, group, groups, room, lost, fault, starved>>
    BY <1>1 DEF vars, loop
  <2>2. AnswerExplained'
    BY <2>1, AnswerStays DEF AdapterInv
  <2> QED
    BY <2>1, <2>2
    DEF AdapterInv, TypeOK, InSubject, AttributesOf, NamesKept, RestUntouched, InAnswer, Brought,
        Current, InMapping, HasRead, Starving, Nameless, Overflown
<1>2. CASE Next
  <2>1. fault = "none" /\ Step
    BY <1>2 DEF Next
  <2>2. CASE BeginPip        BY <2>1, <2>2, BeginPipKeeps
  <2>3. CASE NullAttribute   BY <2>1, <2>3, NullAttributeKeeps
  <2>4. CASE SkipAttribute   BY <2>1, <2>4, SkipAttributeKeeps
  <2>5. CASE CopyAttribute   BY <2>1, <2>5, CopyAttributeKeeps
  <2>6. CASE CopyFails       BY <2>1, <2>6, CopyFailsKeeps
  <2>7. CASE NextSubject     BY <2>1, <2>7, NextSubjectKeeps
  <2>8. CASE Environment     BY <2>1, <2>8, EnvironmentKeeps
  <2>9. CASE NullProfile     BY <2>1, <2>9, NullProfileKeeps
  <2>10. CASE AddProfileId   BY <2>1, <2>10, AddProfileIdKeeps
  <2>11. CASE BeginHandler   BY <2>1, <2>11, BeginHandlerKeeps
  <2>12. CASE NullObligation BY <2>1, <2>12, NullObligationKeeps
  <2>13. CASE SkipObligation BY <2>1, <2>13, SkipObligationKeeps
  <2>14. CASE OpenObligation BY <2>1, <2>14, OpenObligationKeeps
  <2>15. CASE NextResult     BY <2>1, <2>15, NextResultKeeps
  <2>16. CASE NullAssignment BY <2>1, <2>16, NullAssignmentKeeps
  <2>17. CASE NoRoom         BY <2>1, <2>17, NoRoomKeeps
  <2>18. CASE TooMany        BY <2>1, <2>18, TooManyKeeps
  <2>19. CASE ReadAssignment BY <2>1, <2>19, ReadAssignmentKeeps
  <2>20. CASE EndOfAssignments BY <2>1, <2>20, EndOfAssignmentsKeeps
  <2>21. CASE AddUsername    BY <2>1, <2>21, AddUsernameKeeps
  <2>22. CASE AddUidGid      BY <2>1, <2>22, AddUidGidKeeps
  <2>23. CASE AddSecondaryGids BY <2>1, <2>23, AddSecondaryGidsKeeps
  <2>24. CASE NoGids         BY <2>1, <2>24, NoGidsKeeps
  <2>25. CASE EndOfHandler   BY <2>1, <2>25, EndOfHandlerKeeps
  <2> QED
    BY <2>1, <2>2, <2>3, <2>4, <2>5, <2>6, <2>7, <2>8, <2>9, <2>10, <2>11, <2>12, <2>13, <2>14,
       <2>15, <2>16, <2>17, <2>18, <2>19, <2>20, <2>21, <2>22, <2>23, <2>24, <2>25
    DEF Step
<1> QED
  BY <1>1, <1>2

LEMMA AdapterInvHolds == Spec => []AdapterInv
<1> QED
  BY InitAdapter, NextKeeps, PTL DEF Spec

LEMMA ContinuesExtends ==
  ASSUME NEW S, NEW s \in Seq(S), NEW t \in Seq(S), Continues(s, t)
  PROVE  Extends(s, t)
<1>1. Len(t) \in Nat /\ Len(s) \in Nat /\ Len(s) >= Len(t) /\ \A m \in 1 .. Len(t) : s[m] = t[m]
  BY LenProperties DEF Continues
<1>2. SubSeq(s, 1, Len(t)) = t
  <2>1. 1 \in 1 .. Len(s) + 1 /\ Len(t) \in 1 - 1 .. Len(s)
    BY <1>1
  <2>2. /\ SubSeq(s, 1, Len(t)) \in Seq(S) /\ Len(SubSeq(s, 1, Len(t))) = Len(t)
        /\ \A m \in 1 .. Len(t) : SubSeq(s, 1, Len(t))[m] = s[m]
    BY <1>1, <2>1, SubSeqProperties
  <2> QED
    BY <1>1, <2>2, SeqEqual
<1> QED
  BY <1>1, <1>2 DEF Extends

(***************************************************************************)
(* gridwn2authzinterop_oh_process: whatever came in the answer, and        *)
(* however often memory or the name service fails, a result that is not a  *)
(* permit is as it came, the obligations of a permit stay, and every one   *)
(* that the handler adds speaks of the account that one POSIX obligation   *)
(* of the same result names.  The handler reads obligation j of the        *)
(* response it is changing: that it is still the one that came, and that   *)
(* username, groupname and groupnames hold what its first k - 1            *)
(* assignments say, is what the invariant adds.                            *)
(***************************************************************************)
THEOREM HandlerSpeaksOfAccounts == Spec => []MappedAccounts
<1>1. ASSUME AdapterInv PROVE MappedAccounts
  <2> SUFFICES ASSUME NEW n \in DOMAIN answer
               PROVE  /\ answer[n].decision # PERMIT => response[n] = answer[n]
                      /\ Extends(response[n].obligations, answer[n].obligations)
                      /\ \A m \in Len(answer[n].obligations) + 1 .. Len(response[n].obligations) :
                           \E b \in Mappings(answer[n]) : Says(b, response[n].obligations[m])
    BY DEF MappedAccounts
  <2>1. answer \in ResponseType /\ response \in ResponseType /\ AnswerExplained
    BY <1>1 DEF AdapterInv, TypeOK
  <2>2. n \in 1 .. Len(answer) /\ n \in 1 .. Len(response)
    BY <2>1, LenProperties DEF AnswerExplained, ResponseType
  <2>3. Explained(answer[n], response[n])
    BY <2>1, <2>2 DEF AnswerExplained
  <2>4. answer[n].obligations \in Seq(ObligationType) /\ response[n].obligations \in Seq(ObligationType)
    BY <2>1, <2>2, ResultTypes
  <2>5. Extends(response[n].obligations, answer[n].obligations)
    BY <2>3, <2>4, ContinuesExtends DEF Explained
  <2> QED
    BY <2>3, <2>5 DEF Explained
<1> QED
  BY <1>1, AdapterInvHolds, PTL

(***************************************************************************)
(* Both adapters: a NULL array is read, or an object lost, only after an   *)
(* allocation failed; a NULL id is compared only if an allocation failed,  *)
(* the request that the application made has one, or a result that the     *)
(* handler reads does; and groupnames[NGROUPS_MAX] is written only for an  *)
(* obligation with more groups than that.                                  *)
(***************************************************************************)
THEOREM AdaptersStopForCause == Spec => []FaultNeedsCause
<1>1. ASSUME AdapterInv PROVE FaultNeedsCause
  BY <1>1 DEF AdapterInv, Starving, Nameless, Overflown, FaultNeedsCause
<1> QED
  BY <1>1, AdapterInvHolds, PTL

-----------------------------------------------------------------------------
(* What Joined computes.                                                   *)

IsJoined(f, ss, n) == f = [m \in 0 .. n |-> IF m = 0 THEN <<>> ELSE f[m - 1] \o ss[m]]

LEMMA JoinedExists ==
  ASSUME NEW ss, NEW n \in Nat
  PROVE  \E f : IsJoined(f, ss, n)
<1> DEFINE T == {m \in Nat : \E f : IsJoined(f, ss, m)}
<1>1. 0 \in T
  <2> DEFINE f == [m \in 0 .. 0 |-> <<>>]
  <2>1. f = [m \in 0 .. 0 |-> IF m = 0 THEN <<>> ELSE f[m - 1] \o ss[m]]
    OBVIOUS
  <2>2. IsJoined(f, ss, 0)
    BY <2>1 DEF IsJoined
  <2> QED
    BY <2>2
<1>2. ASSUME NEW m \in Nat, m \in T PROVE m + 1 \in T
  <2>1. PICK f : IsJoined(f, ss, m)
    BY <1>2
  <2>2. \A l \in 0 .. m : f[l] = IF l = 0 THEN <<>> ELSE f[l - 1] \o ss[l]
    BY <2>1 DEF IsJoined
  <2> DEFINE g == [l \in 0 .. m + 1 |-> IF l = m + 1 THEN f[m] \o ss[m + 1] ELSE f[l]]
  <2>3. \A l \in 0 .. m + 1 : g[l] = IF l = 0 THEN <<>> ELSE g[l - 1] \o ss[l]
    <3> SUFFICES ASSUME NEW l \in 0 .. m + 1
                 PROVE  g[l] = IF l = 0 THEN <<>> ELSE g[l - 1] \o ss[l]
      OBVIOUS
    <3>1. CASE l = m + 1
      <4>1. l # 0 /\ l - 1 = m /\ m \in 0 .. m + 1 /\ m # m + 1
        BY <3>1
      <4>2. g[l - 1] = f[m]
        BY <4>1
      <4> QED
        BY <3>1, <4>1, <4>2
    <3>2. CASE l # m + 1
      <4>1. l \in 0 .. m /\ (l # 0 => l - 1 \in 0 .. m + 1 /\ l - 1 # m + 1)
        BY <3>2
      <4>2. g[l] = f[l] /\ (l # 0 => g[l - 1] = f[l - 1])
        BY <3>2, <4>1
      <4> QED
        BY <2>2, <4>1, <4>2
    <3> QED
      BY <3>1, <3>2
  <2>4. g = [l \in 0 .. m + 1 |-> IF l = 0 THEN <<>> ELSE g[l - 1] \o ss[l]]
    BY <2>3
  <2>5. IsJoined(g, ss, m + 1)
    BY <2>4 DEF IsJoined
  <2> HIDE DEF g
  <2> QED
    BY <2>5
<1>3. \A m \in Nat : m \in T
  <2> HIDE DEF T
  <2> QED
    BY <1>1, <1>2, SetInduction
<1> QED
  BY <1>3

\* f joins the first n of ss, one after the other.
Joins(f, ss, n) == f[0] = <<>> /\ \A m \in 1 .. n : f[m] = f[m - 1] \o ss[m]

LEMMA JoinedIs ==
  ASSUME NEW ss, NEW n \in Nat, n = Len(ss)
  PROVE  Joins(Joined(ss), ss, n)
<1> DEFINE f == CHOOSE g : IsJoined(g, ss, n)
<1>1. Joined(ss) = f
  BY DEF Joined, IsJoined
<1>2. IsJoined(f, ss, n)
  BY JoinedExists, Zenon
<1> HIDE DEF f
<1>3. \A m \in 0 .. n : f[m] = IF m = 0 THEN <<>> ELSE f[m - 1] \o ss[m]
  BY <1>2 DEF IsJoined
<1>4. 0 \in 0 .. n /\ \A m \in 1 .. n : m \in 0 .. n /\ m # 0
  OBVIOUS
<1>5. Joins(f, ss, n)
  BY <1>3, <1>4 DEF Joins
<1> QED
  BY <1>1, <1>5

\* s has the elements of t.
Holds(s, t) == \A x \in 1 .. Len(t) : \E d \in 1 .. Len(s) : s[d] = t[x]

LEMMA ConcatContinues ==
  ASSUME NEW S, NEW s \in Seq(S), NEW t \in Seq(S)
  PROVE  Continues(s \o t, s) /\ Holds(s \o t, t)
<1>1. PICK n \in Nat, m \in Nat : n = Len(s) /\ m = Len(t)
  BY LenProperties
<1>2. PICK u : u = s \o t
  OBVIOUS
<1>3. /\ Len(u) = n + m
      /\ \A x \in 1 .. n + m : u[x] = IF x <= n THEN s[x] ELSE t[x - n]
  BY <1>1, <1>2, ConcatProperties
<1>4. ASSUME NEW x \in 1 .. m PROVE \E d \in 1 .. Len(u) : u[d] = t[x]
  <2>1. PICK d \in 1 .. n + m : d = n + x /\ ~(d <= n) /\ d - n = x
    OBVIOUS
  <2> QED
    BY <1>3, <2>1
<1>5. Continues(u, s) /\ Holds(u, t)
  BY <1>1, <1>3, <1>4 DEF Continues, Holds
<1> QED
  BY <1>2, <1>5

LEMMA ContinuesFurther ==
  ASSUME NEW S, NEW s \in Seq(S), NEW t \in Seq(S), NEW u \in Seq(S),
         Continues(u, t), Continues(t, s)
  PROVE  Continues(u, s)
<1>1. Len(s) \in Nat /\ Len(t) \in Nat /\ Len(u) \in Nat
  BY LenProperties
<1>2. Len(u) >= Len(t) /\ Len(t) >= Len(s) /\ \A m \in 1 .. Len(s) : m \in 1 .. Len(t)
  BY <1>1 DEF Continues
<1> QED
  BY <1>1, <1>2 DEF Continues

LEMMA OneLess ==
  ASSUME NEW n \in Nat, NEW m \in Nat, m + 1 <= n
  PROVE  \E p \in 1 .. n : p = n - m /\ p - 1 = n - (m + 1)
OBVIOUS

\* What is joined first stays at the beginning, and all of it is there.
LEMMA JoinsTypes ==
  ASSUME NEW S, NEW ss \in Seq(Seq(S)), NEW f, NEW n \in Nat, n = Len(ss), Joins(f, ss, n)
  PROVE  /\ \A m \in 0 .. n : f[m] \in Seq(S) /\ Continues(f[n], f[m])
         /\ \A m \in 1 .. n : Holds(f[n], ss[m])
<1>1. \A m \in 1 .. n : ss[m] \in Seq(S)
  BY ElementOfSeq
<1> DEFINE T == {m \in Nat : m <= n => f[m] \in Seq(S)}
           U == {m \in Nat : m <= n => Continues(f[n], f[n - m])}
<1>2. \A m \in Nat : m \in T
  <2>1. 0 \in T
    BY EmptySeq DEF Joins
  <2>2. ASSUME NEW m \in Nat, m \in T PROVE m + 1 \in T
    <3> SUFFICES ASSUME m + 1 <= n PROVE f[m + 1] \in Seq(S)
      OBVIOUS
    <3>1. f[m] \in Seq(S) /\ m + 1 \in 1 .. n /\ (m + 1) - 1 = m
      BY <2>2
    <3>2. f[m + 1] = f[m] \o ss[m + 1] /\ ss[m + 1] \in Seq(S)
      BY <1>1, <3>1 DEF Joins
    <3> QED
      BY <3>1, <3>2, ConcatProperties
  <2> HIDE DEF T
  <2> QED
    BY <2>1, <2>2, SetInduction
<1>3. \A m \in 0 .. n : f[m] \in Seq(S)
  BY <1>2
<1>4. ASSUME NEW m \in 1 .. n
      PROVE  /\ f[m - 1] \in Seq(S) /\ f[m] \in Seq(S)
             /\ Continues(f[m], f[m - 1]) /\ Holds(f[m], ss[m])
  <2>1. f[m] = f[m - 1] \o ss[m]
    BY Zenon DEF Joins
  <2>2. ss[m] \in Seq(S)
    BY <1>1
  <2>3. m - 1 \in 0 .. n /\ m \in 0 .. n
    OBVIOUS
  <2>4. f[m - 1] \in Seq(S) /\ f[m] \in Seq(S)
    BY <1>3, <2>3
  <2>5. Continues(f[m - 1] \o ss[m], f[m - 1]) /\ Holds(f[m - 1] \o ss[m], ss[m])
    BY <2>2, <2>4, ConcatContinues
  <2> QED
    BY <2>1, <2>4, <2>5
<1>5. \A m \in Nat : m \in U
  <2>1. 0 \in U
    <3>1. n - 0 = n /\ n \in 0 .. n
      OBVIOUS
    <3>2. Len(f[n]) \in Nat
      BY <1>3, <3>1, LenProperties
    <3> QED
      BY <3>1, <3>2 DEF Continues
  <2>2. ASSUME NEW m \in Nat, m \in U PROVE m + 1 \in U
    <3> SUFFICES ASSUME m + 1 <= n PROVE Continues(f[n], f[n - (m + 1)])
      OBVIOUS
    <3>1. PICK p \in 1 .. n : p = n - m /\ p - 1 = n - (m + 1)
      BY OneLess
    <3>2. Continues(f[n], f[p])
      BY <2>2, <3>1
    <3>3. Continues(f[p], f[p - 1]) /\ f[p] \in Seq(S) /\ f[p - 1] \in Seq(S)
      BY <1>4
    <3>4. f[n] \in Seq(S)
      BY <1>3
    <3>5. Continues(f[n], f[p - 1])
      BY <3>2, <3>3, <3>4, ContinuesFurther
    <3> QED
      BY <3>1, <3>5
  <2> HIDE DEF U
  <2> QED
    BY <2>1, <2>2, SetInduction
<1>6. ASSUME NEW m \in 0 .. n PROVE Continues(f[n], f[m])
  <2> DEFINE p == n - m
  <2>1. p \in Nat /\ n - p = m /\ p <= n
    OBVIOUS
  <2> HIDE DEF p
  <2>2. Continues(f[n], f[n - p])
    BY <1>5, <2>1
  <2> QED
    BY <2>1, <2>2
<1>7. ASSUME NEW m \in 1 .. n PROVE Holds(f[n], ss[m])
  <2>1. \A x \in 1 .. Len(ss[m]) : \E d \in 1 .. Len(f[m]) : f[m][d] = ss[m][x]
    BY <1>4 DEF Holds
  <2>2. Continues(f[n], f[m]) /\ Len(f[m]) \in Nat /\ Len(f[n]) \in Nat
    <3>1. m \in 0 .. n /\ n \in 0 .. n
      OBVIOUS
    <3> QED
      BY <1>3, <1>6, <3>1, LenProperties
  <2>3. \A d \in 1 .. Len(f[m]) : d \in 1 .. Len(f[n]) /\ f[n][d] = f[m][d]
    BY <2>2 DEF Continues
  <2> QED
    BY <2>1, <2>3 DEF Holds
<1> QED
  BY <1>3, <1>6, <1>7

LEMMA TimesGrow ==
  ASSUME NEW S, NEW s \in Seq(S), NEW c \in Nat
  PROVE  /\ Times(s, 0) = <<>>
         /\ Times(s, c) \in Seq(S) /\ Times(s, c + 1) = Times(s, c) \o s
<1> DEFINE ss(n) == [m \in 1 .. n |-> s]
<1>1. ASSUME NEW n \in Nat
      PROVE  ss(n) \in Seq(Seq(S)) /\ Len(ss(n)) = n /\ Joins(Joined(ss(n)), ss(n), n)
  <2>1. ss(n) \in Seq(Seq(S)) /\ Len(ss(n)) = n
    OBVIOUS
  <2> HIDE DEF ss
  <2> QED
    BY <2>1, JoinedIs
<1>2. ASSUME NEW n \in Nat PROVE Times(s, n) = Joined(ss(n))[n]
  BY DEF Times
<1>3. \A n \in Nat : \A m \in 1 .. n : ss(n)[m] = s
  OBVIOUS
<1> HIDE DEF ss
<1> DEFINE f == Joined(ss(c))
           g == Joined(ss(c + 1))
           T == {m \in Nat : m <= c => f[m] = g[m]}
<1>4. /\ f[0] = <<>> /\ \A m \in 1 .. c : f[m] = f[m - 1] \o s
      /\ g[0] = <<>> /\ \A m \in 1 .. c + 1 : g[m] = g[m - 1] \o s
  <2>1. Joins(f, ss(c), c) /\ Joins(g, ss(c + 1), c + 1)
    BY <1>1
  <2>2. c \in Nat /\ c + 1 \in Nat
    OBVIOUS
  <2> HIDE DEF f, g
  <2> QED
    BY <1>3, <2>1, <2>2 DEF Joins
<1>5. \A m \in Nat : m \in T
  <2> HIDE DEF f, g
  <2>1. 0 \in T
    BY <1>4
  <2>2. ASSUME NEW m \in Nat, m \in T PROVE m + 1 \in T
    <3> SUFFICES ASSUME m + 1 <= c PROVE f[m + 1] = g[m + 1]
      OBVIOUS
    <3>1. m + 1 \in 1 .. c /\ m + 1 \in 1 .. c + 1 /\ (m + 1) - 1 = m /\ f[m] = g[m]
      BY <2>2
    <3> QED
      BY <1>4, <3>1
  <2> HIDE DEF T
  <2> QED
    BY <2>1, <2>2, SetInduction
<1>6. f[c] \in Seq(S)
  <2>1. ss(c) \in Seq(Seq(S)) /\ Len(ss(c)) = c /\ Joins(f, ss(c), c) /\ c \in 0 .. c
    BY <1>1
  <2> HIDE DEF f
  <2> QED
    BY <2>1, JoinsTypes
<1>7. g[c + 1] = f[c] \o s
  <2>1. c + 1 \in 1 .. c + 1 /\ (c + 1) - 1 = c /\ c \in T
    BY <1>5
  <2>2. f[c] = g[c]
    BY <2>1
  <2> HIDE DEF f, g
  <2> QED
    BY <1>4, <2>1, <2>2
<1>8. Times(s, 0) = <<>>
  <2>1. Times(s, 0) = Joined(ss(0))[0] /\ Joins(Joined(ss(0)), ss(0), 0)
    BY <1>1, <1>2
  <2> QED
    BY <2>1 DEF Joins
<1>9. Times(s, c) = f[c] /\ Times(s, c + 1) = g[c + 1]
  <2>1. c \in Nat /\ c + 1 \in Nat
    OBVIOUS
  <2> QED
    BY <1>2, <2>1
<1> HIDE DEF f, g
<1> QED
  BY <1>6, <1>7, <1>8, <1>9

-----------------------------------------------------------------------------
(* The copies of a subject's attributes.                                   *)

IsCopied(a) == a.id # NULL /\ Copied(a.id)
Piece(a) == IF IsCopied(a) THEN <<Due(a)>> ELSE <<>>

DueType == [ids : SUBSET Seq(STRING), values : Texts]

LEMMA DueIsTyped ==
  ASSUME NEW a \in AttributeType PROVE Due(a) \in DueType
<1>1. CopyIds(a) \in SUBSET Seq(STRING)
  BY GivenIds DEF CopyIds, PromisedId
<1>2. a.values \in Texts
  BY DEF AttributeType
<1> QED
  BY <1>1, <1>2 DEF Due, DueType

\* what the adapter adds is what is due
LEMMA CopyIsDue ==
  ASSUME NEW a, NEW x, x.id = CopyOf(a).id, x.values = a.values
  PROVE  x.id \in CopyIds(a) /\ IsCopy(x, Due(a))
<1>1. CopyOf(a).id = IF Starts(a.id, Chain) THEN KeyInfo ELSE FqanPrimary
  BY DEF CopyOf, Attribute
<1>2. x.id \in CopyIds(a)
  BY <1>1 DEF CopyIds, PromisedId
<1> QED
  BY <1>2 DEF Due, IsCopy

LEMMA NoneAreCopies == AreCopies(<<>>, <<>>)
BY DEF AreCopies

LEMMA MoreAreCopies ==
  ASSUME NEW S, NEW s \in Seq(S), NEW T, NEW t \in Seq(T), AreCopies(s, t),
         NEW x \in S, NEW d \in T, IsCopy(x, d)
  PROVE  AreCopies(Append(s, x), Append(t, d))
<1>1. Len(s) = Len(t) /\ DOMAIN s = 1 .. Len(s) /\ \A m \in 1 .. Len(s) : IsCopy(s[m], t[m])
  BY LenProperties DEF AreCopies
<1>2. /\ Len(Append(s, x)) = Len(s) + 1 /\ Append(s, x)[Len(s) + 1] = x
      /\ Len(Append(t, d)) = Len(t) + 1 /\ Append(t, d)[Len(t) + 1] = d
      /\ \A m \in 1 .. Len(s) : Append(s, x)[m] = s[m]
      /\ \A m \in 1 .. Len(t) : Append(t, d)[m] = t[m]
      /\ DOMAIN Append(s, x) = 1 .. Len(s) + 1
  BY AppendProperties
<1>3. ASSUME NEW m \in 1 .. Len(s) + 1 PROVE IsCopy(Append(s, x)[m], Append(t, d)[m])
  <2>1. CASE m = Len(s) + 1
    BY <1>1, <1>2, <2>1
  <2>2. CASE m # Len(s) + 1
    <3>1. m \in 1 .. Len(s)
      BY <2>2, LenProperties
    <3> QED
      BY <1>1, <1>2, <3>1
  <2> QED
    BY <2>1, <2>2
<1> QED
  BY <1>1, <1>2, <1>3 DEF AreCopies

\* made has what is due for the first m attributes, for each m.
DuesOf(made, es) ==
  /\ made[0] = <<>>
  /\ \A m \in 1 .. Len(es) : made[m] = IF IsCopied(es[m]) THEN Append(made[m - 1], Due(es[m]))
                                       ELSE made[m - 1]
  /\ \A m \in 0 .. Len(es) : /\ made[m] \in Seq(DueType)
                             /\ Len(made[m]) <= Len(made[Len(es)])
  /\ \A m \in 1 .. Len(es) : IsCopied(es[m]) =>
       \E d \in 1 .. Len(made[Len(es)]) : made[Len(es)][d] = Due(es[m])

LEMMA DuesAre ==
  ASSUME NEW es \in Seq(AttributeType)
  PROVE  DuesOf(DuesAmong(es), es)
<1> DEFINE n == Len(es)
           ss == [m \in 1 .. n |-> Piece(es[m])]
           f == Joined(ss)
<1>1. n \in Nat /\ DOMAIN es = 1 .. n /\ \A m \in 1 .. n : es[m] \in AttributeType
  BY LenProperties, ElementOfSeq
<1>2. DuesAmong(es) = f
  <2>1. DOMAIN es = 1 .. n
    BY <1>1
  <2> HIDE DEF n
  <2> QED
    BY <2>1 DEF DuesAmong, Piece, IsCopied
<1> HIDE DEF n
<1>3. \A m \in 1 .. n : Piece(es[m]) \in Seq(DueType)
  <2> SUFFICES ASSUME NEW m \in 1 .. n PROVE Piece(es[m]) \in Seq(DueType)
    OBVIOUS
  <2>1. Due(es[m]) \in DueType
    BY <1>1, DueIsTyped
  <2>2. <<Due(es[m])>> \in Seq(DueType)
    BY <2>1, OneSegment
  <2> QED
    BY <2>2, EmptySeq DEF Piece
<1>4. ss \in Seq(Seq(DueType)) /\ Len(ss) = n
  BY <1>1, <1>3
<1>5. \A m \in 1 .. n : ss[m] = Piece(es[m])
  OBVIOUS
<1> HIDE DEF ss
<1>6. Joins(f, ss, n)
  BY <1>1, <1>4, JoinedIs
<1> HIDE DEF f
<1>7. /\ \A m \in 0 .. n : f[m] \in Seq(DueType) /\ Continues(f[n], f[m])
      /\ \A m \in 1 .. n : Holds(f[n], ss[m])
  <2>1. n \in Nat /\ n = Len(ss)
    BY <1>1, <1>4
  <2>2. ss \in Seq(Seq(DueType)) /\ Joins(f, ss, n)
    BY <1>4, <1>6
  <2>3. \A m \in 0 .. n : f[m] \in Seq(DueType) /\ Continues(f[n], f[m])
    BY <2>1, <2>2, JoinsTypes
  <2>4. \A m \in 1 .. n : Holds(f[n], ss[m])
    BY <2>1, <2>2, JoinsTypes
  <2> QED
    BY <2>3, <2>4
<1>8. f[0] = <<>>
  BY <1>6 DEF Joins
<1>9. ASSUME NEW m \in 1 .. n
      PROVE  f[m] = IF IsCopied(es[m]) THEN Append(f[m - 1], Due(es[m])) ELSE f[m - 1]
  <2>1. f[m] = f[m - 1] \o Piece(es[m]) /\ m - 1 \in 0 .. n
    <3>1. f[m] = f[m - 1] \o ss[m]
      BY <1>6, Zenon DEF Joins
    <3>2. ss[m] = Piece(es[m])
      BY <1>5
    <3>3. m - 1 \in 0 .. n
      BY <1>1
    <3> QED
      BY <3>1, <3>2, <3>3
  <2>2. f[m - 1] \in Seq(DueType)
    BY <1>7, <2>1
  <2>3. f[m - 1] \o <<>> = f[m - 1]
    BY <2>2, ConcatEmptySeq
  <2>4. f[m - 1] \o <<Due(es[m])>> = Append(f[m - 1], Due(es[m]))
    <3>1. Due(es[m]) \in DueType
      BY <1>1, DueIsTyped
    <3> QED
      BY <2>2, <3>1, AppendIsConcat
  <2> QED
    BY <2>1, <2>3, <2>4 DEF Piece
<1>10. ASSUME NEW m \in 1 .. n, IsCopied(es[m])
       PROVE  \E d \in 1 .. Len(f[n]) : f[n][d] = Due(es[m])
  <2>1. ss[m] = <<Due(es[m])>>
    BY <1>5, <1>10 DEF Piece
  <2>2. 1 \in 1 .. Len(ss[m]) /\ ss[m][1] = Due(es[m])
    BY <2>1
  <2>3. Holds(f[n], ss[m])
    BY <1>7
  <2> QED
    BY <2>2, <2>3 DEF Holds
<1>11. DuesOf(f, es)
  BY <1>7, <1>8, <1>9, <1>10 DEF DuesOf, Continues, n
<1> QED
  BY <1>2, <1>11

-----------------------------------------------------------------------------
(* A subject's attributes after some calls, and part of another.           *)

\* a is a copy of b, perhaps without an id.
Mirrors(a, b) == a.values = b.values /\ a.id \in CopyIds(b) \cup {NULL}

\* (kept folded where a proof only has to rewrite)
With(s, x) == Append(s, x)
Cat(s, t) == s \o t

LEMMA WithInCat ==
  ASSUME NEW S, NEW s \in Seq(S), NEW t \in Seq(S), NEW x \in S
  PROVE  With(Cat(s, t), x) = Cat(s, With(t, x))
<1>1. PICK u \in Seq(S) : u = <<x>>
  BY OneSegment
<1>2. PICK v \in Seq(S) : v = s \o t
  BY ConcatProperties
<1>3. Append(v, x) = v \o u /\ Append(t, x) = t \o u
  BY <1>1, <1>2, AppendIsConcat
<1>4. (s \o t) \o u = s \o (t \o u)
  BY <1>1, ConcatAssociative
<1> QED
  BY <1>2, <1>3, <1>4 DEF With, Cat

\* What c calls, and another that has got to attribute p, may have added;
\* without memory some of it is missing.
More(c, without, was, more, p) ==
  /\ more \in Seq(AttributeType)
  /\ Len(more) <= c * Len(Dues(was)) + Len(DuesAmong(was)[p])
  /\ \A m \in 1 .. Len(more) : \E d \in 1 .. Len(was) : IsCopied(was[d]) /\ Mirrors(more[m], was[d])
  /\ ~without => AreCopies(more, Times(Dues(was), c) \o DuesAmong(was)[p])
Adapted(c, without, was, now, p) == \E more : now = was \o more /\ More(c, without, was, more, p)

LEMMA DuesFacts ==
  ASSUME NEW was \in Seq(AttributeType), NEW p \in 0 .. Len(was)
  PROVE  /\ Dues(was) \in Seq(DueType) /\ Len(Dues(was)) \in Nat
         /\ DuesAmong(was)[p] \in Seq(DueType) /\ Len(DuesAmong(was)[p]) \in Nat
         /\ Len(DuesAmong(was)[p]) <= Len(Dues(was))
         /\ DuesAmong(was)[0] = <<>> /\ DuesAmong(was)[Len(was)] = Dues(was)
         /\ Len(was) \in Nat
<1>1. DuesOf(DuesAmong(was), was)
  BY DuesAre
<1>2. Len(was) \in Nat /\ Len(was) \in 0 .. Len(was)
  BY LenProperties
<1>3. /\ DuesAmong(was)[p] \in Seq(DueType)
      /\ DuesAmong(was)[Len(was)] \in Seq(DueType)
      /\ Len(DuesAmong(was)[p]) <= Len(DuesAmong(was)[Len(was)])
      /\ DuesAmong(was)[0] = <<>>
  BY <1>1, <1>2 DEF DuesOf
<1> QED
  BY <1>2, <1>3, LenProperties DEF Dues

\* attribute p + 1, in the pass
LEMMA DuesNext ==
  ASSUME NEW was \in Seq(AttributeType), NEW p \in Nat, p < Len(was)
  PROVE  /\ p \in 0 .. Len(was) /\ p + 1 \in 0 .. Len(was) /\ p + 1 \in 1 .. Len(was)
         /\ was[p + 1] \in AttributeType
         /\ IsCopied(was[p + 1]) =>
              DuesAmong(was)[p + 1] = Append(DuesAmong(was)[p], Due(was[p + 1]))
         /\ ~IsCopied(was[p + 1]) => DuesAmong(was)[p + 1] = DuesAmong(was)[p]
<1>1. DuesOf(DuesAmong(was), was)
  BY DuesAre
<1>2. Len(was) \in Nat
  BY LenProperties
<1>3. p \in 0 .. Len(was) /\ p + 1 \in 0 .. Len(was) /\ p + 1 \in 1 .. Len(was) /\ (p + 1) - 1 = p
  BY <1>2
<1>4. DuesAmong(was)[p + 1]
        = IF IsCopied(was[p + 1]) THEN Append(DuesAmong(was)[(p + 1) - 1], Due(was[p + 1]))
          ELSE DuesAmong(was)[(p + 1) - 1]
  BY <1>1, <1>3 DEF DuesOf
<1>5. was[p + 1] \in AttributeType
  BY <1>3, ElementOfSeq
<1> QED
  BY <1>3, <1>4, <1>5

LEMMA Within ==
  ASSUME NEW x \in Nat, NEW l \in Nat, NEW b \in Nat, NEW t \in Nat, l <= x + b, t >= b
  PROVE  l <= x + t
OBVIOUS

LEMMA OneMore ==
  ASSUME NEW x \in Nat, NEW l \in Nat, NEW b \in Nat, l <= x + b
  PROVE  l + 1 <= x + (b + 1)
OBVIOUS

LEMMA AdaptedFirst ==
  ASSUME NEW was \in Seq(AttributeType), NEW without \in BOOLEAN
  PROVE  Adapted(0, without, was, was, 0)
<1>1. /\ <<>> \in Seq(AttributeType) /\ Len(<<>>) = 0 /\ was \o <<>> = was
      /\ <<>> \o <<>> = <<>>
  BY EmptySeq, ConcatEmptySeq
<1>2. Len(was) \in Nat /\ 0 \in 0 .. Len(was)
  BY LenProperties
<1>3. /\ Dues(was) \in Seq(DueType) /\ Len(Dues(was)) \in Nat
      /\ DuesAmong(was)[0] = <<>>
  BY <1>2, DuesFacts
<1>4. Times(Dues(was), 0) = <<>>
  BY <1>3, TimesGrow
<1>5. More(0, without, was, <<>>, 0)
  BY <1>1, <1>3, <1>4, NoneAreCopies DEF More
<1> QED
  BY <1>1, <1>5 DEF Adapted

LEMMA AdaptedAgain ==
  ASSUME NEW was \in Seq(AttributeType), NEW without \in BOOLEAN, NEW now, NEW c \in Nat,
         Adapted(c, without, was, now, Len(was))
  PROVE  Adapted(c + 1, without, was, now, 0)
<1>1. PICK more : now = was \o more /\ More(c, without, was, more, Len(was))
  BY DEF Adapted
<1>2. Len(was) \in Nat /\ 0 \in 0 .. Len(was) /\ Len(was) \in 0 .. Len(was)
  BY LenProperties
<1>3. /\ Dues(was) \in Seq(DueType) /\ Len(Dues(was)) \in Nat
      /\ DuesAmong(was)[0] = <<>> /\ DuesAmong(was)[Len(was)] = Dues(was)
  BY <1>2, DuesFacts
<1>4. Len(more) <= (c + 1) * Len(Dues(was)) + Len(DuesAmong(was)[0])
  <2>1. Len(more) <= c * Len(Dues(was)) + Len(Dues(was)) /\ Len(more) \in Nat
    BY <1>1, <1>3, LenProperties DEF More
  <2>2. PICK x \in Nat : x = Len(Dues(was))
    BY <1>3
  <2>3. (c + 1) * x = c * x + x
    OBVIOUS
  <2>4. Len(DuesAmong(was)[0]) = 0
    BY <1>3
  <2> QED
    BY <2>1, <2>2, <2>3, <2>4
<1>5. ~without => AreCopies(more, Times(Dues(was), c + 1) \o DuesAmong(was)[0])
  <2> SUFFICES ASSUME ~without PROVE AreCopies(more, Times(Dues(was), c + 1) \o DuesAmong(was)[0])
    OBVIOUS
  <2>1. AreCopies(more, Times(Dues(was), c) \o Dues(was))
    BY <1>1, <1>3 DEF More
  <2>2. /\ Times(Dues(was), c + 1) = Times(Dues(was), c) \o Dues(was)
        /\ Times(Dues(was), c) \in Seq(DueType)
    BY <1>3, TimesGrow
  <2>3. Times(Dues(was), c) \o Dues(was) \in Seq(DueType)
    BY <1>3, <2>2, ConcatProperties
  <2>4. Times(Dues(was), c + 1) \o <<>> = Times(Dues(was), c + 1)
    BY <2>2, <2>3, ConcatEmptySeq
  <2> QED
    BY <1>3, <2>1, <2>2, <2>4
<1>6. More(c + 1, without, was, more, 0)
  BY <1>1, <1>4, <1>5 DEF More
<1> QED
  BY <1>1, <1>6 DEF Adapted

\* An attribute that is not copied, or not for lack of memory.
LEMMA AdaptedSkips ==
  ASSUME NEW was \in Seq(AttributeType), NEW without \in BOOLEAN, NEW also \in BOOLEAN,
         NEW now, NEW c \in Nat, NEW p \in Nat, p < Len(was), without => also,
         Adapted(c, without, was, now, p), IsCopied(was[p + 1]) => also
  PROVE  Adapted(c, also, was, now, p + 1)
<1>1. PICK more : now = was \o more /\ More(c, without, was, more, p)
  BY DEF Adapted
<1>2. /\ p \in 0 .. Len(was) /\ p + 1 \in 0 .. Len(was) /\ was[p + 1] \in AttributeType
      /\ IsCopied(was[p + 1]) =>
           DuesAmong(was)[p + 1] = Append(DuesAmong(was)[p], Due(was[p + 1]))
      /\ ~IsCopied(was[p + 1]) => DuesAmong(was)[p + 1] = DuesAmong(was)[p]
  BY DuesNext
<1>3. /\ Len(Dues(was)) \in Nat /\ DuesAmong(was)[p] \in Seq(DueType)
      /\ Len(DuesAmong(was)[p]) \in Nat /\ Len(DuesAmong(was)[p + 1]) \in Nat
  BY <1>2, DuesFacts
<1>4. Len(DuesAmong(was)[p + 1]) >= Len(DuesAmong(was)[p])
  <2>1. CASE ~IsCopied(was[p + 1])
    BY <1>2, <1>3, <2>1
  <2>2. CASE IsCopied(was[p + 1])
    <3>1. Due(was[p + 1]) \in DueType
      BY <1>2, DueIsTyped
    <3>2. Len(Append(DuesAmong(was)[p], Due(was[p + 1]))) = Len(DuesAmong(was)[p]) + 1
      BY <1>3, <3>1, AppendOne
    <3> QED
      BY <1>2, <1>3, <2>2, <3>2
  <2> QED
    BY <2>1, <2>2
<1>5. Len(more) <= c * Len(Dues(was)) + Len(DuesAmong(was)[p + 1])
  <2>1. Len(more) <= c * Len(Dues(was)) + Len(DuesAmong(was)[p]) /\ Len(more) \in Nat
    BY <1>1, LenProperties DEF More
  <2>2. c * Len(Dues(was)) \in Nat
    BY <1>3
  <2> QED
    BY <1>3, <1>4, <2>1, <2>2, Within
<1>6. More(c, also, was, more, p + 1)
  BY <1>1, <1>2, <1>5 DEF More
<1> QED
  BY <1>1, <1>6 DEF Adapted

LEMMA AdaptedCopies ==
  ASSUME NEW was \in Seq(AttributeType), NEW without \in BOOLEAN, NEW also \in BOOLEAN,
         NEW now, NEW c \in Nat, NEW p \in Nat, p < Len(was), without => also,
         Adapted(c, without, was, now, p), IsCopied(was[p + 1]),
         NEW a \in AttributeType, Mirrors(a, was[p + 1]),
         IsCopy(a, Due(was[p + 1])) \/ also
  PROVE  Adapted(c, also, was, Append(now, a), p + 1)
<1>1. PICK more : now = was \o more /\ More(c, without, was, more, p)
  BY DEF Adapted
<1>2. /\ p \in 0 .. Len(was) /\ p + 1 \in 1 .. Len(was) /\ was[p + 1] \in AttributeType
      /\ DuesAmong(was)[p + 1] = Append(DuesAmong(was)[p], Due(was[p + 1]))
  BY DuesNext
<1>3. /\ Dues(was) \in Seq(DueType) /\ Len(Dues(was)) \in Nat
      /\ DuesAmong(was)[p] \in Seq(DueType) /\ Len(DuesAmong(was)[p]) \in Nat
  BY <1>2, DuesFacts
<1>4. more \in Seq(AttributeType) /\ Len(more) \in Nat
  BY <1>1, LenProperties DEF More
<1>5. PICK longer \in Seq(AttributeType) : longer = Append(more, a)
  BY <1>4, AppendOne
<1>6. /\ Len(longer) = Len(more) + 1 /\ longer[Len(more) + 1] = a
      /\ \A m \in 1 .. Len(more) : longer[m] = more[m]
  BY <1>4, <1>5, AppendOne
<1>7. Append(now, a) = was \o longer
  <2>1. With(Cat(was, more), a) = Cat(was, With(more, a))
    BY <1>4, WithInCat
  <2> QED
    BY <1>1, <1>5, <2>1 DEF With, Cat
<1>8. Len(longer) <= c * Len(Dues(was)) + Len(DuesAmong(was)[p + 1])
  <2>1. Len(more) <= c * Len(Dues(was)) + Len(DuesAmong(was)[p])
    BY <1>1 DEF More
  <2>2. c * Len(Dues(was)) \in Nat
    BY <1>3
  <2>3. Due(was[p + 1]) \in DueType
    BY <1>2, DueIsTyped
  <2>4. Len(DuesAmong(was)[p + 1]) = Len(DuesAmong(was)[p]) + 1
    BY <1>2, <1>3, <2>3, AppendOne
  <2> QED
    BY <1>3, <1>4, <1>6, <2>1, <2>2, <2>4, OneMore
<1>9. ASSUME NEW m \in 1 .. Len(longer)
      PROVE  \E d \in 1 .. Len(was) : IsCopied(was[d]) /\ Mirrors(longer[m], was[d])
  <2>1. CASE m = Len(more) + 1
    BY <1>2, <1>6, <2>1
  <2>2. CASE m # Len(more) + 1
    <3>1. m \in 1 .. Len(more)
      BY <1>4, <1>6, <2>2
    <3> QED
      BY <1>1, <1>6, <3>1 DEF More
  <2> QED
    BY <2>1, <2>2
<1>10. ~also => AreCopies(longer, Times(Dues(was), c) \o DuesAmong(was)[p + 1])
  <2> SUFFICES ASSUME ~also PROVE AreCopies(longer, Times(Dues(was), c) \o DuesAmong(was)[p + 1])
    OBVIOUS
  <2> DEFINE d == Due(was[p + 1])
  <2>1. AreCopies(more, Cat(Times(Dues(was), c), DuesAmong(was)[p])) /\ IsCopy(a, d)
    BY <1>1 DEF More, Cat
  <2>2. Times(Dues(was), c) \in Seq(DueType) /\ d \in DueType
    BY <1>2, <1>3, TimesGrow, DueIsTyped
  <2>3. DuesAmong(was)[p + 1] = With(DuesAmong(was)[p], d)
    BY <1>2 DEF With
  <2> HIDE DEF d
  <2>4. With(Cat(Times(Dues(was), c), DuesAmong(was)[p]), d)
          = Cat(Times(Dues(was), c), With(DuesAmong(was)[p], d))
    BY <1>3, <2>2, WithInCat
  <2>5. Cat(Times(Dues(was), c), DuesAmong(was)[p]) \in Seq(DueType)
    BY <1>3, <2>2, ConcatProperties DEF Cat
  <2>6. AreCopies(longer, With(Cat(Times(Dues(was), c), DuesAmong(was)[p]), d))
    BY <1>4, <1>5, <2>1, <2>2, <2>5, MoreAreCopies DEF With
  <2>7. AreCopies(longer, Cat(Times(Dues(was), c), DuesAmong(was)[p + 1]))
    BY <2>3, <2>4, <2>6
  <2> QED
    BY <2>7 DEF Cat
<1>11. More(c, also, was, longer, p + 1)
  BY <1>5, <1>8, <1>9, <1>10 DEF More
<1> QED
  BY <1>7, <1>11 DEF Adapted

LEMMA AdaptedStays ==
  ASSUME NEW was, NEW without \in BOOLEAN, NEW also \in BOOLEAN, without => also,
         NEW now, NEW c, NEW p, Adapted(c, without, was, now, p)
  PROVE  Adapted(c, also, was, now, p)
<1>1. PICK more : now = was \o more /\ More(c, without, was, more, p)
  BY DEF Adapted
<1>2. More(c, also, was, more, p)
  BY <1>1 DEF More
<1> QED
  BY <1>1, <1>2 DEF Adapted

LEMMA OneTwo == 1 .. 2 = {1, 2}
OBVIOUS

\* A copy is never copied again.
LEMMA CopyIsNotCopied ==
  ASSUME NEW a, NEW b, Mirrors(a, b) PROVE ~IsCopied(a)
<1>1. Len(Chain) = 2 /\ Len(VomsPrimaryFqan) = 2 /\ Len(VomsFqan) = 2 /\ Len(KeyInfo) = 1
  BY DEF Chain, VomsPrimaryFqan, VomsFqan, KeyInfo
<1>2. ~Copied(KeyInfo)
  BY <1>1 DEF Copied, Starts
<1>3. SubSeq(FqanPrimary, 1, 2)[1] = "attribute"
  <2>1. \A m \in 1 .. 2 : FqanPrimary[m] \in {FqanPrimary[1], FqanPrimary[2]}
    BY Zenon, OneTwo
  <2>2. \A m \in 1 .. 2 - 1 + 1 : SubSeq(FqanPrimary, 1, 2)[m] = FqanPrimary[1 + m - 1]
    BY <2>1, SubSeqProperties
  <2>3. 1 \in 1 .. 2 - 1 + 1 /\ 1 + 1 - 1 = 1 /\ FqanPrimary[1] = "attribute"
    BY DEF FqanPrimary
  <2> QED
    BY <2>2, <2>3
<1>4. Chain[1] = "subject" /\ VomsPrimaryFqan[1] = "subject" /\ VomsFqan[1] = "subject"
  BY DEF Chain, VomsPrimaryFqan, VomsFqan
<1>5. ~Copied(FqanPrimary)
  BY <1>1, <1>3, <1>4 DEF Copied, Starts
<1>6. SubSeq(Fqan, 1, 2)[1] = "attribute"
  <2>1. \A m \in 1 .. 2 : Fqan[m] \in {Fqan[1], Fqan[2]}
    BY Zenon, OneTwo
  <2>2. \A m \in 1 .. 2 - 1 + 1 : SubSeq(Fqan, 1, 2)[m] = Fqan[1 + m - 1]
    BY <2>1, SubSeqProperties
  <2>3. 1 \in 1 .. 2 - 1 + 1 /\ 1 + 1 - 1 = 1 /\ Fqan[1] = "attribute"
    BY DEF Fqan
  <2> QED
    BY <2>2, <2>3
<1>7. ~Copied(Fqan)
  BY <1>1, <1>4, <1>6 DEF Copied, Starts
<1>8. CopyIds(b) \subseteq {KeyInfo, Fqan, FqanPrimary}
  BY DEF CopyIds, PromisedId
<1> QED
  BY <1>2, <1>5, <1>7, <1>8 DEF Mirrors, IsCopied

\* What the adapter finds: the attributes as they were, and copies.
LEMMA AdaptedReads ==
  ASSUME NEW was \in Seq(AttributeType), NEW without, NEW now, NEW c, NEW p,
         Adapted(c, without, was, now, p)
  PROVE  /\ Len(now) >= Len(was) /\ \A m \in 1 .. Len(was) : now[m] = was[m]
         /\ \A m \in 1 .. Len(now) : m > Len(was) => ~IsCopied(now[m])
<1>1. PICK more : now = was \o more /\ More(c, without, was, more, p)
  BY DEF Adapted
<1>2. PICK x \in Nat, y \in Nat : x = Len(was) /\ y = Len(more)
  BY <1>1, LenProperties DEF More
<1>3. /\ Len(now) = x + y
      /\ \A m \in 1 .. x + y : now[m] = IF m <= x THEN was[m] ELSE more[m - x]
  BY <1>1, <1>2, ConcatProperties DEF More
<1>4. \A m \in 1 .. y : ~IsCopied(more[m])
  BY <1>1, <1>2, CopyIsNotCopied DEF More
<1>5. ASSUME NEW m \in 1 .. x + y, m > x PROVE ~IsCopied(now[m])
  <2>1. PICK d \in 1 .. y : d = m - x /\ ~(m <= x)
    BY <1>5
  <2> QED
    BY <1>3, <1>4, <2>1
<1> QED
  BY <1>2, <1>3, <1>5

-----------------------------------------------------------------------------
(* The invariant of the policy information point.                          *)

InPip == {"request", "subjects", "profile"}

\* how many of the attributes that subject n had it has seen in this call
Passed(n) ==
  LET all == Len(original.subjects[n])
  IN  IF at = "profile" \/ (at = "subjects" /\ n < i) THEN all
      ELSE IF at = "subjects" /\ n = i THEN IF j - 1 <= all THEN j - 1 ELSE all
      ELSE 0

SubjectOK(n) == Adapted(calls, starved, original.subjects[n], request.subjects[n], Passed(n))

SubjectsAdapted ==
  at \in InPip => /\ Len(request.subjects) = Len(original.subjects)
                  /\ \A n \in 1 .. Len(original.subjects) : SubjectOK(n)

\* It reads at least the attributes that the subject had.
ReadsAll == at = "subjects" /\ i <= Len(original.subjects) => length >= Len(original.subjects[i])

EnvironmentIs(was, now) ==
  now = was \/ (~HasProfile(was) /\ \E a \in AttributeType : a.id = ProfileId /\ now = Append(was, a))

EnvironmentAdapted ==
  at \in InPip =>
    /\ EnvironmentIs(Before(original.environment), Before(request.environment))
    /\ calls > 0 /\ ~starved => HasProfile(Before(request.environment))
    /\ at = "profile" /\ ~starved => request.environment # NULL

\* The handler is another client's: its request is never adapted.
OneAdapter == at \in InPip \/ request = original

PipInv == SubjectsAdapted /\ ReadsAll /\ EnvironmentAdapted /\ OneAdapter

LEMMA RequestTypes ==
  ASSUME TypeOK
  PROVE  /\ original \in RequestType /\ Len(original.subjects) \in Nat
         /\ \A n \in 1 .. Len(original.subjects) :
              original.subjects[n] \in Seq(AttributeType) /\ Len(original.subjects[n]) \in Nat
         /\ Before(original.environment) \in Seq(AttributeType)
         /\ Before(request.environment) \in Seq(AttributeType)
<1>1. original \in RequestType /\ request \in RequestType
  BY RequestAssumption DEF TypeOK
<1>2. original.subjects \in Seq(Seq(AttributeType))
  BY <1>1 DEF RequestType
<1>3. ASSUME NEW n \in 1 .. Len(original.subjects)
      PROVE  original.subjects[n] \in Seq(AttributeType) /\ Len(original.subjects[n]) \in Nat
  <2>1. original.subjects[n] \in Seq(AttributeType)
    BY <1>2, ElementOfSeq
  <2> QED
    BY <2>1, LenProperties
<1>4. <<>> \in Seq(AttributeType)
  BY EmptySeq
<1>5. ASSUME NEW r \in RequestType PROVE Before(r.environment) \in Seq(AttributeType)
  BY <1>4 DEF RequestType, Before
<1>6. Len(original.subjects) \in Nat
  BY <1>2, LenProperties
<1> QED
  BY <1>1, <1>3, <1>5, <1>6

\* A step that changes neither the request nor what has been seen of it.
LEMMA SubjectsStay ==
  ASSUME TypeOK, SubjectsAdapted, at \in InPip, starved' \in BOOLEAN, starved => starved',
         request'.subjects = request.subjects, UNCHANGED <<original, calls>>,
         \A n \in 1 .. Len(original.subjects) : Passed(n)' = Passed(n)
  PROVE  SubjectsAdapted'
<1>1. ASSUME NEW n \in 1 .. Len(original.subjects) PROVE SubjectOK(n)'
  <2>1. Adapted(calls, starved, original.subjects[n], request.subjects[n], Passed(n))
    BY DEF SubjectsAdapted, SubjectOK
  <2>2. starved \in BOOLEAN
    BY DEF TypeOK
  <2>3. Adapted(calls, starved', original.subjects[n], request.subjects[n], Passed(n))
    BY <2>1, <2>2, AdaptedStays
  <2> QED
    BY <2>3 DEF SubjectOK
<1> QED
  BY <1>1 DEF SubjectsAdapted

LEMMA EnvironmentStays ==
  ASSUME TypeOK, EnvironmentAdapted, at \in InPip, at' # "profile", starved => starved',
         UNCHANGED <<original, request, calls>>
  PROVE  EnvironmentAdapted'
BY DEF EnvironmentAdapted

\* The attribute that it is at: one that the subject had, or no candidate.
LEMMA AtThis ==
  ASSUME TypeOK, InSubject, SubjectsAdapted, AtAttribute
  PROVE  /\ at = "subjects" /\ at \in InPip /\ i \in 1 .. Len(original.subjects)
         /\ j <= Len(original.subjects[i]) => This = original.subjects[i][j]
         /\ j > Len(original.subjects[i]) => ~IsCopied(This)
<1>1. at = "subjects" /\ at \in InPip
  BY DEF AtAttribute, InPip
<1>2. i \in 1 .. Len(request.subjects) /\ j \in DOMAIN request.subjects[i]
  BY ThisIsAttribute
<1>3. i \in 1 .. Len(original.subjects) /\ SubjectOK(i)
  BY <1>1, <1>2 DEF SubjectsAdapted
<1>4. original.subjects[i] \in Seq(AttributeType) /\ Len(original.subjects[i]) \in Nat
  BY <1>3, RequestTypes
<1>5. /\ \A m \in 1 .. Len(original.subjects[i]) : request.subjects[i][m] = original.subjects[i][m]
      /\ \A m \in 1 .. Len(request.subjects[i]) :
           m > Len(original.subjects[i]) => ~IsCopied(request.subjects[i][m])
  BY <1>3, <1>4, AdaptedReads DEF SubjectOK
<1>6. j \in 1 .. Len(request.subjects[i])
  <2>1. request.subjects \in Seq(Seq(AttributeType))
    BY DEF TypeOK, RequestType
  <2>2. request.subjects[i] \in Seq(AttributeType)
    BY <1>2, <2>1, ElementOfSeq
  <2> QED
    BY <1>2, <2>2, LenProperties
<1>7. j <= Len(original.subjects[i]) => j \in 1 .. Len(original.subjects[i])
  BY <1>4 DEF TypeOK
<1> QED
  BY <1>1, <1>3, <1>5, <1>6, <1>7 DEF This

\* The next attribute, of a request that has not changed.
LEMMA AttributePassed ==
  ASSUME TypeOK, InSubject, SubjectsAdapted, AtAttribute,
         starved' \in BOOLEAN, starved => starved', IsCopied(This) => starved',
         j' = j + 1, UNCHANGED <<at, i, calls, original, request>>
  PROVE  SubjectsAdapted'
<1>1. at = "subjects" /\ at \in InPip /\ i \in 1 .. Len(original.subjects)
  BY AtThis
<1>2. starved \in BOOLEAN /\ calls \in Nat /\ i \in Nat /\ j \in Nat \ {0}
  BY DEF TypeOK
<1>3. ASSUME NEW n \in 1 .. Len(original.subjects) PROVE SubjectOK(n)'
  <2>1. Adapted(calls, starved, original.subjects[n], request.subjects[n], Passed(n))
    BY <1>1 DEF SubjectsAdapted, SubjectOK
  <2>2. original.subjects[n] \in Seq(AttributeType) /\ Len(original.subjects[n]) \in Nat
    BY RequestTypes
  <2>3. CASE n = i /\ j <= Len(original.subjects[i])
    <3>1. PICK p \in Nat : p = j - 1 /\ p + 1 = j
      BY <1>2
    <3>2. Passed(n) = p /\ Passed(n)' = p + 1 /\ p < Len(original.subjects[n])
      BY <1>1, <1>2, <2>2, <2>3, <3>1 DEF Passed
    <3>3. This = original.subjects[n][p + 1]
      BY <2>3, <3>1, AtThis
    <3>4. Adapted(calls, starved', original.subjects[n], request.subjects[n], p + 1)
      BY <1>2, <2>1, <2>2, <3>2, <3>3, AdaptedSkips
    <3> QED
      BY <3>2, <3>4 DEF SubjectOK
  <2>4. CASE ~(n = i /\ j <= Len(original.subjects[i]))
    <3>1. Passed(n)' = Passed(n)
      BY <1>1, <1>2, <2>2, <2>4 DEF Passed
    <3>2. Adapted(calls, starved', original.subjects[n], request.subjects[n], Passed(n))
      BY <1>2, <2>1, AdaptedStays
    <3> QED
      BY <3>1, <3>2 DEF SubjectOK
  <2> QED
    BY <2>3, <2>4
<1> QED
  BY <1>1, <1>3 DEF SubjectsAdapted

\* A step of the loop over the attributes that does not change the request.
LEMMA PassedKeeps ==
  ASSUME AdapterInv, PipInv, AtAttribute, j' = j + 1,
         starved' \in BOOLEAN, starved => starved', IsCopied(This) => starved',
         UNCHANGED <<at, calls, original, request, i, length>>
  PROVE  PipInv'
<1>1. at = "subjects" /\ at' = "subjects" /\ at \in InPip /\ TypeOK /\ InSubject
  BY DEF AtAttribute, InPip, AdapterInv
<1>2. SubjectsAdapted'
  BY <1>1, AttributePassed DEF PipInv
<1>3. EnvironmentAdapted'
  BY <1>1, EnvironmentStays DEF PipInv
<1>4. ReadsAll' /\ OneAdapter'
  BY <1>1 DEF PipInv, ReadsAll, OneAdapter, InPip
<1> QED
  BY <1>2, <1>3, <1>4 DEF PipInv

LEMMA SkipAttributeAdapts ==
  ASSUME AdapterInv, PipInv, SkipAttribute PROVE PipInv'
<1>1. starved' \in BOOLEAN /\ (starved => starved')
  BY DEF AdapterInv, TypeOK, SkipAttribute, Fine
<1>2. ~IsCopied(This) /\ AtAttribute /\ j' = j + 1
  BY DEF SkipAttribute, IsCopied, PipStep
<1>3. UNCHANGED <<at, calls, original, request, i, length>>
  BY DEF SkipAttribute, PipStep
<1> QED
  BY <1>1, <1>2, <1>3, PassedKeeps

LEMMA CopyFailsAdapts ==
  ASSUME AdapterInv, PipInv, CopyFails PROVE PipInv'
<1>1. starved' = TRUE
  BY DEF CopyFails, Loses
<1>2. AtAttribute /\ j' = j + 1 /\ UNCHANGED <<at, calls, original, request, i, length>>
  BY DEF CopyFails, PipStep
<1> QED
  BY <1>1, <1>2, PassedKeeps

LEMMA CopyAttributeAdapts ==
  ASSUME AdapterInv, PipInv, CopyAttribute PROVE PipInv'
<1>1. TypeOK /\ InSubject /\ AtAttribute /\ IsCopied(This) /\ j' = j + 1
  BY DEF AdapterInv, CopyAttribute, IsCopied, PipStep
<1>2. UNCHANGED <<at, calls, original, i, length>>
  BY DEF CopyAttribute, PipStep
<1>3. /\ at = "subjects" /\ at \in InPip /\ i \in 1 .. Len(original.subjects)
      /\ j <= Len(original.subjects[i]) => This = original.subjects[i][j]
      /\ j > Len(original.subjects[i]) => ~IsCopied(This)
  BY <1>1, AtThis DEF PipInv
<1>4. PICK id \in {CopyOf(This).id, NULL} :
        /\ request' = [request EXCEPT !.subjects[i] = Append(@, Attribute(id, This.values))]
        /\ IF id # NULL THEN Fine ELSE Loses({})
  BY DEF CopyAttribute
<1>5. i \in 1 .. Len(request.subjects) /\ This \in AttributeType /\ request \in RequestType
  BY <1>1, ThisIsAttribute DEF TypeOK
<1> DEFINE a == Attribute(id, This.values)
<1>6. a \in AttributeType /\ Mirrors(a, This) /\ (id # NULL => IsCopy(a, Due(This)))
  <2>1. a \in AttributeType /\ a.id = id /\ a.values = This.values
    BY <1>4, <1>5, CopyHasName DEF AttributeType, Attribute, Ids
  <2>2. CASE id = NULL
    BY <2>1, <2>2 DEF Mirrors
  <2>3. CASE id = CopyOf(This).id
    <3>1. a.id \in CopyIds(This) /\ IsCopy(a, Due(This))
      BY <2>1, <2>3, CopyIsDue
    <3> QED
      BY <2>1, <3>1 DEF Mirrors
  <2> QED
    BY <1>4, <2>1, <2>2, <2>3
<1>7. request' = [request EXCEPT !.subjects[i] = Append(@, a)]
  BY <1>4
<1> HIDE DEF a
<1>8. GivesSubject(request', request, i, a)
  BY <1>5, <1>6, <1>7, SubjectGrows
<1>9. /\ starved \in BOOLEAN /\ starved' \in BOOLEAN /\ (starved => starved')
      /\ IsCopy(a, Due(This)) \/ starved'
  BY <1>1, <1>4, <1>6 DEF TypeOK, Fine, Loses
<1>10. calls \in Nat /\ i \in Nat /\ j \in Nat \ {0} /\ Len(original.subjects[i]) \in Nat
  BY <1>1, <1>3, RequestTypes DEF TypeOK
<1>11. j <= Len(original.subjects[i]) /\ This = original.subjects[i][j]
  BY <1>1, <1>3, <1>10
<1>12. SubjectsAdapted'
  <2>1. ASSUME NEW n \in 1 .. Len(original.subjects) PROVE SubjectOK(n)'
    <3>1. Adapted(calls, starved, original.subjects[n], request.subjects[n], Passed(n))
      BY <1>3 DEF PipInv, SubjectsAdapted, SubjectOK
    <3>2. original.subjects[n] \in Seq(AttributeType) /\ Len(original.subjects[n]) \in Nat
      BY <1>1, RequestTypes
    <3>3. CASE n = i
      <4>1. PICK p \in Nat : p = j - 1 /\ p + 1 = j
        BY <1>10
      <4>2. Passed(n) = p /\ Passed(n)' = p + 1 /\ p < Len(original.subjects[n])
        BY <1>1, <1>2, <1>3, <1>10, <1>11, <3>3, <4>1 DEF Passed
      <4>3. IsCopied(original.subjects[n][p + 1]) /\ Mirrors(a, original.subjects[n][p + 1])
            /\ (IsCopy(a, Due(original.subjects[n][p + 1])) \/ starved')
        BY <1>1, <1>6, <1>9, <1>11, <3>3, <4>1
      <4>4. Adapted(calls, starved', original.subjects[n], Append(request.subjects[n], a), p + 1)
        BY <1>6, <1>9, <1>10, <3>1, <3>2, <4>2, <4>3, AdaptedCopies
      <4>5. request'.subjects[n] = Append(request.subjects[n], a)
        BY <1>8, <3>3 DEF GivesSubject
      <4> QED
        BY <1>2, <4>2, <4>4, <4>5 DEF SubjectOK
    <3>4. CASE n # i
      <4>1. Passed(n)' = Passed(n)
        BY <1>2, <3>4 DEF Passed
      <4>2. Adapted(calls, starved', original.subjects[n], request.subjects[n], Passed(n))
        BY <1>9, <3>1, AdaptedStays
      <4>3. Len(request.subjects) = Len(original.subjects)
        BY <1>3 DEF PipInv, SubjectsAdapted
      <4>4. request'.subjects[n] = request.subjects[n]
        BY <1>8, <3>4, <4>3 DEF GivesSubject
      <4> QED
        BY <1>2, <4>1, <4>2, <4>4 DEF SubjectOK
    <3> QED
      BY <3>3, <3>4
  <2>2. Len(request'.subjects) = Len(original'.subjects)
    BY <1>2, <1>3, <1>8 DEF PipInv, SubjectsAdapted, GivesSubject
  <2> QED
    BY <1>2, <2>1, <2>2 DEF SubjectsAdapted
<1>13. EnvironmentAdapted'
  <2>1. request'.environment = request.environment
    BY <1>8 DEF GivesSubject
  <2> QED
    BY <1>2, <1>3, <1>9, <2>1 DEF PipInv, EnvironmentAdapted
<1>14. ReadsAll' /\ OneAdapter'
  BY <1>2, <1>3 DEF PipInv, ReadsAll, OneAdapter
<1> QED
  BY <1>12, <1>13, <1>14 DEF PipInv

\* What is read before the loop over a subject is all that it had.
LEMMA ReadsEnough ==
  ASSUME TypeOK, SubjectsAdapted, at \in InPip, NEW n \in Nat \ {0}, n <= Len(original.subjects)
  PROVE  AttributesOf(n) >= Len(original.subjects[n])
<1>1. n \in 1 .. Len(original.subjects) /\ SubjectOK(n) /\ n <= Len(request.subjects)
  BY RequestTypes DEF SubjectsAdapted
<1>2. Len(request.subjects[n]) >= Len(original.subjects[n])
  <2>1. original.subjects[n] \in Seq(AttributeType)
    BY <1>1, RequestTypes
  <2> QED
    BY <1>1, <2>1, AdaptedReads DEF SubjectOK
<1> QED
  BY <1>1, <1>2 DEF AttributesOf

LEMMA BeginPipAdapts ==
  ASSUME AdapterInv, PipInv, BeginPip PROVE PipInv'
<1>1. TypeOK /\ at = "request" /\ at' = "subjects" /\ at \in InPip /\ at' \in InPip
  BY DEF AdapterInv, BeginPip, InPip
<1>2. UNCHANGED <<calls, original, request, starved>> /\ i' = 1 /\ j' = 1 /\ length' = AttributesOf(1)
  BY DEF BeginPip, Fine
<1>3. SubjectsAdapted'
  <2>1. \A n \in 1 .. Len(original.subjects) : Passed(n)' = Passed(n)
    <3> SUFFICES ASSUME NEW n \in 1 .. Len(original.subjects) PROVE Passed(n)' = Passed(n)
      OBVIOUS
    <3>1. Len(original.subjects[n]) \in Nat
      BY <1>1, RequestTypes
    <3>2. Passed(n) = 0 /\ Passed(n)' = 0
      BY <1>1, <1>2, <3>1 DEF Passed
    <3> QED
      BY <3>2
  <2>2. starved' \in BOOLEAN
    BY <1>1, <1>2 DEF TypeOK
  <2> QED
    BY <1>1, <1>2, <2>1, <2>2, SubjectsStay DEF PipInv
<1>4. ReadsAll'
  <2>1. 1 <= Len(original.subjects) => AttributesOf(1) >= Len(original.subjects[1])
    BY <1>1, ReadsEnough DEF PipInv
  <2> QED
    BY <1>2, <2>1 DEF ReadsAll
<1>5. EnvironmentAdapted' /\ OneAdapter'
  BY <1>1, <1>2, EnvironmentStays DEF PipInv, OneAdapter
<1> QED
  BY <1>3, <1>4, <1>5 DEF PipInv

LEMMA NextSubjectAdapts ==
  ASSUME AdapterInv, PipInv, NextSubject PROVE PipInv'
<1>1. /\ TypeOK /\ at = "subjects" /\ at' = "subjects" /\ at \in InPip /\ at' \in InPip
      /\ i <= Len(request.subjects) /\ j > length
  BY DEF AdapterInv, NextSubject, InPip
<1>2. /\ UNCHANGED <<calls, original, request, starved>>
      /\ i' = i + 1 /\ j' = 1 /\ length' = AttributesOf(i + 1)
  BY DEF NextSubject, Fine
<1>3. /\ i \in Nat /\ i + 1 \in Nat \ {0} /\ j \in Nat \ {0} /\ length \in Nat
      /\ i <= Len(original.subjects)
  BY <1>1 DEF TypeOK, PipInv, SubjectsAdapted
<1>4. SubjectsAdapted'
  <2>1. \A n \in 1 .. Len(original.subjects) : Passed(n)' = Passed(n)
    <3> SUFFICES ASSUME NEW n \in 1 .. Len(original.subjects) PROVE Passed(n)' = Passed(n)
      OBVIOUS
    <3>1. PICK all \in Nat : all = Len(original.subjects[n])
      BY <1>1, RequestTypes
    <3>2. n = i => length >= all
      BY <1>1, <1>3, <3>1 DEF PipInv, ReadsAll
    <3>3. n < i \/ n = i \/ n = i + 1 \/ n > i + 1
      BY <1>3
    <3> QED
      BY <1>1, <1>2, <1>3, <3>1, <3>2, <3>3 DEF Passed
  <2>2. starved' \in BOOLEAN
    BY <1>1, <1>2 DEF TypeOK
  <2> QED
    BY <1>1, <1>2, <2>1, <2>2, SubjectsStay DEF PipInv
<1>5. ReadsAll'
  <2>1. i + 1 <= Len(original.subjects) => AttributesOf(i + 1) >= Len(original.subjects[i + 1])
    BY <1>1, <1>3, ReadsEnough DEF PipInv
  <2> QED
    BY <1>2, <2>1 DEF ReadsAll
<1>6. EnvironmentAdapted' /\ OneAdapter'
  BY <1>1, <1>2, EnvironmentStays DEF PipInv, OneAdapter
<1> QED
  BY <1>4, <1>5, <1>6 DEF PipInv

LEMMA EnvironmentAdapts ==
  ASSUME AdapterInv, PipInv, Environment PROVE PipInv'
<1>1. /\ TypeOK /\ at = "subjects" /\ at' = "profile" /\ at \in InPip /\ at' \in InPip
      /\ i > Len(request.subjects) /\ UNCHANGED <<calls, original, i, j, length>>
  BY DEF AdapterInv, Environment, InPip
<1>2. starved \in BOOLEAN /\ starved' \in BOOLEAN /\ (starved => starved')
  BY <1>1 DEF TypeOK, Environment, Fine, Loses
<1>3. /\ request'.subjects = request.subjects
      /\ Before(request'.environment) = Before(request.environment)
      /\ ~starved' => request'.environment # NULL
  <2>1. request \in RequestType /\ NULL # <<>>
    <3>1. <<>> \in Seq(STRING)
      BY EmptySeq
    <3> QED
      BY <1>1, <3>1, NullAssumption DEF TypeOK
  <2>2. CASE request' = request /\ (request.environment # NULL \/ starved')
    BY <2>2
  <2>3. CASE request.environment = NULL /\ request' = [request EXCEPT !.environment = <<>>]
    BY <2>1, <2>3 DEF RequestType, Before
  <2> QED
    BY <2>2, <2>3 DEF Environment, Loses
<1>4. SubjectsAdapted'
  <2>1. \A n \in 1 .. Len(original.subjects) : Passed(n)' = Passed(n)
    <3> SUFFICES ASSUME NEW n \in 1 .. Len(original.subjects) PROVE Passed(n)' = Passed(n)
      OBVIOUS
    <3>1. n < i
      <4>1. Len(request.subjects) = Len(original.subjects) /\ Len(original.subjects) \in Nat
        BY <1>1, RequestTypes DEF PipInv, SubjectsAdapted
      <4>2. i \in Nat
        BY <1>1 DEF TypeOK
      <4> QED
        BY <1>1, <4>1, <4>2
    <3> QED
      BY <1>1, <3>1 DEF Passed
  <2> QED
    BY <1>1, <1>2, <1>3, <2>1, SubjectsStay DEF PipInv
<1>5. EnvironmentAdapted'
  BY <1>1, <1>2, <1>3 DEF PipInv, EnvironmentAdapted
<1>6. ReadsAll' /\ OneAdapter'
  BY <1>1 DEF ReadsAll, OneAdapter
<1> QED
  BY <1>4, <1>5, <1>6 DEF PipInv

LEMMA ProfileIsFound ==
  ASSUME NEW es \in Seq(AttributeType), NEW a \in AttributeType, a.id = ProfileId
  PROVE  HasProfile(Append(es, a))
<1>1. ProfileId \in Seq(STRING) /\ ProfileId # NULL
  <2>1. ProfileId \in Seq(STRING)
    BY GivenIds
  <2> QED
    BY <2>1, NullAssumption
<1>2. Starts(ProfileId, ProfileId)
  <2>1. SubSeq(ProfileId, 1, Len(ProfileId)) = ProfileId /\ Len(ProfileId) \in Nat
    BY <1>1, SubSeqFull, LenProperties
  <2> QED
    BY <2>1 DEF Starts
<1>3. PICK t \in Seq(AttributeType) : t = Append(es, a)
  BY AppendOne
<1>4. PICK n \in Nat : n = Len(es)
  BY LenProperties
<1>5. Len(t) = n + 1 /\ t[n + 1] = a /\ n + 1 \in 1 .. n + 1
  BY <1>3, <1>4, AppendOne
<1>6. n + 1 \in DOMAIN t
  BY <1>5, LenProperties
<1>7. HasProfile(t)
  BY <1>1, <1>2, <1>5, <1>6 DEF HasProfile
<1> QED
  BY <1>3, <1>7

LEMMA ProfileIdIs == HasProfileId <=> HasProfile(Before(request.environment))
<1>1. CASE request.environment = NULL
  <2>1. DOMAIN <<>> = {}
    OBVIOUS
  <2> QED
    BY <1>1, <2>1 DEF HasProfileId, HasProfile, EnvironmentIds, Before
<1>2. CASE request.environment # NULL
  BY <1>2 DEF HasProfileId, HasProfile, EnvironmentIds, Before
<1> QED
  BY <1>1, <1>2

LEMMA AddProfileIdAdapts ==
  ASSUME AdapterInv, PipInv, AddProfileId PROVE PipInv'
<1>1. /\ TypeOK /\ at = "profile" /\ at' = "request" /\ at \in InPip /\ at' \in InPip
      /\ calls' = calls + 1 /\ UNCHANGED original
  BY DEF AdapterInv, AddProfileId, InPip
<1>2. starved \in BOOLEAN /\ starved' \in BOOLEAN /\ (starved => starved') /\ calls \in Nat
  BY <1>1 DEF TypeOK, AddProfileId, Fine, Loses
<1> DEFINE was == Before(original.environment)
           now == Before(request.environment)
<1>3. was \in Seq(AttributeType) /\ now \in Seq(AttributeType)
  BY <1>1, RequestTypes
<1>4. /\ EnvironmentIs(was, now)
      /\ calls > 0 /\ ~starved => HasProfile(now)
      /\ ~starved => request.environment # NULL
  BY <1>1 DEF PipInv, EnvironmentAdapted
<1>5. HasProfileId <=> HasProfile(now)
  BY ProfileIdIs
<1>6. \/ request' = request /\ (HasProfileId \/ starved')
      \/ /\ request.environment # NULL /\ ~HasProfileId
         /\ \E version \in {"version", NULL} :
              request' = [request EXCEPT !.environment = Append(@, Attribute(ProfileId, version))]
  <2>1. CASE (HasProfileId \/ request.environment = NULL) /\ UNCHANGED request /\ Fine
    BY <1>2, <1>4, <2>1 DEF Fine
  <2>2. CASE ~HasProfileId /\ request.environment # NULL /\ UNCHANGED request
             /\ \E os \in {{}, {"attribute"}} : Loses(os)
    BY <2>2 DEF Loses
  <2>3. CASE /\ ~HasProfileId /\ request.environment # NULL
             /\ \E version \in {"version", NULL} :
                  request' = [request EXCEPT !.environment = Append(@, Attribute(ProfileId, version))]
    BY <2>3
  <2> QED
    BY <2>1, <2>2, <2>3 DEF AddProfileId
<1> HIDE DEF was, now
<1>7. /\ request'.subjects = request.subjects
      /\ EnvironmentIs(was, Before(request'.environment))
      /\ ~starved' => HasProfile(Before(request'.environment))
  <2>1. CASE request' = request /\ (HasProfileId \/ starved')
    BY <1>4, <1>5, <2>1 DEF now
  <2>2. ASSUME NEW version \in {"version", NULL}, request.environment # NULL, ~HasProfileId,
               request' = [request EXCEPT !.environment = Append(@, Attribute(ProfileId, version))]
        PROVE  /\ request'.subjects = request.subjects
               /\ EnvironmentIs(was, Before(request'.environment))
               /\ HasProfile(Before(request'.environment))
    <3> DEFINE a == Attribute(ProfileId, version)
    <3>1. a \in AttributeType /\ a.id = ProfileId
      <4>1. version \in Texts
        BY StringAssumption DEF Texts
      <4> HIDE DEF Texts
      <4>2. ProfileId \in Ids
        BY GivenIds DEF Ids
      <4>3. a.id = ProfileId
        BY DEF Attribute
      <4> QED
        BY <4>1, <4>2, <4>3 DEF Attribute, AttributeType
    <3>2. request \in RequestType
      BY <1>1 DEF TypeOK
    <3> HIDE DEF a
    <3>3. PICK t : t = Append(request.environment, a)
      OBVIOUS
    <3>4. request' = [request EXCEPT !.environment = t]
      BY <2>2, <3>3 DEF a
    <3>5. request'.subjects = request.subjects /\ request'.environment = t
      BY <3>2, <3>4 DEF RequestType
    <3>6. now = request.environment
      BY <2>2 DEF now, Before
    <3>7. t = Append(now, a) /\ HasProfile(t)
      BY <1>3, <3>1, <3>3, <3>6, ProfileIsFound
    <3>8. t # NULL
      <4>1. t \in Seq(AttributeType)
        BY <1>3, <3>1, <3>7, AppendOne
      <4> QED
        BY <4>1, NullAssumption
    <3>9. Before(request'.environment) = t
      BY <3>5, <3>8 DEF Before
    <3>10. ~HasProfile(now)
      BY <1>5, <2>2
    <3>11. now = was
      <4> SUFFICES ASSUME NEW b \in AttributeType, b.id = ProfileId, now = Append(was, b) PROVE FALSE
        BY <1>4 DEF EnvironmentIs
      <4> QED
        BY <1>3, <3>10, ProfileIsFound
    <3>12. EnvironmentIs(was, t)
      BY <3>1, <3>7, <3>10, <3>11 DEF EnvironmentIs
    <3> QED
      BY <3>5, <3>7, <3>9, <3>12
  <2> QED
    BY <1>6, <2>1, <2>2
<1>8. EnvironmentAdapted'
  <2>1. was' = was
    BY <1>1 DEF was
  <2> QED
    BY <1>1, <1>7, <2>1 DEF EnvironmentAdapted, was
<1>9. SubjectsAdapted'
  <2>1. ASSUME NEW n \in 1 .. Len(original.subjects) PROVE SubjectOK(n)'
    <3>1. original.subjects[n] \in Seq(AttributeType)
      BY <1>1, RequestTypes
    <3>2. Passed(n) = Len(original.subjects[n]) /\ Passed(n)' = 0
      <4>1. at = "profile" /\ at' # "profile" /\ at' # "subjects"
        BY <1>1
      <4>2. Passed(n) = Len(original.subjects[n])
        BY <4>1 DEF Passed
      <4>3. Passed(n)' = 0
        BY <4>1 DEF Passed
      <4> QED
        BY <4>2, <4>3
    <3>3. Adapted(calls, starved, original.subjects[n], request.subjects[n],
                  Len(original.subjects[n]))
      BY <1>1, <3>2 DEF PipInv, SubjectsAdapted, SubjectOK
    <3>4. Adapted(calls + 1, starved, original.subjects[n], request.subjects[n], 0)
      BY <1>2, <3>1, <3>3, AdaptedAgain
    <3>5. Adapted(calls + 1, starved', original.subjects[n], request.subjects[n], 0)
      BY <1>2, <3>4, AdaptedStays
    <3> QED
      BY <1>1, <1>7, <3>2, <3>5 DEF SubjectOK
  <2>2. Len(request'.subjects) = Len(original'.subjects)
    BY <1>1, <1>7 DEF PipInv, SubjectsAdapted
  <2> QED
    BY <1>1, <2>1, <2>2 DEF SubjectsAdapted
<1>10. ReadsAll' /\ OneAdapter'
  BY <1>1 DEF ReadsAll, OneAdapter
<1> QED
  BY <1>8, <1>9, <1>10 DEF PipInv

\* A step that stops the adapter changes nothing that PipInv is about.
LEMMA NothingAdapts ==
  ASSUME PipInv, UNCHANGED <<at, calls, original, request, i, j, length, starved>>
  PROVE  PipInv'
BY DEF PipInv, SubjectsAdapted, SubjectOK, Passed, ReadsAll, EnvironmentAdapted, OneAdapter

LEMMA FaultAdapts ==
  ASSUME PipInv, NEW f, Fault(f) PROVE PipInv'
<1>1. UNCHANGED <<at, calls, original, request, i, j, length, starved>>
  BY DEF Fault, given, loop
<1> QED
  BY <1>1, NothingAdapts

LEMMA HandlerAdapts ==
  ASSUME PipInv, at \notin InPip, at' \notin InPip, UNCHANGED <<original, request>>
  PROVE  PipInv'
<1>1. at' # "subjects"
  BY DEF InPip
<1> QED
  BY <1>1 DEF PipInv, SubjectsAdapted, ReadsAll, EnvironmentAdapted, OneAdapter

LEMMA HandlerActions ==
  ASSUME \/ BeginHandler \/ SkipObligation \/ OpenObligation \/ NextResult
         \/ ReadAssignment \/ EndOfAssignments \/ AddUsername \/ AddUidGid
         \/ AddSecondaryGids \/ EndOfHandler
  PROVE  at \notin InPip /\ at' \notin InPip /\ UNCHANGED <<original, request>>
BY DEF BeginHandler, SkipObligation, OpenObligation, NextResult, ReadAssignment, EndOfAssignments,
       AddUsername, AddUidGid, AddSecondaryGids, EndOfHandler, AtObligation, AtAssignment, OhStep,
       Goes, given, InPip

LEMMA PipStepKeeps ==
  ASSUME AdapterInv, PipInv, [Next]_vars PROVE PipInv'
<1>1. CASE UNCHANGED vars
  <2>1. UNCHANGED <<at, calls, original, request, i, j, length, starved>>
    BY <1>1 DEF vars, loop
  <2> QED
    BY <2>1, NothingAdapts
<1>2. CASE Step
  <2>1. CASE BeginPip \/ NextSubject
    BY <2>1, BeginPipAdapts, NextSubjectAdapts
  <2>2. CASE SkipAttribute \/ CopyAttribute \/ CopyFails
    BY <2>2, SkipAttributeAdapts, CopyAttributeAdapts, CopyFailsAdapts
  <2>3. CASE Environment \/ AddProfileId
    BY <2>3, EnvironmentAdapts, AddProfileIdAdapts
  <2>4. CASE NullAttribute \/ NullProfile \/ NullObligation \/ NullAssignment \/ NoRoom \/ TooMany
    BY <2>4, FaultAdapts
    DEF NullAttribute, NullProfile, NullObligation, NullAssignment, NoRoom, TooMany
  <2>5. CASE NoGids
    <3>1. at \notin InPip /\ at' \notin InPip /\ UNCHANGED <<original, request>>
      BY <2>5 DEF NoGids, given, InPip
    <3> QED
      BY <3>1, HandlerAdapts
  <2>6. CASE \/ BeginHandler \/ SkipObligation \/ OpenObligation \/ NextResult
             \/ ReadAssignment \/ EndOfAssignments \/ AddUsername \/ AddUidGid
             \/ AddSecondaryGids \/ EndOfHandler
    BY <2>6, HandlerActions, HandlerAdapts
  <2> QED
    BY <1>2, <2>1, <2>2, <2>3, <2>4, <2>5, <2>6 DEF Step
<1> QED
  BY <1>1, <1>2 DEF Next

LEMMA InitPip == ASSUME Init PROVE PipInv
<1>1. at \in {"request", "response"} /\ calls = 0 /\ request = original
  BY DEF Init
<1>2. AdapterInv
  BY InitAdapter
<1>3. TypeOK /\ starved \in BOOLEAN
  BY <1>2 DEF AdapterInv, TypeOK
<1>4. SubjectsAdapted
  <2>1. ASSUME NEW n \in 1 .. Len(original.subjects) PROVE SubjectOK(n)
    <3>1. original.subjects[n] \in Seq(AttributeType)
      BY <1>3, RequestTypes
    <3>2. Passed(n) = 0
      BY <1>1 DEF Passed
    <3>3. Adapted(0, starved, original.subjects[n], original.subjects[n], 0)
      BY <1>3, <3>1, AdaptedFirst
    <3> QED
      BY <1>1, <3>2, <3>3 DEF SubjectOK
  <2> QED
    BY <1>1, <2>1 DEF SubjectsAdapted
<1>5. EnvironmentAdapted
  <2>1. ~(calls > 0) /\ at # "profile"
    BY <1>1
  <2>2. EnvironmentIs(Before(original.environment), Before(request.environment))
    <3>1. Before(request.environment) = Before(original.environment)
      BY <1>1
    <3> QED
      BY <3>1, Zenon DEF EnvironmentIs
  <2> QED
    BY <2>1, <2>2 DEF EnvironmentAdapted
<1>6. ReadsAll /\ OneAdapter
  BY <1>1 DEF ReadsAll, OneAdapter
<1> QED
  BY <1>4, <1>5, <1>6 DEF PipInv

AmongCopies(s, ds) ==
  \A m \in DOMAIN s : \E c \in DOMAIN ds :
    s[m].values = ds[c].values /\ s[m].id \in ds[c].ids \cup {NULL}

\* Of a subject: what AdaptedRequest says of it.
AsAdapted(c, without, was, now, p) ==
  LET added == SubSeq(now, Len(was) + 1, Len(now))
  IN  /\ Extends(now, was)
      /\ Len(added) <= (c + 1) * Len(Dues(was))
      /\ AmongCopies(added, Dues(was))
      /\ p = 0 /\ ~without => AreCopies(added, Times(Dues(was), c))

LEMMA AdaptedMeans ==
  ASSUME NEW was \in Seq(AttributeType), NEW now, NEW c \in Nat, NEW without \in BOOLEAN,
         NEW p \in 0 .. Len(was), Adapted(c, without, was, now, p)
  PROVE  AsAdapted(c, without, was, now, p)
<1>0. PICK added : added = SubSeq(now, Len(was) + 1, Len(now))
  OBVIOUS
<1>1. PICK more : now = was \o more /\ More(c, without, was, more, p)
  BY DEF Adapted
<1>2. PICK x \in Nat, y \in Nat : x = Len(was) /\ y = Len(more)
  BY <1>1, LenProperties DEF More
<1>3. /\ now \in Seq(AttributeType) /\ Len(now) = x + y
      /\ \A m \in 1 .. x + y : now[m] = IF m <= x THEN was[m] ELSE more[m - x]
  BY <1>1, <1>2, ConcatProperties DEF More
<1>4. more \in Seq(AttributeType) /\ DOMAIN more = 1 .. y
  BY <1>1, <1>2, LenProperties DEF More
<1>5. added = more
  <2>1. \A m \in x + 1 .. x + y : now[m] \in AttributeType
    BY <1>3, ElementOfSeq
  <2>2. x + 1 \in Int /\ x + y \in Int
    OBVIOUS
  <2>3. added = SubSeq(now, x + 1, x + y)
    BY <1>0, <1>2, <1>3
  <2>4. PICK u \in Nat, v \in Nat : u = x + 1 /\ v = x + y
    OBVIOUS
  <2>5. /\ added \in Seq(AttributeType)
        /\ Len(added) = IF u <= v THEN v - u + 1 ELSE 0
        /\ \A m \in 1 .. v - u + 1 : added[m] = now[u + m - 1]
    <3>1. added = SubSeq(now, u, v)
      BY <2>3, <2>4, Zenon
    <3>0. u \in Int /\ v \in Int
      OBVIOUS
    <3>2. \A m \in u .. v : now[m] \in AttributeType
      BY <2>1, <2>4
    <3>3. /\ SubSeq(now, u, v) \in Seq(AttributeType)
          /\ Len(SubSeq(now, u, v)) = IF u <= v THEN v - u + 1 ELSE 0
          /\ \A m \in 1 .. v - u + 1 : SubSeq(now, u, v)[m] = now[u + m - 1]
      BY <3>0, <3>2, SubSeqProperties
    <3> QED
      BY <3>1, <3>3
  <2>6. Len(added) = y /\ v - u + 1 = y
    BY <2>4, <2>5
  <2>7. ASSUME NEW m \in 1 .. y PROVE added[m] = more[m]
    <3>1. PICK d \in 1 .. x + y : d = u + m - 1 /\ ~(d <= x) /\ d - x = m
      BY <2>4
    <3> QED
      BY <1>3, <2>5, <2>6, <3>1
  <2> QED
    BY <1>2, <1>4, <2>5, <2>6, <2>7, SeqEqual
<1>6. Extends(now, was)
  <2>1. Continues(now, was)
    BY <1>2, <1>3 DEF Continues
  <2> QED
    BY <1>3, <2>1, ContinuesExtends
<1>7. /\ Dues(was) \in Seq(DueType) /\ Len(Dues(was)) \in Nat
      /\ DuesAmong(was)[p] \in Seq(DueType) /\ Len(DuesAmong(was)[p]) \in Nat
      /\ Len(DuesAmong(was)[p]) <= Len(Dues(was))
      /\ DuesAmong(was)[0] = <<>>
  BY DuesFacts
<1>8. Len(more) <= (c + 1) * Len(Dues(was))
  <2>1. PICK l \in Nat : l = Len(Dues(was))
    BY <1>7
  <2>2. (c + 1) * l = c * l + l /\ c * l \in Nat
    OBVIOUS
  <2>3. y <= c * l + Len(DuesAmong(was)[p])
    BY <1>1, <1>2, <2>1 DEF More
  <2>4. y <= c * l + l
    BY <1>7, <2>1, <2>2, <2>3, Within
  <2> QED
    BY <1>2, <2>1, <2>2, <2>4
<1>9. ASSUME NEW m \in DOMAIN more
      PROVE  \E d \in DOMAIN Dues(was) : /\ more[m].values = Dues(was)[d].values
                                         /\ more[m].id \in Dues(was)[d].ids \cup {NULL}
  <2>1. PICK b \in 1 .. Len(was) : IsCopied(was[b]) /\ Mirrors(more[m], was[b])
    BY <1>1, <1>2, <1>4 DEF More
  <2>2. PICK d \in 1 .. Len(Dues(was)) : Dues(was)[d] = Due(was[b])
    BY <2>1, DuesAre DEF DuesOf, Dues
  <2>3. d \in DOMAIN Dues(was)
    BY <1>7, LenProperties
  <2>4. Due(was[b]).values = was[b].values /\ Due(was[b]).ids = CopyIds(was[b])
    BY DEF Due
  <2> QED
    BY <2>1, <2>2, <2>3, <2>4 DEF Mirrors
<1>10. p = 0 /\ ~without => AreCopies(more, Times(Dues(was), c))
  <2> SUFFICES ASSUME p = 0, ~without PROVE AreCopies(more, Times(Dues(was), c))
    OBVIOUS
  <2>1. AreCopies(more, Times(Dues(was), c) \o <<>>)
    BY <1>1, <1>7 DEF More
  <2>2. Times(Dues(was), c) \in Seq(DueType)
    BY <1>7, TimesGrow
  <2> QED
    BY <2>1, <2>2, ConcatEmptySeq
<1>11. AmongCopies(more, Dues(was))
  BY <1>9 DEF AmongCopies
<1> QED
  BY <1>0, <1>5, <1>6, <1>8, <1>10, <1>11 DEF AsAdapted

(***************************************************************************)
(* authzinterop2gridwn_pip_process, for requests of any size and any       *)
(* number of calls with one of them: the attributes that a subject had     *)
(* stay, in order; after them come the copies of each pass over those that *)
(* are to be copied, never one of a copy; and the environment gets one     *)
(* profile id.  The loop reads the list it adds to: that the bound it has  *)
(* read covers all that the subject had, and that what comes after is      *)
(* nothing to be copied, is what the invariant adds.                       *)
(***************************************************************************)
THEOREM RequestIsAdaptedOnce == Spec => []AdaptedRequest
<1>1. Spec => [](AdapterInv /\ PipInv)
  <2>1. Init => AdapterInv /\ PipInv
    BY InitAdapter, InitPip
  <2>2. AdapterInv /\ PipInv /\ [Next]_vars => (AdapterInv /\ PipInv)'
    BY NextKeeps, PipStepKeeps
  <2> QED
    BY <2>1, <2>2, PTL DEF Spec
<1>2. ASSUME AdapterInv, PipInv PROVE AdaptedRequest
  <2>1. TypeOK /\ calls \in Nat /\ starved \in BOOLEAN
    BY <1>2 DEF AdapterInv, TypeOK
  <2>2. ASSUME NEW n \in DOMAIN original.subjects, NEW was, was = original.subjects[n],
               NEW now, now = request.subjects[n],
               NEW added, added = SubSeq(now, Len(was) + 1, Len(now))
        PROVE  /\ Extends(now, was)
               /\ Len(added) <= (calls + 1) * Len(Dues(was))
               /\ AmongCopies(added, Dues(was))
               /\ at = "request" /\ ~starved => AreCopies(added, Times(Dues(was), calls))
    <3>1. n \in 1 .. Len(original.subjects)
      <4>1. original.subjects \in Seq(Seq(AttributeType))
        BY <2>1, RequestTypes DEF RequestType
      <4> QED
        BY <4>1, LenProperties
    <3>2. was \in Seq(AttributeType) /\ Len(was) \in Nat
      BY <2>1, <2>2, <3>1, RequestTypes
    <3>3. CASE at \in InPip
      <4>1. Adapted(calls, starved, was, now, Passed(n))
        BY <1>2, <2>2, <3>1, <3>3 DEF PipInv, SubjectsAdapted, SubjectOK
      <4>2. Passed(n) \in 0 .. Len(was) /\ (at = "request" => Passed(n) = 0)
        BY <2>1, <2>2, <3>2 DEF Passed, TypeOK
      <4>3. PICK p \in 0 .. Len(was) : p = Passed(n)
        BY <4>2
      <4>4. Adapted(calls, starved, was, now, p)
        BY <4>1, <4>3
      <4>5. /\ Extends(now, was)
            /\ Len(added) <= (calls + 1) * Len(Dues(was))
            /\ AmongCopies(added, Dues(was))
            /\ p = 0 /\ ~starved => AreCopies(added, Times(Dues(was), calls))
        <5>1. AsAdapted(calls, starved, was, now, p)
          BY <2>1, <3>2, <4>3, <4>4, AdaptedMeans
        <5>2. added = SubSeq(now, Len(was) + 1, Len(now))
          BY <2>2
        <5> QED
          BY <5>1, <5>2 DEF AsAdapted
      <4> QED
        BY <4>2, <4>3, <4>5
    <3>4. CASE at \notin InPip
      <4>1. now = was /\ at # "request"
        BY <1>2, <2>2, <3>4 DEF PipInv, OneAdapter, InPip
      <4>2. Adapted(0, starved, was, now, 0) /\ 0 \in 0 .. Len(was) /\ 0 \in Nat
        BY <2>1, <3>2, <4>1, AdaptedFirst
      <4>3. /\ Extends(now, was) /\ Len(added) <= (0 + 1) * Len(Dues(was))
            /\ AmongCopies(added, Dues(was))
        <5>1. AsAdapted(0, starved, was, now, 0)
          BY <2>1, <3>2, <4>2, AdaptedMeans
        <5>2. added = SubSeq(now, Len(was) + 1, Len(now))
          BY <2>2
        <5> QED
          BY <5>1, <5>2 DEF AsAdapted
      <4>4. added = <<>> /\ Len(added) = 0
        BY <2>2, <3>2, <4>1, SubSeqEmpty
      <4>5. (calls + 1) * Len(Dues(was)) \in Nat
        BY <2>1, <3>2, <4>2, DuesFacts
      <4> QED
        BY <4>1, <4>3, <4>4, <4>5
    <3> QED
      BY <3>3, <3>4
  <2>3. ASSUME NEW was, was = Before(original.environment),
               NEW now, now = Before(request.environment)
        PROVE  /\ Extends(now, was) /\ Len(now) <= Len(was) + 1
               /\ at = "request" /\ calls > 0 /\ ~starved => HasProfile(now)
               /\ HasProfile(was) => now = was
    <3>1. was \in Seq(AttributeType) /\ now \in Seq(AttributeType) /\ Len(was) \in Nat
      BY <2>1, <2>3, RequestTypes, LenProperties
    <3>2. EnvironmentIs(was, now) /\ (at = "request" /\ calls > 0 /\ ~starved => HasProfile(now))
      <4>1. CASE at \in InPip
        BY <1>2, <2>3, <4>1 DEF PipInv, EnvironmentAdapted
      <4>2. CASE at \notin InPip
        <5>1. request = original /\ at # "request"
          BY <1>2, <4>2 DEF PipInv, OneAdapter, InPip
        <5>2. now = was
          BY <2>3, <5>1
        <5> QED
          BY <5>1, <5>2, Zenon DEF EnvironmentIs
      <4> QED
        BY <4>1, <4>2
    <3>3. Continues(now, was) /\ Len(now) <= Len(was) + 1
      <4>1. CASE now = was
        BY <3>1, <4>1 DEF Continues
      <4>2. ASSUME NEW a \in AttributeType, now = Append(was, a)
            PROVE  Continues(now, was) /\ Len(now) <= Len(was) + 1
        <5>1. Len(now) = Len(was) + 1 /\ \A m \in 1 .. Len(was) : now[m] = was[m]
          BY <3>1, <4>2, AppendOne
        <5> QED
          BY <3>1, <5>1 DEF Continues
      <4> QED
        BY <3>2, <4>1, <4>2 DEF EnvironmentIs
    <3> QED
      BY <3>1, <3>2, <3>3, ContinuesExtends DEF EnvironmentIs
  <2> DEFINE SubjectSays(was, now, added) ==
               /\ Extends(now, was)
               /\ Len(added) <= (calls + 1) * Len(Dues(was))
               /\ \A m \in DOMAIN added : \E c \in DOMAIN Dues(was) :
                    /\ added[m].values = Dues(was)[c].values
                    /\ added[m].id \in Dues(was)[c].ids \cup {NULL}
               /\ at = "request" /\ ~starved => AreCopies(added, Times(Dues(was), calls))
             EnvironmentSays(was, now) ==
               /\ Extends(now, was) /\ Len(now) <= Len(was) + 1
               /\ at = "request" /\ calls > 0 /\ ~starved => HasProfile(now)
               /\ HasProfile(was) => now = was
  <2>4. ASSUME NEW n \in DOMAIN original.subjects
        PROVE  SubjectSays(original.subjects[n], request.subjects[n],
                           SubSeq(request.subjects[n], Len(original.subjects[n]) + 1, Len(request.subjects[n])))
    <3>1. PICK was, now : was = original.subjects[n] /\ now = request.subjects[n]
      OBVIOUS
    <3>2. PICK added : added = SubSeq(now, Len(was) + 1, Len(now))
      OBVIOUS
    <3>3. /\ Extends(now, was)
          /\ Len(added) <= (calls + 1) * Len(Dues(was))
          /\ AmongCopies(added, Dues(was))
          /\ at = "request" /\ ~starved => AreCopies(added, Times(Dues(was), calls))
      BY <2>2, <3>1, <3>2
    <3>4. SubjectSays(was, now, added)
      BY <3>3 DEF AmongCopies
    <3> HIDE DEF SubjectSays
    <3> QED
      BY <3>1, <3>2, <3>4
  <2>5. EnvironmentSays(Before(original.environment), Before(request.environment))
    <3> DEFINE was == Before(original.environment)
               now == Before(request.environment)
    <3>1. /\ Extends(now, was) /\ Len(now) <= Len(was) + 1
          /\ at = "request" /\ calls > 0 /\ ~starved => HasProfile(now)
          /\ HasProfile(was) => now = was
      BY <2>3
    <3> QED
      BY <3>1, Zenon
  <2> QED
    BY <2>4, <2>5, Zenon DEF AdaptedRequest
<1> QED
  BY <1>1, <1>2, PTL
=============================================================================
