----------------------------- MODULE PepProofs ------------------------------
(***************************************************************************)
(* The theorems about src/argus/pep.c.                                     *)
(*                                                                         *)
(* A PEP handle and pep_authorize, for any plugins, options, addresses and *)
(* requests and any number of operations and calls.  First the handle on   *)
(* its own: its types, the agreement of its option strings with libcurl,   *)
(* what it owes its plugins, and what can stay allocated without it.  Then *)
(* the call: types, the lifetime of its buffers, the ownership of the      *)
(* request, the endpoint a request goes to, and that it implements         *)
(* PepCall.                                                                *)
(***************************************************************************)
EXTENDS PepAuthorize, SequenceTheorems, FiniteSetTheorems, TLAPS

-----------------------------------------------------------------------------
(* The handle (PepHandle).                                                 *)

USE DEF Plugins, Resources, Flags, HeadersBuilt, lists, settings, NoStrings,
        InitDefaults, FreeFor, HandToCurl

LEMMA HandleTypeInit == HandleInit => HandleTypeOK
BY BoundAssumption DEF HandleInit, HandleTypeOK

(* The step lemmas are stated for HandleNext alone, so that a module that  *)
(* puts handle operations between other steps can cite them.               *)

LEMMA HandleTypeStep == HandleTypeOK /\ HandleNext => HandleTypeOK'
<1> SUFFICES ASSUME HandleTypeOK, HandleNext PROVE HandleTypeOK'
  OBVIOUS
<1> USE BoundAssumption, PluginsAssumption DEF HandleTypeOK
<1>1. ASSUME NEW headers \in HeadersBuilt, InitializeSucceeds(headers)
      PROVE  HandleTypeOK'
  BY <1>1 DEF InitializeSucceeds
<1>2. CASE InitializeFails
  BY <1>2 DEF InitializeFails
<1>3. ASSUME NEW p \in PIPs, AddPip(p) PROVE HandleTypeOK'
  <2>1. [owed EXCEPT ![p] = @ + 1] \in [Plugins -> Int]
    OBVIOUS
  <2>2. [lost EXCEPT ![p] = @ + 1] \in [Plugins -> Nat]
    OBVIOUS
  <2>3. Append(pips, p) \in Seq(PIPs)
    BY AppendProperties
  <2>4. lost' \in [Plugins -> Nat] /\ pips' \in Seq(PIPs)
    BY <1>3, <2>2, <2>3, Zenon DEF AddPip
  <2> QED
    BY <1>3, <2>1, <2>4, Zenon DEF AddPip
<1>4. ASSUME NEW p \in OHs, AddObligationHandler(p) PROVE HandleTypeOK'
  <2>1. [owed EXCEPT ![p] = @ + 1] \in [Plugins -> Int]
    OBVIOUS
  <2>2. [lost EXCEPT ![p] = @ + 1] \in [Plugins -> Nat]
    OBVIOUS
  <2>3. Append(ohs, p) \in Seq(OHs)
    BY AppendProperties
  <2>4. lost' \in [Plugins -> Nat] /\ ohs' \in Seq(OHs)
    BY <1>4, <2>2, <2>3, Zenon DEF AddObligationHandler
  <2> QED
    BY <1>4, <2>1, <2>4, Zenon DEF AddObligationHandler
<1>5. ASSUME NEW o \in StringOptions, SetString(o) PROVE HandleTypeOK'
  BY <1>5 DEF SetString
<1>6. ASSUME NEW f \in Flags, NEW value \in 0 .. 1, SetFlag(f, value)
      PROVE  HandleTypeOK'
  BY <1>6 DEF SetFlag
<1>7. ASSUME NEW value \in -1 .. MaxTimeout, SetTimeout(value)
      PROVE  HandleTypeOK'
  BY <1>7 DEF SetTimeout
<1>8. CASE DestroyBegin
  BY <1>8 DEF DestroyBegin
<1>9. CASE DestroyPip
  BY <1>9 DEF DestroyPip
<1>10. CASE DestroyPipList
  BY <1>10 DEF DestroyPipList
<1>11. CASE DestroyOh
  BY <1>11 DEF DestroyOh
<1>12. CASE DestroyEnd
  BY <1>12 DEF DestroyEnd
<1> QED
  BY <1>1, <1>2, <1>3, <1>4, <1>5, <1>6, <1>7, <1>8, <1>9, <1>10, <1>11, <1>12
  DEF HandleNext, SetOption, DestroyStep

(***************************************************************************)
(* Every variable of a handle keeps its type.                              *)
(***************************************************************************)
THEOREM HandleTypeCorrect == HandleSpec => []HandleTypeOK
<1>1. HandleInit => HandleTypeOK
  BY HandleTypeInit
<1>2. HandleTypeOK /\ UNCHANGED handleVars => HandleTypeOK'
  BY DEF handleVars, HandleTypeOK
<1>3. QED
  BY <1>1, <1>2, HandleTypeStep, PTL DEF HandleSpec

-----------------------------------------------------------------------------
LEMMA MirrorStep ==
  HandleTypeOK /\ CurlMirrorsOptions /\ HandleNext => CurlMirrorsOptions'
<1> SUFFICES ASSUME HandleTypeOK, CurlMirrorsOptions, HandleNext,
                    NEW o \in StringOptions, option'[o] # NULL
             PROVE  curl'[o] = option'[o] \/ (CurlCopies /\ curl'[o] = NULL)
  BY DEF CurlMirrorsOptions
<1> USE DEF HandleTypeOK, CurlMirrorsOptions
<1>1. ASSUME NEW x \in StringOptions, SetString(x)
      PROVE  curl'[o] = option'[o] \/ (CurlCopies /\ curl'[o] = NULL)
  BY <1>1 DEF SetString
<1>2. CASE UNCHANGED <<option, curl>>
  BY <1>2
<1>3. CASE option' = NoStrings
  BY <1>3
<1>4. ASSUME NEW p \in PIPs, AddPip(p) PROVE UNCHANGED <<option, curl>>
  BY <1>4 DEF AddPip
<1>5. ASSUME NEW p \in OHs, AddObligationHandler(p)
      PROVE  UNCHANGED <<option, curl>>
  BY <1>5 DEF AddObligationHandler
<1>6. ASSUME SetOption, \A x \in StringOptions : ~SetString(x)
      PROVE  UNCHANGED <<option, curl>>
  BY <1>6 DEF SetOption, SetFlag, SetTimeout
<1>7. InitializeFails \/ DestroyStep => UNCHANGED <<option, curl>>
  BY DEF InitializeFails, DestroyStep, DestroyPip, DestroyPipList, DestroyOh, DestroyEnd
<1>8. ASSUME DestroyBegin \/ \E headers \in HeadersBuilt : InitializeSucceeds(headers)
      PROVE  option' = NoStrings
  BY <1>8 DEF DestroyBegin, InitializeSucceeds
<1> QED
  BY <1>1, <1>2, <1>3, <1>4, <1>5, <1>6, <1>7, <1>8 DEF HandleNext

(***************************************************************************)
(* pep_setoption keeps the handle's strings and libcurl's in agreement.    *)
(***************************************************************************)
THEOREM HandleMirrors == HandleSpec => []CurlMirrorsOptions
<1>1. HandleInit => CurlMirrorsOptions
  BY DEF HandleInit, CurlMirrorsOptions
<1>2. CurlMirrorsOptions /\ UNCHANGED handleVars => CurlMirrorsOptions'
  BY DEF handleVars, CurlMirrorsOptions
<1>3. QED
  BY <1>1, <1>2, MirrorStep, HandleTypeCorrect, PTL DEF HandleSpec

-----------------------------------------------------------------------------
(***************************************************************************)
(* OnlyHeadersLeak speaks of a handle that is gone; to be inductive it     *)
(* must follow pep_destroy down to that point.                             *)
(***************************************************************************)
Dismantling ==
  /\ OnlyHeadersLeak
  /\ handle = "live" => "pips" \in held
  /\ handle = "dying" =>
       /\ held \subseteq {"struct", "pips", "ohs"}
       /\ option = NoStrings
       /\ "pips" \notin held => pips = <<>>

LEMMA DismantlingStep == HandleTypeOK /\ Dismantling /\ HandleNext => Dismantling'
<1> SUFFICES ASSUME HandleTypeOK, Dismantling, HandleNext PROVE Dismantling'
  OBVIOUS
<1> USE DEF HandleTypeOK, Dismantling, OnlyHeadersLeak
<1>1. CASE \E headers \in HeadersBuilt : InitializeSucceeds(headers)
  BY <1>1 DEF InitializeSucceeds
<1>2. CASE InitializeFails
  BY <1>2 DEF InitializeFails
<1>3. CASE handle = "live" /\ UNCHANGED <<handle, held, leaked>>
  BY <1>3
<1>4. CASE DestroyBegin
  BY <1>4 DEF DestroyBegin
<1>5. CASE DestroyPip
  BY <1>5 DEF DestroyPip
<1>6. CASE DestroyPipList
  BY <1>6 DEF DestroyPipList
<1>7. CASE DestroyOh
  BY <1>7 DEF DestroyOh
<1>8. CASE DestroyEnd
  BY <1>8 DEF DestroyEnd
<1>9. ASSUME NEW p \in PIPs, AddPip(p)
      PROVE  handle = "live" /\ UNCHANGED <<handle, held, leaked>>
  BY <1>9 DEF AddPip
<1>10. ASSUME NEW p \in OHs, AddObligationHandler(p)
       PROVE  handle = "live" /\ UNCHANGED <<handle, held, leaked>>
  BY <1>10 DEF AddObligationHandler
<1>11. ASSUME SetOption
       PROVE  handle = "live" /\ UNCHANGED <<handle, held, leaked>>
  BY <1>11 DEF SetOption, SetString, SetFlag, SetTimeout
<1> QED
  BY <1>1, <1>2, <1>3, <1>4, <1>5, <1>6, <1>7, <1>8, <1>9, <1>10, <1>11
  DEF HandleNext, DestroyStep

(***************************************************************************)
(* Nothing a handle allocated outlives it but the header list.             *)
(***************************************************************************)
THEOREM HandleLeaksOnlyHeaders == HandleSpec => []OnlyHeadersLeak
<1>1. HandleInit => Dismantling
  BY DEF HandleInit, Dismantling, OnlyHeadersLeak
<1>2. Dismantling /\ UNCHANGED handleVars => Dismantling'
  BY DEF handleVars, Dismantling, OnlyHeadersLeak
<1>3. Dismantling => OnlyHeadersLeak
  BY DEF Dismantling
<1>4. QED
  BY <1>1, <1>2, <1>3, DismantlingStep, HandleTypeCorrect, PTL DEF HandleSpec
-----------------------------------------------------------------------------
(* How Occurrences counts: an entry more, an entry less.                   *)

Positions(p, list) == {k \in DOMAIN list : list[k] = p}

LEMMA PositionsFinite ==
  ASSUME NEW S, NEW list \in Seq(S), NEW p
  PROVE  IsFiniteSet(Positions(p, list))
<1>1. DOMAIN list = 1 .. Len(list) /\ Len(list) \in Nat
  OBVIOUS
<1>2. IsFiniteSet(1 .. Len(list))
  BY <1>1, FS_Interval
<1>3. Positions(p, list) \in SUBSET (1 .. Len(list))
  BY <1>1 DEF Positions
<1> QED
  BY <1>2, <1>3, FS_Subset

LEMMA OccurrencesIsNat ==
  ASSUME NEW S, NEW list \in Seq(S), NEW p
  PROVE  Occurrences(p, list) \in Nat
<1>1. IsFiniteSet(Positions(p, list))
  BY PositionsFinite
<1> QED
  BY <1>1, FS_CardinalityType DEF Occurrences, Positions

LEMMA OccurrencesOfEmpty ==
  ASSUME NEW p
  PROVE  Occurrences(p, <<>>) = 0
<1>1. Positions(p, <<>>) = {}
  BY DEF Positions
<1> QED
  BY <1>1, FS_EmptySet DEF Occurrences, Positions

LEMMA OccurrencesOfAppend ==
  ASSUME NEW S, NEW list \in Seq(S), NEW q \in S, NEW p
  PROVE  Occurrences(p, Append(list, q)) =
           IF q = p THEN Occurrences(p, list) + 1 ELSE Occurrences(p, list)
<1> DEFINE more == Append(list, q)
           last == Len(list) + 1
<1>1. /\ Len(list) \in Nat /\ DOMAIN list = 1 .. Len(list)
      /\ DOMAIN more = 1 .. last
      /\ \A k \in 1 .. Len(list) : more[k] = list[k]
      /\ more[last] = q
  BY AppendProperties, LenProperties
<1>2. IsFiniteSet(Positions(p, list)) /\ last \notin Positions(p, list)
  <2>1. IsFiniteSet(Positions(p, list))
    BY PositionsFinite
  <2> QED
    BY <1>1, <2>1 DEF Positions
<1> HIDE DEF more
<1>3. CASE q = p
  <2>1. Positions(p, more) = Positions(p, list) \cup {last}
    BY <1>1, <1>3 DEF Positions
  <2>2. Cardinality(Positions(p, more)) = Cardinality(Positions(p, list)) + 1
    BY <1>2, <2>1, FS_AddElement
  <2> QED
    BY <1>3, <2>2 DEF Occurrences, Positions, more
<1>4. CASE q # p
  <2>1. Positions(p, more) = Positions(p, list)
    BY <1>1, <1>4 DEF Positions
  <2> QED
    BY <1>4, <2>1 DEF Occurrences, Positions, more
<1> QED
  BY <1>3, <1>4

LEMMA OccurrencesOfTail ==
  ASSUME NEW S, NEW list \in Seq(S), list # <<>>, NEW p
  PROVE  Occurrences(p, Tail(list)) =
           IF Head(list) = p THEN Occurrences(p, list) - 1 ELSE Occurrences(p, list)
<1> DEFINE tail  == Tail(list)
           shift == [k \in Positions(p, tail) |-> k + 1]
           later == Positions(p, list) \ {1}
<1>1. /\ Len(list) \in Nat \ {0} /\ DOMAIN list = 1 .. Len(list)
      /\ tail \in Seq(S) /\ DOMAIN tail = 1 .. Len(list) - 1
      /\ \A k \in 1 .. Len(list) - 1 : tail[k] = list[k + 1]
      /\ Head(list) = list[1]
  BY HeadTailProperties, LenProperties, EmptySeq
<1> HIDE DEF tail
<1>2. \A k \in Positions(p, tail) : k \in Nat /\ k + 1 \in later
  BY <1>1 DEF Positions
<1>3. \A k \in later : k - 1 \in Positions(p, tail) /\ shift[k - 1] = k
  <2> SUFFICES ASSUME NEW k \in later PROVE k - 1 \in Positions(p, tail) /\ shift[k - 1] = k
    OBVIOUS
  <2>1. k \in 1 .. Len(list) /\ k # 1 /\ list[k] = p
    BY <1>1 DEF Positions
  <2>2. k - 1 \in 1 .. Len(list) - 1 /\ (k - 1) + 1 = k
    BY <1>1, <2>1
  <2>3. k - 1 \in Positions(p, tail)
    BY <1>1, <2>1, <2>2 DEF Positions
  <2> QED
    BY <2>2, <2>3
<1>4. shift \in Bijection(Positions(p, tail), later)
  <2>1. shift \in Injection(Positions(p, tail), later)
    BY <1>2 DEF Injection, IsInjective
  <2>2. shift \in Surjection(Positions(p, tail), later)
    BY <1>2, <1>3 DEF Surjection
  <2> QED
    BY <2>1, <2>2 DEF Bijection
<1>5. IsFiniteSet(Positions(p, tail)) /\ IsFiniteSet(Positions(p, list))
  BY <1>1, PositionsFinite
<1>6. Cardinality(later) = Cardinality(Positions(p, tail))
  BY <1>4, <1>5, FS_Bijection DEF ExistsBijection
<1>7. Cardinality(later) = IF 1 \in Positions(p, list) THEN Cardinality(Positions(p, list)) - 1
                           ELSE Cardinality(Positions(p, list))
  BY <1>5, FS_RemoveElement
<1>8. 1 \in Positions(p, list) <=> Head(list) = p
  BY <1>1 DEF Positions
<1> QED
  BY <1>6, <1>7, <1>8 DEF Occurrences, Positions, tail

(***************************************************************************)
(* Without a handle both lists are empty, so that pep_initialize, which    *)
(* starts new lists, forgets no plugin.                                    *)
(***************************************************************************)
LEMMA OwedStep ==
  HandleTypeOK /\ OnlyHeadersLeak /\ OwedIsListedOrLost /\ HandleNext => OwedIsListedOrLost'
<1> SUFFICES ASSUME HandleTypeOK, OnlyHeadersLeak, OwedIsListedOrLost, HandleNext,
                    NEW p \in Plugins
             PROVE  owed'[p] = Occurrences(p, pips') + Occurrences(p, ohs') + lost'[p]
  BY DEF OwedIsListedOrLost, Occurrences
<1> DEFINE a == Occurrences(p, pips)
           b == Occurrences(p, ohs)
           a2 == Occurrences(p, pips')
           b2 == Occurrences(p, ohs')
<1>0. /\ pips \in Seq(PIPs) /\ ohs \in Seq(OHs)
      /\ owed \in [Plugins -> Int] /\ lost \in [Plugins -> Nat]
      /\ owed[p] = a + b + lost[p]
  BY DEF HandleTypeOK, OwedIsListedOrLost
<1>t. a \in Nat /\ b \in Nat /\ owed[p] \in Int /\ lost[p] \in Nat
  BY <1>0, OccurrencesIsNat
<1> HIDE DEF a, b, a2, b2
<1>1. CASE UNCHANGED <<lists, owed, lost>>
  BY <1>0, <1>1 DEF a, b, a2, b2
<1>2. CASE \E headers \in HeadersBuilt : InitializeSucceeds(headers)
  <2>1. pips' = pips /\ ohs' = ohs /\ owed' = owed /\ lost' = lost
    BY <1>2 DEF InitializeSucceeds, OnlyHeadersLeak
  <2> QED
    BY <1>0, <2>1 DEF a, b, a2, b2
<1>3. ASSUME NEW q \in PIPs, AddPip(q) PROVE owed'[p] = a2 + b2 + lost'[p]
  <2>1. /\ owed'[p] = IF p = q THEN owed[p] + 1 ELSE owed[p]
        /\ b2 = b
    BY <1>0, <1>3 DEF AddPip, b, b2
  <2>2. CASE pips' = Append(pips, q) /\ UNCHANGED lost
    <3>1. a2 = IF q = p THEN a + 1 ELSE a
      BY <1>0, <2>2, OccurrencesOfAppend DEF a, a2
    <3> QED
      BY <1>0, <1>t, <2>1, <2>2, <3>1
  <2>3. CASE lost' = [lost EXCEPT ![q] = @ + 1] /\ UNCHANGED pips
    <3>1. lost'[p] = IF p = q THEN lost[p] + 1 ELSE lost[p]
      BY <1>0, <2>3
    <3>2. a2 = a
      BY <2>3 DEF a, a2
    <3> QED
      BY <1>0, <1>t, <2>1, <3>1, <3>2
  <2> QED
    BY <1>3, <2>2, <2>3 DEF AddPip
<1>4. ASSUME NEW q \in OHs, AddObligationHandler(q) PROVE owed'[p] = a2 + b2 + lost'[p]
  <2>1. /\ owed'[p] = IF p = q THEN owed[p] + 1 ELSE owed[p]
        /\ a2 = a
    BY <1>0, <1>4 DEF AddObligationHandler, a, a2
  <2>2. CASE ohs' = Append(ohs, q) /\ UNCHANGED lost
    <3>1. b2 = IF q = p THEN b + 1 ELSE b
      BY <1>0, <2>2, OccurrencesOfAppend DEF b, b2
    <3> QED
      BY <1>0, <1>t, <2>1, <2>2, <3>1
  <2>3. CASE lost' = [lost EXCEPT ![q] = @ + 1] /\ UNCHANGED ohs
    <3>1. lost'[p] = IF p = q THEN lost[p] + 1 ELSE lost[p]
      BY <1>0, <2>3
    <3>2. b2 = b
      BY <2>3 DEF b, b2
    <3> QED
      BY <1>0, <1>t, <2>1, <3>1, <3>2
  <2> QED
    BY <1>4, <2>2, <2>3 DEF AddObligationHandler
<1>5. CASE DestroyPip
  <2>1. pips # <<>> /\ Head(pips) \in PIPs
    BY <1>0, <1>5, HeadTailProperties DEF DestroyPip
  <2>2. /\ owed'[p] = IF p = Head(pips) THEN owed[p] - 1 ELSE owed[p]
        /\ b2 = b /\ lost' = lost
    BY <1>0, <1>5, <2>1 DEF DestroyPip, b, b2
  <2>3. a2 = IF Head(pips) = p THEN a - 1 ELSE a
    BY <1>0, <1>5, <2>1, OccurrencesOfTail DEF DestroyPip, a, a2
  <2> QED
    BY <1>0, <1>t, <2>2, <2>3 DEF a2, b2
<1>6. CASE DestroyOh
  <2>1. ohs # <<>> /\ Head(ohs) \in OHs
    BY <1>0, <1>6, HeadTailProperties DEF DestroyOh
  <2>2. /\ owed'[p] = IF p = Head(ohs) THEN owed[p] - 1 ELSE owed[p]
        /\ a2 = a /\ lost' = lost
    BY <1>0, <1>6, <2>1 DEF DestroyOh, a, a2
  <2>3. b2 = IF Head(ohs) = p THEN b - 1 ELSE b
    BY <1>0, <1>6, <2>1, OccurrencesOfTail DEF DestroyOh, b, b2
  <2> QED
    BY <1>0, <1>t, <2>2, <2>3 DEF a2, b2
<1>7. InitializeFails \/ DestroyBegin \/ DestroyPipList \/ DestroyEnd
        => UNCHANGED <<lists, owed, lost>>
  BY DEF InitializeFails, DestroyBegin, DestroyPipList, DestroyEnd
<1>8. SetOption => UNCHANGED <<lists, owed, lost>>
  BY DEF SetOption, SetString, SetFlag, SetTimeout
<1> QED
  BY <1>1, <1>2, <1>3, <1>4, <1>5, <1>6, <1>7, <1>8 DEF HandleNext, DestroyStep, a2, b2

(***************************************************************************)
(* destroy() is owed exactly for the plugins that are in the lists, and    *)
(* for those whose node llist_add() could not allocate: for any number of  *)
(* plugins, of registrations of one plugin, and of handles.                *)
(***************************************************************************)
THEOREM HandleOwesWhatItLists == HandleSpec => []OwedIsListedOrLost
<1>1. HandleInit => OwedIsListedOrLost
  BY OccurrencesOfEmpty DEF HandleInit, OwedIsListedOrLost
<1>2. OwedIsListedOrLost /\ UNCHANGED handleVars => OwedIsListedOrLost'
  BY DEF handleVars, OwedIsListedOrLost, Occurrences
<1>3. QED
  BY <1>1, <1>2, OwedStep, HandleTypeCorrect, HandleLeaksOnlyHeaders, PTL DEF HandleSpec

HIDE DEF Plugins, Resources, Flags, HeadersBuilt, lists, settings, NoStrings,
         InitDefaults, FreeFor, HandToCurl

-----------------------------------------------------------------------------
(* The call (PepAuthorize).                                                *)

\* The part of TypeOK that speaks of the call.
CallTypeOK ==
  /\ pc          \in Stages
  /\ i           \in Nat
  /\ buf         \in [Buffers -> {"unset", "live", "null", "freed"}]
  /\ readData    \in {"current", "stale"}
  /\ writeData   \in {"current", "stale"}
  /\ fault       \in BOOLEAN
  /\ request     \in Requests \cup {NULL}
  /\ requests    \subseteq Requests
  /\ response    \in BOOLEAN
  /\ respRequest \in Requests \cup {NULL}
  /\ plan        \in Seq(Plugins \cup {Send})
  /\ ran         \in Seq(Plugins \cup {Send})
  /\ rc          \in Codes

\* A loop over a plugin list starts at its first entry.
LoopIndexOK == pc \in {"pips", "ohs"} => i # 0

LEMMA TypeSplit == TypeOK <=> HandleTypeOK /\ CallTypeOK
BY DEF TypeOK, CallTypeOK

LEMMA TypeInit == Init => TypeOK
<1> SUFFICES ASSUME Init PROVE TypeOK
  OBVIOUS
<1>1. HandleTypeOK
  BY HandleTypeInit DEF Init
<1>2. buf \in [Buffers -> {"unset", "live", "null", "freed"}]
  BY DEF Init
<1>3. plan \in Seq(Plugins \cup {Send}) /\ ran \in Seq(Plugins \cup {Send})
  BY DEF Init
<1>4. /\ pc \in Stages /\ i \in Nat /\ rc \in Codes
      /\ readData \in {"current", "stale"} /\ writeData \in {"current", "stale"}
      /\ fault \in BOOLEAN
      /\ request \in Requests \cup {NULL} /\ requests \subseteq Requests
      /\ response \in BOOLEAN /\ respRequest \in Requests \cup {NULL}
  BY DEF Init, Stages, Codes
<1> QED
  BY <1>1, <1>2, <1>3, <1>4 DEF TypeOK

\* Returning restores the types of everything the call owns.
LEMMA ReturnTypes ==
  ASSUME CallTypeOK, NEW code \in Codes, NEW bs, Return(code, bs)
  PROVE  /\ pc' \in Stages /\ i' \in Nat /\ rc' \in Codes
         /\ buf' \in [Buffers -> {"unset", "live", "null", "freed"}]
         /\ readData' \in {"current", "stale"} /\ writeData' \in {"current", "stale"}
         /\ fault' \in BOOLEAN
         /\ plan' \in Seq(Plugins \cup {Send}) /\ ran' \in Seq(Plugins \cup {Send})
<1>1. buf' \in [Buffers -> {"unset", "live", "null", "freed"}]
  BY DEF Return, CallTypeOK
<1>2. fault' \in BOOLEAN
  BY DEF Return, CallTypeOK, MayDelete
<1> QED
  BY <1>1, <1>2 DEF Return, Stages

LEMMA ReturnTypeOK ==
  ASSUME CallTypeOK, NEW code \in Codes, NEW bs, Return(code, bs), UNCHANGED objects
  PROVE  CallTypeOK'
BY ReturnTypes DEF CallTypeOK, objects

\* A plugin leaves one request in the application's hands.
LEMMA ReplaceTypes ==
  ASSUME CallTypeOK, MayReplaceRequest
  PROVE  /\ request' \in Requests \cup {NULL} /\ requests' \subseteq Requests
         /\ response' \in BOOLEAN /\ respRequest' \in Requests \cup {NULL}
BY DEF CallTypeOK, MayReplaceRequest

LEMMA CallTypeStep == TypeOK /\ LoopIndexOK /\ Next => CallTypeOK' /\ LoopIndexOK'
<1> SUFFICES ASSUME HandleTypeOK, CallTypeOK, LoopIndexOK, Next
             PROVE  CallTypeOK' /\ LoopIndexOK'
  BY TypeSplit
<1> USE DEF Stages, Buffers, transfer, objects, Goto, LoopIndexOK
<1>0. ASSUME NEW code, NEW bs, Return(code, bs) PROVE LoopIndexOK'
  BY <1>0 DEF Return
<1>1. CASE Application
  BY <1>1 DEF Application, NewRequest, DeleteResponse, DeleteRequest,
              HandleOperation, callVars, CallTypeOK
<1>2. CASE Refused
  BY <1>0, <1>2, ReturnTypeOK DEF Refused, Codes
<1>3. CASE Enter
  <2>1. plan' \in Seq(Plugins \cup {Send})
    <3>1. /\ pips \in Seq(Plugins \cup {Send})
          /\ ohs \in Seq(Plugins \cup {Send})
      BY SeqMonotonic DEF HandleTypeOK, Plugins
    <3>2. /\ EnabledPlugins("PIPS", pips) \in Seq(Plugins \cup {Send})
          /\ EnabledPlugins("OHS", ohs) \in Seq(Plugins \cup {Send})
      BY <3>1 DEF EnabledPlugins
    <3>3. <<Send>> \in Seq(Plugins \cup {Send})
      OBVIOUS
    <3> QED
      BY <1>3, <3>2, <3>3, ConcatProperties DEF Enter, Begin
  <2> QED
    BY <1>3, <2>1 DEF Enter, Begin, CallTypeOK, Codes
<1>4. CASE CallPip
  <2>1. CASE Return("PIP_PROCESS", {})
    BY <1>0, <1>4, <2>1, ReturnTypes, ReplaceTypes DEF CallPip, CallTypeOK, Codes
  <2>2. CASE ~Return("PIP_PROCESS", {})
    <3>1. pips[i] \in Plugins
      BY <1>4 DEF CallPip, EnabledPlugins, HandleTypeOK, CallTypeOK, Plugins
    <3>2. ran' \in Seq(Plugins \cup {Send})
      BY <1>4, <2>2, <3>1, AppendProperties DEF CallPip, CallTypeOK
    <3> QED
      BY <1>4, <2>2, <3>2, ReplaceTypes DEF CallPip, CallTypeOK
  <2> QED
    BY <2>1, <2>2
<1>5. CASE PipsDone
  BY <1>5 DEF PipsDone, CallTypeOK
<1>6. ASSUME NEW b \in Buffers, NEW bs, NEW stage \in Stages \ {"pips", "ohs"},
             CreateBuffer(b, bs, stage)
      PROVE  CallTypeOK' /\ LoopIndexOK'
  <2>1. CASE Return("MEMORY", bs)
    BY <1>0, <1>6, <2>1, ReturnTypeOK DEF CreateBuffer, Codes
  <2>2. CASE ~Return("MEMORY", bs)
    BY <1>6, <2>2 DEF CreateBuffer, CallTypeOK
  <2> QED
    BY <2>1, <2>2
<1>7. CASE CreateOutput \/ CreateB64Output \/ CreateB64Input
  BY <1>6, <1>7 DEF CreateOutput, CreateB64Output, CreateB64Input
<1>8. CASE Marshal
  BY <1>0, <1>8, ReturnTypeOK DEF Marshal, CallTypeOK, Codes
<1>9. CASE Encode
  <2>1. buf' \in [Buffers -> {"unset", "live", "null", "freed"}]
    BY <1>9 DEF Encode, CallTypeOK
  <2>2. fault' \in BOOLEAN
    BY <1>9 DEF Encode, CallTypeOK, MayDelete
  <2> QED
    BY <1>9, <2>1, <2>2 DEF Encode, CallTypeOK
<1>10. CASE Post
  BY <1>0, <1>10, ReturnTypeOK DEF Post, CallTypeOK, Codes
<1>11. CASE Write
  BY <1>0, <1>11, ReturnTypeOK DEF Write, CallTypeOK, Codes
<1>12. CASE CreateInput
  <2>1. CASE Return("MEMORY", {"b64output", "b64input"})
    BY <1>0, <1>12, <2>1, ReturnTypeOK DEF CreateInput, Codes
  <2>2. CASE ~Return("MEMORY", {"b64output", "b64input"})
    BY <1>12, <2>2 DEF CreateInput, CallTypeOK
  <2> QED
    BY <2>1, <2>2
<1>13. CASE Perform
  <2>1. ran' \in Seq(Plugins \cup {Send})
    BY <1>13, AppendProperties DEF Perform, CallTypeOK
  <2> QED
    BY <1>13, <2>1 DEF Perform, CallTypeOK
<1>14. CASE Answered
  BY <1>14 DEF Answered, CallTypeOK
<1>15. CASE PerformFails
  BY <1>0, <1>15, ReturnTypeOK DEF PerformFails, Codes
<1>16. CASE GetInfo
  BY <1>0, <1>16, ReturnTypeOK DEF GetInfo, CallTypeOK, Codes
<1>17. CASE UnmarshalFails
  BY <1>0, <1>17, ReturnTypeOK DEF UnmarshalFails, Codes
<1>18. CASE Unmarshal
  <2>1. buf' \in [Buffers -> {"unset", "live", "null", "freed"}]
    BY <1>18 DEF Unmarshal, CallTypeOK
  <2>2. fault' \in BOOLEAN
    BY <1>18 DEF Unmarshal, CallTypeOK, MayDelete
  <2> QED
    BY <1>18, <2>1, <2>2 DEF Unmarshal, CallTypeOK
<1>19. CASE EffectiveRequest
  BY <1>19 DEF EffectiveRequest, CallTypeOK
<1>20. CASE CallOh
  <2>1. CASE Return("OH_PROCESS", {"b64input", "input"})
    BY <1>0, <1>20, <2>1, ReturnTypes, ReplaceTypes DEF CallOh, CallTypeOK, Codes
  <2>2. CASE ~Return("OH_PROCESS", {"b64input", "input"})
    <3> ohs[i] \in OHs
      <4>1. Len(ohs) \in Nat
        BY DEF HandleTypeOK
      <4>2. i <= Len(ohs)
        BY <1>20, <4>1 DEF CallOh, EnabledPlugins, CallTypeOK
      <4>3. i \in 1 .. Len(ohs)
        BY <1>20, <4>1, <4>2 DEF CallOh, CallTypeOK
      <4> QED
        BY <4>3, ElementOfSeq DEF HandleTypeOK
    <3>1. ohs[i] \in Plugins
      BY DEF Plugins
    <3>2. ran' \in Seq(Plugins \cup {Send})
      BY <1>20, <2>2, <3>1, AppendProperties DEF CallOh, CallTypeOK
    <3> QED
      BY <1>20, <2>2, <3>2, ReplaceTypes DEF CallOh, CallTypeOK
  <2> QED
    BY <2>1, <2>2
<1>21. CASE Leave
  BY <1>0, <1>21, ReturnTypeOK DEF Leave, Codes
<1> QED
  BY <1>1, <1>2, <1>3, <1>4, <1>5, <1>7, <1>8, <1>9, <1>10, <1>11, <1>12, <1>13,
     <1>14, <1>15, <1>16, <1>17, <1>18, <1>19, <1>20, <1>21
  DEF Next, Compute

\* No step of a call touches the handle.
LEMMA CallLeavesHandle ==
  Next => \/ HandleNext /\ pc = "idle" /\ UNCHANGED callVars
          \/ UNCHANGED handleVars
BY DEF Next, Application, NewRequest, DeleteResponse, DeleteRequest,
       HandleOperation, Refused, Enter, Begin, Compute, CallPip, PipsDone,
       CreateBuffer, CreateOutput, Marshal, CreateB64Output, Encode, Post,
       CreateB64Input, Write, CreateInput, Perform, Answered, PerformFails,
       GetInfo, UnmarshalFails, Unmarshal, EffectiveRequest, CallOh, Leave

LEMMA HandleStutter == HandleTypeOK /\ UNCHANGED handleVars => HandleTypeOK'
BY DEF HandleTypeOK, handleVars, lists, settings

(***************************************************************************)
(* Every variable keeps its type, through any number of calls.             *)
(***************************************************************************)
THEOREM TypeCorrect == Spec => []TypeOK
<1>1. Init => TypeOK /\ LoopIndexOK
  BY TypeInit DEF Init, LoopIndexOK
<1>2. TypeOK /\ LoopIndexOK /\ Next => TypeOK' /\ LoopIndexOK'
  BY CallTypeStep, CallLeavesHandle, HandleTypeStep, HandleStutter
  DEF TypeOK, CallTypeOK
<1>3. TypeOK /\ LoopIndexOK /\ UNCHANGED vars => TypeOK' /\ LoopIndexOK'
  BY HandleStutter DEF vars, callVars, transfer, objects, TypeOK, LoopIndexOK
<1> QED
  BY <1>1, <1>2, <1>3, PTL DEF Spec

-----------------------------------------------------------------------------
(***************************************************************************)
(* BuffersReleased and NoFault only speak of the end of a call and of what *)
(* went wrong before.  They are inductive together with the state of each  *)
(* buffer pointer and of libcurl's two pointers at every stage.            *)
(***************************************************************************)
Start       == {"idle", "pips", "output"}
HasOutput   == {"marshal", "b64output", "encode"}
Decoding    == {"perform", "wait", "getinfo", "unmarshal"}
Obligations == {"effective", "ohs"}

BuffersByStage ==
  /\ buf["output"] = CASE pc \in Start     -> "unset"
                       [] pc \in HasOutput -> "live"
                       [] OTHER            -> "freed"
  /\ buf["b64output"] = CASE pc \in Start \cup {"marshal", "b64output"} -> "unset"
                          [] pc \in Obligations                         -> "freed"
                          [] OTHER                                      -> "live"
  /\ buf["b64input"] = IF pc \in Start \cup HasOutput \cup {"post", "b64input"}
                         THEN "unset" ELSE "live"
  /\ buf["input"] \in CASE pc \in Decoding    -> {"live", "null"}
                        [] pc \in Obligations -> {"live"}
                        [] OTHER              -> {"unset"}
  /\ pc \in Decoding \cup {"b64input", "write", "input"} => readData = "current"
  /\ pc \in Decoding \cup {"input"} => writeData = "current"

BufferInv == BuffersByStage /\ NoFault

LEMMA ReturnBuffers ==
  ASSUME BufferInv, TypeOK, NEW code, NEW bs \in SUBSET Buffers, Return(code, bs),
         MayDelete(bs), \A b \in Buffers : buf[b] = "live" => b \in bs
  PROVE  BufferInv'
<1>1. buf' = [b \in Buffers |-> "unset"]
  BY DEF Return
<1> QED
  BY <1>1 DEF Return, BufferInv, BuffersByStage, NoFault, Start, HasOutput,
              Decoding, Obligations, Buffers

LEMMA BufferStep == BufferInv /\ TypeOK /\ Next => BufferInv'
<1> SUFFICES ASSUME BufferInv, TypeOK, Next PROVE BufferInv'
  OBVIOUS
<1> buf \in [Buffers -> {"unset", "live", "null", "freed"}]
  BY DEF TypeOK
<1> USE DEF BufferInv, BuffersByStage, NoFault, Start, HasOutput, Decoding,
            Obligations, Buffers, transfer, objects, Goto, MayDelete
<1>1. CASE UNCHANGED <<pc, buf, readData, writeData, fault>>
  BY <1>1
<1>2. CASE Refused
  BY <1>2, ReturnBuffers DEF Refused
<1>3. CASE Enter
  BY <1>3 DEF Enter, Begin
<1>4. CASE CallPip
  BY <1>4, ReturnBuffers DEF CallPip
<1>5. CASE PipsDone
  BY <1>5 DEF PipsDone
<1>6. CASE CreateOutput
  BY <1>6, ReturnBuffers DEF CreateOutput, CreateBuffer
<1>7. CASE Marshal
  BY <1>7, ReturnBuffers DEF Marshal
<1>8. CASE CreateB64Output
  BY <1>8, ReturnBuffers DEF CreateB64Output, CreateBuffer
<1>9. CASE Encode
  BY <1>9 DEF Encode
<1>10. CASE Post
  BY <1>10, ReturnBuffers DEF Post
<1>11. CASE CreateB64Input
  BY <1>11, ReturnBuffers DEF CreateB64Input, CreateBuffer
<1>12. CASE Write
  BY <1>12, ReturnBuffers DEF Write
<1>13. CASE CreateInput
  BY <1>13 DEF CreateInput
<1>14. CASE Perform
  BY <1>14 DEF Perform
<1>15. CASE Answered
  BY <1>15 DEF Answered
<1>16. CASE PerformFails
  BY <1>16, ReturnBuffers DEF PerformFails
<1>17. CASE GetInfo
  BY <1>17, ReturnBuffers DEF GetInfo
<1>18. CASE UnmarshalFails
  BY <1>18, ReturnBuffers DEF UnmarshalFails
<1>19. CASE Unmarshal
  BY <1>19 DEF Unmarshal
<1>20. CASE EffectiveRequest
  BY <1>20 DEF EffectiveRequest
<1>21. CASE CallOh
  BY <1>21, ReturnBuffers DEF CallOh
<1>22. CASE Leave
  BY <1>22, ReturnBuffers DEF Leave
<1>23. Application => UNCHANGED <<pc, buf, readData, writeData, fault>>
  BY DEF Application, NewRequest, DeleteResponse, DeleteRequest,
         HandleOperation, callVars
<1> QED
  BY <1>1, <1>2, <1>3, <1>4, <1>5, <1>6, <1>7, <1>8, <1>9, <1>10, <1>11, <1>12,
     <1>13, <1>14, <1>15, <1>16, <1>17, <1>18, <1>19, <1>20, <1>21, <1>22, <1>23
  DEF Next, Compute

LEMMA BufferInvariant == Spec => []BufferInv
<1>1. Init => BufferInv
  BY DEF Init, BufferInv, BuffersByStage, NoFault, Start, HasOutput, Decoding,
         Obligations, Buffers
<1>2. BufferInv /\ UNCHANGED vars => BufferInv'
  BY DEF BufferInv, BuffersByStage, NoFault, vars, callVars, transfer
<1> QED
  BY <1>1, <1>2, BufferStep, TypeCorrect, PTL DEF Spec

(***************************************************************************)
(* No exit of pep_authorize leaves one of its buffers allocated.           *)
(***************************************************************************)
THEOREM CallReleasesBuffers == Spec => []BuffersReleased
<1>1. BufferInv => BuffersReleased
  BY DEF BufferInv, BuffersByStage, BuffersReleased, Buffers, Start, HasOutput,
         Decoding, Obligations
<1> QED
  BY <1>1, BufferInvariant, PTL

(***************************************************************************)
(* No buffer is deleted twice or used by libcurl after its call.           *)
(***************************************************************************)
THEOREM CallFaultFree == Spec => []NoFault
<1>1. BufferInv => NoFault
  BY DEF BufferInv
<1> QED
  BY <1>1, BufferInvariant, PTL

-----------------------------------------------------------------------------
(***************************************************************************)
(* Who owns what at each stage: the response owns a request only between   *)
(* unmarshalling and the exchange of the application's request for it.     *)
(***************************************************************************)
OwnerInv ==
  /\ RequestsOwnedOnce
  /\ ResponseMatchesCode
  /\ pc # "idle" => request # NULL
  /\ respRequest # NULL => pc = "effective"
  /\ response => pc \in Obligations \cup {"idle"}
  /\ pc \in Obligations => response
  /\ pc = "idle" <=> rc # "pending"

LEMMA ReturnOwners ==
  ASSUME OwnerInv, TypeOK, NEW code \in Codes \ {"pending"}, NEW bs, Return(code, bs),
         UNCHANGED objects, pc # "effective",
         response => code \in {"OK", "OH_PROCESS", "NULL_POINTER"}
  PROVE  OwnerInv'
BY DEF OwnerInv, RequestsOwnedOnce, ResponseMatchesCode, Return, objects, Obligations

LEMMA OwnerStep == OwnerInv /\ TypeOK /\ Next => OwnerInv'
<1> SUFFICES ASSUME OwnerInv, TypeOK, Next PROVE OwnerInv'
  OBVIOUS
<1> USE RequestsAssumption DEF OwnerInv, RequestsOwnedOnce, ResponseMatchesCode,
            Obligations, objects, Goto
<1>1. CASE UNCHANGED <<pc, rc, objects>>
  BY <1>1
<1>2. CASE NewRequest
  BY <1>2 DEF NewRequest
<1>3. CASE DeleteResponse
  BY <1>3 DEF DeleteResponse
<1>4. CASE DeleteRequest
  BY <1>4 DEF DeleteRequest
<1>5. CASE Refused
  BY <1>5, ReturnOwners DEF Refused, Codes
<1>6. CASE Enter
  BY <1>6 DEF Enter, Begin
<1>7. CASE CallPip
  BY <1>7 DEF CallPip, MayReplaceRequest, Return, TypeOK
<1>8. ASSUME pc \in Stages \ (Obligations \cup {"idle"}),
             pc' \in Stages \ (Obligations \cup {"idle"}), UNCHANGED <<rc, objects>>
      PROVE  OwnerInv'
  BY <1>8
<1>9. ASSUME pc \in Stages \ (Obligations \cup {"idle"}), UNCHANGED objects,
             NEW code \in Codes \ {"pending"}, NEW bs, Return(code, bs)
      PROVE  OwnerInv'
  BY <1>9, ReturnOwners
<1>10. CASE PipsDone \/ Encode \/ Perform \/ Answered
  BY <1>8, <1>10 DEF PipsDone, Encode, Perform, Answered, Stages
<1>11. ASSUME NEW b, NEW bs, NEW stage \in Stages \ (Obligations \cup {"idle"}),
              CreateBuffer(b, bs, stage), pc \in Stages \ (Obligations \cup {"idle"})
       PROVE  OwnerInv'
  BY <1>8, <1>9, <1>11 DEF CreateBuffer, Codes
<1>12. CASE CreateOutput \/ CreateB64Output \/ CreateB64Input
  BY <1>11, <1>12 DEF CreateOutput, CreateB64Output, CreateB64Input, Stages
<1>13. CASE Marshal
  BY <1>8, <1>9, <1>13 DEF Marshal, Stages, Codes
<1>14. CASE Post
  BY <1>8, <1>9, <1>14 DEF Post, Stages, Codes
<1>15. CASE Write
  BY <1>8, <1>9, <1>15 DEF Write, Stages, Codes
<1>16. CASE CreateInput
  BY <1>8, <1>9, <1>16 DEF CreateInput, Stages, Codes
<1>17. CASE PerformFails
  BY <1>9, <1>17 DEF PerformFails, Stages, Codes
<1>18. CASE GetInfo
  BY <1>8, <1>9, <1>18 DEF GetInfo, Stages, Codes
<1>19. CASE UnmarshalFails
  BY <1>9, <1>19 DEF UnmarshalFails, Stages, Codes
<1>20. CASE Unmarshal
  BY <1>20 DEF Unmarshal, TypeOK
<1>21. CASE EffectiveRequest
  BY <1>21 DEF EffectiveRequest
<1>22. CASE CallOh
  BY <1>22 DEF CallOh, MayReplaceRequest, Return, TypeOK
<1>23. CASE Leave
  BY <1>23, ReturnOwners DEF Leave, Codes
<1>24. HandleOperation => UNCHANGED <<pc, rc, objects>>
  BY DEF HandleOperation, callVars
<1> QED
  BY <1>1, <1>2, <1>3, <1>4, <1>5, <1>6, <1>7, <1>10, <1>12, <1>13, <1>14, <1>15,
     <1>16, <1>17, <1>18, <1>19, <1>20, <1>21, <1>22, <1>23, <1>24
  DEF Next, Application, Compute

LEMMA OwnerInvariant == Spec => []OwnerInv
<1>1. Init => OwnerInv
  BY DEF Init, OwnerInv, RequestsOwnedOnce, ResponseMatchesCode, Obligations
<1>2. OwnerInv /\ UNCHANGED vars => OwnerInv'
  BY DEF OwnerInv, RequestsOwnedOnce, ResponseMatchesCode, vars, callVars, objects
<1> QED
  BY <1>1, <1>2, OwnerStep, TypeCorrect, PTL DEF Spec

(***************************************************************************)
(* Each request object that is allocated has exactly one owner.            *)
(***************************************************************************)
THEOREM CallOwnsRequestsOnce == Spec => []RequestsOwnedOnce
<1>1. OwnerInv => RequestsOwnedOnce
  BY DEF OwnerInv
<1> QED
  BY <1>1, OwnerInvariant, PTL

(***************************************************************************)
(* The return code tells whether there is a response to delete.            *)
(***************************************************************************)
THEOREM CallMatchesResponse == Spec => []ResponseMatchesCode
<1>1. OwnerInv => ResponseMatchesCode
  BY DEF OwnerInv
<1> QED
  BY <1>1, OwnerInvariant, PTL

-----------------------------------------------------------------------------
(***************************************************************************)
(* During a call the handle is live and has an endpoint, and that option   *)
(* string is the one libcurl was given.                                    *)
(***************************************************************************)
EndpointInv ==
  /\ CurlMirrorsOptions
  /\ pc # "idle" => handle = "live" /\ option[EndpointUrl] # NULL

LEMMA EndpointStep == EndpointInv /\ TypeOK /\ Next => EndpointInv'
<1> SUFFICES ASSUME EndpointInv, TypeOK, Next PROVE EndpointInv'
  OBVIOUS
<1>1. CASE HandleNext /\ pc = "idle" /\ UNCHANGED callVars
  BY <1>1, MirrorStep DEF EndpointInv, TypeOK, callVars
<1>2. ASSUME UNCHANGED handleVars PROVE CurlMirrorsOptions'
  BY <1>2 DEF EndpointInv, CurlMirrorsOptions, handleVars, settings
<1>3. ASSUME pc = "idle", pc' # "idle"
      PROVE  handle = "live" /\ option[EndpointUrl] # NULL
  BY <1>3 DEF Next, Application, NewRequest, DeleteResponse, DeleteRequest,
       HandleOperation, callVars, Refused, Return, Enter, Compute, CallPip,
       PipsDone, CreateOutput, Marshal, CreateB64Output, Encode, Post,
       CreateB64Input, Write, CreateInput, Perform, Answered, PerformFails,
       GetInfo, UnmarshalFails, Unmarshal, EffectiveRequest, CallOh, Leave
<1>4. CASE UNCHANGED handleVars
  BY <1>2, <1>3, <1>4 DEF EndpointInv, handleVars, settings
<1> QED
  BY <1>1, <1>4, CallLeavesHandle

(***************************************************************************)
(* A request only ever goes to the endpoint that was last set.             *)
(***************************************************************************)
THEOREM CallUsesCurrentEndpoint == Spec => []EndpointIsCurrent
<1>1. Init => EndpointInv
  BY DEF Init, HandleInit, EndpointInv, CurlMirrorsOptions, NoStrings
<1>2. EndpointInv /\ UNCHANGED vars => EndpointInv'
  BY DEF EndpointInv, CurlMirrorsOptions, vars, handleVars, settings, callVars
<1>3. EndpointInv => EndpointIsCurrent
  BY OptionsAssumption DEF EndpointInv, EndpointIsCurrent, CurlMirrorsOptions
<1> QED
  BY <1>1, <1>2, <1>3, EndpointStep, TypeCorrect, PTL DEF Spec

-----------------------------------------------------------------------------
LEMMA HandleInvariantsStep ==
  TypeOK /\ Dismantling /\ OwedIsListedOrLost /\ Next => Dismantling' /\ OwedIsListedOrLost'
<1> SUFFICES ASSUME TypeOK, Dismantling, OwedIsListedOrLost, Next
             PROVE  Dismantling' /\ OwedIsListedOrLost'
  OBVIOUS
<1>1. CASE HandleNext
  BY <1>1, DismantlingStep, OwedStep DEF TypeOK, Dismantling
<1>2. CASE UNCHANGED handleVars
  BY <1>2 DEF handleVars, lists, settings, Dismantling, OnlyHeadersLeak, OwedIsListedOrLost, Occurrences
<1> QED
  BY <1>1, <1>2, CallLeavesHandle

(***************************************************************************)
(* Calls between the operations of the handle, answered or failed, change  *)
(* nothing of what is owed to its plugins nor of what it can leak.         *)
(***************************************************************************)
THEOREM CallKeepsHandle == Spec => [](OwedIsListedOrLost /\ OnlyHeadersLeak)
<1>1. Init => Dismantling /\ OwedIsListedOrLost
  BY OccurrencesOfEmpty DEF Init, HandleInit, NoStrings, Dismantling, OnlyHeadersLeak, OwedIsListedOrLost
<1>2. Dismantling /\ OwedIsListedOrLost /\ UNCHANGED vars => Dismantling' /\ OwedIsListedOrLost'
  BY DEF vars, handleVars, lists, settings, callVars, Dismantling, OnlyHeadersLeak, OwedIsListedOrLost, Occurrences
<1>3. Dismantling => OnlyHeadersLeak
  BY DEF Dismantling
<1> QED
  BY <1>1, <1>2, <1>3, HandleInvariantsStep, TypeCorrect, PTL DEF Spec

-----------------------------------------------------------------------------
(* pep_authorize implements PepCall: every step of the detailed            *)
(* specification is a step of the abstract one or changes nothing the      *)
(* caller can see.                                                         *)

EnabledPips == EnabledPlugins("PIPS", pips)
EnabledOhs  == EnabledPlugins("OHS", ohs)
PlanOf(P, O) == P \o <<Send>> \o O

Sending == {"output", "marshal", "b64output", "encode", "post", "b64input",
            "write", "input", "perform"}
Sent    == {"wait", "getinfo", "unmarshal", "effective"}

(***************************************************************************)
(* During a call the plan is the one made on entry, which no step of the   *)
(* call can change, and what has run is the prefix the stage says.         *)
(***************************************************************************)
PlanMade ==
  IF pc = "idle" THEN plan = <<>> /\ ran = <<>>
                 ELSE plan = PlanOf(EnabledPips, EnabledOhs)

RanIsPrefix == /\ Len(ran) <= Len(plan)
               /\ \A k \in 1 .. Len(ran) : ran[k] = plan[k]

RanByStage ==
  /\ pc = "pips" => i <= Len(EnabledPips) + 1 /\ Len(ran) = i - 1
  /\ pc \in Sending => Len(ran) = Len(EnabledPips)
  /\ pc \in Sent => Len(ran) = Len(EnabledPips) + 1
  /\ pc = "ohs" => i <= Len(EnabledOhs) + 1 /\ Len(ran) = Len(EnabledPips) + i

PlanInv == PlanMade /\ RanIsPrefix /\ RanByStage

LEMMA EnabledTypes ==
  ASSUME TypeOK
  PROVE  EnabledPips \in Seq(PIPs) /\ EnabledOhs \in Seq(OHs)
BY DEF TypeOK, HandleTypeOK, EnabledPips, EnabledOhs, EnabledPlugins

\* Where everything is in a plan.
LEMMA PlanLayout ==
  ASSUME NEW P \in Seq(PIPs), NEW O \in Seq(OHs)
  PROVE  /\ PlanOf(P, O) \in Seq(Plugins \cup {Send})
         /\ Len(PlanOf(P, O)) = Len(P) + 1 + Len(O)
         /\ \A k \in 1 .. Len(P) :
              PlanOf(P, O)[k] = P[k] /\ PlanOf(P, O)[k] \in PIPs
         /\ PlanOf(P, O)[Len(P) + 1] = Send
         /\ \A k \in 1 .. Len(O) : PlanOf(P, O)[Len(P) + 1 + k] = O[k]
         /\ \A k \in 1 .. Len(PlanOf(P, O)) :
              k > Len(P) + 1 => PlanOf(P, O)[k] \in OHs
<1> DEFINE All == Plugins \cup {Send}
           t   == P \o <<Send>>
           s   == PlanOf(P, O)
<1>1. P \in Seq(All) /\ O \in Seq(All) /\ <<Send>> \in Seq(All)
  BY SeqMonotonic DEF Plugins
<1>2. /\ t \in Seq(All)
      /\ Len(t) = Len(P) + 1
      /\ \A k \in 1 .. Len(P) : t[k] = P[k]
      /\ t[Len(P) + 1] = Send
  BY <1>1, ConcatProperties
<1>3. /\ s \in Seq(All)
      /\ Len(s) = Len(t) + Len(O)
      /\ \A k \in 1 .. Len(s) : s[k] = IF k <= Len(t) THEN t[k] ELSE O[k - Len(t)]
  BY <1>1, <1>2, ConcatProperties DEF PlanOf
<1>4. /\ Len(P) \in Nat /\ Len(O) \in Nat
      /\ \A k \in 1 .. Len(P) : P[k] \in PIPs
      /\ \A k \in 1 .. Len(O) : O[k] \in OHs
  OBVIOUS
<1> HIDE DEF t
<1>5. \A k \in 1 .. Len(P) : s[k] = P[k] /\ s[k] \in PIPs
  BY <1>2, <1>3, <1>4
<1>6. s[Len(P) + 1] = Send
  BY <1>2, <1>3, <1>4
<1>7. ASSUME NEW k \in 1 .. Len(O) PROVE s[Len(P) + 1 + k] = O[k]
  <2>1. /\ Len(t) + k \in 1 .. Len(s) /\ ~(Len(t) + k <= Len(t))
        /\ Len(t) + k - Len(t) = k
    BY <1>2, <1>3, <1>4
  <2> QED
    BY <1>2, <1>3, <2>1
<1>8. \A k \in 1 .. Len(s) : k > Len(P) + 1 => s[k] \in OHs
  BY <1>2, <1>3, <1>4
<1> QED
  BY <1>2, <1>3, <1>5, <1>6, <1>7, <1>8

\* Such a sequence is a plan in the sense of PepCall.
LEMMA PlanIsPlan ==
  ASSUME NEW P \in Seq(PIPs), NEW O \in Seq(OHs)
  PROVE  Call!IsPlan(PlanOf(P, O))
<1>1. Len(P) + 1 \in DOMAIN PlanOf(P, O) /\ DOMAIN PlanOf(P, O) = 1 .. Len(PlanOf(P, O))
  BY PlanLayout
<1>2. \A j \in DOMAIN PlanOf(P, O) :
        /\ j < Len(P) + 1 => PlanOf(P, O)[j] \in PIPs
        /\ j > Len(P) + 1 => PlanOf(P, O)[j] \in OHs
  BY <1>1, PlanLayout
<1> QED
  BY <1>1, <1>2, PlanLayout DEF Call!IsPlan

-----------------------------------------------------------------------------
\* Every error exit and the normal one empty the history.
LEMMA ReturnPlan ==
  ASSUME NEW code, NEW bs, Return(code, bs)
  PROVE  PlanInv'
BY DEF Return, PlanInv, PlanMade, RanIsPrefix, RanByStage, Sending, Sent

\* A plugin has run: the history grows by the next entry of the plan.
LEMMA RanGrows ==
  ASSUME TypeOK, RanIsPrefix, UNCHANGED plan, Len(ran) < Len(plan),
         ran' = Append(ran, plan[Len(ran) + 1])
  PROVE  RanIsPrefix' /\ Len(ran') = Len(ran) + 1
<1>1. /\ ran \in Seq(Plugins \cup {Send}) /\ Len(ran) \in Nat
      /\ plan \in Seq(Plugins \cup {Send}) /\ Len(plan) \in Nat
  BY DEF TypeOK
<1>2. plan[Len(ran) + 1] \in Plugins \cup {Send}
  BY <1>1, ElementOfSeq
<1>3. /\ Len(ran') = Len(ran) + 1
      /\ \A k \in 1 .. Len(ran) : ran'[k] = ran[k]
      /\ ran'[Len(ran) + 1] = plan[Len(ran) + 1]
  BY <1>1, <1>2, AppendProperties
<1> QED
  BY <1>1, <1>3 DEF RanIsPrefix

\* What a plugin loop runs is the next entry of the plan.
LEMMA NextInPlan ==
  ASSUME TypeOK, LoopIndexOK, PlanInv
  PROVE  /\ pc = "pips" /\ i <= Len(EnabledPips) =>
               /\ Len(ran) < Len(plan)
               /\ pips[i] = plan[Len(ran) + 1] /\ pips[i] \in PIPs
         /\ pc \in Sending =>
               Len(ran) < Len(plan) /\ plan[Len(ran) + 1] = Send
         /\ pc = "ohs" /\ i <= Len(EnabledOhs) =>
               /\ Len(ran) < Len(plan)
               /\ ohs[i] = plan[Len(ran) + 1] /\ ohs[i] \in OHs
<1>1. /\ Len(EnabledPips) \in Nat /\ Len(EnabledOhs) \in Nat /\ i \in Nat
      /\ EnabledPips \in Seq(PIPs) /\ EnabledOhs \in Seq(OHs)
  BY EnabledTypes DEF TypeOK
<1>2. ASSUME pc # "idle"
      PROVE  plan = PlanOf(EnabledPips, EnabledOhs)
  BY <1>2 DEF PlanInv, PlanMade
<1>3. ASSUME pc = "pips", i <= Len(EnabledPips)
      PROVE  /\ Len(ran) < Len(plan)
             /\ pips[i] = plan[Len(ran) + 1] /\ pips[i] \in PIPs
  <2>1. Len(ran) + 1 = i /\ i \in 1 .. Len(EnabledPips)
    BY <1>1, <1>3 DEF PlanInv, RanByStage, LoopIndexOK
  <2>2. EnabledPips = pips
    BY <2>1 DEF EnabledPips, EnabledPlugins
  <2> QED
    BY <1>1, <1>2, <1>3, <2>1, <2>2, PlanLayout
<1>4. ASSUME pc \in Sending
      PROVE  Len(ran) < Len(plan) /\ plan[Len(ran) + 1] = Send
  BY <1>1, <1>2, <1>4, PlanLayout DEF PlanInv, RanByStage, Sending
<1>5. ASSUME pc = "ohs", i <= Len(EnabledOhs)
      PROVE  /\ Len(ran) < Len(plan)
             /\ ohs[i] = plan[Len(ran) + 1] /\ ohs[i] \in OHs
  <2>1. Len(ran) = Len(EnabledPips) + i /\ i \in 1 .. Len(EnabledOhs)
    BY <1>1, <1>5 DEF PlanInv, RanByStage, LoopIndexOK
  <2>2. EnabledOhs = ohs
    BY <2>1 DEF EnabledOhs, EnabledPlugins
  <2>3. /\ Len(plan) = Len(EnabledPips) + 1 + Len(EnabledOhs)
        /\ plan[Len(EnabledPips) + 1 + i] = ohs[i]
    BY <1>1, <1>2, <1>5, <2>1, <2>2, PlanLayout
  <2>4. Len(ran) + 1 = Len(EnabledPips) + 1 + i /\ Len(ran) < Len(plan)
    BY <1>1, <2>1, <2>3
  <2> QED
    BY <1>1, <2>1, <2>2, <2>3, <2>4
<1> QED
  BY <1>3, <1>4, <1>5

\* A step within a call: the lists and the plan stay, the stage moves on.
LEMMA StageMoves ==
  ASSUME PlanInv, pc # "idle", pc' # "idle", UNCHANGED <<plan, ran, flag, pips, ohs>>,
         RanByStage'
  PROVE  PlanInv'
BY DEF PlanInv, PlanMade, RanIsPrefix, EnabledPips, EnabledOhs, EnabledPlugins

LEMMA PlanStep == TypeOK /\ LoopIndexOK /\ PlanInv /\ Next => PlanInv'
<1> SUFFICES ASSUME TypeOK, LoopIndexOK, PlanInv, Next PROVE PlanInv'
  OBVIOUS
<1> /\ Len(EnabledPips) \in Nat /\ Len(EnabledOhs) \in Nat /\ i \in Nat
    /\ Len(ran) \in Nat
  BY EnabledTypes DEF TypeOK
<1> USE DEF Goto, Sending, Sent
<1>1. CASE Application
  BY <1>1 DEF Application, NewRequest, DeleteResponse, DeleteRequest, HandleOperation,
              callVars, PlanInv, PlanMade, RanIsPrefix, RanByStage
<1>2. ASSUME NEW code, NEW bs, Return(code, bs) PROVE PlanInv'
  BY <1>2, ReturnPlan
<1>3. CASE Refused
  BY <1>2, <1>3 DEF Refused
<1>4. CASE Enter
  <2>1. /\ plan' = PlanOf(EnabledPips, EnabledOhs) /\ pc' = "pips" /\ i' = 1
        /\ ran' = <<>> /\ UNCHANGED <<flag, pips, ohs>>
    BY <1>4 DEF Enter, Begin, PlanInv, PlanMade, EnabledPips, EnabledOhs, PlanOf,
                handleVars, settings, lists
  <2>2. EnabledPips' = EnabledPips /\ EnabledOhs' = EnabledOhs
    BY <2>1 DEF EnabledPips, EnabledOhs, EnabledPlugins
  <2>3. Len(plan') \in Nat
    BY <2>1, PlanLayout, EnabledTypes
  <2>4. RanByStage'
    BY <2>1, <2>2 DEF RanByStage
  <2>5. PlanMade'
    BY <2>1, <2>2 DEF PlanMade
  <2> QED
    BY <2>1, <2>3, <2>4, <2>5 DEF PlanInv, RanIsPrefix
<1>5. ASSUME UNCHANGED handleVars
      PROVE  /\ UNCHANGED <<flag, pips, ohs>>
             /\ EnabledPips' = EnabledPips /\ EnabledOhs' = EnabledOhs
  BY <1>5 DEF handleVars, settings, lists, EnabledPips, EnabledOhs, EnabledPlugins
<1>6. ASSUME UNCHANGED <<handleVars, plan>>, pc # "idle", pc' # "idle",
             Len(ran) < Len(plan), ran' = Append(ran, plan[Len(ran) + 1]),
             Len(ran') = Len(ran) + 1 => RanByStage'
      PROVE  PlanInv'
  BY <1>5, <1>6, RanGrows DEF PlanInv, PlanMade
<1>7. CASE CallPip
  <2>1. CASE Return("PIP_PROCESS", {})
    BY <1>2, <2>1
  <2>2. CASE ~Return("PIP_PROCESS", {})
    <3>1. i <= Len(EnabledPips)
      BY <1>7 DEF CallPip, EnabledPips
    <3>2. /\ Len(ran) < Len(plan) /\ ran' = Append(ran, plan[Len(ran) + 1])
          /\ UNCHANGED <<handleVars, plan>> /\ pc = "pips" /\ pc' = "pips" /\ i' = i + 1
      BY <1>7, <2>2, <3>1, NextInPlan DEF CallPip
    <3>3. Len(ran') = Len(ran) + 1 => RanByStage'
      BY <1>5, <3>1, <3>2 DEF RanByStage, PlanInv
    <3> QED
      BY <1>6, <3>2, <3>3
  <2> QED
    BY <2>1, <2>2
<1>8. CASE CallOh
  <2>1. CASE Return("OH_PROCESS", {"b64input", "input"})
    BY <1>2, <2>1
  <2>2. CASE ~Return("OH_PROCESS", {"b64input", "input"})
    <3>1. i <= Len(EnabledOhs)
      BY <1>8 DEF CallOh, EnabledOhs
    <3>2. /\ Len(ran) < Len(plan) /\ ran' = Append(ran, plan[Len(ran) + 1])
          /\ UNCHANGED <<handleVars, plan>> /\ pc = "ohs" /\ pc' = "ohs" /\ i' = i + 1
      BY <1>8, <2>2, <3>1, NextInPlan DEF CallOh
    <3>3. Len(ran') = Len(ran) + 1 => RanByStage'
      BY <1>5, <3>1, <3>2 DEF RanByStage, PlanInv
    <3> QED
      BY <1>6, <3>2, <3>3
  <2> QED
    BY <2>1, <2>2
<1>9. CASE Perform
  <2>1. /\ Len(ran) < Len(plan) /\ ran' = Append(ran, plan[Len(ran) + 1])
        /\ UNCHANGED <<handleVars, plan>> /\ pc = "perform" /\ pc' = "wait"
    BY <1>9, NextInPlan DEF Perform
  <2>2. Len(ran') = Len(ran) + 1 => RanByStage'
    BY <1>5, <2>1 DEF RanByStage, PlanInv
  <2> QED
    BY <1>6, <2>1, <2>2
<1>10. ASSUME UNCHANGED <<handleVars, plan, ran>>,
              \/ pc \in Sending /\ pc' \in Sending
              \/ pc \in Sent /\ pc' \in Sent
       PROVE  PlanInv'
  <2>1. RanByStage'
    BY <1>5, <1>10 DEF RanByStage, PlanInv
  <2> QED
    BY <1>5, <1>10, <2>1, StageMoves
<1>11. CASE PipsDone
  <2>1. /\ UNCHANGED <<handleVars, plan, ran, i>> /\ pc = "pips" /\ pc' = "output"
        /\ i > Len(EnabledPips)
    BY <1>11 DEF PipsDone, EnabledPips
  <2>2. RanByStage'
    BY <1>5, <2>1 DEF RanByStage, PlanInv
  <2> QED
    BY <1>5, <2>1, <2>2, StageMoves
<1>12. ASSUME NEW b, NEW bs, NEW stage \in Sending, CreateBuffer(b, bs, stage),
              pc \in Sending
       PROVE  PlanInv'
  BY <1>2, <1>10, <1>12 DEF CreateBuffer
<1>13. CASE CreateOutput \/ CreateB64Output \/ CreateB64Input
  BY <1>12, <1>13 DEF CreateOutput, CreateB64Output, CreateB64Input
<1>14. CASE Marshal
  BY <1>2, <1>10, <1>14 DEF Marshal
<1>15. CASE Encode
  BY <1>10, <1>15 DEF Encode
<1>16. CASE Post
  BY <1>2, <1>10, <1>16 DEF Post
<1>17. CASE Write
  BY <1>2, <1>10, <1>17 DEF Write
<1>18. CASE CreateInput
  BY <1>2, <1>10, <1>18 DEF CreateInput
<1>19. CASE Answered
  BY <1>10, <1>19 DEF Answered
<1>20. CASE PerformFails
  BY <1>2, <1>20 DEF PerformFails
<1>21. CASE GetInfo
  BY <1>2, <1>10, <1>21 DEF GetInfo
<1>22. CASE UnmarshalFails
  BY <1>2, <1>22 DEF UnmarshalFails
<1>23. CASE Unmarshal
  BY <1>10, <1>23 DEF Unmarshal
<1>24. CASE EffectiveRequest
  <2>1. /\ UNCHANGED <<handleVars, plan, ran>> /\ pc = "effective" /\ pc' = "ohs"
        /\ i' = 1
    BY <1>24 DEF EffectiveRequest
  <2>2. RanByStage'
    BY <1>5, <2>1 DEF RanByStage, PlanInv
  <2> QED
    BY <1>5, <2>1, <2>2, StageMoves
<1>25. CASE Leave
  BY <1>2, <1>25 DEF Leave
<1> QED
  BY <1>1, <1>3, <1>4, <1>7, <1>8, <1>9, <1>11, <1>13, <1>14, <1>15, <1>16, <1>17,
     <1>18, <1>19, <1>20, <1>21, <1>22, <1>23, <1>24, <1>25
  DEF Next, Compute

LEMMA PlanInvariant == Spec => [](PlanInv /\ LoopIndexOK)
<1>1. Init => PlanInv /\ LoopIndexOK
  BY DEF Init, PlanInv, PlanMade, RanIsPrefix, RanByStage, Sending, Sent, LoopIndexOK
<1>2. /\ PlanInv /\ UNCHANGED vars => PlanInv'
      /\ LoopIndexOK /\ UNCHANGED vars => LoopIndexOK'
  BY DEF PlanInv, PlanMade, RanIsPrefix, RanByStage, EnabledPips, EnabledOhs,
         EnabledPlugins, LoopIndexOK, vars, handleVars, callVars, settings, lists
<1> QED
  BY <1>1, <1>2, PlanStep, CallTypeStep, TypeCorrect, PTL DEF Spec

-----------------------------------------------------------------------------
(***************************************************************************)
(* Every step of pep_authorize and of the application, seen through the    *)
(* plan, the history, the return code and the response.                    *)
(***************************************************************************)
\* Leaving with an error of the right kind is a failure of the abstract call.
LEMMA FailureImplements ==
  ASSUME TypeOK, LoopIndexOK, OwnerInv, PlanInv, UNCHANGED response,
         NEW code, NEW bs, Return(code, bs),
         \/ pc \in Sending /\ code \in Call!LocalErrors
         \/ pc \in Sent \ {"effective"} /\ code \in Call!ExchangeErrors
  PROVE  Call!Next
<1>1. Call!Return(code)
  BY DEF Call!Return, Return, Call!Pending, OwnerInv, Sending, Sent
<1>2. CASE pc \in Sending
  <2>1. Call!NextIs({Send})
    BY <1>2, NextInPlan DEF Call!NextIs
  <2>2. code \in Call!LocalErrors
    BY <1>2 DEF Sending, Sent
  <2> QED
    BY <1>1, <2>1, <2>2 DEF Call!FailsBeforeSending, Call!Next
<1>3. CASE pc \in Sent \ {"effective"}
  <2>1. Call!LastRan = Send
    <3>1. /\ Len(ran) = Len(EnabledPips) + 1 /\ Len(EnabledPips) \in Nat
          /\ plan = PlanOf(EnabledPips, EnabledOhs)
      BY <1>3, EnabledTypes DEF PlanInv, RanByStage, PlanMade, Sent
    <3>2. ran[Len(ran)] = plan[Len(ran)]
      BY <3>1 DEF PlanInv, RanIsPrefix
    <3>3. ran # <<>>
      BY <3>1
    <3> QED
      BY <3>1, <3>2, <3>3, PlanLayout, EnabledTypes DEF Call!LastRan
  <2>2. ~response /\ code \in Call!ExchangeErrors
    BY <1>3 DEF OwnerInv, Obligations, Sending, Sent
  <2> QED
    BY <1>1, <2>1, <2>2 DEF Call!FailsAfterSending, Call!Next
<1> QED
  BY <1>2, <1>3

LEMMA StepImplements ==
  TypeOK /\ LoopIndexOK /\ OwnerInv /\ PlanInv /\ Next
    => Call!Next \/ UNCHANGED Call!vars
<1> SUFFICES ASSUME TypeOK, LoopIndexOK, OwnerInv, PlanInv, Next
             PROVE  Call!Next \/ UNCHANGED Call!vars
  OBVIOUS
<1> USE DEF Goto, objects
<1>1. CASE UNCHANGED <<plan, ran, rc, response>>
  BY <1>1 DEF Call!vars
<1>2. /\ NewRequest \/ DeleteRequest \/ HandleOperation => UNCHANGED <<plan, ran, rc, response>>
      /\ PipsDone \/ Encode \/ Answered \/ EffectiveRequest => UNCHANGED <<plan, ran, rc, response>>
  BY DEF NewRequest, DeleteRequest, HandleOperation, callVars, PipsDone, Encode,
         Answered, EffectiveRequest
<1>3. CASE DeleteResponse
  BY <1>3 DEF DeleteResponse, Call!Discard, Call!Next, Call!Pending, OwnerInv
<1>4. CASE Refused
  BY <1>4 DEF Refused, Return, Call!Refuse, Call!Next, Call!Pending, OwnerInv
<1>5. CASE Enter
  <2>1. /\ plan' = PlanOf(EnabledPips, EnabledOhs) /\ ran' = <<>> /\ rc' = "pending"
        /\ ~response /\ UNCHANGED response
    BY <1>5 DEF Enter, Begin, PlanInv, PlanMade, EnabledPips, EnabledOhs, PlanOf
  <2>2. Call!IsPlan(plan')
    BY <2>1, PlanIsPlan, EnabledTypes
  <2>3. rc # "pending"
    BY <1>5 DEF Enter, OwnerInv
  <2> QED
    BY <2>1, <2>2, <2>3 DEF Call!Call, Call!Next, Call!Pending
<1>6. CASE CallPip
  <2>1. /\ i <= Len(EnabledPips) /\ pc = "pips" /\ UNCHANGED response
    BY <1>6 DEF CallPip, EnabledPips, MayReplaceRequest
  <2>2. /\ Len(ran) < Len(plan) /\ pips[i] = plan[Len(ran) + 1] /\ pips[i] \in PIPs
        /\ rc = "pending"
    BY <2>1, NextInPlan DEF OwnerInv
  <2>3. Call!MayRunNext /\ Call!NextIs(PIPs)
    BY <2>2 DEF Call!MayRunNext, Call!NextIs, Call!Pending
  <2>4. CASE Return("PIP_PROCESS", {})
    BY <2>1, <2>2, <2>3, <2>4
    DEF Return, Call!Return, Call!Pending, Call!PluginFails, Call!Next
  <2>5. CASE ~Return("PIP_PROCESS", {})
    BY <1>6, <2>1, <2>2, <2>3, <2>5 DEF CallPip, Call!Run, Call!Next
  <2> QED
    BY <2>4, <2>5
<1>7. CASE CallOh
  <2>1. /\ i <= Len(EnabledOhs) /\ pc = "ohs" /\ UNCHANGED response
    BY <1>7 DEF CallOh, EnabledOhs, MayReplaceRequest
  <2>2. /\ Len(ran) < Len(plan) /\ ohs[i] = plan[Len(ran) + 1] /\ ohs[i] \in OHs
        /\ rc = "pending" /\ response
    BY <2>1, NextInPlan DEF OwnerInv, Obligations
  <2>3. Call!MayRunNext /\ Call!NextIs(OHs)
    BY <2>2 DEF Call!MayRunNext, Call!NextIs, Call!Pending
  <2>4. CASE Return("OH_PROCESS", {"b64input", "input"})
    BY <2>1, <2>2, <2>3, <2>4
    DEF Return, Call!Return, Call!Pending, Call!PluginFails, Call!Next
  <2>5. CASE ~Return("OH_PROCESS", {"b64input", "input"})
    BY <1>7, <2>1, <2>2, <2>3, <2>5 DEF CallOh, Call!Run, Call!Next
  <2> QED
    BY <2>4, <2>5
<1>8. CASE Perform
  <2>1. /\ Len(ran) < Len(plan) /\ plan[Len(ran) + 1] = Send /\ rc = "pending"
    BY <1>8, NextInPlan DEF Perform, Sending, OwnerInv
  <2>2. Call!MayRunNext
    BY <2>1 DEF Call!MayRunNext, Call!NextIs, Call!Pending
  <2> QED
    BY <1>8, <2>1, <2>2 DEF Perform, Call!Run, Call!Next
<1>9. ASSUME NEW b, NEW bs, NEW stage, CreateBuffer(b, bs, stage), pc \in Sending
      PROVE  Call!Next \/ UNCHANGED Call!vars
  BY <1>1, <1>9, FailureImplements DEF CreateBuffer, Call!LocalErrors
<1>10. CASE CreateOutput \/ CreateB64Output \/ CreateB64Input
  BY <1>9, <1>10 DEF CreateOutput, CreateB64Output, CreateB64Input, Sending
<1>11. CASE Marshal
  BY <1>1, <1>11, FailureImplements DEF Marshal, Sending, Call!LocalErrors
<1>12. CASE Post
  BY <1>1, <1>12, FailureImplements DEF Post, Sending, Call!LocalErrors
<1>13. CASE Write
  BY <1>1, <1>13, FailureImplements DEF Write, Sending, Call!LocalErrors
<1>14. CASE CreateInput
  BY <1>1, <1>14, FailureImplements DEF CreateInput, Sending, Call!LocalErrors
<1>15. CASE PerformFails
  BY <1>15, FailureImplements DEF PerformFails, Sent, Call!ExchangeErrors
<1>16. CASE GetInfo
  BY <1>1, <1>16, FailureImplements DEF GetInfo, Sent, Call!ExchangeErrors
<1>17. CASE UnmarshalFails
  BY <1>17, FailureImplements DEF UnmarshalFails, Sent, Call!ExchangeErrors
<1>18. CASE Unmarshal
  <2>1. /\ pc = "unmarshal" /\ response' = TRUE /\ UNCHANGED <<plan, ran, rc>>
    BY <1>18 DEF Unmarshal
  <2>2. /\ Len(ran) = Len(EnabledPips) + 1 /\ Len(EnabledPips) \in Nat
        /\ plan = PlanOf(EnabledPips, EnabledOhs) /\ ~response /\ rc = "pending"
    BY <2>1, EnabledTypes DEF PlanInv, RanByStage, PlanMade, Sent, OwnerInv, Obligations
  <2>3. ran[Len(ran)] = Send /\ ran # <<>>
    <3>1. ran[Len(ran)] = plan[Len(ran)]
      BY <2>2 DEF PlanInv, RanIsPrefix
    <3> QED
      BY <2>2, <3>1, PlanLayout, EnabledTypes
  <2> QED
    BY <2>1, <2>2, <2>3 DEF Call!Deliver, Call!LastRan, Call!Pending, Call!Next
<1>19. CASE Leave
  <2>1. /\ pc = "ohs" /\ i > Len(EnabledOhs) /\ UNCHANGED response
        /\ Return("OK", {"b64input", "input"})
    BY <1>19 DEF Leave, EnabledOhs
  <2>2. /\ Len(ran) = Len(EnabledPips) + i /\ i <= Len(EnabledOhs) + 1
        /\ plan = PlanOf(EnabledPips, EnabledOhs) /\ response /\ rc = "pending"
    BY <2>1 DEF PlanInv, RanByStage, PlanMade, OwnerInv, Obligations
  <2>3. Len(plan) = Len(EnabledPips) + 1 + Len(EnabledOhs)
    BY <2>2, PlanLayout, EnabledTypes
  <2>4. ran \in Seq(Plugins \cup {Send}) /\ plan \in Seq(Plugins \cup {Send})
        /\ Len(EnabledPips) \in Nat /\ Len(EnabledOhs) \in Nat /\ i \in Nat
    BY EnabledTypes DEF TypeOK
  <2>5. Len(ran) = Len(plan) /\ \A k \in 1 .. Len(ran) : ran[k] = plan[k]
    BY <2>1, <2>2, <2>3, <2>4 DEF PlanInv, RanIsPrefix
  <2>6. ran = plan
    BY <2>4, <2>5, SeqEqual
  <2> QED
    BY <2>1, <2>2, <2>6 DEF Return, Call!Succeed, Call!Return, Call!Pending, Call!OK, Call!Next
<1> QED
  BY <1>1, <1>2, <1>3, <1>4, <1>5, <1>6, <1>7, <1>8, <1>10, <1>11, <1>12, <1>13,
     <1>14, <1>15, <1>16, <1>17, <1>18, <1>19
  DEF Next, Application, Compute

(***************************************************************************)
(* pep_authorize keeps the promise of PepCall: the enabled PIPs, the       *)
(* exchange and the enabled obligation handlers run in order and once      *)
(* each, and the code that is returned tells how far the call came.        *)
(***************************************************************************)
THEOREM CallImplementsPepCall == Spec => CallImplemented
<1>1. Init => Call!Init
  BY DEF Init, Call!Init, Call!OK
<1>2. UNCHANGED vars => UNCHANGED Call!vars
  BY DEF vars, callVars, objects, Call!vars
<1> QED
  BY <1>1, <1>2, StepImplements, TypeCorrect, OwnerInvariant, PlanInvariant, PTL
  DEF Spec, CallImplemented, Call!Spec
=============================================================================
