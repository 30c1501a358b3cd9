---------------------------- MODULE XacmlObjects ----------------------------
(***************************************************************************)
(* The XACML objects (request.c, subject.c, ..., attributeassignment.c):   *)
(* who owns and who deletes each object and each of its strings.           *)
(*                                                                         *)
(* The application is disciplined: it gives away only what it owns, adds   *)
(* an object to one owner (to the same list again, perhaps), makes no      *)
(* cycles, and deletes only what it owns.  It may reach into everything    *)
(* through the getters, and any allocation may fail.  An operation that    *)
(* fails and changes nothing is a stuttering step.  The values of an       *)
(* attribute, private strings as well, and the decision of a result are    *)
(* left out.                                                               *)
(***************************************************************************)
EXTENDS Naturals, Sequences, FiniteSets

CONSTANTS
  Objects,      \* the addresses of objects
  NULL,
  Fields,       \* the string fields that are followed
  MaxElements,  \* bound: the length of a list
  MaxTexts      \* bound: the string pointers that are not NULL

ASSUME NullAssumption == NULL \notin Objects
ASSUME BoundAssumption == MaxElements \in Nat /\ MaxTexts \in Nat

VARIABLES
  kind,   \* what each address holds
  list,   \* the lists of each object
  child,  \* the object pointers of each object
  text,   \* the string pointers: NULL, its own copy, or one that was freed
  ours,   \* the objects the application has to delete
  fault   \* what has been freed twice

links == <<kind, list, child>>
vars  == <<links, text, ours, fault>>

Kinds == {"request", "subject", "resource", "action", "environment", "attribute",
          "response", "result", "status", "statuscode", "obligation", "assignment"}
Lists == {"subjects", "resources", "attributes", "results", "obligations", "assignments"}
Children == {"action", "environment", "request", "status", "code", "subcode"}

TypeOK ==
  /\ kind  \in [Objects -> Kinds \cup {"free"}]
  /\ list  \in [Objects -> [Lists -> Seq(Objects)]]
  /\ child \in [Objects -> [Children -> Objects \cup {NULL}]]
  /\ text  \in [Objects -> [Fields -> {"null", "own", "freed"}]]
  /\ ours  \subseteq Objects
  /\ fault \in {"none", "object", "string"}
  /\ \A o \in Objects : \A f \in Fields : text[o][f] = "freed" => f \in {"category", "content"}

NoLists  == [l \in Lists |-> <<>>]
NoChild  == [c \in Children |-> NULL]
NoText   == [f \in Fields |-> "null"]

Init ==
  /\ kind  = [o \in Objects |-> "free"]
  /\ list  = [o \in Objects |-> NoLists]
  /\ child = [o \in Objects |-> NoChild]
  /\ text  = [o \in Objects |-> NoText]
  /\ ours  = {}
  /\ fault = "none"

-----------------------------------------------------------------------------
(* What each delete function deletes besides the object itself.            *)

\* llist_delete_elements deletes each distinct element once
Elements(o, l)  == {list[o][l][k] : k \in DOMAIN list[o][l]}
ChildOf(o, c)   == {child[o][c]} \ {NULL}

RequestDeletes(o)     == Elements(o, "subjects") \cup Elements(o, "resources")
                           \cup ChildOf(o, "action") \cup ChildOf(o, "environment")
SubjectDeletes(o)     == Elements(o, "attributes")
ResourceDeletes(o)    == Elements(o, "attributes")
ActionDeletes(o)      == Elements(o, "attributes")
EnvironmentDeletes(o) == Elements(o, "attributes")
ResponseDeletes(o)    == ChildOf(o, "request") \cup Elements(o, "results")
\* Mutant of ResultDeletes: the status is forgotten.
ResultDeletes_NoStatus(o) == Elements(o, "obligations")
ResultDeletes(o)      == ChildOf(o, "status") \cup Elements(o, "obligations")
StatusDeletes(o)      == ChildOf(o, "code")
StatuscodeDeletes(o)  == ChildOf(o, "subcode")
ObligationDeletes(o)  == Elements(o, "assignments")

Deletes(o) ==
  CASE kind[o] = "request"     -> RequestDeletes(o)
    [] kind[o] = "subject"     -> SubjectDeletes(o)
    [] kind[o] = "resource"    -> ResourceDeletes(o)
    [] kind[o] = "action"      -> ActionDeletes(o)
    [] kind[o] = "environment" -> EnvironmentDeletes(o)
    [] kind[o] = "response"    -> ResponseDeletes(o)
    [] kind[o] = "result"      -> ResultDeletes(o)
    [] kind[o] = "status"      -> StatusDeletes(o)
    [] kind[o] = "statuscode"  -> StatuscodeDeletes(o)
    [] kind[o] = "obligation"  -> ObligationDeletes(o)
    [] OTHER                   -> {}

\* all that deleting o deletes, o included
Tree(o) ==
  LET closed == {S \in SUBSET Objects : \A y \in S : Deletes(y) \subseteq S}
  IN  {x \in Objects : \A S \in closed : o \in S => x \in S}

\* Deleting o meets an object that is not there, or for the second time.
MeetsTwice(o) ==
  \E x \in Tree(o) :
    \/ kind[x] = "free"
    \/ x = o /\ \E y \in Tree(o) : x \in Deletes(y)
    \/ \E y, z \in Tree(o) : y # z /\ x \in Deletes(y) \cap Deletes(z)

\* Deleting o frees a string that its object still points to.
FreesTwice(o) == \E x \in Tree(o) : \E f \in Fields : text[x][f] = "freed"

After(o) ==
  fault' = IF MeetsTwice(o) THEN "object" ELSE IF FreesTwice(o) THEN "string" ELSE fault

Cleared(f, S, empty) == [o \in Objects |-> IF o \in S THEN empty ELSE f[o]]

\* what xacml_request_delete and the functions like it free
Frees(o) ==
  /\ kind'  = Cleared(kind, Tree(o), "free")
  /\ list'  = Cleared(list, Tree(o), NoLists)
  /\ child' = Cleared(child, Tree(o), NoChild)
  /\ text'  = Cleared(text, Tree(o), NoText)
  /\ ours'  = ours \ {o}
  /\ After(o)

Delete(o) == o \in ours /\ Frees(o)

-----------------------------------------------------------------------------
(* Creation: all of an object is allocated, or nothing remains of it.  The *)
(* strings in given are passed to the constructor; they may be NULL.       *)

Create(o, k, given) ==
  /\ kind[o] = "free"
  /\ kind' = [kind EXCEPT ![o] = k]
  /\ \E t \in SUBSET (given \cap Fields) :
       text' = [text EXCEPT ![o] = [f \in Fields |-> IF f \in t THEN "own" ELSE "null"]]
  /\ ours' = ours \cup {o}
  /\ UNCHANGED <<list, child, fault>>

CreateRequest(o)     == Create(o, "request", {})
CreateSubject(o)     == Create(o, "subject", {})
CreateResource(o)    == Create(o, "resource", {})
CreateAction(o)      == Create(o, "action", {})
CreateEnvironment(o) == Create(o, "environment", {})
CreateAttribute(o)   == Create(o, "attribute", {"id"})
CreateResponse(o)    == Create(o, "response", {})
CreateResult(o)      == Create(o, "result", {})
CreateStatus(o)      == Create(o, "status", {"message"})
CreateStatuscode(o)  == Create(o, "statuscode", {"value"})
CreateObligation(o)  == Create(o, "obligation", {"id"})
CreateAssignment(o)  == Create(o, "assignment", {"id"})

\* xacml_attribute_clone: a failure deletes what has been copied so far
CloneAttribute(o, a) ==
  /\ kind[a] = "attribute"
  /\ kind[o] = "free"
  /\ kind' = [kind EXCEPT ![o] = "attribute"]
  /\ text' = [text EXCEPT ![o] = text[a]]
  /\ ours' = ours \cup {o}
  /\ UNCHANGED <<list, child, fault>>

-----------------------------------------------------------------------------
(* Lists.  When llist_add fails the object stays with the application.     *)

\* what the application may add to list l of p: its own, or one that is there
MayAdd(p, l, o) == (o \in ours /\ p \notin Tree(o)) \/ o \in Elements(p, l)

\* Mutant of AddTo: an object that was added is reported as an error.
AddTo_ReportsError(p, l, o) ==
  /\ MayAdd(p, l, o)
  /\ Len(list[p][l]) < MaxElements
  /\ list' = [list EXCEPT ![p][l] = Append(@, o)]
  /\ UNCHANGED <<kind, child, text, ours, fault>>

AddTo(p, l, o) ==
  /\ MayAdd(p, l, o)
  /\ Len(list[p][l]) < MaxElements
  /\ list' = [list EXCEPT ![p][l] = Append(@, o)]
  /\ ours' = ours \ {o}
  /\ UNCHANGED <<kind, child, text, fault>>

AddSubject(r, o) ==
  kind[r] = "request" /\ kind[o] = "subject" /\ AddTo(r, "subjects", o)
AddResource(r, o) ==
  kind[r] = "request" /\ kind[o] = "resource" /\ AddTo(r, "resources", o)
SubjectAddAttribute(s, o) ==
  kind[s] = "subject" /\ kind[o] = "attribute" /\ AddTo(s, "attributes", o)
ResourceAddAttribute(r, o) ==
  kind[r] = "resource" /\ kind[o] = "attribute" /\ AddTo(r, "attributes", o)
ActionAddAttribute(a, o) ==
  kind[a] = "action" /\ kind[o] = "attribute" /\ AddTo(a, "attributes", o)
EnvironmentAddAttribute(e, o) ==
  kind[e] = "environment" /\ kind[o] = "attribute" /\ AddTo(e, "attributes", o)
AddResult(r, o) ==
  kind[r] = "response" /\ kind[o] = "result" /\ AddTo(r, "results", o)
AddObligation(r, o) ==
  kind[r] = "result" /\ kind[o] = "obligation" /\ AddTo(r, "obligations", o)
AddAssignment(b, o) ==
  kind[b] = "obligation" /\ kind[o] = "assignment" /\ AddTo(b, "assignments", o)

-----------------------------------------------------------------------------
(* Pointers.  The object that was there before is deleted.                 *)

Replace(p, c, o) ==
  LET old  == child[p][c]
      gone == IF old = NULL THEN {} ELSE Tree(old)
  IN  /\ kind'  = Cleared(kind, gone, "free")
      /\ list'  = Cleared(list, gone, NoLists)
      /\ child' = [Cleared(child, gone, NoChild) EXCEPT ![p][c] = o]
      /\ text'  = Cleared(text, gone, NoText)
      /\ ours'  = ours \ {o}
      /\ IF old = NULL THEN UNCHANGED fault ELSE After(old)

SetTo(p, c, o) == o \in ours /\ p \notin Tree(o) /\ Replace(p, c, o)

SetAction(r, o) ==
  kind[r] = "request" /\ kind[o] = "action" /\ SetTo(r, "action", o)
SetEnvironment(r, o) ==
  kind[r] = "request" /\ kind[o] = "environment" /\ SetTo(r, "environment", o)
SetRequest(r, o) ==
  kind[r] = "response" /\ kind[o] = "request" /\ SetTo(r, "request", o)
SetStatus(r, o) ==
  kind[r] = "result" /\ kind[o] = "status" /\ SetTo(r, "status", o)
SetCode(s, o) ==
  kind[s] = "status" /\ kind[o] = "statuscode" /\ SetTo(s, "code", o)
SetSubcode(s, o) ==
  kind[s] = "statuscode" /\ kind[o] = "statuscode" /\ SetTo(s, "subcode", o)

\* only these two setters take NULL
UnsetAction(r)      == kind[r] = "request" /\ Replace(r, "action", NULL)
UnsetEnvironment(r) == kind[r] = "request" /\ Replace(r, "environment", NULL)

\* Mutant of RelinquishRequest: the response does not forget the request.
RelinquishRequest_Remembers(r) ==
  /\ kind[r] = "response"
  /\ child[r]["request"] # NULL
  /\ ours' = ours \cup {child[r]["request"]}
  /\ UNCHANGED <<kind, list, child, text, fault>>

RelinquishRequest(r) ==
  /\ kind[r] = "response"
  /\ child[r]["request"] # NULL
  /\ ours' = ours \cup {child[r]["request"]}
  /\ child' = [child EXCEPT ![r]["request"] = NULL]
  /\ UNCHANGED <<kind, list, text, fault>>

-----------------------------------------------------------------------------
(* Strings.  The old copy is freed before the new one is allocated, and    *)
(* calloc() may fail.                                                      *)

FreeOld(o, f) == fault' = IF text[o][f] = "freed" THEN "string" ELSE fault

Copied(o, f) == \E t \in {"own", "null"} : text' = [text EXCEPT ![o][f] = t]

\* setters that refuse NULL
Mandatory(o, f) == FreeOld(o, f) /\ Copied(o, f) /\ UNCHANGED <<links, ours>>

\* setters that free the string for NULL, and keep the pointer
Kept(o, f) ==
  /\ FreeOld(o, f)
  /\ \/ Copied(o, f)
     \/ text' = [text EXCEPT ![o][f] = IF @ = "null" THEN "null" ELSE "freed"]
  /\ UNCHANGED <<links, ours>>

\* setters that free the string for NULL, and set the pointer to NULL
Optional(o, f) ==
  /\ FreeOld(o, f)
  /\ Copied(o, f) \/ text' = [text EXCEPT ![o][f] = "null"]
  /\ UNCHANGED <<links, ours>>

SetCategory(o)           == kind[o] = "subject"    /\ Kept(o, "category")
SetContent(o)            == kind[o] = "resource"   /\ Kept(o, "content")
SetAttributeId(o)        == kind[o] = "attribute"  /\ Mandatory(o, "id")
SetAttributeDatatype(o)  == kind[o] = "attribute"  /\ Optional(o, "datatype")
SetIssuer(o)             == kind[o] = "attribute"  /\ Optional(o, "issuer")
SetResourceid(o)         == kind[o] = "result"     /\ Optional(o, "resourceid")
SetMessage(o)            == kind[o] = "status"     /\ Mandatory(o, "message")
SetStatuscodeValue(o)    == kind[o] = "statuscode" /\ Mandatory(o, "value")
SetObligationId(o)       == kind[o] = "obligation" /\ Mandatory(o, "id")
SetAssignmentId(o)       == kind[o] = "assignment" /\ Mandatory(o, "id")
SetAssignmentDatatype(o) == kind[o] = "assignment" /\ Optional(o, "datatype")
SetAssignmentValue(o)    == kind[o] = "assignment" /\ Optional(o, "value")

-----------------------------------------------------------------------------
CreateSome(o) ==
  \/ CreateRequest(o) \/ CreateSubject(o) \/ CreateResource(o) \/ CreateAction(o)
  \/ CreateEnvironment(o) \/ CreateAttribute(o) \/ CreateResponse(o) \/ CreateResult(o)
  \/ CreateStatus(o) \/ CreateStatuscode(o) \/ CreateObligation(o) \/ CreateAssignment(o)

SetString(o) ==
  \/ "category" \in Fields /\ SetCategory(o)
  \/ "content" \in Fields /\ SetContent(o)
  \/ "id" \in Fields /\ (SetAttributeId(o) \/ SetObligationId(o) \/ SetAssignmentId(o))
  \/ "datatype" \in Fields /\ (SetAttributeDatatype(o) \/ SetAssignmentDatatype(o))
  \/ "issuer" \in Fields /\ SetIssuer(o)
  \/ "resourceid" \in Fields /\ SetResourceid(o)
  \/ "message" \in Fields /\ SetMessage(o)
  \/ "value" \in Fields /\ (SetStatuscodeValue(o) \/ SetAssignmentValue(o))

Combine(p, o) ==
  \/ AddSubject(p, o) \/ AddResource(p, o)
  \/ SubjectAddAttribute(p, o) \/ ResourceAddAttribute(p, o)
  \/ ActionAddAttribute(p, o) \/ EnvironmentAddAttribute(p, o)
  \/ AddResult(p, o) \/ AddObligation(p, o) \/ AddAssignment(p, o)
  \/ SetAction(p, o) \/ SetEnvironment(p, o) \/ SetRequest(p, o)
  \/ SetStatus(p, o) \/ SetCode(p, o) \/ SetSubcode(p, o)
  \/ CloneAttribute(p, o)

TextsBounded == Cardinality({x \in Objects \X Fields : text[x[1]][x[2]] # "null"}) <= MaxTexts

\* nothing is defined any more once memory has been freed twice
Next ==
  /\ fault = "none"
  /\ \/ \E o \in Objects :
          \/ CreateSome(o) \/ Delete(o) \/ SetString(o)
          \/ UnsetAction(o) \/ UnsetEnvironment(o) \/ RelinquishRequest(o)
     \/ \E p, o \in Objects : Combine(p, o)
  /\ TextsBounded'

Spec == Init /\ [][Next]_vars

-----------------------------------------------------------------------------
\* all that p points to
Holds(p) ==
  {o \in Objects : \/ \E l \in Lists : o \in Elements(p, l)
                   \/ \E c \in Children : o \in ChildOf(p, c)}

Live == {o \in Objects : kind[o] # "free"}

(***************************************************************************)
(* Whatever is created, given away, replaced, relinquished and deleted:    *)
(* each object that exists has one owner, the application or the object    *)
(* that points to it, and nothing points to an object that does not exist. *)
(***************************************************************************)
OwnedOnce ==
  /\ ours \subseteq Live
  /\ UNION {Holds(p) : p \in Objects} = Live \ ours
  /\ \A p, q \in Objects : p # q => Holds(p) \cap Holds(q) = {}

(***************************************************************************)
(* No sequence of legal calls deletes an object twice: an object that is   *)
(* twice in a list is deleted with it once, and one that was replaced or   *)
(* relinquished is not deleted with its former owner.                      *)
(***************************************************************************)
ObjectsDeletedOnce == fault # "object"

(***************************************************************************)
(* An application that has deleted all it owns has released everything:    *)
(* every delete function reaches all that its object was given.            *)
(***************************************************************************)
NothingLeaks == ours = {} => Live = {}

(***************************************************************************)
(* "category == NULL will delete the existing one" (subject.c:48), and so  *)
(* does a NULL content (resource.c:76): deleted means that nobody deletes  *)
(* it again.                                                               *)
(***************************************************************************)
StringsFreedOnce == fault # "string"
=============================================================================
