------------------------- MODULE RequestMarshalling -------------------------
(***************************************************************************)
(* Marshalling of a request (io.c): the functions that turn the XACML      *)
(* objects of a request into one Hessian object, one frame of the stack    *)
(* for each call that has not returned.                                    *)
(*                                                                         *)
(* A function is told by the fields it writes, in order.  What each of its *)
(* variables points to is its own to delete, or was given to the map or    *)
(* the list that holds it now; every error exit deletes some of them.      *)
(* Any allocation may fail, those of the destructors too.                  *)
(***************************************************************************)
EXTENDS Naturals, Sequences

CONSTANTS
  Requests,   \* the requests that are marshalled: trees of nodes
  NULL        \* a string, an object or a document that is not there

VARIABLES
  phase,      \* where xacml_request_marshalling is
  request,
  stack,      \* the calls of the marshal functions
  sent,       \* the Hessian object that was built, and what was serialized
  hollow,     \* it holds a pair whose value could not be allocated
  leaks,      \* what was lost, by the way it was lost
  fault,      \* the misuse of memory that stopped the program, if any
  starved     \* history: an allocation has failed

mvars == <<phase, request, stack, sent, hollow, leaks, fault, starved>>

Locals == {"map", "list", "key", "value"}  \* the variables of a function
Owners == Locals \cup {"null"}             \* and the value of a new pair

-----------------------------------------------------------------------------
(* What each function writes: the keys of its map, in this order.          *)

\* Mutant of AttributeFields: the values are forgotten.
AttributeFields_NoValues == <<"id", "datatype", "issuer">>
AttributeFields   == <<"id", "datatype", "issuer", "values">>
SubjectFields     == <<"category", "attributes">>
ResourceFields    == <<"content", "attributes">>
ActionFields      == <<"attributes">>
EnvironmentFields == <<"attributes">>
RequestFields     == <<"subjects", "resources", "action", "environment">>

FieldsOf(kind) ==
  CASE kind = "attribute"   -> AttributeFields
    [] kind = "subject"     -> SubjectFields
    [] kind = "resource"    -> ResourceFields
    [] kind = "action"      -> ActionFields
    [] kind = "environment" -> EnvironmentFields
    [] OTHER                -> RequestFields

Strings   == {"id", "datatype", "issuer", "category", "content"}
Optional  == Strings \ {"id"}
Unchecked == {"datatype", "issuer"}   \* nobody looks whether it was created
Lists     == {"values", "attributes", "subjects", "resources"}
Children  == {"action", "environment"}

\* Hessian objects
NullObject      == [type |-> "null"]
StringOf(t) == [type |-> "string", text |-> t]
ListOf(es)  == [type |-> "list", parts |-> es]
MapOf(k, ps) == [type |-> "map", class |-> k, parts |-> ps]

NothingOwned == [l \in Owners |-> "none"]

FrameFor(n) == [node |-> n, step |-> "map", at |-> 1, own |-> NothingOwned,
                value |-> NULL, items |-> <<>>, pairs |-> <<>>]

MInit ==
  /\ phase = "idle"
  /\ request = NULL
  /\ stack = <<>>
  /\ sent = NULL
  /\ hollow = FALSE
  /\ leaks = {}
  /\ fault = "none"
  /\ starved = FALSE

This == stack[Len(stack)]
Callers == SubSeq(stack, 1, Len(stack) - 1)
Field == FieldsOf(This.node.kind)[This.at]
Content == IF Field = "values" THEN This.node.values ELSE This.node[Field]

\* the innermost call is at step s
AtStep(s) == phase = "marshalling" /\ This.step = s
\* ... of a field of set F
Writes(F, s) == AtStep(s) /\ This.at <= Len(FieldsOf(This.node.kind)) /\ Field \in F

Becomes(f) == stack' = [stack EXCEPT ![Len(stack)] = f]

\* an allocation has failed, and nobody looks
Starves == starved' = TRUE /\ UNCHANGED <<leaks, fault>>
Succeeds == UNCHANGED <<leaks, fault, starved>>
Continues == UNCHANGED <<phase, request, sent, hollow>>

-----------------------------------------------------------------------------
(* Error exits.                                                            *)

\* the destructor of what l points to finds something in it
NotEmpty(f, l) ==
  \/ l = "map" /\ f.pairs # <<>>
  \/ l = "list" /\ f.items # <<>>
  \/ l = "value" /\ f.value.type = "map"

\* there is a map, with something in it, among them
HoldsMap(f, l) == NotEmpty(f, l) /\ (l = "list" => f.items[1].type = "map")

\* hessian_delete of lists and maps.  A map asks for a list first, and loses its
\* content without one; the distinct elements are put in an array that is not
\* checked.
Destroys(crowded, maps, lost, short) ==
  \/ leaks' = leaks \cup lost /\ starved' = short /\ UNCHANGED fault
  \/ crowded /\ fault' = "null_array" /\ starved' = TRUE /\ UNCHANGED leaks
  \/ maps /\ leaks' = leaks \cup lost \cup {"content"} /\ starved' = TRUE /\ UNCHANGED fault

\* the function deletes the variables in S and returns PEP_IO_ERROR
Exit(f, S, short) ==
  LET held == {l \in Owners : f.own[l] = "own"}
  IN  /\ \/ /\ \E l \in S : f.own[l] = "given"
            /\ fault' = "twice"
            /\ starved' = short
            /\ UNCHANGED leaks
         \/ /\ \A l \in S : f.own[l] # "given"
            /\ Destroys(\E l \in S \cap held : NotEmpty(f, l),
                        \E l \in S \cap held : HoldsMap(f, l),
                        held \ S,
                        short)
      /\ stack' = Callers
      /\ phase' = IF Len(stack) = 1 THEN "failed" ELSE "failing"
      /\ UNCHANGED <<request, sent, hollow>>

\* calloc() fails in hessian_create or below, and the function gives up
GivesUp(S) == Exit(This, S, TRUE)

\* the call in progress has failed: its caller fails
CallerFails ==
  /\ phase = "failing"
  /\ Exit(This, IF Field \in Lists THEN {"map", "list"} ELSE {"map"}, starved)

-----------------------------------------------------------------------------
(* The steps of a function.                                                *)

\* f points l to a new document, or to one a call returned
Holds(f, l) == [f EXCEPT !.own[l] = "own"]

CreateMap ==
  /\ AtStep("map")
  /\ \/ Becomes([Holds(This, "map") EXCEPT !.step = "field"]) /\ Succeeds /\ Continues
     \/ GivesUp({})

SkipOptional ==
  /\ Writes(Optional, "field") /\ Content = NULL
  /\ Becomes([This EXCEPT !.at = @ + 1])
  /\ Succeeds /\ Continues

\* Mutant of MissingId: every string that is not there is an error.
MissingId_AnyString ==
  /\ Writes(Strings, "field") /\ Content = NULL
  /\ Exit(This, {"map"}, starved)

\* a Hessian string is not created from NULL
MissingId ==
  /\ Writes({"id"}, "field") /\ Content = NULL
  /\ Exit(This, {"map"}, starved)

CreateString ==
  /\ Writes(Strings, "field") /\ Content # NULL
  /\ \/ /\ Becomes([Holds(This, "value") EXCEPT !.value = StringOf(Content), !.step = "put"])
        /\ Succeeds /\ Continues
     \/ Field \notin Unchecked /\ GivesUp({"map"})
     \/ /\ Field \in Unchecked
        /\ Becomes([This EXCEPT !.own["value"] = "none", !.value = NULL, !.step = "put"])
        /\ Starves /\ Continues

CreateList ==
  /\ Writes(Lists, "field")
  /\ \/ Becomes([Holds(This, "list") EXCEPT !.items = <<>>, !.step = "items"]) /\ Succeeds /\ Continues
     \/ GivesUp({"map"})

More == Len(This.items) < Len(Content)
NextItem == Content[Len(This.items) + 1]

CreateElement ==
  /\ Writes({"values"}, "items") /\ More
  /\ \/ /\ Becomes([Holds(This, "value") EXCEPT !.value = StringOf(NextItem), !.step = "append"])
        /\ Succeeds /\ Continues
     \/ GivesUp({"map", "list"})

Calls(n) ==
  /\ stack' = Append([stack EXCEPT ![Len(stack)].step = "calling"], FrameFor(n))
  /\ Succeeds /\ Continues

MarshalElement ==
  /\ Writes(Lists \ {"values"}, "items") /\ More
  /\ Calls(NextItem)

MarshalChild ==
  /\ Writes(Children, "field") /\ Content # NULL
  /\ Calls(Content)

\* xacml_action_marshal and xacml_environment_marshal of NULL
MarshalNull ==
  /\ Writes(Children, "field") /\ Content = NULL
  /\ \/ Becomes([Holds(This, "value") EXCEPT !.value = NullObject, !.step = "put"]) /\ Succeeds /\ Continues
     \/ GivesUp({"map"})

\* Mutant of AppendItem: the element is not deleted when the list cannot take it.
AppendItem_Forgets ==
  /\ Writes(Lists, "append")
  /\ \/ /\ Becomes([This EXCEPT !.items = Append(@, This.value), !.own["value"] = "given", !.step = "items"])
        /\ Succeeds /\ Continues
     \/ GivesUp({"map", "list"})

\* hessian_list_add
AppendItem ==
  /\ Writes(Lists, "append")
  /\ \/ /\ Becomes([This EXCEPT !.items = Append(@, This.value), !.own["value"] = "given", !.step = "items"])
        /\ Succeeds /\ Continues
     \/ GivesUp({"map", "list", "value"})

EndOfItems ==
  /\ Writes(Lists, "items") /\ ~More
  /\ Becomes([This EXCEPT !.step = "put"])
  /\ Succeeds /\ Continues

\* what is put under the key
Subject == IF Field \in Lists THEN "list" ELSE "value"
Document == IF Field \in Lists THEN ListOf(This.items) ELSE This.value

\* the key and what it names belong to the map now
Given(f) == [f EXCEPT !.own["key"] = "given",
                      !.own[Subject] = IF @ = "own" THEN "given" ELSE @,
                      !.at = @ + 1, !.step = "field"]
Pairs(v) == [Given(This) EXCEPT !.pairs = Append(@, <<Field, v>>)]

\* the key is created and hessian_map_add, in the order they come: without a
\* value, a null object is created for the pair
PutPair ==
  /\ AtStep("put")
  /\ \/ Document # NULL /\ Becomes(Pairs(Document)) /\ Succeeds /\ Continues
     \/ Document = NULL /\ Becomes(Pairs(NullObject)) /\ Succeeds /\ Continues
     \/ /\ Document = NULL
        /\ Becomes(Pairs(NULL))
        /\ hollow' = TRUE
        /\ Starves /\ UNCHANGED <<phase, request, sent>>

\* no key: there is nothing to delete through it
KeyFails ==
  /\ AtStep("put")
  /\ Exit([This EXCEPT !.own["key"] = "none"], {"map", "key", Subject}, TRUE)

\* no pair, or no place for it in the list of the map
AddFails ==
  /\ AtStep("put")
  /\ Exit(Holds(This, "key"), {"map", "key", Subject}, TRUE)

\* ... and the null object that was created for the pair is not deleted with it
NullLost ==
  /\ AtStep("put") /\ Document = NULL
  /\ Exit(Holds(Holds(This, "key"), "null"), {"map", "key", Subject}, TRUE)

\* PEP_IO_OK: the map is the caller's
Return ==
  /\ AtStep("field") /\ This.at > Len(FieldsOf(This.node.kind))
  /\ LET doc == MapOf(This.node.kind, This.pairs)
         caller == stack[Len(stack) - 1]
         into == FieldsOf(caller.node.kind)[caller.at]
     IN  \/ /\ Len(stack) = 1
            /\ sent' = doc
            /\ phase' = "built"
            /\ stack' = <<>>
         \/ /\ Len(stack) > 1
            /\ stack' = [Callers EXCEPT ![Len(Callers)] =
                 [Holds(caller, "value") EXCEPT !.value = doc,
                    !.step = IF into \in Lists THEN "append" ELSE "put"]]
            /\ UNCHANGED <<sent, phase>>
  /\ Succeeds
  /\ UNCHANGED <<request, hollow>>

-----------------------------------------------------------------------------
(* xacml_request_marshalling.                                              *)

Start(r) ==
  /\ phase \in {"idle", "sent", "failed"}
  /\ phase' = "marshalling"
  /\ request' = r
  /\ stack' = <<FrameFor(r)>>
  /\ sent' = NULL
  /\ hollow' = FALSE
  /\ leaks' = {}
  /\ starved' = FALSE
  /\ UNCHANGED fault

\* the object is serialized, unless a pair has no value, and deleted
Serialize ==
  /\ phase = "built"
  /\ Destroys(TRUE, TRUE, {}, starved)
  /\ \/ ~hollow /\ phase' = "sent" /\ UNCHANGED sent
     \/ hollow /\ phase' = "failed" /\ sent' = NULL
  /\ UNCHANGED <<request, stack, hollow>>

MStep ==
  /\ fault = "none"
  /\ \/ CreateMap \/ SkipOptional \/ MissingId \/ CreateString \/ CreateList
     \/ CreateElement \/ MarshalElement \/ MarshalChild \/ MarshalNull
     \/ AppendItem \/ EndOfItems \/ PutPair \/ KeyFails \/ AddFails \/ NullLost
     \/ Return \/ CallerFails \/ Serialize

MNext == MStep \/ (fault = "none" /\ \E r \in Requests : Start(r))

MSpec == MInit /\ [][MNext]_mvars

AttributesOf(r) ==
  UNION {{n.attributes[k] : k \in DOMAIN n.attributes} :
           n \in {r.subjects[k] : k \in DOMAIN r.subjects}
                  \cup {r.resources[k] : k \in DOMAIN r.resources}
                  \cup ({r.action, r.environment} \ {NULL})}

HasNamelessAttribute(r) == \E a \in AttributesOf(r) : a.id = NULL

\* a pair for a field that is there
Adding(ps, n, field, v) == IF n[field] = NULL THEN ps ELSE Append(ps, <<field, v>>)

\* the object of a text, which may be null where it is not exact
Text(t, exact) == {StringOf(t)} \cup (IF exact THEN {} ELSE {NullObject})

\* d is the map for attribute a
AttributeMap(d, a, exact) ==
  \E datatype \in Text(a.datatype, exact), issuer \in Text(a.issuer, exact) :
    LET values == ListOf([k \in DOMAIN a.values |-> StringOf(a.values[k])])
        typed == Adding(<<<<"id", StringOf(a.id)>>>>, a, "datatype", datatype)
    IN  d = MapOf("attribute", Append(Adding(typed, a, "issuer", issuer), <<"values", values>>))

\* d is the list for the attributes ns
AttributeList(d, ns, exact) ==
  /\ d = ListOf(d.parts) /\ Len(d.parts) = Len(ns)
  /\ \A k \in DOMAIN d.parts : AttributeMap(d.parts[k], ns[k], exact)

\* d is the map for a subject, resource, action or environment
HolderMap(d, n, exact) ==
  LET about == CASE n.kind = "subject"  -> Adding(<<>>, n, "category", StringOf(n.category))
                 [] n.kind = "resource" -> Adding(<<>>, n, "content", StringOf(n.content))
                 [] OTHER               -> <<>>
      attributes == d.parts[Len(d.parts)][2]
  IN  /\ d = MapOf(n.kind, Append(about, <<"attributes", attributes>>))
      /\ AttributeList(attributes, n.attributes, exact)

HolderList(d, ns, exact) ==
  /\ d = ListOf(d.parts) /\ Len(d.parts) = Len(ns)
  /\ \A k \in DOMAIN d.parts : HolderMap(d.parts[k], ns[k], exact)

MaybeHolder(d, n, exact) == IF n = NULL THEN d = NullObject ELSE HolderMap(d, n, exact)

RequestMap(d, r, exact) ==
  LET of(k) == d.parts[k][2]
  IN  /\ d = MapOf("request", <<<<"subjects", of(1)>>, <<"resources", of(2)>>,
                              <<"action", of(3)>>, <<"environment", of(4)>>>>)
      /\ HolderList(of(1), r.subjects, exact) /\ HolderList(of(2), r.resources, exact)
      /\ MaybeHolder(of(3), r.action, exact) /\ MaybeHolder(of(4), r.environment, exact)

-----------------------------------------------------------------------------
(***************************************************************************)
(* Whatever fails, and however deep, each function deletes once what its   *)
(* variables own, and nothing that was given away: a map and the list that *)
(* is not in it yet, the key and the value of a pair that was not added.   *)
(***************************************************************************)
LocalsReleased == fault # "twice" /\ leaks \cap Locals = {}

(***************************************************************************)
(* While there is memory nothing is lost, no pair is left without a value, *)
(* and the only request that cannot be marshalled has an attribute without *)
(* an id.                                                                  *)
(***************************************************************************)
OnlyStarvationFails ==
  ~starved => /\ leaks = {} /\ fault = "none" /\ ~hollow
              /\ phase \in {"failing", "failed"} => HasNamelessAttribute(request)

(***************************************************************************)
(* Every subject, resource and attribute of the request, and every value,  *)
(* is in the object that is sent, in its order, whatever allocations fail  *)
(* on the way: then the call fails, or at most a datatype or an issuer has *)
(* become null.                                                            *)
(***************************************************************************)
RequestIsComplete == phase = "sent" => RequestMap(sent, request, ~starved)
=============================================================================
