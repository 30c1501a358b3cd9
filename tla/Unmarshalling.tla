--------------------------- MODULE Unmarshalling ---------------------------
(***************************************************************************)
(* Unmarshalling of a response (io.c): the functions that turn the maps of *)
(* a Hessian message into XACML objects, one frame of the stack for each   *)
(* call that has not returned.                                             *)
(*                                                                         *)
(* The message is chosen as it is read: which pair comes next, with what   *)
(* value, and how many elements a list has.  Keys may come twice.  What a  *)
(* function reads without keeping it (an unknown key, a null action, a     *)
(* decision, the values of an attribute) is a stuttering step.  Whatever   *)
(* is wrong with a message, or cannot be allocated, is Refuse.             *)
(***************************************************************************)
EXTENDS XacmlObjects, SequencesExt

VARIABLES
  call,   \* where xacml_response_unmarshalling is
  stack   \* the objects that are being filled, and what of them is being read

allVars == <<vars, call, stack>>

Keys   == {"keys"} \cup Lists \cup Children
Frames == [obj : Objects, at : Keys]

UInit ==
  /\ Init
  /\ call = "idle"
  /\ stack = <<>>

Top == stack[Len(stack)]

\* an unmarshal function of kind k is about to read the next pair for o
Reads(o, k) ==
  /\ call = "reading"
  /\ Top = [obj |-> o, at |-> "keys"]
  /\ kind[o] = k

-----------------------------------------------------------------------------
(* The keys of each kind of map.                                           *)

\* the value of this key is a list, or a map of its own
Into(x) ==
  /\ stack' = [stack EXCEPT ![Len(stack)].at = x]
  /\ UNCHANGED <<vars, call>>

\* after a setter that refuses NULL: it fails when nothing was copied
Mandatorily(o, f) ==
  /\ call' = IF text'[o][f] = "own" THEN "reading" ELSE "failing"
  /\ UNCHANGED stack

\* after the other setters: the value is null, or calloc() may have failed
Optionally(o, f) ==
  /\ \/ call' = "reading"
     \/ call' = "failing" /\ text'[o][f] = "null"
  /\ UNCHANGED stack

ResponseKeys(o) ==
  /\ Reads(o, "response")
  /\ \E x \in {"request", "results"} : Into(x)

RequestKeys(o) ==
  /\ Reads(o, "request")
  /\ \E x \in {"subjects", "resources", "action", "environment"} : Into(x)

SubjectKeys(o) ==
  /\ Reads(o, "subject")
  /\ \/ "category" \in Fields /\ SetCategory(o) /\ Optionally(o, "category")
     \/ Into("attributes")

ResourceKeys(o) ==
  /\ Reads(o, "resource")
  /\ \/ "content" \in Fields /\ SetContent(o) /\ Optionally(o, "content")
     \/ Into("attributes")

ActionKeys(o)      == Reads(o, "action") /\ Into("attributes")
EnvironmentKeys(o) == Reads(o, "environment") /\ Into("attributes")

AttributeKeys(o) ==
  /\ Reads(o, "attribute")
  /\ \/ "id" \in Fields /\ SetAttributeId(o) /\ Mandatorily(o, "id")
     \/ "datatype" \in Fields /\ SetAttributeDatatype(o) /\ Optionally(o, "datatype")
     \/ "issuer" \in Fields /\ SetIssuer(o) /\ Optionally(o, "issuer")

ResultKeys(o) ==
  /\ Reads(o, "result")
  /\ \/ "resourceid" \in Fields /\ SetResourceid(o) /\ Optionally(o, "resourceid")
     \/ \E x \in {"status", "obligations"} : Into(x)

StatusKeys(o) ==
  /\ Reads(o, "status")
  /\ \/ "message" \in Fields /\ SetMessage(o) /\ Mandatorily(o, "message")
     \/ Into("code")

StatuscodeKeys(o) ==
  /\ Reads(o, "statuscode")
  /\ \/ "value" \in Fields /\ SetStatuscodeValue(o) /\ Mandatorily(o, "value")
     \/ Into("subcode")

ObligationKeys(o) ==
  /\ Reads(o, "obligation")
  /\ \/ "id" \in Fields /\ SetObligationId(o) /\ Mandatorily(o, "id")
     \/ Into("assignments")

AssignmentKeys(o) ==
  /\ Reads(o, "assignment")
  /\ \/ "id" \in Fields /\ SetAssignmentId(o) /\ Mandatorily(o, "id")
     \/ "datatype" \in Fields /\ SetAssignmentDatatype(o) /\ Optionally(o, "datatype")
     \/ "value" \in Fields /\ SetAssignmentValue(o) /\ Optionally(o, "value")

-----------------------------------------------------------------------------
(* Calls and returns.                                                      *)

Push(o) ==
  /\ text' = [text EXCEPT ![o] = NoText]
  /\ stack' = Append(stack, [obj |-> o, at |-> "keys"])
  /\ call' = "reading"

\* xacml_response_unmarshalling, when the message is a map of the right class
Start(o) == call = "idle" /\ CreateResponse(o) /\ Push(o)

\* the unmarshal function for the element, or the value, that comes next
Enter(o) ==
  /\ call = "reading"
  /\ \/ Top.at = "request"     /\ CreateRequest(o)
     \/ Top.at = "subjects"    /\ CreateSubject(o)
     \/ Top.at = "resources"   /\ CreateResource(o)
     \/ Top.at = "action"      /\ CreateAction(o)
     \/ Top.at = "environment" /\ CreateEnvironment(o)
     \/ Top.at = "attributes"  /\ CreateAttribute(o)
     \/ Top.at = "results"     /\ CreateResult(o)
     \/ Top.at = "status"      /\ CreateStatus(o)
     \/ Top.at \in {"code", "subcode"} /\ CreateStatuscode(o)
     \/ Top.at = "obligations" /\ CreateObligation(o)
     \/ Top.at = "assignments" /\ CreateAssignment(o)
  /\ Push(o)

EndOfList ==
  /\ call = "reading"
  /\ Top.at \in Lists
  /\ stack' = [stack EXCEPT ![Len(stack)].at = "keys"]
  /\ UNCHANGED <<vars, call>>

\* the end of a map: its function returns, and its caller keeps the object
ResponseKeeps(p, o)    == SetRequest(p, o) \/ AddResult(p, o)
RequestKeeps(p, o)     == \/ AddSubject(p, o) \/ AddResource(p, o)
                          \/ SetAction(p, o) \/ SetEnvironment(p, o)
SubjectKeeps(p, o)     == SubjectAddAttribute(p, o)
ResourceKeeps(p, o)    == ResourceAddAttribute(p, o)
ActionKeeps(p, o)      == ActionAddAttribute(p, o)
EnvironmentKeeps(p, o) == EnvironmentAddAttribute(p, o)
ResultKeeps(p, o)      == SetStatus(p, o) \/ AddObligation(p, o)
StatusKeeps(p, o)      == SetCode(p, o)
StatuscodeKeeps(p, o)  == SetSubcode(p, o)
ObligationKeeps(p, o)  == AddAssignment(p, o)

Keeps(p, o) ==
  \/ ResponseKeeps(p, o) \/ RequestKeeps(p, o) \/ SubjectKeeps(p, o)
  \/ ResourceKeeps(p, o) \/ ActionKeeps(p, o) \/ EnvironmentKeeps(p, o)
  \/ ResultKeeps(p, o) \/ StatusKeeps(p, o) \/ StatuscodeKeeps(p, o)
  \/ ObligationKeeps(p, o)

\* the object ends, and it is not the response
Ends(p, o) ==
  /\ call = "reading"
  /\ Len(stack) > 1
  /\ Top = [obj |-> o, at |-> "keys"]
  /\ stack[Len(stack) - 1].obj = p

\* the caller goes on with its list, or with its next key
Returned ==
  [Front(stack) EXCEPT ![Len(stack) - 1].at = IF @ \in Lists THEN @ ELSE "keys"]

\* Mutant of Leave: the caller ignores that its list could not take the object.
Leave_Ignores(p, o) ==
  /\ Ends(p, o)
  /\ Keeps(p, o) \/ UNCHANGED vars
  /\ stack' = Returned
  /\ UNCHANGED call

\* Mutant of Leave: the caller takes success for a failure.
Leave_Inverts(p, o) ==
  /\ Ends(p, o)
  /\ Keeps(p, o)
  /\ call' = "failing"
  /\ UNCHANGED stack

Leave(p, o) ==
  /\ Ends(p, o)
  /\ Keeps(p, o)
  /\ stack' = Returned
  /\ UNCHANGED call

\* the response is complete: *response is set
Return ==
  /\ call = "reading"
  /\ Len(stack) = 1
  /\ Top.at = "keys"
  /\ call' = "ok"
  /\ stack' = <<>>
  /\ UNCHANGED vars

\* a wrong type, class or key, a failed allocation, a list that cannot grow
Refuse ==
  /\ \/ call = "idle" /\ call' = "error"
     \/ call = "reading" /\ call' = "failing"
  /\ UNCHANGED <<vars, stack>>

\* Mutant of Unwind: a caller returns the error without deleting its object.
Unwind_Innermost ==
  /\ call = "failing"
  /\ Frees(Top.obj)
  /\ stack' = <<>>
  /\ call' = "error"

\* the function deletes the object it was filling, and its caller does the same
Unwind ==
  /\ call = "failing"
  /\ Frees(Top.obj)
  /\ stack' = Front(stack)
  /\ call' = IF Len(stack) = 1 THEN "error" ELSE "failing"

\* the application deletes the response, and asks again
Again ==
  /\ \/ call = "ok" /\ \E o \in Objects : Delete(o)
     \/ call = "error" /\ UNCHANGED vars
  /\ call' = "idle"
  /\ UNCHANGED stack

-----------------------------------------------------------------------------
ReadPair(o) ==
  \/ ResponseKeys(o) \/ RequestKeys(o) \/ SubjectKeys(o) \/ ResourceKeys(o)
  \/ ActionKeys(o) \/ EnvironmentKeys(o) \/ AttributeKeys(o) \/ ResultKeys(o)
  \/ StatusKeys(o) \/ StatuscodeKeys(o) \/ ObligationKeys(o) \/ AssignmentKeys(o)

UNext ==
  /\ fault = "none"
  /\ \/ \E o \in Objects : ReadPair(o) \/ Start(o) \/ Enter(o)
     \/ \E p, o \in Objects : Leave(p, o)
     \/ EndOfList \/ Return \/ Refuse \/ Unwind \/ Again
  /\ TextsBounded'

USpec == UInit /\ [][UNext]_allVars

-----------------------------------------------------------------------------
(* The calls that have not returned fill different objects, and each owns  *)
(* its own: no object is filled by two of them.                            *)
UTypeOK ==
  /\ call \in {"idle", "reading", "failing", "ok", "error"}
  /\ stack \in Seq(Frames)
  /\ (stack = <<>>) <=> call \in {"idle", "ok", "error"}
  /\ \A i, j \in 1..Len(stack) : stack[i].obj = stack[j].obj => i = j
  /\ call \in {"reading", "failing", "error"} => ours = {stack[i].obj : i \in 1..Len(stack)}

(***************************************************************************)
(* Unmarshalling is an application of the XACML objects like any other: it *)
(* gives away and deletes only what it owns, on every exit of its          *)
(* functions, so that all that holds of XacmlObjects holds of it.          *)
(***************************************************************************)
IsDisciplined == Spec

(***************************************************************************)
(* Whichever function refuses the message, however deep, nothing is left   *)
(* when xacml_response_unmarshalling returns the error.                    *)
(***************************************************************************)
ErrorLeavesNothing == call = "error" => Live = {}

(***************************************************************************)
(* A response that is returned owns all that was created for it: deleting  *)
(* it deletes everything.                                                  *)
(***************************************************************************)
ResponseOwnsAll ==
  call = "ok" => \E r \in ours : kind[r] = "response" /\ ours = {r} /\ Tree(r) = Live
=============================================================================
