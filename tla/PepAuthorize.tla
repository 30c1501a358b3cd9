---------------------------- MODULE PepAuthorize ----------------------------
(***************************************************************************)
(* pep_authorize (src/argus/pep.c) on top of the handle: one action per    *)
(* stage of the function, each with every outcome its calls can have, and  *)
(* the buffers, the request and the response it owns on the way.  It is    *)
(* the sole thread of its handle, so the operations of PepHandle and those *)
(* of the application happen between two calls.                            *)
(***************************************************************************)
EXTENDS PepHandle

CONSTANTS
  Requests,  \* xacml_request_t objects
  Send       \* marks curl_easy_perform in the history of a call

ASSUME SendAssumption == Send \notin Plugins
ASSUME RequestsAssumption == NULL \notin Requests

VARIABLES
  pc,          \* the stage of pep_authorize that runs next
  i,           \* the loop index of the plugin loops
  buf,         \* the BUFFER pointers: output, b64output, b64input, input
  readData,    \* is CURLOPT_READDATA this call's b64output, or a stale pointer?
  writeData,   \* is CURLOPT_WRITEDATA this call's b64input, or a stale pointer?
  fault,       \* has a freed or unset buffer been freed or used?
  request,     \* *request of the application
  requests,    \* the request objects allocated
  response,    \* has *response been set and not been deleted yet?
  respRequest, \* the request object the response owns
  plan, ran,   \* what the call has to do and has done (history)
  rc           \* what the last call returned, "pending" during one

transfer == <<readData, writeData>>
objects  == <<request, requests, response, respRequest>>
callVars == <<pc, i, buf, transfer, fault, objects, plan, ran, rc>>
vars     == <<handleVars, callVars>>

Buffers == {"output", "b64output", "b64input", "input"}
Stages  == {"idle", "pips", "output", "marshal", "b64output", "encode", "post",
            "b64input", "write", "input", "perform", "wait", "getinfo", "unmarshal", "effective", "ohs"}
Codes   == {"pending", "OK", "NULL_POINTER", "MEMORY", "CURL", "CURL_PERFORM",
            "AUTHZ_REQUEST", "PIP_PROCESS", "OH_PROCESS",
            "MARSHALLING_HESSIAN", "MARSHALLING_IO",
            "UNMARSHALLING_HESSIAN", "UNMARSHALLING_IO"}

TypeOK ==
  /\ HandleTypeOK
  /\ pc          \in Stages
  /\ i           \in Nat
  /\ buf         \in [Buffers -> {"unset", "live", "null", "freed"}]
  /\ readData    \in {"current", "stale"}
  /\ writeData   \in {"current", "stale"}
  /\ fault       \in BOOLEAN
  /\ request     \in Requests \cup {NULL}
  /\ requests    \subseteq Requests
  /\ response    \in BOOLEAN
  /\ respRequest \in Requests \cup {NULL}
  /\ plan        \in Seq(Plugins \cup {Send})
  /\ ran         \in Seq(Plugins \cup {Send})
  /\ rc          \in Codes

Init ==
  /\ HandleInit
  /\ pc = "idle"
  /\ i = 0
  /\ buf = [b \in Buffers |-> "unset"]
  /\ readData = "stale"
  /\ writeData = "stale"
  /\ fault = FALSE
  /\ request = NULL
  /\ requests = {}
  /\ response = FALSE
  /\ respRequest = NULL
  /\ plan = <<>>
  /\ ran = <<>>
  /\ rc = "OK"

-----------------------------------------------------------------------------
(* Helpers: the lists that are processed, and the two ways a stage ends.   *)

EnabledPlugins(f, list) == IF flag[f] THEN list ELSE <<>>

\* buffer_delete on each of bs is legal: it ignores NULL
MayDelete(bs) == \A b \in bs : buf[b] \in {"live", "null"}

\* The next stage of the same call.
Goto(stage) == pc' = stage /\ UNCHANGED <<rc, plan>>

\* The buffers bs are deleted and the call returns.  Its locals are gone, all
\* but the buffers nobody deleted, and libcurl's pointers to them are stale.
Return(code, bs) ==
  /\ pc' = "idle"
  /\ rc' = code
  /\ i' = 0
  /\ buf' = [b \in Buffers |-> IF buf[b] = "live" /\ b \notin bs THEN "live" ELSE "unset"]
  /\ readData' = "stale"
  /\ writeData' = "stale"
  /\ fault' = (fault \/ ~MayDelete(bs))
  /\ plan' = <<>>
  /\ ran' = <<>>

-----------------------------------------------------------------------------
(* The application between two calls.                                      *)

NewRequest ==
  /\ pc = "idle"
  /\ request = NULL
  /\ \E r \in Requests \ requests :
       request' = r /\ requests' = requests \cup {r}
  /\ UNCHANGED <<handleVars, pc, i, buf, transfer, fault,
                 response, respRequest, plan, ran, rc>>

\* xacml_response_delete, which deletes the request the response owns
DeleteResponse ==
  /\ pc = "idle"
  /\ response
  /\ response' = FALSE
  /\ requests' = requests \ {respRequest}
  /\ respRequest' = NULL
  /\ UNCHANGED <<handleVars, pc, i, buf, transfer, fault, request, plan, ran, rc>>

DeleteRequest ==
  /\ pc = "idle"
  /\ request # NULL
  /\ request' = NULL
  /\ requests' = requests \ {request}
  /\ UNCHANGED <<handleVars, pc, i, buf, transfer, fault,
                 response, respRequest, plan, ran, rc>>

HandleOperation ==
  /\ pc = "idle"
  /\ HandleNext
  /\ UNCHANGED callVars

-----------------------------------------------------------------------------
(* pep_authorize                                                           *)

Refused ==
  /\ pc = "idle"
  /\ handle = "live"
  /\ option[EndpointUrl] = NULL \/ request = NULL
  /\ Return("NULL_POINTER", {})
  /\ UNCHANGED <<handleVars, objects>>

Begin ==
  /\ pc' = "pips"
  /\ rc' = "pending"
  /\ i' = 1
  /\ plan' = EnabledPlugins("PIPS", pips) \o <<Send>> \o EnabledPlugins("OHS", ohs)
  /\ UNCHANGED <<handleVars, objects, buf, transfer, fault, ran>>

\* Mutant of Enter: the endpoint URL is not looked at.
Enter_AnyEndpoint ==
  /\ pc = "idle" /\ handle = "live" /\ request # NULL /\ ~response
  /\ Begin

\* The application passes the address of a response pointer through which it
\* does not own anything any more.
Enter ==
  /\ pc = "idle"
  /\ handle = "live"
  /\ option[EndpointUrl] # NULL
  /\ request # NULL
  /\ ~response
  /\ Begin

\* A plugin may change the request in place or put another one in its place.
MayReplaceRequest ==
  /\ \/ UNCHANGED <<request, requests>>
     \/ \E r \in Requests \ requests :
          /\ request' = r
          /\ requests' = (requests \ {request}) \cup {r}
  /\ UNCHANGED <<response, respRequest>>

CallPip ==
  /\ pc = "pips"
  /\ i <= Len(EnabledPlugins("PIPS", pips))
  /\ MayReplaceRequest
  /\ \/ /\ Goto("pips")
        /\ i' = i + 1
        /\ ran' = Append(ran, pips[i])
        /\ UNCHANGED <<buf, transfer, fault>>
     \/ Return("PIP_PROCESS", {})
  /\ UNCHANGED handleVars

PipsDone ==
  /\ pc = "pips"
  /\ i > Len(EnabledPlugins("PIPS", pips))
  /\ Goto("output")
  /\ UNCHANGED <<handleVars, objects, i, buf, transfer, fault, ran>>

\* a buffer_create whose failure frees bs and returns PEP_ERR_MEMORY
CreateBuffer(b, bs, stage) ==
  /\ \/ /\ buf' = [buf EXCEPT ![b] = "live"]
        /\ Goto(stage)
        /\ UNCHANGED <<i, transfer, fault, ran>>
     \/ Return("MEMORY", bs)
  /\ UNCHANGED <<handleVars, objects>>

CreateOutput    == pc = "output"    /\ CreateBuffer("output", {}, "marshal")
CreateB64Output == pc = "b64output" /\ CreateBuffer("b64output", {"output"}, "encode")
CreateB64Input  == pc = "b64input"  /\ CreateBuffer("b64input", {"b64output"}, "write")

Marshal ==
  /\ pc = "marshal"
  /\ \/ /\ Goto("b64output")
        /\ UNCHANGED <<i, buf, transfer, fault, ran>>
     \/ \E e \in {"MARSHALLING_HESSIAN", "MARSHALLING_IO"} : Return(e, {"output"})
  /\ UNCHANGED <<handleVars, objects>>

\* The result of base64_encode_l is not looked at: b64output, created with
\* the size of output, has to grow, and what follows a failed growth is
\* appended to a buffer that lost its beginning: damaged or not, it is sent,
\* and the answer may be anything.  output is deleted.
Encode ==
  /\ pc = "encode"
  /\ buf' = [buf EXCEPT !["output"] = "freed"]
  /\ fault' = (fault \/ ~MayDelete({"output"}))
  /\ Goto("post")
  /\ UNCHANGED <<handleVars, objects, i, transfer, ran>>

\* CURLOPT_POST, POSTFIELDSIZE, READDATA, READFUNCTION: any may be refused
Post ==
  /\ pc = "post"
  /\ \/ /\ readData' = "current"
        /\ Goto("b64input")
        /\ UNCHANGED <<i, buf, writeData, fault, ran>>
     \/ Return("CURL", {"b64output"})
  /\ UNCHANGED <<handleVars, objects>>

\* Mutant of Write: the buffer created last is forgotten when libcurl refuses.
Write_KeepsInput ==
  /\ pc = "write"
  /\ \/ /\ writeData' = "current"
        /\ Goto("input")
        /\ UNCHANGED <<i, buf, readData, fault, ran>>
     \/ Return("CURL", {"b64output"})
  /\ UNCHANGED <<handleVars, objects>>

\* CURLOPT_WRITEDATA, WRITEFUNCTION
Write ==
  /\ pc = "write"
  /\ \/ /\ writeData' = "current"
        /\ Goto("input")
        /\ UNCHANGED <<i, buf, readData, fault, ran>>
     \/ Return("CURL", {"b64output", "b64input"})
  /\ UNCHANGED <<handleVars, objects>>

\* input= buffer_create(1024), after which the code tests output, not input:
\* output was deleted, its pointer is not NULL, and the call goes on.
CreateInput ==
  /\ pc = "input"
  /\ IF buf["output"] = "null"
       THEN Return("MEMORY", {"b64output", "b64input"})
       ELSE /\ \E created \in {"live", "null"} : buf' = [buf EXCEPT !["input"] = created]
            /\ Goto("perform")
            /\ UNCHANGED <<i, transfer, fault, ran>>
  /\ UNCHANGED <<handleVars, objects>>

\* curl_easy_perform: libcurl reads b64output and the URL it was given ...
Perform ==
  /\ pc = "perform"
  /\ ran' = Append(ran, Send)
  /\ fault' = (fault \/ readData # "current" \/ buf["b64output"] # "live")
  /\ Goto("wait")
  /\ UNCHANGED <<handleVars, objects, i, buf, transfer>>

\* ... and writes the answer to b64input
Answered ==
  /\ pc = "wait"
  /\ fault' = (fault \/ writeData # "current" \/ buf["b64input"] # "live")
  /\ Goto("getinfo")
  /\ UNCHANGED <<handleVars, objects, i, buf, transfer, ran>>

PerformFails ==
  /\ pc = "wait"
  /\ Return("CURL_PERFORM", {"b64output", "b64input", "input"})
  /\ UNCHANGED <<handleVars, objects>>

\* CURLOPT_TIMEOUT: libcurl gives up after timeout seconds, never if it is 0
TimesOut == timeout > 0 /\ PerformFails

GetInfo ==
  /\ pc = "getinfo"
  /\ \/ Goto("unmarshal") /\ UNCHANGED <<i, buf, transfer, fault, ran>>
     \/ \E e \in {"CURL", "AUTHZ_REQUEST"} : Return(e, {"b64output", "b64input", "input"})
  /\ UNCHANGED <<handleVars, objects>>

\* Mutant of UnmarshalFails: *response is set before the last error exit.
UnmarshalFails_SetsResponse ==
  /\ pc = "unmarshal"
  /\ response' = TRUE
  /\ Return("UNMARSHALLING_HESSIAN", {"b64output", "b64input", "input"})
  /\ UNCHANGED <<handleVars, request, requests, respRequest>>

\* base64_decode and xacml_response_unmarshalling: *response is set last.
\* There is nothing to unmarshal in an input that could not be created.
UnmarshalFails ==
  /\ pc = "unmarshal"
  /\ \E e \in {"UNMARSHALLING_IO", "UNMARSHALLING_HESSIAN"} :
       /\ e = "UNMARSHALLING_HESSIAN" => buf["input"] = "live"
       /\ Return(e, {"b64output", "b64input", "input"})
  /\ UNCHANGED <<handleVars, objects>>

Unmarshal ==
  /\ pc = "unmarshal"
  /\ buf["input"] = "live"
  /\ response' = TRUE
  /\ respRequest' \in {NULL} \cup (Requests \ requests)
  /\ requests' = requests \cup ({respRequest'} \ {NULL})
  /\ buf' = [buf EXCEPT !["b64output"] = "freed"]
  /\ fault' = (fault \/ ~MayDelete({"b64output"}))
  /\ Goto("effective")
  /\ UNCHANGED <<handleVars, i, transfer, request, ran>>

\* Mutant of EffectiveRequest: the response keeps the request it gives away.
EffectiveRequest_NotRelinquished ==
  /\ pc = "effective"
  /\ IF respRequest = NULL
       THEN UNCHANGED objects
       ELSE /\ request' = respRequest
            /\ requests' = requests \ {request}
            /\ UNCHANGED <<response, respRequest>>
  /\ i' = 1
  /\ Goto("ohs")
  /\ UNCHANGED <<handleVars, buf, transfer, fault, ran>>

\* Mutant of EffectiveRequest: the index goes on from where the PIPs left it.
EffectiveRequest_KeepsIndex ==
  /\ pc = "effective"
  /\ IF respRequest = NULL
       THEN UNCHANGED objects
       ELSE /\ request' = respRequest
            /\ requests' = requests \ {request}
            /\ respRequest' = NULL
            /\ UNCHANGED response
  /\ Goto("ohs")
  /\ UNCHANGED <<handleVars, i, buf, transfer, fault, ran>>

\* xacml_response_relinquishrequest: the effective request changes owner
EffectiveRequest ==
  /\ pc = "effective"
  /\ IF respRequest = NULL
       THEN UNCHANGED objects
       ELSE /\ request' = respRequest
            /\ requests' = requests \ {request}
            /\ respRequest' = NULL
            /\ UNCHANGED response
  /\ i' = 1
  /\ Goto("ohs")
  /\ UNCHANGED <<handleVars, buf, transfer, fault, ran>>

CallOh ==
  /\ pc = "ohs"
  /\ i <= Len(EnabledPlugins("OHS", ohs))
  /\ MayReplaceRequest
  /\ \/ /\ Goto("ohs")
        /\ i' = i + 1
        /\ ran' = Append(ran, ohs[i])
        /\ UNCHANGED <<buf, transfer, fault>>
     \/ Return("OH_PROCESS", {"b64input", "input"})
  /\ UNCHANGED handleVars

\* Mutant of Leave: every buffer is deleted, the one deleted early too.
Leave_DeletesAll ==
  /\ pc = "ohs"
  /\ i > Len(EnabledPlugins("OHS", ohs))
  /\ Return("OK", {"b64output", "b64input", "input"})
  /\ UNCHANGED <<handleVars, objects>>

Leave ==
  /\ pc = "ohs"
  /\ i > Len(EnabledPlugins("OHS", ohs))
  /\ Return("OK", {"b64input", "input"})
  /\ UNCHANGED <<handleVars, objects>>

-----------------------------------------------------------------------------
\* the steps the library takes by itself
Compute ==
  \/ CallPip \/ PipsDone
  \/ CreateOutput \/ Marshal \/ CreateB64Output \/ Encode
  \/ Post \/ CreateB64Input \/ Write \/ CreateInput
  \/ Perform \/ GetInfo \/ UnmarshalFails \/ Unmarshal
  \/ EffectiveRequest \/ CallOh \/ Leave

Application == NewRequest \/ DeleteResponse \/ DeleteRequest \/ HandleOperation

Next ==
  \/ Application
  \/ Refused \/ Enter
  \/ Compute
  \/ Answered \/ PerformFails

(***************************************************************************)
(* The thread that called goes on (plugins are assumed to return), and     *)
(* libcurl enforces its timeout.  Nothing is assumed of the PEP daemon.    *)
(***************************************************************************)
Fairness == WF_vars(Compute) /\ WF_vars(TimesOut)

Spec == Init /\ [][Next]_vars /\ Fairness

-----------------------------------------------------------------------------
(* Whichever exit of pep_authorize a call takes, the buffers it created    *)
(* have been deleted when it returns.                                      *)
BuffersReleased == pc = "idle" => \A b \in Buffers : buf[b] # "live"

(* No buffer is deleted twice, none is deleted before it was created, and  *)
(* libcurl, which keeps READDATA and WRITEDATA from one call to the next,  *)
(* only ever works on buffers of the call that runs it.                    *)
NoFault == ~fault

(* A caller can tell from the return code whether there is a response to   *)
(* delete: there is one after OK and after an obligation handler's error   *)
(* (until it is deleted), and none after any other error.                  *)
ResponseMatchesCode ==
  pc = "idle" /\ response => rc \in {"OK", "OH_PROCESS", "NULL_POINTER"}

(* Each request object has one owner, and each object that is allocated    *)
(* has one: the application or the response, never both, even when PIPs,   *)
(* the answer or handlers exchange the application's request, and when the *)
(* call fails half-way.                                                    *)
RequestsOwnedOnce ==
  /\ requests = {request, respRequest} \ {NULL}
  /\ request = respRequest => request = NULL

(* A request only ever goes to the endpoint last set: libcurl's URL is the *)
(* handle's own copy, alive, or none at all when libcurl failed to copy.   *)
EndpointIsCurrent ==
  pc = "perform" =>
    /\ option[EndpointUrl] # NULL
    /\ \/ curl[EndpointUrl] = option[EndpointUrl]
       \/ CurlCopies /\ curl[EndpointUrl] = NULL

(* The call keeps the promise of PepCall: PIPs, exchange and handlers in   *)
(* order and once each, OK exactly when all of it was done.                *)
Call == INSTANCE PepCall WITH delivered <- response
CallImplemented == Call!Spec

(* A call returns, even when the daemon never answers.                     *)
CallReturns == pc # "idle" ~> pc = "idle"
=============================================================================
