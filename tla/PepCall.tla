------------------------------ MODULE PepCall ------------------------------
(***************************************************************************)
(* What one call of pep_authorize promises its caller, whatever happens    *)
(* inside: the enabled PIPs are processed in the order they were added,    *)
(* then one request is sent, then, with a response in hand, the enabled    *)
(* obligation handlers are processed in the order they were added.  The    *)
(* call returns OK exactly when all of that happened; otherwise the error  *)
(* code says which part failed, and a response is handed out only when     *)
(* the failing part is an obligation handler.                              *)
(***************************************************************************)
EXTENDS Naturals, Sequences

CONSTANTS
  PIPs, OHs,  \* the two kinds of plugins
  Send        \* sending the request, as an item of the plan

VARIABLES
  plan,       \* what this call has to do, in order
  ran,        \* what it has done
  rc,         \* return code of the last call, Pending during a call
  delivered   \* does the caller have a response it has not deleted yet?

vars == <<plan, ran, rc, delivered>>

Pending == "pending"
OK      == "OK"

\* error codes a call can return before, during and after the exchange
LocalErrors == {"MEMORY", "MARSHALLING_HESSIAN", "MARSHALLING_IO", "CURL"}
ExchangeErrors == {"CURL", "CURL_PERFORM", "AUTHZ_REQUEST",
                   "UNMARSHALLING_HESSIAN", "UNMARSHALLING_IO"}

IsPlan(s) ==
  \E k \in DOMAIN s :
    /\ s[k] = Send
    /\ \A j \in DOMAIN s : /\ j < k => s[j] \in PIPs
                           /\ j > k => s[j] \in OHs

\* ran is always a prefix of plan: these two say where in the plan it ends
LastRan == IF ran = <<>> THEN "nothing" ELSE ran[Len(ran)]
NextIs(S) == Len(ran) < Len(plan) /\ plan[Len(ran) + 1] \in S

Init ==
  /\ plan = <<>>
  /\ ran = <<>>
  /\ rc = OK
  /\ delivered = FALSE

Call ==
  /\ rc # Pending
  /\ ~delivered
  /\ IsPlan(plan')
  /\ ran' = <<>>
  /\ rc' = Pending
  /\ UNCHANGED delivered

\* no handle, no endpoint or no request
Refuse ==
  /\ rc # Pending
  /\ rc' = "NULL_POINTER"
  /\ plan' = <<>>
  /\ ran' = <<>>
  /\ UNCHANGED delivered

MayRunNext ==
  /\ rc = Pending
  /\ \/ NextIs(PIPs \cup {Send})
     \/ NextIs(OHs) /\ delivered

Run ==
  /\ MayRunNext
  /\ ran' = Append(ran, plan[Len(ran) + 1])
  /\ UNCHANGED <<plan, rc, delivered>>

Deliver ==
  /\ rc = Pending
  /\ LastRan = Send
  /\ ~delivered
  /\ delivered' = TRUE
  /\ UNCHANGED <<plan, ran, rc>>

\* the end of a call
Return(code) ==
  /\ rc = Pending
  /\ rc' = code
  /\ plan' = <<>>
  /\ ran' = <<>>
  /\ UNCHANGED delivered

\* the plugin called next reports an error
PluginFails ==
  /\ MayRunNext
  /\ \/ NextIs(PIPs) /\ Return("PIP_PROCESS")
     \/ NextIs(OHs)  /\ Return("OH_PROCESS")

FailsBeforeSending ==
  /\ NextIs({Send})
  /\ \E e \in LocalErrors : Return(e)

FailsAfterSending ==
  /\ LastRan = Send
  /\ ~delivered
  /\ \E e \in ExchangeErrors : Return(e)

Succeed ==
  /\ ran = plan
  /\ delivered
  /\ Return(OK)

\* the application deletes the response
Discard ==
  /\ rc # Pending
  /\ delivered' = FALSE
  /\ UNCHANGED <<plan, ran, rc>>

Next ==
  \/ Call \/ Refuse
  \/ Run \/ PluginFails \/ Deliver
  \/ FailsBeforeSending \/ FailsAfterSending \/ Succeed
  \/ Discard

Spec == Init /\ [][Next]_vars
=============================================================================
