--------------------------- MODULE HessianExchange ---------------------------
(***************************************************************************)
(* Requests are marshalled, serialized and read by the daemon, which is    *)
(* external and taken to read as this code does (the tests of the          *)
(* repository do the same); its answers come back whole, or cut where the  *)
(* connection was lost, and are read.                                      *)
(***************************************************************************)
EXTENDS HessianReading, RequestMarshalling

vars == <<dvars, mvars>>

Init == DInit /\ MInit

-----------------------------------------------------------------------------
\* the Hessian object that was built, as a document
RECURSIVE Built(_)
Built(o) ==
  CASE o.type = "null"   -> Null
    [] o.type = "string" -> String(o.text)
    [] o.type = "list"   -> List(<<>>, [k \in DOMAIN o.parts |-> Built(o.parts[k])])
    [] o.type = "map"    -> Map(Name(o.class), FlattenSeq(
         [k \in DOMAIN o.parts |-> <<Key(o.parts[k][1]), Built(o.parts[k][2])>>]))

\* the nodes of a tree in the order in which they are written, from number n on
RECURSIVE Numbered(_, _)
Numbered(tree, n) ==
  LET nodes[k \in 0 .. Len(tree.parts)] ==
        IF k = 0 THEN <<>>
        ELSE LET before == nodes[k - 1] IN before \o Numbered(tree.parts[k], n + 1 + Len(before))
  IN  <<[tree EXCEPT !.parts = [k \in DOMAIN @ |-> n + 1 + Len(nodes[k - 1])]]>>
        \o nodes[Len(tree.parts)]
Flat(tree) == Numbered(tree, 1)

-----------------------------------------------------------------------------
\* xacml_request_marshalling
Marshal == mode = "idle" /\ MNext /\ UNCHANGED dvars

\* The daemon reads the request; the client has forgotten how it made it.
SendRequest ==
  /\ phase = "sent" /\ fault = "none"
  /\ LET d == Flat(Built(sent)) IN Receive(d, Len(Serialized(d)))
  /\ phase' = "idle" /\ request' = NULL /\ sent' = NULL
  /\ hollow' = FALSE /\ leaks' = {} /\ starved' = FALSE
  /\ UNCHANGED <<stack, fault>>

\* The answer comes, all of it or the first bytes.
Answer == phase = "idle" /\ AnswerComes /\ UNCHANGED mvars

Decode == DStep /\ UNCHANGED mvars

NextCall == Forget /\ UNCHANGED mvars

Next == Marshal \/ SendRequest \/ Answer \/ Decode \/ NextCall

Fairness == WF_vars(Decode)
Spec == Init /\ [][Next]_vars /\ Fairness

-----------------------------------------------------------------------------
(***************************************************************************)
(* The reading of a message ends, also where it is cut: at the end of the  *)
(* input every list and map is closed.  Only a binary that ends inside its *)
(* length keeps it busy.                                                   *)
(***************************************************************************)
DecodeEnds ==
  mode = "reading" ~> \/ mode \notin {"reading", "failing", "hung"} \/ misuse # "none"
                      \/ mode = "hung" /\ cut /\ \E o \in DOMAIN message : message[o].type = "binary"

=============================================================================
