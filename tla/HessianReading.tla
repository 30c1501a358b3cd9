--------------------------- MODULE HessianReading ---------------------------
(***************************************************************************)
(* Documents that are written by HessianWriting and read by                *)
(* HessianDecoding: what was read says what was sent.  A message comes     *)
(* whole, or is cut where the connection was lost.                         *)
(***************************************************************************)
EXTENDS HessianWriting, HessianDecoding

-----------------------------------------------------------------------------
(* Documents.                                                              *)

\* UTF-8 without NUL: as many continuation bytes as the first one asks for
IsText(t) ==
  /\ t \in Seq(1 .. 255)
  /\ t # <<>> => ~Continuation(t[1])
  /\ \A k \in DOMAIN t : ~Continuation(t[k]) =>
       LET next == k + Width(t[k])
       IN  /\ next <= Len(t) + 1
           /\ \A j \in k + 1 .. next - 1 : Continuation(t[j])
           /\ next <= Len(t) => ~Continuation(t[next])

\* a text that is written without chunks
IsName(t) == IsText(t) /\ Chars(t) <= 65535

MaxInt == 2147483647
Int32 == -MaxInt - 1 .. MaxInt

\* the fields of a node are those of its class
IsNode(x, Later) ==
  /\ x = Node(x.type, x.value, x.text, x.class, x.parts)
  /\ x.type \in Types
  /\ x.value \in CASE x.type \in {"integer", "ref"} -> Int32
                   [] x.type = "boolean" -> {0, 1}
                   [] OTHER -> {0}
  /\ CASE x.type \in {"long", "double", "date"} -> x.text \in Seq(0 .. 255) /\ Len(x.text) = 8
       [] x.type \in {"string", "xml"} -> IsText(x.text)
       [] x.type = "binary" -> x.text \in Seq(0 .. 255)
       [] x.type = "remote" -> IsName(x.text)
       [] OTHER -> x.text = <<>>
  /\ IF x.type \in {"list", "map", "remote"} THEN IsName(x.class) ELSE x.class = <<>>
  /\ IF x.type \in {"list", "map"} THEN x.parts \in Seq(Later) /\ Len(x.parts) <= MaxInt
     ELSE x.parts = <<>>
  /\ x.type = "map" => Len(x.parts) % 2 = 0

\* the last node that is in node o, or o itself
LastOf(d, o) ==
  LET last[x \in DOMAIN d] == IF d[x].parts = <<>> THEN x ELSE last[Last(d[x].parts)]
  IN  last[o]

\* the parts of a node follow it, each after all that is in the one before
IsDocument(d) ==
  /\ d # <<>>
  /\ \A o \in DOMAIN d : IsNode(d[o], o + 1 .. Len(d))
  /\ LastOf(d, 1) = Len(d)
  /\ \A o \in DOMAIN d : LET ps == d[o].parts IN
       \A k \in DOMAIN ps : ps[k] = IF k = 1 THEN o + 1 ELSE LastOf(d, ps[k - 1]) + 1

-----------------------------------------------------------------------------
CONSTANT Answers   \* the documents the daemon answers with

ASSUME AnswersAssumption == \A d \in Answers : d \in Seq({d[o] : o \in DOMAIN d}) /\ IsDocument(d)

\* the bytes of document d come, n of them
Receive(d, n) ==
  LET bytes == Serialized(d)
  IN  Arrives /\ message' = d /\ cut' = (n < Len(bytes)) /\ input' = SubSeq(bytes, 1, n)

\* The answer comes, all of it or the first bytes.
AnswerComes == mode = "idle" /\ \E d \in Answers : \E n \in 0 .. Len(Serialized(d)) : Receive(d, n)

\* reading alone
RNext == AnswerComes \/ DStep \/ Forget
RSpec == DInit /\ [][RNext]_dvars

-----------------------------------------------------------------------------
(* What the properties say of documents.                                   *)

\* the first bytes that utf8_bgets takes for characters of one byte
Missed == 208 .. 223
Readable(d) ==
  \A o \in DOMAIN d : \A t \in {d[o].text, d[o].class} : \A k \in DOMAIN t : t[k] \notin Missed

HasRefs(d) == \E o \in DOMAIN d : d[o].type = "ref"

\* the place of the part that part k of node o names, if it is a reference
Names(d, o, k) ==
  LET value == d[d[o].parts[k]].value
  IN  IF d[o].type = "list" THEN value + 1 ELSE 2 * (value + 1)

\* the keys of a map are not looked at
IsReplaced(d, o, k) ==
  /\ d[d[o].parts[k]].type = "ref"
  /\ d[o].type = "map" => k % 2 = 0 /\ Names(d, o, k) \in DOMAIN d[o].parts

\* references name parts that are there and are no references, in a map at
\* least none that has yet to be replaced
RefsAreSound(d) ==
  \A o \in DOMAIN d : LET ps == d[o].parts IN
    \A k \in DOMAIN ps : IsReplaced(d, o, k) =>
      LET t == Names(d, o, k)
      IN  t \in DOMAIN ps /\ (d[ps[t]].type = "ref" => d[o].type = "map" /\ t < k)

\* the parts of node o, references replaced by what they name
MeantParts(d, o) ==
  LET ps == d[o].parts
      meant[k \in DOMAIN ps] ==
        IF ~IsReplaced(d, o, k) THEN ps[k]
        ELSE LET t == Names(d, o, k)
             IN  IF d[o].type = "map" /\ t < k THEN meant[t] ELSE ps[t]
  IN  meant
Meant(d) == [o \in DOMAIN d |-> [d[o] EXCEPT !.parts = MeantParts(d, o)]]

\* what the objects that were read say
ReadBack ==
  [o \in DOMAIN heap |->
     Node(heap[o].type, heap[o].value, heap[o].text, heap[o].class, heap[o].parts)]

\* x, the last node that was read, begins like y: a number some of whose bytes
\* are missing is a multiple of 256, and negative if it was not
Begun(x, y) ==
  \/ x.value = y.value /\ x.text = y.text /\ x.class = y.class
  \/ y.type \in {"integer", "ref"} /\ x.value % 256 = 0 /\ (y.value >= 0 => x.value < 0)
  \/ y.type = "binary" /\ x.value = y.value /\ Len(x.text) <= Len(y.text)
  \/ /\ y.type \notin {"integer", "ref", "binary"}
     /\ x.value = y.value /\ IsPrefix(x.text, y.text) /\ IsPrefix(x.class, y.class)

\* d reads like e up to some node
Begins(d, e) ==
  /\ Len(d) <= Len(e)
  /\ \A o \in DOMAIN d :
       /\ d[o].type = e[o].type
       /\ IsPrefix(d[o].parts, e[o].parts)
       /\ \A k \in DOMAIN e[o].parts : k > Len(d[o].parts) => e[o].parts[k] > Len(d)
       /\ IF o = Len(d) THEN Begun(d[o], e[o])
          ELSE d[o].value = e[o].value /\ d[o].text = e[o].text /\ d[o].class = e[o].class

\* the names of classes and keys, XACML_HESSIAN_..., in a byte
Name(s) ==
  CASE s = "request" -> <<81>>     [] s = "subject" -> <<85>>     [] s = "resource" -> <<79>>
    [] s = "action" -> <<65>>      [] s = "environment" -> <<69>> [] s = "attribute" -> <<80>>
    [] s = "id" -> <<105>>         [] s = "datatype" -> <<100>>   [] s = "issuer" -> <<117>>
    [] s = "values" -> <<118>>     [] s = "category" -> <<99>>    [] s = "content" -> <<111>>
    [] s = "attributes" -> <<97>>  [] s = "subjects" -> <<106>>   [] s = "resources" -> <<113>>
    [] s = "response" -> <<87>>    [] s = "results" -> <<108>>    [] s = "result" -> <<82>>
    [] s = "decision" -> <<68>>    [] s = "obligations" -> <<66>> [] s = "obligation" -> <<76>>
Key(s) == String(Name(s))

\* the decision that xacml_result_unmarshal reads from a map, DENY without one
Decisions == 0 .. 3
PERMIT == 1
\* where the decisions of map o are
DecisionsOf(d, o) ==
  {k \in DOMAIN d[o].parts : k % 2 = 0 /\ d[d[o].parts[k - 1]] = Key("decision")}
DecisionOf(d, o) ==
  IF DecisionsOf(d, o) = {} THEN 0 ELSE d[d[o].parts[Max(DecisionsOf(d, o))]].value
IsResult(x) == x.type = "map" /\ x.class = Name("result")
Permits(d) == \E o \in DOMAIN d : IsResult(d[o]) /\ DecisionOf(d, o) = PERMIT

\* no result has two decisions, of which the last one counts
DecidesOnce(d) ==
  \A o \in DOMAIN d : \A j, k \in DecisionsOf(d, o) : IsResult(d[o]) => j = k

Decoded == mode = "done" /\ misuse = "none"

-----------------------------------------------------------------------------
(***************************************************************************)
(* As long as no allocation has failed: a message that is all there, with  *)
(* sound references and no character that is missed, is read as the        *)
(* document it was written from, node by node and chunk by chunk, and the  *)
(* reading does not fail.  A reference is found unsound only where it was  *)
(* written so, or where the message is cut before what it names.           *)
(***************************************************************************)
DecodedIsSent ==
  mode # "idle" /\ ~short /\ Readable(message) /\ RefsAreSound(message) =>
    /\ loose => cut /\ HasRefs(message)
    /\ ~cut =>
         /\ mode \notin {"failing", "failed", "hung"} /\ misuse = "none"
         /\ Decoded => result = 1 /\ ReadBack = Meant(message)

(***************************************************************************)
(* With memory for all of it, what is read from the first bytes of a       *)
(* message is a beginning of it: no part appears that was not sent, only   *)
(* the last one may say something else, and no decision becomes a permit.  *)
(***************************************************************************)
TruncationNeverPermits ==
  Decoded /\ ~short /\ cut /\ Readable(message) /\ ~HasRefs(message) =>
    /\ Begins(ReadBack, message)
    /\ Permits(ReadBack) /\ DecidesOnce(message) => Permits(message)

(***************************************************************************)
(* "Returns a char array ('\0' terminated) containing utf8_l UTF-8 chars"  *)
(* (string.c:253): whatever a text consists of, it is read as it was       *)
(* written.                                                                *)
(***************************************************************************)
TextsComeBack ==
  ~short /\ ~cut /\ mode # "idle" /\ ~HasRefs(message) =>
    mode \notin {"failing", "failed"} /\ misuse = "none" /\ (Decoded => ReadBack = message)

=============================================================================
