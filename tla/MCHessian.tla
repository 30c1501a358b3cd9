------------------------------ MODULE MCHessian ------------------------------
(* Small requests and answers for HessianExchange. *)
EXTENDS HessianExchange

\* characters of one to four bytes; the third is one whose first byte is missed
Letter == <<83>>
Characters == {Letter, <<195, 169>>, <<208, 176>>, <<226, 130, 172>>, <<240, 159, 152, 128>>}
\* they take more bytes than utf8_bgets expects of two characters
TwoChars == <<83, 195, 169>>
Texts2 == {<<>>} \cup Characters \cup {a \o b : a, b \in Characters}
Texts3 == {a \o b \o <<195, 169>> : a, b \in Characters}

TextAnswers == {List(<<>>, <<String(t), Integer(1)>>) : t \in Texts2 \cup Texts3}
                 \cup {Map(t, <<String(Letter), Xml(t)>>) : t \in Characters \cup {TwoChars}}

Elements == {Null, Ref(0), Ref(1), Ref(2)}
RefAnswers == {List(<<>>, s) : s \in UNION {[1 .. n -> Elements] : n \in 0 .. 3}}
                \cup {Map(<<>>, <<String(Letter), v, Ref(0), w>>) : v, w \in Elements}
                \cup {Map(<<>>, <<Null, Integer(1), Null, Ref(0), Null, Ref(1)>>)}

OtherAnswers == {
  List(Letter, <<Boolean(1), Boolean(0), Wide("long", <<0, 0, 0, 0, 0, 0, 1, 0>>),
                 Wide("double", <<64, 0, 0, 0, 0, 0, 0, 0>>), Remote(Letter, Letter), Integer(70000)>>),
  List(<<>>, <<Binary(<<1, 0, 2>>), Wide("date", <<0, 0, 0, 0, 0, 0, 1, 0>>), Null>>),
  Null, Integer(1), Integer(-2), String(Letter), Remote(Letter, Letter), Remote(TwoChars, TwoChars)}

Result(d, o) == Map(Name("result"),
  <<Key("decision"), Integer(d), Key("obligations"), List(<<>>, o)>>)
\* the last decision of a result is the one that counts
TwoDecisions == Map(Name("result"), <<Key("decision"), Integer(1), Key("decision"), Integer(0)>>)
Obligation == Map(Name("obligation"), <<Key("id"), String(Letter)>>)
Response(rs) == Map(Name("response"), <<Key("request"), Null, Key("results"), List(<<>>, rs)>>)
ResponseAnswers == {Response(<<Result(1, <<Obligation>>)>>), Response(<<Result(0, <<>>), Result(3, <<>>)>>), TwoDecisions}

MCAnswers ==
  {Flat(a) : a \in TextAnswers \cup RefAnswers \cup OtherAnswers \cup ResponseAnswers}

AnAttribute(id, datatype, issuer, values) ==
  [kind |-> "attribute", id |-> id, datatype |-> datatype, issuer |-> issuer, values |-> values]
A1 == AnAttribute(Letter, <<195, 169>>, NULL, <<Letter, <<226, 130, 172>>>>)
A2 == AnAttribute(Letter, NULL, Letter, <<>>)
Nameless == AnAttribute(NULL, NULL, NULL, <<Letter>>)
ASubject(c, as)  == [kind |-> "subject", category |-> c, attributes |-> as]
AResource(c, as) == [kind |-> "resource", content |-> c, attributes |-> as]
AnAction(as)     == [kind |-> "action", attributes |-> as]
Env(as)          == [kind |-> "environment", attributes |-> as]
ARequest(s, r, a, e) ==
  [kind |-> "request", subjects |-> s, resources |-> r, action |-> a, environment |-> e]

\* of a buffer that has lost its memory: nothing, or a byte that nobody wrote
MCGarbage == {<<>>, <<7>>}

MCRequests == {
  ARequest(<<>>, <<>>, NULL, NULL),
  ARequest(<<ASubject(Letter, <<A1, A2>>), ASubject(NULL, <<>>)>>,
           <<AResource(Letter, <<A1>>), AResource(NULL, <<A2>>)>>, AnAction(<<A1>>), NULL),
  ARequest(<<ASubject(NULL, <<A2>>)>>, <<>>, AnAction(<<>>), Env(<<A1>>)),
  ARequest(<<>>, <<AResource(NULL, <<A2, Nameless>>)>>, NULL, NULL)}
=============================================================================
