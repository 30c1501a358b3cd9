-------------------------- MODULE MCProfileAdapters --------------------------
(* Small requests and answers for ProfileAdapters. *)
EXTENDS ProfileAdapters

Has(id, v) == Attribute(id, v)
ARequest(subjects, environment) == [subjects |-> subjects, environment |-> environment]
MCRequests == {
  ARequest(<<<<Has(Chain, "chain"), Has(<<"subject", "vo">>, "vo"), Has(VomsFqan \o <<"v2">>, "fqan")>>,
             <<Has(VomsPrimaryFqan, "primary")>>>>, NULL),
  ARequest(<<<<Has(VomsFqan, "fqan")>>>>, <<Has(ProfileId, "mine")>>),
  ARequest(<<<<Has(Chain, "chain"), Has(NULL, "x")>>>>, <<>>),
  ARequest(<<>>, <<Has(<<"attribute">>, "x"), Has(NULL, "y")>>)}

MCPasswd == [alice |-> [uid |-> "501", gid |-> "100"], bob |-> [uid |-> "502", gid |-> "100"]]
MCGroup  == [atlas |-> "200", cms |-> "300"]

User(u) == Assignment(UserId, u)
In(g) == Assignment(GroupId, g)
Mapping(as) == Obligation(Posix, as)
Result(d, obligations) == [decision |-> d, obligations |-> obligations]

MCResponses == {
  <<>>,
  <<Result("deny", <<Mapping(<<User("bob")>>)>>),
    Result(PERMIT, <<Obligation(<<"other">>, <<>>), Mapping(<<User("alice"), In("atlas")>>)>>)>>,
  <<Result(PERMIT, <<Mapping(<<User("bob"), Assignment(GroupIdPrimary, "cms"), User("alice"),
                               In("atlas"), In("cms")>>)>>)>>,
  <<Result(PERMIT, <<Mapping(<<In("atlas"), In("dteam")>>), Mapping(<<In("cms")>>)>>)>>,
  <<Result(PERMIT, <<Mapping(<<User("eve"), Assignment(GroupIdPrimary, "dteam"), In(NULL)>>),
                     Mapping(<<User("bob"), Assignment(GroupIdPrimary, NULL)>>)>>)>>,
  <<Result(PERMIT, <<Mapping(<<In("atlas"), In("cms"), In("atlas")>>)>>)>>,
  <<Result(PERMIT, <<Mapping(<<Assignment(NULL, "x")>>), Obligation(NULL, <<>>)>>)>>,
  <<Result(PERMIT, <<Obligation(NULL, <<>>)>>)>>}
=============================================================================
