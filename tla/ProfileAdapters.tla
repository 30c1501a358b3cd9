--------------------------- MODULE ProfileAdapters ---------------------------
(***************************************************************************)
(* The profile adapters (src/argus/profiles.c): the policy information     *)
(* point adds Grid WN attributes to a request before it is sent, and the   *)
(* obligation handler adds POSIX accounts to the answer.  The application  *)
(* may ask again with the request that the adapter has changed.  The two   *)
(* share no state, the handler does not look at the request: a client has  *)
(* one of them here.                                                       *)
(*                                                                         *)
(* An identifier is a sequence of segments: strncmp() compares prefixes.   *)
(* Any allocation may fail; most results are not looked at.                *)
(***************************************************************************)
EXTENDS Naturals, Sequences

CONSTANTS
  NULL,
  Requests,    \* the requests: the attributes of each subject, of the environment
  Responses,   \* the answers: sequences of results
  Passwd,      \* the accounts that getpwnam_r knows: name -> [uid, gid]
  Group,       \* the groups that getgrnam_r knows: name -> gid
  NGroupsMax,  \* NGROUPS_MAX
  MaxCalls     \* bound of the model: calls of the adapter

Ids   == Seq(STRING) \cup {NULL}
Texts == STRING \cup {NULL}
AttributeType  == [id : Ids, values : Texts]
AssignmentType == [id : Ids, value : Texts]
ObligationType == [id : Ids, assignments : Seq(AssignmentType)]
RequestType    == [subjects : Seq(Seq(AttributeType)), environment : Seq(AttributeType) \cup {NULL}]
ResponseType   == Seq([decision : STRING, obligations : Seq(ObligationType)])

\* (a fact about strings that proofs have to cite)
ASSUME StringAssumption ==
  {"key-info", "attribute", "fqan", "primary", "profile-id", "version", "obligation",
   "username", "uidgid", "secondary-gids", "posix-uid", "posix-gid"} \subseteq STRING
ASSUME NullAssumption == NULL \notin STRING \cup Seq(STRING) \cup Seq(AttributeType)
ASSUME RequestAssumption == Requests \subseteq RequestType
ASSUME ResponseAssumption == Responses \subseteq ResponseType
ASSUME AccountAssumption ==
  /\ Passwd \in [DOMAIN Passwd -> [uid : STRING, gid : STRING]]
  /\ Group \in [DOMAIN Group -> STRING]
  /\ NULL \notin DOMAIN Passwd \cup DOMAIN Group
ASSUME AdapterAssumption == NGroupsMax \in Nat \ {0} /\ MaxCalls \in Nat

VARIABLES
  at,        \* where the adapter is; outside, at the request or the response
  calls,     \* complete calls
  original,  \* the request as the application made it
  request,
  answer,    \* the response as it came
  response,
  i, j, k,   \* the loop counters
  length,    \* subject_attrs_l or obligations_l, read before the loop
  user,      \* username
  group,     \* groupname
  groups,    \* groupnames[0 .. n_groupnames - 1]
  room,      \* groupnames was allocated
  lost,      \* objects that nobody points to any more
  fault,     \* the misuse of memory that stopped the program, if any
  starved    \* history: an allocation has failed

loop == <<i, j, k, length, user, group, groups, room>>
oh == <<answer, response, k, user, group, groups, room>>
given == <<calls, original, answer>>
vars == <<at, calls, original, request, answer, response, loop, lost, fault, starved>>

Init ==
  /\ at \in {"request", "response"}
  /\ calls = 0
  /\ original \in Requests
  /\ request = original
  /\ answer = <<>> /\ response = <<>>
  /\ i = 1 /\ j = 1 /\ k = 1 /\ length = 0
  /\ user = NULL /\ group = NULL /\ groups = <<>> /\ room = FALSE
  /\ lost = {} /\ fault = "none" /\ starved = FALSE

-----------------------------------------------------------------------------
(* Identifiers (profiles.h), a few segments each.                          *)

Chain           == <<"subject", "cert-chain">>
VomsFqan        == <<"subject", "voms-fqan">>
VomsPrimaryFqan == <<"subject", "voms-primary-fqan">>
KeyInfo         == <<"key-info">>
Fqan            == <<"attribute", "fqan">>
FqanPrimary     == <<"attribute", "fqan", "primary">>
ProfileId       == <<"attribute", "profile-id">>
UserId          == <<"attribute", "user-id">>
GroupIdPrimary  == <<"attribute", "group-id", "primary">>
GroupId         == <<"attribute", "group-id">>
Posix           == <<"local-environment-map", "posix">>
Username        == <<"obligation", "username">>
UidGid          == <<"uidgid">>
SecondaryGids   == <<"secondary-gids">>
UsernameText    == <<"attribute", "username">>
PosixUid        == <<"posix-uid">>
PosixGid        == <<"posix-gid">>

\* strncmp(p,id,strlen(p)) == 0
Starts(id, p) == Len(id) >= Len(p) /\ SubSeq(id, 1, Len(p)) = p

Attribute(id, values) == [id |-> id, values |-> values]
Copied(id) == Starts(id, Chain) \/ Starts(id, VomsPrimaryFqan) \/ Starts(id, VomsFqan)

\* Mutant of CopyOf: the copy keeps its id.
CopyOf_SameId(a) == Attribute(a.id, a.values)

\* the attribute that is added for a
CopyOf(a) ==
  Attribute(IF Starts(a.id, Chain) THEN KeyInfo ELSE FqanPrimary, a.values)

Fault(f) == fault' = f /\ UNCHANGED <<at, given, request, response, loop, lost, starved>>
Fine == UNCHANGED <<lost, fault, starved>>
Loses(os) == starved' = TRUE /\ lost' = lost \cup os /\ UNCHANGED fault

-----------------------------------------------------------------------------
(* authzinterop2gridwn_pip_process.                                        *)

AttributesOf(n) == IF n <= Len(request.subjects) THEN Len(request.subjects[n]) ELSE 0

BeginPip ==
  /\ at = "request" /\ calls < MaxCalls
  /\ at' = "subjects"
  /\ i' = 1 /\ j' = 1 /\ length' = AttributesOf(1)
  /\ UNCHANGED <<calls, original, request, oh>> /\ Fine

AtAttribute == at = "subjects" /\ i <= Len(request.subjects) /\ j <= length
This == request.subjects[i][j]

\* the next attribute of the subject
PipStep == UNCHANGED <<at, calls, original, oh, i, length>> /\ j' = j + 1

\* strncmp of an id that is not there
NullAttribute == AtAttribute /\ This.id = NULL /\ Fault("null_id")

SkipAttribute ==
  /\ AtAttribute /\ This.id # NULL /\ ~Copied(This.id)
  /\ PipStep /\ UNCHANGED request /\ Fine

\* clone, setid, addattribute: whether the id was set is not looked at
CopyAttribute ==
  /\ AtAttribute /\ This.id # NULL /\ Copied(This.id)
  /\ PipStep
  /\ \E id \in {CopyOf(This).id, NULL} :
       /\ request' = [request EXCEPT !.subjects[i] = Append(@, Attribute(id, This.values))]
       /\ IF id # NULL THEN Fine ELSE Loses({})

\* no clone, or no place for it: it is deleted, but for the value that could
\* not be added to it
CopyFails ==
  /\ AtAttribute /\ This.id # NULL /\ Copied(This.id)
  /\ PipStep
  /\ UNCHANGED request
  /\ \E os \in {{}, {"value"}} : Loses(os)

NextSubject ==
  /\ at = "subjects" /\ i <= Len(request.subjects) /\ j > length
  /\ i' = i + 1 /\ j' = 1 /\ length' = AttributesOf(i + 1)
  /\ UNCHANGED <<at, calls, original, request, oh>> /\ Fine

Environment ==
  /\ at = "subjects" /\ i > Len(request.subjects)
  /\ at' = "profile"
  /\ \/ request.environment # NULL /\ UNCHANGED request /\ Fine
     \/ request.environment = NULL /\ request' = [request EXCEPT !.environment = <<>>] /\ Fine
     \/ request.environment = NULL /\ UNCHANGED request /\ Loses({})
  /\ UNCHANGED <<calls, original, oh, i, j, length>>

EnvironmentIds ==
  IF request.environment = NULL THEN {}
  ELSE {request.environment[n].id : n \in DOMAIN request.environment}

HasProfileId == \E id \in EnvironmentIds \ {NULL} : Starts(id, ProfileId)

NullProfile == at = "profile" /\ NULL \in EnvironmentIds /\ Fault("null_id")

\* An attribute that cannot be added to the environment is not deleted.
AddProfileId ==
  /\ at = "profile" /\ NULL \notin EnvironmentIds
  /\ at' = "request" /\ calls' = calls + 1
  /\ \/ (HasProfileId \/ request.environment = NULL) /\ UNCHANGED request /\ Fine
     \/ /\ ~HasProfileId /\ request.environment # NULL
        /\ UNCHANGED request
        /\ \E os \in {{}, {"attribute"}} : Loses(os)
     \/ /\ ~HasProfileId /\ request.environment # NULL
        /\ \E version \in {"version", NULL} :
             /\ request' = [request EXCEPT !.environment = Append(@, Attribute(ProfileId, version))]
             /\ IF version = NULL THEN \E os \in {{}, {"value"}} : Loses(os) ELSE Fine
  /\ UNCHANGED <<original, oh, i, j, length>>

-----------------------------------------------------------------------------
(* gridwn2authzinterop_oh_process.                                         *)

Assignment(id, value) == [id |-> id, value |-> value]
Obligation(id, as) == [id |-> id, assignments |-> as]

PERMIT == "permit"
Permits(n) == n <= Len(response) /\ response[n].decision = PERMIT
ObligationsOf(n) == IF Permits(n) THEN Len(response[n].obligations) ELSE 0

\* The request was sent, and an answer came.
BeginHandler ==
  /\ at = "response" /\ calls < MaxCalls
  /\ at' = "obligations"
  /\ \E r \in Responses : answer' = r /\ response' = r
  /\ i' = 1 /\ j' = 1
  /\ length' = IF Len(response') > 0 /\ response'[1].decision = PERMIT
               THEN Len(response'[1].obligations) ELSE 0
  /\ UNCHANGED <<calls, original, request, k, user, group, groups, room>> /\ Fine

AtObligation == at = "obligations" /\ i <= Len(response) /\ j <= length
That == response[i].obligations[j]
OhStep == UNCHANGED <<given, request, response>>

NullObligation == AtObligation /\ That.id = NULL /\ Fault("null_id")

SkipObligation ==
  /\ AtObligation /\ That.id # NULL /\ ~Starts(That.id, Posix)
  /\ j' = j + 1
  /\ OhStep /\ UNCHANGED <<at, i, k, length, user, group, groups, room>> /\ Fine

\* Mutant of OpenObligation: n_groupnames is not reset.
OpenObligation_KeepsGroups ==
  /\ AtObligation /\ That.id # NULL /\ Starts(That.id, Posix)
  /\ at' = "assignments"
  /\ k' = 1 /\ user' = NULL /\ group' = NULL
  /\ room' = TRUE
  /\ OhStep /\ UNCHANGED <<i, j, length, groups>> /\ Fine

OpenObligation ==
  /\ AtObligation /\ That.id # NULL /\ Starts(That.id, Posix)
  /\ at' = "assignments"
  /\ k' = 1 /\ user' = NULL /\ group' = NULL /\ groups' = <<>>
  /\ \/ room' = TRUE /\ Fine
     \/ room' = FALSE /\ Loses({})
  /\ OhStep /\ UNCHANGED <<i, j, length>>

NextResult ==
  /\ at = "obligations" /\ i <= Len(response) /\ j > length
  /\ i' = i + 1 /\ j' = 1 /\ length' = ObligationsOf(i + 1)
  /\ OhStep /\ UNCHANGED <<at, k, user, group, groups, room>> /\ Fine

AtAssignment == at = "assignments" /\ k <= Len(That.assignments)
It == That.assignments[k]

\* strcmp of an id that is not there, and the array of group names
NullAssignment == AtAssignment /\ It.id = NULL /\ Fault("null_id")
NoRoom   == AtAssignment /\ It.id = GroupId /\ ~room /\ Fault("null_array")
TooMany  == AtAssignment /\ It.id = GroupId /\ room /\ Len(groups) = NGroupsMax /\ Fault("overflow")

ReadAssignment ==
  /\ AtAssignment /\ It.id # NULL
  /\ It.id = GroupId => room /\ Len(groups) < NGroupsMax
  /\ k' = k + 1
  /\ user'   = IF It.id = UserId THEN It.value ELSE user
  /\ group'  = IF It.id = GroupIdPrimary THEN It.value ELSE group
  /\ groups' = IF It.id = GroupId THEN Append(groups, It.value) ELSE groups
  /\ OhStep /\ UNCHANGED <<at, i, j, length, room>> /\ Fine

EndOfAssignments ==
  /\ at = "assignments" /\ k > Len(That.assignments)
  /\ at' = "username"
  /\ OhStep /\ UNCHANGED loop /\ Fine

Goes(to) == at' = to /\ UNCHANGED <<given, request, loop>>

\* An obligation with the assignments as is created and added to the result.
\* Whether a value was set, an assignment added, or the obligation itself, is
\* not looked at: of as, those at from are added, some of them whole.
Adds(id, as) ==
  \/ UNCHANGED response /\ \E os \in {{}, {"obligation"}, {"assignment"}} : Loses(os)
  \/ \E l \in 0 .. Len(as) : \E from \in [1 .. l -> DOMAIN as], whole \in [1 .. l -> BOOLEAN] :
       LET added == [n \in 1 .. l |-> IF whole[n] THEN as[from[n]]
                                      ELSE Assignment(as[from[n]].id, NULL)]
       IN  /\ \A n \in 1 .. l - 1 : from[n] < from[n + 1]
           /\ response' = [response EXCEPT ![i].obligations = Append(@, Obligation(id, added))]
           /\ IF added = as THEN Fine ELSE Loses(IF l < Len(as) THEN {"assignment"} ELSE {})

\* username obligation
AddUsername ==
  /\ at = "username"
  /\ Goes("uidgid")
  /\ IF user # NULL THEN Adds(Username, <<Assignment(UsernameText, user)>>)
                    ELSE UNCHANGED response /\ Fine

\* getpwnam_r and getgrnam_r may also fail for a name they know
Account == {NULL} \cup (IF user \in DOMAIN Passwd THEN {Passwd[user]} ELSE {})
GidOf(name) == {NULL} \cup (IF name \in DOMAIN Group THEN {Group[name]} ELSE {})

\* the default group of the user without a primary group that is resolved
PrimaryGid(default) == {IF gid = NULL THEN default ELSE gid : gid \in GidOf(group)}

\* uidgid obligation
AddUidGid ==
  /\ at = "uidgid"
  /\ Goes("gids")
  /\ \/ UNCHANGED response /\ Fine   \* no user, or not resolved
     \/ \E account \in Account \ {NULL} : \E gid \in PrimaryGid(account.gid) :
          Adds(UidGid, <<Assignment(PosixUid, account.uid), Assignment(PosixGid, gid)>>)

Resolvable(names) == \A n \in DOMAIN names : names[n] \in DOMAIN Group

\* Mutant of AddSecondaryGids: the groups that are not resolved are left out.
AddSecondaryGids_Some ==
  /\ at = "gids"
  /\ at' = "obligations" /\ j' = j + 1
  /\ UNCHANGED <<given, request, i, k, length, user, group, groups, room>>
  /\ LET known == SelectSeq(groups, LAMBDA g : g \in DOMAIN Group)
     IN  IF known = <<>> THEN UNCHANGED response /\ Fine
         ELSE Adds(SecondaryGids, [n \in DOMAIN known |-> Assignment(PosixGid, Group[known[n]])])

\* secondary gids obligation: all the groups are resolved, or there is none
AddSecondaryGids ==
  /\ at = "gids"
  /\ at' = "obligations" /\ j' = j + 1
  /\ UNCHANGED <<given, request, i, k, length, user, group, groups, room>>
  /\ \/ UNCHANGED response /\ Fine
     \/ UNCHANGED response /\ groups # <<>> /\ Loses({})   \* no gids, the first one fails
     \/ /\ groups # <<>> /\ Resolvable(groups)
        /\ Adds(SecondaryGids, [n \in DOMAIN groups |-> Assignment(PosixGid, Group[groups[n]])])

\* gids was not allocated and the first group is resolved
NoGids ==
  /\ at = "gids" /\ groups # <<>> /\ groups[1] \in DOMAIN Group
  /\ fault' = "null_array" /\ starved' = TRUE
  /\ UNCHANGED <<at, given, request, response, loop, lost>>

\* the application deletes the response
EndOfHandler ==
  /\ at = "obligations" /\ i > Len(response)
  /\ at' = "response" /\ calls' = calls + 1
  /\ answer' = <<>> /\ response' = <<>>
  /\ UNCHANGED <<original, request, loop>> /\ Fine

Step ==
  \/ BeginPip \/ NullAttribute \/ SkipAttribute \/ CopyAttribute \/ CopyFails \/ NextSubject
  \/ Environment \/ NullProfile \/ AddProfileId
  \/ BeginHandler \/ NullObligation \/ SkipObligation \/ OpenObligation \/ NextResult
  \/ NullAssignment \/ NoRoom \/ TooMany \/ ReadAssignment \/ EndOfAssignments
  \/ AddUsername \/ AddUidGid \/ AddSecondaryGids \/ NoGids \/ EndOfHandler

Next == fault = "none" /\ Step
Spec == Init /\ [][Next]_vars

-----------------------------------------------------------------------------
(* What the properties say of requests and answers.                        *)

\* the values of the assignments with this id, in order, among the first n
ValuesAmong(b, id) ==
  LET found[n \in 0 .. Len(b.assignments)] ==
        IF n = 0 THEN <<>>
        ELSE IF b.assignments[n].id = id THEN Append(found[n - 1], b.assignments[n].value)
        ELSE found[n - 1]
  IN  found
Values(b, id) == ValuesAmong(b, id)[Len(b.assignments)]
LastOf(vs) == IF vs = <<>> THEN NULL ELSE vs[Len(vs)]
Last(b, id) == LastOf(Values(b, id))

\* ss[1] \o ... \o ss[n], for every n
Joined(ss) ==
  LET joined[n \in 0 .. Len(ss)] == IF n = 0 THEN <<>> ELSE joined[n - 1] \o ss[n] IN joined

\* s, c times
Times(s, c) == Joined([n \in 1 .. c |-> s])[c]

\* the id that the comments promise the copy of a (profiles.c:98-102), and what
\* else it may be here: a list of FQANs gets the id of the primary one
PromisedId(a) ==
  IF Starts(a.id, Chain) THEN KeyInfo
  ELSE IF Starts(a.id, VomsPrimaryFqan) THEN FqanPrimary ELSE Fqan
CopyIds(a) == {PromisedId(a)} \cup (IF PromisedId(a) = Fqan THEN {FqanPrimary} ELSE {})

\* the copies that are due for the first n attributes of as, and after a pass
\* over all of them
Due(a) == [ids |-> CopyIds(a), values |-> a.values]
DuesAmong(as) ==
  Joined([n \in DOMAIN as |-> IF as[n].id # NULL /\ Copied(as[n].id) THEN <<Due(as[n])>> ELSE <<>>])
Dues(as) == DuesAmong(as)[Len(as)]

IsCopy(x, d) == x.values = d.values /\ x.id \in d.ids
AreCopies(s, ds) == Len(s) = Len(ds) /\ \A m \in DOMAIN s : IsCopy(s[m], ds[m])

Extends(s, t) == Len(s) >= Len(t) /\ SubSeq(s, 1, Len(t)) = t
HasProfile(as) == \E n \in DOMAIN as : as[n].id # NULL /\ Starts(as[n].id, ProfileId)
Before(e) == IF e = NULL THEN <<>> ELSE e

\* the POSIX obligations of a result
Mappings(r) == {r.obligations[n] : n \in {m \in DOMAIN r.obligations :
                  r.obligations[m].id # NULL /\ Starts(r.obligations[m].id, Posix)}}

\* what may be said of the account that obligation b names
Says(b, o) ==
  LET names == Values(b, GroupId)
      account == IF Last(b, UserId) \in DOMAIN Passwd THEN Passwd[Last(b, UserId)] ELSE NULL
      gids == IF account = NULL THEN {}
              ELSE {account.gid} \cup (GidOf(Last(b, GroupIdPrimary)) \ {NULL})
      said(id) == {o.assignments[n].value : n \in {m \in DOMAIN o.assignments : o.assignments[m].id = id}}
  IN  \/ o.id = Username /\ said(UsernameText) \subseteq {Last(b, UserId), NULL}
      \/ /\ o.id = UidGid /\ account # NULL
         /\ said(PosixUid) \subseteq {account.uid, NULL} /\ said(PosixGid) \subseteq gids \cup {NULL}
      \/ /\ o.id = SecondaryGids /\ Resolvable(names)
         /\ said(PosixGid) \subseteq {Group[names[n]] : n \in DOMAIN names} \cup {NULL}
         /\ ~starved => o.assignments = [n \in DOMAIN names |-> Assignment(PosixGid, Group[names[n]])]

\* an id that is missing, where the adapters compare it
NamelessRequest(r) ==
  \/ \E n \in DOMAIN r.subjects : \E m \in DOMAIN r.subjects[n] : r.subjects[n][m].id = NULL
  \/ r.environment # NULL /\ \E n \in DOMAIN r.environment : r.environment[n].id = NULL
NamelessResult(r) ==
  /\ r.decision = PERMIT
  /\ \/ \E n \in DOMAIN r.obligations : r.obligations[n].id = NULL
     \/ \E b \in Mappings(r) : \E n \in DOMAIN b.assignments : b.assignments[n].id = NULL

-----------------------------------------------------------------------------
(***************************************************************************)
(* Asking again and again with one request never copies a copy: after any  *)
(* number of calls each subject has its attributes as the application put  *)
(* them, then one copy of each certificate chain and FQAN for every call,  *)
(* and the environment one profile id.  Without memory, some are missing,  *)
(* or their ids, and none is added twice.  (PromisedIds is about the id of *)
(* a list of FQANs.)                                                       *)
(***************************************************************************)
AdaptedRequest ==
  /\ \A n \in DOMAIN original.subjects :
       LET was == original.subjects[n]
           now == request.subjects[n]
           added == SubSeq(now, Len(was) + 1, Len(now))
       IN  /\ Extends(now, was)
           /\ Len(added) <= (calls + 1) * Len(Dues(was))
           /\ \A m \in DOMAIN added : \E c \in DOMAIN Dues(was) :
                /\ added[m].values = Dues(was)[c].values
                /\ added[m].id \in Dues(was)[c].ids \cup {NULL}
           /\ at = "request" /\ ~starved => AreCopies(added, Times(Dues(was), calls))
  /\ LET was == Before(original.environment)
         now == Before(request.environment)
     IN  /\ Extends(now, was) /\ Len(now) <= Len(was) + 1
         /\ at = "request" /\ calls > 0 /\ ~starved => HasProfile(now)
         /\ HasProfile(was) => now = was

(***************************************************************************)
(* "Creates new Subject/Attributes XACML_GRIDWN_ATTRIBUTE_FQAN and         *)
(* XACML_GRIDWN_ATTRIBUTE_FQAN_PRIMARY based on                            *)
(* XACML_AUTHZINTEROP_SUBJECT_VOMS_FQAN and                                *)
(* XACML_AUTHZINTEROP_SUBJECT_VOMS_PRIMARY_FQAN" (profiles.c:98-102):      *)
(* each copy has the id that goes with the attribute it is a copy of.      *)
(***************************************************************************)
PromisedIds ==
  \A n \in DOMAIN original.subjects :
    LET was == original.subjects[n]
    IN  \A m \in Len(was) + 1 .. Len(request.subjects[n]) : \E c \in DOMAIN was :
          /\ was[c].id # NULL /\ Copied(was[c].id)
          /\ request.subjects[n][m].values = was[c].values
          /\ request.subjects[n][m].id \in {PromisedId(was[c]), NULL}

(***************************************************************************)
(* The handler touches only what a permit brought: its obligations stay,   *)
(* and what is added speaks of the account that one POSIX obligation of    *)
(* the same result names: the user it named last, that user's uid, the     *)
(* primary group or else the user's own, and all of the groups or none.    *)
(* Whatever allocation or name service fails, no other id appears.         *)
(***************************************************************************)
MappedAccounts ==
  \A n \in DOMAIN answer :
    LET was == answer[n].obligations
        now == response[n].obligations
    IN  /\ answer[n].decision # PERMIT => response[n] = answer[n]
        /\ Extends(now, was)
        /\ \A m \in Len(was) + 1 .. Len(now) : \E b \in Mappings(answer[n]) : Says(b, now[m])

(***************************************************************************)
(* The adapters stop the program, or lose an object, for four causes only: *)
(* no memory, an id that is missing in the request, or where it is read in *)
(* the answer, or one obligation with more groups than NGROUPS_MAX.        *)
(***************************************************************************)
FaultNeedsCause ==
  /\ (fault = "null_array" \/ lost # {}) => starved
  /\ fault = "null_id" => \/ starved \/ NamelessRequest(original)
                          \/ \E n \in DOMAIN answer : NamelessResult(answer[n])
  /\ fault = "overflow" => \E n \in DOMAIN answer : answer[n].decision = PERMIT /\
                             \E b \in Mappings(answer[n]) : Len(Values(b, GroupId)) > NGroupsMax
=============================================================================
