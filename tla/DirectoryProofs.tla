---------------------------- MODULE DirectoryProofs ----------------------------
(***************************************************************************)
(* What holds of Directory for all users, organizations and requests: the  *)
(* roles of an organization come from those who have had a role there, its *)
(* tenants from those or from who is at home there.                        *)
(***************************************************************************)
EXTENDS Directory, TLAPS

(* System administrators are users (code: _is_system_admin of an identity).*)
AdminsAreUsers == SystemAdmins \subseteq People

Row == [state : {"none", "live", "deleted"}, creator : People \cup {Nobody},
        deletable : BOOLEAN]
Steps ==
  {"check", "found", "grant", "insert", "revoke", "remove", "createTenant", "createAtHome",
   "commitTenant", "deleteTenant", "deleteById", "commitDelete", "lookupTenants",
   "readTenants", "fillTenants", "enrol"}
Job == [step : Steps, op : Operations, user : People, org : Organizations,
        whom : People, role : Given, context : SUBSET OrgRoles, seen : SUBSET Tenants]

Shaped ==
  /\ founded \subseteq Organizations
  /\ member \in [Places -> People \cup {Nobody}]
  /\ tenant \in [Tenants -> Row]
  /\ listed = NoEntry \/ listed \subseteq Tenants

(* A request that has been admitted was so by a role in its organization,  *)
(* or names the one its user is at home in; f is what has been founded, h  *)
(* are the roles that anybody has had.                                     *)
Admitted(c, f, h) ==
  /\ c \in Job
  /\ \A r \in c.context : <<HomeOf[c.user], c.user, r>> \in h
  /\ c.step = "check" => c.op \in DOMAIN Required
  /\ c.step \in {"grant", "insert", "revoke", "remove"} => <<c.org, c.user, GlobalAdmin>> \in h
  /\ c.step = "createAtHome" => HomeOf[c.user] = c.org
  /\ c.step \in {"createTenant", "commitTenant"} =>
       HomeOf[c.user] = c.org \/ \E r \in OrgRoles : <<c.org, c.user, r>> \in h
  /\ c.step \in {"grant", "insert", "revoke", "remove", "createTenant", "commitTenant",
                 "deleteTenant"} => c.org \in f
  /\ c.step = "commitDelete" => \A t \in c.seen : OfOrganization(t) \in f
Calls ==
  /\ call = [w \in Workers |-> call[w]]
  /\ \A w \in Workers : Calling(w) => Admitted(call[w], founded, held)

(* Roles and tenants are those of organizations that have been founded,    *)
(* and nobody has a role that he is not known to have had.                 *)
Backed ==
  /\ \A o \in Organizations, u \in People, r \in OrgRoles :
       member[<<o, u, r>>] # Nobody => <<o, u, r>> \in held /\ o \in founded
  /\ \A t \in Tenants : tenant[t].state # "none" => OfOrganization(t) \in founded
  /\ AuthorityStaysInOrganization

Kept == Shaped /\ Calls /\ Backed

-----------------------------------------------------------------------------
(* What the guards have read.                                              *)

(* What has been founded and what has been held stays so.                  *)
LEMMA AdmittedStays ==
  ASSUME NEW c, NEW f, NEW h, NEW f2, NEW h2, f \subseteq f2, h \subseteq h2,
         Admitted(c, f, h)
  PROVE  Admitted(c, f2, h2)
BY DEF Admitted

(* A worker's request becomes c.                                           *)
LEMMA MovedCalls ==
  ASSUME Calls, NEW w \in Workers, NEW c, Become(w, c),
         founded \subseteq founded', held \subseteq held',
         c # NoJob => Admitted(c, founded', held')
  PROVE  Calls'
<1>1. /\ call' = [v \in Workers |-> IF v = w THEN c ELSE call[v]]
  BY DEF Calls, Become
<1>2. ASSUME NEW v \in Workers, Calling(v)'
      PROVE  Admitted(call'[v], founded', held')
  <2>1. CASE v = w
    BY <1>1, <1>2, <2>1 DEF Calling
  <2>2. CASE v # w
    <3>1. Calling(v) /\ call'[v] = call[v]
      BY <1>1, <1>2, <2>2 DEF Calling
    <3> QED BY <3>1, AdmittedStays DEF Calls
  <2> QED BY <2>1, <2>2
<1> QED BY <1>1, <1>2 DEF Calls, Admitted

LEMMA AtAdmitted ==
  ASSUME Calls, NEW w \in Workers, NEW step, At(w, step)
  PROVE  Admitted(call[w], founded, held) /\ call[w] \in Job /\ call[w].step = step
BY DEF Calls, At, Admitted

(* The fields of a request that goes on to another step.                   *)
LEMMA GoingTo ==
  ASSUME NEW c \in Job, NEW step \in Steps, NEW j, j = [c EXCEPT !.step = step]
  PROVE  /\ j \in Job /\ j.step = step
         /\ j.op = c.op /\ j.user = c.user /\ j.org = c.org /\ j.whom = c.whom
         /\ j.role = c.role /\ j.context = c.context /\ j.seen = c.seen
BY DEF Job

(* A role that is given, with what it goes with, by someone who had one.   *)
LEMMA GivenIsBacked ==
  ASSUME Shaped, Backed, NEW o \in Organizations, NEW u \in People, NEW r, NEW giver \in People,
         Give(o, u, r, giver), founded \subseteq founded', o \in founded', tenant' = tenant,
         <<o, giver, GlobalAdmin>> \in held'
  PROVE  Backed' /\ member' \in [Places -> People \cup {Nobody}] /\ held \subseteq held'
<1>1. /\ member' = [member EXCEPT ![<<o, u, r>>] = giver]
      /\ held' = held \cup {<<o, u, r>>}
  BY DEF Give
<1>2. ASSUME NEW p \in Places
      PROVE  member'[p] = IF p = <<o, u, r>> THEN giver ELSE member[p]
  BY <1>1 DEF Shaped
<1>3. member' \in [Places -> People \cup {Nobody}]
  BY <1>1 DEF Shaped
<1>4. ASSUME NEW oo \in Organizations, NEW uu \in People, NEW rr \in OrgRoles,
             member'[<<oo, uu, rr>>] # Nobody
      PROVE  /\ <<oo, uu, rr>> \in held' /\ oo \in founded'
             /\ <<oo, member'[<<oo, uu, rr>>], GlobalAdmin>> \in held'
  <2>1. <<oo, uu, rr>> \in Places
    BY DEF Places
  <2>2. CASE <<oo, uu, rr>> = <<o, u, r>>
    BY <1>1, <1>2, <2>1, <2>2
  <2>3. CASE <<oo, uu, rr>> # <<o, u, r>>
    <3>1. member'[<<oo, uu, rr>>] = member[<<oo, uu, rr>>]
      BY <1>2, <2>1, <2>3
    <3> QED BY <1>1, <1>4, <3>1 DEF Backed, AuthorityStaysInOrganization
  <2> QED BY <2>2, <2>3
<1>5. \A t \in Tenants : tenant'[t].state # "none" => OfOrganization(t) \in founded'
  BY DEF Backed, OfOrganization
<1>6. \A t \in Tenants : tenant'[t].creator # Nobody =>
        \/ HomeOf[tenant'[t].creator] = OfOrganization(t)
        \/ \E rr \in OrgRoles : <<OfOrganization(t), tenant'[t].creator, rr>> \in held'
  BY <1>1 DEF Backed, AuthorityStaysInOrganization, HasHadRole, OfOrganization
<1> QED
  BY <1>1, <1>3, <1>4, <1>5, <1>6
     DEF Backed, AuthorityStaysInOrganization, HasHadRole, OfOrganization

-----------------------------------------------------------------------------
(* The steps.                                                              *)

(* The operations that need a role, each with a row of Required.           *)
LEMMA Requiring ==
  /\ DOMAIN Required = {"grant", "revoke", "createTenant", "deleteTenant"}
  /\ Required["grant"] = {GlobalAdmin} /\ Required["revoke"] = {GlobalAdmin}
BY DEF Required

(* Steps that change nothing but their request (and the Viewer's entry).   *)
LEMMA OnlyCallKept ==
  ASSUME Kept, NEW w \in Workers, NEW c, Become(w, c),
         c # NoJob => Admitted(c, founded, held),
         listed' = listed \/ listed' = NoEntry \/ listed' \subseteq Tenants,
         UNCHANGED <<founded, member, tenant, held>>
  PROVE  Kept'
<1>1. Calls'
  BY MovedCalls DEF Kept
<1>2. Backed'
  BY DEF Kept, Backed, AuthorityStaysInOrganization, HasHadRole, OfOrganization
<1>3. Shaped'
  BY DEF Kept, Shaped
<1> QED BY <1>1, <1>2, <1>3 DEF Kept

(* A step to the next one, for which the request is admitted.              *)
LEMMA GotoKept ==
  ASSUME Kept, NEW w \in Workers, NEW step, At(w, step), NEW next \in Steps, Goto(w, next),
         next # "check", next # "createAtHome", next # "commitDelete",
         next \in {"grant", "insert", "revoke", "remove"} =>
           <<call[w].org, call[w].user, GlobalAdmin>> \in held,
         next \in {"createTenant", "commitTenant"} =>
           \/ HomeOf[call[w].user] = call[w].org
           \/ \E r \in OrgRoles : <<call[w].org, call[w].user, r>> \in held,
         next \in {"grant", "insert", "revoke", "remove", "createTenant", "commitTenant",
                   "deleteTenant"} => call[w].org \in founded,
         listed' = listed \/ listed' = NoEntry \/ listed' \subseteq Tenants,
         UNCHANGED <<founded, member, tenant, held>>
  PROVE  Kept'
<1> DEFINE c == [call[w] EXCEPT !.step = next]
<1>1. Admitted(call[w], founded, held) /\ call[w] \in Job
  BY AtAdmitted DEF Kept
<1>2. Become(w, c)
  BY DEF Goto
<1>3. /\ c \in Job /\ c.step = next
      /\ c.op = call[w].op /\ c.user = call[w].user /\ c.org = call[w].org
      /\ c.whom = call[w].whom /\ c.role = call[w].role /\ c.context = call[w].context
      /\ c.seen = call[w].seen
  BY <1>1, GoingTo
<1> HIDE DEF c
<1>4. Admitted(c, founded, held)
  BY <1>1, <1>3 DEF Admitted
<1> QED BY <1>2, <1>4, OnlyCallKept

LEMMA BeginKept ==
  ASSUME Kept, NEW w \in Workers, Begin(w)
  PROVE  Kept'
<1>1. PICK u \in People, whom \in People, op \in Operations, o \in Organizations,
           r \in Given : Authenticate(w, u, op, o, whom, r)
  BY DEF Begin
<1> DEFINE step == FirstStep(u, op)
           c == [step |-> step, op |-> op, user |-> u, org |-> o, whom |-> whom, role |-> r,
                 context |-> Context(u), seen |-> {}]
<1>2. Become(w, c) /\ UNCHANGED <<founded, member, tenant, listed, held>>
  BY <1>1 DEF Authenticate
<1>3. /\ step \in Steps
      /\ step \in {"check", "enrol", "lookupTenants", "found", "createAtHome"}
      /\ step = "check" => op \in DOMAIN Required
      /\ step = "createAtHome" => HomeOf[u] = o
  <2>1. CASE op \in DOMAIN Required
    BY <2>1, Requiring DEF FirstStep, Steps
  <2>2. CASE op = "me" \/ op = "deleteById"
    BY <2>2, Requiring DEF FirstStep, Steps
  <2>3. CASE op = "found"
    BY <2>3, Requiring DEF FirstStep, Steps
  <2>4. CASE op = "createAtHome"
    <3>1. HomeOf[u] = o
      BY <1>1, <2>4 DEF Authenticate, AtHome
    <3> QED BY <2>4, <3>1, Requiring DEF FirstStep, Steps
  <2> QED BY <2>1, <2>2, <2>3, <2>4 DEF Operations, AtHome
<1>4. Context(u) \subseteq OrgRoles
      /\ \A rr \in Context(u) : <<HomeOf[u], u, rr>> \in held
  BY DEF Context, HasHome, RolesOf, Kept, Backed, Shaped
<1> HIDE DEF step
<1>5. /\ c \in Job /\ c.step = step /\ c.op = op /\ c.user = u /\ c.org = o
      /\ c.context = Context(u)
  BY <1>3, <1>4 DEF Job
<1> HIDE DEF c
<1>6. Admitted(c, founded, held)
  BY <1>3, <1>4, <1>5 DEF Admitted
<1> QED BY <1>2, <1>6, OnlyCallKept

LEMMA CheckKept ==
  ASSUME Kept, NEW w \in Workers, Check(w)
  PROVE  Kept'
<1> DEFINE c == call[w]
           roles == RolesOf(c.user, c.org) \cup (IF HomeOf[c.user] = c.org THEN c.context ELSE {})
<1>1. /\ At(w, "check") /\ UNCHANGED <<founded, member, tenant, listed, held>>
      /\ \/ roles \cap Required[c.op] # {} /\ c.org \in founded /\ Goto(w, c.op)
         \/ End(w)
  BY DEF Check
<1>2. Admitted(c, founded, held) /\ c \in Job /\ c.op \in DOMAIN Required
  BY <1>1, AtAdmitted DEF Kept, Admitted
<1>3. \A r \in roles : r \in OrgRoles /\ <<c.org, c.user, r>> \in held
  BY <1>2 DEF RolesOf, Kept, Backed, Admitted, Job
<1> HIDE DEF roles
<1>4. CASE roles \cap Required[c.op] # {} /\ c.org \in founded /\ Goto(w, c.op)
  <2>1. PICK r \in roles : r \in Required[c.op]
    BY <1>4
  <2>2. c.op \in {"grant", "revoke"} => r = GlobalAdmin
    BY <2>1, Requiring
  <2>3. c.op \in {"grant", "revoke", "createTenant", "deleteTenant"}
    BY <1>2, Requiring
  <2>4. r \in OrgRoles /\ <<c.org, c.user, r>> \in held
    BY <1>3, <2>1
  <2> QED BY <1>1, <1>2, <1>4, <2>2, <2>3, <2>4, GotoKept DEF Steps
<1>5. CASE End(w)
  BY <1>1, <1>5, OnlyCallKept DEF End
<1> QED BY <1>1, <1>4, <1>5

LEMMA CreateOrganizationKept ==
  ASSUME AdminsAreUsers, Kept, NEW w \in Workers, CreateOrganization(w)
  PROVE  Kept'
<1> DEFINE c == call[w]
<1>1. At(w, "found") /\ listed' = listed /\ End(w)
  BY DEF CreateOrganization
<1>2. Admitted(c, founded, held) /\ c \in Job /\ c.org \in Organizations
  BY <1>1, AtAdmitted DEF Kept, Job
<1>3. CASE UNCHANGED <<founded, tenant, member, held>>
  BY <1>1, <1>3, OnlyCallKept DEF End
<1>4. CASE /\ c.user \in SystemAdmins /\ founded' = founded \cup {c.org}
           /\ tenant' = [tenant EXCEPT ![<<c.org, "default">>] =
                [state |-> "live", creator |-> c.user, deletable |-> FALSE]]
           /\ Give(c.org, c.user, GlobalAdmin, c.user)
  <2>1. c.user \in People
    BY <1>4 DEF AdminsAreUsers
  <2>2. /\ member' = [member EXCEPT ![<<c.org, c.user, GlobalAdmin>>] = c.user]
        /\ held' = held \cup {<<c.org, c.user, GlobalAdmin>>}
    BY <1>4 DEF Give
  <2>3. \A p \in Places : member'[p] =
          IF p = <<c.org, c.user, GlobalAdmin>> THEN c.user ELSE member[p]
    BY <2>2 DEF Kept, Shaped
  <2>4. <<c.org, "default">> \in Tenants /\ OfOrganization(<<c.org, "default">>) = c.org
    BY <1>2 DEF Tenants, OfOrganization
  <2>5. \A t \in Tenants : tenant'[t] =
          IF t = <<c.org, "default">>
          THEN [state |-> "live", creator |-> c.user, deletable |-> FALSE] ELSE tenant[t]
    BY <1>4, <2>4 DEF Kept, Shaped
  <2>6. Shaped'
    <3>1. member' \in [Places -> People \cup {Nobody}]
      BY <2>1, <2>2 DEF Kept, Shaped
    <3>2. tenant' \in [Tenants -> Row]
      BY <1>4, <2>1 DEF Kept, Shaped, Row
    <3> QED BY <1>1, <1>2, <1>4, <3>1, <3>2 DEF Kept, Shaped
  <2>7. Calls'
    BY <1>1, <1>4, <2>2, MovedCalls DEF Kept, End
  <2>8. ASSUME NEW o \in Organizations, NEW u \in People, NEW r \in OrgRoles,
               member'[<<o, u, r>>] # Nobody
        PROVE  /\ <<o, u, r>> \in held' /\ o \in founded'
               /\ <<o, member'[<<o, u, r>>], GlobalAdmin>> \in held'
    <3>1. <<o, u, r>> \in Places
      BY DEF Places
    <3>2. CASE <<o, u, r>> = <<c.org, c.user, GlobalAdmin>>
      BY <1>4, <2>2, <2>3, <3>1, <3>2
    <3>3. CASE <<o, u, r>> # <<c.org, c.user, GlobalAdmin>>
      <4>1. member'[<<o, u, r>>] = member[<<o, u, r>>]
        BY <2>3, <3>1, <3>3
      <4> QED BY <1>4, <2>2, <2>8, <4>1 DEF Kept, Backed, AuthorityStaysInOrganization
    <3> QED BY <3>2, <3>3
  <2>9. ASSUME NEW t \in Tenants
        PROVE  /\ tenant'[t].state # "none" => OfOrganization(t) \in founded'
               /\ tenant'[t].creator # Nobody =>
                    \/ HomeOf[tenant'[t].creator] = OfOrganization(t)
                    \/ \E r \in OrgRoles : <<OfOrganization(t), tenant'[t].creator, r>> \in held'
    <3>1. CASE t = <<c.org, "default">>
      <4>1. /\ OfOrganization(t) = c.org /\ c.org \in founded'
            /\ tenant'[t].creator = c.user
        BY <1>4, <2>4, <2>5, <3>1
      <4>2. GlobalAdmin \in OrgRoles /\ <<c.org, c.user, GlobalAdmin>> \in held'
        BY <2>2 DEF OrgRoles
      <4>3. <<OfOrganization(t), tenant'[t].creator, GlobalAdmin>> \in held'
        BY <4>1, <4>2
      <4> QED BY <4>1, <4>2, <4>3
    <3>2. CASE t # <<c.org, "default">>
      <4>1. tenant'[t] = tenant[t]
        BY <2>5, <3>2
      <4>2. tenant'[t].state # "none" => OfOrganization(t) \in founded'
        BY <1>4, <4>1 DEF Kept, Backed
      <4>3. ASSUME tenant'[t].creator # Nobody
            PROVE  \/ HomeOf[tenant'[t].creator] = OfOrganization(t)
                   \/ \E r \in OrgRoles : <<OfOrganization(t), tenant'[t].creator, r>> \in held'
        <5>1. CASE HomeOf[tenant[t].creator] = OfOrganization(t)
          BY <4>1, <5>1
        <5>2. CASE HomeOf[tenant[t].creator] # OfOrganization(t)
          <6>1. PICK r \in OrgRoles : <<OfOrganization(t), tenant[t].creator, r>> \in held
            BY <4>1, <4>3, <5>2 DEF Kept, Backed, AuthorityStaysInOrganization, HasHadRole
          <6> QED BY <2>2, <4>1, <6>1
        <5> QED BY <5>1, <5>2
      <4> QED BY <4>2, <4>3
    <3> QED BY <3>1, <3>2
  <2>10. Backed'
    BY <2>8, <2>9 DEF Backed, AuthorityStaysInOrganization, HasHadRole, OfOrganization
  <2> QED BY <2>6, <2>7, <2>10 DEF Kept
<1> QED BY <1>3, <1>4 DEF CreateOrganization

LEMMA SetPrincipalKept ==
  ASSUME Kept, NEW w \in Workers, SetPrincipal(w)
  PROVE  Kept'
<1>1. At(w, "grant") /\ UNCHANGED <<founded, member, tenant, listed, held>>
  BY DEF SetPrincipal
<1>2. <<call[w].org, call[w].user, GlobalAdmin>> \in held /\ call[w].org \in founded
  BY <1>1, AtAdmitted DEF Kept, Admitted
<1>3. CASE Goto(w, "insert")
  BY <1>1, <1>2, <1>3, GotoKept DEF Steps
<1>4. CASE End(w)
  BY <1>1, <1>4, OnlyCallKept DEF End
<1> QED BY <1>3, <1>4 DEF SetPrincipal

LEMMA DeletePrincipalKept ==
  ASSUME Kept, NEW w \in Workers, DeletePrincipal(w)
  PROVE  Kept'
<1>1. At(w, "revoke") /\ UNCHANGED <<founded, member, tenant, listed, held>>
  BY DEF DeletePrincipal
<1>2. <<call[w].org, call[w].user, GlobalAdmin>> \in held /\ call[w].org \in founded
  BY <1>1, AtAdmitted DEF Kept, Admitted
<1>3. CASE Goto(w, "remove")
  BY <1>1, <1>2, <1>3, GotoKept DEF Steps
<1>4. CASE End(w)
  BY <1>1, <1>4, OnlyCallKept DEF End
<1> QED BY <1>3, <1>4 DEF DeletePrincipal

(* A request that gives a role and ends.                                   *)
LEMMA GiveKept ==
  ASSUME Kept, NEW w \in Workers, NEW o \in Organizations, NEW u \in People, NEW r,
         NEW giver \in People, Give(o, u, r, giver), o \in founded, End(w),
         <<o, giver, GlobalAdmin>> \in held \cup {<<o, u, r>>},
         UNCHANGED <<founded, tenant, listed>>
  PROVE  Kept'
<1>1. <<o, giver, GlobalAdmin>> \in held'
  BY DEF Give
<1>2. Backed' /\ member' \in [Places -> People \cup {Nobody}] /\ held \subseteq held'
  BY <1>1, GivenIsBacked DEF Kept
<1>3. Calls'
  BY <1>2, MovedCalls DEF Kept, End
<1>4. Shaped'
  BY <1>2 DEF Kept, Shaped
<1> QED BY <1>2, <1>3, <1>4 DEF Kept

LEMMA InsertMemberKept ==
  ASSUME Kept, NEW w \in Workers, InsertMember(w)
  PROVE  Kept'
<1>1. At(w, "insert") /\ End(w) /\ UNCHANGED <<founded, tenant, listed>>
  BY DEF InsertMember
<1>2. /\ <<call[w].org, call[w].user, GlobalAdmin>> \in held /\ call[w].org \in founded
      /\ call[w] \in Job
  BY <1>1, AtAdmitted DEF Kept, Admitted
<1>3. CASE UNCHANGED <<member, held>>
  BY <1>1, <1>3, OnlyCallKept DEF End
<1>4. CASE Give(call[w].org, call[w].whom, call[w].role, call[w].user)
  BY <1>1, <1>2, <1>4, GiveKept DEF Job
<1> QED BY <1>3, <1>4 DEF InsertMember

LEMMA EnrolKept ==
  ASSUME Kept, NEW w \in Workers, Enrol(w)
  PROVE  Kept'
<1>1. At(w, "enrol") /\ End(w) /\ UNCHANGED <<founded, tenant, listed>>
  BY DEF Enrol
<1>2. call[w].user \in People /\ call[w].org \in Organizations
  BY <1>1, AtAdmitted DEF Kept, Job
<1>3. CASE UNCHANGED <<member, held>>
  BY <1>1, <1>3, OnlyCallKept DEF End
<1>4. CASE /\ call[w].org \in founded
           /\ Give(call[w].org, call[w].user, GlobalAdmin, call[w].user)
  BY <1>1, <1>2, <1>4, GiveKept
<1> QED BY <1>3, <1>4 DEF Enrol

LEMMA RemoveMemberKept ==
  ASSUME Kept, NEW w \in Workers, RemoveMember(w)
  PROVE  Kept'
<1>1. At(w, "remove") /\ End(w) /\ UNCHANGED <<founded, tenant, listed, held>>
  BY DEF RemoveMember
<1>2. Calls'
  BY <1>1, MovedCalls DEF Kept, End
<1>3. /\ member' \in [Places -> People \cup {Nobody}]
      /\ \A p \in Places : member'[p] \in {member[p], Nobody}
  BY DEF RemoveMember, Kept, Shaped
<1>4. \A o \in Organizations, u \in People, r \in OrgRoles : <<o, u, r>> \in Places
  BY DEF Places
<1>5. ASSUME NEW o \in Organizations, NEW u \in People, NEW r \in OrgRoles,
             member'[<<o, u, r>>] # Nobody
      PROVE  /\ <<o, u, r>> \in held /\ o \in founded
             /\ <<o, member'[<<o, u, r>>], GlobalAdmin>> \in held
  <2>1. member'[<<o, u, r>>] = member[<<o, u, r>>]
    BY <1>3, <1>4, <1>5
  <2> QED BY <1>5, <2>1 DEF Kept, Backed, AuthorityStaysInOrganization
<1>6. Backed'
  BY <1>1, <1>5 DEF Kept, Backed, AuthorityStaysInOrganization, HasHadRole, OfOrganization
<1> QED BY <1>1, <1>2, <1>3, <1>6 DEF Kept, Shaped

LEMMA FlushTenantKept ==
  ASSUME Kept, NEW w \in Workers, NEW step, At(w, step), FlushTenant(w),
         HomeOf[call[w].user] = call[w].org
           \/ \E r \in OrgRoles : <<call[w].org, call[w].user, r>> \in held,
         call[w].org \in founded
  PROVE  Kept'
<1>1. /\ UNCHANGED <<founded, member, tenant, held>>
      /\ listed' \in {listed, NoEntry}
  BY DEF FlushTenant
<1>2. CASE Goto(w, "commitTenant")
  BY <1>1, <1>2, GotoKept DEF Steps
<1>3. CASE End(w)
  BY <1>1, <1>3, OnlyCallKept DEF End
<1> QED BY <1>2, <1>3 DEF FlushTenant

LEMMA CreateTenantKept ==
  ASSUME Kept, NEW w \in Workers, CreateTenant(w)
  PROVE  Kept'
<1>1. At(w, "createTenant") /\ FlushTenant(w)
  BY DEF CreateTenant
<1>2. /\ \/ HomeOf[call[w].user] = call[w].org
         \/ \E r \in OrgRoles : <<call[w].org, call[w].user, r>> \in held
      /\ call[w].org \in founded
  BY <1>1, AtAdmitted DEF Kept, Admitted
<1> QED BY <1>1, <1>2, FlushTenantKept

LEMMA CreateTenantAtHomeKept ==
  ASSUME Kept, NEW w \in Workers, CreateTenantAtHome(w)
  PROVE  Kept'
<1>1. At(w, "createAtHome")
  BY DEF CreateTenantAtHome
<1>2. HomeOf[call[w].user] = call[w].org
  BY <1>1, AtAdmitted DEF Kept, Admitted
<1>3. CASE HasHome(call[w].user) /\ FlushTenant(w)
  BY <1>1, <1>2, <1>3, FlushTenantKept DEF HasHome
<1>4. CASE End(w) /\ UNCHANGED <<founded, member, tenant, listed, writes, held>>
  BY <1>4, OnlyCallKept DEF End
<1> QED BY <1>3, <1>4 DEF CreateTenantAtHome

(* The rows of tenants change, and what is new is backed.                  *)
LEMMA TenantsKept ==
  ASSUME Kept, NEW w \in Workers, End(w), UNCHANGED <<founded, member, listed, held>>,
         tenant' \in [Tenants -> Row],
         \A t \in Tenants : tenant'[t] # tenant[t] =>
           /\ OfOrganization(t) \in founded
           /\ tenant'[t].creator # tenant[t].creator =>
                \/ HomeOf[tenant'[t].creator] = OfOrganization(t)
                \/ HasHadRole(OfOrganization(t), tenant'[t].creator)
  PROVE  Kept'
<1>1. Calls'
  BY MovedCalls DEF Kept, End
<1>2. \A t \in Tenants : tenant'[t].state # "none" => OfOrganization(t) \in founded
  BY DEF Kept, Backed
<1>3. ASSUME NEW t \in Tenants, tenant'[t].creator # Nobody
      PROVE  \/ HomeOf[tenant'[t].creator] = OfOrganization(t)
             \/ HasHadRole(OfOrganization(t), tenant'[t].creator)
  <2>1. CASE tenant'[t].creator = tenant[t].creator
    BY <1>3, <2>1 DEF Kept, Backed, AuthorityStaysInOrganization
  <2>2. CASE tenant'[t].creator # tenant[t].creator
    BY <2>2
  <2> QED BY <2>1, <2>2
<1>4. \A o \in Organizations, u \in People, r \in OrgRoles :
        member'[<<o, u, r>>] # Nobody => <<o, member'[<<o, u, r>>], GlobalAdmin>> \in held'
  BY DEF Kept, Backed, AuthorityStaysInOrganization
<1>5. AuthorityStaysInOrganization'
  BY <1>3, <1>4 DEF AuthorityStaysInOrganization, HasHadRole, OfOrganization
<1>6. Backed'
  BY <1>2, <1>5 DEF Kept, Backed, OfOrganization
<1> QED BY <1>1, <1>6 DEF Kept, Shaped

LEMMA CommitTenantKept ==
  ASSUME Kept, NEW w \in Workers, NEW isDefault \in BOOLEAN, CommitTenant(w, isDefault)
  PROVE  Kept'
<1> DEFINE c == call[w]
           extra == <<c.org, "extra">>
           row == [state |-> "live", creator |-> c.user, deletable |-> ~isDefault]
<1>1. /\ At(w, "commitTenant") /\ End(w) /\ UNCHANGED <<founded, member, listed, held>>
      /\ tenant' = [tenant EXCEPT ![extra] = row]
  BY DEF CommitTenant
<1>2. /\ HomeOf[c.user] = c.org \/ HasHadRole(c.org, c.user)
      /\ c.org \in founded /\ c.org \in Organizations /\ c.user \in People
  BY <1>1, AtAdmitted DEF Kept, Admitted, HasHadRole, Job
<1>3. extra \in Tenants /\ OfOrganization(extra) = c.org
  BY <1>2 DEF Tenants, OfOrganization
<1>4. row \in Row /\ row.creator = c.user
  BY <1>2 DEF Row
<1> HIDE DEF extra, row
<1>5. /\ tenant' \in [Tenants -> Row]
      /\ \A t \in Tenants : tenant'[t] = IF t = extra THEN row ELSE tenant[t]
  BY <1>1, <1>3, <1>4 DEF Kept, Shaped
<1>6. \A t \in Tenants : tenant'[t] # tenant[t] =>
        OfOrganization(t) = c.org /\ tenant'[t].creator = c.user
  BY <1>3, <1>4, <1>5
<1>7. \A t \in Tenants : tenant'[t] # tenant[t] =>
        /\ OfOrganization(t) \in founded
        /\ \/ HomeOf[tenant'[t].creator] = OfOrganization(t)
           \/ HasHadRole(OfOrganization(t), tenant'[t].creator)
  BY <1>2, <1>6
<1> QED BY <1>1, <1>5, <1>7, TenantsKept

LEMMA DeleteTenantKept ==
  ASSUME Kept, NEW w \in Workers, NEW t \in Tenants, DeleteTenant(w, t)
  PROVE  Kept'
<1> DEFINE c == [call[w] EXCEPT !.step = "commitDelete", !.seen = {t}]
<1>1. /\ At(w, "deleteTenant") /\ OfOrganization(t) = call[w].org
      /\ UNCHANGED <<founded, member, tenant, listed, held>>
      /\ Become(w, c) \/ End(w)
  BY DEF DeleteTenant
<1>2. Admitted(call[w], founded, held) /\ call[w] \in Job /\ call[w].org \in founded
  BY <1>1, AtAdmitted DEF Kept, Admitted
<1>3. /\ c \in Job /\ c.step = "commitDelete" /\ c.seen = {t}
      /\ c.user = call[w].user /\ c.org = call[w].org /\ c.context = call[w].context
  BY <1>2 DEF Job, Steps
<1> HIDE DEF c
<1>4. Admitted(c, founded, held)
  BY <1>1, <1>2, <1>3 DEF Admitted
<1>5. CASE Become(w, c)
  BY <1>1, <1>4, <1>5, OnlyCallKept
<1>6. CASE End(w)
  BY <1>1, <1>6, OnlyCallKept DEF End
<1> QED BY <1>1, <1>5, <1>6

LEMMA DeleteTenantByIdKept ==
  ASSUME Kept, NEW w \in Workers, NEW t \in Tenants, DeleteTenantById(w, t)
  PROVE  Kept'
<1> DEFINE c == [call[w] EXCEPT !.step = "commitDelete", !.seen = {t}]
<1>1. /\ At(w, "deleteById") /\ listed' \in {listed, NoEntry}
      /\ UNCHANGED <<founded, member, tenant, held>>
      /\ (tenant[t].state = "live" /\ Become(w, c)) \/ End(w)
  BY DEF DeleteTenantById
<1>2. Admitted(call[w], founded, held) /\ call[w] \in Job
  BY <1>1, AtAdmitted DEF Kept
<1>3. /\ c \in Job /\ c.step = "commitDelete" /\ c.seen = {t}
      /\ c.user = call[w].user /\ c.org = call[w].org /\ c.context = call[w].context
  BY <1>2 DEF Job, Steps
<1> HIDE DEF c
<1>4. CASE tenant[t].state = "live" /\ Become(w, c)
  <2>1. OfOrganization(t) \in founded
    BY <1>4 DEF Kept, Backed
  <2>2. Admitted(c, founded, held)
    BY <1>2, <1>3, <2>1 DEF Admitted
  <2> QED BY <1>1, <1>4, <2>2, OnlyCallKept
<1>5. CASE End(w)
  BY <1>1, <1>5, OnlyCallKept DEF End
<1> QED BY <1>1, <1>4, <1>5

LEMMA CommitDeleteKept ==
  ASSUME Kept, NEW w \in Workers, CommitDelete(w)
  PROVE  Kept'
<1>1. /\ At(w, "commitDelete") /\ End(w) /\ UNCHANGED <<founded, member, listed, held>>
      /\ tenant' = [t \in Tenants |->
           IF t \in call[w].seen THEN [tenant[t] EXCEPT !.state = "deleted"] ELSE tenant[t]]
  BY DEF CommitDelete
<1>2. \A t \in call[w].seen : OfOrganization(t) \in founded
  BY <1>1, AtAdmitted DEF Kept, Admitted
<1>3. ASSUME NEW t \in Tenants
      PROVE  [tenant[t] EXCEPT !.state = "deleted"] \in Row
             /\ [tenant[t] EXCEPT !.state = "deleted"].creator = tenant[t].creator
  BY DEF Kept, Shaped, Row
<1>4. tenant' \in [Tenants -> Row]
  BY <1>1, <1>3 DEF Kept, Shaped
<1>5. ASSUME NEW t \in Tenants, tenant'[t] # tenant[t]
      PROVE  OfOrganization(t) \in founded /\ tenant'[t].creator = tenant[t].creator
  BY <1>1, <1>2, <1>3, <1>5
<1> QED BY <1>1, <1>4, <1>5, TenantsKept

LEMMA LookupTenantsKept ==
  ASSUME Kept, NEW w \in Workers, LookupTenants(w)
  PROVE  Kept'
<1> DEFINE c == [call[w] EXCEPT !.step = AfterTenants(call[w]), !.seen = listed]
<1>1. At(w, "lookupTenants") /\ UNCHANGED <<founded, member, tenant, listed, held>>
  BY DEF LookupTenants
<1>2. Admitted(call[w], founded, held) /\ call[w] \in Job
  BY <1>1, AtAdmitted DEF Kept
<1>3. CASE listed # NoEntry /\ Become(w, c)
  <2>1. AfterTenants(call[w]) \in {"enrol", "deleteById"} /\ listed \in SUBSET Tenants
    BY <1>3 DEF AfterTenants, Kept, Shaped
  <2>2. /\ c \in Job /\ c.step \in {"enrol", "deleteById"}
        /\ c.user = call[w].user /\ c.org = call[w].org /\ c.context = call[w].context
    BY <1>2, <2>1 DEF Job, Steps
  <2> HIDE DEF c
  <2>3. Admitted(c, founded, held)
    BY <1>2, <2>2 DEF Admitted
  <2> QED BY <1>1, <1>3, <2>3, OnlyCallKept
<1>4. CASE Goto(w, "readTenants")
  BY <1>1, <1>4, GotoKept DEF Steps
<1> QED BY <1>3, <1>4 DEF LookupTenants

LEMMA ReadTenantsKept ==
  ASSUME Kept, NEW w \in Workers, ReadTenants(w)
  PROVE  Kept'
<1> DEFINE c == [call[w] EXCEPT !.step = "fillTenants", !.seen = TenantsOf(call[w].user)]
<1>1. /\ At(w, "readTenants") /\ Become(w, c)
      /\ UNCHANGED <<founded, member, tenant, listed, held>>
  BY DEF ReadTenants
<1>2. Admitted(call[w], founded, held) /\ call[w] \in Job
  BY <1>1, AtAdmitted DEF Kept
<1>3. TenantsOf(call[w].user) \subseteq Tenants
  BY DEF TenantsOf
<1>4. /\ c \in Job /\ c.step = "fillTenants"
      /\ c.user = call[w].user /\ c.org = call[w].org /\ c.context = call[w].context
  BY <1>2, <1>3 DEF Job, Steps
<1> HIDE DEF c
<1>5. Admitted(c, founded, held)
  BY <1>2, <1>4 DEF Admitted
<1> QED BY <1>1, <1>5, OnlyCallKept

LEMMA FillTenantsKept ==
  ASSUME Kept, NEW w \in Workers, FillTenants(w)
  PROVE  Kept'
<1>1. /\ At(w, "fillTenants") /\ Goto(w, AfterTenants(call[w]))
      /\ listed' \in {listed, call[w].seen}
      /\ AfterTenants(call[w]) \in {"enrol", "deleteById"}
      /\ UNCHANGED <<founded, member, tenant, held>>
  BY DEF FillTenants, AfterTenants
<1>2. call[w].seen \subseteq Tenants
  BY <1>1, AtAdmitted DEF Kept, Job
<1> QED BY <1>1, <1>2, GotoKept DEF Steps

LEMMA InitKept ==
  ASSUME AdminsAreUsers, Init
  PROVE  Kept
<1>1. PICK admin \in SystemAdmins :
        /\ member = [p \in Places |->
             IF p[1] \in founded /\ p[3] = GlobalAdmin /\ (p[2] = admin \/ HomeOf[p[2]] = p[1])
             THEN admin ELSE Nobody]
        /\ tenant = [t \in Tenants |->
             IF OfOrganization(t) \in founded /\ t[2] = "default"
             THEN [state |-> "live", creator |-> admin, deletable |-> FALSE] ELSE NoTenant]
  BY DEF Init
<1>2. admin \in People /\ GlobalAdmin \in OrgRoles
  BY DEF AdminsAreUsers, OrgRoles
<1>3. founded \subseteq Organizations /\ held = {p \in Places : member[p] # Nobody}
      /\ listed = NoEntry /\ call = [w \in Workers |-> NoJob]
  BY DEF Init
<1>4. member \in [Places -> People \cup {Nobody}]
  BY <1>1, <1>2
<1>5. tenant \in [Tenants -> Row]
  BY <1>1, <1>2 DEF Row, NoTenant
<1>6. ASSUME NEW o \in founded, admin # Nobody
      PROVE  <<o, admin, GlobalAdmin>> \in held
  <2>1. <<o, admin, GlobalAdmin>> \in Places
    BY <1>2, <1>3 DEF Places
  <2>2. member[<<o, admin, GlobalAdmin>>] = admin
    BY <1>1, <2>1
  <2> QED BY <1>3, <1>6, <2>1, <2>2
<1>7. ASSUME NEW o \in Organizations, NEW u \in People, NEW r \in OrgRoles,
             member[<<o, u, r>>] # Nobody
      PROVE  /\ <<o, u, r>> \in held /\ o \in founded
             /\ <<o, member[<<o, u, r>>], GlobalAdmin>> \in held
  <2>1. <<o, u, r>> \in Places
    BY DEF Places
  <2>2. o \in founded /\ member[<<o, u, r>>] = admin
    BY <1>1, <1>7, <2>1
  <2> QED BY <1>3, <1>6, <1>7, <2>1, <2>2
<1>8. ASSUME NEW t \in Tenants
      PROVE  /\ tenant[t].state # "none" => OfOrganization(t) \in founded
             /\ tenant[t].creator # Nobody =>
                  OfOrganization(t) \in founded /\ tenant[t].creator = admin
  BY <1>1 DEF NoTenant
<1>9. AuthorityStaysInOrganization
  BY <1>2, <1>6, <1>7, <1>8 DEF AuthorityStaysInOrganization, HasHadRole
<1> QED BY <1>3, <1>4, <1>5, <1>7, <1>8, <1>9 DEF Kept, Shaped, Calls, Calling, Backed

LEMMA NextKept ==
  ASSUME AdminsAreUsers, Kept, [Next]_vars
  PROVE  Kept'
<1>1. ASSUME NEW w \in Workers, Begin(w)
      PROVE  Kept'
  BY <1>1, BeginKept
<1>2. ASSUME NEW w \in Workers, Continue(w)
      PROVE  Kept'
  BY <1>2, CheckKept, CreateOrganizationKept, SetPrincipalKept, InsertMemberKept,
     DeletePrincipalKept, RemoveMemberKept, CreateTenantKept, CreateTenantAtHomeKept,
     CommitTenantKept, DeleteTenantKept, DeleteTenantByIdKept, CommitDeleteKept,
     LookupTenantsKept, ReadTenantsKept, FillTenantsKept, EnrolKept DEF Continue
<1>3. ASSUME UNCHANGED <<founded, member, tenant, call, held>>, listed' \in {listed, NoEntry}
      PROVE  Kept'
  <2>1. Backed'
    BY <1>3 DEF Kept, Backed, AuthorityStaysInOrganization, HasHadRole, OfOrganization
  <2>2. Calls'
    BY <1>3 DEF Kept, Calls, Calling
  <2> QED BY <1>3, <2>1, <2>2 DEF Kept, Shaped
<1> QED BY <1>1, <1>2, <1>3 DEF Next, Expire, vars

LEMMA AlwaysKept ==
  ASSUME AdminsAreUsers
  PROVE  Spec => []Kept
BY InitKept, NextKept, PTL DEF Spec

(* An organization that has not been founded has neither roles nor a       *)
(* default tenant, and requests are those of users.                        *)
THEOREM DirectoryTypeCorrect ==
  ASSUME AdminsAreUsers
  PROVE  Spec => []TypeOK
<1>1. Kept => TypeOK
  <2> SUFFICES ASSUME Kept PROVE TypeOK
    OBVIOUS
  <2>1. ASSUME NEW o \in Organizations, NEW u \in People, o \notin founded
        PROVE  RolesOf(u, o) = {} /\ tenant[<<o, "default">>].state = "none"
    <3>1. <<o, "default">> \in Tenants /\ OfOrganization(<<o, "default">>) = o
      BY DEF Tenants, OfOrganization
    <3> QED BY <2>1, <3>1 DEF Kept, Backed, RolesOf
  <2>2. \A w \in Workers : Calling(w) => call[w].user \in People
    BY DEF Kept, Calls, Admitted, Job
  <2> QED BY <2>1, <2>2 DEF Kept, Shaped, TypeOK
<1> QED BY <1>1, AlwaysKept, PTL

(* Whoever gave a role in an organization had (or has) GLOBAL_ADMIN there, *)
(* and whoever made a tenant of it is at home there or had (or has) a role *)
(* there, however many organizations he is in and whatever changed while he*)
(* was served (check_permissions with required_org_roles, POST /tenants,   *)
(* create_organization, _auto_enroll_system_admin).                        *)
THEOREM RolesComeFromTheOrganization ==
  ASSUME AdminsAreUsers
  PROVE  Spec => []AuthorityStaysInOrganization
<1>1. Kept => AuthorityStaysInOrganization
  BY DEF Kept, Backed
<1> QED BY <1>1, AlwaysKept, PTL
===============================================================================
