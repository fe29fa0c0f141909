------------------------------- MODULE Directory -------------------------------
(***************************************************************************)
(* Organizations, the roles of users in them, and their tenants.  A user   *)
(* belongs to the organization of his identity tenant (if it has been      *)
(* founded); the routes name an organization of their own.  A request is   *)
(* authenticated (the roles at home are read), admitted and then handled,  *)
(* any others' steps in between.                                           *)
(***************************************************************************)
EXTENDS Naturals, FiniteSets

CONSTANTS
  People,
  Organizations,
  HomeOf,        \* user -> the organization of his identity tenant
  SystemAdmins,  \* the users that _is_system_admin accepts
  Given,         \* the roles that requests ask for
  Viewer,        \* the user whose cached tenants are watched
  MaxWrites,     \* bounds the requests that change something
  Workers,       \* requests in progress at a time; the first free one serves the next
  NoJob, NoEntry, Nobody

VARIABLES
  founded,     \* the organizations that exist
  member,      \* organization, user, role -> who gave it, or Nobody
  tenant,      \* a tenant's row: whether it exists, by whom, may it be deleted?
  listed,      \* Viewer's cached tenants (tenants:user:U:with_permissions)
  call,        \* worker -> the request it serves
  writes,      \* writing requests still to come
  held         \* history: the roles that anybody has ever had

vars == <<founded, member, tenant, listed, call, writes, held>>

GlobalAdmin == "ORGANISATION_GLOBAL_ADMIN"
TenantAdmin == "ORGANISATION_TENANT_ADMIN"
TenantCreator == "ORGANISATION_TENANT_CREATOR"
OrgRoles == {GlobalAdmin, TenantAdmin, TenantCreator}

Places == Organizations \X People \X OrgRoles
Tenants == Organizations \X {"default", "extra"}
OfOrganization(t) == t[1]
NoTenant == [state |-> "none", creator |-> Nobody, deletable |-> TRUE]

RolesOf(u, o) == {r \in OrgRoles : member[<<o, u, r>>] # Nobody}
HasHome(u) == HomeOf[u] \in founded
Context(u) == IF HasHome(u) THEN RolesOf(u, HomeOf[u]) ELSE {}
TenantsOf(u) == {t \in Tenants : tenant[t].state = "live" /\ tenant[t].creator = u}
Governed(o) == \E u \in People : GlobalAdmin \in RolesOf(u, o)

(* The required_org_roles of the routes under /organizations.  The founding*)
(* has none, nor have the routes that name no organization: /me, POST      *)
(* /tenants and DELETE /tenants/{id}.                                      *)
Required ==
  [grant |-> {GlobalAdmin}, revoke |-> {GlobalAdmin}, createTenant |-> OrgRoles,
   deleteTenant |-> {GlobalAdmin, TenantAdmin}]
AtHome == {"me", "createAtHome", "deleteById"}
Operations == DOMAIN Required \cup AtHome \cup {"found"}
Writes == Operations \ {"me"}

Calling(w) == call[w] # NoJob
At(w, step) == Calling(w) /\ call[w].step = step
Become(w, c) == call' = [call EXCEPT ![w] = c]
Goto(w, step) == Become(w, [call[w] EXCEPT !.step = step])
End(w) == Become(w, NoJob)
Give(o, u, r, giver) ==
  /\ member' = [member EXCEPT ![<<o, u, r>>] = giver]
  /\ held' = held \cup {<<o, u, r>>}

-----------------------------------------------------------------------------
(* The roles that are required are checked; /me and a route to one tenant  *)
(* begin with the user's tenants, but what /me reads of others than Viewer *)
(* nobody watches.                                                         *)
FirstStep(u, op) ==
  CASE op \in DOMAIN Required -> "check"
    [] op = "me" /\ u # Viewer -> "enrol"
    [] op = "deleteById" \/ (op = "me" /\ u = Viewer) -> "lookupTenants"
    [] op \in {"found", "createAtHome"} -> op

(* authenticate                                                            *)
Authenticate(w, u, op, o, whom, role) ==
  /\ ~Calling(w) /\ \A v \in Workers : v < w => Calling(v)
  /\ op \in {"grant", "revoke"} \/ (whom = u /\ role = GlobalAdmin)
  /\ op \in AtHome => o = HomeOf[u]
  /\ IF op \in Writes THEN writes > 0 /\ writes' = writes - 1 ELSE UNCHANGED writes
  /\ Become(w, [step |-> FirstStep(u, op),
                op |-> op, user |-> u, org |-> o, whom |-> whom, role |-> role,
                context |-> Context(u), seen |-> {}])
  /\ UNCHANGED <<founded, member, tenant, listed, held>>

(* check_permissions: the roles read at home will do if home it is, else   *)
(* the roles in the organization of the path are read.                     *)
(* Mutated: the roles at home will do for any organization.                *)
CheckAnywhere(w) ==
  LET c == call[w] IN
  /\ At(w, "check")
  /\ IF (c.context \cup RolesOf(c.user, c.org)) \cap Required[c.op] # {} /\ c.org \in founded
     THEN Goto(w, c.op) ELSE End(w)
  /\ UNCHANGED <<founded, member, tenant, listed, writes, held>>
Check(w) ==
  LET c == call[w]
      roles == RolesOf(c.user, c.org) \cup (IF HomeOf[c.user] = c.org THEN c.context ELSE {})
  IN
  /\ At(w, "check")
  /\ IF roles \cap Required[c.op] # {} /\ c.org \in founded THEN Goto(w, c.op) ELSE End(w)
  /\ UNCHANGED <<founded, member, tenant, listed, writes, held>>

-----------------------------------------------------------------------------
(* create_organization, by system administrators; uq_org_idp.              *)
CreateOrganization(w) ==
  LET c == call[w] IN
  /\ At(w, "found")
  /\ IF c.user \in SystemAdmins /\ c.org \notin founded
     THEN /\ founded' = founded \cup {c.org}
          /\ tenant' = [tenant EXCEPT ![<<c.org, "default">>] =
               [state |-> "live", creator |-> c.user, deletable |-> FALSE]]
          /\ Give(c.org, c.user, GlobalAdmin, c.user)
     ELSE UNCHANGED <<founded, tenant, member, held>>
  /\ End(w)
  /\ UNCHANGED <<listed, writes>>

(* set_principal: 409 for a role that is there.                            *)
SetPrincipal(w) ==
  /\ At(w, "grant")
  /\ IF call[w].role \in RolesOf(call[w].whom, call[w].org)
     THEN End(w) ELSE Goto(w, "insert")
  /\ UNCHANGED <<founded, member, tenant, listed, writes, held>>

(* uq_org_member                                                           *)
InsertMember(w) ==
  LET c == call[w] IN
  /\ At(w, "insert")
  /\ IF c.role \in RolesOf(c.whom, c.org) THEN UNCHANGED <<member, held>>
     ELSE Give(c.org, c.whom, c.role, c.user)
  /\ End(w)
  /\ UNCHANGED <<founded, tenant, listed, writes>>

(* delete_principal: 404 for a role that is not there.  The row found is   *)
(* deleted by its id, so not if the role was taken and given again since.  *)
DeletePrincipal(w) ==
  /\ At(w, "revoke")
  /\ IF call[w].role \in RolesOf(call[w].whom, call[w].org)
     THEN Goto(w, "remove") ELSE End(w)
  /\ UNCHANGED <<founded, member, tenant, listed, writes, held>>

RemoveMember(w) ==
  LET c == call[w] IN
  /\ At(w, "remove")
  /\ \/ member' = [member EXCEPT ![<<c.org, c.whom, c.role>>] = Nobody]
     \/ UNCHANGED member
  /\ End(w)
  /\ UNCHANGED <<founded, tenant, listed, writes, held>>

-----------------------------------------------------------------------------
(* The creator's entry is wiped between the flush (which waits for         *)
(* another's row of that name, uq_tenant_org_name_env) and the commit.     *)
FlushTenant(w) ==
  /\ \A v \in Workers : At(v, "commitTenant") => call[v].org # call[w].org
  /\ IF tenant[<<call[w].org, "extra">>].state = "none"
     THEN /\ listed' = IF call[w].user = Viewer THEN NoEntry ELSE listed
          /\ Goto(w, "commitTenant")
     ELSE End(w) /\ UNCHANGED listed
  /\ UNCHANGED <<founded, member, tenant, writes, held>>

(* OrganizationHandler.create_tenant, in the organization of the path.     *)
CreateTenant(w) == At(w, "createTenant") /\ FlushTenant(w)

(* TenantHandler.create_tenant: POST /tenants is for everyone, but makes   *)
(* tenants of the organization the caller is at home in only, if there is  *)
(* one.                                                                    *)
CreateTenantAtHome(w) ==
  /\ At(w, "createAtHome")
  /\ \/ HasHome(call[w].user) /\ FlushTenant(w)
     \/ /\ ~HasHome(call[w].user) /\ End(w)
        /\ UNCHANGED <<founded, member, tenant, listed, writes, held>>

CommitTenant(w, isDefault) ==
  /\ At(w, "commitTenant")
  /\ call[w].op = "createAtHome" => ~isDefault
  /\ tenant' = [tenant EXCEPT ![<<call[w].org, "extra">>] =
       [state |-> "live", creator |-> call[w].user, deletable |-> ~isDefault]]
  /\ End(w)
  /\ UNCHANGED <<founded, member, listed, writes, held>>

(* delete_tenant_in_organization: only the list of all tenants is wiped.   *)
DeleteTenant(w, t) ==
  /\ At(w, "deleteTenant")
  /\ OfOrganization(t) = call[w].org
  /\ IF tenant[t].state = "live" /\ tenant[t].deletable
     THEN Become(w, [call[w] EXCEPT !.step = "commitDelete", !.seen = {t}])
     ELSE End(w)
  /\ UNCHANGED <<founded, member, tenant, listed, writes, held>>

(* TenantHandler.delete_tenant, admitted (authenticate, check_permissions) *)
(* by what the roles read at home or the tenants read before allow: all    *)
(* users' entries are wiped, and then the row's deletion is committed.     *)
DeleteTenantById(w, t) ==
  LET c == call[w]
      admitted == c.context \cap {GlobalAdmin, TenantAdmin} # {} \/ t \in c.seen
  IN
  /\ At(w, "deleteById")
  /\ IF admitted /\ tenant[t].state = "live" /\ tenant[t].deletable
     THEN /\ listed' = NoEntry
          /\ Become(w, [c EXCEPT !.step = "commitDelete", !.seen = {t}])
     ELSE End(w) /\ UNCHANGED listed
  /\ UNCHANGED <<founded, member, tenant, writes, held>>

CommitDelete(w) ==
  /\ At(w, "commitDelete")
  /\ tenant' = [t \in Tenants |->
       IF t \in call[w].seen THEN [tenant[t] EXCEPT !.state = "deleted"] ELSE tenant[t]]
  /\ End(w)
  /\ UNCHANGED <<founded, member, listed, writes, held>>

-----------------------------------------------------------------------------
(* The user's tenants (others' than Viewer's are read from the rows), then *)
(* get_me's enrolment or the handler.                                      *)
AfterTenants(c) == IF c.op = "me" THEN "enrol" ELSE "deleteById"

LookupTenants(w) ==
  LET c == call[w] IN
  /\ At(w, "lookupTenants")
  /\ IF c.user = Viewer /\ listed # NoEntry
     THEN Become(w, [c EXCEPT !.step = AfterTenants(c), !.seen = listed])
     ELSE Goto(w, "readTenants")
  /\ UNCHANGED <<founded, member, tenant, listed, writes, held>>

ReadTenants(w) ==
  /\ At(w, "readTenants")
  /\ Become(w, [call[w] EXCEPT !.step = "fillTenants", !.seen = TenantsOf(call[w].user)])
  /\ UNCHANGED <<founded, member, tenant, listed, writes, held>>

FillTenants(w) ==
  LET c == call[w] IN
  /\ At(w, "fillTenants")
  /\ listed' = IF c.user = Viewer THEN c.seen ELSE listed
  /\ Goto(w, AfterTenants(c))
  /\ UNCHANGED <<founded, member, tenant, writes, held>>

(* _auto_enroll_system_admin, if the roles read at first were none; the    *)
(* request fails if the row has come meanwhile (uq_org_member).            *)
(* Mutated: nobody is enrolled.                                            *)
EnrolNobody(w) ==
  /\ At(w, "enrol")
  /\ End(w)
  /\ UNCHANGED <<founded, member, tenant, listed, writes, held>>
Enrol(w) ==
  LET u == call[w].user o == call[w].org IN
  /\ At(w, "enrol")
  /\ IF /\ u \in SystemAdmins /\ o \in founded /\ call[w].context = {}
        /\ GlobalAdmin \notin RolesOf(u, o)
     THEN Give(o, u, GlobalAdmin, u)
     ELSE UNCHANGED <<member, held>>
  /\ End(w)
  /\ UNCHANGED <<founded, tenant, listed, writes>>

(* The entry lives for 300 seconds.                                        *)
(* Mutated: it is kept for good.                                           *)
ExpireNever ==
  /\ FALSE
  /\ UNCHANGED vars
Expire ==
  /\ listed # NoEntry
  /\ listed' = NoEntry
  /\ UNCHANGED <<founded, member, tenant, call, writes, held>>

-----------------------------------------------------------------------------
(* His own and perhaps other organizations have been founded by a system   *)
(* administrator, who has made those that are at home there administrators.*)
Init ==
  /\ founded \in SUBSET Organizations
  /\ \E admin \in SystemAdmins :
       /\ HomeOf[admin] \in founded
       /\ member = [p \in Places |->
            IF p[1] \in founded /\ p[3] = GlobalAdmin /\ (p[2] = admin \/ HomeOf[p[2]] = p[1])
            THEN admin ELSE Nobody]
       /\ tenant = [t \in Tenants |->
            IF OfOrganization(t) \in founded /\ t[2] = "default"
            THEN [state |-> "live", creator |-> admin, deletable |-> FALSE] ELSE NoTenant]
  /\ held = {p \in Places : member[p] # Nobody}
  /\ listed = NoEntry
  /\ call = [w \in Workers |-> NoJob]
  /\ writes = MaxWrites

Begin(w) ==
  \E u, whom \in People, op \in Operations, o \in Organizations, r \in Given :
    Authenticate(w, u, op, o, whom, r)

Continue(w) ==
  \/ Check(w) \/ CreateOrganization(w) \/ SetPrincipal(w) \/ InsertMember(w)
  \/ DeletePrincipal(w) \/ RemoveMember(w) \/ CreateTenant(w) \/ CreateTenantAtHome(w)
  \/ \E isDefault \in BOOLEAN : CommitTenant(w, isDefault)
  \/ \E t \in Tenants : DeleteTenant(w, t) \/ DeleteTenantById(w, t)
  \/ CommitDelete(w) \/ LookupTenants(w) \/ ReadTenants(w) \/ FillTenants(w)
  \/ Enrol(w)

Next == (\E w \in Workers : Begin(w) \/ Continue(w)) \/ Expire
Spec == Init /\ [][Next]_vars

-----------------------------------------------------------------------------
TypeOK ==
  /\ founded \subseteq Organizations
  /\ \A o \in Organizations, u \in People :
       o \notin founded => RolesOf(u, o) = {} /\ tenant[<<o, "default">>].state = "none"
  /\ listed = NoEntry \/ listed \subseteq Tenants
  /\ \A w \in Workers : Calling(w) => call[w].user \in People

HasHadRole(o, u) == \E r \in OrgRoles : <<o, u, r>> \in held

(* Whoever gave a role in an organization had (or has) GLOBAL_ADMIN there, *)
(* and whoever made a tenant of it is at home there (POST /tenants) or had *)
(* (or has) a role there, whatever he is elsewhere and whatever changed    *)
(* while he was served (check_permissions with required_org_roles).        *)
AuthorityStaysInOrganization ==
  /\ \A o \in Organizations, u \in People, r \in OrgRoles :
       member[<<o, u, r>>] # Nobody => <<o, member[<<o, u, r>>], GlobalAdmin>> \in held
  /\ \A t \in Tenants : tenant[t].creator # Nobody =>
       \/ HomeOf[tenant[t].creator] = OfOrganization(t)
       \/ HasHadRole(OfOrganization(t), tenant[t].creator)

(* That he had a role there in any case, as POST /organizations/{id}/      *)
(* tenants requires, does not hold: POST /tenants asks for none.           *)
TenantsNeedARole ==
  \A t \in Tenants : tenant[t].creator # Nobody =>
    HasHadRole(OfOrganization(t), tenant[t].creator)

(* Nor does it hold that whoever deletes a tenant is at home in its        *)
(* organization, had a role there or made the tenant: DELETE /tenants/{id} *)
(* is open to the administrators of any organization.                      *)
DeletionsStayInOrganization ==
  \A w \in Workers : At(w, "commitDelete") =>
    \A t \in call[w].seen :
      \/ HomeOf[call[w].user] = OfOrganization(t)
      \/ HasHadRole(OfOrganization(t), call[w].user)
      \/ tenant[t].creator = call[w].user

(* An organization that has lost its last administrator gets one back if a *)
(* system administrator of its identity tenant keeps signing in, unless he *)
(* has another role there and so is not enrolled (get_me).                 *)
SigningIn(u) == \E w \in Workers : At(w, "enrol") /\ call[w].user = u
OrganizationsRecover ==
  \A u \in SystemAdmins :
    []<>SigningIn(u) =>
      <>[](HomeOf[u] \in founded => Governed(HomeOf[u]) \/ RolesOf(u, HomeOf[u]) # {})

(* Once the requests that write have ended, a user is at last no more      *)
(* shown a tenant that was deleted (delete_tenant_in_organization leaves   *)
(* the users' entries to their TTL).                                       *)
DeletedTenantsForgotten ==
  <>[](listed # NoEntry => \A t \in listed : tenant[t].state # "deleted")
===============================================================================
