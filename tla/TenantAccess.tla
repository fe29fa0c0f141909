---------------------------- MODULE TenantAccess ----------------------------
(***************************************************************************)
(* Who holds which role on one tenant, and what Redis remembers of it.     *)
(*                                                                         *)
(* PostgreSQL holds the rows tenant_members and custom_group_members.  A   *)
(* request authenticates a user by resolving the user's groups and then    *)
(* the roles of all its principals, each through a Redis entry of its own  *)
(* (identity:groups:user:U, tenants:user:U:with_permissions).  The write   *)
(* handlers change the rows and delete the entries of the users they       *)
(* think are affected.  Rows and entries are shared by every process of    *)
(* the service; a worker is one process serving one request, and its steps *)
(* (one per Redis command or database transaction) interleave with those   *)
(* of the others.                                                          *)
(***************************************************************************)
EXTENDS FiniteSets

CONSTANTS
  Users,            \* IDENTITY_USER principals
  CustomGroups,     \* ids (uuid4) a custom group can be given
  IdentityGroups,   \* IDENTITY_GROUP principals
  Roles,            \* TenantRolesEnum
  Workers,          \* processes that serve requests
  Admin,            \* the user on whose behalf the write handlers run
  AdminRole,        \* TENANT_GLOBAL_ADMIN
  IdpGroupsOf,      \* the identity provider's answer: user -> identity groups
  Faults,           \* may Redis commands fail and workers die?
  NoValue           \* no Redis entry

Principals == Users \cup CustomGroups \cup IdentityGroups

ASSUME KindsDisjoint ==
  /\ Users \cap CustomGroups = {}
  /\ Users \cap IdentityGroups = {}
  /\ CustomGroups \cap IdentityGroups = {}
ASSUME ConstantTypes ==
  /\ Admin \in Users
  /\ AdminRole \in Roles
  /\ IdpGroupsOf \in [Users -> SUBSET IdentityGroups]
  /\ Faults \in BOOLEAN
  /\ \A gs \in SUBSET CustomGroups : gs # NoValue
  /\ \A rs \in SUBSET Roles : rs # NoValue

VARIABLES
  members,        \* committed tenant_members rows: <<principal, role>>
  groupState,     \* the custom group's row in principals
  groupMembers,   \* committed custom_group_members rows: <<group, user>>
  groupsCache,    \* identity:groups:user:U, its custom groups
  rolesCache,     \* tenants:user:U:with_permissions, its roles
  job             \* what each worker is doing

vars == <<members, groupState, groupMembers, groupsCache, rolesCache, job>>
database == <<members, groupState, groupMembers>>
caches == <<groupsCache, rolesCache>>

-----------------------------------------------------------------------------
(* A worker's job: the step it is at and the locals of the handler.        *)

ReaderSteps ==
  {"groups", "groupsDb", "groupsFill", "roles", "rolesDb", "rolesFill"}
WriterSteps ==
  {"affected", "wipeGroups", "wipeRoles", "clearRoles", "clearGroups",
   "commitDelete"}

Job ==
  [pc     : {"idle"} \cup ReaderSteps \cup WriterSteps,
   user   : Users,                        \* the user resolved, or being cleared
   cached : BOOLEAN,                      \* X-Use-Cache
   groups : SUBSET CustomGroups,          \* user.groups of the request
   roles  : SUBSET Roles,                 \* user.tenants of the request
   row    : Principals \X Roles,          \* the row a role handler works on
   delete : BOOLEAN,                      \* a deletion of row awaits its commit
   todo   : SUBSET Users,                 \* users_to_invalidate
   actor  : BOOLEAN]                      \* the acting user's entries come last

Idle ==
  [pc |-> "idle", user |-> Admin, cached |-> FALSE, groups |-> {},
   roles |-> {}, row |-> <<Admin, AdminRole>>, delete |-> FALSE,
   todo |-> {}, actor |-> FALSE]

Become(w, j) == job' = [job EXCEPT ![w] = j]
Goto(w, step) == Become(w, [job[w] EXCEPT !.pc = step])
At(w, step) == job[w].pc = step

-----------------------------------------------------------------------------
(* Reading the database.                                                   *)

Live(g) == groupState[g] = "live"
GroupsOf(u) == {g \in CustomGroups : <<g, u>> \in groupMembers}
(* Mutated: the filter on the user's principals is lost.                   *)
RolesViaAnyone(ps) == {r \in Roles : \E p \in Principals : <<p, r>> \in members}
RolesVia(ps) == {r \in Roles : \E p \in ps : <<p, r>> \in members}
PrincipalsOf(u, gs) == {u} \cup IdpGroupsOf[u] \cup gs
RolesOf(u) == RolesVia(PrincipalsOf(u, GroupsOf(u)))

(* RedisCache swallows every error: a failed get reads as a miss, a failed *)
(* set or delete does nothing.                                             *)
Holds(cache, u) == cache[u] # NoValue
Stored(cache, u, v) == {[cache EXCEPT ![u] = v]} \cup (IF Faults THEN {cache} ELSE {})
Wiped(cache) ==
  {[u \in Users |-> NoValue]} \cup (IF Faults THEN {cache} ELSE {})

-----------------------------------------------------------------------------
(* A request: ContextIdentityUser.groups, then .tenants.                   *)

BeginRequest(w, u, useCache) ==
  /\ At(w, "idle")
  /\ Become(w, [Idle EXCEPT !.pc = "groups", !.user = u, !.cached = useCache])
  /\ UNCHANGED <<database, caches>>

GroupsHit(w) ==
  LET u == job[w].user IN
  /\ At(w, "groups")
  /\ job[w].cached
  /\ Holds(groupsCache, u)
  /\ Become(w, [job[w] EXCEPT !.pc = "roles", !.groups = groupsCache[u]])
  /\ UNCHANGED <<database, caches>>

GroupsMiss(w) ==
  /\ At(w, "groups")
  /\ ~job[w].cached \/ ~Holds(groupsCache, job[w].user) \/ Faults
  /\ Goto(w, "groupsDb")
  /\ UNCHANGED <<database, caches>>

ReadGroups(w) ==
  /\ At(w, "groupsDb")
  /\ Become(w, [job[w] EXCEPT !.pc = "groupsFill", !.groups = GroupsOf(job[w].user)])
  /\ UNCHANGED <<database, caches>>

FillGroups(w) ==
  /\ At(w, "groupsFill")
  /\ groupsCache' \in Stored(groupsCache, job[w].user, job[w].groups)
  /\ Goto(w, "roles")
  /\ UNCHANGED <<database, rolesCache>>

RolesHit(w) ==
  /\ At(w, "roles")
  /\ job[w].cached
  /\ Holds(rolesCache, job[w].user)
  /\ Become(w, Idle)
  /\ UNCHANGED <<database, caches>>

RolesMiss(w) ==
  /\ At(w, "roles")
  /\ ~job[w].cached \/ ~Holds(rolesCache, job[w].user) \/ Faults
  /\ Goto(w, "rolesDb")
  /\ UNCHANGED <<database, caches>>

ReadRoles(w) ==
  /\ At(w, "rolesDb")
  /\ Become(w, [job[w] EXCEPT !.pc = "rolesFill",
                !.roles = RolesVia(PrincipalsOf(job[w].user, job[w].groups))])
  /\ UNCHANGED <<database, caches>>

FillRoles(w) ==
  /\ At(w, "rolesFill")
  /\ rolesCache' \in Stored(rolesCache, job[w].user, job[w].roles)
  /\ Become(w, Idle)
  /\ UNCHANGED <<database, groupsCache>>

Request(w) ==
  \/ GroupsHit(w) \/ GroupsMiss(w) \/ ReadGroups(w) \/ FillGroups(w)
  \/ RolesHit(w) \/ RolesMiss(w) \/ ReadRoles(w) \/ FillRoles(w)

(* Mutated: the roles entry is stored without a TTL.                       *)
ExpireRolesNever(u) == Holds(rolesCache, u) /\ FALSE /\ UNCHANGED vars

(* The entries carry a TTL of 300 s.                                       *)
ExpireGroups(u) ==
  /\ Holds(groupsCache, u)
  /\ groupsCache' = [groupsCache EXCEPT ![u] = NoValue]
  /\ UNCHANGED <<database, rolesCache, job>>
ExpireRoles(u) ==
  /\ Holds(rolesCache, u)
  /\ rolesCache' = [rolesCache EXCEPT ![u] = NoValue]
  /\ UNCHANGED <<database, groupsCache, job>>

-----------------------------------------------------------------------------
(* The write handlers.                                                     *)

(* A principal that is a custom group must have been created before.       *)
Known(p) == p \in CustomGroups => Live(p)

(* set_principal_permission commits, then invalidates.                     *)
SetPermission(w, p, r) ==
  /\ At(w, "idle")
  /\ Known(p)
  /\ members' = members \cup {<<p, r>>}
  /\ Become(w, [Idle EXCEPT !.pc = "affected", !.row = <<p, r>>, !.actor = TRUE])
  /\ UNCHANGED <<groupState, groupMembers, caches>>

(* The flushed, uncommitted DELETE holds the row's lock.                   *)
Locked(row) == \E w \in Workers : job[w].delete /\ job[w].row = row

(* delete_principal_permission flushes the DELETE, invalidates inside the  *)
(* session, and is committed by the session's exit (CommitDelete).         *)
DeletePermission(w, p, r) ==
  /\ At(w, "idle")
  /\ ~Locked(<<p, r>>)
  /\ Become(w, [Idle EXCEPT !.pc = "affected", !.row = <<p, r>>,
                            !.delete = <<p, r>> \in members])
  /\ UNCHANGED <<database, caches>>

CommitDelete(w) ==
  /\ At(w, "commitDelete")
  /\ job[w].delete
  /\ members' = members \ {job[w].row}
  /\ Become(w, Idle)
  /\ UNCHANGED <<groupState, groupMembers, caches>>

CreateGroup(w, g) ==
  /\ At(w, "idle")
  /\ groupState[g] = "unused"
  /\ groupState' = [groupState EXCEPT ![g] = "live"]
  /\ groupMembers' = groupMembers \cup {<<g, Admin>>}
  /\ Become(w, [Idle EXCEPT !.pc = "clearRoles", !.todo = {Admin}])
  /\ UNCHANGED <<members, caches>>

SetMember(w, g, u) ==
  /\ At(w, "idle")
  /\ Live(g)
  /\ groupMembers' = groupMembers \cup {<<g, u>>}
  /\ Become(w, [Idle EXCEPT !.pc = "clearRoles", !.todo = {u}, !.actor = TRUE])
  /\ UNCHANGED <<members, groupState, caches>>

DeleteMember(w, g, u) ==
  /\ At(w, "idle")
  /\ Live(g)
  /\ <<g, u>> \in groupMembers
  /\ groupMembers' = groupMembers \ {<<g, u>>}
  /\ Become(w, [Idle EXCEPT !.pc = "clearRoles", !.todo = {u}])
  /\ UNCHANGED <<members, groupState, caches>>

(* Mutated: the role rows of the group survive it.                         *)
DeleteGroupNoCascade(w, g) ==
  /\ At(w, "idle")
  /\ Live(g)
  /\ groupState' = [groupState EXCEPT ![g] = "deleted"]
  /\ groupMembers' = {m \in groupMembers : m[1] # g}
  /\ Become(w, [Idle EXCEPT !.pc = "wipeRoles"])
  /\ UNCHANGED <<members, caches>>

(* Deleting the principal cascades to its memberships and its roles.  Of   *)
(* the two kinds of entries, the pattern "*user:*:*" matches only          *)
(* tenants:user:U:with_permissions.                                        *)
DeleteGroup(w, g) ==
  /\ At(w, "idle")
  /\ Live(g)
  /\ \A r \in Roles : ~Locked(<<g, r>>)
  /\ groupState' = [groupState EXCEPT ![g] = "deleted"]
  /\ groupMembers' = {m \in groupMembers : m[1] # g}
  /\ members' = {m \in members : m[1] # g}
  /\ Become(w, [Idle EXCEPT !.pc = "wipeRoles"])
  /\ UNCHANGED caches

-----------------------------------------------------------------------------
(* Invalidation, one Redis command per step.                               *)

(* What follows once the entries of todo are cleared: the acting user's    *)
(* own, then the commit at the session's exit if a deletion is pending.    *)
Proceed(j) ==
  IF j.todo # {} THEN [j EXCEPT !.pc = "clearRoles"]
  ELSE IF j.actor THEN [j EXCEPT !.pc = "clearRoles", !.todo = {Admin}, !.actor = FALSE]
  ELSE IF j.delete THEN [j EXCEPT !.pc = "commitDelete"]
  ELSE Idle

(* Mutated: the group's id goes where its members' ids should.             *)
AffectedUnresolved(w) ==
  /\ At(w, "affected")
  /\ Become(w, Proceed([job[w] EXCEPT !.todo = {job[w].row[1]}]))
  /\ UNCHANGED <<database, caches>>
(* Mutated: the members of a custom group are forgotten.                   *)
AffectedNoMembers(w) ==
  LET p == job[w].row[1] IN
  /\ At(w, "affected")
  /\ IF p \in IdentityGroups THEN Goto(w, "wipeGroups")
     ELSE Become(w, Proceed([job[w] EXCEPT !.todo = {p} \cap Users]))
  /\ UNCHANGED <<database, caches>>

(* _invalidate_cache_for_principal: users_to_invalidate by principal type. *)
(* The code takes the type that the caller sends and does not compare it   *)
(* with the principal's row; here callers send the principal's own.        *)
Affected(w) ==
  LET p == job[w].row[1] IN
  /\ At(w, "affected")
  /\ \/ /\ p \in Users
        /\ Become(w, Proceed([job[w] EXCEPT !.todo = {p}]))
     \/ /\ p \in CustomGroups
        /\ Become(w, Proceed([job[w] EXCEPT !.todo =
                                {u \in Users : <<p, u>> \in groupMembers}]))
     \/ /\ p \in IdentityGroups
        /\ Goto(w, "wipeGroups")
  /\ UNCHANGED <<database, caches>>

WipeGroups(w) ==
  /\ At(w, "wipeGroups")
  /\ groupsCache' \in Wiped(groupsCache)
  /\ Goto(w, "wipeRoles")
  /\ UNCHANGED <<database, rolesCache>>

WipeRoles(w) ==
  /\ At(w, "wipeRoles")
  /\ rolesCache' \in Wiped(rolesCache)
  /\ Become(w, Proceed(job[w]))
  /\ UNCHANGED <<database, groupsCache>>

(* clear_cache_for_user deletes the roles entry first, then the groups     *)
(* entry it was computed from.                                             *)
ClearRoles(w) ==
  /\ At(w, "clearRoles")
  /\ \E u \in job[w].todo :
       /\ rolesCache' \in Stored(rolesCache, u, NoValue)
       /\ Become(w, [job[w] EXCEPT !.pc = "clearGroups", !.user = u])
  /\ UNCHANGED <<database, groupsCache>>

ClearGroups(w) ==
  /\ At(w, "clearGroups")
  /\ groupsCache' \in Stored(groupsCache, job[w].user, NoValue)
  /\ Become(w, Proceed([job[w] EXCEPT !.todo = @ \ {job[w].user}]))
  /\ UNCHANGED <<database, rolesCache>>

Invalidate(w) ==
  \/ Affected(w) \/ WipeGroups(w) \/ WipeRoles(w)
  \/ ClearRoles(w) \/ ClearGroups(w) \/ CommitDelete(w)

(* A worker dies: its session is rolled back, its locals are gone.         *)
Crash(w) ==
  /\ Faults
  /\ ~At(w, "idle")
  /\ Become(w, Idle)
  /\ UNCHANGED <<database, caches>>

-----------------------------------------------------------------------------
Init ==
  /\ members = {<<Admin, AdminRole>>}
  /\ groupState = [g \in CustomGroups |-> "unused"]
  /\ groupMembers = {}
  /\ groupsCache = [u \in Users |-> NoValue]
  /\ rolesCache = [u \in Users |-> NoValue]
  /\ job = [w \in Workers |-> Idle]

Write(w) ==
  \/ \E p \in Principals, r \in Roles :
       SetPermission(w, p, r) \/ DeletePermission(w, p, r)
  \/ \E g \in CustomGroups : CreateGroup(w, g) \/ DeleteGroup(w, g)
  \/ \E g \in CustomGroups, u \in Users : SetMember(w, g, u) \/ DeleteMember(w, g, u)

Begin(w) == \E u \in Users, c \in BOOLEAN : BeginRequest(w, u, c)

Next ==
  \/ \E w \in Workers : Begin(w) \/ Request(w) \/ Write(w) \/ Invalidate(w) \/ Crash(w)
  \/ \E u \in Users : ExpireGroups(u) \/ ExpireRoles(u)

Spec == Init /\ [][Next]_vars

(* A handler that has started is run to its end, and Redis drops every     *)
(* entry whose TTL has passed; nothing obliges anyone to send a request.   *)
Fairness ==
  /\ \A w \in Workers : WF_vars(Request(w)) /\ WF_vars(Invalidate(w))
  /\ \A u \in Users : WF_vars(ExpireGroups(u)) /\ WF_vars(ExpireRoles(u))
FairSpec == Spec /\ Fairness

(* No request is served while a write handler is in progress.  Requests    *)
(* still interleave with requests, and write handlers with write handlers. *)
Reading(w) == job[w].pc \in ReaderSteps
Writing(w) == job[w].pc \in WriterSteps
Apart == ~ \E w1, w2 \in Workers : Reading(w1) /\ Writing(w2)
ApartSpec == Init /\ [][Next /\ Apart']_vars

(* A request, once begun, is served to its end before another worker moves *)
(* (no fill is ever in flight): what is left are the orders of the steps   *)
(* inside the write handlers.                                              *)
Undisturbed ==
  \A w \in Workers : Reading(w) => \A v \in Workers \ {w} : job'[v] = job[v]
IndivisibleSpec == Init /\ [][Next /\ Undisturbed]_vars

-----------------------------------------------------------------------------
(* Rows, entries and the locals of the handlers are of the shape the code  *)
(* expects (TenantMember, CustomGroupMember, the two Redis entries).       *)
TypeOK ==
  /\ members \subseteq Principals \X Roles
  /\ groupState \in [CustomGroups -> {"unused", "live", "deleted"}]
  /\ groupMembers \subseteq CustomGroups \X Users
  /\ groupsCache \in [Users -> {NoValue} \cup SUBSET CustomGroups]
  /\ rolesCache \in [Users -> {NoValue} \cup SUBSET Roles]
  /\ job \in [Workers -> Job]

Quiet == \A w \in Workers : ~Writing(w)
Coherent == \A u \in Users : rolesCache[u] \in {NoValue, RolesOf(u)}

(* No entry remembers a custom group that no longer exists                 *)
(* (delete_custom_group).                                                  *)
DeletedGroupsForgotten ==
  Quiet => \A u \in Users : Holds(groupsCache, u) => \A g \in groupsCache[u] : Live(g)

(* With no write handler in progress, what Redis remembers of a user's     *)
(* roles is what the rows say (the commit and the deletions of entries of  *)
(* set_principal_permission, delete_principal_permission, set_member_role, *)
(* delete_member, create_custom_group and delete_custom_group).            *)
QuietCoherence == Quiet => Coherent

(* Once write handlers stop coming, the entries converge to the rows,      *)
(* whatever has failed or interleaved (_set_to_cache, RedisCache.set).     *)
EventuallyCoherent == <>[]Quiet => <>[]Coherent

-----------------------------------------------------------------------------
(* Why QuietCoherence holds under ApartSpec: an inductive strengthening.   *)

ActsThrough(u, p) == p \in PrincipalsOf(u, GroupsOf(u))

(* Worker w has yet to delete u's entry.                                   *)
WillClearRoles(w, u) ==
  \/ At(w, "affected") /\ ActsThrough(u, job[w].row[1])
  \/ At(w, "wipeGroups") \/ At(w, "wipeRoles")
  \/ At(w, "clearRoles") /\ u \in job[w].todo
  \/ At(w, "clearGroups") /\ u \in job[w].todo /\ u # job[w].user
WillClearGroups(w, u) ==
  (At(w, "clearRoles") \/ At(w, "clearGroups")) /\ u \in job[w].todo

(* A set of group ids names u's groups, and otherwise only deleted ones.   *)
NamesGroupsOf(gs, u) ==
  /\ GroupsOf(u) \subseteq gs
  /\ \A g \in gs : groupState[g] # "unused" /\ (Live(g) => g \in GroupsOf(u))

RowsOfLiveGroups ==
  /\ \A g \in CustomGroups, r \in Roles : <<g, r>> \in members => Live(g)
  /\ \A g \in CustomGroups, u \in Users : <<g, u>> \in groupMembers => Live(g)

RolesSettled(u) ==
  rolesCache[u] \in {NoValue, RolesOf(u)} \/ \E w \in Workers : WillClearRoles(w, u)
GroupsSettled(u) ==
  \/ groupsCache[u] = NoValue
  \/ NamesGroupsOf(groupsCache[u], u)
  \/ \E w \in Workers : WillClearGroups(w, u)

(* Whoever loses a role by a deletion still to be committed has no entry   *)
(* by then, or is still to lose it.                                        *)
DeletionPrepared(w) ==
  job[w].delete =>
    /\ Writing(w)
    /\ \A u \in Users : ActsThrough(u, job[w].row[1]) =>
         rolesCache[u] = NoValue \/ \E v \in Workers : WillClearRoles(v, u)

ReaderView(w) ==
  /\ job[w].pc \in {"groupsFill", "roles", "rolesDb", "rolesFill"} =>
       NamesGroupsOf(job[w].groups, job[w].user)
  /\ At(w, "rolesFill") => job[w].roles = RolesOf(job[w].user)

(* Every stale entry has a worker on its way to delete it, and every       *)
(* request in progress holds values that are still current.                *)
StaleOnlyWhilePending ==
  /\ Apart
  /\ RowsOfLiveGroups
  /\ \A u \in Users : RolesSettled(u) /\ GroupsSettled(u)
  /\ \A w \in Workers : DeletionPrepared(w) /\ ReaderView(w)
=============================================================================
