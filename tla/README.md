# TLA+ models of the unified-ui platform service

Models of the parts of the service whose correctness depends on the order of
steps taken by several processes: the transactions in PostgreSQL, the entries
in Redis and the secrets in the vault, none of which is covered by a common
transaction. TLC checks the models on small instances; TLAPS proves the most
important results for every instance.

Source paths below are relative to `src/unifiedui/` unless they start with
`src/`. `PROJECT.json` maps every definition to the lines it models.

## 1. The system

The service is a FastAPI application. Its routes are `async def` functions that
call blocking handlers, so one process serves one request at a time once its
handler has begun; any number of processes run side by side, and their steps
interleave. The only shared state is outside: a PostgreSQL database (sessions at
READ COMMITTED, committed when the `with get_session()` block ends, `core/database/client.py`), a Redis cache
whose errors are logged and swallowed (`caching/redis/cache.py`), a secrets
vault (HashiCorp KV v2, Azure Key Vault, or a local .env file), blob storage,
and the external agent service.

| Component | State it keeps | Operations | Interacts with | What must hold |
|---|---|---|---|---|
| tenant roles (`handlers/principals.py`) | `tenant_members` rows | set and delete a principal's role | deletes Redis entries of the users affected | after the handler, no cached role is stale |
| custom groups (`handlers/custom_groups.py`) | `custom_group_members` rows, the group's principal row | create, delete, set and delete members | same | same; a deleted group leaves nothing |
| request identity (`core/identity/users.py`, `handlers/tenants.py`) | two Redis entries per user: groups, tenants with roles | resolve groups, then roles, each through its entry | read by every authenticated request | entries only hold what was committed; they converge to the rows |
| organizations (`handlers/organizations.py`, `core/identity/users.py`) | `organization_members` rows, the organization's tenants | founding, roles, tenants, enrolment at sign-in | required roles in the middleware; users' cached tenants | roles come from the organization's administrators, tenants from who has a role or is at home there; an organization gets an administrator back |
| tenants (`handlers/tenants.py`) | `tenants` rows, cached list and detail | create, update, delete | the creator's role | cached forms follow the row |
| workflow API keys (`handlers/workflows.py`, `core/middleware/apis/v1/auth.py`) | two vault URIs per workflow row, two vault secrets | create, duplicate, update, rotate, delete; authenticate with a key | database and vault | rotation takes effect at once and without interruption; live workflows have keys, deleted ones none |
| credentials (`handlers/credentials.py`) | row with type and vault URI, vault secret | create, update, delete, read the secret | database and vault | type and secret fit; live credentials can be read, deleted ones leave nothing |
| secrets vault (`vault/*`, `core/vault/*`) | versions per secret | store, read, update, delete | used by the two above | a read answers with the latest version |
| resource permissions (`handlers/resource_permissions.py`, `handlers/principals_helper.py`) | member rows of a resource, cached list | set, delete, list | created and deleted with the resource | grants are atomic, the list follows the rows |
| permission decisions (`core/middleware/apis/v1/auth.py`, `handlers/permission_resolver.py`) | none | check a route, check in the handler, `my_permission` single and in bulk, list filter | read member rows and roles | all agree |
| resources of every kind: workflows, chat agents, chat widgets, external apps, credentials, conversations, AI models, custom groups, tenants | rows, tags, favourites; cached lists, details, members, tags, favourites | create, update, delete, duplicate, list, get; members; tags; favourites | routes' guards, member rows, caches | cached forms follow the rows; a refused request changes nothing; a role means the same for every kind |
| conversations, workflows, files (`handlers/conversations.py`, `handlers/files.py`, `services/agent_service_client.py`) | rows; the conversation at Foundry, the agent service's data, the stored content | create, download, delete | three other systems | no row without its object, no object left or lost while calls succeed |
| recent visits (`handlers/recent_visits.py`) | at most 50 rows per user | sync a batch, list | resources are deleted meanwhile | the cap; the most recent existing resources are shown |

What makes these behaviours hard:

- *Interleaving.* A request reads the rows, a write handler commits and deletes
  the entry, then the request stores what it read.
- *Order inside a handler.* Some handlers delete entries before they commit,
  some after; of two dependent entries the derived one is deleted first.
- *Two stores.* Rows and vault secrets are written one after the other, in a
  different order in each handler, and the commit comes last.
- *Stale locals.* Member rows are found in one statement and changed by primary
  key in a later one.
- *Partial failure.* A Redis command, a vault call or a commit fails, or the
  worker dies, between any two of these steps.

`PROJECT.json` lists each at its line under `hazards`, with the property that
would catch it going wrong or the reason there is none yet.

## 2. The modules

### TenantAccess: roles on a tenant and what Redis remembers of them

State: `members` and `groupMembers` are committed rows, `groupState` the custom
groups' own rows, `groupsCache` and `rolesCache` the entries
`identity:groups:user:U` and `tenants:user:U:with_permissions`, `job` the step
and locals of each worker. One step is one transaction or one Redis command.

| Action | Code |
|---|---|
| `BeginRequest`, `GroupsHit/Miss`, `ReadGroups`, `FillGroups` | `ContextIdentityUser.groups`, with the `X-Use-Cache` header as `cached` |
| `RolesHit/Miss`, `ReadRoles`, `FillRoles` | `ContextIdentityUser.tenants`, `get_user_tenants_with_permissions` |
| `SetPermission`, `DeletePermission`, `CommitDelete` | `set_principal_permission` (commit, then invalidate), `delete_principal_permission` (invalidate, then commit) |
| `CreateGroup`, `DeleteGroup`, `SetMember`, `DeleteMember` | the handlers of `custom_groups.py` |
| `Affected`, `WipeGroups`, `WipeRoles`, `ClearRoles`, `ClearGroups` | the invalidation each of them makes, down to `clear_cache_for_user` |
| `ExpireGroups`, `ExpireRoles` | the TTL of 300 s |
| `Crash`, and the second alternative of `Stored` and `Wiped` | a dying worker, a swallowed Redis error |

Merged into one step: the read and the commit of `set_principal_permission`
(nothing else is written in between), the KEYS and DEL of `delete_pattern`. The
identity provider's answer is the constant `IdpGroupsOf`. One tenant; the acting
administrator's own authentication is not modelled, nor is the role a user has
within a group (READ, WRITE, ADMIN), which decides who may edit the group only.

Three specifications restrict how requests and handlers meet. `Spec` is the
code. `IndivisibleSpec` serves each request without interruption. `ApartSpec`
serves no request while a write handler is in progress; handlers still
interleave with handlers and requests with requests. Under `Spec` a fill can be
in flight across an invalidation, so only convergence can be asked of it.

`TenantAccessHistory` adds two history variables, every role row and every
membership ever committed, and asks where a cached role came from.

### Vault, WorkflowKeys, Credentials: rows and secrets

`Vault` models one secret: the version first written, the latest, those before,
and the state. `PinnedUri` chooses the backend: with HashiCorp a URI is a path
and reads the latest version; with Azure, as `store_secret` builds it, it ends in
a version. A HashiCorp deletion removes the latest version only and a later write
revives the secret; an Azure soft-deletion makes later writes fail. Neither the
development backend nor the cache of `BaseVaultClient` is modelled: every caller
passes `use_cache=False`.

`WorkflowKeys` has the row, the secrets of its two slots, the keys generated so
far (each is generated once) and the jobs. Handlers keep their session open
across vault calls, so each is a chain of steps that ends in the commit:
`CreateWorkflow`/`DuplicateWorkflow`, `StorePrimary`, `StoreSecondary`,
`InsertRow`; `RotateApiKey`, `UpdateKey`, `CommitRotation`; `DeleteWorkflow`,
`DropPrimary`, `DropSecondary`, `DeleteRow`; `UpdateWorkflow`;
`Authenticate`, `ReadPrimary`, `ReadSecondary`, `Answer` for
`authenticate_workflow_api_key`. `Abort` is any failure: a vault error, a failed
commit, a dead worker. Two ghosts watch a caller: whether its key was
superseded when the request began (`revoked`) and whether it has opened the
workflow all along (`steady`).

The rigid variable `faulty` says whether failures are possible in a behaviour;
what holds only without them says so.

`Credentials` has the row with its type and the secret with its format.
`create_credential` stores, then inserts; `update_credential` writes the vault,
then the row; `delete_credential` deletes the row (flushed, so locked), then
the secret, then commits. A secret's format stands for what
`validate_credential_secret` checks. The constants `Faults` and `Retyping` say
whether failures and updates of the type are looked at.

### ResourceAccess, ResourceMembers, MemberTable: permissions of a resource

`ResourceAccess` has the pure decisions over a member table, each translated
from its own code: `CheckPermissions` (middleware), `CheckUserPermission`
(handler), `ResolveMyPermission` and `BulkPermission` (`permission_resolver`),
`Listed` (the query of a list). `Agreement` relates them.

`ResourceMembers` has the rows with their ids, the principals, the cached list
and the jobs. One step is one SQL statement or transaction or one Redis command.
`InsertMember` raises on the unique constraint, `UpdateMember` and `Refresh` if
the row has gone, `RemoveMember` only warns: a session changes a row by the
primary key it read. `Indivisible` is a constant: if true, no other worker
moves between a missed list and its storing; if false, the module is the code.
`NewPrincipal` is the flush of `ensure_principal_exists`,
which waits for a concurrent flush of the same principal. Ids come from a
finite set and are used again once no row and no session remembers them
(`FreshIds`); one creation is in progress at a time. Redis failures are not
repeated here.

`MemberTable` is the abstract specification: a table of one role per principal in
which a request takes effect at one instant between call and answer, or not at
all. `Table` in `ResourceMembers` is the refinement mapping.

### ResourceHandlers, ResourceRoutes, Resources: every resource and its caches

`ResourceHandlers` writes down each handler of the nine kinds as the sequence of
what it does to PostgreSQL and Redis: `DeleteChatAgent` is `<<"load", "commit",
"wipeList", "wipeDetail", "wipePermissions">>`. The order of these steps is
where the handlers differ and where they go wrong: chat agents commit and then
delete the entries, credentials and tenants delete and then commit, tags and
favourites delete before the session ends. Keys are the words of the
key that the code writes out, so that a pattern that misses its key misses it in
the model as well (`WipePermissions` and `PermissionsKey`, `WipeTagged` and
`DetailKey` of AI models, `WipeTenant`).

`ResourceRoutes` has one definition per route: the guard given to
`check_permissions` and the handler. The administrator and creator roles of each
kind are one name, so that guards can be compared across kinds.

`Resources` runs them. It follows one resource of one kind and one of its cached
answers (`slot`), with every handler of that kind served by two processes. A
step of a handler is an action of the module: `Lookup`, `Peek`, `Find`, `Read`,
`Fill`; `Validate`, `Load`, `Flush`, `Commit`, `Refetch`, `Reread`, `Wipe`;
`Refuse`, `Crash`, `Expire`. `Begin` is the route. Which rows a view
shows is `View`; what a handler changes is `Effect`; what PostgreSQL refuses
(unique keys, foreign keys, rows that have gone) is `Executable`. The decision
for a route is `ResourceAccess!CheckPermissions`, for a list `Listed` and
`BulkPermission`: the two modules compose. A ghost in the entry says whether it
was read or stored while a change was in progress (`raced`) and whether the rows
had changed since they were read (`overtaken`).

Abstracted: a filtered list is never cached and is left out; tenant, user and
paging of a key, since a pattern deletes all of them; one tag stands for any;
validators accept or refuse. A commit may be refused whatever the rows are,
which covers names that are taken.

### Attachments, RecentVisits, Directory, Stores

`Attachments` has a row and what belongs to it elsewhere, four times: a file and
its content, a conversation and its messages at the agent service, a workflow
and its traces, a conversation and its counterpart at Microsoft Foundry. Each
handler is again a sequence of steps. `put`, `drop` and the commits may fail,
an upload may break off half-way, a process may die after any step.
`AgentWrites` is the agent service (external), which writes while the row lives.

`RecentVisits` has one user's visits. `SyncRecentVisits`, `Collect` (a SELECT per
item), `Store` (one commit) and `Count`, `SelectOldest`, `Purge` (three
statements of `_cleanup_old_visits` at READ COMMITTED) interleave with other
batches of the same user and with `DeleteResource`.

`Directory` has the roles of users in organizations and their tenants.
`Authenticate` reads the roles at home, `Check` is `required_org_roles` with its
short cut for the home organization, then the handler: `SetPrincipal` and
`InsertMember`, `DeletePrincipal` and `RemoveMember` (a SELECT and the write),
`CreateTenant` and `CommitTenant` with the creator's entry deleted in between,
`DeleteTenant` and `CommitDelete`, `CreateOrganization`. Two routes name no
organization and ask for no role in one (`AtHome`): `POST /tenants`, which makes a
tenant of the caller's own organization (`CreateTenantAtHome`; `FlushTenant` and
`CommitTenant` are common to both), and `DELETE /tenants/{id}`
(`DeleteTenantById`), open to who administers the tenant or is an administrator
at home. `get_me` is `LookupTenants`, `ReadTenants`, `FillTenants`, `Enrol`; the
first three also precede `DeleteTenantById`. Of the cached
tenants one user's are watched; others' are read from the rows, and a role on a
tenant is its creator's (`TenantAccess` has the others). Redis failures are not
repeated. Groups of the identity provider as members are
left out: a role held through a group is a role held.

`Stores` puts these three and `Credentials` side by side; they share nothing
but the processes, so a behaviour follows one of them (`focus`) while the rest
is at rest (`MCStores` gives the constants their values). `Credentials` takes part
three times: with failures and retyping at a vault that keeps the URI, and without
either at both vaults.

### Not modelled, and the plan

Not modelled for good: search and dashboard queries, login and audit
(no shared state), token verification, service keys, document store and broker
drivers, the migrations, the .env vault, request validation. Message feedback is
one row per user and message, written in one transaction by an upsert
and never cached. The tags themselves (create, list, delete) and
`list_all_favorites_with_names` are read through caches of their own; see
the known gaps.

What a prover can show of the runs' properties is proved (section 4). Left to
plan is a refinement for the handlers of `Resources`, as `MemberTable` is one for
`ResourceMembers`.

## 3. What is checked

Each MC module extends its specification and defines the values of the
constants; the `.cfg` of the same prefix names them.

| Run | Property | Instance | Shows |
|---|---|---|---|
| `access_apart` | `TypeOK`, `QuietCoherence`, `StaleOnlyWhilePending` | 2 users, 1 custom and 1 identity group, 1 role, 2 workers; 1.7 M states | while requests and write handlers stay apart and nothing fails, every order of two write handlers leaves no stale role |
| `access_converges` | `EventuallyCoherent` | 1 user, 1 custom and 1 identity group, 1 role, 2 workers, faults; 419 k states | once write handlers stop coming, cached roles converge to the rows |
| `access_source` | `CachedRolesHaveASource` | 2 users, 1 group, 1 role, 2 workers; 3.7 M states | with full overlap, a cached role was committed for a principal the user is or was once a member of |
| `access_revoke` | `QuietCoherence` | `IndivisibleSpec`, 2 users | **fails**: see deviation 1 |
| `access_forget` | `DeletedGroupsForgotten` | `ApartSpec`, 1 user, 1 group | **fails**: see deviation 2 |
| `keys_rotation` | `TypeOK`, `WrittenOnce`, `RotationTakesEffect`, `RotationWithoutInterruption`, `LiveWorkflowsHaveKeys` | 2 workflows, 5 keys, 2 workers; with faults 1 and 4; 238 k states | a superseded key is never accepted by a request that began after its rotation; without faults a key valid throughout a request is never refused, live workflows keep both keys |
| `keys_azure` | `RotationTakesEffect` | `PinnedUri` | **fails**: see deviation 3 |
| `members_lists` | `TypeOK`, `IdsNameRows`, `ListCoherent` | `Indivisible`, 2 users, 5 ids, 2 workers, all operations; 3.2 M states | the cached list equals the rows once handlers have invalidated it; no session changes another principal's row |
| `members_grants` | `PermissionsAgree`, `BulkAgrees`, `GrantsAreAtomic` | 2 users, 1 custom group, 4 ids, 2 workers, faults; 611 k states | grants and the resource's deletion implement `MemberTable`; the decisions agree in every table |
| `resources` | `TypeOK`, `StaleOnlyByRace`, `StaleOnlyIfOvertaken`, `RefusedChangesNothing`, `RoutesAgree`, `EventuallyFresh` | all nine kinds, 22 pairs of kind and cached answer, 2 users, 2 workers, 2 changes (1 with faults, 3 kinds); 617 k states | an answer is out of date only by a race, and it ends; refused requests change nothing; guards agree (docstrings do not) |
| `resources_tenants` | `StaleOnlyByRace` | the detail of a tenant | **fails**: see deviation 4 |
| `stores` | `StoresTypeOK` and | each part of `Stores` on its own; 818 k states in all | |
| | `RowsNameStoredSecrets`, `LiveCredentialsAreUsable`, `DeletedCredentialsLeaveNothing`, `ReadSecretsFit` | 1 credential, 3 secrets of 2 types, 2 workers; faults, HashiCorp, Azure | no row names a secret that was never stored; without faults a live credential can be read, fits its type as long as types do not change, and leaves nothing at Azure when deleted |
| | `RowsHaveTheirObject`, `MissingOnlyIfDeleted`, `NothingLeftNorLost` | 1 row of each sort, 2 workers, with and without faults | content before row, row before deletion |
| | `VisitsBounded`, `ListedAreLatest` | 3 resources, a cap of 1, batches of up to 2, 2 at a time | the cap holds however batches overlap; deleted resources do not displace visits |
| | `AuthorityStaysInOrganization`, `OrganizationsRecover`, `DeletedTenantsForgotten` | 2 users, 2 organizations, 2 roles, 2 workers, 2 writes | whoever gives a role has one there, whoever makes a tenant has one or is at home there, by either route; a signing-in system administrator ends the want of one; deleted tenants are forgotten |

**Bounds.** Two workers are the smallest number that races, and every hazard
listed is a race of two; the proofs cover more. Two users are needed for a role
to reach the wrong one. One role suffices for the caches: an entry is coherent
or not as a set. The levels of a resource are the code's three. Four keys allow
two creations' keys and two rotations, so that a key is superseded and its
successor too. Ids are as many as rows and sessions can remember together.
`OneGrant` in `access_source` (a `CONSTRAINT`) bounds the history: besides the
administrator's, one role row is ever granted, and the administrator stays in
the group. Workers (there) and keys are
symmetric: no definition tells them apart, and no liveness is checked under
symmetry.

`MaxChanges` and `MaxWrites` bound the requests that change something: two are
the least that race each other, and readers come without bound.
`RefusedChangesNothing` speaks of steps for a reason: a grant reads its row back
after its commit and fails if another request has deleted that row. A statement
about states (a request that has failed has changed nothing unless what it changed
is gone) holds with two changes and fails with three, when a third request grants
the role anew. In `resources`
one level is granted (`Grants`), enough for a list to depend on it; lists and
details are watched for every kind, members, tags and favourites, each the work
of one handler for all kinds, for one or two kinds each. In
`visits` (`MaxVisits`, `MaxBatch`, `MaxSyncs`) a cap of one and three resources
let every cleanup have something to delete. In `keys_rotation` the `CONSTRAINT`
`FewerWithFaults` keeps behaviours with failures to one workflow and four keys.

`CHECK_DEADLOCK FALSE` appears where finitely many keys, ids or changes run out
(the `keys`, `resources` and `stores` runs): a service with fresh uuids does not
stop there.

**Fairness.** A request or handler that has begun is run to its end (`WF` on
`Request` and `Invalidate`, in `resources` and `stores` on `Continue` of each
worker: processes are scheduled, database and Redis calls time out) unless it
crashes, and Redis drops an entry whose TTL has passed (`WF` on `Expire...`;
every SET of the code gives a TTL). Nothing obliges anyone to send a request or to
start a handler; `OrganizationsRecover` therefore asks for an administrator who
keeps signing in, in its premise. `access_converges`, `resources` and `stores` use
these assumptions.

### Deviations

Shown by a run:

1. `delete_principal_permission` deletes the Redis entries before its session
   commits (`handlers/principals.py:579`). A request in between stores the
   revoked role for 300 s. `set_principal_permission` commits first.
2. `delete_custom_group` deletes `tenants:user:*` but no `identity:groups:user:*`
   entry, so the id of the deleted group stays in its members' cached groups.
3. `store_secret` of the Azure backend returns a URI with the version
   (`vault/azure_keyvault/keyvault.py:49`): after a rotation the former key opens
   the workflow and the new one does not.
4. `invalidate_tenant_cache` deletes `tenants:detail:T:*` (`caching/client.py:80`)
   where `get_tenant` stores `tenants:detail:T`: the detail outlives every update and
   the deletion until its TTL ends.

Stated by a definition that does not hold either; the last column is the change of
a cfg that makes TLC print the counterexample:

| Definition | What happens | Where | Change |
|---|---|---|---|
| `NoRoleThroughFormerGroup` | `clear_cache_for_user` deletes the roles entry before the groups entry; a request in between recomputes roles from the old groups | `caching/client.py:48` | `access_source` with `HIndivisibleSpec` |
| `DeletedWorkflowsLeaveNoKey` | a rotation racing the deletion writes a readable version into a deleted HashiCorp secret (holds on Azure) | `handlers/workflows.py:1351` | `keys_rotation` |
| `DeletedCredentialsLeaveNoSecret` | the same, with `update_credential` (holds on Azure) | `handlers/credentials.py:483` | `stores` |
| `SecretFitsType` | an update of the type alone leaves a secret validated against the former type | `handlers/credentials.py:496` | `stores` |
| `TagsStaleOnlyByRace` | a change of an AI model's tags deletes `tenant_ai_models:detail:...:aim:M` where the detail, which shows them, is `ai_models:detail:...:model:M` | `handlers/tags.py:74` | `resources_tenants` with `Watched <- MCTaggedDetail` |
| the same | lists show tags, and no change of tags deletes one | `handlers/tags.py:534` | `resources` |
| `DeletesTheRoleNamed` | `delete_permission` finds the row by its role and deletes it by key, after another request changed the role | `handlers/resource_permissions.py:589` | `members_lists` |
| `DeletedResourceForgotten` | the pattern of `invalidate_permissions` does not match the key of the cached list | `handlers/cache_utils.py:53` | `members_lists` |
| `MyPermissionIsEffective` | `my_permission` ignores the organization roles that the middleware admits | `handlers/permission_resolver.py:60` | `members_lists` with `OrgRolesOf <- MCOrgAdmin` |

| `PermissionsShownToAdmins` | listing or getting permissions "Requires ADMIN permission" by the docstrings (`chat_agents.py:580,656`, `chat_widgets.py:411,487`, `credentials.py:499,566`, `conversations.py:356,432`) and "READ permission or higher" by those of `workflows.py:427,496`; the guards admit READ for every kind, which is why `RoutesAgree` holds | `apis/v1/chat_agents.py:580` | `resources` |
| `TenantsNeedARole` | `POST /organizations/{id}/tenants` requires a role in the organization; `POST /tenants` is for everyone who is at home there | `apis/v1/tenants.py:109` | `stores` |
| `DeletionsStayInOrganization` | an administrator at home passes the guard of every route to a tenant, whichever organization the tenant is of, so that of `DELETE /tenants/{id}` too | `core/middleware/apis/v1/auth.py:615` | `stores` |

Known gaps: read off the code while translating it, and not stated as properties.

- The vault backends answer `False` to a failure; `update_credential` ignores it and
  reports success (`handlers/credentials.py:483`).
- The cached members, tags and favourites of a resource are not deleted with it.
- Who is affected by a change of a principal's role, `_invalidate_cache_for_principal`
  decides by the principal type that the caller sends, which is not compared with the
  stored row (`apis/v1/principals.py:148,201`). `Affected` takes the principal's own.
- The deletion of a tag takes its rows in resources along, that of a custom group its
  rows in resources' member tables, by foreign key. No module has these as writers, so
  what the cached tags, details and members show afterwards is not looked at.
- The tag handlers send their statements before they delete entries
  (`handlers/tags.py:526`). `Resources` executes them at the commit: two changes of
  the same tags overlap more than the locks on the rows allow.
- `user_favorites:...:all` holds names and outlives a rename.
- A chat agent's deletion takes its conversations along by foreign key, without
  deleting their cached answers or their data at the agent service. Nothing
  deletes a conversation at Foundry.
- A credential's deletion sets `credential_id` of AI models to NULL without
  deleting their cached details.
- The creator roles in the guards of the duplicate routes have no effect, as
  resource guards look at the tenant's administrators and at members only.
- `handlers/credentials.py` deletes entries with the comment "Invalidate caches
  BEFORE commit to ensure consistency" (lines 423, 506, 551); it is the order
  that lets an undisturbed reader store what is about to change
  (`StaleOnlyIfOvertaken` leaves credentials and tenants out).
- Two overlapping cleanups of recent visits may delete more than the excess, or a
  visit just renewed.
- The agent service may write between the deletion of a conversation's data and
  that of its row.
- A system administrator who holds only a minor role in his organization is not
  enrolled (the exception in `OrganizationsRecover`).

## 4. What is proved

Every safety property of the passing runs, for every value of the constants that
satisfies the modules' `ASSUME`s: any number of users, groups, workers, keys, ids
and requests. The proofs are in eight modules, one per specification:
`TenantAccessProofs`, `WorkflowKeysProofs`, `ResourceMembersProofs`,
`ResourcesProofs`, `CredentialsProofs`, `AttachmentsProofs`, `DirectoryProofs`, and
`StoresProofs`, which carries the previous three over to `Stores` and proves what
concerns `RecentVisits`. Hypotheses of a theorem beyond the `ASSUME`s are named
below; each is also that of the run. Few of the properties are inductive as they
stand; what is said of each is what has to be added, and why. Most specifications
choose at the start whether anything may fail (`faulty`, `unreliable`, `failing`),
and "while nothing fails" means the behaviours where it may not.

### TenantAccess

- `TypeCorrect`: `TypeOK`, faults included.
- `StaleEntriesAwaitDeletion` and `ApartCoherence`: with `Faults = FALSE`,
  `ApartSpec => []StaleOnlyWhilePending` and `[]QuietCoherence`. While a handler is
  in progress entries are stale; `StaleOnlyWhilePending` says that every stale
  entry has a worker on its way to delete it (`WillClearRoles`,
  `WillClearGroups`), that whoever loses a role by a deletion not yet committed has
  no entry by then, that rows of groups exist only while the group does, and that a
  request in progress holds current values. Cached groups may name deleted groups
  (deviation 2) and are harmless, since a deleted group has no rows and its id
  is never given again (`NamesGroupsOf`).
- `RolesHaveASource`: `HSpec => []CachedRolesHaveASource`, with full overlap and
  faults. `SourceInv` adds the same of what is cached of groups and of what a
  request holds between reading and storing (`LocalsHaveASource`); it lasts because
  the history of what was committed only grows.

### WorkflowKeys

- `WorkflowKeysTypeCorrect`: `TypeOK`. It needs the handlers' locals (`Typed`):
  which locals hold a key at which step.
- `KeysAreWrittenOnce`, `RotationIsImmediate`: whatever fails,
  `Spec => []WrittenOnce`, and with `~PinnedUri` (deviation 3)
  `Spec => [](WrittenOnce /\ RotationTakesEffect)`. That a superseded key never
  becomes readable again needs that a key is written once: keys generated
  and not yet written are distinct, in no secret, and in one handler each, and that
  a caller's superseded key stays so until the answer (`RevokedStays`).
- `RotationDoesNotInterrupt`: while nothing fails, a caller whose key opens the
  workflow throughout its request is not refused, in either vault, although the two
  keys are read one after the other. A caller who has found another primary key has
  its own in the secondary slot, and still has when it reads that one
  (`CallersServed`): two slots never share a key, so that it cannot have come to open
  the workflow by the other slot instead (`SlotsApart`, part of `Kept`).
- `WorkflowsHaveTheirKeys`: while nothing fails, a live workflow that nobody is
  deleting has both keys. `Lives` adds that one handler creates a workflow, in the
  order primary, secondary, row, and that only workflows with a row are changed.

### ResourceMembers

- `MembersTypeCorrect`: `TypeOK`, which includes that rows
  have ids and exist only while the resource does. It needs what each step
  remembers (`StepFits`: a handler past its verification runs while the
  resource exists or has been deleted, never before its creation) and that one
  creation is in progress at a time (`Control`).
- `RowIdsNameRows`: an id that a session remembers names no row but the one it was
  read from. An id is given to a new row only while no row has it and no session
  remembers it (`FreshIds`), and rows keep their ids.
- `PermissionsAlwaysAgree`: a lemma shows `Agreement` for every member table (the
  roles a level allows are those at least as high, and the `CHOOSE` of
  `ResolveMyPermission` picks the highest); `TypeOK` says that the rows are such a
  table. `BulkAlwaysAgrees`: the loop of `resolve_my_permissions_bulk` is a fold, a
  recursive function on sets of principals. The highest role of every set
  satisfies its equation (`LoopExists`), and whatever satisfies it yields the
  highest role (`LoopFindsHighest`): a smallest set where it did not would have a
  smaller one.
- `CachedListIsTheTable`: with `Faults = FALSE` and `Indivisible = TRUE`,
  `Spec => []ListCoherent`. The strengthening `ListSettled` says that a cached
  list that is not the table has a worker bound to delete it (`Bound`), and that
  a list read and not yet stored is the table.
- `HandlersImplementTheTable`: if `"delete" \notin Operations`,
  `Spec => GrantsAreAtomic`, crashes included. `Requests` restates the refinement
  mapping by the step of each job; a grant takes effect at its UPDATE or INSERT,
  or where it finds the role already there, an error at any step is the abstract
  `Fail`, and everything else is a stutter. It needs `Typed`: an UPDATE that
  matches the id its session remembers matches a row that exists, and rows exist
  only while the resource does. With
  revocations the handlers do not implement `MemberTable` (`DeletesTheRoleNamed`
  in the deviations).

### Resources

The handlers of nine kinds are some hundred sequences of steps, which differ in
where they commit, what they delete and what they read back. The proof does not
go through them step by step. It first brings them into one form: `Programs` lists
the sequences an operation may have, and `Planned` is shown of every route. What
the steps need is then read off once (`Fits`): a SET has its SELECT before it,
locks are held until a commit, after a commit come only deletions of
entries and readings (`Orderly`); every handler that changes what a slot shows
deletes the slot's entry (`Cleans`), and after the commit where commits come first
(`CleansInTime`).

- `ResourcesTypeCorrect`: `TypeOK`. The invariant `Kept` adds that each request has
  got to some place of a program that fits (`JobsSound`), that one request holds the
  row's lock and what it is about to commit can be executed (`Holders`), and that a
  resource not created yet has no readers but those of empty lists (`Born`).
- `OutOfDateOnlyByRace`, `OutOfDateOnlyIfOvertaken`: `StaleOnlyByRace` and
  `StaleOnlyIfOvertaken`, for what the run watches or anything else, provided the
  detail of a tenant is not watched (deviation 4, where `StaleOnlyByRace` fails).
  Nothing is claimed where steps may fail; where they may not (`Honest`) a request that
  has changed what the entry shows will delete it (`Viable`), or has
  deleted it before its commit; any entry there was by then has been read or stored
  while the change was under way, and is marked so (`Forgotten`). From
  these follows where an entry that is out of date comes from (`Fresh`,
  `Overtaken`).
- `FailuresChangeNothing`: `Spec => RefusedChangesNothing`, an action property. After
  the commit of a program only the reading back of the row can fail.
- `RoutesAlwaysAgree`: the guards of all routes agree by operation. Its lemmas
  look at the tables of routes, kind by kind, and at roles of any users and groups.

### Credentials, Attachments, Directory, RecentVisits

`Stores` takes each of these once or several times. Each component's theorem is
proved in its own module and carried over with `INSTANCE`: while a component is
not looked at it is at rest, and a step of the whole is a step of it or a
stutter.

- `RowsAlwaysNameStoredSecrets`, in `Stores` `EitherVaultStoresBeforeNaming`:
  whatever fails, no row names a secret that was never stored. `Kept` says what each
  step knows (`JobFits`): who is to insert has stored.
- `LiveCredentialsStayUsable` (`EitherVaultKeepsLiveSecrets`), with
  `Faults = FALSE`: the secret is deleted under the lock of a row about to go
  (`Usable`). `DeletedCredentialsAreGone` (`AzureForgetsDeletedCredentials`), with
  `Faults = FALSE` and `PinnedUri = TRUE`: it needs that a deleted secret cannot be
  written to, which holds of Azure (`Gone`). `SecretsAlwaysFit`
  (`EitherVaultAnswersFittingSecrets`), with `Retyping = FALSE` and whatever fails:
  what is stored, on its way to the vault or read fits the row's type (`Fitting`).
- `ListedRowsHaveTheirObject`, `DownloadsMissOnlyDeleted`, `DeletionsAreComplete`
  (`StoredRowsHaveTheirObject`, `StoredFilesAreMissedOnlyIfDeleted`,
  `StoresAreCleanedCompletely`). `Kept` ties what a request has left to do to what
  is there (`Fits`), for the one request at most that creates; `Settled` says who
  will delete what is still there. The last theorem needs `Distinct`, that no
  request is the value `NoJob` that stands for none.
- `RolesComeFromTheOrganization` (`OrganizationsGovernThemselves`): the roles
  read by the guard may have been revoked by the time the handler writes, so the
  property speaks of roles once held, and the invariant says that a request that was
  admitted had such a one, or names the organization its user is at home in, and that
  the organization was founded (`Admitted`, `Backed`). That tenants need a role
  would be wrong (`TenantsNeedARole`). It needs that system administrators are users (`AdminsAreUsers`).
- `VisitsStayBounded`: however batches of one user overlap, no more than the cap are
  left when all have been stored and cleaned up, where none fails. Two cleanups
  may count the same rows; what saves the cap is that the last one to count sees all
  that was stored before, and from its count to its purge nobody stores without a
  cleanup of his own (`StillToPurge`). A lemma shows that the n oldest of M + n rows
  leave M (`SelectionSuffices`, for sets of any finite size).
- `ListsShowTheLatest`: twice the limit of rows is enough as long as no more than
  limit visits are to resources that are gone (`TwiceTheLimitSuffices`).
- `CredentialsTypeCorrect`, `AttachmentsTypeCorrect`, `DirectoryTypeCorrect`,
  together `StoresTypeCorrect`.

### Only model-checked

Liveness, for which the prover has no rules (fairness, `ENABLED`):
`EventuallyCoherent`, `EventuallyFresh`, `OrganizationsRecover` and
`DeletedTenantsForgotten`. The definitions of the deviations fail, on the instances
named there. The run of a component checks the strengthening too where it is a
definition of the component's module (`StaleOnlyWhilePending`, `WrittenOnce`,
`TypeOK`); the others live in the proof modules.
