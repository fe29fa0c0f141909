--------------------------- MODULE ResourceMembers ---------------------------
(***************************************************************************)
(* The members of one resource: the handlers that create it, grant and     *)
(* revoke roles on it, list them through Redis and delete it, one database *)
(* statement or transaction and one Redis command per step.  PostgreSQL    *)
(* runs at READ COMMITTED: a row read in one statement may have changed by *)
(* the next.  A row is known to the session by its primary key, so an      *)
(* UPDATE or DELETE issued for a row read before acts on that key and on   *)
(* no other condition.                                                     *)
(***************************************************************************)
EXTENDS ResourceAccess

CONSTANTS
  Workers,
  Operations,    \* the requests that come in
  Creator,       \* the user who creates the resource
  CustomGroups,  \* the groups that are not the identity provider's
  Ids,           \* ids for member rows (uuid4)
  NoId,
  Faults,        \* may a worker die?
  Indivisible,   \* is a missed list read and stored before another worker moves?
  NoEntry        \* no Redis entry

ASSUME MembersConstants ==
  /\ Operations \subseteq {"set", "delete", "drop", "list"}
  /\ Creator \in Users
  /\ CustomGroups \subseteq GroupIds
  /\ NoId \notin Ids
  /\ Faults \in BOOLEAN /\ Indivisible \in BOOLEAN
  /\ NoEntry \notin Members

VARIABLES
  state,       \* the resource's row: "none", "live" or "deleted"
  rows,        \* principal -> its member row, if any
  principals,  \* committed rows of the principals table
  listCache,   \* {prefix}:permissions:tenant:T:res:R:list
  job          \* what each worker is doing

vars == <<state, rows, principals, listCache, job>>

Row == [id : Ids \cup {NoId}, role : Levels \cup {NoRole}]
NoRow == [id |-> NoId, role |-> NoRole]
RoleOf == [p \in Principals |-> rows[p].role]

Job ==
  [pc      : {"idle", "create", "verify", "principal", "newPrincipal", "member",
              "insert", "update", "refresh", "invalidate", "find", "remove",
              "load", "drop", "forget", "list", "readList", "fillList",
              "ok", "failed"},
   op      : {"create"} \cup Operations,
   p       : Principals,
   role    : Levels,
   fresh   : BOOLEAN,              \* a principal flushed and not yet committed
   id      : Ids \cup {NoId},       \* the member row read
   removed : Levels \cup {NoRole}, \* ghost: the role of the row it deleted
   entry   : Members]              \* the list read

Nothing == [p \in Principals |-> NoRole]
Idle ==
  [pc |-> "idle", op |-> "create", p |-> Creator, role |-> "ADMIN", fresh |-> FALSE,
   id |-> NoId, removed |-> NoRole, entry |-> Nothing]

Become(w, j) == job' = [job EXCEPT ![w] = j]
Goto(w, step) == Become(w, [job[w] EXCEPT !.pc = step])
(* An exception: the session is rolled back and the client gets an error.  *)
Raise(w) == Become(w, [job[w] EXCEPT !.pc = "failed", !.fresh = FALSE])
At(w, step) == job[w].pc = step
Reading(w) == At(w, "readList") \/ At(w, "fillList")

(* With Indivisible, what is left are the orders of the steps of the write *)
(* handlers; the code is the module without it.                            *)
MayMove(w) == Indivisible => \A v \in Workers \ {w} : ~Reading(v)
Moves(w, step) == At(w, step) /\ MayMove(w)

table == <<state, rows, principals>>

(* A row id that names no row and that no session remembers.               *)
FreshIds == (Ids \ {rows[p].id : p \in Principals}) \ {job[w].id : w \in Workers}
NewId == CHOOSE i \in FreshIds : TRUE

-----------------------------------------------------------------------------
Receive(w, op, p, role, step) ==
  /\ Moves(w, "idle")
  /\ Become(w, [Idle EXCEPT !.pc = step, !.op = op, !.p = p, !.role = role])
  /\ UNCHANGED <<table, listCache>>

(* create_workflow with add_creator_permission: one transaction.           *)
Create(w) ==
  /\ Moves(w, "create")
  /\ FreshIds # {}
  /\ state' = "live"
  /\ rows' = [rows EXCEPT ![job[w].p] = [id |-> NewId, role |-> job[w].role]]
  /\ principals' = principals \cup {job[w].p}
  /\ Goto(w, "ok")
  /\ UNCHANGED listCache

(* _verify_resource_exists, at the start of every operation.               *)
Verify(w, next) ==
  /\ IF state = "live" THEN Goto(w, next) ELSE Raise(w)
  /\ UNCHANGED <<table, listCache>>
VerifyResource(w) ==
  /\ Moves(w, "verify")
  /\ Verify(w, IF job[w].op = "set" THEN "principal" ELSE "find")

-----------------------------------------------------------------------------
(* set_permission                                                          *)

(* ensure_principal_exists: look the principal up (a custom group must     *)
(* have been created before) ...                                           *)
FindPrincipal(w) ==
  /\ Moves(w, "principal")
  /\ IF job[w].p \in CustomGroups \ principals
     THEN Raise(w)
     ELSE Goto(w, IF job[w].p \in principals THEN "member" ELSE "newPrincipal")
  /\ UNCHANGED <<table, listCache>>

(* ... and flush a new row, which waits for whoever has flushed the same   *)
(* principal, and fails if that session has committed.                     *)
NewPrincipal(w) ==
  /\ Moves(w, "newPrincipal")
  /\ \A v \in Workers : ~(job[v].fresh /\ job[v].p = job[w].p)
  /\ IF job[w].p \in principals
     THEN Raise(w)
     ELSE Become(w, [job[w] EXCEPT !.pc = "member", !.fresh = TRUE])
  /\ UNCHANGED <<table, listCache>>

(* Mutated: the query lacks its filter on the principal.                   *)
FindMemberOfAnyone(w) ==
  \E q \in Principals : LET row == rows[q] IN
  /\ Moves(w, "member")
  /\ Become(w, [job[w] EXCEPT !.id = row.id,
                !.pc = IF row = NoRow THEN "insert"
                       ELSE IF row.role # job[w].role THEN "update" ELSE "invalidate"])
  /\ UNCHANGED <<table, listCache>>
FindMember(w) ==
  LET row == rows[job[w].p] IN
  /\ Moves(w, "member")
  /\ Become(w, [job[w] EXCEPT !.id = row.id,
                !.pc = IF row = NoRow THEN "insert"
                       ELSE IF row.role # job[w].role THEN "update" ELSE "invalidate"])
  /\ UNCHANGED <<table, listCache>>

(* Mutated: the insert replaces whatever row there is by now.              *)
InsertMemberUpsert(w) ==
  /\ Moves(w, "insert")
  /\ FreshIds # {}
  /\ rows' = [rows EXCEPT ![job[w].p] = [id |-> NewId, role |-> job[w].role]]
  /\ principals' = principals \cup {job[w].p}
  /\ Become(w, [job[w] EXCEPT !.pc = "refresh", !.id = NewId, !.fresh = FALSE])
  /\ UNCHANGED <<state, listCache>>

(* The INSERT fails on the unique constraint if someone has inserted a row *)
(* meanwhile, and on the foreign key if the resource has gone.             *)
InsertMember(w) ==
  /\ Moves(w, "insert")
  /\ \/ /\ state = "live" /\ rows[job[w].p] = NoRow
        /\ FreshIds # {}
        /\ rows' = [rows EXCEPT ![job[w].p] = [id |-> NewId, role |-> job[w].role]]
        /\ principals' = principals \cup {job[w].p}
        /\ Become(w, [job[w] EXCEPT !.pc = "refresh", !.id = NewId, !.fresh = FALSE])
        /\ UNCHANGED state
     \/ /\ state # "live" \/ rows[job[w].p] # NoRow
        /\ Raise(w)
        /\ UNCHANGED table
  /\ UNCHANGED listCache

(* Mutated: that the UPDATE matched no row goes unnoticed.                 *)
UpdateMemberUnchecked(w) ==
  /\ Moves(w, "update")
  /\ rows' = IF rows[job[w].p].id = job[w].id
             THEN [rows EXCEPT ![job[w].p].role = job[w].role] ELSE rows
  /\ Goto(w, "invalidate")
  /\ UNCHANGED <<state, principals, listCache>>

(* The UPDATE matches the row by its key; with no such row left the        *)
(* session raises.                                                         *)
UpdateMember(w) ==
  /\ Moves(w, "update")
  /\ IF rows[job[w].p].id = job[w].id
     THEN /\ rows' = [rows EXCEPT ![job[w].p].role = job[w].role]
          /\ Goto(w, "refresh")
     ELSE Raise(w) /\ UNCHANGED rows
  /\ UNCHANGED <<state, principals, listCache>>

(* session.refresh after the commit: the row may have gone again.          *)
Refresh(w) ==
  /\ Moves(w, "refresh")
  /\ IF rows[job[w].p].id = job[w].id THEN Goto(w, "invalidate") ELSE Raise(w)
  /\ UNCHANGED <<table, listCache>>

-----------------------------------------------------------------------------
(* delete_permission: the row is found by principal and role, and deleted  *)
(* by its key; with no such row left the session only warns.               *)
FindRole(w) ==
  LET row == rows[job[w].p] IN
  /\ Moves(w, "find")
  /\ IF row.role = job[w].role
     THEN Become(w, [job[w] EXCEPT !.pc = "remove", !.id = row.id])
     ELSE Raise(w)
  /\ UNCHANGED <<table, listCache>>

(* Mutated: the entry of the list is not deleted.                          *)
RemoveMemberSilently(w) ==
  LET found == rows[job[w].p].id = job[w].id IN
  /\ Moves(w, "remove")
  /\ rows' = IF found THEN [rows EXCEPT ![job[w].p] = NoRow] ELSE rows
  /\ Become(w, [job[w] EXCEPT !.pc = "ok"])
  /\ UNCHANGED <<state, principals, listCache>>
RemoveMember(w) ==
  LET found == rows[job[w].p].id = job[w].id IN
  /\ Moves(w, "remove")
  /\ rows' = IF found THEN [rows EXCEPT ![job[w].p] = NoRow] ELSE rows
  /\ Become(w, [job[w] EXCEPT !.pc = "invalidate",
                !.removed = IF found THEN rows[job[w].p].role ELSE NoRole])
  /\ UNCHANGED <<state, principals, listCache>>

(* _invalidate_permissions_cache, after the commit of either.              *)
Invalidate(w) ==
  /\ Moves(w, "invalidate")
  /\ listCache' = NoEntry
  /\ Goto(w, "ok")
  /\ UNCHANGED table

-----------------------------------------------------------------------------
(* delete_workflow: the rows of its members go with the resource.          *)
LoadResource(w) ==
  /\ Moves(w, "load")
  /\ Verify(w, "drop")

(* Of two deletions the later finds nothing to delete and only warns.      *)
DropResource(w) ==
  /\ Moves(w, "drop")
  /\ state' = "deleted"
  /\ rows' = [p \in Principals |-> NoRow]
  /\ Goto(w, "forget")
  /\ UNCHANGED <<principals, listCache>>

(* invalidate_permissions deletes {prefix}:permissions:tenant:T:workflow:R:* *)
(* where the entry is {prefix}:permissions:tenant:T:res:R:list.            *)
ForgetLists(w) ==
  /\ Moves(w, "forget")
  /\ Goto(w, "ok")
  /\ UNCHANGED <<table, listCache>>

-----------------------------------------------------------------------------
(* list_permissions: an entry is served without looking at the database.   *)
ListHit(w) ==
  /\ Moves(w, "list")
  /\ listCache # NoEntry
  /\ Become(w, Idle)
  /\ UNCHANGED <<table, listCache>>
ListMiss(w) ==
  /\ Moves(w, "list")
  /\ listCache = NoEntry
  /\ Verify(w, "readList")
ReadList(w) ==
  /\ Moves(w, "readList")
  /\ Become(w, [job[w] EXCEPT !.pc = "fillList", !.entry = RoleOf])
  /\ UNCHANGED <<table, listCache>>
FillList(w) ==
  /\ Moves(w, "fillList")
  /\ listCache' = job[w].entry
  /\ Become(w, Idle)
  /\ UNCHANGED table
(* The entry carries a TTL of 300 s.                                       *)
ExpireList ==
  /\ listCache # NoEntry
  /\ listCache' = NoEntry
  /\ UNCHANGED <<table, job>>

-----------------------------------------------------------------------------
Reply(w) ==
  /\ Moves(w, "ok") \/ Moves(w, "failed")
  /\ Become(w, Idle)
  /\ UNCHANGED <<table, listCache>>

(* A worker dies: its session is rolled back, its client sees an error.    *)
Crash(w) ==
  /\ Faults /\ MayMove(w)
  /\ job[w].pc \notin {"idle", "failed"}
  /\ Raise(w)
  /\ UNCHANGED <<table, listCache>>

Init ==
  /\ state = "none"
  /\ rows = [p \in Principals |-> NoRow]
  /\ principals \in SUBSET CustomGroups
  /\ listCache = NoEntry
  /\ job = [w \in Workers |-> Idle]

Begin(w) ==
  \/ /\ state = "none" /\ \A v \in Workers : ~At(v, "create")
     /\ Receive(w, "create", Creator, "ADMIN", "create")
  \/ \E op \in Operations \cap {"set", "delete"}, p \in Principals, r \in Levels :
       Receive(w, op, p, r, "verify")
  \/ "drop" \in Operations /\ Receive(w, "drop", Creator, "ADMIN", "load")
  \/ "list" \in Operations /\ Receive(w, "list", Creator, "ADMIN", "list")

Read(w) == ListHit(w) \/ ListMiss(w) \/ ReadList(w) \/ FillList(w)
Write(w) ==
  \/ Create(w) \/ VerifyResource(w)
  \/ FindPrincipal(w) \/ NewPrincipal(w) \/ FindMember(w)
  \/ InsertMember(w) \/ UpdateMember(w) \/ Refresh(w)
  \/ FindRole(w) \/ RemoveMember(w) \/ Invalidate(w)
  \/ LoadResource(w) \/ DropResource(w) \/ ForgetLists(w)

Next ==
  \/ \E w \in Workers : Begin(w) \/ Read(w) \/ Write(w) \/ Reply(w) \/ Crash(w)
  \/ ExpireList
Spec == Init /\ [][Next]_vars

-----------------------------------------------------------------------------
(* Rows, entries and the locals of the handlers are of the shape the code  *)
(* expects, and only rows that exist have ids (the unique constraint and   *)
(* the foreign keys of WorkflowMember).                                    *)
TypeOK ==
  /\ state \in {"none", "live", "deleted"}
  /\ rows \in [Principals -> Row]
  /\ \A p \in Principals : rows[p] # NoRow =>
       rows[p].id # NoId /\ rows[p].role # NoRole /\ p \in principals /\ state = "live"
  /\ principals \subseteq Principals
  /\ listCache \in Members \cup {NoEntry}
  /\ job \in [Workers -> Job]

(* No two rows share an id, and no session takes a row for another one:    *)
(* a row whose id it remembers belongs to the principal it works on.       *)
IdsNameRows ==
  /\ \A p, q \in Principals : rows[p].id = rows[q].id /\ rows[p].id # NoId => p = q
  /\ \A w \in Workers, p \in Principals :
       rows[p].id = job[w].id /\ job[w].id # NoId => p = job[w].p

(* Between the commit of a change and the deletion of the cached list.     *)
Invalidating(w) == job[w].pc \in {"refresh", "invalidate", "forget"}
Quiet == \A w \in Workers : ~Invalidating(w)

(* The cached list of a resource's permissions is the table, unless the    *)
(* handler of a change is about to delete it (set_permission,              *)
(* delete_permission: commit first, invalidate after).                     *)
ListCoherent ==
  state = "live" /\ Quiet => listCache \in {NoEntry, RoleOf}

(* Nothing is remembered of the permissions of a deleted resource          *)
(* (invalidate_permissions).                                               *)
DeletedResourceForgotten == state = "deleted" /\ Quiet => listCache = NoEntry

(* A revocation that succeeds has removed a row with the role it named.    *)
DeletesTheRoleNamed ==
  \A w \in Workers : At(w, "ok") /\ job[w].op = "delete" => job[w].removed = job[w].role

(* For users without a role in the organization, the middleware, the       *)
(* permissions handler, my_permission in its two forms and the lists       *)
(* agree, whatever the rows.                                               *)
PermissionsAgree ==
  \A u \in Users : OrgRolesOf[u] \cap OrgBypassRoles = {} => Agreement(u, RoleOf)
BulkAgrees ==
  \A u \in Users : BulkPermission(u, RoleOf) = ResolveMyPermission(u, RoleOf)

(* my_permission, in the responses of a resource that exists, is the       *)
(* effective permission of every user (resolve_my_permission).             *)
MyPermissionIsEffective == state = "live" => \A u \in Users : Effective(u, RoleOf)

-----------------------------------------------------------------------------
(* The requests of the abstract table, read off the jobs.                  *)
RequestOf(w) ==
  IF At(w, "idle") \/ job[w].op = "list" THEN [op |-> "none"]
  ELSE [op |-> job[w].op, p |-> job[w].p, role |-> job[w].role,
        phase |-> CASE At(w, "failed") -> "failed"
                    [] At(w, "ok") \/ Invalidating(w) -> "effective"
                    [] OTHER -> "called"]

Table == INSTANCE MemberTable
  WITH Roles <- Levels, Clients <- Workers, alive <- state = "live",
       table <- RoleOf, request <- [w \in Workers |-> RequestOf(w)]

(* Grants and deletions of the resource take effect at one instant each,   *)
(* between request and answer, whatever fails (set_permission,             *)
(* ensure_principal_exists, delete_workflow).                              *)
GrantsAreAtomic == Table!MSpec
===============================================================================
