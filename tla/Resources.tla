------------------------------- MODULE Resources -------------------------------
(***************************************************************************)
(* One resource of any kind, its row and what hangs on it (tags, members,  *)
(* copies, Viewer's favourite), and one of the cached answers that show    *)
(* it: the list as Viewer sees it, the detail, the members, the tags or    *)
(* Viewer's favourites.  Several processes serve requests; each request is *)
(* admitted by its route and then goes through the steps of its handler,   *)
(* any others' steps in between.  What else is cached of the resource      *)
(* lives under other keys and is not touched by this entry's steps, so the *)
(* behaviours for each kind and each slot are the system's behaviours as   *)
(* that one entry sees them.                                               *)
(***************************************************************************)
EXTENDS ResourceRoutes, ResourceAccess

CONSTANTS
  Workers,     \* requests in progress at a time; the first free one serves the next
  Viewer,      \* whose list is watched, and who is granted permissions
  Watched,     \* kind -> the slots of its cache to watch
  MaxChanges,  \* bounds the requests that change something (1 with faults)
  Grants,      \* the levels that set_permission is asked for
  FaultyKinds, \* for these, behaviours with faults are looked at as well
  NoEntry, NoJob

-----------------------------------------------------------------------------
(* The rows, what an answer shows of them, a request.                      *)
States == {"none", "live", "deleted"}
Rows == [state : States, version : Nat, tags : SUBSET {"tag"}, copies : SUBSET Users,
         favorite : BOOLEAN, members : Members]

Slots == {"list", "detail", "permissions", "tags", "favorites"}
Answers(s) ==
  [rows : CASE s = "list" -> (States \X Nat) \cup ({"not listed"} \X SUBSET Users)
                  \cup (Nat \X {BulkPermission(Viewer, m) : m \in Members} \X SUBSET Users)
            [] s = "detail" -> {"live"} \X Nat
            [] s = "permissions" -> Members
            [] s = "tags" -> SUBSET {"tag"}
            [] s = "favorites" -> BOOLEAN,
   tags : IF s \in {"list", "detail"} THEN SUBSET {"tag"} ELSE {{}}]

Readers == [list |-> "list", get |-> "detail", listPermissions |-> "permissions",
            getTags |-> "tags", listFavorites |-> "favorites"]
OfFavorites == {"addFavorite", "removeFavorite"}
Changing == {"create", "update", "delete", "duplicate", "setPermission",
             "deletePermission", "setTags", "deleteTags"} \cup OfFavorites
Jobs(s) ==
  [op : DOMAIN Readers \cup Changing \cup {"getPermission"},
   role : Levels \cup {NoRole}, who : Users, todo : Seq(Steps),
   view : Answers(s) \cup {NoEntry},
   raced : BOOLEAN, holds : BOOLEAN, changed : BOOLEAN, failed : BOOLEAN]

ASSUME ResourceConstants ==
  /\ Viewer \in Users /\ Grants \subseteq Levels
  /\ Workers \subseteq Nat /\ MaxChanges \in Nat \ {0}
  /\ DOMAIN Watched \subseteq DOMAIN Routes
  /\ \A k \in DOMAIN Watched : Watched[k] \subseteq Slots
  /\ \A s \in Slots : NoJob \notin Jobs(s)

VARIABLES
  kind, slot,  \* what is watched
  faulty,      \* may Redis commands fail and processes die?
  db,          \* the rows
  entry,       \* the watched entry of Redis
  job,         \* worker -> the request it serves
  left         \* changes still to come

fixed == <<kind, slot, faulty>>
vars == <<fixed, db, entry, job, left>>

Unlisted == {"ai_models", "custom_groups", "tenants"}   \* one list for all users
Permissioned == DOMAIN Routes \ Unlisted                 \* RESOURCE_CONFIG
Owned == kind \notin {"ai_models", "tenants"}    \* the creator gets a member row
CommitFirst == DOMAIN Routes \ {"credentials", "tenants"}

-----------------------------------------------------------------------------
(* What an answer shows of the rows.                                       *)
Live == db.state = "live"
SeenBy(u) == IF IsAdmin(u) THEN db.copies ELSE db.copies \cap {u}

InList == kind \in Unlisted \/ (Live /\ Listed(Viewer, db.members))

ListView ==
  IF kind \in Unlisted THEN <<db.state, db.version>>
  ELSE IF InList THEN <<db.version, BulkPermission(Viewer, db.members), SeenBy(Viewer)>>
  ELSE <<"not listed", SeenBy(Viewer)>>
(* The detail's my_permission is added after the entry is read.            *)
DetailView == <<db.state, db.version>>

(* Lists and details show the resource's tags as well.                     *)
View ==
  [rows |-> CASE slot = "list" -> ListView
              [] slot = "detail" -> DetailView
              [] slot = "permissions" -> db.members
              [] slot = "tags" -> db.tags
              [] slot = "favorites" -> db.favorite,
   tags |-> IF slot = "detail" \/ (slot = "list" /\ InList) THEN db.tags ELSE {}]

(* No change of tags invalidates a list, or the detail of an AI model; see *)
(* TagsStaleOnlyByRace.  Nothing invalidates the members, the tags and the *)
(* favourites of a resource that has gone; its id is never used again.     *)
TagsFollow == slot # "list" /\ kind # "ai_models"
Shows(view) ==
  \/ view.rows = View.rows /\ (TagsFollow => view.tags = View.tags)
  \/ db.state = "deleted" /\ slot \in {"permissions", "tags", "favorites"}
Stale == entry # NoEntry /\ ~Shows(entry.view)

-----------------------------------------------------------------------------
(* Requests                                                                *)
(* check_permissions of the route, as the rows are when the request comes. *)
Admits(route, u, member) ==
  LET g == route.guard IN
  CASE g.entity = "none" -> TRUE
    [] g.entity = "tenant" ->
         OrgRolesOf[u] \cap OrgBypassRoles # {} \/ TenantRolesOf[u] \cap g.required # {}
    [] g.entity = "user_favorite" -> OrgRolesOf[u] \cap OrgBypassRoles # {} \/ u = Viewer
    [] g.entity = "resource" -> CheckPermissions(u, g.required \cap Levels, member)

Serves(op) == op \in DOMAIN Routes[kind] /\ Routes[kind][op].handler # Elsewhere
Active(w) == job[w] # NoJob
Become(w, j) == job' = [job EXCEPT ![w] = j]
Step(w) == Head(job[w].todo)
At(w, step) == Active(w) /\ job[w].todo # <<>> /\ Step(w) = step
Advanced(w) ==
  IF Tail(job[w].todo) = <<>> THEN NoJob ELSE [job[w] EXCEPT !.todo = Tail(@)]
Advance(w) == Become(w, Advanced(w))
Fail(w) == Become(w, [job[w] EXCEPT !.todo = <<>>, !.failed = TRUE])
Writing == \E w \in Workers : Active(w) /\ job[w].op \in Changing /\ job[w].todo # <<>>

Begin(w, u, op, role) ==
  /\ ~Active(w) /\ \A v \in 1 .. w - 1 : Active(v)
  /\ Serves(op)
  /\ op \in DOMAIN Readers => Readers[op] = slot /\ u = Viewer
  /\ op \in OfFavorites => slot = "favorites"   \* rows and entries of their own
  /\ op = "create" => db.state = "none"
  /\ db.state = "none" => op \in {"create", "list", "listFavorites"}
  /\ op = "duplicate" => u \notin db.copies
  /\ role # NoRole <=> op = "setPermission"
  /\ Admits(Routes[kind][op], u, db.members)
  /\ left' = IF op \in Changing THEN left - 1 ELSE left
  /\ left' >= 0
  /\ Become(w, [op |-> op, role |-> role,
                who |-> IF op \in {"create", "duplicate"} THEN u ELSE Viewer,
                todo |-> Routes[kind][op].handler, view |-> NoEntry, raced |-> FALSE,
                holds |-> FALSE, changed |-> FALSE, failed |-> FALSE])
  /\ UNCHANGED <<fixed, db, entry>>

Refuse(w) ==
  /\ Active(w) /\ job[w].failed
  /\ Become(w, NoJob)
  /\ UNCHANGED <<fixed, db, entry, left>>

-----------------------------------------------------------------------------
(* Reading                                                                 *)
Lookup(w) ==
  /\ At(w, "lookup")
  /\ Become(w, IF entry # NoEntry THEN NoJob ELSE Advanced(w))
  /\ UNCHANGED <<fixed, db, entry, left>>

Peek(w) ==
  /\ At(w, "peek")
  /\ \/ Advance(w)
     \/ entry # NoEntry /\ Become(w, NoJob)
  /\ UNCHANGED <<fixed, db, entry, left>>

Find(w) ==
  /\ At(w, "find")
  /\ IF db.favorite THEN Become(w, NoJob) ELSE Advance(w)
  /\ UNCHANGED <<fixed, db, entry, left>>

(* 404 for what has gone; a list and the tags of it are just empty.        *)
(* Mutated: what is not there is stored as it is.                          *)
ReadAnything(w) ==
  /\ At(w, "read")
  /\ Become(w, [Advanced(w) EXCEPT !.view = View, !.raced = Writing])
  /\ UNCHANGED <<fixed, db, entry, left>>
Read(w) ==
  /\ At(w, "read")
  /\ IF Live \/ slot \in {"list", "tags", "favorites"}
     THEN Become(w, [Advanced(w) EXCEPT !.view = View, !.raced = Writing])
     ELSE Fail(w)
  /\ UNCHANGED <<fixed, db, entry, left>>

(* A failing SET is logged and ignored.                                    *)
Fill(w) ==
  /\ At(w, "fill")
  /\ \/ entry' = [view |-> job[w].view, overtaken |-> ~Shows(job[w].view),
                  raced |-> job[w].raced \/ Writing \/ ~Shows(job[w].view)]
     \/ faulty /\ UNCHANGED entry
  /\ Advance(w)
  /\ UNCHANGED <<fixed, db, left>>

(* Every SET has a TTL.                                                    *)
(* Mutated: the entry is kept for good.                                    *)
ExpireNever ==
  /\ FALSE
  /\ UNCHANGED vars
Expire ==
  /\ entry # NoEntry
  /\ entry' = NoEntry
  /\ UNCHANGED <<fixed, db, job, left>>

-----------------------------------------------------------------------------
(* Writing                                                                 *)
Validate(w) ==
  /\ At(w, "validate")
  /\ Advance(w) \/ Fail(w)
  /\ UNCHANGED <<fixed, db, entry, left>>

Load(w) ==
  /\ At(w, "load")
  /\ IF Live THEN Advance(w) ELSE Fail(w)
  /\ UNCHANGED <<fixed, db, entry, left>>

(* Could the statement be executed on the rows as they are?                *)
Executable(op) ==
  CASE op = "create" -> db.state = "none"
    [] op = "update" -> Live           \* StaleDataError
    [] op = "delete" -> TRUE           \* a warning only
    [] op = "deletePermission" -> Live /\ db.members[Viewer] # NoRole
    [] op \in {"setPermission", "setTags"} -> Live    \* foreign keys
    [] op = "addFavorite" -> Live /\ ~db.favorite    \* unique
    [] op \in {"duplicate", "deleteTags", "removeFavorite"} -> TRUE

(* One tag stands for any; an update makes a version not seen before.      *)
Effect(w) ==
  LET op == job[w].op IN
  CASE op = "create" ->
         [db EXCEPT !.state = "live",
                    !.members[job[w].who] = IF Owned THEN "ADMIN" ELSE NoRole]
    [] op = "update" -> [db EXCEPT !.version = @ + 1]
    [] op = "delete" ->
         [db EXCEPT !.state = "deleted", !.members = [p \in Principals |-> NoRole],
                    !.tags = {}, !.favorite = FALSE]
    [] op = "duplicate" -> [db EXCEPT !.copies = @ \cup {job[w].who}]
    [] op = "setPermission" -> [db EXCEPT !.members[job[w].who] = job[w].role]
    [] op = "deletePermission" -> [db EXCEPT !.members[job[w].who] = NoRole]
    [] op = "setTags" -> [db EXCEPT !.tags = {"tag"}]
    [] op = "deleteTags" -> [db EXCEPT !.tags = {}]
    [] op \in OfFavorites -> [db EXCEPT !.favorite = (op = "addFavorite")]

Locked == \E w \in Workers : Active(w) /\ job[w].holds

Flush(w) ==
  /\ At(w, "flush")
  /\ ~Locked
  /\ \/ Executable(job[w].op) /\ Become(w, [Advanced(w) EXCEPT !.holds = TRUE])
     \/ Fail(w)
  /\ UNCHANGED <<fixed, db, entry, left>>

(* A commit may be refused (a name that is taken, a lost connection).      *)
Commit(w) ==
  /\ At(w, "commit")
  /\ job[w].holds \/ ~Locked
  /\ \/ /\ job[w].holds \/ Executable(job[w].op)
        /\ db' = Effect(w)
        /\ Become(w, IF Advanced(w) = NoJob THEN NoJob
                     ELSE [Advanced(w) EXCEPT !.holds = FALSE, !.changed = TRUE])
     \/ /\ Become(w, [job[w] EXCEPT !.todo = <<>>, !.holds = FALSE, !.failed = TRUE])
        /\ UNCHANGED db
  /\ UNCHANGED <<fixed, entry, left>>

Refetch(w) ==
  /\ At(w, "refetch")
  /\ IF job[w].holds \/ Live THEN Advance(w) ELSE Fail(w)
  /\ UNCHANGED <<fixed, db, entry, left>>

Reread(w) ==
  /\ At(w, "reread")
  /\ IF db.members[Viewer] # NoRole THEN Advance(w) ELSE Fail(w)
  /\ UNCHANGED <<fixed, db, entry, left>>

(* A failing DEL is logged and ignored.                                    *)
Wipe(w) ==
  /\ \E step \in WipeSteps :
       /\ At(w, step)
       /\ \/ entry' = IF Wiped(kind, step) = StoredAt(kind, slot) THEN NoEntry ELSE entry
          \/ faulty /\ UNCHANGED entry
  /\ Advance(w)
  /\ UNCHANGED <<fixed, db, left>>

(* The process dies: PostgreSQL rolls back, Redis keeps what it has.       *)
Crash(w) ==
  /\ faulty
  /\ Active(w)
  /\ Become(w, NoJob)
  /\ UNCHANGED <<fixed, db, entry, left>>

-----------------------------------------------------------------------------
Initially(live, role) ==
  [state |-> IF live THEN "live" ELSE "none", version |-> 0, tags |-> {}, copies |-> {},
   favorite |-> FALSE,
   members |-> [p \in Principals |-> IF p = Viewer THEN role ELSE NoRole]]

Init ==
  /\ kind \in DOMAIN Watched /\ slot \in Watched[kind]
  /\ faulty \in BOOLEAN /\ (faulty => kind \in FaultyKinds)
  /\ \/ db = Initially(FALSE, NoRole)
     \/ \E role \in Grants \cup {NoRole} : db = Initially(TRUE, role)
  /\ entry = NoEntry
  /\ job = [w \in Workers |-> NoJob]
  /\ left = IF faulty THEN 1 ELSE MaxChanges

Start(w) ==
  \E u \in Users, op \in DOMAIN Routes[kind], role \in Grants \cup {NoRole} :
    Begin(w, u, op, role)

Continue(w) ==
  \/ Lookup(w) \/ Peek(w) \/ Find(w) \/ Read(w) \/ Fill(w)
  \/ Validate(w) \/ Load(w) \/ Flush(w) \/ Commit(w) \/ Refetch(w) \/ Reread(w)
  \/ Wipe(w) \/ Refuse(w)

Next == (\E w \in Workers : Start(w) \/ Continue(w) \/ Crash(w)) \/ Expire
Spec == Init /\ [][Next]_vars
(* A request that is being served makes progress; Redis honours a TTL.     *)
FairSpec == Spec /\ WF_vars(Expire) /\ \A w \in Workers : WF_vars(Continue(w))

-----------------------------------------------------------------------------
(* The rows, the entry and the requests are of the shape the code expects; *)
(* what was not found is never stored as a detail (get_... answers 404     *)
(* before it stores); a row that is locked is one about to be committed.   *)
TypeOK ==
  /\ kind \in DOMAIN Watched /\ slot \in Watched[kind] /\ faulty \in BOOLEAN
  /\ db \in Rows /\ left \in 0 .. MaxChanges
  /\ entry \in {NoEntry} \cup [view : Answers(slot), overtaken : BOOLEAN, raced : BOOLEAN]
  /\ job \in [Workers -> Jobs(slot) \cup {NoJob}]
  /\ \A w \in Workers : Active(w) =>
       /\ Serves(job[w].op)
       /\ job[w].todo # <<>> => ~job[w].failed
       /\ job[w].holds => "commit" \in Range(job[w].todo)

(* A cached answer is out of date only while a change is being made, or    *)
(* because it was read or stored while one was (every handler that changes *)
(* what an entry shows deletes that entry, for every kind and every slot). *)
StaleOnlyByRace == Stale /\ ~faulty => entry.raced \/ Writing

(* The same of the tags that a list or a detail shows (set_resource_tags   *)
(* and delete_resource_tags invalidate the resource's detail).             *)
TagsStaleOnlyByRace ==
  entry # NoEntry /\ Live /\ entry.view.tags # View.tags /\ ~faulty =>
    entry.raced \/ Writing

(* Where the commit comes before the DEL, a reader must even be overtaken: *)
(* it read before the commit and stores after it.  Or the DEL is still to  *)
(* come.  Tags and favourites are another matter: there the DEL is first.  *)
WipePending ==
  \E w \in Workers : Active(w) /\ job[w].changed
    /\ \E i \in DOMAIN job[w].todo :
         job[w].todo[i] \in WipeSteps
         /\ Wiped(kind, job[w].todo[i]) = StoredAt(kind, slot)
DelFirst ==
  slot \in {"tags", "favorites"} \/ (slot = "detail" /\ entry.view.tags # View.tags)
CommittedIsSeen == Stale /\ ~DelFirst /\ ~faulty => entry.overtaken \/ WipePending
StaleOnlyIfOvertaken == kind \in CommitFirst => CommittedIsSeen

(* A request that comes to fail has changed nothing, unless what it        *)
(* changed has been taken away by another (validations precede the commit; *)
(* after it only the re-reading of the row can fail).                      *)
RefusedChangesNothing ==
  [][\A w \in Workers :
       Active(w) /\ job[w].changed /\ job'[w] # NoJob /\ job'[w].failed =>
         \/ db.state = "deleted"
         \/ job[w].op = "setPermission" /\ db.members[Viewer] = NoRole
         \/ job[w].failed]_vars

(* A role on a resource means the same for every kind: the same operations *)
(* are open to it, and those that are open to a role are open to a higher  *)
(* one (the guards of 90 routes; looked at whenever nobody is served).     *)
(* Some docstrings say otherwise: see PermissionsShownToAdmins.            *)
OpenTo(k, op, u, role) ==
  Admits(Routes[k][op], u, [db.members EXCEPT ![u] = role])
RoutesAgree ==
  kind \in Permissioned /\ (\A w \in Workers : ~Active(w)) =>
    \A k \in Permissioned, u \in Users, role \in Levels \cup {NoRole} :
      \A op \in {o \in DOMAIN Routes[k] : Serves(o)} :
        /\ OpenTo(k, op, u, role) <=> OpenTo(kind, op, u, role)
        /\ OpenTo(k, op, u, role) =>
             \A higher \in Levels :
               Hierarchy(role) <= Hierarchy(higher) => OpenTo(k, op, u, higher)

(* What the docstrings of some kinds say, that only who may give a role on *)
(* a resource may see who has one, does not hold: as for the other kinds,  *)
(* READ is enough (list_permissions, get_permission).                      *)
PermissionsShownToAdmins ==
  kind \in {"chat_agents", "chat_widgets", "credentials", "conversations"} =>
    \A op \in {"listPermissions", "getPermission"}, u \in Users, role \in Levels :
      OpenTo(kind, op, u, role) => OpenTo(kind, "setPermission", u, role)

(* Once the changes have ended, the cached answers come to agree with the  *)
(* rows and stay so, whatever has failed (TTLs).                           *)
EventuallyFresh == <>[]~Stale
===============================================================================
