------------------------- MODULE TenantAccessProofs -------------------------
(***************************************************************************)
(* What holds of TenantAccess for every set of users, groups, roles and    *)
(* workers: its types; while requests and write handlers do not overlap    *)
(* and nothing fails, that every stale entry has its deletion ahead, and   *)
(* so the coherence of the cached roles; and, whatever fails and           *)
(* interleaves, that cached roles were once granted.                       *)
(***************************************************************************)
EXTENDS TenantAccessHistory, TLAPS

(* The job of an idle worker is a job, and has nothing left to delete.     *)
LEMMA IdleIsAJob == Idle \in Job /\ Idle.pc = "idle" /\ ~Idle.delete /\ Idle.todo = {}
  BY ConstantTypes DEF Idle, Job, Principals

(* The helpers that compute the next job and the next cache stay in type.  *)
LEMMA ProceedIsAJob ==
  ASSUME NEW j \in Job
  PROVE  Proceed(j) \in Job
  BY IdleIsAJob, ConstantTypes DEF Proceed, Job, WriterSteps

(* Giving one worker another job keeps the table of jobs well typed.       *)
LEMMA BecomeType ==
  ASSUME job \in [Workers -> Job], NEW w \in Workers, NEW j \in Job, Become(w, j)
  PROVE  job' \in [Workers -> Job]
  BY DEF Become

(* So does moving one worker to another step.                              *)
LEMMA GotoType ==
  ASSUME job \in [Workers -> Job], NEW w \in Workers,
         NEW s \in {"idle"} \cup ReaderSteps \cup WriterSteps, Goto(w, s)
  PROVE  job' \in [Workers -> Job]
<1>1. [job[w] EXCEPT !.pc = s] \in Job
  BY DEF Job
<1> QED BY <1>1, BecomeType DEF Goto

(* Storing a set of roles, or failing to, leaves a well typed cache.       *)
LEMMA StoredRolesType ==
  ASSUME rolesCache \in [Users -> {NoValue} \cup SUBSET Roles],
         NEW u \in Users, NEW v \in {NoValue} \cup SUBSET Roles
  PROVE  Stored(rolesCache, u, v) \subseteq [Users -> {NoValue} \cup SUBSET Roles]
  BY DEF Stored

(* The same for a set of groups.                                           *)
LEMMA StoredGroupsType ==
  ASSUME groupsCache \in [Users -> {NoValue} \cup SUBSET CustomGroups],
         NEW u \in Users, NEW v \in {NoValue} \cup SUBSET CustomGroups
  PROVE  Stored(groupsCache, u, v) \subseteq [Users -> {NoValue} \cup SUBSET CustomGroups]
  BY DEF Stored

(* The service starts well typed.                                          *)
LEMMA TypeInit == Init => TypeOK
  BY ConstantTypes, IdleIsAJob DEF Init, TypeOK, Principals

(* The steps of a request keep the types: two lookups, two fills.          *)
LEMMA TypeRequest ==
  ASSUME TypeOK, NEW w \in Workers, Begin(w) \/ Request(w)
  PROVE  TypeOK'
<1> USE DEF TypeOK, At, Holds, database, caches
<1>0. job[w] \in Job /\ job[w].user \in Users
  BY DEF Job
<1>1. ASSUME NEW u \in Users, NEW c \in BOOLEAN, BeginRequest(w, u, c)
      PROVE  TypeOK'
  <2>1. [Idle EXCEPT !.pc = "groups", !.user = u, !.cached = c] \in Job
    BY IdleIsAJob DEF Job, ReaderSteps
  <2> QED BY <1>1, <2>1, BecomeType DEF BeginRequest
<1>2. CASE GroupsHit(w)
  <2>1. groupsCache[job[w].user] \in SUBSET CustomGroups
    BY <1>0, <1>2 DEF GroupsHit
  <2>2. [job[w] EXCEPT !.pc = "roles", !.groups = groupsCache[job[w].user]] \in Job
    BY <1>0, <2>1 DEF Job, ReaderSteps
  <2> QED BY <1>2, <2>2, BecomeType DEF GroupsHit
<1>3. CASE GroupsMiss(w)
  BY <1>3, GotoType DEF GroupsMiss, ReaderSteps
<1>4. CASE ReadGroups(w)
  <2>1. [job[w] EXCEPT !.pc = "groupsFill", !.groups = GroupsOf(job[w].user)] \in Job
    BY <1>0 DEF Job, ReaderSteps, GroupsOf
  <2> QED BY <1>4, <2>1, BecomeType DEF ReadGroups
<1>5. CASE FillGroups(w)
  <2>1. job[w].user \in Users /\ job[w].groups \in SUBSET CustomGroups
    BY <1>0 DEF Job
  <2>2. groupsCache' \in [Users -> {NoValue} \cup SUBSET CustomGroups]
    BY <1>5, <2>1, StoredGroupsType DEF FillGroups
  <2> QED BY <1>5, <2>2, GotoType DEF FillGroups, ReaderSteps
<1>6. CASE RolesHit(w)
  BY <1>6, IdleIsAJob, BecomeType DEF RolesHit
<1>7. CASE RolesMiss(w)
  BY <1>7, GotoType DEF RolesMiss, ReaderSteps
<1>8. CASE ReadRoles(w)
  <2>1. [job[w] EXCEPT !.pc = "rolesFill",
           !.roles = RolesVia(PrincipalsOf(job[w].user, job[w].groups))] \in Job
    BY <1>0 DEF Job, ReaderSteps, RolesVia
  <2> QED BY <1>8, <2>1, BecomeType DEF ReadRoles
<1>9. CASE FillRoles(w)
  <2>1. job[w].user \in Users /\ job[w].roles \in SUBSET Roles
    BY <1>0 DEF Job
  <2>2. rolesCache' \in [Users -> {NoValue} \cup SUBSET Roles]
    BY <1>9, <2>1, StoredRolesType DEF FillRoles
  <2> QED BY <1>9, <2>2, IdleIsAJob, BecomeType DEF FillRoles
<1> QED
  BY <1>1, <1>2, <1>3, <1>4, <1>5, <1>6, <1>7, <1>8, <1>9 DEF Begin, Request

(* The first steps of the write handlers keep the types.                   *)
LEMMA TypeWrite ==
  ASSUME TypeOK, NEW w \in Workers, Write(w)
  PROVE  TypeOK'
<1> USE DEF TypeOK, At, database, caches
<1>1. ASSUME NEW p \in Principals, NEW r \in Roles, SetPermission(w, p, r)
      PROVE  TypeOK'
  <2>1. [Idle EXCEPT !.pc = "affected", !.row = <<p, r>>, !.actor = TRUE] \in Job
    BY IdleIsAJob DEF Job, WriterSteps
  <2> QED BY <1>1, <2>1, BecomeType DEF SetPermission
<1>2. ASSUME NEW p \in Principals, NEW r \in Roles, DeletePermission(w, p, r)
      PROVE  TypeOK'
  <2>0. \A d \in BOOLEAN :
          [Idle EXCEPT !.pc = "affected", !.row = <<p, r>>, !.delete = d] \in Job
    BY IdleIsAJob DEF Job, WriterSteps
  <2>1. [Idle EXCEPT !.pc = "affected", !.row = <<p, r>>,
                     !.delete = <<p, r>> \in members] \in Job
    <3>1. (<<p, r>> \in members) \in BOOLEAN
      BY SMT
    <3> QED BY <2>0, <3>1, Zenon
  <2> QED BY <1>2, <2>1, BecomeType DEF DeletePermission
<1>3. ASSUME NEW g \in CustomGroups, CreateGroup(w, g)
      PROVE  TypeOK'
  <2>1. [Idle EXCEPT !.pc = "clearRoles", !.todo = {Admin}] \in Job
    BY IdleIsAJob, ConstantTypes DEF Job, WriterSteps
  <2> QED BY <1>3, <2>1, BecomeType, ConstantTypes DEF CreateGroup
<1>4. ASSUME NEW g \in CustomGroups, DeleteGroup(w, g)
      PROVE  TypeOK'
  <2>1. [Idle EXCEPT !.pc = "wipeRoles"] \in Job
    BY IdleIsAJob DEF Job, WriterSteps
  <2> QED BY <1>4, <2>1, BecomeType DEF DeleteGroup
<1>5. ASSUME NEW g \in CustomGroups, NEW u \in Users, SetMember(w, g, u)
      PROVE  TypeOK'
  <2>1. [Idle EXCEPT !.pc = "clearRoles", !.todo = {u}, !.actor = TRUE] \in Job
    BY IdleIsAJob DEF Job, WriterSteps
  <2> QED BY <1>5, <2>1, BecomeType DEF SetMember
<1>6. ASSUME NEW g \in CustomGroups, NEW u \in Users, DeleteMember(w, g, u)
      PROVE  TypeOK'
  <2>1. [Idle EXCEPT !.pc = "clearRoles", !.todo = {u}] \in Job
    BY IdleIsAJob DEF Job, WriterSteps
  <2> QED BY <1>6, <2>1, BecomeType DEF DeleteMember
<1> QED BY <1>1, <1>2, <1>3, <1>4, <1>5, <1>6 DEF Write

(* The invalidations and the late commit of a deletion keep the types.     *)
LEMMA TypeInvalidate ==
  ASSUME TypeOK, NEW w \in Workers, Invalidate(w)
  PROVE  TypeOK'
<1> USE DEF TypeOK, At, database, caches
<1>0. job[w] \in Job /\ job[w].user \in Users /\ job[w].todo \subseteq Users
  BY DEF Job
<1>1. CASE Affected(w)
  <2>1. \A t \in SUBSET Users : [job[w] EXCEPT !.todo = t] \in Job
    BY <1>0 DEF Job
  <2>2. \A t \in SUBSET Users : Proceed([job[w] EXCEPT !.todo = t]) \in Job
    BY <2>1, ProceedIsAJob
  <2>3. job' \in [Workers -> Job]
    BY <1>1, <2>2, BecomeType, GotoType DEF Affected, WriterSteps
  <2> QED BY <1>1, <2>3 DEF Affected
<1>2. CASE WipeGroups(w)
  BY <1>2, GotoType DEF WipeGroups, Wiped, WriterSteps
<1>3. CASE WipeRoles(w)
  <2>1. Proceed(job[w]) \in Job
    BY <1>0, ProceedIsAJob
  <2> QED BY <1>3, <2>1, BecomeType DEF WipeRoles, Wiped
<1>4. CASE ClearRoles(w)
  <2>1. PICK u \in Users : /\ rolesCache' \in Stored(rolesCache, u, NoValue)
                           /\ Become(w, [job[w] EXCEPT !.pc = "clearGroups", !.user = u])
    BY <1>0, <1>4 DEF ClearRoles
  <2>2. rolesCache' \in [Users -> {NoValue} \cup SUBSET Roles]
    BY <2>1, StoredRolesType
  <2>3. [job[w] EXCEPT !.pc = "clearGroups", !.user = u] \in Job
    BY <1>0 DEF Job, WriterSteps
  <2> QED BY <1>4, <2>1, <2>2, <2>3, BecomeType DEF ClearRoles
<1>5. CASE ClearGroups(w)
  <2>1. Proceed([job[w] EXCEPT !.todo = @ \ {job[w].user}]) \in Job
    <3>1. [job[w] EXCEPT !.todo = @ \ {job[w].user}] \in Job
      BY <1>0 DEF Job
    <3> QED BY <3>1, ProceedIsAJob
  <2>2. groupsCache' \in [Users -> {NoValue} \cup SUBSET CustomGroups]
    BY <1>0, <1>5, StoredGroupsType DEF ClearGroups
  <2> QED BY <1>5, <2>1, <2>2, BecomeType DEF ClearGroups
<1>6. CASE CommitDelete(w)
  BY <1>6, IdleIsAJob, BecomeType DEF CommitDelete
<1> QED BY <1>1, <1>2, <1>3, <1>4, <1>5, <1>6 DEF Invalidate

(* Every step keeps the types, crashes and expiries included.              *)
LEMMA TypeNext == TypeOK /\ [Next]_vars => TypeOK'
<1> SUFFICES ASSUME TypeOK, [Next]_vars PROVE TypeOK'
  OBVIOUS
<1>1. ASSUME NEW w \in Workers, Begin(w) \/ Request(w) PROVE TypeOK'
  BY <1>1, TypeRequest
<1>2. ASSUME NEW w \in Workers, Write(w) PROVE TypeOK'
  BY <1>2, TypeWrite
<1>3. ASSUME NEW w \in Workers, Invalidate(w) PROVE TypeOK'
  BY <1>3, TypeInvalidate
<1>4. ASSUME NEW w \in Workers, Crash(w) PROVE TypeOK'
  BY <1>4, IdleIsAJob DEF Crash, TypeOK, Become, database, caches
<1>5. ASSUME NEW u \in Users, ExpireGroups(u) \/ ExpireRoles(u) PROVE TypeOK'
  BY <1>5 DEF ExpireGroups, ExpireRoles, TypeOK, database, Holds
<1>6. CASE UNCHANGED vars
  BY <1>6 DEF vars, TypeOK
<1> QED BY <1>1, <1>2, <1>3, <1>4, <1>5, <1>6 DEF Next

(* Rows, entries and jobs keep their types whatever fails and interleaves. *)
THEOREM TypeCorrect == Spec => []TypeOK
  BY TypeInit, TypeNext, PTL DEF Spec

-----------------------------------------------------------------------------
(* Coherence while requests and write handlers do not overlap.             *)

Inv == TypeOK /\ StaleOnlyWhilePending

(* With no write handler at work nobody is on the way to an entry, so no   *)
(* entry is stale.                                                         *)
LEMMA QuietFromInv == Inv => QuietCoherence
<1> SUFFICES ASSUME Inv, Quiet, NEW u \in Users
             PROVE  rolesCache[u] \in {NoValue, RolesOf(u)}
  BY DEF QuietCoherence, Coherent
<1>1. \A w \in Workers : ~WillClearRoles(w, u)
  BY DEF Quiet, Writing, WriterSteps, WillClearRoles, At
<1> QED BY <1>1 DEF Inv, StaleOnlyWhilePending, RolesSettled

(* The service starts with no entries and no handler at work.              *)
LEMMA InvInit == Init => Inv
<1> SUFFICES ASSUME Init PROVE Inv
  OBVIOUS
<1>1. TypeOK
  BY TypeInit
<1>2. \A w \in Workers : job[w].pc = "idle" /\ ~job[w].delete
  BY IdleIsAJob DEF Init
<1>3. Apart
  BY <1>2 DEF Apart, Reading, Writing, ReaderSteps, WriterSteps
<1>4. RowsOfLiveGroups
  BY ConstantTypes, KindsDisjoint DEF Init, RowsOfLiveGroups
<1>5. \A u \in Users : RolesSettled(u) /\ GroupsSettled(u)
  BY DEF Init, RolesSettled, GroupsSettled
<1>6. \A w \in Workers : DeletionPrepared(w) /\ ReaderView(w)
  BY <1>2 DEF DeletionPrepared, ReaderView, At
<1> QED BY <1>1, <1>3, <1>4, <1>5, <1>6 DEF Inv, StaleOnlyWhilePending

(* While a request is served no write handler is at work, so every entry   *)
(* is current.                                                             *)
LEMMA CurrentWhileReading ==
  ASSUME Inv, NEW w \in Workers, Reading(w)
  PROVE  /\ \A v \in Workers : ~Writing(v) /\ ~job[v].delete
         /\ \A u \in Users : rolesCache[u] \in {NoValue, RolesOf(u)}
         /\ \A u \in Users :
              groupsCache[u] = NoValue \/ NamesGroupsOf(groupsCache[u], u)
<1>1. \A v \in Workers : ~Writing(v)
  BY DEF Inv, StaleOnlyWhilePending, Apart
<1>2. \A v \in Workers : ~job[v].delete
  BY <1>1 DEF Inv, StaleOnlyWhilePending, DeletionPrepared
<1>3. \A v \in Workers, u \in Users : ~WillClearRoles(v, u) /\ ~WillClearGroups(v, u)
  BY <1>1 DEF Writing, WriterSteps, WillClearRoles, WillClearGroups, At
<1> QED
  BY <1>1, <1>2, <1>3 DEF Inv, StaleOnlyWhilePending, RolesSettled, GroupsSettled

(* Deleted groups carry no rows: naming them changes no role.              *)
LEMMA RolesThroughNamedGroups ==
  ASSUME RowsOfLiveGroups, NEW u \in Users, NEW gs \in SUBSET CustomGroups,
         NamesGroupsOf(gs, u)
  PROVE  RolesVia(PrincipalsOf(u, gs)) = RolesOf(u)
<1>1. ASSUME NEW r \in Roles, NEW p \in PrincipalsOf(u, gs), <<p, r>> \in members
      PROVE  p \in PrincipalsOf(u, GroupsOf(u))
  BY <1>1 DEF PrincipalsOf, NamesGroupsOf, RowsOfLiveGroups
<1>2. PrincipalsOf(u, GroupsOf(u)) \subseteq PrincipalsOf(u, gs)
  BY DEF PrincipalsOf, NamesGroupsOf
<1> QED BY <1>1, <1>2 DEF RolesVia, RolesOf

(* What depends on the rows alone is unchanged with them.                  *)
LEMMA SameRows ==
  ASSUME UNCHANGED database
  PROVE  /\ \A g : Live(g)' = Live(g)
         /\ \A u : GroupsOf(u)' = GroupsOf(u)
         /\ \A u : RolesOf(u)' = RolesOf(u)
         /\ \A u, p : ActsThrough(u, p)' <=> ActsThrough(u, p)
         /\ \A gs, u : NamesGroupsOf(gs, u)' <=> NamesGroupsOf(gs, u)
         /\ RowsOfLiveGroups' <=> RowsOfLiveGroups
<1> USE DEF database
<1>1. \A g : Live(g)' = Live(g)
  BY DEF Live
<1>2. \A u : GroupsOf(u)' = GroupsOf(u)
  BY DEF GroupsOf
<1>3. \A u : RolesOf(u)' = RolesOf(u)
  BY <1>2 DEF RolesOf, RolesVia, PrincipalsOf
<1>4. \A u, p : ActsThrough(u, p)' <=> ActsThrough(u, p)
  BY <1>2 DEF ActsThrough, PrincipalsOf
<1>5. \A gs, u : NamesGroupsOf(gs, u)' <=> NamesGroupsOf(gs, u)
  BY <1>1, <1>2 DEF NamesGroupsOf
<1>6. RowsOfLiveGroups' <=> RowsOfLiveGroups
  BY <1>1 DEF RowsOfLiveGroups
<1> QED BY <1>1, <1>2, <1>3, <1>4, <1>5, <1>6

(* With the rows unchanged, the other workers clear what they would have   *)
(* cleared.                                                                *)
LEMMA OthersStillClear ==
  ASSUME UNCHANGED database, NEW v \in Workers, job'[v] = job[v], NEW u \in Users
  PROVE  /\ WillClearRoles(v, u)' <=> WillClearRoles(v, u)
         /\ WillClearGroups(v, u)' <=> WillClearGroups(v, u)
<1>1. ActsThrough(u, job[v].row[1])' <=> ActsThrough(u, job[v].row[1])
  <2>1. \A p : ActsThrough(u, p)' <=> ActsThrough(u, p)
    BY SameRows
  <2> QED BY <2>1 DEF ActsThrough, PrincipalsOf, GroupsOf, database
<1> QED BY <1>1 DEF WillClearRoles, WillClearGroups, At, ActsThrough, PrincipalsOf, GroupsOf, database

(* A step of a request: it may write a current value into an entry.        *)
LEMMA RequestStep ==
  ASSUME Inv, TypeOK', Apart', UNCHANGED database, NEW w \in Workers,
         Reading(w) \/ UNCHANGED caches, ~Writing(w), ~Writing(w)', ~job'[w].delete,
         \A v \in Workers \ {w} : job'[v] = job[v],
         \A u \in Users : rolesCache'[u] \in {rolesCache[u], NoValue, RolesOf(u)},
         \A u \in Users : \/ groupsCache'[u] \in {groupsCache[u], NoValue}
                          \/ NamesGroupsOf(groupsCache'[u], u),
         ReaderView(w)'
  PROVE  Inv'
<1>0. Inv => TypeOK /\ StaleOnlyWhilePending
  BY DEF Inv
<1>1. RowsOfLiveGroups'
  BY <1>0, SameRows DEF StaleOnlyWhilePending
<1>2. \A u \in Users : ~WillClearRoles(w, u) /\ ~WillClearGroups(w, u)
  BY DEF Writing, WriterSteps, WillClearRoles, WillClearGroups, At
<1>3. \A v \in Workers, u \in Users :
        /\ WillClearRoles(v, u) => WillClearRoles(v, u)'
        /\ WillClearGroups(v, u) => WillClearGroups(v, u)'
  BY <1>2, OthersStillClear
<1>4. ASSUME NEW u \in Users PROVE RolesSettled(u)'
  <2>1. RolesOf(u)' = RolesOf(u)
    BY SameRows
  <2> QED BY <1>0, <1>3, <1>4, <2>1 DEF StaleOnlyWhilePending, RolesSettled
<1>5. ASSUME NEW u \in Users PROVE GroupsSettled(u)'
  <2>1. \A gs : NamesGroupsOf(gs, u)' <=> NamesGroupsOf(gs, u)
    BY SameRows
  <2>2. NamesGroupsOf(groupsCache'[u], u) => NamesGroupsOf(groupsCache[u], u)'
    BY <2>1 DEF NamesGroupsOf, GroupsOf, Live, database
  <2> QED BY <1>0, <1>3, <1>5, <2>2 DEF StaleOnlyWhilePending, GroupsSettled
<1>6. ASSUME NEW v \in Workers PROVE DeletionPrepared(v)' /\ ReaderView(v)'
  <2>1. CASE v = w
    BY <2>1 DEF DeletionPrepared
  <2>2. CASE v # w
    <3>1. job'[v] = job[v]
      BY <2>2
    <3>2. ReaderView(v)'
      <4>1. ReaderView(v)
        BY <1>0 DEF StaleOnlyWhilePending
      <4>2. RolesOf(job[v].user)' = RolesOf(job'[v].user)
        BY <3>1, SameRows DEF RolesOf, RolesVia, PrincipalsOf, GroupsOf, database
      <4>3. NamesGroupsOf(job[v].groups, job[v].user)' <=> NamesGroupsOf(job[v].groups, job[v].user)
        BY <3>1 DEF NamesGroupsOf, GroupsOf, Live, database
      <4> QED BY <3>1, <4>1, <4>2, <4>3 DEF ReaderView, At
    <3>3. DeletionPrepared(v)'
      <4> SUFFICES ASSUME job[v].delete, NEW u \in Users, ActsThrough(u, job[v].row[1])'
                   PROVE  /\ Writing(v)'
                          /\ rolesCache'[u] = NoValue \/ \E x \in Workers : WillClearRoles(x, u)'
        BY <3>1, <1>0 DEF DeletionPrepared, StaleOnlyWhilePending, Writing
      <4>1. ActsThrough(u, job[v].row[1])
        BY <3>1 DEF ActsThrough, PrincipalsOf, GroupsOf, database
      <4>2. UNCHANGED caches
        BY <1>0, CurrentWhileReading
      <4>3. /\ Writing(v)
            /\ rolesCache[u] = NoValue \/ \E x \in Workers : WillClearRoles(x, u)
        BY <1>0, <4>1 DEF StaleOnlyWhilePending, DeletionPrepared
      <4> QED BY <1>3, <3>1, <4>2, <4>3 DEF caches, Writing
    <3> QED BY <3>2, <3>3
  <2> QED BY <2>1, <2>2
<1> QED BY <1>1, <1>4, <1>5, <1>6 DEF Inv, StaleOnlyWhilePending

(* No request is in progress around a step of a write handler.             *)
LEMMA NoRequestAround ==
  ASSUME Inv, TypeOK', Apart', NEW w \in Workers, ~Reading(w)',
         Writing(w) \/ Writing(w)',
         \A v \in Workers \ {w} : job'[v] = job[v],
         NEW v \in Workers
  PROVE  ReaderView(v)'
<1>1. ~Reading(v)'
  BY DEF Inv, StaleOnlyWhilePending, Apart, Reading, Writing
<1> QED BY <1>1 DEF ReaderView, Reading, ReaderSteps, At

(* A step of a write handler that deletes entries and touches no row.      *)
LEMMA ClearingStep ==
  ASSUME Inv, TypeOK', Apart', UNCHANGED database, NEW w \in Workers,
         Writing(w), ~Reading(w)',
         \A v \in Workers \ {w} : job'[v] = job[v],
         job'[w].delete => /\ job[w].delete
                           /\ job'[w].row = job[w].row
                           /\ Writing(w)',
         \A u \in Users : rolesCache'[u] \in {rolesCache[u], NoValue},
         \A u \in Users : groupsCache'[u] \in {groupsCache[u], NoValue},
         \A u \in Users : WillClearRoles(w, u) =>
                           WillClearRoles(w, u)' \/ rolesCache'[u] = NoValue,
         \A u \in Users : WillClearGroups(w, u) =>
                           WillClearGroups(w, u)' \/ groupsCache'[u] = NoValue
  PROVE  Inv'
<1>0. Inv => TypeOK /\ StaleOnlyWhilePending
  BY DEF Inv
<1>1. RowsOfLiveGroups'
  BY <1>0, SameRows DEF StaleOnlyWhilePending
<1>3. \A v \in Workers, u \in Users :
        /\ WillClearRoles(v, u) => WillClearRoles(v, u)' \/ rolesCache'[u] = NoValue
        /\ WillClearGroups(v, u) => WillClearGroups(v, u)' \/ groupsCache'[u] = NoValue
  BY OthersStillClear
<1>4. ASSUME NEW u \in Users PROVE RolesSettled(u)'
  <2>1. RolesOf(u)' = RolesOf(u)
    BY SameRows
  <2> QED BY <1>0, <1>3, <1>4, <2>1 DEF StaleOnlyWhilePending, RolesSettled
<1>5. ASSUME NEW u \in Users PROVE GroupsSettled(u)'
  <2>2. groupsCache'[u] = groupsCache[u] /\ NamesGroupsOf(groupsCache[u], u)
           => NamesGroupsOf(groupsCache[u], u)'
    BY DEF NamesGroupsOf, GroupsOf, Live, database
  <2> QED BY <1>0, <1>3, <1>5, <2>2 DEF StaleOnlyWhilePending, GroupsSettled
<1>6. ASSUME NEW v \in Workers PROVE DeletionPrepared(v)'
  <2> SUFFICES ASSUME job'[v].delete
               PROVE  /\ Writing(v)'
                      /\ \A u \in Users : ActsThrough(u, job[v].row[1])' =>
                           rolesCache'[u] = NoValue \/ \E x \in Workers : WillClearRoles(x, u)'
    BY DEF DeletionPrepared
  <2>1. job[v].delete /\ job'[v].row = job[v].row
    BY DEF Writing
  <2>2. Writing(v)'
    BY <1>0, <2>1 DEF Writing, StaleOnlyWhilePending, DeletionPrepared
  <2>3. ASSUME NEW u \in Users, ActsThrough(u, job[v].row[1])'
        PROVE  rolesCache'[u] = NoValue \/ \E x \in Workers : WillClearRoles(x, u)'
    <3>1. ActsThrough(u, job[v].row[1])
      BY <2>1, <2>3 DEF ActsThrough, PrincipalsOf, GroupsOf, database
    <3>2. rolesCache[u] = NoValue \/ \E x \in Workers : WillClearRoles(x, u)
      BY <1>0, <2>1, <2>3, <3>1 DEF StaleOnlyWhilePending, DeletionPrepared
    <3> QED BY <1>3, <2>3, <3>2
  <2> QED BY <2>2, <2>3
<1>7. \A v \in Workers : ReaderView(v)'
  BY NoRequestAround
<1> QED BY <1>1, <1>4, <1>5, <1>6, <1>7 DEF Inv, StaleOnlyWhilePending

(* The steps of a request preserve the invariant: what it stores is        *)
(* current.                                                                *)
LEMMA InvRequest ==
  ASSUME Inv, Apart', Faults = FALSE, NEW w \in Workers, Begin(w) \/ Request(w)
  PROVE  Inv'
<1>0. TypeOK /\ TypeOK' /\ StaleOnlyWhilePending /\ job[w] \in Job /\ job[w].user \in Users
  BY TypeRequest DEF Inv, TypeOK, Job
<1> USE DEF At, Become, Goto
<1>1. ASSUME NEW u \in Users, NEW c \in BOOLEAN, BeginRequest(w, u, c)
      PROVE  Inv'
  <2>1. UNCHANGED <<database, caches>> /\ job'[w].pc = "groups" /\ ~job'[w].delete
    BY <1>0, <1>1, IdleIsAJob DEF BeginRequest, TypeOK, Job
  <2> QED BY <1>0, <1>1, <2>1, RequestStep
          DEF BeginRequest, TypeOK, caches, ReaderView, Writing, WriterSteps
<1>2. ASSUME Reading(w), Request(w) PROVE Inv'
  <2>1. /\ ~Writing(w) /\ ~job[w].delete
        /\ \A u \in Users : rolesCache[u] \in {NoValue, RolesOf(u)}
        /\ \A u \in Users :
             groupsCache[u] = NoValue \/ NamesGroupsOf(groupsCache[u], u)
    BY <1>2, CurrentWhileReading
  <2>2. ReaderView(w) /\ RowsOfLiveGroups
    BY <1>0 DEF StaleOnlyWhilePending
  <2>3. CASE GroupsHit(w)
    <3>1. NamesGroupsOf(groupsCache[job[w].user], job[w].user)
      BY <1>0, <2>1, <2>3 DEF GroupsHit, Holds
    <3>2. /\ job'[w].pc = "roles" /\ job'[w].user = job[w].user
          /\ job'[w].groups = groupsCache[job[w].user] /\ job'[w].delete = job[w].delete
      BY <1>0, <2>3 DEF GroupsHit, TypeOK, Job
    <3>3. ReaderView(w)'
      BY <2>3, <3>1, <3>2 DEF GroupsHit, ReaderView, NamesGroupsOf, GroupsOf, Live, database
    <3> QED BY <1>0, <1>2, <2>1, <2>3, <3>2, <3>3, RequestStep
            DEF GroupsHit, TypeOK, caches, Writing, WriterSteps
  <2>4. CASE GroupsMiss(w)
    <3>1. job'[w].pc = "groupsDb" /\ job'[w].delete = job[w].delete
      BY <1>0, <2>4 DEF GroupsMiss, TypeOK, Job
    <3> QED BY <1>0, <1>2, <2>1, <2>4, <3>1, RequestStep
            DEF GroupsMiss, TypeOK, caches, Writing, WriterSteps, ReaderView
  <2>5. CASE ReadGroups(w)
    <3>1. /\ job'[w].pc = "groupsFill" /\ job'[w].user = job[w].user
          /\ job'[w].groups = GroupsOf(job[w].user) /\ job'[w].delete = job[w].delete
      BY <1>0, <2>5 DEF ReadGroups, TypeOK, Job
    <3>2. NamesGroupsOf(GroupsOf(job[w].user), job[w].user)
      BY <1>0, <2>2 DEF NamesGroupsOf, GroupsOf, RowsOfLiveGroups, Live
    <3>3. ReaderView(w)'
      BY <2>5, <3>1, <3>2 DEF ReadGroups, ReaderView, NamesGroupsOf, GroupsOf, Live, database
    <3> QED BY <1>0, <1>2, <2>1, <2>5, <3>1, <3>3, RequestStep
            DEF ReadGroups, TypeOK, caches, Writing, WriterSteps
  <2>6. CASE FillGroups(w)
    <3>1. /\ job'[w].pc = "roles" /\ job'[w].user = job[w].user
          /\ job'[w].groups = job[w].groups /\ job'[w].delete = job[w].delete
      BY <1>0, <2>6 DEF FillGroups, TypeOK, Job
    <3>2. NamesGroupsOf(job[w].groups, job[w].user)
      BY <2>2, <2>6 DEF FillGroups, ReaderView
    <3>3. ReaderView(w)'
      BY <2>6, <3>1, <3>2 DEF FillGroups, ReaderView, NamesGroupsOf, GroupsOf, Live, database
    <3>4. groupsCache' = [groupsCache EXCEPT ![job[w].user] = job[w].groups]
      BY <2>6 DEF FillGroups, Stored
    <3>5. \A u \in Users : \/ groupsCache'[u] \in {groupsCache[u], NoValue}
                            \/ NamesGroupsOf(groupsCache'[u], u)
      BY <1>0, <3>2, <3>4 DEF TypeOK
    <3> QED BY <1>0, <1>2, <2>1, <2>6, <3>1, <3>3, <3>5, RequestStep
            DEF FillGroups, TypeOK, Writing, WriterSteps
  <2>7. CASE RolesHit(w)
    BY <1>0, <1>2, <2>1, <2>7, IdleIsAJob, RequestStep
    DEF RolesHit, TypeOK, caches, Writing, WriterSteps, ReaderView
  <2>8. CASE RolesMiss(w)
    <3>1. /\ job'[w].pc = "rolesDb" /\ job'[w].user = job[w].user
          /\ job'[w].groups = job[w].groups /\ job'[w].delete = job[w].delete
      BY <1>0, <2>8 DEF RolesMiss, TypeOK, Job
    <3>2. NamesGroupsOf(job[w].groups, job[w].user)
      BY <2>2, <2>8 DEF RolesMiss, ReaderView
    <3>3. ReaderView(w)'
      BY <2>8, <3>1, <3>2 DEF RolesMiss, ReaderView, NamesGroupsOf, GroupsOf, Live, database
    <3> QED BY <1>0, <1>2, <2>1, <2>8, <3>1, <3>3, RequestStep
            DEF RolesMiss, TypeOK, caches, Writing, WriterSteps
  <2>9. CASE ReadRoles(w)
    <3>1. /\ job'[w].pc = "rolesFill" /\ job'[w].user = job[w].user
          /\ job'[w].groups = job[w].groups /\ job'[w].delete = job[w].delete
          /\ job'[w].roles = RolesVia(PrincipalsOf(job[w].user, job[w].groups))
      BY <1>0, <2>9 DEF ReadRoles, TypeOK, Job
    <3>2. NamesGroupsOf(job[w].groups, job[w].user)
      BY <2>2, <2>9 DEF ReadRoles, ReaderView
    <3>3. job'[w].roles = RolesOf(job[w].user)
      BY <1>0, <2>2, <3>1, <3>2, RolesThroughNamedGroups DEF Job
    <3>4. RolesOf(job[w].user)' = RolesOf(job'[w].user)
      BY <2>9, SameRows
      DEF ReadRoles, RolesOf, RolesVia, PrincipalsOf, GroupsOf, database
    <3>5. NamesGroupsOf(job[w].groups, job[w].user)'
      BY <2>9, <3>1, <3>2 DEF ReadRoles, NamesGroupsOf, GroupsOf, Live, database
    <3>6. ReaderView(w)'
      BY <3>1, <3>3, <3>4, <3>5 DEF ReaderView
    <3> QED BY <1>0, <1>2, <2>1, <2>9, <3>1, <3>6, RequestStep
            DEF ReadRoles, TypeOK, caches, Writing, WriterSteps
  <2>10. CASE FillRoles(w)
    <3>1. rolesCache' = [rolesCache EXCEPT ![job[w].user] = RolesOf(job[w].user)]
      BY <2>2, <2>10 DEF FillRoles, Stored, ReaderView
    <3>2. \A u \in Users : rolesCache'[u] \in {rolesCache[u], NoValue, RolesOf(u)}
      BY <1>0, <3>1 DEF TypeOK
    <3> QED BY <1>0, <1>2, <2>1, <2>10, <3>2, IdleIsAJob, RequestStep
            DEF FillRoles, TypeOK, Writing, WriterSteps, ReaderView
  <2> QED
    BY <1>2, <2>3, <2>4, <2>5, <2>6, <2>7, <2>8, <2>9, <2>10 DEF Request
<1>3. Request(w) => Reading(w)
  BY DEF Request, Reading, ReaderSteps, GroupsHit, GroupsMiss, ReadGroups, FillGroups,
         RolesHit, RolesMiss, ReadRoles, FillRoles
<1> QED BY <1>1, <1>2, <1>3 DEF Begin

(* The first step of a write handler: afterwards every user whose roles or *)
(* groups it changed, or will change, has this worker's deletions ahead.   *)
LEMMA CommitStep ==
  ASSUME Inv, TypeOK', Apart', RowsOfLiveGroups', NEW w \in Workers,
         At(w, "idle"), Writing(w)', UNCHANGED caches,
         \A v \in Workers \ {w} : job'[v] = job[v],
         \A u \in Users :
           \/ WillClearRoles(w, u)'
           \/ /\ RolesOf(u)' = RolesOf(u)
              /\ GroupsOf(u)' = GroupsOf(u),
         \A u \in Users :
           \/ WillClearGroups(w, u)'
           \/ NamesGroupsOf(groupsCache[u], u) => NamesGroupsOf(groupsCache[u], u)',
         job'[w].delete =>
           \A u \in Users : ActsThrough(u, job[w].row[1])' => WillClearRoles(w, u)'
  PROVE  Inv'
<1>0. TypeOK /\ StaleOnlyWhilePending
  BY DEF Inv
<1>1. \A u \in Users : ~WillClearRoles(w, u) /\ ~WillClearGroups(w, u)
  BY DEF WillClearRoles, WillClearGroups, At
<1>2. ASSUME NEW u \in Users, ~WillClearRoles(w, u)', NEW v \in Workers, WillClearRoles(v, u)
      PROVE  WillClearRoles(v, u)'
  <2>1. v # w /\ job'[v] = job[v]
    BY <1>1, <1>2
  <2>2. GroupsOf(u)' = GroupsOf(u)
    BY <1>2
  <2> QED BY <1>2, <2>1, <2>2 DEF WillClearRoles, At, ActsThrough, PrincipalsOf, GroupsOf
<1>3. ASSUME NEW u \in Users, NEW v \in Workers, WillClearGroups(v, u)
      PROVE  WillClearGroups(v, u)'
  BY <1>1, <1>3 DEF WillClearGroups, At
<1>4. ASSUME NEW u \in Users PROVE RolesSettled(u)'
  BY <1>0, <1>2, <1>4 DEF StaleOnlyWhilePending, RolesSettled, caches
<1>5. ASSUME NEW u \in Users PROVE GroupsSettled(u)'
  <2>1. NamesGroupsOf(groupsCache[u], u)' => GroupsSettled(u)'
    BY DEF GroupsSettled
  <2> QED BY <1>0, <1>3, <1>5, <2>1 DEF StaleOnlyWhilePending, GroupsSettled, caches
<1>6. ASSUME NEW v \in Workers PROVE DeletionPrepared(v)'
  <2>1. CASE v = w
    BY <2>1 DEF DeletionPrepared
  <2>2. CASE v # w
    <3>1. job'[v] = job[v]
      BY <2>2
    <3> SUFFICES ASSUME job[v].delete, NEW u \in Users, ActsThrough(u, job[v].row[1])',
                        ~WillClearRoles(w, u)'
                 PROVE  rolesCache[u] = NoValue \/ \E x \in Workers : WillClearRoles(x, u)'
      BY <1>0, <3>1 DEF StaleOnlyWhilePending, DeletionPrepared, Writing, caches
    <3>2. ActsThrough(u, job[v].row[1])
      BY <3>1 DEF ActsThrough, PrincipalsOf, GroupsOf
    <3> QED BY <1>0, <1>2, <3>2 DEF StaleOnlyWhilePending, DeletionPrepared
  <2> QED BY <2>1, <2>2
<1>7. \A v \in Workers : ReaderView(v)'
  BY NoRequestAround DEF Reading, Writing, ReaderSteps, WriterSteps
<1> QED BY <1>0, <1>4, <1>5, <1>6, <1>7 DEF Inv, StaleOnlyWhilePending

(* So do the first steps of the write handlers, which commit the rows (all *)
(* but the deletion of a role).                                            *)
LEMMA InvWrite ==
  ASSUME Inv, Apart', NEW w \in Workers, Write(w)
  PROVE  Inv'
<1>0. TypeOK /\ TypeOK' /\ RowsOfLiveGroups
  BY TypeWrite DEF Inv, StaleOnlyWhilePending
<1> USE DEF At, Become
<1>1. ASSUME NEW p \in Principals, NEW r \in Roles, SetPermission(w, p, r)
      PROVE  Inv'
  <2>1. /\ job'[w].pc = "affected" /\ job'[w].row = <<p, r>> /\ ~job'[w].delete
        /\ \A v \in Workers \ {w} : job'[v] = job[v]
    BY <1>0, <1>1, IdleIsAJob DEF SetPermission, TypeOK, Job
  <2>2. RowsOfLiveGroups'
    BY <1>0, <1>1 DEF SetPermission, RowsOfLiveGroups, Known, Live
  <2>3. ASSUME NEW u \in Users, ~ActsThrough(u, p)
        PROVE  RolesOf(u)' = RolesOf(u) /\ GroupsOf(u)' = GroupsOf(u)
    BY <1>1, <2>3 DEF SetPermission, ActsThrough, RolesOf, RolesVia, PrincipalsOf, GroupsOf
  <2>4. ASSUME NEW u \in Users, ActsThrough(u, p) PROVE WillClearRoles(w, u)'
    BY <1>1, <2>1, <2>4 DEF SetPermission, WillClearRoles, ActsThrough, PrincipalsOf, GroupsOf
  <2>5. \A u \in Users : NamesGroupsOf(groupsCache[u], u) => NamesGroupsOf(groupsCache[u], u)'
    BY <1>1 DEF SetPermission, caches, NamesGroupsOf, GroupsOf, Live
  <2> QED BY <1>0, <1>1, <2>1, <2>2, <2>3, <2>4, <2>5, CommitStep
          DEF SetPermission, Writing, WriterSteps
<1>2. ASSUME NEW p \in Principals, NEW r \in Roles, DeletePermission(w, p, r)
      PROVE  Inv'
  <2>1. /\ job'[w].pc = "affected" /\ job'[w].row = <<p, r>>
        /\ \A v \in Workers \ {w} : job'[v] = job[v]
    BY <1>0, <1>2, IdleIsAJob DEF DeletePermission, TypeOK, Job
  <2>2. RowsOfLiveGroups'
    BY <1>0, <1>2, SameRows DEF DeletePermission
  <2>3. \A u \in Users : RolesOf(u)' = RolesOf(u) /\ GroupsOf(u)' = GroupsOf(u)
    BY <1>2, SameRows DEF DeletePermission
  <2>4. ASSUME NEW u \in Users, ActsThrough(u, job[w].row[1])' PROVE WillClearRoles(w, u)'
    BY <2>1, <2>4 DEF WillClearRoles
  <2>5. \A u \in Users : NamesGroupsOf(groupsCache[u], u) => NamesGroupsOf(groupsCache[u], u)'
    BY <1>2 DEF DeletePermission, caches, database, NamesGroupsOf, GroupsOf, Live
  <2> QED BY <1>0, <1>2, <2>1, <2>2, <2>3, <2>4, <2>5, CommitStep
          DEF DeletePermission, Writing, WriterSteps
<1>3. ASSUME NEW g \in CustomGroups, CreateGroup(w, g)
      PROVE  Inv'
  <2>1. /\ job'[w].pc = "clearRoles" /\ job'[w].todo = {Admin} /\ ~job'[w].delete
        /\ \A v \in Workers \ {w} : job'[v] = job[v]
    BY <1>0, <1>3, IdleIsAJob DEF CreateGroup, TypeOK, Job
  <2>2. RowsOfLiveGroups'
    BY <1>0, <1>3 DEF CreateGroup, RowsOfLiveGroups, Live, TypeOK
  <2>3. WillClearRoles(w, Admin)' /\ WillClearGroups(w, Admin)'
    BY <2>1 DEF WillClearRoles, WillClearGroups
  <2>4. ASSUME NEW u \in Users, u # Admin
        PROVE  /\ RolesOf(u)' = RolesOf(u) /\ GroupsOf(u)' = GroupsOf(u)
               /\ NamesGroupsOf(groupsCache[u], u) => NamesGroupsOf(groupsCache[u], u)'
    <3>1. GroupsOf(u)' = GroupsOf(u)
      BY <1>3, <2>4 DEF CreateGroup, GroupsOf
    <3>2. RolesOf(u)' = RolesOf(u)
      BY <1>3, <3>1 DEF CreateGroup, RolesOf, RolesVia, PrincipalsOf
    <3>3. NamesGroupsOf(groupsCache[u], u) => NamesGroupsOf(groupsCache[u], u)'
      BY <1>0, <1>3, <3>1 DEF CreateGroup, caches, NamesGroupsOf, Live, TypeOK
    <3> QED BY <3>1, <3>2, <3>3
  <2> QED BY <1>0, <1>3, <2>1, <2>2, <2>3, <2>4, CommitStep
          DEF CreateGroup, Writing, WriterSteps
<1>4. ASSUME NEW g \in CustomGroups, DeleteGroup(w, g)
      PROVE  Inv'
  <2>1. /\ job'[w].pc = "wipeRoles" /\ ~job'[w].delete
        /\ \A v \in Workers \ {w} : job'[v] = job[v]
    BY <1>0, <1>4, IdleIsAJob DEF DeleteGroup, TypeOK, Job
  <2>2. RowsOfLiveGroups'
    BY <1>0, <1>4 DEF DeleteGroup, RowsOfLiveGroups, Live, TypeOK
  <2>3. \A u \in Users : WillClearRoles(w, u)'
    BY <2>1 DEF WillClearRoles
  <2>4. \A u \in Users : NamesGroupsOf(groupsCache[u], u) => NamesGroupsOf(groupsCache[u], u)'
    BY <1>0, <1>4 DEF DeleteGroup, caches, NamesGroupsOf, GroupsOf, Live, TypeOK
  <2> QED BY <1>0, <1>4, <2>1, <2>2, <2>3, <2>4, CommitStep
          DEF DeleteGroup, Writing, WriterSteps
<1>5. ASSUME NEW g \in CustomGroups, NEW x \in Users, SetMember(w, g, x) \/ DeleteMember(w, g, x)
      PROVE  Inv'
  <2>1. /\ job'[w].pc = "clearRoles" /\ job'[w].todo = {x} /\ ~job'[w].delete
        /\ \A v \in Workers \ {w} : job'[v] = job[v]
    <3>1. CASE SetMember(w, g, x)
      BY <1>0, <3>1, IdleIsAJob DEF SetMember, TypeOK, Job
    <3>2. CASE DeleteMember(w, g, x)
      BY <1>0, <3>2, IdleIsAJob DEF DeleteMember, TypeOK, Job
    <3> QED BY <1>5, <3>1, <3>2
  <2>2. RowsOfLiveGroups'
    BY <1>0, <1>5 DEF SetMember, DeleteMember, RowsOfLiveGroups, Live
  <2>3. WillClearRoles(w, x)' /\ WillClearGroups(w, x)'
    BY <2>1 DEF WillClearRoles, WillClearGroups
  <2>4. ASSUME NEW u \in Users, u # x
        PROVE  /\ RolesOf(u)' = RolesOf(u) /\ GroupsOf(u)' = GroupsOf(u)
               /\ NamesGroupsOf(groupsCache[u], u) => NamesGroupsOf(groupsCache[u], u)'
    <3>1. GroupsOf(u)' = GroupsOf(u)
      BY <1>5, <2>4 DEF SetMember, DeleteMember, GroupsOf
    <3>2. RolesOf(u)' = RolesOf(u)
      BY <1>5, <3>1 DEF SetMember, DeleteMember, RolesOf, RolesVia, PrincipalsOf
    <3>3. NamesGroupsOf(groupsCache[u], u) => NamesGroupsOf(groupsCache[u], u)'
      BY <1>5, <3>1 DEF SetMember, DeleteMember, caches, NamesGroupsOf, Live
    <3> QED BY <3>1, <3>2, <3>3
  <2> QED BY <1>0, <1>5, <2>1, <2>2, <2>3, <2>4, CommitStep
          DEF SetMember, DeleteMember, Writing, WriterSteps
<1> QED BY <1>1, <1>2, <1>3, <1>4, <1>5 DEF Write

(* The late commit: by then every user who loses the role has no entry, or *)
(* has another worker on its way to delete it.                             *)
LEMMA CommitDeleteStep ==
  ASSUME Inv, TypeOK', Apart', NEW w \in Workers, CommitDelete(w)
  PROVE  Inv'
<1>0. /\ TypeOK /\ RowsOfLiveGroups /\ DeletionPrepared(w)
      /\ job[w].row = <<job[w].row[1], job[w].row[2]>>
  BY DEF Inv, StaleOnlyWhilePending, TypeOK, Job
<1>1. /\ At(w, "commitDelete") /\ job[w].delete /\ members' = members \ {job[w].row}
      /\ UNCHANGED <<groupState, groupMembers, caches>>
      /\ job'[w].pc = "idle" /\ ~job'[w].delete
      /\ \A v \in Workers \ {w} : job'[v] = job[v]
  BY <1>0, IdleIsAJob DEF CommitDelete, Become, TypeOK
<1>2. RowsOfLiveGroups'
  BY <1>0, <1>1 DEF RowsOfLiveGroups, Live
<1>3. \A u \in Users : ~WillClearRoles(w, u) /\ ~WillClearGroups(w, u)
  BY <1>1 DEF WillClearRoles, WillClearGroups, At
<1>4. \A v \in Workers, u \in Users :
        /\ WillClearRoles(v, u) => WillClearRoles(v, u)'
        /\ WillClearGroups(v, u) => WillClearGroups(v, u)'
  BY <1>1, <1>3 DEF WillClearRoles, WillClearGroups, At, ActsThrough, PrincipalsOf, GroupsOf
<1>5. ASSUME NEW u \in Users PROVE RolesSettled(u)'
  <2>1. CASE ActsThrough(u, job[w].row[1])
    BY <1>0, <1>1, <1>4, <1>5, <2>1 DEF DeletionPrepared, RolesSettled, caches
  <2>2. CASE ~ActsThrough(u, job[w].row[1])
    <3>1. RolesOf(u)' = RolesOf(u)
      BY <1>0, <1>1, <2>2 DEF RolesOf, RolesVia, ActsThrough, PrincipalsOf, GroupsOf
    <3> QED BY <1>1, <1>4, <1>5, <3>1 DEF Inv, StaleOnlyWhilePending, RolesSettled, caches
  <2> QED BY <2>1, <2>2
<1>6. ASSUME NEW u \in Users PROVE GroupsSettled(u)'
  <2>1. NamesGroupsOf(groupsCache[u], u) => NamesGroupsOf(groupsCache[u], u)'
    BY <1>1 DEF NamesGroupsOf, GroupsOf, Live, caches
  <2> QED BY <1>1, <1>4, <1>6, <2>1 DEF Inv, StaleOnlyWhilePending, GroupsSettled, caches
<1>7. ASSUME NEW v \in Workers PROVE DeletionPrepared(v)'
  <2>1. CASE v = w
    BY <1>1, <2>1 DEF DeletionPrepared
  <2>2. CASE v # w
    BY <1>1, <1>4, <2>2
    DEF Inv, StaleOnlyWhilePending, DeletionPrepared, Writing, ActsThrough, PrincipalsOf,
        GroupsOf, caches
  <2> QED BY <2>1, <2>2
<1>8. \A v \in Workers : ReaderView(v)'
  BY <1>1, NoRequestAround DEF Reading, ReaderSteps, Writing, WriterSteps, At
<1> QED BY <1>2, <1>5, <1>6, <1>7, <1>8 DEF Inv, StaleOnlyWhilePending

(* So do the invalidations: every entry is deleted after the commit that   *)
(* made it stale, or, for the deletion of a role, is absent when that      *)
(* commit comes.                                                           *)
LEMMA InvInvalidate ==
  ASSUME Inv, Apart', Faults = FALSE, NEW w \in Workers, Invalidate(w)
  PROVE  Inv'
<1>0. /\ TypeOK /\ TypeOK' /\ RowsOfLiveGroups /\ job[w] \in Job
      /\ job[w].user \in Users /\ job[w].todo \subseteq Users
      /\ job[w].row \in Principals \X Roles
  BY TypeInvalidate DEF Inv, StaleOnlyWhilePending, TypeOK, Job
<1> USE DEF At, Become, Goto
<1>1. Writing(w)
  BY DEF Invalidate, Writing, WriterSteps, Affected, WipeGroups, WipeRoles, ClearRoles,
         ClearGroups, CommitDelete
<1>2. ASSUME NEW j \in Job, Proceed(j) = job'[w], job'[w].delete
      PROVE  j.delete /\ job'[w].row = j.row /\ Writing(w)'
  BY <1>2, IdleIsAJob DEF Proceed, Job, Writing, WriterSteps
<1>3. ASSUME NEW j \in Job, Proceed(j) = job'[w]
      PROVE  ~Reading(w)'
  BY <1>3, IdleIsAJob DEF Proceed, Job, Reading, ReaderSteps
<1>4. ASSUME NEW j \in Job, Proceed(j) = job'[w], NEW u \in j.todo
      PROVE  job'[w].pc = "clearRoles" /\ job'[w].todo = j.todo
  BY <1>4 DEF Proceed, Job
<1>5. CASE Affected(w)
  <2>1. CASE job[w].row[1] \in IdentityGroups
    <3>1. job' = [job EXCEPT ![w] = [job[w] EXCEPT !.pc = "wipeGroups"]]
      BY <1>0, <1>5, <2>1, KindsDisjoint DEF Affected
    <3>2. /\ job'[w].pc = "wipeGroups" /\ job'[w].delete = job[w].delete
          /\ job'[w].row = job[w].row
      BY <1>0, <3>1 DEF TypeOK, Job
    <3>3. \A u \in Users : WillClearRoles(w, u)' /\ ~WillClearGroups(w, u)
      BY <1>5, <3>2 DEF Affected, WillClearRoles, WillClearGroups
    <3> QED BY <1>0, <1>1, <1>5, <3>1, <3>2, <3>3, ClearingStep
            DEF Affected, TypeOK, caches, Reading, ReaderSteps, Writing, WriterSteps
  <2>2. CASE job[w].row[1] \notin IdentityGroups
    <3>1. PICK t \in SUBSET Users :
            /\ job' = [job EXCEPT ![w] = Proceed([job[w] EXCEPT !.todo = t])]
            /\ \A u \in Users : ActsThrough(u, job[w].row[1]) => u \in t
      <4>1. CASE job[w].row[1] \in Users
        <5>1. job' = [job EXCEPT ![w] = Proceed([job[w] EXCEPT !.todo = {job[w].row[1]}])]
          BY <1>0, <1>5, <2>2, <4>1, KindsDisjoint DEF Affected
        <5>2. \A u \in Users : ActsThrough(u, job[w].row[1]) => u \in {job[w].row[1]}
          BY <4>1, KindsDisjoint, ConstantTypes DEF ActsThrough, PrincipalsOf, GroupsOf
        <5> QED BY <4>1, <5>1, <5>2
      <4>2. CASE job[w].row[1] \in CustomGroups
        <5> DEFINE t == {u \in Users : <<job[w].row[1], u>> \in groupMembers}
        <5>1. job' = [job EXCEPT ![w] = Proceed([job[w] EXCEPT !.todo = t])]
          BY <1>0, <1>5, <2>2, <4>2, KindsDisjoint DEF Affected
        <5>2. \A u \in Users : ActsThrough(u, job[w].row[1]) => u \in t
          BY <4>2, KindsDisjoint, ConstantTypes DEF ActsThrough, PrincipalsOf, GroupsOf
        <5>3. t \in SUBSET Users
          OBVIOUS
        <5> HIDE DEF t
        <5> QED BY <5>1, <5>2, <5>3
      <4> QED BY <1>0, <2>2, <4>1, <4>2 DEF Principals
    <3>2. [job[w] EXCEPT !.todo = t] \in Job
      BY <1>0 DEF Job
    <3>3. job'[w] = Proceed([job[w] EXCEPT !.todo = t])
      BY <1>0, <3>1 DEF TypeOK
    <3>4. /\ [job[w] EXCEPT !.todo = t].delete = job[w].delete
          /\ [job[w] EXCEPT !.todo = t].row = job[w].row
          /\ [job[w] EXCEPT !.todo = t].todo = t
      BY <1>0 DEF Job
    <3>5. ASSUME NEW u \in Users, WillClearRoles(w, u) PROVE WillClearRoles(w, u)'
      <4>1. u \in t
        BY <1>5, <3>1, <3>5 DEF Affected, WillClearRoles
      <4> QED BY <1>4, <3>2, <3>3, <3>4, <4>1 DEF WillClearRoles
    <3>6. \A u \in Users : ~WillClearGroups(w, u)
      BY <1>5 DEF Affected, WillClearGroups
    <3> QED BY <1>0, <1>1, <1>2, <1>3, <1>5, <3>1, <3>2, <3>3, <3>4, <3>5, <3>6, ClearingStep
            DEF Affected, TypeOK, caches
  <2> QED BY <2>1, <2>2
<1>6. CASE WipeGroups(w)
  <2>1. /\ job'[w].pc = "wipeRoles" /\ job'[w].delete = job[w].delete
        /\ job'[w].row = job[w].row
    BY <1>0, <1>6 DEF WipeGroups, TypeOK, Job
  <2>2. \A u \in Users : groupsCache'[u] = NoValue
    BY <1>6 DEF WipeGroups, Wiped
  <2>3. \A u \in Users : WillClearRoles(w, u)'
    BY <2>1 DEF WillClearRoles
  <2> QED BY <1>0, <1>1, <1>6, <2>1, <2>2, <2>3, ClearingStep
          DEF WipeGroups, TypeOK, Reading, ReaderSteps, Writing, WriterSteps
<1>7. CASE WipeRoles(w)
  <2>1. job'[w] = Proceed(job[w])
    BY <1>0, <1>7 DEF WipeRoles, TypeOK
  <2>2. \A u \in Users : rolesCache'[u] = NoValue
    BY <1>7 DEF WipeRoles, Wiped
  <2>3. \A u \in Users : ~WillClearGroups(w, u)
    BY <1>7 DEF WipeRoles, WillClearGroups
  <2> QED BY <1>0, <1>1, <1>2, <1>3, <1>7, <2>1, <2>2, <2>3, ClearingStep
          DEF WipeRoles, TypeOK
<1>8. CASE ClearRoles(w)
  <2>1. PICK x \in Users :
          /\ rolesCache' = [rolesCache EXCEPT ![x] = NoValue]
          /\ job' = [job EXCEPT ![w] = [job[w] EXCEPT !.pc = "clearGroups", !.user = x]]
    BY <1>0, <1>8 DEF ClearRoles, Stored
  <2>2. /\ job'[w].pc = "clearGroups" /\ job'[w].user = x /\ job'[w].todo = job[w].todo
        /\ job'[w].delete = job[w].delete /\ job'[w].row = job[w].row
    BY <1>0, <2>1 DEF TypeOK, Job
  <2>3. \A u \in Users : /\ WillClearRoles(w, u) => WillClearRoles(w, u)' \/ u = x
                         /\ WillClearGroups(w, u) => WillClearGroups(w, u)'
    BY <1>8, <2>2 DEF ClearRoles, WillClearRoles, WillClearGroups
  <2>4. \A u \in Users : /\ rolesCache'[u] \in {rolesCache[u], NoValue}
                         /\ u = x => rolesCache'[u] = NoValue
    BY <1>0, <2>1 DEF TypeOK
  <2> QED BY <1>0, <1>1, <1>8, <2>1, <2>2, <2>3, <2>4, ClearingStep
          DEF ClearRoles, TypeOK, Reading, ReaderSteps, Writing, WriterSteps
<1>9. CASE ClearGroups(w)
  <2> DEFINE j == [job[w] EXCEPT !.todo = @ \ {job[w].user}]
  <2>1. j \in Job /\ job'[w] = Proceed(j)
    BY <1>0, <1>9 DEF ClearGroups, TypeOK, Job
  <2>2. j.delete = job[w].delete /\ j.row = job[w].row /\ j.todo = job[w].todo \ {job[w].user}
    BY <1>0 DEF Job
  <2> HIDE DEF j
  <2>3. ASSUME NEW u \in Users, u \in job[w].todo, u # job[w].user
        PROVE  WillClearRoles(w, u)' /\ WillClearGroups(w, u)'
    <3>1. u \in j.todo
      BY <2>2, <2>3
    <3>2. job'[w].pc = "clearRoles" /\ u \in job'[w].todo
      BY <1>4, <2>1, <3>1
    <3> QED BY <3>2 DEF WillClearRoles, WillClearGroups
  <2>4. \A u \in Users : /\ groupsCache'[u] \in {groupsCache[u], NoValue}
                         /\ u = job[w].user => groupsCache'[u] = NoValue
    BY <1>0, <1>9 DEF ClearGroups, Stored, TypeOK
  <2>5. \A u \in Users : /\ WillClearRoles(w, u) => u \in job[w].todo /\ u # job[w].user
                         /\ WillClearGroups(w, u) => u \in job[w].todo
    BY <1>9 DEF ClearGroups, WillClearRoles, WillClearGroups
  <2> QED BY <1>0, <1>1, <1>2, <1>3, <1>9, <2>1, <2>2, <2>3, <2>4, <2>5, ClearingStep
          DEF ClearGroups, TypeOK
<1>10. CASE CommitDelete(w)
  BY <1>0, <1>10, CommitDeleteStep DEF Inv
<1> QED BY <1>5, <1>6, <1>7, <1>8, <1>9, <1>10 DEF Invalidate

(* Entries may vanish at any time.                                         *)
LEMMA InvVanish ==
  ASSUME Inv, TypeOK', UNCHANGED <<database, job>>,
         \A u \in Users : rolesCache'[u] \in {rolesCache[u], NoValue},
         \A u \in Users : groupsCache'[u] \in {groupsCache[u], NoValue}
  PROVE  Inv'
<1>0. TypeOK /\ StaleOnlyWhilePending
  BY DEF Inv
<1>1. \A v \in Workers, u \in Users :
        /\ WillClearRoles(v, u)' <=> WillClearRoles(v, u)
        /\ WillClearGroups(v, u)' <=> WillClearGroups(v, u)
  BY <1>0, OthersStillClear
<1>2. Apart' /\ RowsOfLiveGroups'
  BY <1>0, SameRows DEF StaleOnlyWhilePending, Apart, Reading, Writing
<1>3. ASSUME NEW u \in Users PROVE RolesSettled(u)'
  <2>1. RolesOf(u)' = RolesOf(u)
    BY <1>0, SameRows
  <2> QED BY <1>0, <1>1, <1>3, <2>1 DEF StaleOnlyWhilePending, RolesSettled
<1>4. ASSUME NEW u \in Users PROVE GroupsSettled(u)'
  <2>1. groupsCache'[u] = groupsCache[u] /\ NamesGroupsOf(groupsCache[u], u)
           => NamesGroupsOf(groupsCache[u], u)'
    BY <1>0 DEF NamesGroupsOf, GroupsOf, Live, database
  <2> QED BY <1>0, <1>1, <1>4, <2>1 DEF StaleOnlyWhilePending, GroupsSettled
<1>5. ASSUME NEW v \in Workers PROVE DeletionPrepared(v)'
  <2> SUFFICES ASSUME job[v].delete, NEW u \in Users, ActsThrough(u, job[v].row[1])'
               PROVE  rolesCache'[u] = NoValue \/ \E y \in Workers : WillClearRoles(y, u)'
    BY <1>0 DEF StaleOnlyWhilePending, DeletionPrepared, Writing
  <2>1. ActsThrough(u, job[v].row[1])
    BY <1>0 DEF ActsThrough, PrincipalsOf, GroupsOf, database
  <2> QED BY <1>0, <1>1, <2>1 DEF StaleOnlyWhilePending, DeletionPrepared
<1>6. ASSUME NEW v \in Workers PROVE ReaderView(v)'
  <2>1. ReaderView(v) /\ job'[v] = job[v]
    BY <1>0 DEF StaleOnlyWhilePending
  <2>2. RolesOf(job[v].user)' = RolesOf(job'[v].user)
    BY <1>0, SameRows DEF RolesOf, RolesVia, PrincipalsOf, GroupsOf, database
  <2>3. NamesGroupsOf(job[v].groups, job[v].user)' <=> NamesGroupsOf(job[v].groups, job[v].user)
    BY <1>0, <2>1 DEF NamesGroupsOf, GroupsOf, Live, database
  <2> QED BY <2>1, <2>2, <2>3 DEF ReaderView, At
<1> QED BY <1>2, <1>3, <1>4, <1>5, <1>6 DEF Inv, StaleOnlyWhilePending

(* Every step of handlers and requests that do not overlap preserves it.   *)
LEMMA InvNext ==
  ASSUME Faults = FALSE, Inv, [Next /\ Apart']_vars
  PROVE  Inv'
<1>1. ASSUME NEW w \in Workers, Begin(w) \/ Request(w), Apart' PROVE Inv'
  BY <1>1, InvRequest
<1>2. ASSUME NEW w \in Workers, Write(w), Apart' PROVE Inv'
  BY <1>2, InvWrite
<1>3. ASSUME NEW w \in Workers, Invalidate(w), Apart' PROVE Inv'
  BY <1>3, InvInvalidate
<1>4. ASSUME NEW w \in Workers, Crash(w) PROVE Inv'
  BY <1>4 DEF Crash
<1>5. ASSUME NEW u \in Users, ExpireGroups(u) \/ ExpireRoles(u) PROVE Inv'
  <2>1. TypeOK'
    BY <1>5 DEF Inv, ExpireGroups, ExpireRoles, TypeOK, database, Holds
  <2>2. /\ UNCHANGED <<database, job>>
        /\ \A v \in Users : rolesCache'[v] \in {rolesCache[v], NoValue}
        /\ \A v \in Users : groupsCache'[v] \in {groupsCache[v], NoValue}
    BY <1>5 DEF Inv, ExpireGroups, ExpireRoles, TypeOK
  <2> QED BY <2>1, <2>2, InvVanish
<1>6. CASE UNCHANGED vars
  BY <1>6, InvVanish DEF Inv, TypeOK, vars, database
<1> QED BY <1>1, <1>2, <1>3, <1>4, <1>5, <1>6 DEF Next

(* While no request overlaps a write handler and nothing fails, every      *)
(* stale entry has a handler on its way to delete it, and every request in *)
(* progress holds values that are still current.                           *)
THEOREM StaleEntriesAwaitDeletion ==
  ASSUME Faults = FALSE
  PROVE  ApartSpec => []StaleOnlyWhilePending
<1>1. Inv /\ [Next /\ Apart']_vars => Inv'
  BY InvNext
<1>2. Inv => StaleOnlyWhilePending
  BY DEF Inv
<1> QED BY InvInit, <1>1, <1>2, PTL DEF ApartSpec

(* While no request overlaps a write handler and nothing fails, any number *)
(* of write handlers may interleave, and any number of requests: once the  *)
(* handlers have returned, every cached set of tenant roles is what the    *)
(* rows say, the late commit of delete_principal_permission and the        *)
(* unmatched pattern of delete_custom_group included.                      *)
THEOREM ApartCoherence ==
  ASSUME Faults = FALSE
  PROVE  ApartSpec => []QuietCoherence
<1>1. Inv /\ [Next /\ Apart']_vars => Inv'
  BY InvNext
<1> QED BY InvInit, <1>1, QuietFromInv, PTL DEF ApartSpec

-----------------------------------------------------------------------------
(* Where cached roles come from (TenantAccessHistory): whatever fails and  *)
(* however requests and write handlers interleave.                         *)

(* The roles rs have a source: granted once to a principal that u is, or   *)
(* belonged to once.                                                       *)
HaveASource(rs, u) ==
  \A r \in rs : \E p \in PrincipalsOf(u, EverGroups(u)) : <<p, r>> \in granted

(* What a request has read so far are groups its user once joined, and     *)
(* then roles with a source.                                               *)
LocalsHaveASource(w) ==
  /\ job[w].pc \in {"groupsFill", "roles", "rolesDb", "rolesFill"} =>
       job[w].groups \subseteq EverGroups(job[w].user)
  /\ At(w, "rolesFill") => HaveASource(job[w].roles, job[w].user)

SourceInv ==
  /\ members \subseteq granted /\ groupMembers \subseteq joined
  /\ \A u \in Users : Holds(groupsCache, u) => groupsCache[u] \subseteq EverGroups(u)
  /\ \A w \in Workers : LocalsHaveASource(w)
  /\ CachedRolesHaveASource

(* The same of the rows and the memory after a step.                       *)
EverGroupsAfter(u) == {g \in CustomGroups : <<g, u>> \in joined'}
SourceAfter(rs, u) ==
  \A r \in rs : \E p \in PrincipalsOf(u, EverGroupsAfter(u)) : <<p, r>> \in granted'

(* Nothing that was ever committed is forgotten, so a source stays one.    *)
LEMMA SourcesStay ==
  ASSUME granted \subseteq granted', joined \subseteq joined'
  PROVE  \A u, rs : /\ EverGroups(u) \subseteq EverGroupsAfter(u)
                    /\ HaveASource(rs, u) => SourceAfter(rs, u)
<1>1. \A u : EverGroups(u) \subseteq EverGroupsAfter(u)
  BY DEF EverGroups, EverGroupsAfter
<1>2. \A u : PrincipalsOf(u, EverGroups(u)) \subseteq PrincipalsOf(u, EverGroupsAfter(u))
  BY <1>1 DEF PrincipalsOf
<1> QED BY <1>1, <1>2 DEF HaveASource, SourceAfter

(* What a step may put into an entry, or into the locals of its request.   *)
GroupsFrom(w, u) ==
  \/ groupsCache'[u] \in {groupsCache[u], NoValue}
  \/ At(w, "groupsFill") /\ u = job[w].user /\ groupsCache'[u] = job[w].groups
RolesFrom(w, u) ==
  \/ rolesCache'[u] \in {rolesCache[u], NoValue}
  \/ At(w, "rolesFill") /\ u = job[w].user /\ rolesCache'[u] = job[w].roles
LocalsFrom(w) ==
  \/ job'[w] = job[w]
  \/ job'[w].pc \notin {"groupsFill", "roles", "rolesDb", "rolesFill"}
  \/ /\ job'[w].user = job[w].user
     /\ \/ /\ job'[w].groups = job[w].groups
           /\ job[w].pc \in {"groupsFill", "roles", "rolesDb", "rolesFill"}
        \/ job'[w].groups = GroupsOf(job[w].user)
        \/ Holds(groupsCache, job[w].user) /\ job'[w].groups = groupsCache[job[w].user]
     /\ job'[w].pc = "rolesFill" =>
          /\ job'[w].groups = job[w].groups
          /\ job'[w].roles = RolesVia(PrincipalsOf(job[w].user, job[w].groups))

Reads(w) ==
  /\ \A v \in Workers \ {w} : job'[v] = job[v]
  /\ \A u \in Users : GroupsFrom(w, u) /\ RolesFrom(w, u)
  /\ LocalsFrom(w)

(* A step that only reads what was committed or what had a source keeps    *)
(* it so for every entry and every request.                                *)
LEMMA ReadsKeepSource ==
  ASSUME TypeOK, TypeOK', SourceInv, Record, NEW w \in Workers, Reads(w)
  PROVE  SourceInv'
<1>0. /\ granted \subseteq granted' /\ joined \subseteq joined'
      /\ members' \subseteq granted' /\ groupMembers' \subseteq joined'
  BY DEF Record
<1>1. \A u, rs : /\ EverGroups(u) \subseteq EverGroupsAfter(u)
                 /\ HaveASource(rs, u) => SourceAfter(rs, u)
  BY <1>0, SourcesStay
<1>2. ASSUME NEW u \in Users, groupsCache'[u] # NoValue
      PROVE  groupsCache'[u] \subseteq EverGroupsAfter(u)
  BY <1>1, <1>2 DEF Reads, GroupsFrom, SourceInv, LocalsHaveASource, Holds, At
<1>3. ASSUME NEW u \in Users, rolesCache'[u] # NoValue
      PROVE  SourceAfter(rolesCache'[u], u)
  <2>1. CASE rolesCache'[u] = rolesCache[u]
    <3>1. HaveASource(rolesCache[u], u)
      BY <1>3, <2>1 DEF SourceInv, CachedRolesHaveASource, HaveASource, Holds
    <3> QED BY <1>1, <2>1, <3>1
  <2>2. CASE At(w, "rolesFill") /\ u = job[w].user /\ rolesCache'[u] = job[w].roles
    <3>1. HaveASource(job[w].roles, u)
      BY <2>2 DEF SourceInv, LocalsHaveASource
    <3> QED BY <1>1, <2>2, <3>1
  <2> QED BY <1>3, <2>1, <2>2 DEF Reads, RolesFrom
<1>4. ASSUME NEW v \in Workers
      PROVE  LocalsHaveASource(v)'
  <2>0. ASSUME /\ job'[v].pc \in {"groupsFill", "roles", "rolesDb", "rolesFill"} =>
                    job'[v].groups \subseteq EverGroupsAfter(job'[v].user)
               /\ job'[v].pc = "rolesFill" => SourceAfter(job'[v].roles, job'[v].user)
        PROVE  LocalsHaveASource(v)'
    BY <2>0 DEF LocalsHaveASource, At, HaveASource, SourceAfter, EverGroups,
                EverGroupsAfter, PrincipalsOf
  <2>1. CASE job'[v] = job[v]
    <3>1. LocalsHaveASource(v)
      BY DEF SourceInv
    <3> QED BY <1>1, <2>0, <2>1, <3>1 DEF LocalsHaveASource, At
  <2>2. CASE job'[v].pc \notin {"groupsFill", "roles", "rolesDb", "rolesFill"}
    BY <2>0, <2>2
  <2>3. CASE /\ v = w /\ job'[w].user = job[w].user
             /\ \/ /\ job'[w].groups = job[w].groups
                   /\ job[w].pc \in {"groupsFill", "roles", "rolesDb", "rolesFill"}
                \/ job'[w].groups = GroupsOf(job[w].user)
                \/ /\ Holds(groupsCache, job[w].user)
                   /\ job'[w].groups = groupsCache[job[w].user]
             /\ job'[w].pc = "rolesFill" =>
                  /\ job'[w].groups = job[w].groups
                  /\ job'[w].roles = RolesVia(PrincipalsOf(job[w].user, job[w].groups))
    <3>0. job[w].user \in Users
      BY DEF TypeOK, Job
    <3>1. job'[w].groups \subseteq EverGroups(job[w].user)
      <4>1. GroupsOf(job[w].user) \subseteq EverGroups(job[w].user)
        BY DEF SourceInv, GroupsOf, EverGroups
      <4> QED BY <2>3, <3>0, <4>1 DEF SourceInv, LocalsHaveASource
    <3>2. job'[w].pc = "rolesFill" => HaveASource(job'[w].roles, job[w].user)
      <4> SUFFICES ASSUME job'[w].pc = "rolesFill", NEW r \in job'[w].roles
                   PROVE  \E p \in PrincipalsOf(job[w].user, EverGroups(job[w].user)) :
                            <<p, r>> \in granted
        BY DEF HaveASource
      <4>1. PICK p \in PrincipalsOf(job[w].user, job[w].groups) : <<p, r>> \in members
        BY <2>3 DEF RolesVia
      <4>2. p \in PrincipalsOf(job[w].user, EverGroups(job[w].user))
        BY <2>3, <3>1, <4>1 DEF PrincipalsOf
      <4> QED BY <4>1, <4>2 DEF SourceInv
    <3> QED BY <1>1, <2>0, <2>3, <3>1, <3>2
  <2> QED BY <2>1, <2>2, <2>3 DEF Reads, LocalsFrom
<1>5. \A u \in Users : (Holds(groupsCache, u) => groupsCache[u] \subseteq EverGroups(u))'
  BY <1>2 DEF Holds, EverGroups, EverGroupsAfter
<1>6. CachedRolesHaveASource'
  BY <1>3 DEF CachedRolesHaveASource, SourceAfter, EverGroups, EverGroupsAfter,
              PrincipalsOf, Holds
<1> QED BY <1>0, <1>4, <1>5, <1>6 DEF SourceInv

(* What a write handler or an invalidation turns its worker to is no       *)
(* request.                                                                *)
LEMMA ProceedWrites ==
  ASSUME NEW j \in Job
  PROVE  Proceed(j).pc \notin {"groupsFill", "roles", "rolesDb", "rolesFill"}
BY IdleIsAJob DEF Proceed, Job

(* The steps of a request read in that way.                                *)
LEMMA RequestReads ==
  ASSUME TypeOK, NEW w \in Workers, Begin(w) \/ Request(w)
  PROVE  Reads(w)
<1> USE DEF At, Become, Goto, caches
<1>0. job[w] \in Job /\ job \in [Workers -> Job]
  BY DEF TypeOK
<1>1. CASE Begin(w)
  <2>1. PICK u \in Users, c \in BOOLEAN : BeginRequest(w, u, c)
    BY <1>1 DEF Begin
  <2>2. job'[w].pc = "groups" /\ \A v \in Workers \ {w} : job'[v] = job[v]
    BY <1>0, <2>1, IdleIsAJob DEF BeginRequest, Job
  <2> QED BY <2>1, <2>2 DEF BeginRequest, Reads, GroupsFrom, RolesFrom, LocalsFrom
<1>2. CASE GroupsHit(w)
  <2>1. /\ job'[w].user = job[w].user /\ job'[w].groups = groupsCache[job[w].user]
        /\ job'[w].pc = "roles" /\ \A v \in Workers \ {w} : job'[v] = job[v]
    BY <1>0, <1>2 DEF GroupsHit, Job
  <2> QED BY <1>2, <2>1 DEF GroupsHit, Reads, GroupsFrom, RolesFrom, LocalsFrom
<1>3. CASE GroupsMiss(w)
  <2>1. job'[w].pc = "groupsDb" /\ \A v \in Workers \ {w} : job'[v] = job[v]
    BY <1>0, <1>3 DEF GroupsMiss, Job
  <2> QED BY <1>3, <2>1 DEF GroupsMiss, Reads, GroupsFrom, RolesFrom, LocalsFrom
<1>4. CASE ReadGroups(w)
  <2>1. /\ job'[w].user = job[w].user /\ job'[w].groups = GroupsOf(job[w].user)
        /\ job'[w].pc = "groupsFill" /\ \A v \in Workers \ {w} : job'[v] = job[v]
    BY <1>0, <1>4 DEF ReadGroups, Job
  <2> QED BY <1>4, <2>1 DEF ReadGroups, Reads, GroupsFrom, RolesFrom, LocalsFrom
<1>5. CASE FillGroups(w)
  <2>1. /\ job'[w].user = job[w].user /\ job'[w].groups = job[w].groups
        /\ job'[w].pc = "roles" /\ \A v \in Workers \ {w} : job'[v] = job[v]
    BY <1>0, <1>5 DEF FillGroups, Job
  <2>2. \A u \in Users : GroupsFrom(w, u)
    BY <1>5 DEF FillGroups, Stored, TypeOK, GroupsFrom
  <2> QED BY <1>5, <2>1, <2>2 DEF FillGroups, Reads, RolesFrom, LocalsFrom
<1>6. CASE RolesHit(w)
  <2>1. job'[w].pc = "idle" /\ \A v \in Workers \ {w} : job'[v] = job[v]
    BY <1>0, <1>6, IdleIsAJob DEF RolesHit
  <2> QED BY <1>6, <2>1 DEF RolesHit, Reads, GroupsFrom, RolesFrom, LocalsFrom
<1>7. CASE RolesMiss(w)
  <2>1. /\ job'[w].user = job[w].user /\ job'[w].groups = job[w].groups
        /\ job'[w].pc = "rolesDb" /\ job[w].pc = "roles"
        /\ \A v \in Workers \ {w} : job'[v] = job[v]
    BY <1>0, <1>7 DEF RolesMiss, Job
  <2> QED BY <1>7, <2>1 DEF RolesMiss, Reads, GroupsFrom, RolesFrom, LocalsFrom
<1>8. CASE ReadRoles(w)
  <2>1. /\ job'[w].user = job[w].user /\ job'[w].groups = job[w].groups
        /\ job'[w].roles = RolesVia(PrincipalsOf(job[w].user, job[w].groups))
        /\ job[w].pc = "rolesDb" /\ \A v \in Workers \ {w} : job'[v] = job[v]
    BY <1>0, <1>8 DEF ReadRoles, Job
  <2> QED BY <1>8, <2>1 DEF ReadRoles, Reads, GroupsFrom, RolesFrom, LocalsFrom
<1>9. CASE FillRoles(w)
  <2>1. job'[w].pc = "idle" /\ \A v \in Workers \ {w} : job'[v] = job[v]
    BY <1>0, <1>9, IdleIsAJob DEF FillRoles
  <2>2. \A u \in Users : RolesFrom(w, u)
    BY <1>9 DEF FillRoles, Stored, TypeOK, RolesFrom
  <2> QED BY <1>9, <2>1, <2>2 DEF FillRoles, Reads, GroupsFrom, LocalsFrom
<1> QED
  BY <1>1, <1>2, <1>3, <1>4, <1>5, <1>6, <1>7, <1>8, <1>9 DEF Request

(* Write handlers put nothing into an entry.                               *)
LEMMA WriteReads ==
  ASSUME TypeOK, NEW w \in Workers, Write(w) \/ Crash(w)
  PROVE  Reads(w)
<1> USE DEF At, Become
<1>0. job \in [Workers -> Job]
  BY DEF TypeOK
<1>1. PICK j : j.pc \in WriterSteps \cup {"idle"} /\ job' = [job EXCEPT ![w] = j]
  <2> DEFINE Turned == \E j : /\ j.pc \in WriterSteps \cup {"idle"}
                              /\ job' = [job EXCEPT ![w] = j]
  <2>1. ASSUME NEW p \in Principals, NEW r \in Roles, SetPermission(w, p, r)
        PROVE  Turned
    <3>1. [Idle EXCEPT !.pc = "affected", !.row = <<p, r>>, !.actor = TRUE].pc = "affected"
      BY DEF Idle
    <3> QED BY <2>1, <3>1 DEF SetPermission, WriterSteps
  <2>2. ASSUME NEW p \in Principals, NEW r \in Roles, DeletePermission(w, p, r)
        PROVE  Turned
    <3>1. [Idle EXCEPT !.pc = "affected", !.row = <<p, r>>,
                       !.delete = <<p, r>> \in members].pc = "affected"
      BY DEF Idle
    <3> QED BY <2>2, <3>1 DEF DeletePermission, WriterSteps
  <2>3. ASSUME NEW g \in CustomGroups, CreateGroup(w, g)
        PROVE  Turned
    <3>1. [Idle EXCEPT !.pc = "clearRoles", !.todo = {Admin}].pc = "clearRoles"
      BY DEF Idle
    <3> QED BY <2>3, <3>1 DEF CreateGroup, WriterSteps
  <2>4. ASSUME NEW g \in CustomGroups, DeleteGroup(w, g)
        PROVE  Turned
    <3>1. [Idle EXCEPT !.pc = "wipeRoles"].pc = "wipeRoles"
      BY DEF Idle
    <3> QED BY <2>4, <3>1 DEF DeleteGroup, WriterSteps
  <2>5. ASSUME NEW g \in CustomGroups, NEW u \in Users, SetMember(w, g, u)
        PROVE  Turned
    <3>1. [Idle EXCEPT !.pc = "clearRoles", !.todo = {u}, !.actor = TRUE].pc = "clearRoles"
      BY DEF Idle
    <3> QED BY <2>5, <3>1 DEF SetMember, WriterSteps
  <2>6. ASSUME NEW g \in CustomGroups, NEW u \in Users, DeleteMember(w, g, u)
        PROVE  Turned
    <3>1. [Idle EXCEPT !.pc = "clearRoles", !.todo = {u}].pc = "clearRoles"
      BY DEF Idle
    <3> QED BY <2>6, <3>1 DEF DeleteMember, WriterSteps
  <2>7. CASE Crash(w)
    BY <2>7 DEF Crash, Idle
  <2> QED BY <2>1, <2>2, <2>3, <2>4, <2>5, <2>6, <2>7 DEF Write
<1>2. job'[w].pc \notin ReaderSteps /\ \A v \in Workers \ {w} : job'[v] = job[v]
  BY <1>0, <1>1 DEF WriterSteps, ReaderSteps
<1>3. UNCHANGED caches
  BY DEF Write, SetPermission, DeletePermission, CreateGroup, DeleteGroup, SetMember,
         DeleteMember, Crash
<1> QED BY <1>2, <1>3 DEF caches, Reads, GroupsFrom, RolesFrom, LocalsFrom, ReaderSteps

(* Invalidations only take away.                                           *)
LEMMA InvalidateReads ==
  ASSUME TypeOK, NEW w \in Workers, Invalidate(w)
  PROVE  Reads(w)
<1> USE DEF At, Become, Goto
<1>0. job[w] \in Job /\ job \in [Workers -> Job] /\ job[w].todo \subseteq Users
      /\ job[w].user \in Users
  BY DEF TypeOK, Job
<1>1. /\ job'[w].pc \notin {"groupsFill", "roles", "rolesDb", "rolesFill"}
      /\ \A v \in Workers \ {w} : job'[v] = job[v]
  <2>1. CASE \E j \in Job : job' = [job EXCEPT ![w] = Proceed(j)]
    BY <1>0, <2>1, ProceedWrites
  <2>2. CASE \E s \in {"wipeGroups", "wipeRoles"} :
               job' = [job EXCEPT ![w] = [job[w] EXCEPT !.pc = s]]
    BY <1>0, <2>2 DEF Job
  <2>3. CASE \E u \in Users :
               job' = [job EXCEPT ![w] = [job[w] EXCEPT !.pc = "clearGroups", !.user = u]]
    BY <1>0, <2>3 DEF Job
  <2>4. CASE job' = [job EXCEPT ![w] = Idle]
    BY <1>0, <2>4, IdleIsAJob
  <2>5. \A t \in SUBSET Users : [job[w] EXCEPT !.todo = t] \in Job
    BY <1>0 DEF Job
  <2>6. CASE Affected(w)
    <3>1. {u \in Users : <<job[w].row[1], u>> \in groupMembers} \in SUBSET Users
      OBVIOUS
    <3> QED BY <2>1, <2>2, <2>5, <2>6, <3>1 DEF Affected
  <2>7. CASE ClearGroups(w)
    <3>1. job[w].todo \ {job[w].user} \in SUBSET Users
      BY <1>0
    <3> QED BY <2>1, <2>5, <2>7, <3>1 DEF ClearGroups
  <2> QED BY <1>0, <2>1, <2>2, <2>3, <2>4, <2>6, <2>7
          DEF Invalidate, WipeGroups, WipeRoles, ClearRoles, CommitDelete
<1>2. \A u \in Users : groupsCache'[u] \in {groupsCache[u], NoValue}
                       /\ rolesCache'[u] \in {rolesCache[u], NoValue}
  BY <1>0 DEF Invalidate, Affected, WipeGroups, WipeRoles, ClearRoles, ClearGroups,
              CommitDelete, Stored, Wiped, caches, database, TypeOK
<1> QED BY <1>1, <1>2 DEF Reads, GroupsFrom, RolesFrom, LocalsFrom

(* Whatever fails and however requests and write handlers interleave, a    *)
(* cached role was once committed for a principal that the user is, or     *)
(* belongs to in the identity provider, or was once a member of.           *)
THEOREM RolesHaveASource == HSpec => []CachedRolesHaveASource
<1>1. HInit => TypeOK /\ SourceInv
  <2> SUFFICES ASSUME HInit PROVE TypeOK /\ SourceInv
    OBVIOUS
  <2>1. TypeOK /\ \A w \in Workers : job[w].pc = "idle"
    BY TypeInit, IdleIsAJob DEF HInit, Init
  <2> QED BY <2>1 DEF HInit, Init, SourceInv, Holds, LocalsHaveASource, At,
                      CachedRolesHaveASource
<1>2. TypeOK /\ SourceInv /\ [HNext]_hvars => TypeOK' /\ SourceInv'
  <2> SUFFICES ASSUME TypeOK, SourceInv, [HNext]_hvars PROVE TypeOK' /\ SourceInv'
    OBVIOUS
  <2>1. TypeOK'
    BY TypeNext DEF HNext, hvars
  <2>2. ASSUME NEW w \in Workers, Record,
               Begin(w) \/ Request(w) \/ Write(w) \/ Invalidate(w) \/ Crash(w)
        PROVE  SourceInv'
    BY <2>1, <2>2, RequestReads, WriteReads, InvalidateReads, ReadsKeepSource
  <2>3. ASSUME NEW u \in Users, ExpireGroups(u) \/ ExpireRoles(u), Record
        PROVE  SourceInv'
    <3>1. /\ \A x \in Users : groupsCache'[x] \in {groupsCache[x], NoValue}
                              /\ rolesCache'[x] \in {rolesCache[x], NoValue}
          /\ job' = job /\ UNCHANGED database
      BY <2>3 DEF ExpireGroups, ExpireRoles, TypeOK
    <3>2. members' = members /\ groupMembers' = groupMembers
          /\ granted' = granted /\ joined' = joined
      BY <2>3, <3>1 DEF Record, database, SourceInv
    <3>3. \A w \in Workers : LocalsHaveASource(w)'
      BY <3>1, <3>2 DEF SourceInv, LocalsHaveASource, At, HaveASource, EverGroups
    <3>4. CachedRolesHaveASource'
      BY <3>1, <3>2 DEF SourceInv, CachedRolesHaveASource, Holds, EverGroups
    <3>5. \A x \in Users : (Holds(groupsCache, x) => groupsCache[x] \subseteq EverGroups(x))'
      BY <3>1, <3>2 DEF SourceInv, Holds, EverGroups
    <3> QED BY <3>2, <3>3, <3>4, <3>5 DEF SourceInv
  <2>4. ASSUME UNCHANGED hvars PROVE SourceInv'
    <3>1. /\ members' = members /\ groupMembers' = groupMembers /\ granted' = granted
          /\ joined' = joined /\ job' = job /\ groupsCache' = groupsCache
          /\ rolesCache' = rolesCache
      BY <2>4 DEF hvars, vars
    <3> QED BY <3>1 DEF SourceInv, LocalsHaveASource, At, HaveASource, EverGroups,
                        CachedRolesHaveASource, Holds
  <2>5. ASSUME HNext PROVE SourceInv'
    BY <2>2, <2>3, <2>5 DEF HNext, Next
  <2> QED BY <2>1, <2>4, <2>5 DEF hvars
<1>3. SourceInv => CachedRolesHaveASource
  BY DEF SourceInv
<1> QED BY <1>1, <1>2, <1>3, PTL DEF HSpec
=============================================================================
