------------------------ MODULE ResourceMembersProofs ------------------------
(***************************************************************************)
(* What holds of ResourceMembers for every set of users, groups, ids and   *)
(* workers: its types, the agreement of the four places that decide a      *)
(* permission, what the ids of the rows name, the coherence of the cached  *)
(* list, and, as long as nobody revokes a role, that the handlers          *)
(* implement MemberTable.  (A revocation may remove another role than the  *)
(* one it named, see DeletesTheRoleNamed; with revocations they do not.)   *)
(***************************************************************************)
EXTENDS ResourceMembers, TLAPS, FiniteSetTheorems, WellFoundedInduction

(* A nonempty set of levels has a highest one, and it is what the CHOOSE   *)
(* of resolve_my_permission picks.                                         *)
LEMMA HighestLevel ==
  ASSUME NEW roles \in SUBSET Levels, roles # {}
  PROVE  LET top == CHOOSE r \in roles : \A s \in roles : Hierarchy(s) <= Hierarchy(r)
         IN  top \in roles /\ \A s \in roles : Hierarchy(s) <= Hierarchy(top)
<1>1. \E r \in roles : \A s \in roles : Hierarchy(s) <= Hierarchy(r)
  <2>1. CASE "ADMIN" \in roles
    BY <2>1 DEF Levels, Hierarchy
  <2>2. CASE "ADMIN" \notin roles /\ "WRITE" \in roles
    BY <2>2 DEF Levels, Hierarchy
  <2>3. CASE roles = {"READ"}
    BY <2>3 DEF Hierarchy
  <2> QED BY <2>1, <2>2, <2>3 DEF Levels
<1> QED BY <1>1

(* The roles a user holds are levels (get_principal_ids).                  *)
LEMMA RolesHeldAreLevels ==
  ASSUME NEW u \in Users, NEW member \in Members
  PROVE  RolesHeld(u, member) \in SUBSET Levels
<1>1. PrincipalIds(u) \subseteq Principals
  BY AccessConstants DEF PrincipalIds, Principals
<1> QED BY <1>1 DEF RolesHeld, Members

(* The middleware asks whether one of the user's rows has an allowed role. *)
LEMMA CheckByRoles ==
  ASSUME NEW u \in Users, NEW member \in Members, NEW required \in SUBSET Levels,
         OrgRolesOf[u] \cap OrgBypassRoles = {}
  PROVE  CheckPermissions(u, required, member) <=>
           IsAdmin(u) \/ RolesHeld(u, member) \cap AllowedRoles(required) # {}
<1>1. NoRole \notin AllowedRoles(required)
  BY AccessConstants DEF AllowedRoles, Levels
<1> QED BY <1>1 DEF CheckPermissions, RolesHeld

(* The roles allowed at a level are those at least as high, in the         *)
(* middleware and in the permissions handler.                              *)
LEMMA AllowedMeansHigher ==
  ASSUME NEW level \in Levels, NEW role \in Levels
  PROVE  /\ role \in AllowedRoles({level}) <=> Hierarchy(role) >= Hierarchy(level)
         /\ role \in GetAllowedRoles(level) <=> Hierarchy(role) >= Hierarchy(level)
  BY DEF AllowedRoles, GetAllowedRoles, Hierarchy, Levels

(* A route that requires several levels allows what any of them allows.    *)
LEMMA AllowedForSome ==
  ASSUME NEW required \in SUBSET Levels
  PROVE  \A s : s \in AllowedRoles(required) <=>
                \E level \in required : s \in AllowedRoles({level})
<1>0. /\ AllowedRoles({"READ"}) = {"READ", "WRITE", "ADMIN"}
      /\ AllowedRoles({"WRITE"}) = {"WRITE", "ADMIN"}
      /\ AllowedRoles({"ADMIN"}) = {"ADMIN"}
  BY DEF AllowedRoles
<1>1. CASE "READ" \in required
  <2>1. AllowedRoles(required) = {"READ", "WRITE", "ADMIN"}
    BY <1>1 DEF AllowedRoles
  <2> QED BY <2>1, <1>0, <1>1 DEF Levels
<1>2. CASE "READ" \notin required /\ "WRITE" \in required
  <2>1. AllowedRoles(required) = {"WRITE", "ADMIN"}
    BY <1>2 DEF AllowedRoles
  <2> QED BY <2>1, <1>0, <1>2 DEF Levels
<1>3. CASE required = {"ADMIN"}
  BY <1>3, <1>0
<1>4. CASE required = {}
  BY <1>4 DEF AllowedRoles
<1> QED BY <1>1, <1>2, <1>3, <1>4 DEF Levels

(* my_permission is the level up to which the middleware admits a user.    *)
LEMMA EffectiveWithoutOrganization ==
  ASSUME NEW u \in Users, NEW member \in Members,
         OrgRolesOf[u] \cap OrgBypassRoles = {}
  PROVE  Effective(u, member)
<1> SUFFICES ASSUME NEW level \in Levels
             PROVE CheckPermissions(u, {level}, member) <=>
                     Hierarchy(ResolveMyPermission(u, member)) >= Hierarchy(level)
  BY DEF Effective
<1> DEFINE roles == RolesHeld(u, member)
<1>1. roles \in SUBSET Levels
  BY RolesHeldAreLevels
<1>2. CheckPermissions(u, {level}, member) <=>
        IsAdmin(u) \/ roles \cap AllowedRoles({level}) # {}
  BY CheckByRoles
<1>3. CASE IsAdmin(u)
  <2>1. ResolveMyPermission(u, member) = "ADMIN"
    BY <1>3 DEF ResolveMyPermission
  <2> QED BY <2>1, <1>2, <1>3 DEF Hierarchy, Levels
<1>4. CASE ~IsAdmin(u) /\ roles = {}
  <2>1. ResolveMyPermission(u, member) = NoRole
    BY <1>4 DEF ResolveMyPermission
  <2>2. Hierarchy(NoRole) = 0 /\ Hierarchy(level) \in {1, 2, 3}
    BY AccessConstants DEF Hierarchy, Levels
  <2> QED BY <2>1, <2>2, <1>2, <1>4
<1>5. CASE ~IsAdmin(u) /\ roles # {}
  <2> DEFINE top == CHOOSE r \in roles : \A s \in roles : Hierarchy(s) <= Hierarchy(r)
  <2>1. ResolveMyPermission(u, member) = top
    BY <1>5 DEF ResolveMyPermission
  <2>2. top \in roles /\ \A s \in roles : Hierarchy(s) <= Hierarchy(top)
    BY HighestLevel, <1>1, <1>5
  <2> HIDE DEF top, roles
  <2>3. \A s \in Levels : Hierarchy(s) \in Int
    BY DEF Levels, Hierarchy
  <2>4. \A s \in roles : s \in AllowedRoles({level}) <=> Hierarchy(s) >= Hierarchy(level)
    BY AllowedMeansHigher, <1>1
  <2> QED BY <2>1, <2>2, <2>3, <2>4, <1>1, <1>2, <1>5
<1> QED BY <1>3, <1>4, <1>5

(* The four places that decide a permission agree on every member table.   *)
LEMMA AgreementWithoutOrganization ==
  ASSUME NEW u \in Users, NEW member \in Members,
         OrgRolesOf[u] \cap OrgBypassRoles = {}
  PROVE  Agreement(u, member)
<1> DEFINE roles == RolesHeld(u, member)
<1>0. roles \in SUBSET Levels
  BY RolesHeldAreLevels
<1>1. Effective(u, member)
  BY EffectiveWithoutOrganization
<1>2. ASSUME NEW level \in Levels
      PROVE  CheckUserPermission(u, level, member) <=> CheckPermissions(u, {level}, member)
  <2>1. \A s \in Levels : s \in AllowedRoles({level}) <=> s \in GetAllowedRoles(level)
    BY AllowedMeansHigher
  <2>2. CheckPermissions(u, {level}, member) <=>
          IsAdmin(u) \/ roles \cap AllowedRoles({level}) # {}
    BY CheckByRoles
  <2> QED BY <2>1, <2>2, <1>0 DEF CheckUserPermission
<1>3. ASSUME NEW required \in SUBSET Levels
      PROVE  CheckPermissions(u, required, member) <=>
               IsAdmin(u) \/ \E level \in required : CheckPermissions(u, {level}, member)
  <2>1. CheckPermissions(u, required, member) <=>
          IsAdmin(u) \/ roles \cap AllowedRoles(required) # {}
    BY CheckByRoles
  <2>2. \A level \in required : CheckPermissions(u, {level}, member) <=>
          IsAdmin(u) \/ roles \cap AllowedRoles({level}) # {}
    BY CheckByRoles
  <2>3. \A s : s \in AllowedRoles(required) <=>
               \E level \in required : s \in AllowedRoles({level})
    BY AllowedForSome
  <2>4. roles \cap AllowedRoles(required) # {} <=>
          \E level \in required : roles \cap AllowedRoles({level}) # {}
    <3> HIDE DEF roles
    <3> QED BY <2>3
  <2> QED BY <2>1, <2>2, <2>4
<1>4. Listed(u, member) <=> CheckPermissions(u, {"READ"}, member)
  <2>1. CheckPermissions(u, {"READ"}, member) <=>
          IsAdmin(u) \/ roles \cap AllowedRoles({"READ"}) # {}
    BY CheckByRoles DEF Levels
  <2>2. AllowedRoles({"READ"}) = Levels
    BY DEF AllowedRoles, Levels
  <2>3. Listed(u, member) <=> IsAdmin(u) \/ roles # {}
    BY DEF Listed, RolesHeld
  <2> QED BY <2>1, <2>2, <2>3, <1>0
<1> QED BY <1>1, <1>2, <1>3, <1>4 DEF Agreement

-----------------------------------------------------------------------------
(* Types, with what each step knows of the handler it belongs to.          *)

(* A worker's job j while the resource's row is in state st.               *)
StepFits(j, st) ==
  /\ j.pc = "create" => j.op = "create" /\ st = "none"
  /\ j.pc \in {"principal", "newPrincipal", "member", "insert", "update", "refresh"} =>
       j.op = "set"
  /\ j.pc \in {"find", "remove"} => j.op = "delete"
  /\ j.pc \in {"verify", "invalidate"} => j.op \in {"set", "delete"}
  /\ j.pc \in {"load", "drop", "forget"} => j.op = "drop"
  /\ j.pc \in {"list", "readList", "fillList"} => j.op = "list"
  /\ j.pc = "ok" => j.op # "list"
  /\ j.pc \in {"drop", "readList", "fillList"} => st # "none"
  /\ j.pc = "forget" => st = "deleted"
  /\ j.pc \in {"update", "refresh", "remove"} => j.id # NoId

Control ==
  /\ \A w \in Workers : StepFits(job[w], state)
  /\ \A v, w \in Workers : At(v, "create") /\ At(w, "create") => v = w
  /\ state = "none" => listCache = NoEntry

Typed == TypeOK /\ Control

(* What an idle worker holds.                                              *)
LEMMA IdleIsAJob ==
  Idle \in Job /\ Idle.pc = "idle" /\ \A st : StepFits(Idle, st)
BY AccessConstants, MembersConstants
   DEF Idle, Job, Nothing, Members, Principals, Levels, StepFits

(* A new id is an id (uuid4).                                              *)
LEMMA NewIdIsAnId ==
  ASSUME FreshIds # {}
  PROVE  NewId \in Ids /\ NewId # NoId /\ NewId \in FreshIds
BY MembersConstants DEF NewId, FreshIds

(* A step that moves one worker, within its handler, keeps Control while   *)
(* the resource's row stays as it is.                                      *)
LEMMA MoveKeepsControl ==
  ASSUME Typed, NEW w \in Workers, NEW j \in Job, Become(w, j),
         state' = state, StepFits(j, state), j.pc # "create",
         state = "none" => listCache' = NoEntry
  PROVE  Control' /\ job' \in [Workers -> Job]
<1>1. job' = [job EXCEPT ![w] = j] /\ job \in [Workers -> Job]
  BY DEF Become, Typed, TypeOK
<1>2. \A v \in Workers : StepFits(job'[v], state)
  BY <1>1 DEF Typed, Control
<1>3. \A v, x \in Workers : job'[v].pc = "create" /\ job'[x].pc = "create" => v = x
  BY <1>1 DEF Typed, Control, At, Moves
<1> QED BY <1>1, <1>2, <1>3 DEF Control, At, Moves

(* The service starts well typed.                                          *)
LEMMA TypedInit == Init => Typed
<1> SUFFICES ASSUME Init PROVE Typed
  OBVIOUS
<1>1. TypeOK
  BY IdleIsAJob, AccessConstants, MembersConstants
     DEF Init, TypeOK, Row, NoRow, Principals
<1>2. Control
  BY IdleIsAJob DEF Init, Control, At, Moves
<1> QED BY <1>1, <1>2 DEF Typed

(* A step that fails keeps the types (an HTTPException, the rollback).     *)
LEMMA RaiseKeepsTypes ==
  ASSUME Typed, NEW w \in Workers, Raise(w), UNCHANGED <<table, listCache>>
  PROVE  Typed'
<1> DEFINE j == [job[w] EXCEPT !.pc = "failed", !.fresh = FALSE]
<1>1. j \in Job /\ j.pc = "failed"
  BY DEF Typed, TypeOK, Job
<1>2. StepFits(j, state)
  BY <1>1 DEF StepFits
<1>3. Become(w, j)
  BY DEF Raise
<1> HIDE DEF j
<1>4. Control' /\ job' \in [Workers -> Job]
  BY <1>1, <1>2, <1>3, MoveKeepsControl DEF table, Typed, Control
<1> QED BY <1>4 DEF Typed, TypeOK, table

(* So does a step that only moves on within its handler.                   *)
LEMMA GotoKeepsTypes ==
  ASSUME Typed, NEW w \in Workers,
         NEW s \in {"idle", "verify", "principal", "newPrincipal", "member",
                    "insert", "update", "refresh", "invalidate", "find", "remove",
                    "load", "drop", "forget", "list", "readList", "fillList",
                    "ok", "failed"},
         Goto(w, s), UNCHANGED table, state = "none" => listCache' = NoEntry,
         listCache' \in Members \cup {NoEntry},
         StepFits([job[w] EXCEPT !.pc = s], state)
  PROVE  Typed'
<1> DEFINE j == [job[w] EXCEPT !.pc = s]
<1>1. j \in Job /\ j.pc = s
  BY DEF Typed, TypeOK, Job
<1>2. StepFits(j, state) /\ Become(w, j)
  BY DEF Goto
<1> HIDE DEF j
<1>4. Control' /\ job' \in [Workers -> Job]
  BY <1>1, <1>2, MoveKeepsControl DEF table
<1> QED BY <1>4 DEF Typed, TypeOK, table

(* Requests arrive well typed, and one creation at a time.                 *)
LEMMA TypedBegin ==
  ASSUME Typed, NEW w \in Workers, Begin(w)
  PROVE  Typed'
<1> USE DEF Typed, TypeOK
<1>1. ASSUME NEW op \in {"create"} \cup Operations, NEW p \in Principals,
             NEW r \in Levels, NEW s \in {"create", "verify", "load", "list"},
             Receive(w, op, p, r, s),
             StepFits([Idle EXCEPT !.pc = s, !.op = op, !.p = p, !.role = r], state),
             s = "create" => \A v \in Workers : ~At(v, "create")
      PROVE  Typed'
  <2> DEFINE j == [Idle EXCEPT !.pc = s, !.op = op, !.p = p, !.role = r]
  <2>1. j \in Job /\ j.pc = s
    BY IdleIsAJob DEF Job, Idle
  <2>2. Become(w, j) /\ StepFits(j, state) /\ UNCHANGED <<table, listCache>>
    BY <1>1 DEF Receive
  <2> HIDE DEF j
  <2>3. job' = [job EXCEPT ![w] = j]
    BY <2>2 DEF Become
  <2>4. CASE s # "create"
    BY <2>1, <2>2, <2>4, MoveKeepsControl DEF table, Control
  <2>5. CASE s = "create"
    <3>1. \A v \in Workers : StepFits(job'[v], state)
      BY <2>2, <2>3 DEF Control
    <3>2. \A v, x \in Workers : job'[v].pc = "create" /\ job'[x].pc = "create" => v = x
      BY <2>3, <2>5, <1>1 DEF At, Moves
    <3> QED BY <2>1, <2>2, <2>3, <3>1, <3>2 DEF Control, At, Moves, table
  <2> QED BY <2>4, <2>5
<1>2. Creator \in Principals /\ "ADMIN" \in Levels
  BY MembersConstants DEF Principals, Levels
<1>3. CASE state = "none" /\ (\A v \in Workers : ~At(v, "create"))
           /\ Receive(w, "create", Creator, "ADMIN", "create")
  BY <1>1, <1>2, <1>3 DEF StepFits, Idle
<1>4. CASE \E op \in Operations \cap {"set", "delete"}, p \in Principals, r \in Levels :
             Receive(w, op, p, r, "verify")
  BY <1>1, <1>4 DEF StepFits, Idle
<1>5. CASE "drop" \in Operations /\ Receive(w, "drop", Creator, "ADMIN", "load")
  BY <1>1, <1>2, <1>5 DEF StepFits, Idle
<1>6. CASE "list" \in Operations /\ Receive(w, "list", Creator, "ADMIN", "list")
  BY <1>1, <1>2, <1>6 DEF StepFits, Idle
<1> QED BY <1>3, <1>4, <1>5, <1>6 DEF Begin

(* The creation writes the first row, and no other is there.               *)
LEMMA TypedCreate ==
  ASSUME Typed, NEW w \in Workers, Create(w)
  PROVE  Typed'
<1> USE DEF Typed, TypeOK, At, Moves
<1>0. job[w] \in Job /\ job[w].pc = "create" /\ state = "none" /\ listCache' = listCache
  BY DEF Create, Control, StepFits
<1> DEFINE j == [job[w] EXCEPT !.pc = "ok"]
<1>1. j \in Job /\ j.pc = "ok" /\ StepFits(j, "live")
  BY <1>0 DEF Job, Control, StepFits
<1>2. job' = [job EXCEPT ![w] = j]
  BY DEF Create, Goto, Become
<1> HIDE DEF j
<1>3. job' \in [Workers -> Job]
  BY <1>1, <1>2
<1>4. rows' \in [Principals -> Row]
      /\ \A p \in Principals : rows'[p] # NoRow =>
           rows'[p].id # NoId /\ rows'[p].role # NoRole /\ p \in principals'
  <2>1. job[w].p \in Principals /\ job[w].role \in Levels
    BY <1>0 DEF Job
  <2>2. [id |-> NewId, role |-> job[w].role] \in Row
    BY <2>1, NewIdIsAnId DEF Create, Row
  <2>3. \A p \in Principals : rows'[p] = IF p = job[w].p
          THEN [id |-> NewId, role |-> job[w].role] ELSE rows[p]
    BY <2>1 DEF Create
  <2>4. NewId # NoId /\ job[w].role # NoRole
    BY <2>1, NewIdIsAnId, AccessConstants DEF Create
  <2> QED BY <2>1, <2>2, <2>3, <2>4 DEF Create
<1>5. \A v \in Workers : StepFits(job'[v], state')
  <2> SUFFICES ASSUME NEW v \in Workers, v # w PROVE StepFits(job[v], "live")
    BY <1>1, <1>2 DEF Create
  <2>1. job[v].pc # "create" /\ StepFits(job[v], "none")
    BY <1>0 DEF Control
  <2> QED BY <2>1 DEF StepFits
<1>6. \A v, x \in Workers : job'[v].pc = "create" /\ job'[x].pc = "create" => v = x
  BY <1>0, <1>1, <1>2 DEF Control
<1> QED BY <1>0, <1>3, <1>4, <1>5, <1>6 DEF Create, Control, Principals, Job

(* The steps of set_permission.                                            *)
LEMMA TypedSet ==
  ASSUME Typed, NEW w \in Workers,
         \/ VerifyResource(w) \/ FindPrincipal(w) \/ NewPrincipal(w) \/ FindMember(w)
         \/ InsertMember(w) \/ UpdateMember(w) \/ Refresh(w) \/ Invalidate(w)
  PROVE  Typed'
<1>0. job[w] \in Job /\ StepFits(job[w], state)
      /\ job[w].p \in Principals /\ job[w].role \in Levels
  BY DEF Typed, TypeOK, Control, Job
<1>a. \A s : [job[w] EXCEPT !.pc = s].pc = s /\ [job[w] EXCEPT !.pc = s].op = job[w].op
             /\ [job[w] EXCEPT !.pc = s].id = job[w].id
  BY <1>0 DEF Job
<1>b. listCache \in Members \cup {NoEntry} /\ (state = "none" => listCache = NoEntry)
  BY DEF Typed, TypeOK, Control
<1>c. /\ rows \in [Principals -> Row]
      /\ \A p \in Principals : rows[p] # NoRow =>
           rows[p].id # NoId /\ rows[p].role # NoRole /\ p \in principals /\ state = "live"
      /\ principals \subseteq Principals /\ state \in {"none", "live", "deleted"}
  BY DEF Typed, TypeOK
<1>1. CASE VerifyResource(w)
  <2>1. CASE Raise(w)
    BY <1>1, <2>1, RaiseKeepsTypes DEF VerifyResource, Verify
  <2>2. CASE job[w].op = "set" /\ Goto(w, "principal")
    <3>1. StepFits([job[w] EXCEPT !.pc = "principal"], state)
      BY <1>0, <1>a, <2>2 DEF StepFits
    <3> QED BY <1>1, <1>b, <2>2, <3>1, GotoKeepsTypes DEF VerifyResource, Verify
  <2>3. CASE job[w].op # "set" /\ Goto(w, "find")
    <3>1. StepFits([job[w] EXCEPT !.pc = "find"], state)
      BY <1>0, <1>1, <1>a, <2>3 DEF StepFits, VerifyResource, At, Moves
    <3> QED BY <1>1, <1>b, <2>3, <3>1, GotoKeepsTypes DEF VerifyResource, Verify
  <2> QED BY <1>1, <2>1, <2>2, <2>3 DEF VerifyResource, Verify
<1>2. CASE FindPrincipal(w)
  <2>1. \A s \in {"member", "newPrincipal"} : StepFits([job[w] EXCEPT !.pc = s], state)
    BY <1>0, <1>2, <1>a DEF StepFits, FindPrincipal, At, Moves
  <2>2. CASE Raise(w)
    BY <1>2, <2>2, RaiseKeepsTypes DEF FindPrincipal
  <2>3. CASE Goto(w, "member") \/ Goto(w, "newPrincipal")
    BY <1>2, <1>b, <2>1, <2>3, GotoKeepsTypes DEF FindPrincipal
  <2> QED BY <1>2, <2>2, <2>3 DEF FindPrincipal
<1>3. CASE NewPrincipal(w)
  <2> DEFINE j == [job[w] EXCEPT !.pc = "member", !.fresh = TRUE]
  <2>1. CASE Raise(w)
    BY <1>3, <2>1, RaiseKeepsTypes DEF NewPrincipal
  <2>2. CASE Become(w, j)
    <3>1. j \in Job /\ j.pc = "member" /\ StepFits(j, state)
      BY <1>0, <1>3 DEF Job, StepFits, NewPrincipal, At, Moves
    <3> HIDE DEF j
    <3>2. Control' /\ job' \in [Workers -> Job]
      BY <1>3, <1>b, <2>2, <3>1, MoveKeepsControl DEF NewPrincipal, table
    <3> QED BY <1>3, <3>2 DEF NewPrincipal, table, Typed, TypeOK
  <2> QED BY <1>3, <2>1, <2>2 DEF NewPrincipal
<1>4. CASE FindMember(w)
  <2> DEFINE row == rows[job[w].p]
             s == IF row = NoRow THEN "insert"
                  ELSE IF row.role # job[w].role THEN "update" ELSE "invalidate"
             j == [job[w] EXCEPT !.id = row.id, !.pc = s]
  <2>1. row \in Row /\ (row # NoRow => row.id # NoId)
    BY <1>0, <1>c
  <2>2. j \in Job
    BY <1>0, <2>1 DEF Job, Row
  <2>3. j.pc = s /\ j.id = row.id /\ j.op = "set"
    BY <1>0, <1>4 DEF Job, FindMember, At, Moves, StepFits
  <2>4. s \in {"insert", "update", "invalidate"} /\ (s = "update" => row.id # NoId)
    BY <2>1
  <2>5. Become(w, j)
    BY <1>4 DEF FindMember
  <2> HIDE DEF j, s, row
  <2>6. StepFits(j, state) /\ j.pc # "create"
    BY <2>3, <2>4 DEF StepFits
  <2>7. Control' /\ job' \in [Workers -> Job]
    BY <1>4, <1>b, <2>2, <2>5, <2>6, MoveKeepsControl DEF FindMember, table
  <2> QED BY <1>4, <2>7 DEF FindMember, table, Typed, TypeOK
<1>5. CASE InsertMember(w)
  <2>1. CASE Raise(w) /\ UNCHANGED table
    BY <1>5, <2>1, RaiseKeepsTypes DEF InsertMember
  <2>2. CASE ~(Raise(w) /\ UNCHANGED table)
    <3> DEFINE j == [job[w] EXCEPT !.pc = "refresh", !.id = NewId, !.fresh = FALSE]
               row == [id |-> NewId, role |-> job[w].role]
    <3>1. /\ state = "live" /\ FreshIds # {} /\ rows' = [rows EXCEPT ![job[w].p] = row]
          /\ principals' = principals \cup {job[w].p} /\ Become(w, j)
          /\ state' = state /\ listCache' = listCache /\ job[w].pc = "insert"
      BY <1>5, <2>2 DEF InsertMember, At, Moves
    <3>2. NewId \in Ids /\ NewId # NoId
      BY <3>1, NewIdIsAnId
    <3>3. j \in Job /\ j.pc = "refresh" /\ StepFits(j, state)
      BY <1>0, <3>1, <3>2 DEF Job, StepFits
    <3>4. row \in Row /\ row.id # NoId /\ row.role # NoRole
      BY <1>0, <3>2, AccessConstants DEF Row
    <3> HIDE DEF j, row
    <3>5. Control' /\ job' \in [Workers -> Job]
      BY <1>b, <3>1, <3>3, MoveKeepsControl
    <3> QED BY <1>0, <1>b, <3>1, <3>4, <3>5, <1>c DEF Typed, TypeOK
  <2> QED BY <2>1, <2>2
<1>6. CASE UpdateMember(w)
  <2>1. job[w].pc = "update" /\ job[w].id # NoId /\ job[w].op = "set"
    BY <1>0, <1>6 DEF UpdateMember, At, Moves, StepFits
  <2>2. CASE rows[job[w].p].id # job[w].id
    <3>1. Raise(w) /\ UNCHANGED <<table, listCache>>
      BY <1>6, <2>2 DEF UpdateMember, table
    <3> QED BY <3>1, RaiseKeepsTypes
  <2>3. CASE rows[job[w].p].id = job[w].id
    <3> DEFINE j == [job[w] EXCEPT !.pc = "refresh"]
    <3>1. /\ rows' = [rows EXCEPT ![job[w].p].role = job[w].role] /\ Become(w, j)
          /\ state' = state /\ principals' = principals /\ listCache' = listCache
      BY <1>6, <2>3 DEF UpdateMember, Goto
    <3>2. j \in Job /\ j.pc = "refresh" /\ StepFits(j, state)
      BY <1>0, <2>1 DEF Job, StepFits
    <3> HIDE DEF j
    <3>3. Control' /\ job' \in [Workers -> Job]
      BY <1>b, <3>1, <3>2, MoveKeepsControl
    <3>5. rows[job[w].p] # NoRow
      BY <2>1, <2>3 DEF NoRow
    <3>6. [rows[job[w].p] EXCEPT !.role = job[w].role] \in Row
          /\ [rows[job[w].p] EXCEPT !.role = job[w].role].id = rows[job[w].p].id
          /\ [rows[job[w].p] EXCEPT !.role = job[w].role].role # NoRole
      BY <1>0, <1>c, AccessConstants DEF Row
    <3>7. \A p \in Principals : rows'[p] = IF p = job[w].p
            THEN [rows[job[w].p] EXCEPT !.role = job[w].role] ELSE rows[p]
      BY <1>0, <3>1, <1>c
    <3>8. rows' \in [Principals -> Row]
      BY <3>1, <1>c, <3>6, <1>0
    <3> QED BY <1>0, <1>b, <3>1, <3>3, <1>c, <3>5, <3>6, <3>7, <3>8 DEF Typed, TypeOK
  <2> QED BY <2>2, <2>3
<1>7. CASE Refresh(w)
  <2>1. CASE Raise(w)
    BY <1>7, <2>1, RaiseKeepsTypes DEF Refresh
  <2>2. CASE Goto(w, "invalidate")
    <3>1. StepFits([job[w] EXCEPT !.pc = "invalidate"], state)
      BY <1>0, <1>7, <1>a DEF StepFits, Refresh, At, Moves
    <3> QED BY <1>7, <1>b, <2>2, <3>1, GotoKeepsTypes DEF Refresh
  <2> QED BY <1>7, <2>1, <2>2 DEF Refresh
<1>8. CASE Invalidate(w)
  <2>1. StepFits([job[w] EXCEPT !.pc = "ok"], state)
    BY <1>0, <1>8, <1>a DEF StepFits, Invalidate, At, Moves
  <2> QED BY <1>8, <2>1, GotoKeepsTypes DEF Invalidate
<1> QED BY <1>1, <1>2, <1>3, <1>4, <1>5, <1>6, <1>7, <1>8

(* The steps of delete_permission and of delete_workflow.                  *)
LEMMA TypedRemoval ==
  ASSUME Typed, NEW w \in Workers,
         \/ FindRole(w) \/ RemoveMember(w)
         \/ LoadResource(w) \/ DropResource(w) \/ ForgetLists(w)
  PROVE  Typed'
<1>0. job[w] \in Job /\ StepFits(job[w], state)
      /\ job[w].p \in Principals /\ job[w].role \in Levels
  BY DEF Typed, TypeOK, Control, Job
<1>a. \A s : [job[w] EXCEPT !.pc = s].pc = s /\ [job[w] EXCEPT !.pc = s].op = job[w].op
             /\ [job[w] EXCEPT !.pc = s].id = job[w].id
  BY <1>0 DEF Job
<1>b. listCache \in Members \cup {NoEntry} /\ (state = "none" => listCache = NoEntry)
  BY DEF Typed, TypeOK, Control
<1>c. /\ rows \in [Principals -> Row]
      /\ \A p \in Principals : rows[p] # NoRow =>
           rows[p].id # NoId /\ rows[p].role # NoRole /\ p \in principals /\ state = "live"
      /\ principals \subseteq Principals /\ state \in {"none", "live", "deleted"}
  BY DEF Typed, TypeOK
<1>1. CASE FindRole(w)
  <2>1. CASE Raise(w)
    BY <1>1, <2>1, RaiseKeepsTypes DEF FindRole
  <2>2. CASE ~Raise(w)
    <3> DEFINE row == rows[job[w].p]
               j == [job[w] EXCEPT !.pc = "remove", !.id = row.id]
    <3>1. row.role = job[w].role /\ Become(w, j) /\ job[w].pc = "find"
      BY <1>1, <2>2 DEF FindRole, At, Moves
    <3>2. row \in Row /\ row.id # NoId
      BY <3>1, <1>0, <1>c, AccessConstants DEF NoRow
    <3>3. j \in Job /\ j.pc = "remove" /\ StepFits(j, state)
      BY <1>0, <3>1, <3>2 DEF Job, Row, StepFits
    <3> HIDE DEF j, row
    <3>4. Control' /\ job' \in [Workers -> Job]
      BY <1>1, <1>b, <3>1, <3>3, MoveKeepsControl DEF FindRole, table
    <3> QED BY <1>1, <3>4 DEF FindRole, table, Typed, TypeOK
  <2> QED BY <2>1, <2>2
<1>2. CASE RemoveMember(w)
  <2> DEFINE found == rows[job[w].p].id = job[w].id
             j == [job[w] EXCEPT !.pc = "invalidate",
                     !.removed = IF found THEN rows[job[w].p].role ELSE NoRole]
  <2>1. /\ rows' = IF found THEN [rows EXCEPT ![job[w].p] = NoRow] ELSE rows
        /\ Become(w, j) /\ job[w].pc = "remove"
        /\ state' = state /\ principals' = principals /\ listCache' = listCache
    BY <1>2 DEF RemoveMember, At, Moves
  <2>2. rows[job[w].p].role \in Levels \cup {NoRole}
    BY <1>0, <1>c DEF Row
  <2>3. j \in Job /\ j.pc = "invalidate" /\ StepFits(j, state)
    BY <1>0, <2>1, <2>2 DEF Job, StepFits
  <2> HIDE DEF j
  <2>4. Control' /\ job' \in [Workers -> Job]
    BY <1>b, <2>1, <2>3, MoveKeepsControl
  <2>5. NoRow \in Row
    BY DEF NoRow, Row
  <2>6. rows' \in [Principals -> Row]
        /\ \A p \in Principals : rows'[p] = rows[p] \/ rows'[p] = NoRow
    BY <1>0, <1>c, <2>1, <2>5
  <2> QED BY <1>b, <1>c, <2>1, <2>4, <2>6 DEF Typed, TypeOK
<1>3. CASE LoadResource(w)
  <2>1. CASE Raise(w)
    BY <1>3, <2>1, RaiseKeepsTypes DEF LoadResource, Verify
  <2>2. CASE state = "live" /\ Goto(w, "drop")
    <3>1. StepFits([job[w] EXCEPT !.pc = "drop"], state)
      BY <1>0, <1>3, <1>a, <2>2 DEF StepFits, LoadResource, At, Moves
    <3> QED BY <1>3, <1>b, <2>2, <3>1, GotoKeepsTypes DEF LoadResource, Verify
  <2> QED BY <1>3, <2>1, <2>2 DEF LoadResource, Verify
<1>4. CASE DropResource(w)
  <2> DEFINE j == [job[w] EXCEPT !.pc = "forget"]
  <2>1. /\ job[w].pc = "drop" /\ state # "none" /\ state' = "deleted"
        /\ rows' = [p \in Principals |-> NoRow] /\ job' = [job EXCEPT ![w] = j]
        /\ principals' = principals /\ listCache' = listCache
    BY <1>0, <1>4 DEF DropResource, At, Moves, Goto, Become, StepFits
  <2>2. j \in Job /\ j.pc = "forget" /\ StepFits(j, "deleted")
    BY <1>0, <2>1 DEF Job, StepFits
  <2> HIDE DEF j
  <2>3. job \in [Workers -> Job]
    BY DEF Typed, TypeOK
  <2>4. ASSUME NEW v \in Workers PROVE StepFits(job'[v], "deleted")
    <3>1. StepFits(job[v], state)
      BY DEF Typed, Control
    <3>2. job[v].pc # "create"
      BY <3>1, <2>1 DEF StepFits
    <3>3. StepFits(job[v], "deleted")
      BY <3>1, <3>2 DEF StepFits
    <3> QED BY <2>1, <2>2, <2>3, <3>3
  <2>5. \A v, x \in Workers : job'[v].pc = "create" /\ job'[x].pc = "create" => v = x
    BY <2>1, <2>2, <2>3 DEF Typed, Control, At, Moves
  <2>6. Control'
    BY <2>1, <2>4, <2>5 DEF Control, At, Moves
  <2>7. rows' \in [Principals -> Row] /\ \A p \in Principals : rows'[p] = NoRow
    BY <2>1 DEF NoRow, Row
  <2>8. job' \in [Workers -> Job]
    BY <2>1, <2>2, <2>3
  <2> QED BY <1>b, <1>c, <2>1, <2>6, <2>7, <2>8 DEF Typed, TypeOK
<1>5. CASE ForgetLists(w)
  <2>1. StepFits([job[w] EXCEPT !.pc = "ok"], state)
    BY <1>0, <1>5, <1>a DEF StepFits, ForgetLists, At, Moves
  <2> QED BY <1>5, <1>b, <2>1, GotoKeepsTypes DEF ForgetLists
<1> QED BY <1>1, <1>2, <1>3, <1>4, <1>5

(* Returning to idle keeps the types, whatever becomes of the list.        *)
LEMMA RestKeepsTypes ==
  ASSUME Typed, NEW w \in Workers, Become(w, Idle), UNCHANGED table,
         listCache' \in Members \cup {NoEntry}, state = "none" => listCache' = NoEntry
  PROVE  Typed'
<1>1. Control' /\ job' \in [Workers -> Job]
  BY IdleIsAJob, MoveKeepsControl DEF table
<1> QED BY <1>1 DEF Typed, TypeOK, table

(* The steps of list_permissions.                                          *)
LEMMA TypedRead ==
  ASSUME Typed, NEW w \in Workers, Read(w)
  PROVE  Typed'
<1>0. job[w] \in Job /\ StepFits(job[w], state)
  BY DEF Typed, TypeOK, Control
<1>b. listCache \in Members \cup {NoEntry} /\ (state = "none" => listCache = NoEntry)
  BY DEF Typed, TypeOK, Control
<1>1. CASE ListHit(w)
  BY <1>1, <1>b, RestKeepsTypes DEF ListHit
<1>2. CASE ListMiss(w)
  <2>1. CASE Raise(w)
    BY <1>2, <2>1, RaiseKeepsTypes DEF ListMiss, Verify
  <2>2. CASE state = "live" /\ Goto(w, "readList")
    <3>1. StepFits([job[w] EXCEPT !.pc = "readList"], state)
      BY <1>0, <1>2, <2>2 DEF StepFits, ListMiss, At, Moves, Job
    <3> QED BY <1>2, <1>b, <2>2, <3>1, GotoKeepsTypes DEF ListMiss, Verify
  <2> QED BY <1>2, <2>1, <2>2 DEF ListMiss, Verify
<1>3. CASE ReadList(w)
  <2> DEFINE j == [job[w] EXCEPT !.pc = "fillList", !.entry = RoleOf]
  <2>1. RoleOf \in Members
    BY DEF RoleOf, Members, Typed, TypeOK, Row
  <2>2. j \in Job /\ j.pc = "fillList" /\ StepFits(j, state)
    BY <1>0, <1>3, <2>1 DEF Job, StepFits, ReadList, At, Moves
  <2>3. Become(w, j)
    BY <1>3 DEF ReadList
  <2> HIDE DEF j
  <2>4. Control' /\ job' \in [Workers -> Job]
    BY <1>3, <1>b, <2>2, <2>3, MoveKeepsControl DEF ReadList, table
  <2> QED BY <1>3, <2>4 DEF ReadList, table, Typed, TypeOK
<1>4. CASE FillList(w)
  <2>1. job[w].entry \in Members /\ state # "none"
    BY <1>0, <1>4 DEF Job, StepFits, FillList, At, Moves
  <2> QED BY <1>4, <2>1, RestKeepsTypes DEF FillList
<1> QED BY <1>1, <1>2, <1>3, <1>4 DEF Read

(* Every step keeps the types.                                             *)
LEMMA TypedNext == Typed /\ [Next]_vars => Typed'
<1> SUFFICES ASSUME Typed, [Next]_vars PROVE Typed'
  OBVIOUS
<1>b. listCache \in Members \cup {NoEntry} /\ (state = "none" => listCache = NoEntry)
  BY DEF Typed, TypeOK, Control
<1>1. ASSUME NEW w \in Workers, Begin(w) \/ Read(w) \/ Write(w) \/ Reply(w) \/ Crash(w)
      PROVE  Typed'
  <2>1. CASE Begin(w)
    BY <2>1, TypedBegin
  <2>2. CASE Read(w)
    BY <2>2, TypedRead
  <2>3. CASE Write(w)
    BY <2>3, TypedCreate, TypedSet, TypedRemoval DEF Write
  <2>4. CASE Reply(w)
    BY <2>4, <1>b, RestKeepsTypes DEF Reply
  <2>5. CASE Crash(w)
    BY <2>5, RaiseKeepsTypes DEF Crash
  <2> QED BY <1>1, <2>1, <2>2, <2>3, <2>4, <2>5
<1>2. CASE ExpireList
  BY <1>2 DEF ExpireList, table, Typed, TypeOK, Control, StepFits, At, Moves
<1>3. CASE UNCHANGED vars
  BY <1>3 DEF vars, Typed, TypeOK, Control, StepFits, At, Moves
<1> QED BY <1>1, <1>2, <1>3 DEF Next

(* Rows, entries and handler locals keep their types, and only rows that   *)
(* exist have ids, whatever fails and interleaves (WorkflowMember, the     *)
(* handlers of resource_permissions).                                      *)
THEOREM MembersTypeCorrect == Spec => []TypeOK
<1>1. Typed => TypeOK
  BY DEF Typed
<1> QED BY TypedInit, TypedNext, <1>1, PTL DEF Spec

(* For users without a role in the organization the middleware, the        *)
(* permissions handler, my_permission and the lists agree on every table   *)
(* the handlers produce (check_permissions, check_user_permission,         *)
(* resolve_my_permission, list_workflows).                                 *)
THEOREM PermissionsAlwaysAgree == Spec => []PermissionsAgree
<1>1. TypeOK => PermissionsAgree
  <2> SUFFICES ASSUME TypeOK, NEW u \in Users, OrgRolesOf[u] \cap OrgBypassRoles = {}
               PROVE  Agreement(u, RoleOf)
    BY DEF PermissionsAgree
  <2>1. RoleOf \in Members
    BY DEF TypeOK, RoleOf, Members, Row
  <2> HIDE DEF RoleOf
  <2> QED BY <2>1, AgreementWithoutOrganization
<1> QED BY <1>1, MembersTypeCorrect, PTL

-----------------------------------------------------------------------------
(* my_permission in bulk.  The loop of resolve_my_permissions_bulk is a    *)
(* recursive function on the sets of principals; what it computes does not *)
(* depend on the order in which it meets the rows.                         *)
LoopOver(f, S, member) ==
  f = [s \in SUBSET S |->
         IF s = {} THEN NoRole
         ELSE LET p == CHOOSE x \in s : TRUE IN Higher(p, f[s \ {p}], member)]
LevelsOf(s, member) == {member[p] : p \in s} \ {NoRole}

(* r is the highest of the levels that principals s have, if any.          *)
Highest(r, s, member) ==
  /\ r \in LevelsOf(s, member) \cup {NoRole}
  /\ \A p \in s : Hierarchy(member[p]) <= Hierarchy(r)

(* Roles are told apart by their place in the hierarchy.                   *)
LEMMA HierarchyTells ==
  /\ \A r \in Levels : Hierarchy(r) \in {1, 2, 3}
  /\ Hierarchy(NoRole) = 0
  /\ \A r, s \in Levels \cup {NoRole} : Hierarchy(r) = Hierarchy(s) => r = s
<1>1. Hierarchy("READ") = 1 /\ Hierarchy("WRITE") = 2 /\ Hierarchy("ADMIN") = 3
  BY DEF Hierarchy
<1>2. Hierarchy(NoRole) = 0
  BY AccessConstants DEF Hierarchy, Levels
<1> QED BY <1>1, <1>2 DEF Levels

(* Some role is the highest, and no other.                                 *)
LEMMA OneIsHighest ==
  ASSUME NEW s, NEW member, \A p \in s : member[p] \in Levels \cup {NoRole}
  PROVE  /\ \E r : Highest(r, s, member)
         /\ \A q, r : Highest(q, s, member) /\ Highest(r, s, member) => q = r
<1> DEFINE roles == LevelsOf(s, member)
<1>1. roles \in SUBSET Levels
  BY DEF LevelsOf
<1>2. CASE roles = {}
  <2>1. \A p \in s : member[p] = NoRole
    BY <1>2 DEF LevelsOf
  <2>2. Highest(NoRole, s, member)
    BY <2>1, HierarchyTells DEF Highest
  <2>3. \A q : Highest(q, s, member) => q = NoRole
    BY <1>2 DEF Highest
  <2> QED BY <2>2, <2>3
<1>3. CASE roles # {}
  <2> DEFINE top == CHOOSE r \in roles : \A q \in roles : Hierarchy(q) <= Hierarchy(r)
  <2>1. top \in roles /\ \A q \in roles : Hierarchy(q) <= Hierarchy(top)
    BY <1>1, <1>3, HighestLevel
  <2> HIDE DEF top, roles
  <2>2. \A p \in s : member[p] \in roles \/ member[p] = NoRole
    BY DEF roles, LevelsOf
  <2>3. \A p \in s : Hierarchy(member[p]) <= Hierarchy(top)
    BY <1>1, <2>1, <2>2, HierarchyTells
  <2>4. Highest(top, s, member)
    BY <2>1, <2>3 DEF Highest, roles
  <2>5. ASSUME NEW q, NEW r, Highest(q, s, member), Highest(r, s, member)
        PROVE  q = r
    <3>1. q \in roles \cup {NoRole} /\ r \in roles \cup {NoRole}
      BY <2>5 DEF Highest, roles
    <3>2. PICK p \in s : member[p] = top
      BY <2>1 DEF roles, LevelsOf
    <3>3. Hierarchy(top) <= Hierarchy(q) /\ Hierarchy(top) <= Hierarchy(r)
      BY <2>5, <3>2 DEF Highest
    <3>4. q \in roles /\ r \in roles
      BY <3>1, <3>3, <2>1, <1>1, HierarchyTells
    <3>5. /\ Hierarchy(q) \in Int /\ Hierarchy(r) \in Int /\ Hierarchy(top) \in Int
          /\ Hierarchy(q) <= Hierarchy(top) /\ Hierarchy(r) <= Hierarchy(top)
      BY <3>4, <2>1, <1>1, HierarchyTells
    <3>6. Hierarchy(q) = Hierarchy(r)
      BY <3>3, <3>5
    <3> QED BY <3>1, <3>6, <1>1, HierarchyTells
  <2> QED BY <2>4, <2>5
<1> QED BY <1>2, <1>3

(* One step of the loop.                                                   *)
LEMMA HigherIsHighest ==
  ASSUME NEW s, NEW member, \A p \in s : member[p] \in Levels \cup {NoRole},
         NEW x \in s, NEW best, Highest(best, s \ {x}, member)
  PROVE  Highest(Higher(x, best, member), s, member)
<1>1. best \in LevelsOf(s, member) \cup {NoRole}
  BY DEF Highest, LevelsOf
<1>2. member[x] \in LevelsOf(s, member) \cup {NoRole}
  BY DEF LevelsOf
<1>3. LevelsOf(s, member) \subseteq Levels
  BY DEF LevelsOf
<1>4. /\ Hierarchy(best) \in Int
      /\ \A p \in s : Hierarchy(member[p]) \in Int
  BY <1>1, <1>3, HierarchyTells
<1>5. \A p \in s : p = x \/ Hierarchy(member[p]) <= Hierarchy(best)
  BY DEF Highest
<1>6. CASE Hierarchy(member[x]) > Hierarchy(best)
  <2>1. Higher(x, best, member) = member[x]
    BY <1>6 DEF Higher
  <2>2. \A p \in s : Hierarchy(member[p]) <= Hierarchy(member[x])
    BY <1>4, <1>5, <1>6
  <2> QED BY <2>1, <2>2, <1>2 DEF Highest
<1>7. CASE ~(Hierarchy(member[x]) > Hierarchy(best))
  <2>1. Higher(x, best, member) = best
    BY <1>7 DEF Higher
  <2>2. \A p \in s : Hierarchy(member[p]) <= Hierarchy(best)
    BY <1>4, <1>5, <1>7
  <2> QED BY <2>1, <2>2, <1>1 DEF Highest
<1> QED BY <1>6, <1>7

(* A function that satisfies the equation of the loop has the highest role *)
(* at every set: a smallest set where it has not would be empty, or have   *)
(* a smaller one.                                                          *)
LEMMA LoopFindsHighest ==
  ASSUME NEW S, IsFiniteSet(S), NEW member,
         \A p \in S : member[p] \in Levels \cup {NoRole},
         NEW f, LoopOver(f, S, member)
  PROVE  Highest(f[S], S, member)
<1> DEFINE wrong == {s \in SUBSET S : ~Highest(f[s], s, member)}
<1>1. CASE wrong = {}
  BY <1>1
<1>2. CASE wrong # {}
  <2>1. IsWellFoundedOn(StrictSubsetOrdering(S), SUBSET S)
    BY FS_StrictSubsetOrderingWellFounded, FS_FiniteSubsetsOfFinite, Zenon
  <2>2. PICK s \in wrong : \A t \in wrong : <<t, s>> \notin StrictSubsetOrdering(S)
    BY <1>2, <2>1, WFMin, Zenon
  <2>3. s \in SUBSET S /\ ~Highest(f[s], s, member)
    OBVIOUS
  <2>4. f[s] = IF s = {} THEN NoRole
               ELSE LET p == CHOOSE x \in s : TRUE IN Higher(p, f[s \ {p}], member)
    BY <2>3 DEF LoopOver
  <2>5. CASE s = {}
    BY <2>3, <2>4, <2>5 DEF Highest
  <2>6. CASE s # {}
    <3> DEFINE x == CHOOSE p \in s : TRUE
    <3>1. x \in s
      BY <2>6
    <3>2. f[s] = Higher(x, f[s \ {x}], member)
      BY <2>4, <2>6
    <3> HIDE DEF x
    <3>3. <<s \ {x}, s>> \in StrictSubsetOrdering(S)
      BY <2>3, <3>1 DEF StrictSubsetOrdering
    <3>4. s \ {x} \in SUBSET S /\ s \ {x} \notin wrong
      BY <2>2, <2>3, <3>3
    <3>5. Highest(f[s \ {x}], s \ {x}, member)
      BY <3>4
    <3>6. \A p \in s : member[p] \in Levels \cup {NoRole}
      BY <2>3
    <3> QED BY <2>3, <3>1, <3>2, <3>5, <3>6, HigherIsHighest
  <2> QED BY <2>5, <2>6
<1> QED BY <1>1, <1>2

(* There is such a function: the highest roles themselves.                 *)
LEMMA LoopExists ==
  ASSUME NEW S, NEW member, \A p \in S : member[p] \in Levels \cup {NoRole}
  PROVE  \E f : LoopOver(f, S, member)
<1> DEFINE top(s) == CHOOSE r : Highest(r, s, member)
           f == [s \in SUBSET S |-> top(s)]
<1>1. \A s \in SUBSET S : Highest(top(s), s, member)
  BY OneIsHighest
<1>2. ASSUME NEW s \in SUBSET S
      PROVE  f[s] = IF s = {} THEN NoRole
                    ELSE LET p == CHOOSE x \in s : TRUE IN Higher(p, f[s \ {p}], member)
  <2>0. f[s] = top(s)
    OBVIOUS
  <2>1. CASE s = {}
    BY <1>1, <2>0, <2>1 DEF Highest, LevelsOf
  <2>2. CASE s # {}
    <3> DEFINE x == CHOOSE p \in s : TRUE
    <3>1. x \in s
      BY <2>2
    <3>2. s \ {x} \in SUBSET S /\ f[s \ {x}] = top(s \ {x})
      OBVIOUS
    <3> HIDE DEF x, top
    <3>3. Highest(Higher(x, top(s \ {x}), member), s, member)
      BY <1>1, <3>1, <3>2, HigherIsHighest
    <3>4. top(s) = Higher(x, top(s \ {x}), member)
      BY <1>1, <3>3, OneIsHighest
    <3> QED BY <2>0, <2>2, <3>2, <3>4 DEF x
  <2> QED BY <2>1, <2>2
<1> HIDE DEF top
<1>3. LoopOver(f, S, member)
  BY <1>2 DEF LoopOver
<1> QED BY <1>3

(* The loop in bulk finds what resolve_my_permission finds for one         *)
(* resource, on every member table.                                        *)
LEMMA BulkIsSingle ==
  ASSUME NEW u \in Users, NEW member \in Members
  PROVE  BulkPermission(u, member) = ResolveMyPermission(u, member)
<1> DEFINE P == PrincipalIds(u)
<1>1. P \subseteq Principals /\ IsFiniteSet(P)
  BY AccessConstants, FS_AddElement, FS_Singleton, FS_Union DEF PrincipalIds, Principals
<1>2. \A p \in P : member[p] \in Levels \cup {NoRole}
  BY <1>1 DEF Members
<1>3. CASE IsAdmin(u)
  BY <1>3 DEF BulkPermission, ResolveMyPermission
<1>4. CASE ~IsAdmin(u)
  <2> DEFINE loop == CHOOSE f : LoopOver(f, P, member)
  <2>1. BulkPermission(u, member) = loop[P]
    BY <1>4 DEF BulkPermission, FoldSet, MapThenFoldSet, LoopOver
  <2>3. LoopOver(loop, P, member)
    BY <1>2, LoopExists
  <2> HIDE DEF loop, P
  <2>4. Highest(loop[P], P, member)
    BY <1>1, <1>2, <2>3, LoopFindsHighest
  <2>5. RolesHeld(u, member) = LevelsOf(P, member)
    BY DEF RolesHeld, LevelsOf, P
  <2>6. Highest(ResolveMyPermission(u, member), P, member)
    <3>1. RolesHeld(u, member) \in SUBSET Levels
      BY RolesHeldAreLevels
    <3>2. CASE RolesHeld(u, member) = {}
      <4>1. ResolveMyPermission(u, member) = NoRole
        BY <1>4, <3>2 DEF ResolveMyPermission
      <4>2. \A p \in P : member[p] = NoRole
        BY <2>5, <3>2 DEF LevelsOf
      <4> QED BY <4>1, <4>2, HierarchyTells DEF Highest
    <3>3. CASE RolesHeld(u, member) # {}
      <4> DEFINE roles == RolesHeld(u, member)
                 top == CHOOSE r \in roles : \A s \in roles : Hierarchy(s) <= Hierarchy(r)
      <4>1. ResolveMyPermission(u, member) = top
        BY <1>4, <3>3 DEF ResolveMyPermission
      <4>2. top \in roles /\ \A s \in roles : Hierarchy(s) <= Hierarchy(top)
        BY <3>1, <3>3, HighestLevel
      <4> HIDE DEF top, roles
      <4>3. \A p \in P : member[p] \in roles \/ member[p] = NoRole
        BY <2>5 DEF roles, LevelsOf
      <4>4. roles \subseteq Levels
        BY <3>1 DEF roles
      <4>5. \A p \in P : Hierarchy(member[p]) <= Hierarchy(top)
        BY <4>2, <4>3, <4>4, HierarchyTells
      <4> QED BY <4>1, <4>2, <4>5, <2>5 DEF Highest, roles
    <3> QED BY <3>2, <3>3
  <2> QED BY <1>2, <2>1, <2>4, <2>6, OneIsHighest
<1> QED BY <1>3, <1>4

(* my_permission is the same for one resource and in bulk                  *)
(* (resolve_my_permission, resolve_my_permissions_bulk).                   *)
THEOREM BulkAlwaysAgrees == Spec => []BulkAgrees
<1>1. TypeOK => BulkAgrees
  <2> SUFFICES ASSUME TypeOK, NEW u \in Users
               PROVE  BulkPermission(u, RoleOf) = ResolveMyPermission(u, RoleOf)
    BY DEF BulkAgrees
  <2>1. RoleOf \in Members
    BY DEF TypeOK, RoleOf, Members, Row
  <2> HIDE DEF RoleOf
  <2> QED BY <2>1, BulkIsSingle
<1> QED BY <1>1, MembersTypeCorrect, PTL

-----------------------------------------------------------------------------
(* Row ids.                                                                *)

(* What a step that inserts nothing does to the row of q: it stays, is     *)
(* given another role, or goes.                                            *)
RowKept(q) == rows'[q].id \in {rows[q].id, NoId}
(* What such a step does to the id a session remembers: it stays, is       *)
(* forgotten, or is read from the row of its principal.                    *)
IdKept(v) ==
  \/ job'[v].id = NoId
  \/ job'[v].p = job[v].p /\ job'[v].id \in {job[v].id, rows[job[v].p].id}

(* Steps that insert nothing keep ids naming rows.                         *)
LEMMA KeptIdsNameRows ==
  ASSUME IdsNameRows, \A v \in Workers : job[v].p \in Principals,
         \A q \in Principals : RowKept(q), \A v \in Workers : IdKept(v)
  PROVE  IdsNameRows'
<1>1. \A p, q \in Principals : rows'[p].id = rows'[q].id /\ rows'[p].id # NoId => p = q
  BY DEF IdsNameRows, RowKept
<1>2. ASSUME NEW w \in Workers, NEW p \in Principals,
             rows'[p].id = job'[w].id, job'[w].id # NoId
      PROVE  p = job'[w].p
  <2>1. rows[p].id = job'[w].id
    BY <1>2 DEF RowKept
  <2> QED BY <1>2, <2>1 DEF IdsNameRows, IdKept
<1> QED BY <1>1, <1>2 DEF IdsNameRows

(* The INSERT of a row with a new id, which its session may remember.      *)
LEMMA NewIdsNameRows ==
  ASSUME Typed, IdsNameRows, FreshIds # {}, NEW w \in Workers, NEW j, Become(w, j),
         j.p = job[w].p, j.id \in {job[w].id, NewId},
         rows' = [rows EXCEPT ![job[w].p] = [id |-> NewId, role |-> job[w].role]]
  PROVE  IdsNameRows'
<1>0. /\ rows \in [Principals -> Row] /\ job \in [Workers -> Job]
      /\ job[w].p \in Principals
  BY DEF Typed, TypeOK, Job
<1>1. /\ NewId # NoId
      /\ \A q \in Principals : rows[q].id # NewId
      /\ \A v \in Workers : job[v].id # NewId
  BY NewIdIsAnId DEF FreshIds
<1>2. \A q \in Principals : rows'[q].id = IF q = job[w].p THEN NewId ELSE rows[q].id
  BY <1>0
<1>3. \A v \in Workers : v # w => job'[v] = job[v]
  BY <1>0 DEF Become
<1>4. job'[w] = j
  BY <1>0 DEF Become
<1>5. \A p, q \in Principals : rows'[p].id = rows'[q].id /\ rows'[p].id # NoId => p = q
  BY <1>1, <1>2 DEF IdsNameRows
<1>6. ASSUME NEW v \in Workers, NEW p \in Principals,
             rows'[p].id = job'[v].id, job'[v].id # NoId
      PROVE  p = job'[v].p
  <2>1. CASE v = w
    BY <1>1, <1>2, <1>4, <1>6, <2>1 DEF IdsNameRows
  <2>2. CASE v # w
    BY <1>1, <1>2, <1>3, <1>6, <2>2 DEF IdsNameRows
  <2> QED BY <2>1, <2>2
<1> QED BY <1>5, <1>6 DEF IdsNameRows

(* A worker whose step, and at most whose failure, changes.                *)
LEMMA StepKeepsId ==
  ASSUME Typed, NEW w \in Workers, NEW s, Goto(w, s) \/ Raise(w)
  PROVE  \A v \in Workers : IdKept(v)
<1>0. job[w] \in Job /\ job \in [Workers -> Job]
  BY DEF Typed, TypeOK
<1>1. job'[w].p = job[w].p /\ job'[w].id = job[w].id
  BY <1>0 DEF Goto, Raise, Become, Job
<1>2. \A v \in Workers : v # w => job'[v] = job[v]
  BY <1>0 DEF Goto, Raise, Become
<1> QED BY <1>1, <1>2 DEF IdKept

(* A worker that turns to a request, or rests, remembers no id.            *)
LEMMA RestKeepsId ==
  ASSUME Typed, NEW w \in Workers, NEW j, Become(w, j), j.id = NoId
  PROVE  \A v \in Workers : IdKept(v)
<1>0. job \in [Workers -> Job]
  BY DEF Typed, TypeOK
<1>1. job'[w].id = NoId
  BY <1>0 DEF Become
<1>2. \A v \in Workers : v # w => job'[v] = job[v]
  BY <1>0 DEF Become
<1> QED BY <1>1, <1>2 DEF IdKept

(* The steps of the write handlers keep ids naming rows.                   *)
LEMMA WriteNamesRows ==
  ASSUME Typed, IdsNameRows, NEW w \in Workers, Write(w)
  PROVE  IdsNameRows'
<1>0. /\ job[w] \in Job /\ job \in [Workers -> Job] /\ rows \in [Principals -> Row]
      /\ job[w].p \in Principals /\ \A v \in Workers : job[v].p \in Principals
  BY DEF Typed, TypeOK, Job
<1>a. UNCHANGED rows => \A q \in Principals : RowKept(q)
  BY DEF RowKept
<1>b. ASSUME NEW s, Goto(w, s) \/ Raise(w), \A q \in Principals : RowKept(q)
      PROVE  IdsNameRows'
  BY <1>0, <1>b, StepKeepsId, KeptIdsNameRows
<1>1. CASE Create(w)
  <2> DEFINE j == [job[w] EXCEPT !.pc = "ok"]
  <2>1. j.p = job[w].p /\ j.id = job[w].id
    BY <1>0 DEF Job
  <2>2. Become(w, j)
    BY <1>1 DEF Create, Goto
  <2> HIDE DEF j
  <2> QED BY <1>1, <2>1, <2>2, NewIdsNameRows DEF Create
<1>2. CASE InsertMember(w)
  <2> DEFINE j == [job[w] EXCEPT !.pc = "refresh", !.id = NewId, !.fresh = FALSE]
  <2>1. CASE Raise(w) /\ UNCHANGED table
    BY <1>a, <1>b, <2>1 DEF table
  <2>2. CASE ~(Raise(w) /\ UNCHANGED table)
    <3>1. j.p = job[w].p /\ j.id = NewId
      BY <1>0 DEF Job
    <3>2. /\ Become(w, j) /\ FreshIds # {}
          /\ rows' = [rows EXCEPT ![job[w].p] = [id |-> NewId, role |-> job[w].role]]
      BY <1>2, <2>2 DEF InsertMember
    <3> HIDE DEF j
    <3> QED BY <3>1, <3>2, NewIdsNameRows
  <2> QED BY <2>1, <2>2
<1>3. CASE \/ VerifyResource(w) \/ FindPrincipal(w) \/ Refresh(w) \/ Invalidate(w)
           \/ LoadResource(w) \/ ForgetLists(w)
  <2>1. UNCHANGED rows
    BY <1>3 DEF VerifyResource, Verify, FindPrincipal, Refresh, Invalidate,
                LoadResource, ForgetLists, table
  <2>2. \E s : Goto(w, s) \/ Raise(w)
    BY <1>3 DEF VerifyResource, Verify, FindPrincipal, Refresh, Invalidate,
                LoadResource, ForgetLists
  <2> QED BY <1>a, <1>b, <2>1, <2>2
<1>4. CASE NewPrincipal(w)
  <2> DEFINE j == [job[w] EXCEPT !.pc = "member", !.fresh = TRUE]
  <2>1. UNCHANGED rows
    BY <1>4 DEF NewPrincipal, table
  <2>2. CASE Raise(w)
    BY <1>a, <1>b, <2>1, <2>2
  <2>3. CASE Become(w, j)
    <3>1. \A v \in Workers : IdKept(v)
      BY <1>0, <2>3 DEF Become, IdKept, Job
    <3> QED BY <1>0, <1>a, <2>1, <3>1, KeptIdsNameRows
  <2> QED BY <1>4, <2>2, <2>3 DEF NewPrincipal
<1>5. CASE FindMember(w)
  <2>1. job'[w].p = job[w].p /\ job'[w].id = rows[job[w].p].id
    BY <1>0, <1>5 DEF FindMember, Become, Job
  <2>2. \A v \in Workers : v # w => job'[v] = job[v]
    BY <1>0, <1>5 DEF FindMember, Become
  <2>3. \A v \in Workers : IdKept(v)
    BY <2>1, <2>2 DEF IdKept
  <2>4. UNCHANGED rows
    BY <1>5 DEF FindMember, table
  <2> QED BY <1>0, <1>a, <2>3, <2>4, KeptIdsNameRows
<1>6. CASE UpdateMember(w)
  <2>1. \A q \in Principals : RowKept(q)
    BY <1>0, <1>6 DEF UpdateMember, RowKept, Row
  <2> QED BY <1>6, <1>b, <2>1 DEF UpdateMember
<1>7. CASE FindRole(w)
  <2>1. UNCHANGED rows
    BY <1>7 DEF FindRole, table
  <2>2. CASE Raise(w)
    BY <1>a, <1>b, <2>1, <2>2
  <2>3. CASE Become(w, [job[w] EXCEPT !.pc = "remove", !.id = rows[job[w].p].id])
    <3>1. job'[w].p = job[w].p /\ job'[w].id = rows[job[w].p].id
      BY <1>0, <2>3 DEF Become, Job
    <3>2. \A v \in Workers : v # w => job'[v] = job[v]
      BY <1>0, <2>3 DEF Become
    <3>3. \A v \in Workers : IdKept(v)
      BY <3>1, <3>2 DEF IdKept
    <3> QED BY <1>0, <1>a, <2>1, <3>3, KeptIdsNameRows
  <2> QED BY <1>7, <2>2, <2>3 DEF FindRole
<1>8. CASE RemoveMember(w)
  <2>1. job'[w].p = job[w].p /\ job'[w].id = job[w].id
    BY <1>0, <1>8 DEF RemoveMember, Become, Job
  <2>2. \A v \in Workers : v # w => job'[v] = job[v]
    BY <1>0, <1>8 DEF RemoveMember, Become
  <2>3. \A v \in Workers : IdKept(v)
    BY <2>1, <2>2 DEF IdKept
  <2>4. \A q \in Principals : RowKept(q)
    BY <1>0, <1>8 DEF RemoveMember, RowKept, NoRow
  <2> QED BY <1>0, <2>3, <2>4, KeptIdsNameRows
<1>9. CASE DropResource(w)
  <2>1. \A q \in Principals : RowKept(q)
    BY <1>9 DEF DropResource, RowKept, NoRow
  <2> QED BY <1>9, <1>b, <2>1 DEF DropResource
<1> QED BY <1>1, <1>2, <1>3, <1>4, <1>5, <1>6, <1>7, <1>8, <1>9 DEF Write

(* Whatever fails and interleaves, no two rows share an id, and a session  *)
(* that updates or deletes a row by the id it remembers takes no other     *)
(* principal's row for it (set_permission, delete_permission, the primary  *)
(* keys of WorkflowMember).                                                *)
THEOREM RowIdsNameRows == Spec => []IdsNameRows
<1>1. Init => Typed /\ IdsNameRows
  <2> SUFFICES ASSUME Init PROVE Typed /\ IdsNameRows
    OBVIOUS
  <2>1. (\A p \in Principals : rows[p].id = NoId) /\ \A w \in Workers : job[w].id = NoId
    BY DEF Init, NoRow, Idle
  <2> QED BY <2>1, TypedInit DEF IdsNameRows
<1>2. Typed /\ IdsNameRows /\ [Next]_vars => IdsNameRows'
  <2> SUFFICES ASSUME Typed, IdsNameRows, [Next]_vars PROVE IdsNameRows'
    OBVIOUS
  <2>0. \A v \in Workers : job[v].p \in Principals
    BY DEF Typed, TypeOK, Job
  <2>a. ASSUME UNCHANGED rows, \A v \in Workers : IdKept(v)
        PROVE  IdsNameRows'
    BY <2>0, <2>a, KeptIdsNameRows DEF RowKept
  <2>1. ASSUME NEW w \in Workers, Begin(w)
        PROVE  IdsNameRows'
    <3>1. PICK op, p, r, s : Receive(w, op, p, r, s)
      BY <2>1 DEF Begin
    <3> DEFINE j == [Idle EXCEPT !.pc = s, !.op = op, !.p = p, !.role = r]
    <3>2. j.id = NoId /\ Become(w, j) /\ UNCHANGED rows
      BY <3>1 DEF Receive, Idle, table
    <3> HIDE DEF j
    <3> QED BY <2>a, <3>2, RestKeepsId
  <2>2. ASSUME NEW w \in Workers, Read(w) \/ Reply(w) \/ Crash(w)
        PROVE  IdsNameRows'
    <3>1. UNCHANGED rows
      BY <2>2 DEF Read, ListHit, ListMiss, Verify, ReadList, FillList, Reply, Crash, table
    <3>2. CASE ReadList(w)
      <4>1. job[w] \in Job /\ job \in [Workers -> Job]
        BY DEF Typed, TypeOK
      <4>2. job'[w].p = job[w].p /\ job'[w].id = job[w].id
        BY <3>2, <4>1 DEF ReadList, Become, Job
      <4>3. \A v \in Workers : v # w => job'[v] = job[v]
        BY <3>2, <4>1 DEF ReadList, Become
      <4> QED BY <2>a, <3>1, <4>2, <4>3 DEF IdKept
    <3>3. CASE Become(w, Idle)
      <4>1. Idle.id = NoId
        BY DEF Idle
      <4> QED BY <2>a, <3>1, <3>3, <4>1, RestKeepsId
    <3>4. CASE Goto(w, "readList") \/ Raise(w)
      BY <2>a, <3>1, <3>4, StepKeepsId
    <3> QED BY <2>2, <3>2, <3>3, <3>4
            DEF Read, ListHit, ListMiss, Verify, FillList, Reply, Crash
  <2>3. CASE ExpireList
    BY <2>3, <2>a DEF ExpireList, table, IdKept
  <2>4. CASE UNCHANGED vars
    BY <2>4, <2>a DEF vars, IdKept
  <2> QED BY <2>1, <2>2, <2>3, <2>4, WriteNamesRows DEF Next
<1> QED BY <1>1, <1>2, TypedNext, PTL DEF Spec

-----------------------------------------------------------------------------
(* The cached list while a list, once missed, is read and stored before    *)
(* another worker moves, and no worker dies.                               *)

(* Worker w is certain to delete the cached list: nobody has removed the   *)
(* row it is about to refresh.                                             *)
Bound(w) ==
  \/ At(w, "invalidate")
  \/ At(w, "refresh") /\ rows[job[w].p].id = job[w].id

(* A list that is not the table has somebody bound to delete it, and what  *)
(* is about to be stored is the table.                                     *)
ListSettled ==
  /\ \A w \in Workers : At(w, "fillList") => job[w].entry = RoleOf
  /\ state = "live" => listCache \in {NoEntry, RoleOf} \/ \E w \in Workers : Bound(w)

(* A step of a worker that leaves the table and the cached list alone, and *)
(* does not end an obligation, keeps the list settled.                     *)
LEMMA MoveKeepsSettled ==
  ASSUME Typed, ListSettled, NEW w \in Workers, NEW j, Become(w, j),
         UNCHANGED <<table, listCache>>,
         j.pc = "fillList" => j.entry = RoleOf,
         Bound(w) => j.pc = "invalidate"
  PROVE  ListSettled'
<1>1. job' = [job EXCEPT ![w] = j] /\ job \in [Workers -> Job]
  BY DEF Become, Typed, TypeOK
<1>2. RoleOf' = RoleOf /\ rows' = rows /\ state' = state /\ listCache' = listCache
  BY DEF RoleOf, table
<1>3. \A v \in Workers : job'[v].pc = "fillList" => job'[v].entry = RoleOf
  BY <1>1 DEF ListSettled, At, Moves
<1>4. ASSUME NEW v \in Workers, Bound(v) PROVE Bound(v)'
  <2>1. CASE v = w
    BY <1>1, <1>4, <2>1 DEF Bound, At, Moves
  <2>2. CASE v # w
    BY <1>1, <1>2, <1>4, <2>2 DEF Bound, At, Moves
  <2> QED BY <2>1, <2>2
<1> QED BY <1>1, <1>2, <1>3, <1>4 DEF ListSettled, At, Moves

(* A step that changes the table keeps the list settled if its worker is   *)
(* bound to delete the list afterwards, or the resource has gone.          *)
LEMMA ChangeKeepsSettled ==
  ASSUME Typed, NEW w \in Workers, NEW j, Become(w, j), Indivisible, MayMove(w),
         j.pc # job[w].pc, j.pc # "fillList",
         Bound(w)' \/ state' # "live"
  PROVE  ListSettled'
<1>1. job' = [job EXCEPT ![w] = j] /\ job \in [Workers -> Job]
  BY DEF Become, Typed, TypeOK
<1>2. ASSUME NEW v \in Workers, At(v, "fillList")' PROVE FALSE
  <2>1. v # w /\ job[v].pc = "fillList"
    BY <1>1, <1>2 DEF At, Moves
  <2> QED BY <2>1 DEF MayMove, Reading, At
<1> QED BY <1>2 DEF ListSettled

(* At the first step of the service and whenever there is no resource.     *)
LEMMA SettledInit == Init => ListSettled
  BY IdleIsAJob DEF Init, ListSettled, At, Moves

(* The steps of set_permission and delete_permission.                      *)
LEMMA SettledChange ==
  ASSUME Typed, ListSettled, NEW w \in Workers, Indivisible, MayMove(w),
         InsertMember(w) \/ UpdateMember(w) \/ RemoveMember(w)
  PROVE  ListSettled'
<1>0. job[w] \in Job /\ job[w].p \in Principals /\ rows \in [Principals -> Row]
      /\ job \in [Workers -> Job]
  BY DEF Typed, TypeOK, Job
<1>r. ASSUME Raise(w), UNCHANGED <<table, listCache>>, job[w].pc \in {"insert", "update"}
      PROVE  ListSettled'
  <2> DEFINE j == [job[w] EXCEPT !.pc = "failed", !.fresh = FALSE]
  <2>1. j.pc = "failed" /\ ~Bound(w)
    BY <1>0, <1>r DEF Job, Bound, At, Moves
  <2>2. Become(w, j)
    BY <1>r DEF Raise
  <2> HIDE DEF j
  <2> QED BY <1>r, <2>1, <2>2, MoveKeepsSettled
<1>1. CASE InsertMember(w)
  <2>1. CASE Raise(w) /\ UNCHANGED table
    BY <1>1, <1>r, <2>1 DEF InsertMember, At, Moves
  <2>2. CASE ~(Raise(w) /\ UNCHANGED table)
    <3> DEFINE j == [job[w] EXCEPT !.pc = "refresh", !.id = NewId, !.fresh = FALSE]
    <3>1. /\ rows' = [rows EXCEPT ![job[w].p] = [id |-> NewId, role |-> job[w].role]]
          /\ Become(w, j) /\ job[w].pc = "insert"
      BY <1>1, <2>2 DEF InsertMember, At, Moves
    <3>2. j.pc = "refresh" /\ j.p = job[w].p /\ j.id = NewId
      BY <1>0 DEF Job
    <3> HIDE DEF j
    <3>3. job'[w] = j /\ rows'[j.p].id = NewId
      BY <1>0, <3>1, <3>2 DEF Become
    <3>4. Bound(w)'
      BY <3>2, <3>3 DEF Bound, At, Moves
    <3> QED BY <3>1, <3>2, <3>4, ChangeKeepsSettled
  <2> QED BY <2>1, <2>2
<1>2. CASE UpdateMember(w)
  <2>1. CASE rows[job[w].p].id # job[w].id
    BY <1>2, <1>r, <2>1 DEF UpdateMember, At, Moves, table
  <2>2. CASE rows[job[w].p].id = job[w].id
    <3> DEFINE j == [job[w] EXCEPT !.pc = "refresh"]
    <3>1. /\ rows' = [rows EXCEPT ![job[w].p].role = job[w].role]
          /\ Become(w, j) /\ job[w].pc = "update"
      BY <1>2, <2>2 DEF UpdateMember, At, Moves, Goto
    <3>2. j.pc = "refresh" /\ j.p = job[w].p /\ j.id = job[w].id
      BY <1>0 DEF Job
    <3> HIDE DEF j
    <3>3. job'[w] = j /\ rows'[j.p].id = rows[j.p].id
      BY <1>0, <3>1, <3>2 DEF Become, Row
    <3>4. Bound(w)'
      BY <2>2, <3>2, <3>3 DEF Bound, At, Moves
    <3> QED BY <3>1, <3>2, <3>4, ChangeKeepsSettled
  <2> QED BY <2>1, <2>2
<1>3. CASE RemoveMember(w)
  <2> DEFINE found == rows[job[w].p].id = job[w].id
             j == [job[w] EXCEPT !.pc = "invalidate",
                     !.removed = IF found THEN rows[job[w].p].role ELSE NoRole]
  <2>1. Become(w, j) /\ job[w].pc = "remove"
    BY <1>3 DEF RemoveMember, At, Moves
  <2>2. j.pc = "invalidate"
    BY <1>0 DEF Job
  <2> HIDE DEF j
  <2>3. Bound(w)'
    BY <1>0, <2>1, <2>2 DEF Bound, At, Moves, Become
  <2> QED BY <2>1, <2>2, <2>3, ChangeKeepsSettled
<1> QED BY <1>1, <1>2, <1>3

(* Steps that leave the table and the list alone.                          *)
LEMMA SettledMove ==
  ASSUME Typed, ListSettled, NEW w \in Workers,
         \/ Begin(w) \/ ListHit(w) \/ ListMiss(w) \/ ReadList(w) \/ Reply(w)
         \/ VerifyResource(w) \/ FindPrincipal(w) \/ NewPrincipal(w) \/ FindMember(w)
         \/ Refresh(w) \/ FindRole(w) \/ LoadResource(w) \/ ForgetLists(w)
  PROVE  ListSettled'
<1>0. job[w] \in Job
  BY DEF Typed, TypeOK
<1>1. ASSUME NEW s, s # "fillList", Goto(w, s), UNCHANGED <<table, listCache>>,
             Bound(w) => s = "invalidate"
      PROVE  ListSettled'
  <2> DEFINE j == [job[w] EXCEPT !.pc = s]
  <2>1. j.pc = s /\ Become(w, j)
    BY <1>0, <1>1 DEF Job, Goto
  <2> HIDE DEF j
  <2> QED BY <1>1, <2>1, MoveKeepsSettled
<1>2. ASSUME Raise(w), UNCHANGED <<table, listCache>>, ~Bound(w)
      PROVE  ListSettled'
  <2> DEFINE j == [job[w] EXCEPT !.pc = "failed", !.fresh = FALSE]
  <2>1. j.pc = "failed" /\ Become(w, j)
    BY <1>0, <1>2 DEF Job, Raise
  <2> HIDE DEF j
  <2> QED BY <1>2, <2>1, MoveKeepsSettled
<1>3. ASSUME job[w].pc \notin {"refresh", "invalidate"} PROVE ~Bound(w)
  BY <1>3 DEF Bound, At, Moves
<1>4. CASE Begin(w)
  <2>1. PICK op, p, r, s : Receive(w, op, p, r, s) /\ s \in {"create", "verify", "load", "list"}
    BY <1>4 DEF Begin
  <2> DEFINE j == [Idle EXCEPT !.pc = s, !.op = op, !.p = p, !.role = r]
  <2>2. j.pc = s /\ Become(w, j) /\ UNCHANGED <<table, listCache>> /\ ~Bound(w)
    BY <2>1, <1>3 DEF Receive, Idle, At, Moves
  <2> HIDE DEF j
  <2> QED BY <2>1, <2>2, MoveKeepsSettled
<1>5. CASE ListHit(w) \/ Reply(w)
  <2>1. Become(w, Idle) /\ UNCHANGED <<table, listCache>> /\ ~Bound(w)
    BY <1>5, <1>3 DEF ListHit, Reply, At, Moves
  <2> QED BY <2>1, IdleIsAJob, MoveKeepsSettled
<1>6. CASE ListMiss(w)
  BY <1>1, <1>2, <1>3, <1>6 DEF ListMiss, Verify, At, Moves
<1>7. CASE ReadList(w)
  <2> DEFINE j == [job[w] EXCEPT !.pc = "fillList", !.entry = RoleOf]
  <2>1. j.pc = "fillList" /\ j.entry = RoleOf /\ ~Bound(w)
    BY <1>0, <1>3, <1>7 DEF Job, ReadList, At, Moves
  <2>2. Become(w, j) /\ UNCHANGED <<table, listCache>>
    BY <1>7 DEF ReadList
  <2> HIDE DEF j
  <2> QED BY <2>1, <2>2, MoveKeepsSettled
<1>8. CASE VerifyResource(w)
  BY <1>1, <1>2, <1>3, <1>8 DEF VerifyResource, Verify, At, Moves
<1>9. CASE FindPrincipal(w)
  BY <1>1, <1>2, <1>3, <1>9 DEF FindPrincipal, At, Moves
<1>10. CASE NewPrincipal(w)
  <2> DEFINE j == [job[w] EXCEPT !.pc = "member", !.fresh = TRUE]
  <2>1. j.pc = "member" /\ ~Bound(w) /\ UNCHANGED <<table, listCache>>
    BY <1>0, <1>3, <1>10 DEF Job, NewPrincipal, At, Moves
  <2>2. Raise(w) \/ Become(w, j)
    BY <1>10 DEF NewPrincipal
  <2> HIDE DEF j
  <2> QED BY <1>2, <2>1, <2>2, MoveKeepsSettled
<1>11. CASE FindMember(w)
  <2> DEFINE row == rows[job[w].p]
             s == IF row = NoRow THEN "insert"
                  ELSE IF row.role # job[w].role THEN "update" ELSE "invalidate"
             j == [job[w] EXCEPT !.id = row.id, !.pc = s]
  <2>1. j.pc = s /\ ~Bound(w) /\ UNCHANGED <<table, listCache>>
    BY <1>0, <1>3, <1>11 DEF Job, FindMember, At, Moves
  <2>2. Become(w, j) /\ s # "fillList"
    BY <1>11 DEF FindMember
  <2> HIDE DEF j, s, row
  <2> QED BY <2>1, <2>2, MoveKeepsSettled
<1>12. CASE Refresh(w)
  <2>1. CASE rows[job[w].p].id = job[w].id
    BY <1>1, <1>12, <2>1 DEF Refresh
  <2>2. CASE rows[job[w].p].id # job[w].id
    <3>1. ~Bound(w)
      BY <1>12, <2>2 DEF Refresh, Bound, At, Moves
    <3> QED BY <1>2, <1>12, <2>2, <3>1 DEF Refresh
  <2> QED BY <2>1, <2>2
<1>13. CASE FindRole(w)
  <2> DEFINE j == [job[w] EXCEPT !.pc = "remove", !.id = rows[job[w].p].id]
  <2>1. j.pc = "remove" /\ ~Bound(w) /\ UNCHANGED <<table, listCache>>
    BY <1>0, <1>3, <1>13 DEF Job, FindRole, At, Moves
  <2>2. Raise(w) \/ Become(w, j)
    BY <1>13 DEF FindRole
  <2> HIDE DEF j
  <2> QED BY <1>2, <2>1, <2>2, MoveKeepsSettled
<1>14. CASE LoadResource(w)
  BY <1>1, <1>2, <1>3, <1>14 DEF LoadResource, Verify, At, Moves
<1>15. CASE ForgetLists(w)
  BY <1>1, <1>3, <1>15 DEF ForgetLists, At, Moves
<1> QED BY <1>4, <1>5, <1>6, <1>7, <1>8, <1>9, <1>10, <1>11, <1>12, <1>13, <1>14, <1>15

(* Steps that replace the list or the resource's row.                      *)
LEMMA SettledReset ==
  ASSUME Typed, ListSettled, NEW w \in Workers, Indivisible, MayMove(w),
         Create(w) \/ DropResource(w) \/ Invalidate(w) \/ FillList(w)
  PROVE  ListSettled'
<1>0. job[w] \in Job /\ job \in [Workers -> Job] /\ StepFits(job[w], state)
  BY DEF Typed, TypeOK, Control
<1>1. CASE Create(w)
  <2>1. state = "none" /\ listCache' = NoEntry
    BY <1>0, <1>1 DEF Create, StepFits, At, Moves, Typed, Control
  <2>2. ASSUME NEW v \in Workers PROVE job'[v].pc # "fillList"
    <3>1. job[v].pc # "fillList"
      BY <2>1 DEF Typed, Control, StepFits
    <3>2. [job[w] EXCEPT !.pc = "ok"].pc = "ok"
      BY <1>0 DEF Job
    <3> QED BY <1>0, <1>1, <3>1, <3>2 DEF Create, Goto, Become
  <2> QED BY <2>1, <2>2 DEF ListSettled, At, Moves
<1>2. CASE DropResource(w)
  <2> DEFINE j == [job[w] EXCEPT !.pc = "forget"]
  <2>1. j.pc = "forget" /\ Become(w, j) /\ job[w].pc = "drop" /\ state' # "live"
    BY <1>0, <1>2 DEF Job, DropResource, Goto, At, Moves
  <2> HIDE DEF j
  <2> QED BY <2>1, ChangeKeepsSettled
<1>3. CASE Invalidate(w)
  <2>1. listCache' = NoEntry /\ rows' = rows /\ RoleOf' = RoleOf
    BY <1>3 DEF Invalidate, table, RoleOf
  <2>2. [job[w] EXCEPT !.pc = "ok"].pc = "ok"
    BY <1>0 DEF Job
  <2>3. \A v \in Workers : job'[v].pc = "fillList" => job'[v].entry = RoleOf
    BY <1>0, <1>3, <2>2 DEF Invalidate, Goto, Become, ListSettled, At, Moves
  <2> QED BY <2>1, <2>3 DEF ListSettled, At, Moves
<1>4. CASE FillList(w)
  <2>1. listCache' = RoleOf /\ RoleOf' = RoleOf
    BY <1>4 DEF FillList, table, RoleOf, ListSettled, Moves
  <2>2. \A v \in Workers : job'[v].pc = "fillList" => job'[v].entry = RoleOf
    BY <1>0, <1>4, IdleIsAJob DEF FillList, Become, ListSettled, At, Moves
  <2> QED BY <2>1, <2>2 DEF ListSettled, At, Moves
<1> QED BY <1>1, <1>2, <1>3, <1>4

(* With lists read and stored undisturbed and no worker dying, the cached  *)
(* list is the table once every change has been followed by its            *)
(* invalidation, for any number of workers (set_permission,                *)
(* delete_permission, list_permissions).                                   *)
THEOREM CachedListIsTheTable ==
  ASSUME Faults = FALSE, Indivisible = TRUE
  PROVE  Spec => []ListCoherent
<1>1. Init => Typed /\ ListSettled
  BY TypedInit, SettledInit
<1>2. Typed /\ ListSettled /\ [Next]_vars => (Typed /\ ListSettled)'
  <2> SUFFICES ASSUME Typed, ListSettled, [Next]_vars
               PROVE  Typed' /\ ListSettled'
    OBVIOUS
  <2>1. Typed'
    BY TypedNext
  <2>2. ASSUME NEW w \in Workers,
               Begin(w) \/ Read(w) \/ Write(w) \/ Reply(w) \/ Crash(w)
        PROVE  ListSettled'
    <3>1. ASSUME \/ InsertMember(w) \/ UpdateMember(w) \/ RemoveMember(w)
                 \/ Create(w) \/ DropResource(w) \/ Invalidate(w) \/ FillList(w)
          PROVE  ListSettled'
      <4>1. MayMove(w)
        BY <3>1 DEF InsertMember, UpdateMember, RemoveMember, Create, DropResource,
                    Invalidate, FillList, Moves
      <4> QED BY <3>1, <4>1, SettledChange, SettledReset
    <3> QED BY <2>2, <3>1, SettledMove DEF Read, Write, Crash
  <2>3. ASSUME UNCHANGED <<table, job>>, listCache' \in {NoEntry, listCache}
        PROVE  ListSettled'
    <3>1. RoleOf' = RoleOf /\ job' = job /\ state' = state
      BY <2>3 DEF table, RoleOf
    <3>2. \A w \in Workers : Bound(w)' <=> Bound(w)
      BY <2>3 DEF table, Bound, At, Moves
    <3> QED BY <2>3, <3>1, <3>2 DEF ListSettled, At, Moves
  <2>4. CASE ExpireList
    BY <2>1, <2>3, <2>4 DEF ExpireList
  <2>5. CASE UNCHANGED vars
    BY <2>1, <2>3, <2>5 DEF vars, table
  <2> QED BY <2>1, <2>2, <2>4, <2>5 DEF Next
<1>3. ListSettled => ListCoherent
  BY DEF ListSettled, ListCoherent, Quiet, Invalidating, Bound, At, Moves
<1> QED BY <1>1, <1>2, <1>3, PTL DEF Spec

-----------------------------------------------------------------------------

(* The abstract request of a job.                                          *)
PhaseAt(pc) ==
  CASE pc = "failed" -> "failed"
    [] pc \in {"ok", "refresh", "invalidate", "forget"} -> "effective"
    [] OTHER -> "called"
Asks(j) ==
  IF j.pc = "idle" \/ j.op = "list" THEN [op |-> "none"]
  ELSE [op |-> j.op, p |-> j.p, role |-> j.role, phase |-> PhaseAt(j.pc)]
Requests == [w \in Workers |-> Asks(job[w])]

(* The mapping reads the requests off the jobs.                            *)
LEMMA RequestsMapped == [w \in Workers |-> RequestOf(w)] = Requests
<1>1. ASSUME NEW w \in Workers PROVE RequestOf(w) = Asks(job[w])
  <2>1. CASE At(w, "failed")
    BY <2>1 DEF RequestOf, Asks, PhaseAt, At, Invalidating
  <2>2. CASE At(w, "ok") \/ Invalidating(w)
    BY <2>2 DEF RequestOf, Asks, PhaseAt, At, Invalidating
  <2>3. CASE ~At(w, "failed") /\ ~At(w, "ok") /\ ~Invalidating(w)
    BY <2>3 DEF RequestOf, Asks, PhaseAt, At, Invalidating
  <2> QED BY <2>1, <2>2, <2>3
<1> QED BY <1>1 DEF Requests

(* Moving one worker changes its own request only.                         *)
LEMMA MoveAsks ==
  ASSUME Typed, NEW w \in Workers, NEW j, Become(w, j)
  PROVE  Requests' = [Requests EXCEPT ![w] = Asks(j)]
BY DEF Become, Requests, Typed, TypeOK

(* The phase of a request moves with the step of its handler.              *)
LEMMA PhaseMoves ==
  ASSUME Typed, NEW w \in Workers, NEW j, Become(w, j), job[w].pc # "idle",
         j.pc # "idle", j.op # "list",
         j.op = job[w].op, j.p = job[w].p, j.role = job[w].role
  PROVE  /\ Requests' = [Requests EXCEPT ![w].phase = PhaseAt(j.pc)]
         /\ Requests[w].op = job[w].op /\ Requests[w].p = job[w].p
         /\ Requests[w].role = job[w].role /\ Requests[w].phase = PhaseAt(job[w].pc)
<1>1. Requests[w] = [op |-> job[w].op, p |-> job[w].p, role |-> job[w].role,
                     phase |-> PhaseAt(job[w].pc)]
  BY DEF Requests, Asks
<1>2. Asks(j) = [Requests[w] EXCEPT !.phase = PhaseAt(j.pc)]
  BY <1>1 DEF Asks
<1> QED BY <1>1, <1>2, MoveAsks

(* What the steps of MemberTable require, in terms of the mapped state.    *)
Same == (state' = "live") = (state = "live") /\ RoleOf' = RoleOf
NoRequest == [op |-> "none"]
Called(w, op) == Requests[w].op = op /\ Requests[w].phase = "called"
Moved(w, phase) == Requests' = [Requests EXCEPT ![w].phase = phase]

(* The mapping holds after the step as well.                               *)
LEMMA RequestsMappedNext == [w \in Workers |-> RequestOf(w)]' = Requests'
<1>1. ([w \in Workers |-> RequestOf(w)] = Requests)'
  BY RequestsMapped, PTL
<1> QED BY <1>1

(* Each is a step of MemberTable.                                          *)
LEMMA MappedCall ==
  ASSUME NEW w \in Workers, NEW op \in {"create", "set", "delete", "drop"},
         NEW p \in Principals, NEW r \in Levels,
         Requests[w] = NoRequest, Same,
         Requests' = [Requests EXCEPT ![w] =
                        [op |-> op, p |-> p, role |-> r, phase |-> "called"]]
  PROVE  Table!Call(w)
BY RequestsMapped, RequestsMappedNext DEF Table!Call, Table!None, NoRequest, Same

(* The creation gives its creator the first row.                           *)
LEMMA MappedCreate ==
  ASSUME NEW w \in Workers, Called(w, "create"), Moved(w, "effective"), state' = "live",
         RoleOf' = [[p \in Principals |-> NoRole] EXCEPT ![Requests[w].p] = Requests[w].role]
  PROVE  Table!Create(w)
BY RequestsMapped, RequestsMappedNext
   DEF Table!Create, Table!In, Table!Phase, Table!Nobody, Called, Moved

(* A grant sets one role of a live resource.                               *)
LEMMA MappedSet ==
  ASSUME NEW w \in Workers, Called(w, "set"), Moved(w, "effective"),
         state = "live", state' = "live",
         RoleOf' = [RoleOf EXCEPT ![Requests[w].p] = Requests[w].role]
  PROVE  Table!Set(w)
BY RequestsMapped, RequestsMappedNext DEF Table!Set, Table!In, Table!Phase, Called, Moved

(* The deletion of the resource takes all rows with it.                    *)
LEMMA MappedDrop ==
  ASSUME NEW w \in Workers, Called(w, "drop"), Moved(w, "effective"), state' # "live",
         RoleOf' = [p \in Principals |-> NoRole]
  PROVE  Table!Drop(w)
BY RequestsMapped, RequestsMappedNext
   DEF Table!Drop, Table!In, Table!Phase, Table!Nobody, Called, Moved

(* A request fails at any time and changes nothing then.                   *)
LEMMA MappedFail ==
  ASSUME NEW w \in Workers, Requests[w] # NoRequest, Moved(w, "failed"), Same
  PROVE  Table!Fail(w)
BY RequestsMapped, RequestsMappedNext
   DEF Table!Fail, Table!Phase, Table!None, NoRequest, Moved, Same

(* A request that has taken effect or failed is answered.                  *)
LEMMA MappedAnswer ==
  ASSUME NEW w \in Workers, Requests[w] # NoRequest, Requests[w].phase # "called", Same,
         Requests' = [Requests EXCEPT ![w] = NoRequest]
  PROVE  Table!Answer(w)
BY RequestsMapped, RequestsMappedNext
   DEF Table!Answer, Table!None, NoRequest, Same

(* Anything else changes nothing that MemberTable sees.                    *)
LEMMA MappedStutter ==
  ASSUME Requests' = Requests, Same
  PROVE  UNCHANGED Table!mvars
BY RequestsMapped, RequestsMappedNext DEF Table!mvars, Same

(* A move that leaves the request as it is.                                *)
LEMMA StutterMove ==
  ASSUME Typed, NEW w \in Workers, NEW j, Become(w, j), Asks(j) = Asks(job[w]), Same
  PROVE  [Table!MNext]_(Table!mvars)
<1>1. Requests' = Requests
  BY MoveAsks DEF Requests
<1> QED BY <1>1, MappedStutter

(* A move from step to step that changes neither the table nor the phase.  *)
LEMMA GotoRefines ==
  ASSUME Typed, NEW w \in Workers, NEW j, Become(w, j), UNCHANGED table,
         j.op = job[w].op, j.p = job[w].p, j.role = job[w].role,
         \/ j.op = "list"
         \/ j.pc # "idle" /\ job[w].pc # "idle" /\ PhaseAt(j.pc) = PhaseAt(job[w].pc)
  PROVE  [Table!MNext]_(Table!mvars)
<1>1. Asks(j) = Asks(job[w])
  BY DEF Asks
<1>2. Same
  BY DEF Same, table, RoleOf
<1> QED BY <1>1, <1>2, StutterMove

(* An error answers the request, whether or not it has taken effect.       *)
LEMMA RaiseRefines ==
  ASSUME Typed, NEW w \in Workers, job[w].pc # "idle", Raise(w), UNCHANGED table
  PROVE  [Table!MNext]_(Table!mvars)
<1> DEFINE j == [job[w] EXCEPT !.pc = "failed", !.fresh = FALSE]
<1>1. /\ j.op = job[w].op /\ j.p = job[w].p /\ j.role = job[w].role
      /\ j.pc = "failed" /\ Become(w, j)
  BY DEF Typed, TypeOK, Job, Raise
<1> HIDE DEF j
<1>2. CASE j.op = "list"
  BY <1>1, <1>2, GotoRefines
<1>3. CASE j.op # "list"
  <2>1. Moved(w, "failed") /\ Requests[w] # NoRequest
    <3>1. Requests' = [Requests EXCEPT ![w].phase = PhaseAt(j.pc)]
      BY <1>1, <1>3, PhaseMoves
    <3>2. Requests[w] = [op |-> job[w].op, p |-> job[w].p, role |-> job[w].role,
                         phase |-> PhaseAt(job[w].pc)]
      BY <1>1, <1>3 DEF Requests, Asks
    <3>3. PhaseAt(j.pc) = "failed"
      BY <1>1 DEF PhaseAt
    <3> QED BY <3>1, <3>2, <3>3 DEF Moved, NoRequest
  <2>2. Same
    BY DEF Same, table, RoleOf
  <2> QED BY <2>1, <2>2, MappedFail DEF Table!MNext
<1> QED BY <1>2, <1>3

(* The step at which a request takes effect.                               *)
LEMMA EffectMove ==
  ASSUME Typed, NEW w \in Workers, NEW j, Become(w, j),
         j.op = job[w].op, j.p = job[w].p, j.role = job[w].role, j.op # "list",
         PhaseAt(job[w].pc) = "called", PhaseAt(j.pc) = "effective",
         job[w].pc # "idle", j.pc # "idle"
  PROVE  /\ Called(w, job[w].op) /\ Moved(w, "effective")
         /\ Requests[w].p = job[w].p /\ Requests[w].role = job[w].role
BY PhaseMoves DEF Called, Moved

(* What comes in is a call.                                                *)
LEMMA BeginRefines ==
  ASSUME Typed, NEW w \in Workers, Begin(w)
  PROVE  [Table!MNext]_(Table!mvars)
<1>1. ASSUME NEW op \in {"create", "set", "delete", "drop", "list"}, NEW p \in Principals,
             NEW role \in Levels, NEW step \in {"create", "verify", "load", "list"},
             Receive(w, op, p, role, step)
      PROVE  [Table!MNext]_(Table!mvars)
  <2> DEFINE j == [Idle EXCEPT !.pc = step, !.op = op, !.p = p, !.role = role]
  <2>1. j.pc = step /\ j.op = op /\ j.p = p /\ j.role = role
    BY DEF Idle
  <2>2. Become(w, j) /\ Requests[w] = NoRequest /\ Same
    BY <1>1 DEF Receive, Moves, At, Requests, Asks, NoRequest, Same, table, RoleOf
  <2> HIDE DEF j
  <2>3. Requests' = [Requests EXCEPT ![w] = Asks(j)]
    BY <2>2, MoveAsks
  <2>4. CASE op = "list"
    <3>1. Requests' = Requests
      BY <2>1, <2>2, <2>3, <2>4 DEF Asks, NoRequest, Requests
    <3> QED BY <2>2, <3>1, MappedStutter
  <2>5. CASE op # "list"
    <3>1. Asks(j) = [op |-> op, p |-> p, role |-> role, phase |-> "called"]
      BY <2>1, <2>5 DEF Asks, PhaseAt
    <3>2. Table!Call(w)
      BY <2>2, <2>3, <2>5, <3>1, MappedCall
    <3> QED BY <3>2 DEF Table!MNext
  <2> QED BY <2>4, <2>5
<1>2. Creator \in Principals
  BY MembersConstants DEF Principals
<1> QED BY <1>1, <1>2 DEF Begin, Levels

(* The creation and the deletion of the resource.                          *)
LEMMA CreateRefines ==
  ASSUME Typed, NEW w \in Workers, Create(w)
  PROVE  [Table!MNext]_(Table!mvars)
<1> DEFINE j == [job[w] EXCEPT !.pc = "ok"]
<1>1. /\ job[w].pc = "create" /\ job[w].op = "create" /\ state = "none"
      /\ job[w].p \in Principals /\ Become(w, j)
      /\ j.op = job[w].op /\ j.p = job[w].p /\ j.role = job[w].role /\ j.pc = "ok"
  BY DEF Create, Goto, Moves, At, Typed, TypeOK, Control, StepFits, Job
<1> HIDE DEF j
<1>2. PhaseAt(job[w].pc) = "called" /\ PhaseAt(j.pc) = "effective"
  BY <1>1 DEF PhaseAt
<1>3. /\ Called(w, "create") /\ Moved(w, "effective")
      /\ Requests[w].p = job[w].p /\ Requests[w].role = job[w].role
  BY <1>1, <1>2, EffectMove
<1>4. RoleOf' = [[p \in Principals |-> NoRole] EXCEPT ![job[w].p] = job[w].role]
  <2>1. rows \in [Principals -> Row] /\ \A p \in Principals : rows[p].role = NoRole
    BY <1>1 DEF Typed, TypeOK, NoRow
  <2>2. rows' = [rows EXCEPT ![job[w].p] = [id |-> NewId, role |-> job[w].role]]
    BY DEF Create
  <2>3. \A p \in Principals :
          rows'[p].role = IF p = job[w].p THEN job[w].role ELSE NoRole
    BY <1>1, <2>1, <2>2
  <2> QED BY <2>3 DEF RoleOf
<1>5. Table!Create(w)
  BY <1>3, <1>4, MappedCreate DEF Create
<1> QED BY <1>5 DEF Table!MNext

(* delete_workflow takes effect where it deletes the row.                  *)
LEMMA DropRefines ==
  ASSUME Typed, NEW w \in Workers, DropResource(w)
  PROVE  [Table!MNext]_(Table!mvars)
<1> DEFINE j == [job[w] EXCEPT !.pc = "forget"]
<1>1. /\ job[w].pc = "drop" /\ job[w].op = "drop" /\ Become(w, j)
      /\ j.op = job[w].op /\ j.p = job[w].p /\ j.role = job[w].role /\ j.pc = "forget"
  BY DEF DropResource, Goto, Moves, At, Typed, TypeOK, Control, StepFits, Job
<1> HIDE DEF j
<1>2. PhaseAt(job[w].pc) = "called" /\ PhaseAt(j.pc) = "effective"
  BY <1>1 DEF PhaseAt
<1>3. Called(w, "drop") /\ Moved(w, "effective")
  BY <1>1, <1>2, EffectMove
<1>4. RoleOf' = [p \in Principals |-> NoRole]
  BY DEF DropResource, RoleOf, NoRow
<1>5. Table!Drop(w)
  BY <1>3, <1>4, MappedDrop DEF DropResource
<1> QED BY <1>5 DEF Table!MNext

(* A grant takes effect where the row is found to have the role already,   *)
(* is inserted, or is updated.                                             *)
LEMMA GrantRefines ==
  ASSUME Typed, NEW w \in Workers, NEW j, Become(w, j),
         job[w].pc \in {"member", "insert", "update"}, j.pc \in {"refresh", "invalidate"},
         j.op = job[w].op, j.p = job[w].p, j.role = job[w].role,
         state = "live", state' = "live",
         RoleOf' = [RoleOf EXCEPT ![job[w].p] = job[w].role]
  PROVE  [Table!MNext]_(Table!mvars)
<1>1. job[w].op = "set"
  BY DEF Typed, Control, StepFits
<1>2. PhaseAt(job[w].pc) = "called" /\ PhaseAt(j.pc) = "effective"
  BY DEF PhaseAt
<1>3. /\ Called(w, "set") /\ Moved(w, "effective")
      /\ Requests[w].p = job[w].p /\ Requests[w].role = job[w].role
  BY <1>1, <1>2, EffectMove
<1>4. Table!Set(w)
  BY <1>3, MappedSet
<1> QED BY <1>4 DEF Table!MNext

(* set_permission finds no row, another role, or the role itself.          *)
LEMMA FindMemberRefines ==
  ASSUME Typed, NEW w \in Workers, FindMember(w)
  PROVE  [Table!MNext]_(Table!mvars)
<1> DEFINE row == rows[job[w].p]
           j == [job[w] EXCEPT !.id = row.id,
                   !.pc = IF row = NoRow THEN "insert"
                          ELSE IF row.role # job[w].role THEN "update" ELSE "invalidate"]
<1>1. /\ job[w].pc = "member" /\ job[w].p \in Principals /\ Become(w, j)
      /\ j.op = job[w].op /\ j.p = job[w].p /\ j.role = job[w].role
      /\ j.pc \in {"insert", "update", "invalidate"}
      /\ j.pc = "invalidate" => row # NoRow /\ row.role = job[w].role
  BY DEF FindMember, Moves, At, Typed, TypeOK, Job
<1> HIDE DEF j
<1>2. UNCHANGED table
  BY DEF FindMember
<1>3. CASE j.pc # "invalidate"
  <2>1. PhaseAt(j.pc) = PhaseAt(job[w].pc)
    BY <1>1, <1>3 DEF PhaseAt
  <2> QED BY <1>1, <1>2, <1>3, <2>1, GotoRefines
<1>4. CASE j.pc = "invalidate"
  <2>1. state = "live" /\ state' = "live"
    BY <1>1, <1>2, <1>4 DEF Typed, TypeOK, table
  <2>2. RoleOf' = [RoleOf EXCEPT ![job[w].p] = job[w].role]
    <3>1. RoleOf' = RoleOf /\ RoleOf[job[w].p] = job[w].role
      BY <1>1, <1>2, <1>4 DEF table, RoleOf
    <3> QED BY <3>1 DEF RoleOf
  <2> QED BY <1>1, <1>4, <2>1, <2>2, GrantRefines
<1> QED BY <1>3, <1>4

(* The insert takes effect or fails on a constraint.                       *)
LEMMA InsertRefines ==
  ASSUME Typed, NEW w \in Workers, InsertMember(w)
  PROVE  [Table!MNext]_(Table!mvars)
<1>1. /\ job[w].pc = "insert" /\ job[w].p \in Principals /\ job[w] \in Job
      /\ rows \in [Principals -> Row]
  BY DEF InsertMember, Moves, At, Typed, TypeOK, Job
<1>2. CASE Raise(w) /\ UNCHANGED table
  BY <1>1, <1>2, RaiseRefines
<1>3. CASE /\ state = "live" /\ state' = state
           /\ rows' = [rows EXCEPT ![job[w].p] = [id |-> NewId, role |-> job[w].role]]
           /\ Become(w, [job[w] EXCEPT !.pc = "refresh", !.id = NewId, !.fresh = FALSE])
  <2> DEFINE j == [job[w] EXCEPT !.pc = "refresh", !.id = NewId, !.fresh = FALSE]
  <2>1. /\ Become(w, j) /\ j.pc = "refresh"
        /\ j.op = job[w].op /\ j.p = job[w].p /\ j.role = job[w].role
    BY <1>1, <1>3 DEF Job
  <2> HIDE DEF j
  <2>2. \A p \in Principals :
          rows'[p].role = IF p = job[w].p THEN job[w].role ELSE rows[p].role
    BY <1>1, <1>3
  <2>3. RoleOf' = [RoleOf EXCEPT ![job[w].p] = job[w].role]
    BY <1>1, <2>2 DEF RoleOf
  <2> QED BY <1>1, <1>3, <2>1, <2>3, GrantRefines
<1> QED BY <1>2, <1>3 DEF InsertMember

(* The update takes effect or finds its row gone.                          *)
LEMMA UpdateRefines ==
  ASSUME Typed, NEW w \in Workers, UpdateMember(w)
  PROVE  [Table!MNext]_(Table!mvars)
<1>1. /\ job[w].pc = "update" /\ job[w].p \in Principals /\ job[w] \in Job
      /\ job[w].id # NoId /\ rows \in [Principals -> Row]
  BY DEF UpdateMember, Moves, At, Typed, TypeOK, Control, StepFits, Job
<1>2. CASE Raise(w) /\ UNCHANGED rows
  BY <1>1, <1>2, RaiseRefines DEF UpdateMember, table
<1>3. CASE /\ rows[job[w].p].id = job[w].id
           /\ rows' = [rows EXCEPT ![job[w].p].role = job[w].role]
           /\ Goto(w, "refresh")
  <2> DEFINE j == [job[w] EXCEPT !.pc = "refresh"]
  <2>1. /\ Become(w, j) /\ j.pc = "refresh"
        /\ j.op = job[w].op /\ j.p = job[w].p /\ j.role = job[w].role
    BY <1>1, <1>3 DEF Job, Goto
  <2> HIDE DEF j
  <2>2. state = "live" /\ state' = "live"
    BY <1>1, <1>3 DEF Typed, TypeOK, NoRow, UpdateMember
  <2>3. \A p \in Principals :
          rows'[p].role = IF p = job[w].p THEN job[w].role ELSE rows[p].role
    BY <1>1, <1>3 DEF Row
  <2>4. RoleOf' = [RoleOf EXCEPT ![job[w].p] = job[w].role]
    BY <1>1, <2>3 DEF RoleOf
  <2> QED BY <1>1, <2>1, <2>2, <2>4, GrantRefines
<1> QED BY <1>2, <1>3 DEF UpdateMember

(* The other steps change nothing that MemberTable sees, or fail.          *)
LEMMA PlainStepRefines ==
  ASSUME Typed, NEW w \in Workers, NEW step, Goto(w, step), UNCHANGED table,
         job[w].pc # "idle", step # "idle",
         job[w].op = "list" \/ PhaseAt(step) = PhaseAt(job[w].pc)
  PROVE  [Table!MNext]_(Table!mvars)
<1> DEFINE j == [job[w] EXCEPT !.pc = step]
<1>1. /\ Become(w, j) /\ j.pc = step
      /\ j.op = job[w].op /\ j.p = job[w].p /\ j.role = job[w].role
  BY DEF Goto, Typed, TypeOK, Job
<1> HIDE DEF j
<1> QED BY <1>1, GotoRefines

(* _verify_resource_exists and its like only read.                         *)
LEMMA VerifyRefines ==
  ASSUME Typed, NEW w \in Workers, VerifyResource(w) \/ LoadResource(w) \/ ListMiss(w)
  PROVE  [Table!MNext]_(Table!mvars)
<1>1. ASSUME NEW step \in {"principal", "find", "drop", "readList"}, Verify(w, step),
             job[w].pc \in {"verify", "load", "list"}
      PROVE  [Table!MNext]_(Table!mvars)
  <2>1. PhaseAt(step) = PhaseAt(job[w].pc)
    BY <1>1 DEF PhaseAt
  <2>2. UNCHANGED table
    BY <1>1 DEF Verify
  <2>3. CASE Goto(w, step)
    BY <1>1, <2>1, <2>2, <2>3, PlainStepRefines
  <2>4. CASE Raise(w)
    BY <1>1, <2>2, <2>4, RaiseRefines
  <2> QED BY <1>1, <2>3, <2>4 DEF Verify
<1> QED BY <1>1 DEF VerifyResource, LoadResource, ListMiss, Moves, At

(* ensure_principal_exists flushes at most a principal.                    *)
LEMMA PrincipalRefines ==
  ASSUME Typed, NEW w \in Workers, FindPrincipal(w) \/ NewPrincipal(w)
  PROVE  [Table!MNext]_(Table!mvars)
<1>1. job[w].pc \in {"principal", "newPrincipal"} /\ UNCHANGED table
  BY DEF FindPrincipal, NewPrincipal, Moves, At
<1>2. CASE Raise(w)
  BY <1>1, <1>2, RaiseRefines
<1>3. ASSUME NEW step \in {"member", "newPrincipal"}, Goto(w, step)
      PROVE  [Table!MNext]_(Table!mvars)
  <2>1. PhaseAt(step) = PhaseAt(job[w].pc)
    BY <1>1 DEF PhaseAt
  <2> QED BY <1>1, <1>3, <2>1, PlainStepRefines
<1>4. CASE Become(w, [job[w] EXCEPT !.pc = "member", !.fresh = TRUE])
  <2> DEFINE j == [job[w] EXCEPT !.pc = "member", !.fresh = TRUE]
  <2>1. /\ Become(w, j) /\ j.pc = "member"
        /\ j.op = job[w].op /\ j.p = job[w].p /\ j.role = job[w].role
    BY <1>4 DEF Typed, TypeOK, Job
  <2> HIDE DEF j
  <2>2. PhaseAt(j.pc) = PhaseAt(job[w].pc)
    BY <1>1, <2>1 DEF PhaseAt
  <2> QED BY <1>1, <2>1, <2>2, GotoRefines
<1> QED BY <1>2, <1>3, <1>4 DEF FindPrincipal, NewPrincipal

(* What follows the commit does not change the table.                      *)
LEMMA AfterwardsRefines ==
  ASSUME Typed, NEW w \in Workers, Refresh(w) \/ Invalidate(w) \/ ForgetLists(w)
  PROVE  [Table!MNext]_(Table!mvars)
<1>1. job[w].pc \in {"refresh", "invalidate", "forget"} /\ UNCHANGED table
  BY DEF Refresh, Invalidate, ForgetLists, Moves, At
<1>2. CASE Raise(w)
  BY <1>1, <1>2, RaiseRefines
<1>3. ASSUME NEW step \in {"invalidate", "ok"}, Goto(w, step)
      PROVE  [Table!MNext]_(Table!mvars)
  <2>1. PhaseAt(step) = PhaseAt(job[w].pc)
    BY <1>1 DEF PhaseAt
  <2> QED BY <1>1, <1>3, <2>1, PlainStepRefines
<1> QED BY <1>2, <1>3 DEF Refresh, Invalidate, ForgetLists

(* Lists are no requests of the abstract table.                            *)
LEMMA ListRefines ==
  ASSUME Typed, NEW w \in Workers, ListHit(w) \/ ReadList(w) \/ FillList(w)
  PROVE  [Table!MNext]_(Table!mvars)
<1>1. /\ job[w].pc \in {"list", "readList", "fillList"} /\ job[w].op = "list"
      /\ job[w] \in Job
  BY DEF ListHit, ReadList, FillList, Moves, At, Typed, TypeOK, Control, StepFits
<1>2. Same
  BY DEF ListHit, ReadList, FillList, Same, table, RoleOf
<1>3. Asks(job[w]) = NoRequest
  BY <1>1 DEF Asks, NoRequest
<1>4. CASE Become(w, Idle)
  <2>1. Asks(Idle) = NoRequest
    BY DEF Asks, Idle, NoRequest
  <2> QED BY <1>2, <1>3, <1>4, <2>1, StutterMove
<1>5. CASE Become(w, [job[w] EXCEPT !.pc = "fillList", !.entry = RoleOf])
  <2>1. Asks([job[w] EXCEPT !.pc = "fillList", !.entry = RoleOf]) = NoRequest
    BY <1>1 DEF Asks, Job, NoRequest
  <2> QED BY <1>2, <1>3, <1>5, <2>1, StutterMove
<1> QED BY <1>4, <1>5 DEF ListHit, ReadList, FillList

(* The answer ends the request.                                            *)
LEMMA ReplyRefines ==
  ASSUME Typed, NEW w \in Workers, Reply(w)
  PROVE  [Table!MNext]_(Table!mvars)
<1>1. job[w].pc \in {"ok", "failed"} /\ Become(w, Idle) /\ Same
  BY DEF Reply, Moves, At, Same, table, RoleOf
<1>2. Asks(Idle) = NoRequest
  BY DEF Asks, Idle, NoRequest
<1>3. CASE job[w].op = "list"
  <2>1. Asks(job[w]) = NoRequest
    BY <1>3 DEF Asks, NoRequest
  <2> QED BY <1>1, <1>2, <2>1, StutterMove
<1>4. CASE job[w].op # "list"
  <2>1. Requests[w] # NoRequest /\ Requests[w].phase # "called"
    BY <1>1, <1>4 DEF Requests, Asks, PhaseAt, NoRequest
  <2>2. Requests' = [Requests EXCEPT ![w] = NoRequest]
    BY <1>1, <1>2, MoveAsks
  <2>3. Table!Answer(w)
    BY <1>1, <2>1, <2>2, MappedAnswer
  <2> QED BY <2>3 DEF Table!MNext
<1> QED BY <1>3, <1>4

(* As long as nobody revokes a role, the handlers implement MemberTable:   *)
(* every grant, and the creation and the deletion of the resource, takes   *)
(* effect at one instant between its call and its answer or not at all,    *)
(* whatever fails (set_permission, ensure_principal_exists,                *)
(* delete_workflow).                                                       *)
THEOREM HandlersImplementTheTable ==
  ASSUME "delete" \notin Operations
  PROVE  Spec => GrantsAreAtomic
<1>1. Init => Typed
  BY TypedInit
<1>2. Typed /\ [Next]_vars => Typed'
  BY TypedNext
<1>3. Init => Table!MInit
  <2> SUFFICES ASSUME Init PROVE Table!MInit
    OBVIOUS
  <2>1. \A w \in Workers : Asks(job[w]) = NoRequest
    BY DEF Init, Asks, Idle, NoRequest
  <2>2. Requests = [w \in Workers |-> NoRequest]
    BY <2>1 DEF Requests
  <2>3. RoleOf = [p \in Principals |-> NoRole]
    BY DEF Init, RoleOf, NoRow
  <2> QED BY <2>2, <2>3, RequestsMapped
          DEF Init, Table!MInit, Table!Nobody, Table!None, NoRequest
<1>4. Typed /\ [Next]_vars => [Table!MNext]_(Table!mvars)
  <2> SUFFICES ASSUME Typed, [Next]_vars PROVE [Table!MNext]_(Table!mvars)
    OBVIOUS
  <2>1. ASSUME NEW w \in Workers PROVE ~FindRole(w) /\ ~RemoveMember(w)
    BY DEF FindRole, RemoveMember, Moves, At, Typed, TypeOK, Control, StepFits, Job
  <2>2. ASSUME NEW w \in Workers, Write(w) PROVE [Table!MNext]_(Table!mvars)
    BY <2>1, <2>2, CreateRefines, VerifyRefines, PrincipalRefines, FindMemberRefines,
       InsertRefines, UpdateRefines, AfterwardsRefines, DropRefines DEF Write
  <2>3. ASSUME NEW w \in Workers, Read(w) PROVE [Table!MNext]_(Table!mvars)
    BY <2>3, VerifyRefines, ListRefines DEF Read
  <2>4. ASSUME NEW w \in Workers, Crash(w) PROVE [Table!MNext]_(Table!mvars)
    BY <2>4, RaiseRefines DEF Crash
  <2>5. CASE ExpireList \/ UNCHANGED vars
    <3>1. Requests' = Requests /\ Same
      BY <2>5 DEF ExpireList, vars, table, Requests, RoleOf, Same
    <3> QED BY <3>1, MappedStutter
  <2> QED BY <2>2, <2>3, <2>4, <2>5, BeginRefines, ReplyRefines DEF Next
<1> QED BY <1>1, <1>2, <1>3, <1>4, PTL DEF Spec, GrantsAreAtomic, Table!MSpec
==============================================================================
