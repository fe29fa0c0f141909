----------------------------- MODULE WorkflowKeys -----------------------------
(***************************************************************************)
(* The two API keys of a workflow.  A workflow's row in PostgreSQL holds   *)
(* two vault URIs; the keys themselves are in the vault.  No transaction   *)
(* spans the two stores: a handler reads the row, works on the vault while *)
(* its session stays open, and commits last.  Requests that present an API *)
(* key read the row and then each key from the vault, never from a cache.  *)
(*                                                                         *)
(* A worker is one process serving one request; its steps are the          *)
(* transactions and the vault calls.                                       *)
(***************************************************************************)
EXTENDS Vault

CONSTANTS
  Workflows,     \* workflow ids (uuid4)
  Workers

Keys == Values
Slots == {"primary", "secondary"}

ASSUME WorkflowConstants == Workflows # {}

VARIABLES
  faulty,   \* may vault calls and commits fail and workers die?
  row,      \* workflow id -> its row: whether it exists, and allow_api_keys
  vault,    \* workflow id -> slot -> the secret its URI names
  minted,   \* the keys generated so far
  job,      \* what each worker is doing
  steady    \* ghost: has the caller's key opened the workflow all along?

vars == <<faulty, row, vault, minted, job, steady>>

Row == [state : {"none", "named", "live", "deleted"}, allow : BOOLEAN]

CallerSteps == {"readPrimary", "readSecondary", "accepted", "refused"}
Job ==
  [pc      : {"idle", "storePrimary", "storeSecondary", "insert", "update",
              "commit", "dropPrimary", "dropSecondary", "deleteRow"} \cup CallerSteps,
   wf      : Workflows,
   slot    : Slots,                    \* key_number, of a rotation
   key     : Keys \cup {NoSecret},     \* primary_key, new_key, or the caller's key
   spare   : Keys \cup {NoSecret},     \* secondary_key, of a creation
   allow   : BOOLEAN,                  \* allow_api_keys, of a creation
   revoked : BOOLEAN]                  \* ghost: was the caller's key already superseded?

Idle ==
  [pc |-> "idle", wf |-> CHOOSE wf \in Workflows : TRUE, slot |-> "primary",
   key |-> NoSecret, spare |-> NoSecret, allow |-> FALSE, revoked |-> FALSE]

Become(w, j) == job' = [job EXCEPT ![w] = j]
Goto(w, step) == Become(w, [job[w] EXCEPT !.pc = step])
At(w, step) == job[w].pc = step

Live(wf) == row[wf].state = "live"
Enabled(wf) == Live(wf) /\ row[wf].allow
KeyOf(wf, s) == GetSecret(vault[wf][s])
Opens(wf, k) == Enabled(wf) /\ \E s \in Slots : KeyOf(wf, s) = k
Superseded(wf) == vault[wf]["primary"].past \cup vault[wf]["secondary"].past

-----------------------------------------------------------------------------
(* create_workflow: both keys go to the vault, then the row is inserted.   *)

(* Mutated: one key is generated and stored twice.                         *)
CreateWorkflowOneKey(w, wf, allow, k1, k2) ==
  /\ At(w, "idle")
  /\ row[wf].state = "none"
  /\ k1 \notin minted
  /\ row' = [row EXCEPT ![wf].state = "named"]
  /\ minted' = minted \cup {k1}
  /\ Become(w, [Idle EXCEPT !.pc = "storePrimary", !.wf = wf, !.key = k1,
                            !.spare = k1, !.allow = allow])
  /\ UNCHANGED vault
CreateWorkflow(w, wf, allow, k1, k2) ==
  /\ At(w, "idle")
  /\ row[wf].state = "none"
  /\ {k1, k2} \cap minted = {} /\ k1 # k2
  /\ row' = [row EXCEPT ![wf].state = "named"]
  /\ minted' = minted \cup {k1, k2}
  /\ Become(w, [Idle EXCEPT !.pc = "storePrimary", !.wf = wf, !.key = k1,
                            !.spare = k2, !.allow = allow])
  /\ UNCHANGED vault

(* duplicate_workflow: new keys, the source's allow_api_keys.              *)
DuplicateWorkflow(w, source, wf, k1, k2) ==
  /\ Live(source)
  /\ CreateWorkflow(w, wf, row[source].allow, k1, k2)

StorePrimary(w) ==
  /\ At(w, "storePrimary")
  /\ vault' = [vault EXCEPT ![job[w].wf]["primary"] = StoreSecret(@, job[w].key)]
  /\ Goto(w, "storeSecondary")
  /\ UNCHANGED <<row, minted>>

(* Mutated: the secondary key is stored under the primary key's name.      *)
StoreSecondaryMisnamed(w) ==
  /\ At(w, "storeSecondary")
  /\ vault' = [vault EXCEPT ![job[w].wf]["primary"] = StoreSecret(@, job[w].spare)]
  /\ Goto(w, "insert")
  /\ UNCHANGED <<row, minted>>
StoreSecondary(w) ==
  /\ At(w, "storeSecondary")
  /\ vault' = [vault EXCEPT ![job[w].wf]["secondary"] = StoreSecret(@, job[w].spare)]
  /\ Goto(w, "insert")
  /\ UNCHANGED <<row, minted>>

(* Mutated: the columns are passed in the wrong order.                     *)
InsertRowSwapped(w) ==
  /\ At(w, "insert")
  /\ row' = [row EXCEPT ![job[w].wf] = [state |-> "live", allow |-> job[w].spare]]
  /\ Become(w, Idle)
  /\ UNCHANGED <<vault, minted>>
InsertRow(w) ==
  /\ At(w, "insert")
  /\ row' = [row EXCEPT ![job[w].wf] = [state |-> "live", allow |-> job[w].allow]]
  /\ Become(w, Idle)
  /\ UNCHANGED <<vault, minted>>

-----------------------------------------------------------------------------
(* update_workflow, as far as it concerns the keys.                        *)
UpdateWorkflow(w, wf, allow) ==
  /\ At(w, "idle")
  /\ Live(wf)
  /\ row' = [row EXCEPT ![wf].allow = allow]
  /\ UNCHANGED <<vault, minted, job>>

(* rotate_api_key: a new version in the vault, then the commit.            *)
RotateApiKey(w, wf, s, k) ==
  /\ At(w, "idle")
  /\ Enabled(wf)
  /\ k \notin minted
  /\ minted' = minted \cup {k}
  /\ Become(w, [Idle EXCEPT !.pc = "update", !.wf = wf, !.slot = s, !.key = k])
  /\ UNCHANGED <<row, vault>>

UpdateKey(w) ==
  LET s == vault[job[w].wf][job[w].slot] IN
  /\ At(w, "update")
  /\ IF Updatable(s)
     THEN /\ vault' = [vault EXCEPT ![job[w].wf][job[w].slot] =
                         UpdateSecret(s, job[w].key)]
          /\ Goto(w, "commit")
     ELSE UNCHANGED vault /\ Become(w, Idle)
  /\ UNCHANGED <<row, minted>>

(* Whether or not a concurrent deletion makes the UPDATE fail, the row     *)
(* keeps its URIs: nothing else is written.                                *)
CommitRotation(w) ==
  /\ At(w, "commit")
  /\ Become(w, Idle)
  /\ UNCHANGED <<row, vault, minted>>

-----------------------------------------------------------------------------
(* delete_workflow: secrets first, best effort, then the row.              *)
DeleteWorkflow(w, wf) ==
  /\ At(w, "idle")
  /\ Live(wf)
  /\ Become(w, [Idle EXCEPT !.pc = "dropPrimary", !.wf = wf])
  /\ UNCHANGED <<row, vault, minted>>

Drop(w, s) ==
  \/ vault' = [vault EXCEPT ![job[w].wf][s] = DeleteSecret(@)]
  \/ faulty /\ UNCHANGED vault

DropPrimary(w) ==
  /\ At(w, "dropPrimary")
  /\ Drop(w, "primary")
  /\ Goto(w, "dropSecondary")
  /\ UNCHANGED <<row, minted>>

DropSecondary(w) ==
  /\ At(w, "dropSecondary")
  /\ Drop(w, "secondary")
  /\ Goto(w, "deleteRow")
  /\ UNCHANGED <<row, minted>>

DeleteRow(w) ==
  /\ At(w, "deleteRow")
  /\ row' = [row EXCEPT ![job[w].wf].state = "deleted"]
  /\ Become(w, Idle)
  /\ UNCHANGED <<vault, minted>>

-----------------------------------------------------------------------------
(* authenticate_workflow_api_key: a caller presents a key.                 *)
Authenticate(w, wf, k) ==
  /\ At(w, "idle")
  /\ k \in minted
  /\ row[wf].state \in {"live", "deleted"}
  /\ Become(w, [Idle EXCEPT !.pc = IF Enabled(wf) THEN "readPrimary" ELSE "refused",
                            !.wf = wf, !.key = k, !.revoked = k \in Superseded(wf)])
  /\ UNCHANGED <<row, vault, minted>>

(* A failed read counts as a mismatch.                                     *)
Matches(w, s) == KeyOf(job[w].wf, s) = job[w].key
Mismatches(w, s) == ~Matches(w, s) \/ faulty

ReadPrimary(w) ==
  /\ At(w, "readPrimary")
  /\ \/ Matches(w, "primary") /\ Goto(w, "accepted")
     \/ Mismatches(w, "primary") /\ Goto(w, "readSecondary")
  /\ UNCHANGED <<row, vault, minted>>

(* Mutated: only the primary key is accepted.                              *)
ReadSecondaryNot(w) ==
  /\ At(w, "readSecondary")
  /\ Goto(w, "refused")
  /\ UNCHANGED <<row, vault, minted>>
ReadSecondary(w) ==
  /\ At(w, "readSecondary")
  /\ \/ Matches(w, "secondary") /\ Goto(w, "accepted")
     \/ Mismatches(w, "secondary") /\ Goto(w, "refused")
  /\ UNCHANGED <<row, vault, minted>>

Answer(w) ==
  /\ At(w, "accepted") \/ At(w, "refused")
  /\ Become(w, Idle)
  /\ UNCHANGED <<row, vault, minted>>

(* A commit or a vault call raises, or the worker dies: the session is     *)
(* rolled back, what the vault has done stays.                             *)
Abort(w) ==
  /\ faulty
  /\ ~At(w, "idle")
  /\ Become(w, Idle)
  /\ UNCHANGED <<row, vault, minted>>

-----------------------------------------------------------------------------
Init ==
  /\ faulty \in BOOLEAN
  /\ row = [wf \in Workflows |-> [state |-> "none", allow |-> FALSE]]
  /\ vault = [wf \in Workflows |-> [s \in Slots |-> Absent]]
  /\ minted = {}
  /\ job = [w \in Workers |-> Idle]
  /\ steady = [w \in Workers |-> FALSE]

Begin(w) ==
  \E wf \in Workflows :
    \/ \E allow \in BOOLEAN : UpdateWorkflow(w, wf, allow)
    \/ \E allow \in BOOLEAN, k1, k2 \in Keys : CreateWorkflow(w, wf, allow, k1, k2)
    \/ \E source \in Workflows, k1, k2 \in Keys : DuplicateWorkflow(w, source, wf, k1, k2)
    \/ \E s \in Slots, k \in Keys : RotateApiKey(w, wf, s, k)
    \/ DeleteWorkflow(w, wf)
    \/ \E k \in Keys : Authenticate(w, wf, k)

Continue(w) ==
  \/ StorePrimary(w) \/ StoreSecondary(w) \/ InsertRow(w)
  \/ UpdateKey(w) \/ CommitRotation(w)
  \/ DropPrimary(w) \/ DropSecondary(w) \/ DeleteRow(w)
  \/ ReadPrimary(w) \/ ReadSecondary(w) \/ Answer(w)

Step == \E w \in Workers : Begin(w) \/ Continue(w) \/ Abort(w)

(* The ghost steady only watches: a caller's key is steady from the first  *)
(* step of its request for as long as it opens the workflow.               *)
Watch ==
  steady' = [w \in Workers |->
    /\ job'[w].pc \in CallerSteps
    /\ At(w, "idle") \/ steady[w]
    /\ Opens(job[w].wf, job[w].key)']

Next == Step /\ Watch /\ UNCHANGED faulty
Spec == Init /\ [][Next]_vars

-----------------------------------------------------------------------------
(* Rows, secrets and the locals of the handlers are of the shape the code  *)
(* expects (Workflow, BaseVault).                                          *)
TypeOK ==
  /\ faulty \in BOOLEAN
  /\ row \in [Workflows -> Row]
  /\ vault \in [Workflows -> [Slots -> Secret]]
  /\ minted \subseteq Keys
  /\ job \in [Workers -> Job]
  /\ steady \in [Workers -> BOOLEAN]

(* A rotation takes effect immediately: no request is accepted with a key  *)
(* that a newer version had superseded before the request began            *)
(* (rotate_api_key, authenticate_workflow_api_key), whatever fails.        *)
RotationTakesEffect == \A w \in Workers : At(w, "accepted") => ~job[w].revoked

(* While nothing fails, the two keys are rotated without interruption: a   *)
(* caller is refused only if its key failed to open the workflow at some   *)
(* moment of the request, though the two keys are read one after the other *)
(* (authenticate_workflow_api_key).                                        *)
RotationWithoutInterruption ==
  ~faulty => \A w \in Workers : At(w, "refused") => ~steady[w]

(* While nothing fails, a workflow that nobody is deleting has both its    *)
(* keys in the vault (create_workflow, rotate_api_key, delete_workflow).   *)
Deleting(wf) == \E w \in Workers :
  job[w].wf = wf /\ job[w].pc \in {"dropPrimary", "dropSecondary", "deleteRow"}
LiveWorkflowsHaveKeys ==
  ~faulty => \A wf \in Workflows : Live(wf) /\ ~Deleting(wf) =>
    \A s \in Slots : KeyOf(wf, s) # NoSecret

(* Once every handler has returned, a deleted workflow has left no key in  *)
(* the vault (delete_workflow, _cascade_delete_workflow_data).             *)
DeletedWorkflowsLeaveNoKey ==
  (\A w \in Workers : At(w, "idle")) =>
    \A wf \in Workflows : row[wf].state = "deleted" =>
      \A s \in Slots : KeyOf(wf, s) = NoSecret

-----------------------------------------------------------------------------
(* Why RotationTakesEffect holds where a URI names the latest version: an  *)
(* inductive strengthening.                                                *)

(* The keys a handler has generated and not yet written to the vault.      *)
Pending(w) ==
  CASE At(w, "storePrimary") -> {job[w].key, job[w].spare}
    [] At(w, "storeSecondary") -> {job[w].spare}
    [] At(w, "update") -> {job[w].key}
    [] OTHER -> {}

(* A key is generated once and written once: it is the version of at most  *)
(* one secret of a workflow, and never again once it is superseded         *)
(* (create_workflow, rotate_api_key).                                      *)
WrittenOnce ==
  /\ \A wf \in Workflows, s \in Slots : Versions(vault[wf][s]) \subseteq minted
  /\ \A w \in Workers :
       /\ Pending(w) \subseteq minted
       /\ \A wf \in Workflows, s \in Slots : Pending(w) \cap Versions(vault[wf][s]) = {}
       /\ \A v \in Workers \ {w} : Pending(w) \cap Pending(v) = {}
       /\ At(w, "storePrimary") => job[w].key # job[w].spare
  /\ \A wf \in Workflows, s \in Slots :
       /\ vault[wf][s].latest \notin Superseded(wf)
       /\ \A t \in Slots \ {s} :
            vault[wf][s].latest = vault[wf][t].latest => vault[wf][s].latest = NoSecret

(* A caller's superseded key stays superseded until the answer             *)
(* (authenticate_workflow_api_key).                                        *)
RevokedStays ==
  \A w \in Workers : job[w].pc \in CallerSteps /\ job[w].revoked =>
    job[w].key \in Superseded(job[w].wf)

RotationInvariant == WrittenOnce /\ RevokedStays /\ RotationTakesEffect
===============================================================================
