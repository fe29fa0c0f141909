-------------------------- MODULE WorkflowKeysProofs --------------------------
(***************************************************************************)
(* WorkflowKeys is type correct and writes every key once, whatever fails; *)
(* where a URI names the latest version of a secret, a rotation takes      *)
(* effect immediately; and while nothing fails, callers are not            *)
(* interrupted by a rotation and every workflow has its keys.  All this    *)
(* for every number of workflows, keys and workers.                        *)
(***************************************************************************)
EXTENDS WorkflowKeys, TLAPS

USE DEF Keys

-----------------------------------------------------------------------------
(* The operations on a secret.                                             *)

(* The versions of a secret are values.                                    *)
LEMMA VersionsType ==
  ASSUME NEW s \in Secret
  PROVE  Versions(s) \subseteq Values
BY DEF Versions, Secret

(* store_secret leaves a well formed secret.                               *)
LEMMA StoreType ==
  ASSUME NEW s \in Secret, NEW v \in Values
  PROVE  StoreSecret(s, v) \in Secret
BY VersionsType DEF StoreSecret, Secret

(* update_secret leaves a well formed secret.                              *)
LEMMA UpdateType ==
  ASSUME NEW s \in Secret, NEW v \in Values
  PROVE  UpdateSecret(s, v) \in Secret
<1>1. Versions(s) \in SUBSET Values
  BY VersionsType
<1>2. QED
  BY <1>1 DEF UpdateSecret, Secret

(* delete_secret leaves a well formed secret.                              *)
LEMMA DeleteType ==
  ASSUME NEW s \in Secret
  PROVE  DeleteSecret(s) \in Secret
BY DEF DeleteSecret, Secret

(* A name never used is a well formed secret.                              *)
LEMMA AbsentType == Absent \in Secret
BY DEF Absent, Secret

(* The job of an idle worker is a job.                                     *)
LEMMA IdleType == Idle \in Job
<1>1. (CHOOSE wf \in Workflows : TRUE) \in Workflows
  BY WorkflowConstants
<1>2. QED
  BY <1>1 DEF Idle, Job, Slots

(* Replacing one slot's secret keeps the vault well typed.                 *)
LEMMA SlotType ==
  ASSUME vault \in [Workflows -> [Slots -> Secret]],
         NEW wf \in Workflows, NEW s \in Slots, NEW e \in Secret
  PROVE  [vault EXCEPT ![wf][s] = e] \in [Workflows -> [Slots -> Secret]]
OBVIOUS

(* Giving one worker another job keeps the table of jobs well typed.       *)
LEMMA JobType ==
  ASSUME job \in [Workers -> Job], NEW w \in Workers, NEW j \in Job, Become(w, j)
  PROVE  job' \in [Workers -> Job]
BY DEF Become

(* A key that a handler is about to write is a key.                        *)
Carries(w) ==
  /\ At(w, "storePrimary") => job[w].key \in Keys /\ job[w].spare \in Keys
  /\ At(w, "storeSecondary") => job[w].spare \in Keys
  /\ At(w, "update") => job[w].key \in Keys
Typed == TypeOK /\ \A w \in Workers : Carries(w)

(* A step of worker w that leaves every other job as it was.               *)
LEMMA CarriesElsewhere ==
  ASSUME Typed, NEW w \in Workers, NEW j \in Job, Become(w, j),
         j.pc \notin {"storePrimary", "storeSecondary", "update"}
  PROVE  \A v \in Workers : Carries(v)'
BY DEF Typed, TypeOK, Carries, Become, At

(* Moving a worker to a step at which it has no key to write keeps the     *)
(* jobs well typed.                                                        *)
LEMMA GotoType ==
  ASSUME Typed, NEW w \in Workers,
         NEW step \in {"idle", "insert", "commit", "dropSecondary", "deleteRow",
                       "readSecondary", "accepted", "refused"},
         Goto(w, step)
  PROVE  job' \in [Workers -> Job] /\ \A v \in Workers : Carries(v)'
<1>1. [job[w] EXCEPT !.pc = step] \in Job
  BY DEF Typed, TypeOK, Job, CallerSteps
<1>2. [job[w] EXCEPT !.pc = step].pc = step
  BY DEF Typed, TypeOK, Job
<1>3. Become(w, [job[w] EXCEPT !.pc = step])
  BY DEF Goto
<1>4. QED
  BY <1>1, <1>2, <1>3, JobType, CarriesElsewhere DEF Typed, TypeOK

(* So does its return.                                                     *)
LEMMA BecomeIdleType ==
  ASSUME Typed, NEW w \in Workers, Become(w, Idle)
  PROVE  job' \in [Workers -> Job] /\ \A v \in Workers : Carries(v)'
<1>1. Idle.pc = "idle"
  BY DEF Idle
<1>2. QED
  BY <1>1, IdleType, JobType, CarriesElsewhere DEF Typed, TypeOK

-----------------------------------------------------------------------------
(* One lemma per action: it keeps the state well typed.                    *)
Shape == row' \in [Workflows -> Row] /\ vault' \in [Workflows -> [Slots -> Secret]]
         /\ minted' \subseteq Keys /\ job' \in [Workers -> Job]
         /\ \A w \in Workers : Carries(w)'

(* create_workflow and duplicate_workflow keep the types: two keys are     *)
(* generated.                                                              *)
LEMMA CreateType ==
  ASSUME Typed, NEW w \in Workers, NEW wf \in Workflows, NEW allow \in BOOLEAN,
         NEW k1 \in Keys, NEW k2 \in Keys, CreateWorkflow(w, wf, allow, k1, k2)
  PROVE  Shape
<1> DEFINE j == [Idle EXCEPT !.pc = "storePrimary", !.wf = wf, !.key = k1,
                             !.spare = k2, !.allow = allow]
<1>1. j \in Job
  BY IdleType DEF Job
<1>2. j.key = k1 /\ j.spare = k2 /\ j.pc = "storePrimary"
  BY DEF Idle
<1>3. Become(w, j)
  BY DEF CreateWorkflow
<1>4. job' \in [Workers -> Job]
  BY <1>1, <1>3, JobType DEF Typed, TypeOK
<1>5. job' = [job EXCEPT ![w] = j]
  BY <1>3 DEF Become
<1>6. \A v \in Workers : Carries(v)'
  <2> HIDE DEF j
  <2> QED
    BY <1>2, <1>5 DEF Typed, TypeOK, Carries, At
<1>7. row' \in [Workflows -> Row]
  BY DEF CreateWorkflow, Typed, TypeOK, Row
<1>8. vault' \in [Workflows -> [Slots -> Secret]] /\ minted' \subseteq Keys
  BY DEF CreateWorkflow, Typed, TypeOK
<1>9. QED
  BY <1>4, <1>6, <1>7, <1>8 DEF Shape

(* rotate_api_key keeps the types: one key is generated.                   *)
LEMMA RotateType ==
  ASSUME Typed, NEW w \in Workers, NEW wf \in Workflows, NEW s \in Slots,
         NEW k \in Keys, RotateApiKey(w, wf, s, k)
  PROVE  Shape
<1> DEFINE j == [Idle EXCEPT !.pc = "update", !.wf = wf, !.slot = s, !.key = k]
<1>1. j \in Job
  BY IdleType DEF Job
<1>2. j.key = k /\ j.pc = "update"
  BY DEF Idle
<1>3. job' = [job EXCEPT ![w] = j]
  BY DEF RotateApiKey, Become
<1>4. job' \in [Workers -> Job] /\ \A v \in Workers : Carries(v)'
  <2> HIDE DEF j
  <2> QED
    BY <1>1, <1>2, <1>3 DEF Typed, TypeOK, Carries, At
<1>5. QED
  BY <1>4 DEF Shape, RotateApiKey, Typed, TypeOK

(* delete_workflow keeps the types.                                        *)
LEMMA DeleteWorkflowType ==
  ASSUME Typed, NEW w \in Workers, NEW wf \in Workflows, DeleteWorkflow(w, wf)
  PROVE  Shape
<1> DEFINE j == [Idle EXCEPT !.pc = "dropPrimary", !.wf = wf]
<1>1. j \in Job
  BY IdleType DEF Job
<1>2. j.pc = "dropPrimary"
  BY DEF Idle
<1>3. Become(w, j)
  BY DEF DeleteWorkflow
<1>4. job' \in [Workers -> Job] /\ \A v \in Workers : Carries(v)'
  <2> HIDE DEF j
  <2> QED
    BY <1>1, <1>2, <1>3, JobType, CarriesElsewhere DEF Typed, TypeOK
<1>5. QED
  BY <1>4 DEF Shape, DeleteWorkflow, Typed, TypeOK

(* authenticate_workflow_api_key keeps the types.                          *)
LEMMA AuthenticateType ==
  ASSUME Typed, NEW w \in Workers, NEW wf \in Workflows, NEW k \in Keys,
         Authenticate(w, wf, k)
  PROVE  Shape
<1> DEFINE p == IF Enabled(wf) THEN "readPrimary" ELSE "refused"
           r == k \in Superseded(wf)
           j == [Idle EXCEPT !.pc = p, !.wf = wf, !.key = k, !.revoked = r]
<1>1. p \in {"readPrimary", "refused"}
  OBVIOUS
<1>2. r \in BOOLEAN
  OBVIOUS
<1>3. Become(w, j)
  BY DEF Authenticate
<1>4. j \in Job /\ j.pc = p
  <2> HIDE DEF p, r
  <2> QED
    BY <1>1, <1>2, IdleType DEF Job, CallerSteps
<1>5. job' \in [Workers -> Job] /\ \A v \in Workers : Carries(v)'
  <2> HIDE DEF j, p, r
  <2> QED
    BY <1>1, <1>3, <1>4, JobType, CarriesElsewhere DEF Typed, TypeOK
<1>6. QED
  BY <1>5 DEF Shape, Authenticate, Typed, TypeOK

(* Storing the primary key keeps the types.                                *)
LEMMA StorePrimaryType ==
  ASSUME Typed, NEW w \in Workers, StorePrimary(w)
  PROVE  Shape
<1> DEFINE wf == job[w].wf
           e == StoreSecret(vault[wf]["primary"], job[w].key)
<1>1. wf \in Workflows /\ "primary" \in Slots
  BY DEF Typed, TypeOK, Job, Slots
<1>2. job[w].key \in Values /\ job[w].spare \in Values
  BY DEF Typed, Carries, StorePrimary
<1>3. e \in Secret
  BY <1>1, <1>2, StoreType DEF Typed, TypeOK
<1>4. vault' = [vault EXCEPT ![wf]["primary"] = e]
  BY DEF StorePrimary
<1>5. vault' \in [Workflows -> [Slots -> Secret]]
  <2> HIDE DEF e, wf
  <2> QED
    BY <1>1, <1>3, <1>4, SlotType DEF Typed, TypeOK
<1>6. job' = [job EXCEPT ![w] = [job[w] EXCEPT !.pc = "storeSecondary"]]
  BY DEF StorePrimary, Goto, Become
<1>7. [job[w] EXCEPT !.pc = "storeSecondary"] \in Job
  BY DEF Typed, TypeOK, Job, CallerSteps
<1>8. job' \in [Workers -> Job]
  BY <1>6, <1>7 DEF Typed, TypeOK
<1>9. \A v \in Workers : Carries(v)'
  BY <1>2, <1>6 DEF Typed, TypeOK, Carries, At, Job
<1>10. QED
  BY <1>5, <1>8, <1>9 DEF Shape, StorePrimary, Typed, TypeOK

(* Storing the secondary key keeps the types.                              *)
LEMMA StoreSecondaryType ==
  ASSUME Typed, NEW w \in Workers, StoreSecondary(w)
  PROVE  Shape
<1> DEFINE wf == job[w].wf
           e == StoreSecret(vault[wf]["secondary"], job[w].spare)
<1>1. wf \in Workflows /\ "secondary" \in Slots
  BY DEF Typed, TypeOK, Job, Slots
<1>2. job[w].spare \in Values
  BY DEF Typed, Carries, StoreSecondary
<1>3. e \in Secret
  BY <1>1, <1>2, StoreType DEF Typed, TypeOK
<1>4. vault' = [vault EXCEPT ![wf]["secondary"] = e]
  BY DEF StoreSecondary
<1>5. vault' \in [Workflows -> [Slots -> Secret]]
  <2> HIDE DEF e, wf
  <2> QED
    BY <1>1, <1>3, <1>4, SlotType DEF Typed, TypeOK
<1>6. job' \in [Workers -> Job] /\ \A v \in Workers : Carries(v)'
  BY GotoType DEF StoreSecondary
<1>7. QED
  BY <1>5, <1>6 DEF Shape, StoreSecondary, Typed, TypeOK

(* Writing a new version of a key keeps the types.                         *)
LEMMA UpdateKeyType ==
  ASSUME Typed, NEW w \in Workers, UpdateKey(w)
  PROVE  Shape
<1> DEFINE wf == job[w].wf
           s == job[w].slot
           e == UpdateSecret(vault[wf][s], job[w].key)
<1>1. wf \in Workflows /\ s \in Slots
  BY DEF Typed, TypeOK, Job
<1>2. job[w].key \in Values
  BY DEF Typed, Carries, UpdateKey
<1>3. e \in Secret
  BY <1>1, <1>2, UpdateType DEF Typed, TypeOK
<1>4. UNCHANGED vault \/ vault' = [vault EXCEPT ![wf][s] = e]
  BY DEF UpdateKey
<1>5. vault' \in [Workflows -> [Slots -> Secret]]
  <2> HIDE DEF e, wf, s
  <2>1. [vault EXCEPT ![wf][s] = e] \in [Workflows -> [Slots -> Secret]]
    BY <1>1, <1>3, SlotType DEF Typed, TypeOK
  <2>2. QED
    BY <1>4, <2>1 DEF Typed, TypeOK
<1>6. Goto(w, "commit") \/ Become(w, Idle)
  BY DEF UpdateKey
<1>7. job' \in [Workers -> Job] /\ \A v \in Workers : Carries(v)'
  BY <1>6, GotoType, BecomeIdleType
<1>8. QED
  BY <1>5, <1>7 DEF Shape, UpdateKey, Typed, TypeOK

(* Deleting a key, or failing to, leaves the vault well typed.             *)
LEMMA DropType ==
  ASSUME Typed, NEW w \in Workers, NEW s \in Slots, Drop(w, s)
  PROVE  vault' \in [Workflows -> [Slots -> Secret]]
<1> DEFINE wf == job[w].wf
           e == DeleteSecret(vault[wf][s])
<1>1. wf \in Workflows
  BY DEF Typed, TypeOK, Job
<1>2. e \in Secret
  BY <1>1, DeleteType DEF Typed, TypeOK
<1>3. UNCHANGED vault \/ vault' = [vault EXCEPT ![wf][s] = e]
  BY DEF Drop
<1> HIDE DEF e, wf
<1>4. [vault EXCEPT ![wf][s] = e] \in [Workflows -> [Slots -> Secret]]
  BY <1>1, <1>2, SlotType DEF Typed, TypeOK
<1>5. QED
  BY <1>3, <1>4 DEF Typed, TypeOK

(* Inserting and deleting the row keep the types.                          *)
LEMMA RowStepType ==
  ASSUME Typed, NEW w \in Workers, InsertRow(w) \/ DeleteRow(w)
  PROVE  Shape
<1>1. job[w].wf \in Workflows /\ job[w].allow \in BOOLEAN
  BY DEF Typed, TypeOK, Job
<1>2. row' \in [Workflows -> Row]
  BY <1>1 DEF InsertRow, DeleteRow, Typed, TypeOK, Row
<1>3. job' \in [Workers -> Job] /\ \A v \in Workers : Carries(v)'
  BY BecomeIdleType DEF InsertRow, DeleteRow
<1>4. QED
  BY <1>2, <1>3 DEF Shape, InsertRow, DeleteRow, Typed, TypeOK

(* Every later step of a handler keeps the types.                          *)
LEMMA ContinueType ==
  ASSUME Typed, NEW w \in Workers, Continue(w)
  PROVE  Shape
<1>1. CASE StorePrimary(w)
  BY <1>1, StorePrimaryType
<1>2. CASE StoreSecondary(w)
  BY <1>2, StoreSecondaryType
<1>3. CASE InsertRow(w) \/ DeleteRow(w)
  BY <1>3, RowStepType
<1>4. CASE UpdateKey(w)
  BY <1>4, UpdateKeyType
<1>5. CASE CommitRotation(w) \/ Answer(w)
  BY <1>5, BecomeIdleType DEF CommitRotation, Answer, Shape, Typed, TypeOK
<1>6. CASE DropPrimary(w)
  <2>1. job' \in [Workers -> Job] /\ \A v \in Workers : Carries(v)'
    BY <1>6, GotoType DEF DropPrimary
  <2>2. QED
    BY <1>6, <2>1, DropType DEF DropPrimary, Shape, Typed, TypeOK, Slots
<1>7. CASE DropSecondary(w)
  <2>1. job' \in [Workers -> Job] /\ \A v \in Workers : Carries(v)'
    BY <1>7, GotoType DEF DropSecondary
  <2>2. QED
    BY <1>7, <2>1, DropType DEF DropSecondary, Shape, Typed, TypeOK, Slots
<1>8. CASE ReadPrimary(w) \/ ReadSecondary(w)
  <2>1. \E step \in {"accepted", "readSecondary", "refused"} : Goto(w, step)
    BY <1>8 DEF ReadPrimary, ReadSecondary
  <2>2. job' \in [Workers -> Job] /\ \A v \in Workers : Carries(v)'
    BY <2>1, GotoType
  <2>3. QED
    BY <1>8, <2>2 DEF ReadPrimary, ReadSecondary, Shape, Typed, TypeOK
<1>9. QED
  BY <1>1, <1>2, <1>3, <1>4, <1>5, <1>6, <1>7, <1>8 DEF Continue

(* Every first step of a handler keeps the types.                          *)
LEMMA BeginType ==
  ASSUME Typed, NEW w \in Workers, Begin(w)
  PROVE  Shape
<1>1. PICK wf \in Workflows :
        \/ \E allow \in BOOLEAN : UpdateWorkflow(w, wf, allow)
        \/ \E allow \in BOOLEAN, k1, k2 \in Keys : CreateWorkflow(w, wf, allow, k1, k2)
        \/ \E source \in Workflows, k1, k2 \in Keys : DuplicateWorkflow(w, source, wf, k1, k2)
        \/ \E s \in Slots, k \in Keys : RotateApiKey(w, wf, s, k)
        \/ DeleteWorkflow(w, wf)
        \/ \E k \in Keys : Authenticate(w, wf, k)
  BY DEF Begin
<1>2. CASE \E allow \in BOOLEAN : UpdateWorkflow(w, wf, allow)
  <2>1. row' \in [Workflows -> Row]
    BY <1>2 DEF UpdateWorkflow, Typed, TypeOK, Row
  <2>2. \A v \in Workers : Carries(v)'
    BY <1>2 DEF UpdateWorkflow, Typed, Carries, At
  <2>3. QED
    BY <1>2, <2>1, <2>2 DEF UpdateWorkflow, Typed, TypeOK, Shape
<1>3. CASE \E allow \in BOOLEAN, k1, k2 \in Keys : CreateWorkflow(w, wf, allow, k1, k2)
  BY <1>3, CreateType
<1>4. CASE \E source \in Workflows, k1, k2 \in Keys : DuplicateWorkflow(w, source, wf, k1, k2)
  <2>1. PICK source \in Workflows, k1 \in Keys, k2 \in Keys :
          DuplicateWorkflow(w, source, wf, k1, k2)
    BY <1>4
  <2>2. row[source].allow \in BOOLEAN
    BY DEF Typed, TypeOK, Row
  <2>3. QED
    BY <2>1, <2>2, CreateType DEF DuplicateWorkflow
<1>5. CASE \E s \in Slots, k \in Keys : RotateApiKey(w, wf, s, k)
  BY <1>5, RotateType
<1>6. CASE DeleteWorkflow(w, wf)
  BY <1>6, DeleteWorkflowType
<1>7. CASE \E k \in Keys : Authenticate(w, wf, k)
  BY <1>7, AuthenticateType
<1>8. QED
  BY <1>1, <1>2, <1>3, <1>4, <1>5, <1>6, <1>7

(* Every step keeps the types.                                             *)
LEMMA StepType ==
  ASSUME Typed, Next
  PROVE  Typed'
<1>1. PICK w \in Workers : Begin(w) \/ Continue(w) \/ Abort(w)
  BY DEF Next, Step
<1>2. Shape
  <2>1. CASE Abort(w)
    BY <2>1, BecomeIdleType DEF Abort, Shape, Typed, TypeOK
  <2>2. QED
    BY <1>1, <2>1, BeginType, ContinueType
<1>3. steady' \in [Workers -> BOOLEAN] /\ faulty' = faulty
  BY DEF Next, Watch
<1>4. QED
  BY <1>2, <1>3 DEF Shape, Typed, TypeOK

(* The service starts well typed.                                          *)
LEMMA InitType == Init => Typed
<1> SUFFICES ASSUME Init PROVE Typed
  OBVIOUS
<1>1. TypeOK
  BY AbsentType, IdleType DEF Init, TypeOK, Row
<1>2. Idle.pc = "idle"
  BY DEF Idle
<1>3. \A w \in Workers : Carries(w)
  BY <1>2 DEF Init, Carries, At
<1>4. QED
  BY <1>1, <1>3 DEF Typed

(* A step that changes nothing keeps the types.                            *)
LEMMA StutterType ==
  ASSUME Typed, UNCHANGED vars
  PROVE  Typed'
BY DEF Typed, TypeOK, Carries, At, vars

(* In every state the program reaches, rows, secrets and jobs are of the   *)
(* shape the handlers expect.                                              *)
THEOREM WorkflowKeysTypeCorrect == Spec => []TypeOK
<1>1. Typed /\ [Next]_vars => Typed'
  BY StepType, StutterType
<1>2. Typed => TypeOK
  BY DEF Typed
<1>3. QED
  BY <1>1, <1>2, InitType, PTL DEF Spec

-----------------------------------------------------------------------------
(* A key is written once.                                                  *)

(* What one worker's step leaves alone.                                    *)
Others(w) == \A u \in Workers \ {w} : job'[u] = job[u]

(* A worker changes its own job only.                                      *)
LEMMA OthersKeep ==
  ASSUME job \in [Workers -> Job], NEW w \in Workers, NEW j, Become(w, j)
  PROVE  Others(w) /\ job'[w] = j
BY DEF Become, Others

(* The keys a handler has yet to write are keys.                           *)
LEMMA PendingTyped ==
  ASSUME Typed, NEW w \in Workers
  PROVE  Pending(w) \subseteq Keys
BY DEF Typed, Carries, Pending

(* They are its own affair: no step of another worker changes them.        *)
LEMMA PendingElsewhere ==
  ASSUME NEW w \in Workers, Others(w), NEW u \in Workers, u # w
  PROVE  Pending(u)' = Pending(u) /\ (At(u, "storePrimary")' <=> At(u, "storePrimary"))
         /\ job'[u] = job[u]
BY DEF Others, Pending, At

(* A step that writes no version, and may generate keys for its handler.   *)
SameVersions ==
  \A wf \in Workflows, s \in Slots :
    vault'[wf][s].latest = vault[wf][s].latest /\ vault'[wf][s].past = vault[wf][s].past

(* As long as no version is written, none is superseded.                   *)
LEMMA SameSuperseded ==
  ASSUME SameVersions
  PROVE  \A wf \in Workflows :
           /\ Superseded(wf)' = Superseded(wf)
           /\ \A s \in Slots : Versions(vault'[wf][s]) = Versions(vault[wf][s])
BY DEF SameVersions, Superseded, Versions, Slots

(* A step that writes no version and generates only new keys keeps every   *)
(* key written once.                                                       *)
LEMMA QuietKeepsWrittenOnce ==
  ASSUME Typed, WrittenOnce, NEW w \in Workers, SameVersions, Others(w),
         NEW new \in SUBSET Keys, new \cap minted = {}, minted' = minted \cup new,
         Pending(w)' \subseteq Pending(w) \cup new,
         At(w, "storePrimary")' => job'[w].key # job'[w].spare
  PROVE  WrittenOnce'
<1>1. \A wf \in Workflows, s \in Slots : (Versions(vault[wf][s]) \subseteq minted)'
  BY SameSuperseded DEF WrittenOnce
<1>2. ASSUME NEW u \in Workers
      PROVE  /\ (Pending(u) \subseteq minted)'
             /\ \A wf \in Workflows, s \in Slots :
                  (Pending(u) \cap Versions(vault[wf][s]) = {})'
             /\ \A v \in Workers \ {u} : (Pending(u) \cap Pending(v) = {})'
             /\ (At(u, "storePrimary") => job[u].key # job[u].spare)'
  <2>1. \A x \in Workers : Pending(x)' \subseteq Pending(x) \cup new
    BY PendingElsewhere
  <2>2. \A x \in Workers \ {w} : Pending(x)' = Pending(x)
    BY PendingElsewhere
  <2>3. \A x \in Workers : Pending(x) \subseteq minted
    BY DEF WrittenOnce
  <2>4. \A wf \in Workflows, s \in Slots :
          Versions(vault'[wf][s]) = Versions(vault[wf][s]) /\ Versions(vault[wf][s]) \subseteq minted
    BY SameSuperseded DEF WrittenOnce
  <2>5. (Pending(u) \subseteq minted)'
    BY <2>1, <2>3
  <2>6. \A wf \in Workflows, s \in Slots : (Pending(u) \cap Versions(vault[wf][s]) = {})'
    BY <2>1, <2>4 DEF WrittenOnce
  <2>7. \A v \in Workers \ {u} : (Pending(u) \cap Pending(v) = {})'
    BY <2>1, <2>2, <2>3 DEF WrittenOnce
  <2>8. (At(u, "storePrimary") => job[u].key # job[u].spare)'
    BY PendingElsewhere DEF WrittenOnce
  <2>9. QED
    BY <2>5, <2>6, <2>7, <2>8
<1>3. ASSUME NEW wf \in Workflows, NEW s \in Slots
      PROVE  /\ (vault[wf][s].latest \notin Superseded(wf))'
             /\ \A t \in Slots \ {s} :
                  (vault[wf][s].latest = vault[wf][t].latest => vault[wf][s].latest = NoSecret)'
  BY SameSuperseded DEF SameVersions, WrittenOnce
<1>4. QED
  BY <1>1, <1>2, <1>3 DEF WrittenOnce

(* A step that writes a pending key as the new version of one secret.      *)
Writes(wf, s, v) ==
  /\ vault' = [vault EXCEPT ![wf][s] = vault'[wf][s]]
  /\ vault'[wf][s].latest = v
  /\ vault'[wf][s].past = Versions(vault[wf][s])

(* A write adds one version to one secret and leaves the others alone.     *)
LEMMA WrittenVersions ==
  ASSUME Typed, NEW wf \in Workflows, NEW s \in Slots, NEW v \in Keys, Writes(wf, s, v)
  PROVE  /\ Versions(vault'[wf][s]) = Versions(vault[wf][s]) \cup {v}
         /\ \A x \in Workflows, t \in Slots : x # wf \/ t # s => vault'[x][t] = vault[x][t]
<1>1. v # NoSecret
  BY VaultConstants
<1>2. Versions(vault'[wf][s]) = vault'[wf][s].past \cup {v}
  BY <1>1 DEF Writes, Versions
<1>3. \A x \in Workflows, t \in Slots : x # wf \/ t # s => vault'[x][t] = vault[x][t]
  <2> DEFINE e == vault'[wf][s]
  <2>1. vault' = [vault EXCEPT ![wf][s] = e]
    BY DEF Writes
  <2> HIDE DEF e
  <2>2. QED
    BY <2>1 DEF Typed, TypeOK
<1>4. QED
  BY <1>2, <1>3 DEF Writes

(* A write supersedes at most, it never takes a superseded key back.       *)
LEMMA SupersededGrows ==
  ASSUME Typed, NEW wf \in Workflows, NEW s \in Slots, NEW v \in Keys, Writes(wf, s, v)
  PROVE  \A x \in Workflows : Superseded(x) \subseteq Superseded(x)'
<1> TAKE x \in Workflows
<1>1. \A t \in Slots : vault[x][t].past \subseteq vault'[x][t].past
  <2> TAKE t \in Slots
  <2>1. CASE x = wf /\ t = s
    BY <2>1 DEF Writes, Versions
  <2>2. CASE x # wf \/ t # s
    BY <2>2, WrittenVersions
  <2>3. QED
    BY <2>1, <2>2
<1>2. QED
  BY <1>1 DEF Superseded, Slots

(* Writing a pending key, which is pending no longer afterwards, keeps     *)
(* every key written once.                                                 *)
LEMMA WriteKeepsWrittenOnce ==
  ASSUME Typed, WrittenOnce, NEW w \in Workers, Others(w), minted' = minted,
         NEW wf \in Workflows, NEW s \in Slots, NEW v \in Pending(w), Writes(wf, s, v),
         Pending(w)' \subseteq Pending(w) \ {v}, ~At(w, "storePrimary")'
  PROVE  WrittenOnce'
<1>0. v \in Keys /\ v \in minted
  BY PendingTyped DEF WrittenOnce
<1>1. \A x \in Workflows, t \in Slots : Versions(vault'[x][t]) \subseteq Versions(vault[x][t]) \cup {v}
  <2> TAKE x \in Workflows, t \in Slots
  <2>1. CASE x = wf /\ t = s
    BY <1>0, <2>1, WrittenVersions
  <2>2. CASE x # wf \/ t # s
    BY <1>0, <2>2, WrittenVersions
  <2>3. QED
    BY <2>1, <2>2
<1>2. \A x \in Workflows, t \in Slots : (Versions(vault[x][t]) \subseteq minted)'
  BY <1>0, <1>1 DEF WrittenOnce
<1>3. ASSUME NEW u \in Workers
      PROVE  /\ (Pending(u) \subseteq minted)'
             /\ \A x \in Workflows, t \in Slots :
                  (Pending(u) \cap Versions(vault[x][t]) = {})'
             /\ \A y \in Workers \ {u} : (Pending(u) \cap Pending(y) = {})'
             /\ (At(u, "storePrimary") => job[u].key # job[u].spare)'
  <2>1. \A y \in Workers : Pending(y)' \subseteq Pending(y) \ {v}
    <3> TAKE y \in Workers
    <3>1. CASE y = w
      BY <3>1
    <3>2. CASE y # w
      BY <3>2, PendingElsewhere DEF WrittenOnce
    <3>3. QED
      BY <3>1, <3>2
  <2>2. (Pending(u) \subseteq minted)'
    BY <2>1 DEF WrittenOnce
  <2>3. \A x \in Workflows, t \in Slots : (Pending(u) \cap Versions(vault[x][t]) = {})'
    BY <1>1, <2>1 DEF WrittenOnce
  <2>4. \A y \in Workers \ {u} : (Pending(u) \cap Pending(y) = {})'
    BY <2>1 DEF WrittenOnce
  <2>5. (At(u, "storePrimary") => job[u].key # job[u].spare)'
    BY PendingElsewhere DEF WrittenOnce
  <2>6. QED
    BY <2>2, <2>3, <2>4, <2>5
<1>4. v \notin Superseded(wf) /\ \A t \in Slots : v # vault[wf][t].latest
  <2>1. \A t \in Slots : v \notin Versions(vault[wf][t])
    BY DEF WrittenOnce
  <2>2. v # NoSecret
    BY <1>0, VaultConstants
  <2>3. QED
    BY <2>1, <2>2 DEF Superseded, Versions, Slots
<1>5. Superseded(wf)' \subseteq Superseded(wf) \cup ({vault[wf][s].latest} \ {NoSecret})
  <2>1. \A t \in Slots : vault'[wf][t].past \subseteq
                           vault[wf][t].past \cup (IF t = s THEN {vault[wf][s].latest} \ {NoSecret} ELSE {})
    <3> TAKE t \in Slots
    <3>1. CASE t = s
      BY <3>1 DEF Writes, Versions
    <3>2. CASE t # s
      BY <1>0, <3>2, WrittenVersions
    <3>3. QED
      BY <3>1, <3>2
  <2>2. QED
    BY <2>1 DEF Superseded, Slots
<1>6. ASSUME NEW x \in Workflows, NEW t \in Slots
      PROVE  /\ (vault[x][t].latest \notin Superseded(x))'
             /\ \A r \in Slots \ {t} :
                  (vault[x][t].latest = vault[x][r].latest => vault[x][t].latest = NoSecret)'
  <2>1. CASE x # wf
    <3>1. \A r \in Slots : vault'[x][r] = vault[x][r]
      BY <1>0, <2>1, WrittenVersions
    <3>2. Superseded(x)' = Superseded(x)
      BY <3>1 DEF Superseded, Slots
    <3>3. QED
      BY <3>1, <3>2 DEF WrittenOnce
  <2>2. CASE x = wf /\ t = s
    <3>1. vault'[x][t].latest = v
      BY <2>2 DEF Writes
    <3>2. \A r \in Slots \ {t} : vault'[x][r].latest = vault[x][r].latest
      BY <1>0, <2>2, WrittenVersions
    <3>3. QED
      BY <1>4, <1>5, <2>2, <3>1, <3>2
  <2>3. CASE x = wf /\ t # s
    <3>1. vault'[x][t].latest = vault[x][t].latest
      BY <1>0, <2>3, WrittenVersions
    <3>2. \A r \in Slots \ {t} : vault'[x][r].latest = v \/ vault'[x][r] = vault[x][r]
      BY <1>0, <2>3, WrittenVersions DEF Writes
    <3>3. QED
      BY <1>4, <1>5, <2>3, <3>1, <3>2 DEF WrittenOnce
  <2>4. QED
    BY <2>1, <2>2, <2>3
<1>7. QED
  BY <1>2, <1>3, <1>6 DEF WrittenOnce

-----------------------------------------------------------------------------
(* What each step does to the pending keys and to the versions.            *)

(* A worker that moves to a step without a pending key has none.           *)
LEMMA GotoSettles ==
  ASSUME Typed, NEW w \in Workers,
         NEW step \in {"idle", "insert", "commit", "dropSecondary", "deleteRow",
                       "readSecondary", "accepted", "refused"},
         Goto(w, step)
  PROVE  /\ Others(w) /\ job'[w] = [job[w] EXCEPT !.pc = step]
         /\ Pending(w)' = {} /\ ~At(w, "storePrimary")'
<1>1. Others(w) /\ job'[w] = [job[w] EXCEPT !.pc = step]
  BY OthersKeep DEF Goto, Typed, TypeOK
<1>2. job'[w].pc = step
  BY <1>1 DEF Typed, TypeOK, Job
<1>3. QED
  BY <1>1, <1>2 DEF Pending, At

(* Neither has one that returns.                                           *)
LEMMA IdleSettles ==
  ASSUME Typed, NEW w \in Workers, Become(w, Idle)
  PROVE  /\ Others(w) /\ job'[w].pc = "idle"
         /\ Pending(w)' = {} /\ ~At(w, "storePrimary")'
<1>1. Others(w) /\ job'[w] = Idle
  BY OthersKeep DEF Typed, TypeOK
<1>2. job'[w].pc = "idle"
  BY <1>1 DEF Idle
<1>3. QED
  BY <1>1, <1>2 DEF Pending, At

(* Every step is of one of three kinds: it generates keys, it writes one,  *)
(* or it leaves the versions as they are.                                  *)
Generates(w) ==
  /\ SameVersions
  /\ \E new \in SUBSET Keys :
       /\ new \cap minted = {} /\ minted' = minted \cup new
       /\ Pending(w)' \subseteq Pending(w) \cup new
  /\ At(w, "storePrimary")' => job'[w].key # job'[w].spare

WritesKey(w) ==
  /\ minted' = minted
  /\ \E wf \in Workflows, s \in Slots, v \in Pending(w) :
       Writes(wf, s, v) /\ Pending(w)' \subseteq Pending(w) \ {v}
  /\ ~At(w, "storePrimary")'

Kind(w) == Others(w) /\ (Generates(w) \/ WritesKey(w))

(* Steps of each of the three kinds keep every key written once, and keep  *)
(* superseded keys superseded.                                             *)
LEMMA KindKeeps ==
  ASSUME Typed, WrittenOnce, NEW w \in Workers, Kind(w)
  PROVE  WrittenOnce' /\ \A x \in Workflows : Superseded(x) \subseteq Superseded(x)'
<1>1. CASE Generates(w)
  <2>1. WrittenOnce'
    BY <1>1, QuietKeepsWrittenOnce DEF Kind, Generates
  <2>2. QED
    BY <1>1, <2>1, SameSuperseded DEF Generates
<1>2. CASE WritesKey(w)
  <2>1. PICK wf \in Workflows, s \in Slots, v \in Pending(w) :
          Writes(wf, s, v) /\ Pending(w)' \subseteq Pending(w) \ {v}
    BY <1>2 DEF WritesKey
  <2>2. WrittenOnce'
    BY <1>2, <2>1, WriteKeepsWrittenOnce DEF Kind, WritesKey
  <2>3. v \in Keys
    BY PendingTyped
  <2>4. QED
    BY <2>1, <2>2, <2>3, SupersededGrows
<1>3. QED
  BY <1>1, <1>2 DEF Kind

(* A handler that settles without touching secret versions.                *)
LEMMA SettlesQuietly ==
  ASSUME NEW w \in Workers, Others(w), SameVersions, minted' = minted,
         Pending(w)' = {}, ~At(w, "storePrimary")'
  PROVE  Kind(w)
<1>1. {} \in SUBSET Keys /\ {} \cap minted = {} /\ minted' = minted \cup {}
  OBVIOUS
<1>2. QED
  BY <1>1 DEF Kind, Generates

(* A vault left alone has the same versions.                               *)
LEMMA UnchangedVersions ==
  ASSUME UNCHANGED vault
  PROVE  SameVersions
BY DEF SameVersions

(* A deleted secret keeps its versions.                                    *)
LEMMA DropKeepsVersions ==
  ASSUME Typed, NEW w \in Workers, NEW s \in Slots, Drop(w, s)
  PROVE  SameVersions
<1>1. CASE UNCHANGED vault
  BY <1>1, UnchangedVersions
<1>2. CASE vault' = [vault EXCEPT ![job[w].wf][s] = DeleteSecret(@)]
  <2>1. \A e \in Secret : DeleteSecret(e).latest = e.latest /\ DeleteSecret(e).past = e.past
    BY DEF DeleteSecret, Secret
  <2>2. job[w].wf \in Workflows
    BY DEF Typed, TypeOK, Job
  <2>3. \A x \in Workflows, t \in Slots :
          vault'[x][t] = vault[x][t] \/ vault'[x][t] = DeleteSecret(vault[x][t])
    BY <1>2, <2>2 DEF Typed, TypeOK
  <2>4. \A x \in Workflows, t \in Slots : vault[x][t] \in Secret
    BY DEF Typed, TypeOK
  <2>5. QED
    BY <2>1, <2>3, <2>4 DEF SameVersions
<1>3. QED
  BY <1>1, <1>2 DEF Drop

(* Both store_secret and update_secret write a version.                    *)
LEMMA StoreWrites ==
  ASSUME Typed, NEW wf \in Workflows, NEW s \in Slots, NEW v \in Keys,
         \/ vault' = [vault EXCEPT ![wf][s] = StoreSecret(@, v)]
         \/ vault' = [vault EXCEPT ![wf][s] = UpdateSecret(@, v)]
  PROVE  Writes(wf, s, v)
<1> DEFINE e == vault'[wf][s]
<1>1. vault[wf][s] \in Secret
  BY DEF Typed, TypeOK
<1>2. e = StoreSecret(vault[wf][s], v) \/ e = UpdateSecret(vault[wf][s], v)
  BY DEF Typed, TypeOK
<1>3. \A x \in Secret : /\ StoreSecret(x, v).latest = v /\ StoreSecret(x, v).past = Versions(x)
                        /\ UpdateSecret(x, v).latest = v /\ UpdateSecret(x, v).past = Versions(x)
  BY DEF StoreSecret, UpdateSecret, Secret
<1>4. e.latest = v /\ e.past = Versions(vault[wf][s])
  <2> HIDE DEF e
  <2> QED
    BY <1>1, <1>2, <1>3
<1>5. vault' = [vault EXCEPT ![wf][s] = e]
  BY DEF Typed, TypeOK
<1>6. QED
  BY <1>4, <1>5 DEF Writes

-----------------------------------------------------------------------------
(* One lemma per action that generates or writes keys.                     *)

(* create_workflow generates keys and writes none yet.                     *)
LEMMA CreateKind ==
  ASSUME Typed, NEW w \in Workers, NEW wf \in Workflows, NEW allow,
         NEW k1 \in Keys, NEW k2 \in Keys, CreateWorkflow(w, wf, allow, k1, k2)
  PROVE  Kind(w)
<1> DEFINE j == [Idle EXCEPT !.pc = "storePrimary", !.wf = wf, !.key = k1,
                             !.spare = k2, !.allow = allow]
<1>1. j.pc = "storePrimary" /\ j.key = k1 /\ j.spare = k2
  BY DEF Idle
<1>2. Others(w) /\ job'[w] = j
  BY OthersKeep DEF CreateWorkflow, Typed, TypeOK
<1>3. Pending(w)' = {k1, k2}
  <2> HIDE DEF j
  <2> QED
    BY <1>1, <1>2 DEF Pending, At
<1>4. job'[w].key # job'[w].spare
  <2> HIDE DEF j
  <2> QED
    BY <1>1, <1>2 DEF CreateWorkflow
<1>5. {k1, k2} \in SUBSET Keys /\ {k1, k2} \cap minted = {} /\ minted' = minted \cup {k1, k2}
  BY DEF CreateWorkflow
<1>6. SameVersions
  BY UnchangedVersions DEF CreateWorkflow
<1>7. QED
  BY <1>2, <1>3, <1>4, <1>5, <1>6 DEF Kind, Generates

(* So does rotate_api_key.                                                 *)
LEMMA RotateKind ==
  ASSUME Typed, NEW w \in Workers, NEW wf \in Workflows, NEW s \in Slots,
         NEW k \in Keys, RotateApiKey(w, wf, s, k)
  PROVE  Kind(w)
<1> DEFINE j == [Idle EXCEPT !.pc = "update", !.wf = wf, !.slot = s, !.key = k]
<1>1. j.pc = "update" /\ j.key = k
  BY DEF Idle
<1>2. Others(w) /\ job'[w] = j
  BY OthersKeep DEF RotateApiKey, Typed, TypeOK
<1>3. Pending(w)' = {k} /\ ~At(w, "storePrimary")'
  <2> HIDE DEF j
  <2> QED
    BY <1>1, <1>2 DEF Pending, At
<1>4. {k} \in SUBSET Keys /\ {k} \cap minted = {} /\ minted' = minted \cup {k}
  BY DEF RotateApiKey
<1>5. SameVersions
  BY UnchangedVersions DEF RotateApiKey
<1>6. QED
  BY <1>2, <1>3, <1>4, <1>5 DEF Kind, Generates

(* Storing the primary key writes a pending key.                           *)
LEMMA StorePrimaryKind ==
  ASSUME Typed, WrittenOnce, NEW w \in Workers, StorePrimary(w)
  PROVE  Kind(w)
<1>1. job[w].wf \in Workflows /\ "primary" \in Slots
  BY DEF Typed, TypeOK, Job, Slots
<1>2. job[w].key \in Keys /\ job[w].key # job[w].spare
  BY DEF Typed, Carries, StorePrimary, WrittenOnce
<1>3. Writes(job[w].wf, "primary", job[w].key)
  BY <1>1, <1>2, StoreWrites DEF StorePrimary
<1>4. Others(w) /\ job'[w] = [job[w] EXCEPT !.pc = "storeSecondary"]
  BY OthersKeep DEF StorePrimary, Goto, Typed, TypeOK
<1>5. job'[w].pc = "storeSecondary" /\ job'[w].spare = job[w].spare
  BY <1>4 DEF Typed, TypeOK, Job
<1>6. Pending(w) = {job[w].key, job[w].spare}
  BY DEF Pending, StorePrimary, At
<1>7. Pending(w)' = {job[w].spare} /\ ~At(w, "storePrimary")'
  BY <1>5 DEF Pending, At
<1>8. minted' = minted
  BY DEF StorePrimary
<1>9. job[w].key \in Pending(w) /\ Pending(w)' \subseteq Pending(w) \ {job[w].key}
  BY <1>2, <1>6, <1>7
<1>10. WritesKey(w)
  BY <1>1, <1>3, <1>7, <1>8, <1>9 DEF WritesKey
<1>11. QED
  BY <1>4, <1>10 DEF Kind

(* So does storing the secondary key.                                      *)
LEMMA StoreSecondaryKind ==
  ASSUME Typed, NEW w \in Workers, StoreSecondary(w)
  PROVE  Kind(w)
<1>1. job[w].wf \in Workflows /\ "secondary" \in Slots
  BY DEF Typed, TypeOK, Job, Slots
<1>2. job[w].spare \in Keys /\ Pending(w) = {job[w].spare}
  BY DEF Typed, Carries, StoreSecondary, Pending, At
<1>3. Writes(job[w].wf, "secondary", job[w].spare)
  BY <1>1, <1>2, StoreWrites DEF StoreSecondary
<1>4. Others(w) /\ Pending(w)' = {} /\ ~At(w, "storePrimary")'
  BY GotoSettles DEF StoreSecondary
<1>5. minted' = minted
  BY DEF StoreSecondary
<1>6. WritesKey(w)
  BY <1>1, <1>2, <1>3, <1>4, <1>5 DEF WritesKey
<1>7. QED
  BY <1>4, <1>6 DEF Kind

(* So does writing the new version of a rotation, where the backend takes  *)
(* it.                                                                     *)
LEMMA UpdateKeyKind ==
  ASSUME Typed, NEW w \in Workers, UpdateKey(w)
  PROVE  Kind(w)
<1>1. job[w].wf \in Workflows /\ job[w].slot \in Slots
  BY DEF Typed, TypeOK, Job
<1>2. job[w].key \in Keys /\ Pending(w) = {job[w].key}
  BY DEF Typed, Carries, UpdateKey, Pending, At
<1>3. minted' = minted
  BY DEF UpdateKey
<1>4. Goto(w, "commit") \/ Become(w, Idle)
  BY DEF UpdateKey
<1>5. Others(w) /\ Pending(w)' = {} /\ ~At(w, "storePrimary")'
  BY <1>4, GotoSettles, IdleSettles
<1>6. CASE UNCHANGED vault
  BY <1>3, <1>5, <1>6, UnchangedVersions, SettlesQuietly
<1>7. CASE vault' = [vault EXCEPT ![job[w].wf][job[w].slot] =
                       UpdateSecret(vault[job[w].wf][job[w].slot], job[w].key)]
  <2>1. Writes(job[w].wf, job[w].slot, job[w].key)
    BY <1>1, <1>2, <1>7, StoreWrites
  <2>2. WritesKey(w)
    BY <1>1, <1>2, <1>3, <1>5, <2>1 DEF WritesKey
  <2>3. QED
    BY <1>5, <2>2 DEF Kind
<1>8. QED
  BY <1>6, <1>7 DEF UpdateKey

(* The request that presents a key.                                        *)
LEMMA AuthenticateJob ==
  ASSUME Typed, NEW w \in Workers, NEW wf \in Workflows, NEW k \in Keys,
         Authenticate(w, wf, k)
  PROVE  /\ Others(w) /\ job'[w].pc \in {"readPrimary", "refused"}
         /\ job'[w].revoked => job'[w].key \in Superseded(job'[w].wf)
<1> DEFINE p == IF Enabled(wf) THEN "readPrimary" ELSE "refused"
           r == k \in Superseded(wf)
           j == [Idle EXCEPT !.pc = p, !.wf = wf, !.key = k, !.revoked = r]
<1>1. p \in {"readPrimary", "refused"}
  OBVIOUS
<1>2. Others(w) /\ job'[w] = j
  BY OthersKeep DEF Authenticate, Typed, TypeOK
<1>3. j.pc = p /\ j.wf = wf /\ j.key = k /\ j.revoked = r
  <2> HIDE DEF p, r
  <2> QED
    BY DEF Idle
<1>4. r => k \in Superseded(wf)
  OBVIOUS
<1>5. QED
  <2> HIDE DEF p, r, j
  <2> QED
    BY <1>1, <1>2, <1>3, <1>4

(* Every first step of a handler is of one of the kinds.                   *)
LEMMA BeginKind ==
  ASSUME Typed, WrittenOnce, NEW w \in Workers, Begin(w)
  PROVE  Kind(w)
<1>1. PICK wf \in Workflows :
        \/ \E allow \in BOOLEAN : UpdateWorkflow(w, wf, allow)
        \/ \E allow \in BOOLEAN, k1, k2 \in Keys : CreateWorkflow(w, wf, allow, k1, k2)
        \/ \E source \in Workflows, k1, k2 \in Keys : DuplicateWorkflow(w, source, wf, k1, k2)
        \/ \E s \in Slots, k \in Keys : RotateApiKey(w, wf, s, k)
        \/ DeleteWorkflow(w, wf)
        \/ \E k \in Keys : Authenticate(w, wf, k)
  BY DEF Begin
<1>2. CASE \E allow \in BOOLEAN : UpdateWorkflow(w, wf, allow)
  <2>1. UNCHANGED <<vault, minted, job>>
    BY <1>2 DEF UpdateWorkflow
  <2>2. Others(w) /\ Pending(w)' = Pending(w) /\ SameVersions
    BY <2>1, UnchangedVersions DEF Others, Pending, At
  <2>3. At(w, "storePrimary")' => job'[w].key # job'[w].spare
    BY <2>1 DEF WrittenOnce, At
  <2>4. {} \in SUBSET Keys /\ {} \cap minted = {} /\ minted' = minted \cup {}
    BY <2>1
  <2>5. QED
    BY <2>2, <2>3, <2>4 DEF Kind, Generates
<1>3. CASE \E allow \in BOOLEAN, k1, k2 \in Keys : CreateWorkflow(w, wf, allow, k1, k2)
  BY <1>3, CreateKind
<1>4. CASE \E source \in Workflows, k1, k2 \in Keys : DuplicateWorkflow(w, source, wf, k1, k2)
  BY <1>4, CreateKind DEF DuplicateWorkflow
<1>5. CASE \E s \in Slots, k \in Keys : RotateApiKey(w, wf, s, k)
  BY <1>5, RotateKind
<1>6. CASE DeleteWorkflow(w, wf)
  <2> DEFINE j == [Idle EXCEPT !.pc = "dropPrimary", !.wf = wf]
  <2>1. j.pc = "dropPrimary"
    BY DEF Idle
  <2>2. Others(w) /\ job'[w] = j
    BY <1>6, OthersKeep DEF DeleteWorkflow, Typed, TypeOK
  <2>3. Pending(w)' = {} /\ ~At(w, "storePrimary")'
    <3> HIDE DEF j
    <3> QED
      BY <2>1, <2>2 DEF Pending, At
  <2>4. QED
    BY <1>6, <2>2, <2>3, SettlesQuietly, UnchangedVersions DEF DeleteWorkflow
<1>7. CASE \E k \in Keys : Authenticate(w, wf, k)
  <2>1. PICK k \in Keys : Authenticate(w, wf, k)
    BY <1>7
  <2>2. Others(w) /\ job'[w].pc \in {"readPrimary", "refused"}
    BY <2>1, AuthenticateJob
  <2>3. Pending(w)' = {} /\ ~At(w, "storePrimary")'
    BY <2>2 DEF Pending, At
  <2>4. QED
    BY <2>1, <2>2, <2>3, SettlesQuietly, UnchangedVersions DEF Authenticate
<1>8. QED
  BY <1>1, <1>2, <1>3, <1>4, <1>5, <1>6, <1>7

(* Every later step of a handler is of one of the kinds.                   *)
LEMMA ContinueKind ==
  ASSUME Typed, WrittenOnce, NEW w \in Workers, Continue(w)
  PROVE  Kind(w)
<1>1. CASE StorePrimary(w)
  BY <1>1, StorePrimaryKind
<1>2. CASE StoreSecondary(w)
  BY <1>2, StoreSecondaryKind
<1>3. CASE UpdateKey(w)
  BY <1>3, UpdateKeyKind
<1>4. CASE InsertRow(w) \/ DeleteRow(w) \/ CommitRotation(w) \/ Answer(w)
  <2>1. Become(w, Idle) /\ UNCHANGED <<vault, minted>>
    BY <1>4 DEF InsertRow, DeleteRow, CommitRotation, Answer
  <2>2. QED
    BY <2>1, IdleSettles, UnchangedVersions, SettlesQuietly
<1>5. CASE DropPrimary(w) \/ DropSecondary(w)
  <2>1. \E s \in Slots : Drop(w, s)
    BY <1>5 DEF DropPrimary, DropSecondary, Slots
  <2>2. minted' = minted /\ (Goto(w, "dropSecondary") \/ Goto(w, "deleteRow"))
    BY <1>5 DEF DropPrimary, DropSecondary
  <2>3. Others(w) /\ Pending(w)' = {} /\ ~At(w, "storePrimary")'
    BY <2>2, GotoSettles
  <2>4. QED
    BY <2>1, <2>2, <2>3, DropKeepsVersions, SettlesQuietly
<1>6. CASE ReadPrimary(w) \/ ReadSecondary(w)
  <2>1. \E step \in {"accepted", "readSecondary", "refused"} : Goto(w, step)
    BY <1>6 DEF ReadPrimary, ReadSecondary
  <2>2. UNCHANGED <<vault, minted>>
    BY <1>6 DEF ReadPrimary, ReadSecondary
  <2>3. Others(w) /\ Pending(w)' = {} /\ ~At(w, "storePrimary")'
    BY <2>1, GotoSettles
  <2>4. QED
    BY <2>2, <2>3, UnchangedVersions, SettlesQuietly
<1>7. QED
  BY <1>1, <1>2, <1>3, <1>4, <1>5, <1>6 DEF Continue

(* A failure is of the quiet kind: what the vault has done stays.          *)
LEMMA AbortKind ==
  ASSUME Typed, NEW w \in Workers, Abort(w)
  PROVE  Kind(w)
BY IdleSettles, UnchangedVersions, SettlesQuietly DEF Abort

-----------------------------------------------------------------------------
(* What each step does to the request of a caller.                         *)
Follows(w) ==
  \/ job'[w] = job[w]
  \/ job'[w].pc \notin CallerSteps
  \/ /\ job'[w].pc # "accepted"
     /\ job'[w].revoked => job'[w].key \in Superseded(job'[w].wf)
  \/ /\ job[w].pc \in CallerSteps
     /\ job'[w].key = job[w].key /\ job'[w].wf = job[w].wf
     /\ job'[w].revoked = job[w].revoked
     /\ job'[w].pc = "accepted" => \E s \in Slots : Matches(w, s)

(* A caller's key is marked revoked on arrival exactly if it is superseded *)
(* by then.                                                                *)
LEMMA BeginFollows ==
  ASSUME Typed, NEW w \in Workers, Begin(w)
  PROVE  Follows(w)
<1>1. CASE job' = job
  BY <1>1 DEF Follows
<1>2. CASE \E wf \in Workflows, k \in Keys : Authenticate(w, wf, k)
  BY <1>2, AuthenticateJob DEF Follows
<1>3. CASE \E j : Become(w, j) /\ j.pc \notin CallerSteps
  BY <1>3, OthersKeep DEF Follows, Typed, TypeOK
<1>4. \/ job' = job
      \/ \E wf \in Workflows, k \in Keys : Authenticate(w, wf, k)
      \/ \E j : Become(w, j) /\ j.pc \notin CallerSteps
  <2>1. PICK wf \in Workflows :
          \/ \E allow \in BOOLEAN : UpdateWorkflow(w, wf, allow)
          \/ \E allow \in BOOLEAN, k1, k2 \in Keys : CreateWorkflow(w, wf, allow, k1, k2)
          \/ \E source \in Workflows, k1, k2 \in Keys : DuplicateWorkflow(w, source, wf, k1, k2)
          \/ \E s \in Slots, k \in Keys : RotateApiKey(w, wf, s, k)
          \/ DeleteWorkflow(w, wf)
          \/ \E k \in Keys : Authenticate(w, wf, k)
    BY DEF Begin
  <2>2. CASE \E allow \in BOOLEAN : UpdateWorkflow(w, wf, allow)
    BY <2>2 DEF UpdateWorkflow
  <2>3. CASE \/ \E allow \in BOOLEAN, k1, k2 \in Keys : CreateWorkflow(w, wf, allow, k1, k2)
             \/ \E source \in Workflows, k1, k2 \in Keys :
                  DuplicateWorkflow(w, source, wf, k1, k2)
    <3>1. PICK allow, k1, k2 : CreateWorkflow(w, wf, allow, k1, k2)
      BY <2>3 DEF DuplicateWorkflow
    <3> DEFINE j == [Idle EXCEPT !.pc = "storePrimary", !.wf = wf, !.key = k1,
                                 !.spare = k2, !.allow = allow]
    <3>2. j.pc = "storePrimary"
      BY DEF Idle
    <3>3. Become(w, j)
      BY <3>1 DEF CreateWorkflow
    <3> HIDE DEF j
    <3>4. QED
      BY <3>2, <3>3 DEF CallerSteps
  <2>4. CASE \E s \in Slots, k \in Keys : RotateApiKey(w, wf, s, k)
    <3>1. PICK s \in Slots, k \in Keys : RotateApiKey(w, wf, s, k)
      BY <2>4
    <3> DEFINE j == [Idle EXCEPT !.pc = "update", !.wf = wf, !.slot = s, !.key = k]
    <3>2. j.pc = "update"
      BY DEF Idle
    <3>3. Become(w, j)
      BY <3>1 DEF RotateApiKey
    <3> HIDE DEF j
    <3>4. QED
      BY <3>2, <3>3 DEF CallerSteps
  <2>5. CASE DeleteWorkflow(w, wf)
    <3> DEFINE j == [Idle EXCEPT !.pc = "dropPrimary", !.wf = wf]
    <3>2. j.pc = "dropPrimary"
      BY DEF Idle
    <3>3. Become(w, j)
      BY <2>5 DEF DeleteWorkflow
    <3> HIDE DEF j
    <3>4. QED
      BY <3>2, <3>3 DEF CallerSteps
  <2>6. QED
    BY <2>1, <2>2, <2>3, <2>4, <2>5
<1>5. QED
  BY <1>1, <1>2, <1>3, <1>4

(* From then on a caller keeps its key and its mark, and is accepted only  *)
(* with a key some secret has.                                             *)
LEMMA ContinueFollows ==
  ASSUME Typed, NEW w \in Workers, Continue(w) \/ Abort(w)
  PROVE  Follows(w)
<1>1. CASE Become(w, Idle)
  BY <1>1, IdleSettles DEF Follows, CallerSteps
<1>2. CASE \E step \in {"storeSecondary", "insert", "commit", "dropSecondary", "deleteRow"} :
             Goto(w, step)
  <2>1. PICK step \in {"storeSecondary", "insert", "commit", "dropSecondary", "deleteRow"} :
          job'[w] = [job[w] EXCEPT !.pc = step]
    BY <1>2, OthersKeep DEF Goto, Typed, TypeOK
  <2>2. job'[w].pc = step
    BY <2>1 DEF Typed, TypeOK, Job
  <2>3. QED
    BY <2>2 DEF Follows, CallerSteps
<1>3. CASE ReadPrimary(w) \/ ReadSecondary(w)
  <2>1. PICK step \in {"accepted", "readSecondary", "refused"} :
          Goto(w, step) /\ (step = "accepted" => \E s \in Slots : Matches(w, s))
    BY <1>3 DEF ReadPrimary, ReadSecondary, Slots
  <2>2. job'[w] = [job[w] EXCEPT !.pc = step]
    BY <2>1, GotoSettles
  <2>3. /\ job'[w].pc = step /\ job'[w].key = job[w].key
        /\ job'[w].wf = job[w].wf /\ job'[w].revoked = job[w].revoked
    BY <2>2 DEF Typed, TypeOK, Job
  <2>4. job[w].pc \in CallerSteps
    BY <1>3 DEF ReadPrimary, ReadSecondary, At, CallerSteps
  <2>5. QED
    BY <2>1, <2>3, <2>4 DEF Follows
<1>4. QED
  BY <1>1, <1>2, <1>3
  DEF Continue, Abort, StorePrimary, StoreSecondary, InsertRow, UpdateKey,
      CommitRotation, DropPrimary, DropSecondary, DeleteRow, Answer

(* A key read from a secret is not one that the workflow has superseded.   *)
LEMMA LatestMatches ==
  ASSUME ~PinnedUri, Typed, WrittenOnce, NEW w \in Workers, NEW s \in Slots, Matches(w, s)
  PROVE  job[w].key \notin Superseded(job[w].wf)
<1>1. job[w].wf \in Workflows
  BY DEF Typed, TypeOK, Job
<1>2. CASE job[w].key = NoSecret
  <2>1. \A t \in Slots : vault[job[w].wf][t].past \subseteq Values
    BY <1>1 DEF Typed, TypeOK, Secret
  <2>2. QED
    BY <1>2, <2>1, VaultConstants DEF Superseded, Slots
<1>3. CASE job[w].key # NoSecret
  <2>1. job[w].key = vault[job[w].wf][s].latest
    BY <1>3 DEF Matches, KeyOf, GetSecret
  <2>2. QED
    BY <1>1, <2>1 DEF WrittenOnce
<1>4. QED
  BY <1>2, <1>3

(* A caller whose key is superseded is never accepted: no secret has a     *)
(* superseded key as its latest version, and the latest version is what a  *)
(* URI names.                                                              *)
LEMMA FollowsKeeps ==
  ASSUME ~PinnedUri, Typed, Typed', RotationInvariant, NEW w \in Workers, Others(w), Follows(w),
         \A x \in Workflows : Superseded(x) \subseteq Superseded(x)'
  PROVE  RevokedStays' /\ RotationTakesEffect'
<1>1. ASSUME NEW u \in Workers
      PROVE  /\ job'[u].pc \in CallerSteps /\ job'[u].revoked =>
                  job'[u].key \in Superseded(job[u].wf)'
             /\ job'[u].pc = "accepted" => ~job'[u].revoked
  <2>0. job[u].wf \in Workflows /\ job'[u].wf \in Workflows
    BY DEF Typed, TypeOK, Job
  <2>1. CASE job'[u] = job[u]
    BY <2>0, <2>1 DEF RotationInvariant, RevokedStays, RotationTakesEffect, At, Superseded
  <2>2. CASE u = w /\ job'[w].pc \notin CallerSteps
    BY <2>2 DEF CallerSteps
  <2>3. CASE /\ u = w /\ job'[w].pc # "accepted"
             /\ job'[w].revoked => job'[w].key \in Superseded(job'[w].wf)
    BY <2>0, <2>3 DEF Superseded
  <2>4. CASE /\ u = w /\ job[w].pc \in CallerSteps
             /\ job'[w].key = job[w].key /\ job'[w].wf = job[w].wf
             /\ job'[w].revoked = job[w].revoked
             /\ job'[w].pc = "accepted" => \E s \in Slots : Matches(w, s)
    <3>1. job[w].revoked => job[w].key \in Superseded(job[w].wf)
      BY <2>4 DEF RotationInvariant, RevokedStays
    <3>2. job'[w].pc = "accepted" => job[w].key \notin Superseded(job[w].wf)
      BY <2>4, LatestMatches DEF RotationInvariant
    <3>3. QED
      BY <2>0, <2>4, <3>1, <3>2 DEF Superseded
  <2>5. QED
    BY <2>1, <2>2, <2>3, <2>4 DEF Others, Follows
<1>2. QED
  BY <1>1 DEF RevokedStays, RotationTakesEffect, At

(* Every step preserves the invariant.                                     *)
LEMMA RotationStep ==
  ASSUME ~PinnedUri, Typed, RotationInvariant, Next
  PROVE  RotationInvariant'
<1>1. PICK w \in Workers : Begin(w) \/ Continue(w) \/ Abort(w)
  BY DEF Next, Step
<1>2. Typed'
  BY StepType
<1>3. Kind(w)
  BY <1>1, BeginKind, ContinueKind, AbortKind DEF RotationInvariant
<1>4. Follows(w)
  BY <1>1, BeginFollows, ContinueFollows
<1>5. WrittenOnce' /\ \A x \in Workflows : Superseded(x) \subseteq Superseded(x)'
  BY <1>3, KindKeeps DEF RotationInvariant
<1>6. RevokedStays' /\ RotationTakesEffect'
  BY <1>2, <1>3, <1>4, <1>5, FollowsKeeps DEF Kind
<1>7. QED
  BY <1>5, <1>6 DEF RotationInvariant

(* The service starts with no key at all.                                  *)
LEMMA RotationInit == Init => RotationInvariant
<1> SUFFICES ASSUME Init PROVE RotationInvariant
  OBVIOUS
<1>1. Idle.pc = "idle" /\ Absent.past = {} /\ Absent.latest = NoSecret
  BY DEF Idle, Absent
<1>2. \A w \in Workers : job[w].pc = "idle" /\ Pending(w) = {}
  BY <1>1 DEF Init, Pending, At
<1>3. \A wf \in Workflows, s \in Slots :
        vault[wf][s].past = {} /\ vault[wf][s].latest = NoSecret /\ Versions(vault[wf][s]) = {}
  BY <1>1 DEF Init, Versions
<1>4. \A wf \in Workflows : Superseded(wf) = {}
  BY <1>3 DEF Superseded, Slots
<1>5. WrittenOnce
  BY <1>2, <1>3, <1>4 DEF WrittenOnce, At
<1>6. RevokedStays /\ RotationTakesEffect
  BY <1>2 DEF RevokedStays, RotationTakesEffect, At, CallerSteps
<1>7. QED
  BY <1>5, <1>6 DEF RotationInvariant

(* A step that changes nothing preserves the invariant.                    *)
LEMMA RotationStutter ==
  ASSUME RotationInvariant, UNCHANGED vars
  PROVE  RotationInvariant'
<1>1. row' = row /\ vault' = vault /\ minted' = minted /\ job' = job
  BY DEF vars
<1>2. \A w \in Workers : Pending(w)' = Pending(w)
  BY <1>1 DEF Pending, At
<1>3. \A wf \in Workflows : Superseded(wf)' = Superseded(wf)
  BY <1>1 DEF Superseded
<1>4. WrittenOnce'
  BY <1>1, <1>2, <1>3 DEF RotationInvariant, WrittenOnce, At
<1>5. RevokedStays' /\ RotationTakesEffect'
  BY <1>1 DEF RotationInvariant, RevokedStays, RotationTakesEffect, At, Superseded
<1>6. QED
  BY <1>4, <1>5 DEF RotationInvariant

(* Where a URI names the latest version of a secret, a rotation takes      *)
(* effect immediately, and every key is written once: a key that has been  *)
(* superseded before a request begins is not accepted by that request.     *)
THEOREM RotationIsImmediate ==
  ASSUME ~PinnedUri
  PROVE  Spec => [](WrittenOnce /\ RotationTakesEffect)
<1>1. Init => Typed /\ RotationInvariant
  BY InitType, RotationInit
<1>2. Typed /\ RotationInvariant /\ [Next]_vars => (Typed /\ RotationInvariant)'
  BY StepType, StutterType, RotationStep, RotationStutter
<1>3. Typed /\ RotationInvariant => WrittenOnce /\ RotationTakesEffect
  BY DEF RotationInvariant
<1>4. QED
  BY <1>1, <1>2, <1>3, PTL DEF Spec
-----------------------------------------------------------------------------
(* The other two invariants hold with either vault, so they are built on   *)
(* what does not depend on what a URI names: the versions of the two       *)
(* secrets of a workflow have no key in common, and a secret that was      *)
(* stored has the version its URI names.                                   *)
SlotsApart ==
  \A wf \in Workflows : \A s \in Slots : \A t \in Slots \ {s} :
    Versions(vault[wf][s]) \cap Versions(vault[wf][t]) = {}
WellStored(e) == e.state # "absent" => e.first \in Versions(e) /\ e.latest # NoSecret
SecretsStored == \A wf \in Workflows, s \in Slots : WellStored(vault[wf][s])

(* What a step can do to one secret.                                       *)
Evolves(e, f) ==
  \/ f = e \/ f = DeleteSecret(e)
  \/ \E v \in Values : f = StoreSecret(e, v) \/ (Updatable(e) /\ f = UpdateSecret(e, v))
VaultEvolves == \A wf \in Workflows, s \in Slots : Evolves(vault[wf][s], vault'[wf][s])

(* store_secret, update_secret and delete_secret keep a secret well        *)
(* stored, and no version is ever lost.                                    *)
LEMMA EvolvesWellStored ==
  ASSUME NEW e \in Secret, WellStored(e), NEW f, Evolves(e, f)
  PROVE  WellStored(f) /\ Versions(e) \subseteq Versions(f)
<1>1. CASE f = e \/ f = DeleteSecret(e)
  <2>1. f.first = e.first /\ f.latest = e.latest /\ f.past = e.past
        /\ (f.state # "absent" => e.state # "absent")
    BY <1>1 DEF DeleteSecret, Secret
  <2>2. QED
    BY <2>1 DEF WellStored, Versions
<1>2. ASSUME NEW v \in Values, f = StoreSecret(e, v)
      PROVE  WellStored(f) /\ Versions(e) \subseteq Versions(f)
  BY <1>2, VaultConstants DEF StoreSecret, WellStored, Versions
<1>3. ASSUME NEW v \in Values, Updatable(e), f = UpdateSecret(e, v)
      PROVE  WellStored(f) /\ Versions(e) \subseteq Versions(f)
  <2>1. f.first = e.first /\ f.latest = v /\ f.past = Versions(e) /\ e.state # "absent"
    BY <1>3 DEF UpdateSecret, Updatable, Secret
  <2>2. QED
    BY <2>1, VaultConstants DEF WellStored, Versions
<1>4. QED
  BY <1>1, <1>2, <1>3 DEF Evolves

(* A step that gives one slot another secret leaves the others alone.      *)
LEMMA SlotEvolves ==
  ASSUME Typed, NEW wf \in Workflows, NEW s \in Slots, NEW f,
         Evolves(vault[wf][s], f),
         vault' = vault \/ vault' = [vault EXCEPT ![wf][s] = f]
  PROVE  VaultEvolves
BY DEF Typed, TypeOK, VaultEvolves, Evolves

(* The first step of a handler does not touch the vault.                   *)
LEMMA BeginVault ==
  ASSUME NEW w, Begin(w)
  PROVE  vault' = vault
BY DEF Begin, UpdateWorkflow, DuplicateWorkflow, CreateWorkflow, RotateApiKey, DeleteWorkflow,
       Authenticate

(* Whatever a step does to the vault, it does through the three operations *)
(* on one secret.                                                          *)
LEMMA StepEvolves ==
  ASSUME Typed, NEW w \in Workers, Begin(w) \/ Continue(w) \/ Abort(w)
  PROVE  VaultEvolves
<1>0. job[w].wf \in Workflows /\ job[w].slot \in Slots /\ "primary" \in Slots
      /\ "secondary" \in Slots
  BY DEF Typed, TypeOK, Job, Slots
<1>1. CASE vault' = vault
  BY <1>1 DEF VaultEvolves, Evolves
<1>2. CASE StorePrimary(w)
  <2>1. Evolves(vault[job[w].wf]["primary"],
                StoreSecret(vault[job[w].wf]["primary"], job[w].key))
    BY <1>2 DEF Evolves, StorePrimary, Typed, Carries
  <2>2. QED
    BY <1>0, <1>2, <2>1, SlotEvolves DEF StorePrimary
<1>3. CASE StoreSecondary(w)
  <2>1. Evolves(vault[job[w].wf]["secondary"],
                StoreSecret(vault[job[w].wf]["secondary"], job[w].spare))
    BY <1>3 DEF Evolves, StoreSecondary, Typed, Carries
  <2>2. QED
    BY <1>0, <1>3, <2>1, SlotEvolves DEF StoreSecondary
<1>4. CASE UpdateKey(w) /\ vault' # vault
  <2>1. Evolves(vault[job[w].wf][job[w].slot],
                UpdateSecret(vault[job[w].wf][job[w].slot], job[w].key))
    BY <1>4 DEF Evolves, UpdateKey, Typed, Carries
  <2>2. QED
    BY <1>0, <1>4, <2>1, SlotEvolves DEF UpdateKey
<1>5. ASSUME NEW s \in Slots, Drop(w, s)
      PROVE  VaultEvolves
  <2>1. Evolves(vault[job[w].wf][s], DeleteSecret(vault[job[w].wf][s]))
    BY DEF Evolves
  <2>2. QED
    BY <1>0, <1>5, <2>1, SlotEvolves DEF Drop
<1>6. CASE DropPrimary(w) \/ DropSecondary(w)
  BY <1>0, <1>5, <1>6 DEF DropPrimary, DropSecondary
<1>7. QED
  BY <1>1, <1>2, <1>3, <1>4, <1>6, BeginVault
  DEF Continue, Abort, InsertRow, UpdateKey, CommitRotation, DeleteRow, ReadPrimary,
      ReadSecondary, Answer

(* A new version is a key that no secret has had.                          *)
LEMMA KindKeepsSlotsApart ==
  ASSUME Typed, WrittenOnce, SlotsApart, NEW w \in Workers, Kind(w)
  PROVE  SlotsApart'
<1>1. CASE Generates(w)
  BY <1>1, SameSuperseded DEF Generates, SlotsApart
<1>2. CASE WritesKey(w)
  <2>1. PICK wf \in Workflows, s \in Slots, v \in Pending(w) : Writes(wf, s, v)
    BY <1>2 DEF WritesKey
  <2>2. /\ Versions(vault'[wf][s]) = Versions(vault[wf][s]) \cup {v}
        /\ \A x \in Workflows, t \in Slots : x # wf \/ t # s => vault'[x][t] = vault[x][t]
    BY <2>1, PendingTyped, WrittenVersions
  <2>3. \A x \in Workflows, t \in Slots : v \notin Versions(vault[x][t])
    BY <2>1 DEF WrittenOnce
  <2>4. QED
    BY <2>2, <2>3 DEF SlotsApart
<1>3. QED
  BY <1>1, <1>2 DEF Kind

(* Every key is written once, the secrets are well stored and share no     *)
(* key.                                                                    *)
Kept == WrittenOnce /\ SlotsApart /\ SecretsStored

(* The service starts with nothing stored.                                 *)
LEMMA KeptInit == Init => Kept
<1> SUFFICES ASSUME Init PROVE Kept
  OBVIOUS
<1>1. \A wf \in Workflows, s \in Slots : vault[wf][s] = Absent
  BY DEF Init
<1>2. Versions(Absent) = {} /\ WellStored(Absent)
  BY DEF Absent, Versions, WellStored
<1>3. QED
  BY <1>1, <1>2, RotationInit DEF Kept, SlotsApart, SecretsStored, RotationInvariant

(* Every step keeps it so, and loses no version.                           *)
LEMMA KeptStep ==
  ASSUME Typed, Kept, Next
  PROVE  /\ Kept'
         /\ \A wf \in Workflows, s \in Slots :
              Versions(vault[wf][s]) \subseteq Versions(vault'[wf][s])
<1>1. PICK w \in Workers : Begin(w) \/ Continue(w) \/ Abort(w)
  BY DEF Next, Step
<1>2. Kind(w)
  BY <1>1, BeginKind, ContinueKind, AbortKind DEF Kept
<1>3. WrittenOnce' /\ SlotsApart'
  BY <1>2, KindKeeps, KindKeepsSlotsApart DEF Kept
<1>4. VaultEvolves
  BY <1>1, StepEvolves
<1>5. ASSUME NEW wf \in Workflows, NEW s \in Slots
      PROVE  WellStored(vault'[wf][s]) /\ Versions(vault[wf][s]) \subseteq Versions(vault'[wf][s])
  BY <1>4, EvolvesWellStored DEF Kept, SecretsStored, VaultEvolves, Typed, TypeOK
<1>6. SecretsStored'
  BY <1>5 DEF SecretsStored
<1>7. QED
  BY <1>3, <1>5, <1>6 DEF Kept

(* A step that changes nothing keeps it so.                                *)
LEMMA KeptStutter ==
  ASSUME Kept, UNCHANGED vars
  PROVE  Kept'
<1>1. vault' = vault /\ job' = job /\ minted' = minted
  BY DEF vars
<1>2. \A w \in Workers : Pending(w)' = Pending(w)
  BY <1>1 DEF Pending, At
<1>3. \A wf \in Workflows : Superseded(wf)' = Superseded(wf)
  BY <1>1 DEF Superseded
<1>4. WrittenOnce'
  BY <1>1, <1>2, <1>3 DEF Kept, WrittenOnce, At
<1>5. QED
  BY <1>1, <1>4 DEF Kept, SlotsApart, SecretsStored

(* With either vault and whatever fails, a key that was generated is       *)
(* written at most once: it is the version of one secret only, and once    *)
(* superseded it is never again the latest version of any.                 *)
THEOREM KeysAreWrittenOnce == Spec => []WrittenOnce
<1>1. Init => Typed /\ Kept
  BY InitType, KeptInit
<1>2. Typed /\ Kept /\ [Next]_vars => (Typed /\ Kept)'
  BY StepType, StutterType, KeptStep, KeptStutter
<1>3. Kept => WrittenOnce
  BY DEF Kept
<1>4. QED
  BY <1>1, <1>2, <1>3, PTL DEF Spec

-----------------------------------------------------------------------------
(* What a step does to the request of a caller, as far as the answer is    *)
(* concerned.                                                              *)
Asks(w) ==
  \/ job'[w] = job[w]
  \/ job'[w].pc \notin CallerSteps
  \/ /\ job'[w].pc \in {"readPrimary", "refused"}
     /\ job'[w].key \in Keys
     /\ job'[w].pc = "refused" => ~Enabled(job'[w].wf)
     /\ row' = row
  \/ /\ job[w].pc \in CallerSteps
     /\ job'[w].key = job[w].key /\ job'[w].wf = job[w].wf
     /\ UNCHANGED <<row, vault>>
     /\ \/ job'[w].pc = "accepted"
        \/ job'[w].pc = "readSecondary" /\ Mismatches(w, "primary")
        \/ job'[w].pc = "refused" /\ At(w, "readSecondary") /\ Mismatches(w, "secondary")

(* A caller is refused at once only if the workflow takes no keys.         *)
LEMMA BeginAsks ==
  ASSUME Typed, NEW w \in Workers, Begin(w)
  PROVE  Asks(w)
<1>1. CASE job'[w] = job[w] \/ job'[w].pc \notin CallerSteps
  BY <1>1 DEF Asks
<1>2. ASSUME NEW wf \in Workflows, NEW k \in Keys, Authenticate(w, wf, k)
      PROVE  Asks(w)
  <2> DEFINE p == IF Enabled(wf) THEN "readPrimary" ELSE "refused"
             r == k \in Superseded(wf)
             j == [Idle EXCEPT !.pc = p, !.wf = wf, !.key = k, !.revoked = r]
  <2>1. job'[w] = j
    BY <1>2, OthersKeep DEF Authenticate, Typed, TypeOK
  <2>2. j.pc = p /\ j.wf = wf /\ j.key = k
    <3> HIDE DEF p, r
    <3> QED
      BY DEF Idle
  <2>3. p \in {"readPrimary", "refused"} /\ (p = "refused" => ~Enabled(wf))
    OBVIOUS
  <2>4. row' = row
    BY <1>2 DEF Authenticate
  <2>5. QED
    <3> HIDE DEF p, r, j
    <3> QED
      BY <2>1, <2>2, <2>3, <2>4 DEF Asks
<1>3. \/ job'[w] = job[w] \/ job'[w].pc \notin CallerSteps
      \/ \E wf \in Workflows, k \in Keys : Authenticate(w, wf, k)
  <2>1. CASE \E wf \in Workflows, k \in Keys : Authenticate(w, wf, k)
    BY <2>1
  <2>2. CASE \E wf \in Workflows, allow \in BOOLEAN : UpdateWorkflow(w, wf, allow)
    BY <2>2 DEF UpdateWorkflow
  <2>3. ASSUME NEW j, Become(w, j), j.pc \in {"storePrimary", "update", "dropPrimary"}
        PROVE  job'[w].pc \notin CallerSteps
    BY <2>3, OthersKeep DEF Typed, TypeOK, CallerSteps
  <2>4. ASSUME NEW wf, NEW allow, NEW k1, NEW k2, CreateWorkflow(w, wf, allow, k1, k2)
        PROVE  job'[w].pc \notin CallerSteps
    <3> DEFINE j == [Idle EXCEPT !.pc = "storePrimary", !.wf = wf, !.key = k1,
                                 !.spare = k2, !.allow = allow]
    <3>1. j.pc = "storePrimary" /\ Become(w, j)
      BY <2>4 DEF Idle, CreateWorkflow
    <3> HIDE DEF j
    <3>2. QED
      BY <2>3, <3>1
  <2>5. ASSUME NEW wf, NEW s, NEW k, RotateApiKey(w, wf, s, k)
        PROVE  job'[w].pc \notin CallerSteps
    <3> DEFINE j == [Idle EXCEPT !.pc = "update", !.wf = wf, !.slot = s, !.key = k]
    <3>1. j.pc = "update" /\ Become(w, j)
      BY <2>5 DEF Idle, RotateApiKey
    <3> HIDE DEF j
    <3>2. QED
      BY <2>3, <3>1
  <2>6. ASSUME NEW wf, DeleteWorkflow(w, wf)
        PROVE  job'[w].pc \notin CallerSteps
    <3> DEFINE j == [Idle EXCEPT !.pc = "dropPrimary", !.wf = wf]
    <3>1. j.pc = "dropPrimary" /\ Become(w, j)
      BY <2>6 DEF Idle, DeleteWorkflow
    <3> HIDE DEF j
    <3>2. QED
      BY <2>3, <3>1
  <2>7. QED
    BY <2>1, <2>2, <2>4, <2>5, <2>6 DEF Begin, DuplicateWorkflow
<1>4. QED
  BY <1>1, <1>2, <1>3

(* Later it is refused only if neither secret, when it was read, was its   *)
(* key.                                                                    *)
LEMMA ContinueAsks ==
  ASSUME Typed, NEW w \in Workers, Continue(w) \/ Abort(w)
  PROVE  Asks(w)
<1>1. CASE Become(w, Idle)
  BY <1>1, IdleSettles DEF Asks, CallerSteps
<1>2. CASE \E step \in {"storeSecondary", "insert", "commit", "dropSecondary", "deleteRow"} :
             Goto(w, step)
  <2>1. PICK step \in {"storeSecondary", "insert", "commit", "dropSecondary", "deleteRow"} :
          job'[w] = [job[w] EXCEPT !.pc = step]
    BY <1>2, OthersKeep DEF Goto, Typed, TypeOK
  <2>2. job'[w].pc = step
    BY <2>1 DEF Typed, TypeOK, Job
  <2>3. QED
    BY <2>2 DEF Asks, CallerSteps
<1>3. CASE ReadPrimary(w) \/ ReadSecondary(w)
  <2>1. PICK step \in {"accepted", "readSecondary", "refused"} :
          /\ Goto(w, step)
          /\ \/ step = "accepted"
             \/ step = "readSecondary" /\ Mismatches(w, "primary")
             \/ step = "refused" /\ At(w, "readSecondary") /\ Mismatches(w, "secondary")
    BY <1>3 DEF ReadPrimary, ReadSecondary
  <2>2. job'[w] = [job[w] EXCEPT !.pc = step]
    BY <2>1, GotoSettles
  <2>3. job'[w].pc = step /\ job'[w].key = job[w].key /\ job'[w].wf = job[w].wf
    BY <2>2 DEF Typed, TypeOK, Job
  <2>4. job[w].pc \in CallerSteps /\ UNCHANGED <<row, vault>>
    BY <1>3 DEF ReadPrimary, ReadSecondary, At, CallerSteps
  <2>5. QED
    BY <2>1, <2>3, <2>4 DEF Asks
<1>4. QED
  BY <1>1, <1>2, <1>3
  DEF Continue, Abort, StorePrimary, StoreSecondary, InsertRow, UpdateKey,
      CommitRotation, DropPrimary, DropSecondary, DeleteRow, Answer

(* A caller that was not answered yet and whose key has opened the         *)
(* workflow all along is not refused: when the primary key was another,    *)
(* its key is the secondary key, and stays it.                             *)
CallersServed ==
  \A w \in Workers :
    /\ job[w].pc \in CallerSteps => job[w].key \in Keys
    /\ ~faulty =>
         /\ At(w, "refused") => ~steady[w]
         /\ At(w, "readSecondary") /\ steady[w] =>
              KeyOf(job[w].wf, "secondary") = job[w].key

(* What a URI names is a version of its secret.                            *)
LEMMA KeyAmongVersions ==
  ASSUME Typed, Kept, NEW wf \in Workflows, NEW s \in Slots, KeyOf(wf, s) # NoSecret
  PROVE  KeyOf(wf, s) \in Versions(vault[wf][s])
<1>1. vault[wf][s] \in Secret /\ WellStored(vault[wf][s])
  BY DEF Typed, TypeOK, Kept, SecretsStored
<1>2. QED
  BY <1>1 DEF KeyOf, GetSecret, WellStored, Versions

KeyAfter(wf, s) == GetSecret(vault'[wf][s])

(* The key of a request that waits for its secondary read cannot become    *)
(* the primary key: it is a version of the secondary one.                  *)
LEMMA SecondaryStays ==
  ASSUME Typed, Typed', Kept, Kept', NEW wf \in Workflows, NEW k \in Keys,
         \A s \in Slots : Versions(vault[wf][s]) \subseteq Versions(vault'[wf][s]),
         KeyOf(wf, "secondary") = k, \E s \in Slots : KeyAfter(wf, s) = k
  PROVE  KeyAfter(wf, "secondary") = k
<1>0. k # NoSecret
  BY VaultConstants
<1>1. k \in Versions(vault'[wf]["secondary"])
  BY <1>0, KeyAmongVersions DEF Slots
<1>2. CASE KeyAfter(wf, "primary") = k
  <2>1. KeyAfter(wf, "primary") \in Versions(vault'[wf]["primary"])
    <3>1. vault'[wf]["primary"] \in Secret /\ WellStored(vault'[wf]["primary"])
      BY DEF Typed, TypeOK, Kept, SecretsStored, Slots
    <3>2. QED
      BY <1>0, <1>2, <3>1 DEF KeyAfter, GetSecret, WellStored, Versions
  <2>2. Versions(vault'[wf]["primary"]) \cap Versions(vault'[wf]["secondary"]) = {}
    BY DEF Kept, SlotsApart, Slots
  <2>3. QED
    BY <1>1, <1>2, <2>1, <2>2
<1>3. QED
  BY <1>2 DEF Slots

(* Every step serves every caller as it should.                            *)
LEMMA ServedStep ==
  ASSUME Typed, Kept, CallersServed, Next
  PROVE  CallersServed'
<1>1. PICK w \in Workers : Begin(w) \/ Continue(w) \/ Abort(w)
  BY DEF Next, Step
<1>2. Others(w) /\ Asks(w)
  BY <1>1, BeginKind, ContinueKind, AbortKind, BeginAsks, ContinueAsks DEF Kept, Kind
<1>3. /\ Typed' /\ Kept' /\ faulty' = faulty
      /\ \A wf \in Workflows, s \in Slots :
           Versions(vault[wf][s]) \subseteq Versions(vault'[wf][s])
  BY StepType, KeptStep DEF Next
<1>4. ASSUME NEW u \in Workers
      PROVE  /\ job'[u].pc \in CallerSteps => job'[u].key \in Keys
             /\ ~faulty =>
                  /\ job'[u].pc = "refused" => ~steady'[u]
                  /\ job'[u].pc = "readSecondary" /\ steady'[u] =>
                       KeyAfter(job'[u].wf, "secondary") = job'[u].key
  <2>0. job[u].wf \in Workflows /\ job'[u].wf \in Workflows
    BY <1>3 DEF Typed, TypeOK, Job
  <2>1. steady'[u] => /\ At(u, "idle") \/ steady[u]
                      /\ row'[job'[u].wf].state = "live" /\ row'[job'[u].wf].allow
                      /\ \E s \in Slots : KeyAfter(job'[u].wf, s) = job'[u].key
    BY DEF Next, Watch, Opens, Enabled, Live, KeyOf, KeyAfter
  <2>2. CASE job'[u] = job[u]
    <3>1. CASE job[u].pc = "readSecondary" /\ steady'[u] /\ ~faulty
      <4>1. steady[u] /\ job[u].key \in Keys
        BY <2>1, <3>1 DEF At, CallersServed, CallerSteps
      <4>2. KeyOf(job[u].wf, "secondary") = job[u].key
        BY <3>1, <4>1 DEF CallersServed, At
      <4>3. \E s \in Slots : KeyAfter(job[u].wf, s) = job[u].key
        BY <2>1, <2>2, <3>1
      <4>4. KeyAfter(job[u].wf, "secondary") = job[u].key
        BY <1>3, <2>0, <4>1, <4>2, <4>3, SecondaryStays
      <4>5. QED
        BY <2>2, <3>1, <4>1, <4>4
    <3>2. QED
      BY <2>1, <2>2, <3>1 DEF CallersServed, At
  <2>3. CASE u = w /\ job'[w].pc \notin CallerSteps
    BY <2>3 DEF CallerSteps
  <2>4. CASE /\ u = w /\ job'[w].pc \in {"readPrimary", "refused"}
             /\ job'[w].key \in Keys
             /\ job'[w].pc = "refused" => ~Enabled(job'[w].wf)
             /\ row' = row
    BY <2>1, <2>4 DEF Enabled, Live
  <2>5. CASE /\ u = w /\ job[w].pc \in CallerSteps
             /\ job'[w].key = job[w].key /\ job'[w].wf = job[w].wf
             /\ UNCHANGED <<row, vault>>
             /\ \/ job'[w].pc = "accepted"
                \/ job'[w].pc = "readSecondary" /\ Mismatches(w, "primary")
                \/ job'[w].pc = "refused" /\ At(w, "readSecondary")
                     /\ Mismatches(w, "secondary")
    <3>1. job[w].key \in Keys
      BY <2>5 DEF CallersServed
    <3>2. steady'[w] => steady[w]
      BY <2>1, <2>5 DEF At, CallerSteps
    <3>3. \A s \in Slots : KeyAfter(job'[w].wf, s) = KeyOf(job[w].wf, s)
      BY <2>5 DEF KeyOf, KeyAfter
    <3>4. ~faulty /\ job'[w].pc = "readSecondary" /\ steady'[w] =>
            KeyOf(job[w].wf, "secondary") = job[w].key
      BY <2>1, <2>5, <3>3 DEF Mismatches, Matches, Slots
    <3>5. ~faulty /\ job'[w].pc = "refused" => ~steady'[w]
      BY <2>5, <3>2 DEF Mismatches, Matches, CallersServed
    <3>6. QED
      BY <2>5, <3>1, <3>3, <3>4, <3>5 DEF Slots
  <2>6. QED
    BY <1>2, <2>2, <2>3, <2>4, <2>5 DEF Others, Asks
<1>5. QED
  BY <1>3, <1>4 DEF CallersServed, At, KeyOf, KeyAfter

(* With either vault, as long as nothing fails, the two keys are rotated   *)
(* without interruption: a caller whose key opens the workflow at every    *)
(* moment of its request is not refused, though the keys are read one      *)
(* after the other.                                                        *)
THEOREM RotationDoesNotInterrupt == Spec => []RotationWithoutInterruption
<1>1. Init => Typed /\ Kept /\ CallersServed
  <2>1. Init => CallersServed
    BY DEF Init, CallersServed, CallerSteps, Idle, At
  <2>2. QED
    BY <2>1, InitType, KeptInit
<1>2. Typed /\ Kept /\ CallersServed /\ [Next]_vars => (Typed /\ Kept /\ CallersServed)'
  <2>1. CallersServed /\ UNCHANGED vars => CallersServed'
    BY DEF vars, CallersServed, KeyOf, At
  <2>2. QED
    BY <2>1, StepType, StutterType, KeptStep, KeptStutter, ServedStep
<1>3. CallersServed => RotationWithoutInterruption
  BY DEF CallersServed, RotationWithoutInterruption
<1>4. QED
  BY <1>1, <1>2, <1>3, PTL DEF Spec

-----------------------------------------------------------------------------
(* The life of a workflow: its row is inserted once both keys are stored,  *)
(* the keys are deleted before the row is.  The conjuncts about the        *)
(* handlers that create, rotate and delete keys are what the last one      *)
(* rests on: a key is only rotated or deleted where the row was inserted,  *)
(* so neither touches a workflow that is still being created.              *)
Creating(w) == job[w].pc \in {"storePrimary", "storeSecondary", "insert"}
Removing(w) == job[w].pc \in {"dropPrimary", "dropSecondary", "deleteRow"}
Inserted(wf) == row[wf].state \in {"live", "deleted"}

CreatedByOne ==
  \A w \in Workers : Creating(w) =>
    /\ row[job[w].wf].state = "named"
    /\ \A v \in Workers \ {w} : Creating(v) => job[v].wf # job[w].wf
CreatedInOrder ==
  \A w \in Workers :
    /\ At(w, "storeSecondary") \/ At(w, "insert") =>
         vault[job[w].wf]["primary"].state = "live"
    /\ At(w, "insert") => vault[job[w].wf]["secondary"].state = "live"
WorkedOnInserted ==
  \A w \in Workers : At(w, "update") \/ Removing(w) => Inserted(job[w].wf)
KeysStored ==
  ~faulty => \A wf \in Workflows : Live(wf) /\ ~Deleting(wf) =>
    \A s \in Slots : vault[wf][s].state = "live"
Lives == CreatedByOne /\ CreatedInOrder /\ WorkedOnInserted /\ KeysStored

SameStates == \A wf \in Workflows : row'[wf].state = row[wf].state
SameJobs == \A w \in Workers : job'[w].pc = job[w].pc /\ job'[w].wf = job[w].wf

(* A step that neither writes to the vault nor changes which rows there    *)
(* are.                                                                    *)
LEMMA QuietLives ==
  ASSUME Typed, Typed', Lives, faulty' = faulty, SameStates, vault' = vault,
         NEW w \in Workers, Others(w), ~Creating(w)',
         At(w, "update")' \/ Removing(w)' => Inserted(job'[w].wf),
         Removing(w) => faulty \/ (Removing(w)' /\ job'[w].wf = job[w].wf)
  PROVE  Lives'
<1>0. \A v \in Workers : job[v].wf \in Workflows /\ job'[v].wf \in Workflows
  BY DEF Typed, TypeOK, Job
<1>1. CreatedByOne'
  BY <1>0 DEF Lives, CreatedByOne, Creating, Others, SameStates
<1>2. CreatedInOrder'
  BY <1>0 DEF Lives, CreatedInOrder, Creating, Others, At
<1>3. WorkedOnInserted'
  BY <1>0 DEF Lives, WorkedOnInserted, Inserted, Removing, At, Others, SameStates
<1>4. \A wf \in Workflows : ~faulty /\ Deleting(wf) => Deleting(wf)'
  BY DEF Deleting, Removing, Others
<1>5. KeysStored'
  BY <1>4 DEF Lives, KeysStored, Live, SameStates
<1>6. QED
  BY <1>1, <1>2, <1>3, <1>5 DEF Lives

(* create_workflow begins: nobody else creates the workflow.               *)
LEMMA CreateLives ==
  ASSUME Typed, Typed', Lives, faulty' = faulty, NEW w \in Workers, NEW wf \in Workflows,
         NEW allow, NEW k1, NEW k2, CreateWorkflow(w, wf, allow, k1, k2)
  PROVE  Lives'
<1> DEFINE j == [Idle EXCEPT !.pc = "storePrimary", !.wf = wf, !.key = k1,
                             !.spare = k2, !.allow = allow]
<1>1. j.pc = "storePrimary" /\ j.wf = wf
  BY DEF Idle
<1>2. Others(w) /\ job'[w] = j
  BY OthersKeep DEF CreateWorkflow, Typed, TypeOK
<1> HIDE DEF j
<1>3. /\ row[wf].state = "none" /\ row'[wf].state = "named"
      /\ \A x \in Workflows \ {wf} : row'[x] = row[x]
  BY DEF CreateWorkflow, Typed, TypeOK, Row
<1>4. At(w, "idle") /\ vault' = vault
  BY DEF CreateWorkflow
<1>5. \A v \in Workers : job[v].wf \in Workflows
  BY DEF Typed, TypeOK, Job
<1>6. CreatedByOne'
  BY <1>1, <1>2, <1>3, <1>5 DEF Lives, CreatedByOne, Creating, Others
<1>7. CreatedInOrder'
  BY <1>1, <1>2, <1>4 DEF Lives, CreatedInOrder, At, Others
<1>8. WorkedOnInserted'
  BY <1>1, <1>2, <1>3, <1>5 DEF Lives, WorkedOnInserted, Inserted, Removing, At, Others
<1>9. \A x \in Workflows : Deleting(x) => Deleting(x)'
  BY <1>2, <1>4 DEF Deleting, At, Others
<1>10. KeysStored'
  BY <1>3, <1>4, <1>9 DEF Lives, KeysStored, Live
<1>11. QED
  BY <1>6, <1>7, <1>8, <1>10 DEF Lives

(* A key goes to the vault of a workflow that is being created: nobody     *)
(* else works on its vault.                                                *)
LEMMA StoreLives ==
  ASSUME Typed, Typed', Lives, faulty' = faulty, row' = row, NEW w \in Workers, Others(w),
         job'[w].wf = job[w].wf, NEW s \in Slots,
         \/ At(w, "storePrimary") /\ s = "primary" /\ job'[w].pc = "storeSecondary"
         \/ At(w, "storeSecondary") /\ s = "secondary" /\ job'[w].pc = "insert",
         vault'[job[w].wf][s].state = "live",
         \A x \in Workflows, t \in Slots :
           x # job[w].wf \/ t # s => vault'[x][t] = vault[x][t]
  PROVE  Lives'
<1>0. \A v \in Workers : job[v].wf \in Workflows /\ job'[v].wf \in Workflows
  BY DEF Typed, TypeOK, Job
<1>1. Creating(w) /\ Creating(w)' /\ ~Removing(w) /\ ~Removing(w)'
  BY DEF Creating, Removing, At
<1>2. CreatedByOne'
  BY <1>1 DEF Lives, CreatedByOne, Creating, Others
<1>3. CreatedInOrder'
  <2>1. ASSUME NEW v \in Workers, v # w, At(v, "storeSecondary") \/ At(v, "insert")
        PROVE  job[v].wf # job[w].wf
    BY <1>1, <2>1 DEF Lives, CreatedByOne, Creating, At
  <2>2. ASSUME NEW v \in Workers, v # w
        PROVE  /\ At(v, "storeSecondary")' \/ At(v, "insert")' =>
                    vault'[job'[v].wf]["primary"].state = "live"
               /\ At(v, "insert")' => vault'[job'[v].wf]["secondary"].state = "live"
    BY <1>0, <2>1, <2>2 DEF Lives, CreatedInOrder, At, Others, Slots
  <2>3. /\ vault'[job'[w].wf]["primary"].state = "live"
        /\ At(w, "insert")' => vault'[job'[w].wf]["secondary"].state = "live"
    BY <1>0 DEF Lives, CreatedInOrder, At, Slots
  <2>4. QED
    BY <2>2, <2>3 DEF CreatedInOrder, At
<1>4. WorkedOnInserted'
  BY <1>0, <1>1 DEF Lives, WorkedOnInserted, Inserted, Creating, Removing, At, Others
<1>5. \A x \in Workflows : Deleting(x) => Deleting(x)'
  BY <1>1 DEF Deleting, Removing, Others
<1>6. row[job[w].wf].state = "named"
  BY <1>1 DEF Lives, CreatedByOne
<1>7. KeysStored'
  BY <1>5, <1>6 DEF Lives, KeysStored, Live
<1>8. QED
  BY <1>2, <1>3, <1>4, <1>7 DEF Lives

(* The row is inserted: both keys are in the vault.                        *)
LEMMA InsertLives ==
  ASSUME Typed, Typed', Lives, faulty' = faulty, NEW w \in Workers, InsertRow(w)
  PROVE  Lives'
<1>0. \A v \in Workers : job[v].wf \in Workflows /\ job'[v].wf \in Workflows
  BY DEF Typed, TypeOK, Job
<1>1. Others(w) /\ job'[w].pc = "idle" /\ vault' = vault /\ At(w, "insert")
  BY IdleSettles DEF InsertRow
<1>2. /\ row'[job[w].wf].state = "live"
      /\ \A x \in Workflows : x # job[w].wf => row'[x] = row[x]
  BY <1>0 DEF InsertRow, Typed, TypeOK
<1>3. \A v \in Workers : v # w /\ Creating(v) => job[v].wf # job[w].wf
  BY <1>1 DEF Lives, CreatedByOne, Creating, At
<1>4. CreatedByOne'
  BY <1>0, <1>1, <1>2, <1>3 DEF Lives, CreatedByOne, Creating, Others
<1>5. CreatedInOrder'
  BY <1>1 DEF Lives, CreatedInOrder, At, Others
<1>6. WorkedOnInserted'
  BY <1>0, <1>1, <1>2 DEF Lives, WorkedOnInserted, Inserted, Removing, At, Others
<1>7. \A x \in Workflows : Deleting(x) => Deleting(x)'
  BY <1>1 DEF Deleting, At, Others
<1>8. vault[job[w].wf]["primary"].state = "live" /\ vault[job[w].wf]["secondary"].state = "live"
  BY <1>1 DEF Lives, CreatedInOrder
<1>9. KeysStored'
  BY <1>1, <1>2, <1>7, <1>8 DEF Lives, KeysStored, Live, Slots
<1>10. QED
  BY <1>4, <1>5, <1>6, <1>9 DEF Lives

(* A new version is written, or the vault refuses: a key that is there     *)
(* stays there.                                                            *)
LEMMA UpdateLives ==
  ASSUME Typed, Typed', Lives, faulty' = faulty, NEW w \in Workers, UpdateKey(w)
  PROVE  Lives'
<1>0. \A v \in Workers : job[v].wf \in Workflows /\ job'[v].wf \in Workflows
  BY DEF Typed, TypeOK, Job
<1>1. At(w, "update") /\ row' = row
  BY DEF UpdateKey
<1>2. Others(w) /\ job'[w].pc \in {"commit", "idle"}
  <2>1. CASE Goto(w, "commit")
    BY <2>1, GotoSettles DEF Typed, TypeOK, Job
  <2>2. QED
    BY <2>1, IdleSettles DEF UpdateKey
<1>3. \A x \in Workflows, t \in Slots :
        vault[x][t].state = "live" => vault'[x][t].state = "live"
  <2>1. \A v : \A e \in Secret : UpdateSecret(e, v).state = "live"
    BY DEF UpdateSecret, Secret
  <2>2. PICK s, v :
          /\ s \in Slots
          /\ \/ vault' = vault
             \/ vault' = [vault EXCEPT ![job[w].wf][s] = UpdateSecret(@, v)]
    BY DEF UpdateKey, Typed, TypeOK, Job
  <2>3. QED
    BY <1>0, <2>1, <2>2 DEF Typed, TypeOK
<1>4. CreatedByOne'
  BY <1>1, <1>2 DEF Lives, CreatedByOne, Creating, Others
<1>5. CreatedInOrder'
  BY <1>0, <1>2, <1>3 DEF Lives, CreatedInOrder, At, Others, Slots
<1>6. WorkedOnInserted'
  BY <1>1, <1>2 DEF Lives, WorkedOnInserted, Inserted, Removing, At, Others
<1>7. \A x \in Workflows : Deleting(x) => Deleting(x)'
  BY <1>1, <1>2 DEF Deleting, At, Others
<1>8. KeysStored'
  BY <1>1, <1>3, <1>7 DEF Lives, KeysStored, Live
<1>9. QED
  BY <1>4, <1>5, <1>6, <1>8 DEF Lives

(* A key of a workflow that is being deleted is dropped.                   *)
LEMMA DropLives ==
  ASSUME Typed, Typed', Lives, faulty' = faulty, NEW w \in Workers,
         DropPrimary(w) \/ DropSecondary(w)
  PROVE  Lives'
<1>0. \A v \in Workers : job[v].wf \in Workflows /\ job'[v].wf \in Workflows
  BY DEF Typed, TypeOK, Job
<1>1. row' = row /\ Removing(w)
  BY DEF DropPrimary, DropSecondary, Removing, At
<1>2. Others(w) /\ Removing(w)' /\ ~Creating(w)' /\ job'[w].wf = job[w].wf
  <2>1. PICK step \in {"dropSecondary", "deleteRow"} : Goto(w, step)
    BY DEF DropPrimary, DropSecondary
  <2>2. Others(w) /\ job'[w] = [job[w] EXCEPT !.pc = step]
    BY <2>1, GotoSettles
  <2>3. job'[w].pc = step /\ job'[w].wf = job[w].wf
    BY <2>2 DEF Typed, TypeOK, Job
  <2>4. QED
    BY <2>2, <2>3 DEF Removing, Creating
<1>3. \A x \in Workflows, t \in Slots : x # job[w].wf => vault'[x][t] = vault[x][t]
  BY <1>0 DEF DropPrimary, DropSecondary, Drop, Typed, TypeOK
<1>4. Inserted(job[w].wf)
  BY <1>1 DEF Lives, WorkedOnInserted
<1>5. \A v \in Workers : Creating(v) => v # w /\ job[v].wf # job[w].wf
  BY <1>1, <1>4 DEF Lives, CreatedByOne, Inserted, Creating, Removing
<1>6. CreatedByOne'
  BY <1>1, <1>2 DEF Lives, CreatedByOne, Creating, Others
<1>7. CreatedInOrder'
  BY <1>0, <1>2, <1>3, <1>5 DEF Lives, CreatedInOrder, Creating, At, Others, Slots
<1>8. WorkedOnInserted'
  BY <1>1, <1>2, <1>4 DEF Lives, WorkedOnInserted, Inserted, Removing, At, Others
<1>9. /\ \A x \in Workflows : Deleting(x) => Deleting(x)'
      /\ Deleting(job[w].wf)
  BY <1>1, <1>2 DEF Deleting, Removing, Others
<1>10. KeysStored'
  BY <1>1, <1>3, <1>9 DEF Lives, KeysStored, Live
<1>11. QED
  BY <1>6, <1>7, <1>8, <1>10 DEF Lives

(* The row is deleted, and does not come back.                             *)
LEMMA DeleteRowLives ==
  ASSUME Typed, Typed', Lives, faulty' = faulty, NEW w \in Workers, DeleteRow(w)
  PROVE  Lives'
<1>0. \A v \in Workers : job[v].wf \in Workflows /\ job'[v].wf \in Workflows
  BY DEF Typed, TypeOK, Job
<1>1. Others(w) /\ job'[w].pc = "idle" /\ vault' = vault /\ Removing(w)
  BY IdleSettles DEF DeleteRow, Removing, At
<1>2. /\ row'[job[w].wf].state = "deleted"
      /\ \A x \in Workflows : x # job[w].wf => row'[x] = row[x]
  BY <1>0 DEF DeleteRow, Typed, TypeOK, Row
<1>3. \A v \in Workers : Creating(v) => job[v].wf # job[w].wf
  BY <1>1 DEF Lives, CreatedByOne, WorkedOnInserted, Inserted, Creating
<1>4. CreatedByOne'
  BY <1>0, <1>1, <1>2, <1>3 DEF Lives, CreatedByOne, Creating, Others
<1>5. CreatedInOrder'
  BY <1>1 DEF Lives, CreatedInOrder, At, Others
<1>6. WorkedOnInserted'
  BY <1>0, <1>1, <1>2 DEF Lives, WorkedOnInserted, Inserted, Removing, At, Others
<1>7. \A x \in Workflows : x # job[w].wf /\ Deleting(x) => Deleting(x)'
  BY <1>1 DEF Deleting, Others
<1>8. KeysStored'
  BY <1>1, <1>2, <1>7 DEF Lives, KeysStored, Live
<1>9. QED
  BY <1>4, <1>5, <1>6, <1>8 DEF Lives

(* The first step of every handler keeps a workflow's life in order.       *)
LEMMA BeginLives ==
  ASSUME Typed, Typed', Lives, faulty' = faulty, NEW w \in Workers, Begin(w)
  PROVE  Lives'
<1>1. PICK wf \in Workflows :
        \/ \E allow \in BOOLEAN : UpdateWorkflow(w, wf, allow)
        \/ \E allow \in BOOLEAN, k1, k2 \in Keys : CreateWorkflow(w, wf, allow, k1, k2)
        \/ \E source \in Workflows, k1, k2 \in Keys : DuplicateWorkflow(w, source, wf, k1, k2)
        \/ \E s \in Slots, k \in Keys : RotateApiKey(w, wf, s, k)
        \/ DeleteWorkflow(w, wf)
        \/ \E k \in Keys : Authenticate(w, wf, k)
  BY DEF Begin
<1>2. CASE \E allow \in BOOLEAN : UpdateWorkflow(w, wf, allow)
  <2>1. At(w, "idle") /\ job' = job /\ vault' = vault /\ SameStates
    BY <1>2 DEF UpdateWorkflow, SameStates, Typed, TypeOK, Row
  <2>2. Others(w) /\ ~Creating(w)' /\ ~Removing(w)' /\ ~Removing(w) /\ ~At(w, "update")'
    BY <2>1 DEF Others, Creating, Removing, At
  <2>3. QED
    BY <2>1, <2>2, QuietLives
<1>3. CASE \/ \E allow \in BOOLEAN, k1, k2 \in Keys : CreateWorkflow(w, wf, allow, k1, k2)
           \/ \E source \in Workflows, k1, k2 \in Keys : DuplicateWorkflow(w, source, wf, k1, k2)
  BY <1>3, CreateLives DEF DuplicateWorkflow
<1>4. ASSUME NEW j, Become(w, j), j.pc \in {"update", "dropPrimary"} => j.wf = wf /\ Live(wf),
             j.pc \in {"update", "dropPrimary", "readPrimary", "refused"},
             At(w, "idle"), row' = row, vault' = vault
      PROVE  Lives'
  <2>1. Others(w) /\ job'[w] = j
    BY <1>4, OthersKeep DEF Typed, TypeOK
  <2>2. ~Creating(w)' /\ ~Removing(w)
    BY <1>4, <2>1 DEF Creating, Removing, At
  <2>3. At(w, "update")' \/ Removing(w)' => Inserted(job'[w].wf)
    BY <1>4, <2>1 DEF Removing, At, Inserted, Live
  <2>4. QED
    BY <1>4, <2>1, <2>2, <2>3, QuietLives DEF SameStates
<1>5. CASE \E s \in Slots, k \in Keys : RotateApiKey(w, wf, s, k)
  <2>1. PICK s \in Slots, k \in Keys : RotateApiKey(w, wf, s, k)
    BY <1>5
  <2> DEFINE j == [Idle EXCEPT !.pc = "update", !.wf = wf, !.slot = s, !.key = k]
  <2>2. j.pc = "update" /\ j.wf = wf /\ Become(w, j)
    BY <2>1 DEF Idle, RotateApiKey
  <2> HIDE DEF j
  <2>3. QED
    BY <1>4, <2>1, <2>2 DEF RotateApiKey, Enabled
<1>6. CASE DeleteWorkflow(w, wf)
  <2> DEFINE j == [Idle EXCEPT !.pc = "dropPrimary", !.wf = wf]
  <2>2. j.pc = "dropPrimary" /\ j.wf = wf /\ Become(w, j)
    BY <1>6 DEF Idle, DeleteWorkflow
  <2> HIDE DEF j
  <2>3. QED
    BY <1>4, <1>6, <2>2 DEF DeleteWorkflow
<1>7. CASE \E k \in Keys : Authenticate(w, wf, k)
  <2>1. PICK k \in Keys : Authenticate(w, wf, k)
    BY <1>7
  <2>2. \E j : Become(w, j) /\ job'[w] = j
    BY <2>1, OthersKeep DEF Authenticate, Typed, TypeOK
  <2>3. job'[w].pc \in {"readPrimary", "refused"}
    BY <2>1, AuthenticateJob
  <2>4. QED
    BY <1>4, <2>1, <2>2, <2>3 DEF Authenticate
<1>8. QED
  BY <1>1, <1>2, <1>3, <1>5, <1>6, <1>7

(* So does every later step, and a failure.                                *)
LEMMA ContinueLives ==
  ASSUME Typed, Typed', Lives, faulty' = faulty, NEW w \in Workers, Continue(w) \/ Abort(w)
  PROVE  Lives'
<1>0. job[w].wf \in Workflows
  BY DEF Typed, TypeOK, Job
<1>1. CASE StorePrimary(w) \/ StoreSecondary(w)
  <2>1. PICK s, step, k :
          /\ s \in Slots /\ step \in {"storeSecondary", "insert"}
          /\ \/ At(w, "storePrimary") /\ s = "primary" /\ step = "storeSecondary"
             \/ At(w, "storeSecondary") /\ s = "secondary" /\ step = "insert"
          /\ vault' = [vault EXCEPT ![job[w].wf][s] = StoreSecret(@, k)]
          /\ Goto(w, step)
    BY <1>1 DEF StorePrimary, StoreSecondary, Slots
  <2>2. Others(w) /\ job'[w] = [job[w] EXCEPT !.pc = step]
    BY <2>1, OthersKeep DEF Goto, Typed, TypeOK
  <2>3. job'[w].pc = step /\ job'[w].wf = job[w].wf
    BY <2>2 DEF Typed, TypeOK, Job
  <2>4. /\ vault'[job[w].wf][s].state = "live"
        /\ \A x \in Workflows, t \in Slots :
             x # job[w].wf \/ t # s => vault'[x][t] = vault[x][t]
    BY <1>0, <2>1 DEF Typed, TypeOK, StoreSecret
  <2>5. row' = row
    BY <1>1 DEF StorePrimary, StoreSecondary
  <2>6. QED
    BY <2>1, <2>2, <2>3, <2>4, <2>5, StoreLives
<1>2. CASE InsertRow(w)
  BY <1>2, InsertLives
<1>3. CASE UpdateKey(w)
  BY <1>3, UpdateLives
<1>4. CASE DropPrimary(w) \/ DropSecondary(w)
  BY <1>4, DropLives
<1>5. CASE DeleteRow(w)
  BY <1>5, DeleteRowLives
<1>6. CASE CommitRotation(w) \/ Answer(w) \/ Abort(w)
  <2>1. Others(w) /\ job'[w].pc = "idle" /\ row' = row /\ vault' = vault
    BY <1>6, IdleSettles DEF CommitRotation, Answer, Abort
  <2>2. Removing(w) => faulty
    BY <1>6 DEF CommitRotation, Answer, Abort, Removing, At
  <2>3. ~Creating(w)' /\ ~Removing(w)' /\ ~At(w, "update")'
    BY <2>1 DEF Creating, Removing, At
  <2>4. QED
    BY <2>1, <2>2, <2>3, QuietLives DEF SameStates
<1>7. CASE ReadPrimary(w) \/ ReadSecondary(w)
  <2>1. PICK step \in {"accepted", "readSecondary", "refused"} : Goto(w, step)
    BY <1>7 DEF ReadPrimary, ReadSecondary
  <2>2. Others(w) /\ job'[w] = [job[w] EXCEPT !.pc = step]
    BY <2>1, GotoSettles
  <2>3. job'[w].pc = step
    BY <2>2 DEF Typed, TypeOK, Job
  <2>4. ~Creating(w)' /\ ~Removing(w)' /\ ~At(w, "update")' /\ ~Removing(w)
    BY <1>7, <2>3 DEF ReadPrimary, ReadSecondary, Creating, Removing, At
  <2>5. row' = row /\ vault' = vault
    BY <1>7 DEF ReadPrimary, ReadSecondary
  <2>6. QED
    BY <2>2, <2>4, <2>5, QuietLives DEF SameStates
<1>8. QED
  BY <1>1, <1>2, <1>3, <1>4, <1>5, <1>6, <1>7 DEF Continue

(* With either vault, as long as nothing fails, a workflow that nobody is  *)
(* deleting has both its keys in the vault.                                *)
THEOREM WorkflowsHaveTheirKeys == Spec => []LiveWorkflowsHaveKeys
<1>1. Init => Typed /\ Kept /\ Lives
  <2>1. Init => Lives
    BY DEF Init, Lives, CreatedByOne, CreatedInOrder, WorkedOnInserted, KeysStored, Creating,
           Removing, Live, Idle, At
  <2>2. QED
    BY <2>1, InitType, KeptInit
<1>2. Typed /\ Kept /\ Lives /\ [Next]_vars => (Typed /\ Kept /\ Lives)'
  <2>1. Lives /\ UNCHANGED vars => Lives'
    BY DEF vars, Lives, CreatedByOne, CreatedInOrder, WorkedOnInserted, KeysStored, Creating,
           Removing, Inserted, Live, Deleting, At
  <2>2. Typed /\ Lives /\ Next => Lives'
    BY StepType, BeginLives, ContinueLives DEF Next, Step
  <2>3. QED
    BY <2>1, <2>2, StepType, StutterType, KeptStep, KeptStutter
<1>3. Typed /\ Kept /\ Lives => LiveWorkflowsHaveKeys
  <2> SUFFICES ASSUME Typed, Kept, Lives, ~faulty,
                      NEW wf \in Workflows, Live(wf), ~Deleting(wf), NEW s \in Slots
               PROVE  KeyOf(wf, s) # NoSecret
    BY DEF LiveWorkflowsHaveKeys
  <2>1. vault[wf][s].state = "live" /\ vault[wf][s] \in Secret /\ WellStored(vault[wf][s])
    BY DEF Lives, KeysStored, Typed, TypeOK, Kept, SecretsStored
  <2>2. Versions(vault[wf][s]) \subseteq Values
    BY <2>1, VersionsType
  <2>3. QED
    BY <2>1, <2>2, VaultConstants DEF KeyOf, GetSecret, WellStored
<1>4. QED
  BY <1>1, <1>2, <1>3, PTL DEF Spec
==============================================================================
