--------------------------- MODULE CredentialsProofs ---------------------------
(***************************************************************************)
(* What holds of Credentials for any credentials, types, secrets and       *)
(* workers: its types and the order of the two stores whatever fails; that *)
(* live credentials can be used and deleted ones leave nothing while       *)
(* nothing fails; and that secrets fit as long as no type changes.         *)
(***************************************************************************)
EXTENDS Credentials, TLAPS

(* Who is about to insert a row, and who holds the lock of a deleted one.  *)
Creating == {"store", "insert"}
Locking == {"vaultDelete", "commitDelete"}

(* What a handler at work on a credential with row r and secret s knows.   *)
JobFits(j, r, s) ==
  /\ j.pc \in Creating => r.state = "named" /\ j.type \in Types
  /\ j.pc \in {"store", "vaultUpdate"} => j.secret \in Values
  /\ j.pc = "insert" => s.state = "live"
  /\ j.pc \notin Creating \cup {"idle"} => r.state \in {"live", "deleted"}

(* A row is inserted after its secret, and a stored secret has a value.    *)
RowFits(r, s) ==
  /\ r.state = "live" => r.type \in Types
  /\ r.state \in {"live", "deleted"} => s.state # "absent"
  /\ s.state # "absent" => s.first \in Values /\ s.latest \in Values

Shaped ==
  /\ row \in [Ids -> Row] /\ vault \in [Ids -> Secret] /\ job \in [Workers -> Job]
Kept ==
  /\ Shaped
  /\ \A w \in Workers : JobFits(job[w], row[job[w].cred], vault[job[w].cred])
  /\ \A c \in Ids : RowFits(row[c], vault[c])
  /\ \A steps \in {Creating, Locking} : \A v, w \in Workers :
       job[v].pc \in steps /\ job[w].pc \in steps /\ job[v].cred = job[w].cred => v = w

(* While nothing fails, a secret outlives the row, or goes with it under   *)
(* its lock.                                                               *)
Usable == \A c \in Ids : Live(c) /\ ~Locked(c) => vault[c].state = "live"

(* While nothing fails, and where a deleted secret cannot be written to,   *)
(* the secret of a row that is gone, or about to go, is gone.              *)
Gone ==
  /\ \A c \in Ids : row[c].state = "deleted" => vault[c].state # "live"
  /\ \A w \in Workers : At(w, "commitDelete") => vault[job[w].cred].state # "live"

(* As long as no type changes, all that is stored, about to be stored or   *)
(* read is of the type of the row.                                         *)
TypeFits(j, r, s) ==
  /\ j.pc = "store" => Valid(j.type, j.secret)
  /\ j.pc = "insert" => Valid(j.type, s.first) /\ Valid(j.type, s.latest)
  /\ j.pc = "vaultUpdate" => Valid(r.type, j.secret)
  /\ j.pc \in {"vaultUpdate", "rowUpdate"} => j.type = NoType
  /\ j.pc \in {"read", "got"} => j.type = r.type
  /\ j.pc = "got" => j.secret = NoSecret \/ Valid(j.type, j.secret)
Fitting ==
  /\ \A w \in Workers : TypeFits(job[w], row[job[w].cred], vault[job[w].cred])
  /\ \A c \in Ids : row[c].state \in {"live", "deleted"} =>
       Valid(row[c].type, vault[c].first) /\ Valid(row[c].type, vault[c].latest)

-----------------------------------------------------------------------------
(* Steps of one worker on one credential.                                  *)

(* Worker w turns to j and leaves c with row r and secret s.               *)
Moved(w, c, r, s, j) ==
  /\ job' = [job EXCEPT ![w] = j]
  /\ row' = [row EXCEPT ![c] = r]
  /\ vault' = [vault EXCEPT ![c] = s]

(* The steps that two workers may not be at with the same credential.      *)
Alone(w, c, pc) ==
  \A steps \in {Creating, Locking} : pc \in steps =>
    \A v \in Workers \ {w} : job[v].pc \in steps => job[v].cred # c

LEMMA MoveKept ==
  ASSUME Kept, NEW w \in Workers, NEW c \in Ids, NEW r \in Row, NEW s \in Secret,
         NEW j \in Job, Moved(w, c, r, s, j), j.pc = "idle" \/ j.cred = c,
         JobFits(j, r, s), RowFits(r, s), Alone(w, c, j.pc),
         \A v \in Workers \ {w} : job[v].cred = c => JobFits(job[v], r, s)
  PROVE  Kept'
<1>1. Shaped'
  BY DEF Kept, Shaped, Moved
<1>2. /\ \A d \in Ids : row'[d] = IF d = c THEN r ELSE row[d]
      /\ \A d \in Ids : vault'[d] = IF d = c THEN s ELSE vault[d]
      /\ \A v \in Workers : job'[v] = IF v = w THEN j ELSE job[v]
  BY DEF Kept, Shaped, Moved
<1>3. \A v \in Workers : job[v].cred \in Ids /\ j.cred \in Ids
  BY DEF Kept, Shaped, Job
<1>4. ASSUME NEW v \in Workers
      PROVE  JobFits(job'[v], row'[job'[v].cred], vault'[job'[v].cred])
  <2>1. CASE v # w
    BY <1>2, <1>3, <2>1 DEF Kept
  <2>2. CASE v = w /\ j.cred = c
    BY <1>2, <2>2
  <2>3. CASE v = w /\ j.pc = "idle"
    BY <1>2, <2>3 DEF JobFits, Creating
  <2> QED BY <2>1, <2>2, <2>3
<1>5. \A d \in Ids : RowFits(row'[d], vault'[d])
  BY <1>2 DEF Kept
<1>6. ASSUME NEW steps \in {Creating, Locking}, NEW v \in Workers, NEW x \in Workers,
             job'[v].pc \in steps, job'[x].pc \in steps, job'[v].cred = job'[x].cred
      PROVE  v = x
  <2>1. "idle" \notin steps
    BY DEF Creating, Locking
  <2>2. CASE v # w /\ x # w
    BY <1>2, <1>6, <2>2 DEF Kept
  <2>3. CASE v = w \/ x = w
    BY <1>2, <1>6, <2>1, <2>3 DEF Alone
  <2> QED BY <2>2, <2>3
<1> QED BY <1>1, <1>4, <1>5, <1>6 DEF Kept

LEMMA MoveUsable ==
  ASSUME Shaped, Usable, NEW w \in Workers, NEW c \in Ids, NEW r \in Row, NEW s \in Secret,
         NEW j \in Job, Moved(w, c, r, s, j), j.pc = "idle" \/ j.cred = c,
         job[w].pc \in Locking => job[w].cred = c,
         r.state = "live" /\ j.pc \notin Locking
           /\ (\A v \in Workers \ {w} : ~(job[v].pc \in Locking /\ job[v].cred = c))
           => s.state = "live"
  PROVE  Usable'
<1>2. /\ \A d \in Ids : row'[d] = IF d = c THEN r ELSE row[d]
      /\ \A d \in Ids : vault'[d] = IF d = c THEN s ELSE vault[d]
      /\ \A v \in Workers : job'[v] = IF v = w THEN j ELSE job[v]
  BY DEF Shaped, Moved
<1> SUFFICES ASSUME NEW d \in Ids, row'[d].state = "live",
                    \A v \in Workers : ~(job'[v].cred = d /\ job'[v].pc \in Locking)
             PROVE  vault'[d].state = "live"
  BY DEF Usable, Live, Locked, Locking
<1>3. CASE d = c
  <2>1. j.pc \notin Locking
    BY <1>2, <1>3 DEF Locking
  <2>2. \A v \in Workers \ {w} : ~(job[v].pc \in Locking /\ job[v].cred = c)
    BY <1>2, <1>3
  <2> QED BY <1>2, <1>3, <2>1, <2>2
<1>4. CASE d # c
  <2>1. ~Locked(d)
    BY <1>2, <1>4 DEF Locked, Locking
  <2> QED BY <1>2, <1>4, <2>1 DEF Usable, Live
<1> QED BY <1>3, <1>4

LEMMA MoveGone ==
  ASSUME Shaped, Gone, NEW w \in Workers, NEW c \in Ids, NEW r \in Row, NEW s \in Secret,
         NEW j \in Job, Moved(w, c, r, s, j),
         r.state = "deleted" => s.state # "live",
         j.pc = "commitDelete" => j.cred = c /\ s.state # "live",
         s.state = "live" => \A v \in Workers \ {w} :
           job[v].cred = c => job[v].pc # "commitDelete"
  PROVE  Gone'
<1>2. /\ \A d \in Ids : row'[d] = IF d = c THEN r ELSE row[d]
      /\ \A d \in Ids : vault'[d] = IF d = c THEN s ELSE vault[d]
      /\ \A v \in Workers : job'[v] = IF v = w THEN j ELSE job[v]
  BY DEF Shaped, Moved
<1>3. \A v \in Workers : job[v].cred \in Ids
  BY DEF Shaped, Job
<1>4. \A d \in Ids : row'[d].state = "deleted" => vault'[d].state # "live"
  BY <1>2 DEF Gone
<1>5. ASSUME NEW v \in Workers, job'[v].pc = "commitDelete"
      PROVE  vault'[job'[v].cred].state # "live"
  BY <1>2, <1>3, <1>5 DEF Gone, At
<1> QED BY <1>4, <1>5 DEF Gone, At

LEMMA MoveFitting ==
  ASSUME Shaped, Fitting, NEW w \in Workers, NEW c \in Ids, NEW r \in Row, NEW s \in Secret,
         NEW j \in Job, Moved(w, c, r, s, j), j.pc = "idle" \/ j.cred = c,
         TypeFits(j, r, s),
         r.state \in {"live", "deleted"} => Valid(r.type, s.first) /\ Valid(r.type, s.latest),
         \A v \in Workers \ {w} : job[v].cred = c => TypeFits(job[v], r, s)
  PROVE  Fitting'
<1>2. /\ \A d \in Ids : row'[d] = IF d = c THEN r ELSE row[d]
      /\ \A d \in Ids : vault'[d] = IF d = c THEN s ELSE vault[d]
      /\ \A v \in Workers : job'[v] = IF v = w THEN j ELSE job[v]
  BY DEF Shaped, Moved
<1>3. \A v \in Workers : job[v].cred \in Ids
  BY DEF Shaped, Job
<1>4. ASSUME NEW v \in Workers
      PROVE  TypeFits(job'[v], row'[job'[v].cred], vault'[job'[v].cred])
  <2>1. CASE v # w
    BY <1>2, <1>3, <2>1 DEF Fitting
  <2>2. CASE v = w /\ j.cred = c
    BY <1>2, <2>2
  <2>3. CASE v = w /\ j.pc = "idle"
    BY <1>2, <2>3 DEF TypeFits
  <2> QED BY <2>1, <2>2, <2>3
<1>5. \A d \in Ids : row'[d].state \in {"live", "deleted"} =>
        Valid(row'[d].type, vault'[d].first) /\ Valid(row'[d].type, vault'[d].latest)
  BY <1>2 DEF Fitting
<1> QED BY <1>4, <1>5 DEF Fitting, Valid

-----------------------------------------------------------------------------
(* What every step has to preserve, and on which assumptions.              *)
Preserved ==
  /\ Kept'
  /\ Faults = FALSE /\ Usable => Usable'
  /\ Faults = FALSE /\ PinnedUri = TRUE /\ Gone => Gone'
  /\ Retyping = FALSE /\ Fitting => Fitting'

LEMMA IdleIsAJob == Idle \in Job /\ Idle.pc = "idle"
BY CredentialConstants DEF Idle, Job

(* A step that writes to neither store.                                    *)
LEMMA TurnKeeps ==
  ASSUME Kept, NEW w \in Workers, NEW j \in Job, Become(w, j), UNCHANGED <<row, vault>>,
         JobFits(j, row[j.cred], vault[j.cred]), Alone(w, j.cred, j.pc),
         Faults = FALSE /\ job[w].pc \in Locking =>
           j.pc \in Locking /\ j.cred = job[w].cred,
         j.pc # "commitDelete",
         Retyping = FALSE /\ Fitting => TypeFits(j, row[j.cred], vault[j.cred])
  PROVE  Preserved
<1> DEFINE c == j.cred r == row[c] s == vault[c]
<1>1. /\ c \in Ids /\ r \in Row /\ s \in Secret /\ Shaped
      /\ \A v \in Workers : job[v].cred \in Ids
  BY DEF Kept, Shaped, Job
<1>2. Moved(w, c, r, s, j)
  BY <1>1 DEF Moved, Become, Shaped
<1>3. RowFits(r, s) /\ \A v \in Workers : job[v].cred = c => JobFits(job[v], r, s)
  BY <1>1 DEF Kept
<1> HIDE DEF c, r, s
<1>4. JobFits(j, r, s) /\ Alone(w, c, j.pc) /\ j.cred = c
  BY DEF c, r, s
<1>5. Kept'
  BY <1>1, <1>2, <1>3, <1>4, MoveKept
<1>6. ASSUME Faults = FALSE, Usable PROVE Usable'
  <2>1. job[w].pc \in Locking => job[w].cred = c /\ j.pc \in Locking
    BY <1>4, <1>6
  <2>2. r.state = "live" /\ j.pc \notin Locking
          /\ (\A v \in Workers \ {w} : ~(job[v].pc \in Locking /\ job[v].cred = c))
          => s.state = "live"
    BY <1>1, <1>6, <2>1 DEF Usable, Live, Locked, Locking, r, s
  <2> QED BY <1>1, <1>2, <1>4, <1>6, <2>1, <2>2, MoveUsable
<1>7. ASSUME Gone PROVE Gone'
  <2>1. /\ r.state = "deleted" => s.state # "live"
        /\ s.state = "live" => \A v \in Workers : job[v].cred = c => job[v].pc # "commitDelete"
    BY <1>1, <1>7 DEF Gone, At, r, s
  <2> QED BY <1>1, <1>2, <1>7, <2>1, MoveGone
<1>8. ASSUME Retyping = FALSE, Fitting PROVE Fitting'
  <2>1. /\ r.state \in {"live", "deleted"} => Valid(r.type, s.first) /\ Valid(r.type, s.latest)
        /\ \A v \in Workers : job[v].cred = c => TypeFits(job[v], r, s)
        /\ TypeFits(j, r, s)
    BY <1>1, <1>8 DEF Fitting, c, r, s
  <2> QED BY <1>1, <1>2, <1>4, <1>8, <2>1, MoveFitting
<1> QED BY <1>5, <1>6, <1>7, <1>8 DEF Preserved

(* A worker that comes to rest without holding a lock, or by failing.      *)
LEMMA RestKeeps ==
  ASSUME Kept, NEW w \in Workers, Become(w, Idle), UNCHANGED <<row, vault>>,
         Faults = FALSE => job[w].pc \notin Locking
  PROVE  Preserved
<1>1. /\ JobFits(Idle, row[Idle.cred], vault[Idle.cred])
      /\ TypeFits(Idle, row[Idle.cred], vault[Idle.cred])
      /\ Alone(w, Idle.cred, Idle.pc)
  BY IdleIsAJob DEF JobFits, TypeFits, Alone, Creating, Locking
<1> QED BY <1>1, IdleIsAJob, TurnKeeps

(* The steps that write to neither store.                                  *)
LEMMA QuietStepsKeep ==
  ASSUME Kept, NEW w \in Workers,
         \/ \E c \in Ids : \/ \E type \in Types \cup {NoType}, secret \in Values \cup {NoSecret} :
                                UpdateCredential(w, c, type, secret)
                           \/ DeleteCredential(w, c) \/ GetCredential(w, c)
         \/ RowDelete(w) \/ ReadSecret(w) \/ Answer(w) \/ Abort(w)
  PROVE  Preserved
<1> USE DEF At
<1>0. /\ Shaped /\ job[w] \in Job /\ job[w].cred \in Ids
      /\ JobFits(job[w], row[job[w].cred], vault[job[w].cred])
  BY DEF Kept, Shaped, Job
<1>1. ASSUME NEW c \in Ids, NEW type \in Types \cup {NoType},
             NEW secret \in Values \cup {NoSecret}, UpdateCredential(w, c, type, secret)
      PROVE  Preserved
  <2> DEFINE pc == IF secret = NoSecret THEN "rowUpdate" ELSE "vaultUpdate"
             j == [Idle EXCEPT !.pc = pc, !.cred = c, !.type = type, !.secret = secret]
  <2>1. /\ j \in Job /\ j.pc = pc /\ j.cred = c /\ j.type = type /\ j.secret = secret
        /\ pc \in {"rowUpdate", "vaultUpdate"} /\ (pc = "vaultUpdate" => secret # NoSecret)
    BY IdleIsAJob DEF Idle, Job
  <2>2. Become(w, j) /\ UNCHANGED <<row, vault>> /\ row[c].state = "live"
        /\ job[w].pc = "idle" /\ (Retyping \/ type = NoType)
        /\ (secret # NoSecret => Valid(IF type # NoType THEN type ELSE row[c].type, secret))
    BY <1>1 DEF UpdateCredential, Live
  <2> HIDE DEF j, pc
  <2>3. JobFits(j, row[c], vault[c]) /\ Alone(w, c, j.pc)
    BY <2>1, <2>2 DEF JobFits, Alone, Creating, Locking
  <2>4. Retyping = FALSE => TypeFits(j, row[c], vault[c])
    BY <2>1, <2>2 DEF TypeFits, Valid
  <2>5. job[w].pc \notin Locking /\ j.pc # "commitDelete"
    BY <2>1, <2>2 DEF Locking
  <2> QED BY <2>1, <2>2, <2>3, <2>4, <2>5, TurnKeeps
<1>2. ASSUME NEW c \in Ids, DeleteCredential(w, c) PROVE Preserved
  <2> DEFINE j == [Idle EXCEPT !.pc = "rowDelete", !.cred = c]
  <2>1. j \in Job /\ j.pc = "rowDelete" /\ j.cred = c
    BY IdleIsAJob DEF Idle, Job
  <2>2. Become(w, j) /\ UNCHANGED <<row, vault>> /\ row[c].state = "live" /\ job[w].pc = "idle"
    BY <1>2 DEF DeleteCredential, Live
  <2> HIDE DEF j
  <2>3. JobFits(j, row[c], vault[c]) /\ Alone(w, c, j.pc) /\ TypeFits(j, row[c], vault[c])
    BY <2>1, <2>2 DEF JobFits, TypeFits, Alone, Creating, Locking
  <2>5. job[w].pc \notin Locking
    BY <2>2 DEF Locking
  <2> QED BY <2>1, <2>2, <2>3, <2>5, TurnKeeps
<1>3. ASSUME NEW c \in Ids, GetCredential(w, c) PROVE Preserved
  <2> DEFINE j == [Idle EXCEPT !.pc = "read", !.cred = c, !.type = row[c].type]
  <2>0. row[c].type \in Types \cup {NoType}
    BY <1>0 DEF Shaped, Row
  <2>1. j \in Job /\ j.pc = "read" /\ j.cred = c /\ j.type = row[c].type
    BY <2>0, IdleIsAJob DEF Idle, Job
  <2>2. Become(w, j) /\ UNCHANGED <<row, vault>> /\ row[c].state = "live" /\ job[w].pc = "idle"
    BY <1>3 DEF GetCredential, Live
  <2> HIDE DEF j
  <2>3. JobFits(j, row[c], vault[c]) /\ Alone(w, c, j.pc) /\ TypeFits(j, row[c], vault[c])
    BY <2>1, <2>2 DEF JobFits, TypeFits, Alone, Creating, Locking
  <2>5. job[w].pc \notin Locking
    BY <2>2 DEF Locking
  <2> QED BY <2>1, <2>2, <2>3, <2>5, TurnKeeps
<1>4. CASE RowDelete(w)
  <2> DEFINE j == [job[w] EXCEPT !.pc = "vaultDelete"]
             c == job[w].cred
  <2>1. j \in Job /\ j.pc = "vaultDelete" /\ j.cred = c
    BY <1>0 DEF Job
  <2>2. Become(w, j) /\ UNCHANGED <<row, vault>> /\ job[w].pc = "rowDelete" /\ ~Locked(c)
    BY <1>4 DEF RowDelete, Goto
  <2> HIDE DEF j
  <2>3. JobFits(j, row[c], vault[c]) /\ TypeFits(j, row[c], vault[c])
    BY <1>0, <2>1, <2>2 DEF JobFits, TypeFits, Creating
  <2>4. Alone(w, c, j.pc)
    BY <2>1, <2>2 DEF Alone, Locked, Locking, Creating
  <2>5. job[w].pc \notin Locking
    BY <2>2 DEF Locking
  <2> QED BY <2>1, <2>2, <2>3, <2>4, <2>5, TurnKeeps
<1>5. CASE ReadSecret(w)
  <2> DEFINE c == job[w].cred
             j == [job[w] EXCEPT !.pc = "got", !.secret = GetSecret(vault[c])]
  <2>0. GetSecret(vault[c]) \in {NoSecret, vault[c].first, vault[c].latest}
        /\ vault[c] \in Secret
    BY <1>0 DEF GetSecret, Shaped
  <2>1. j \in Job /\ j.pc = "got" /\ j.cred = c /\ j.type = job[w].type
        /\ j.secret = GetSecret(vault[c])
    BY <1>0, <2>0 DEF Job, Secret
  <2>2. Become(w, j) /\ UNCHANGED <<row, vault>> /\ job[w].pc = "read"
    BY <1>5 DEF ReadSecret
  <2> HIDE DEF j
  <2>3. JobFits(j, row[c], vault[c]) /\ Alone(w, c, j.pc)
    BY <1>0, <2>1, <2>2 DEF JobFits, Alone, Creating, Locking
  <2>4. Fitting => TypeFits(j, row[c], vault[c])
    <3>1. row[c].state \in {"live", "deleted"}
      BY <1>0, <2>2 DEF JobFits, Creating
    <3> QED BY <1>0, <2>0, <2>1, <2>2, <3>1 DEF Fitting, TypeFits
  <2>5. job[w].pc \notin Locking
    BY <2>2 DEF Locking
  <2> QED BY <2>1, <2>2, <2>3, <2>4, <2>5, TurnKeeps
<1>6. CASE Answer(w)
  BY <1>6, RestKeeps DEF Answer, Locking
<1>7. CASE Abort(w)
  BY <1>7, RestKeeps DEF Abort
<1> QED BY <1>1, <1>2, <1>3, <1>4, <1>5, <1>6, <1>7

(* The steps that write to the row or to the vault.                        *)
LEMMA CreateKeeps ==
  ASSUME Kept, NEW w \in Workers, NEW c \in Ids, NEW type \in Types, NEW secret \in Values,
         CreateCredential(w, c, type, secret)
  PROVE  Preserved
<1> DEFINE r == [row[c] EXCEPT !.state = "named"]
           s == vault[c]
           j == [Idle EXCEPT !.pc = "store", !.cred = c, !.type = type, !.secret = secret]
<1>0. Shaped /\ row[c] \in Row /\ RowFits(row[c], vault[c])
  BY DEF Kept, Shaped
<1>1. j \in Job /\ j.pc = "store" /\ j.cred = c /\ j.type = type /\ j.secret = secret
  BY IdleIsAJob DEF Idle, Job
<1>2. r \in Row /\ r.state = "named" /\ s \in Secret
  BY <1>0 DEF Row, Shaped
<1>3. Moved(w, c, r, s, j)
  BY <1>0 DEF Moved, CreateCredential, Become, Shaped
<1>4. job[w].pc = "idle" /\ row[c].state = "none" /\ Valid(type, secret)
  BY DEF CreateCredential, At
<1>5. \A v \in Workers : job[v].cred = c => job[v].pc = "idle"
  BY <1>4 DEF Kept, JobFits, Creating
<1> HIDE DEF r, j
<1>6. /\ JobFits(j, r, s) /\ RowFits(r, s) /\ Alone(w, c, j.pc) /\ TypeFits(j, r, s)
      /\ \A v \in Workers : job[v].cred = c => JobFits(job[v], r, s) /\ TypeFits(job[v], r, s)
  BY <1>0, <1>1, <1>2, <1>4, <1>5
     DEF JobFits, RowFits, Alone, TypeFits, Creating, Locking
<1> HIDE DEF s
<1>7. Kept'
  BY <1>0, <1>1, <1>2, <1>3, <1>6, MoveKept
<1>8. Usable => Usable'
  BY <1>0, <1>1, <1>2, <1>3, <1>4, MoveUsable DEF Locking
<1>9. Gone => Gone'
  BY <1>0, <1>1, <1>2, <1>3, <1>5, MoveGone
<1>10. Fitting => Fitting'
  BY <1>0, <1>1, <1>2, <1>3, <1>6, MoveFitting
<1> QED BY <1>7, <1>8, <1>9, <1>10 DEF Preserved

LEMMA StoreKeeps ==
  ASSUME Kept, NEW w \in Workers, Store(w)
  PROVE  Preserved
<1> DEFINE c == job[w].cred
           r == row[c]
           s == StoreSecret(vault[c], job[w].secret)
           j == [job[w] EXCEPT !.pc = "insert"]
<1>0. /\ Shaped /\ c \in Ids /\ job[w] \in Job /\ job[w].pc = "store"
      /\ vault[c] \in Secret /\ JobFits(job[w], row[c], vault[c]) /\ RowFits(row[c], vault[c])
  BY DEF Kept, Shaped, Job, Store, At
<1>1. /\ j \in Job /\ j.pc = "insert" /\ j.cred = c /\ j.type = job[w].type
      /\ j.secret = job[w].secret
  BY <1>0 DEF Job
<1>2. /\ r \in Row /\ r.state = "named" /\ s \in Secret /\ s.state = "live"
      /\ s.first = job[w].secret /\ s.latest = job[w].secret /\ job[w].secret \in Values
      /\ job[w].type \in Types
  BY <1>0 DEF Shaped, JobFits, Creating, StoreSecret, Secret, Versions
<1>3. Moved(w, c, r, s, j)
  BY <1>0 DEF Moved, Store, Goto, Become, Shaped
<1>5. \A v \in Workers \ {w} : job[v].cred = c => job[v].pc = "idle"
  BY <1>0, <1>2 DEF Kept, JobFits, Creating
<1> HIDE DEF r, s, j
<1>6. /\ JobFits(j, r, s) /\ RowFits(r, s) /\ Alone(w, c, j.pc)
      /\ \A v \in Workers \ {w} :
           job[v].cred = c => JobFits(job[v], r, s) /\ TypeFits(job[v], r, s)
  BY <1>0, <1>1, <1>2, <1>5 DEF JobFits, RowFits, Alone, TypeFits, Creating, Locking
<1>7. Kept'
  BY <1>0, <1>1, <1>2, <1>3, <1>6, MoveKept
<1>8. Usable => Usable'
  BY <1>0, <1>1, <1>2, <1>3, MoveUsable DEF Locking
<1>9. Gone => Gone'
  BY <1>0, <1>1, <1>2, <1>3, <1>5, MoveGone
<1>10. Fitting => Fitting'
  <2>1. Fitting => TypeFits(j, r, s)
    BY <1>0, <1>1, <1>2 DEF Fitting, TypeFits
  <2> QED BY <1>0, <1>1, <1>2, <1>3, <1>6, <2>1, MoveFitting
<1> QED BY <1>7, <1>8, <1>9, <1>10 DEF Preserved

LEMMA InsertKeeps ==
  ASSUME Kept, NEW w \in Workers, InsertRow(w)
  PROVE  Preserved
<1> DEFINE c == job[w].cred
           r == [state |-> "live", type |-> job[w].type]
           s == vault[c]
<1>0. /\ Shaped /\ c \in Ids /\ job[w] \in Job /\ job[w].pc = "insert"
      /\ s \in Secret /\ JobFits(job[w], row[c], s) /\ RowFits(row[c], s)
  BY DEF Kept, Shaped, Job, InsertRow, At
<1>1. Idle \in Job /\ Idle.pc = "idle"
  BY IdleIsAJob
<1>2. /\ r \in Row /\ r.state = "live" /\ r.type = job[w].type /\ job[w].type \in Types
      /\ row[c].state = "named" /\ s.state = "live"
  BY <1>0 DEF JobFits, Creating, Row
<1>3. Moved(w, c, r, s, Idle)
  BY <1>0 DEF Moved, InsertRow, Become, Shaped
<1>5. \A v \in Workers \ {w} : job[v].cred = c => job[v].pc = "idle"
  BY <1>0, <1>2 DEF Kept, JobFits, Creating
<1> HIDE DEF r, s
<1>6. /\ JobFits(Idle, r, s) /\ RowFits(r, s) /\ Alone(w, c, Idle.pc) /\ TypeFits(Idle, r, s)
      /\ \A v \in Workers \ {w} :
           job[v].cred = c => JobFits(job[v], r, s) /\ TypeFits(job[v], r, s)
  BY <1>0, <1>1, <1>2, <1>5 DEF JobFits, RowFits, Alone, TypeFits, Creating, Locking
<1>7. Kept'
  BY <1>0, <1>1, <1>2, <1>3, <1>6, MoveKept
<1>8. Usable => Usable'
  BY <1>0, <1>1, <1>2, <1>3, MoveUsable DEF Locking
<1>9. Gone => Gone'
  BY <1>0, <1>1, <1>2, <1>3, <1>5, MoveGone
<1>10. Fitting => Fitting'
  <2>1. Fitting => Valid(r.type, s.first) /\ Valid(r.type, s.latest)
    BY <1>0, <1>2 DEF Fitting, TypeFits, s
  <2> QED BY <1>0, <1>1, <1>2, <1>3, <1>6, <2>1, MoveFitting
<1> QED BY <1>7, <1>8, <1>9, <1>10 DEF Preserved

LEMMA VaultUpdateKeeps ==
  ASSUME Kept, NEW w \in Workers, VaultUpdate(w)
  PROVE  Preserved
<1> DEFINE c == job[w].cred
           r == row[c]
           j == [job[w] EXCEPT !.pc = "rowUpdate"]
<1>0. /\ Shaped /\ c \in Ids /\ job[w] \in Job /\ job[w].pc = "vaultUpdate"
      /\ vault[c] \in Secret /\ JobFits(job[w], r, vault[c]) /\ RowFits(r, vault[c])
  BY DEF Kept, Shaped, Job, VaultUpdate, At
<1>1. /\ j \in Job /\ j.pc = "rowUpdate" /\ j.cred = c /\ j.type = job[w].type
      /\ j.secret = job[w].secret
  BY <1>0 DEF Job
<1>2. r \in Row /\ r.state \in {"live", "deleted"} /\ job[w].secret \in Values
  BY <1>0 DEF Shaped, JobFits, Creating
<1>a. \A s : JobFits(j, r, s) /\ Alone(w, c, j.pc)
  BY <1>1, <1>2 DEF JobFits, Alone, Creating, Locking
<1>b. Become(w, j)
  BY DEF VaultUpdate, Goto
<1>3. CASE UNCHANGED vault
  <2>1. Fitting => TypeFits(j, r, vault[c])
    BY <1>0, <1>1 DEF Fitting, TypeFits
  <2> HIDE DEF j
  <2> QED BY <1>0, <1>1, <1>3, <1>a, <1>b, <2>1, TurnKeeps DEF VaultUpdate, Locking
<1>4. CASE Updatable(vault[c]) /\
           vault' = [vault EXCEPT ![c] = UpdateSecret(vault[c], job[w].secret)]
  <2> DEFINE s == UpdateSecret(vault[c], job[w].secret)
  <2>1. /\ s \in Secret /\ s.state = "live" /\ s.first = vault[c].first
        /\ s.latest = job[w].secret /\ s.first \in Values
    BY <1>0, <1>2 DEF UpdateSecret, Secret, Versions, RowFits
  <2>2. Moved(w, c, r, s, j)
    BY <1>0, <1>4, <1>b DEF Moved, VaultUpdate, Become, Shaped
  <2>3. \A v \in Workers : job[v].cred = c => job[v].pc \notin Creating
    BY <1>2 DEF Kept, JobFits
  <2>4. \A v \in Workers : job[v].cred = c => JobFits(job[v], r, vault[c])
    BY DEF Kept
  <2>a. ASSUME Gone, PinnedUri = TRUE PROVE Gone'
    <3>1. vault[c].state = "live" /\ r.state # "deleted"
      BY <1>0, <1>4, <2>a DEF Gone, Updatable
    <3>2. \A v \in Workers : job[v].cred = c => job[v].pc # "commitDelete"
      BY <2>a, <3>1 DEF Gone, At
    <3> HIDE DEF r, s, j
    <3> QED BY <1>0, <1>1, <1>2, <2>1, <2>2, <2>a, <3>1, <3>2, MoveGone
  <2>b. ASSUME Fitting PROVE Fitting'
    <3>1. /\ Valid(r.type, s.first) /\ Valid(r.type, s.latest) /\ TypeFits(j, r, s)
          /\ \A v \in Workers : job[v].cred = c => TypeFits(job[v], r, vault[c])
      <4> HIDE DEF s
      <4> QED BY <1>0, <1>1, <1>2, <2>1, <2>b DEF Fitting, TypeFits
    <3>2. \A v \in Workers : job[v].cred = c => TypeFits(job[v], r, s)
      BY <2>3, <3>1 DEF TypeFits, Creating
    <3> HIDE DEF r, s, j
    <3> QED BY <1>0, <1>1, <1>2, <2>1, <2>2, <2>b, <3>1, <3>2, MoveFitting
  <2> HIDE DEF r, s, j
  <2>5. \A v \in Workers : job[v].cred = c => JobFits(job[v], r, s)
    BY <2>3, <2>4 DEF JobFits, Creating
  <2>6. RowFits(r, s)
    BY <1>0, <1>2, <2>1 DEF RowFits
  <2>7. Kept'
    BY <1>0, <1>1, <1>2, <1>a, <2>1, <2>2, <2>5, <2>6, MoveKept
  <2>8. Usable => Usable'
    BY <1>0, <1>1, <1>2, <2>1, <2>2, MoveUsable DEF Locking
  <2> QED BY <2>7, <2>8, <2>a, <2>b DEF Preserved
<1> QED BY <1>3, <1>4 DEF VaultUpdate

LEMMA RowUpdateKeeps ==
  ASSUME Kept, NEW w \in Workers, RowUpdate(w)
  PROVE  Preserved
<1> DEFINE c == job[w].cred
           s == vault[c]
           t == IF job[w].type # NoType THEN job[w].type ELSE row[c].type
           r == [row[c] EXCEPT !.type = t]
           j == [job[w] EXCEPT !.pc = "updated"]
<1>0. /\ Shaped /\ c \in Ids /\ job[w] \in Job /\ job[w].pc = "rowUpdate"
      /\ s \in Secret /\ row[c] \in Row /\ RowFits(row[c], s)
  BY DEF Kept, Shaped, Job, RowUpdate, At
<1>1. /\ j \in Job /\ j.pc = "updated" /\ j.cred = c /\ j.type = job[w].type
  BY <1>0 DEF Job
<1>3. CASE ~Live(c)
  BY <1>0, <1>3, RestKeeps DEF RowUpdate, Locking
<1>4. CASE Live(c)
  <2>1. row[c].state = "live" /\ t \in Types
    BY <1>0, <1>4 DEF Live, RowFits, Job
  <2>2. r \in Row /\ r.state = "live" /\ r.type = t
    BY <1>0, <2>1 DEF Row
  <2>3. Moved(w, c, r, s, j)
    BY <1>0, <1>4 DEF Moved, RowUpdate, Goto, Become, Shaped
  <2>4. \A v \in Workers : job[v].cred = c => JobFits(job[v], row[c], s)
    BY DEF Kept
  <2>a. ASSUME Retyping = FALSE, Fitting PROVE Fitting'
    <3>1. r = row[c]
      <4>1. t = row[c].type
        BY <1>0, <2>a DEF Fitting, TypeFits
      <4> QED BY <1>0, <4>1 DEF Row
    <3>2. /\ Valid(row[c].type, s.first) /\ Valid(row[c].type, s.latest)
          /\ \A v \in Workers : job[v].cred = c => TypeFits(job[v], row[c], s)
      BY <1>0, <2>1, <2>a DEF Fitting
    <3>3. TypeFits(j, row[c], s)
      BY <1>1 DEF TypeFits
    <3> HIDE DEF r, s, j
    <3> QED BY <1>0, <1>1, <2>2, <2>3, <2>a, <3>1, <3>2, <3>3, MoveFitting
  <2> HIDE DEF r, j, t
  <2>5. /\ JobFits(j, r, s) /\ RowFits(r, s) /\ Alone(w, c, j.pc)
        /\ \A v \in Workers : job[v].cred = c => JobFits(job[v], r, s)
    BY <1>0, <1>1, <2>1, <2>2, <2>4 DEF JobFits, RowFits, Alone, Creating, Locking
  <2>6. Kept'
    BY <1>0, <1>1, <2>2, <2>3, <2>5, MoveKept
  <2>7. Usable => Usable'
    <3>1. Usable => s.state = "live"
      BY <1>0, <1>4 DEF Usable, RowUpdate
    <3> HIDE DEF s
    <3> QED BY <1>0, <1>1, <2>2, <2>3, <3>1, MoveUsable DEF Locking
  <2>8. Gone => Gone'
    <3>1. Gone => (s.state = "live" =>
                     \A v \in Workers : job[v].cred = c => job[v].pc # "commitDelete")
      BY DEF Gone, At
    <3> HIDE DEF s
    <3> QED BY <1>0, <1>1, <2>2, <2>3, <3>1, MoveGone
  <2> QED BY <2>6, <2>7, <2>8, <2>a DEF Preserved
<1> QED BY <1>3, <1>4

LEMMA VaultDeleteKeeps ==
  ASSUME Kept, NEW w \in Workers, VaultDelete(w)
  PROVE  Preserved
<1> DEFINE c == job[w].cred
           r == row[c]
           j == [job[w] EXCEPT !.pc = "commitDelete"]
<1>0. /\ Shaped /\ c \in Ids /\ job[w] \in Job /\ job[w].pc = "vaultDelete"
      /\ vault[c] \in Secret /\ r \in Row
      /\ JobFits(job[w], r, vault[c]) /\ RowFits(r, vault[c])
  BY DEF Kept, Shaped, Job, VaultDelete, At
<1>1. j \in Job /\ j.pc = "commitDelete" /\ j.cred = c
  BY <1>0 DEF Job
<1>2. r.state \in {"live", "deleted"}
  BY <1>0 DEF JobFits, Creating
<1>3. Become(w, j) /\ UNCHANGED row
  BY DEF VaultDelete, Goto
<1>a. ASSUME NEW s \in Secret, s.first = vault[c].first, s.latest = vault[c].latest,
             s.state = vault[c].state \/ (s.state = "deleted" /\ vault[c].state # "absent"),
             vault' = [vault EXCEPT ![c] = s], Faults = FALSE => s.state # "live"
      PROVE  Preserved
  <2>1. Moved(w, c, r, s, j)
    BY <1>0, <1>3, <1>a DEF Moved, Become, Shaped
  <2>2. \A v \in Workers : job[v].cred = c => job[v].pc \notin Creating
    BY <1>2 DEF Kept, JobFits
  <2>3. /\ \A v \in Workers : job[v].cred = c => JobFits(job[v], r, vault[c])
        /\ Fitting => \A v \in Workers : job[v].cred = c => TypeFits(job[v], r, vault[c])
        /\ Fitting => Valid(r.type, s.first) /\ Valid(r.type, s.latest)
    BY <1>0, <1>2, <1>a DEF Kept, Fitting
  <2> HIDE DEF r, j
  <2>4. /\ JobFits(j, r, s) /\ TypeFits(j, r, s) /\ RowFits(r, s)
        /\ \A v \in Workers : job[v].cred = c => JobFits(job[v], r, s)
        /\ Fitting => \A v \in Workers : job[v].cred = c => TypeFits(job[v], r, s)
    BY <1>0, <1>1, <1>2, <1>a, <2>2, <2>3 DEF JobFits, TypeFits, RowFits, Creating
  <2>5. Alone(w, c, j.pc)
    BY <1>0, <1>1 DEF Alone, Kept, Creating, Locking
  <2>6. Kept'
    BY <1>0, <1>1, <1>a, <2>1, <2>4, <2>5, MoveKept
  <2>7. Usable => Usable'
    BY <1>0, <1>1, <1>a, <2>1, MoveUsable DEF Locking
  <2>8. Faults = FALSE /\ Gone => Gone'
    BY <1>0, <1>1, <1>a, <2>1, MoveGone
  <2>9. Fitting => Fitting'
    BY <1>0, <1>1, <1>a, <2>1, <2>3, <2>4, MoveFitting
  <2> QED BY <2>6, <2>7, <2>8, <2>9 DEF Preserved
<1>4. CASE Faults /\ UNCHANGED vault
  <2>1. vault' = [vault EXCEPT ![c] = vault[c]]
    BY <1>0, <1>4 DEF Shaped
  <2> QED BY <1>0, <1>4, <1>a, <2>1
<1>5. CASE vault' = [vault EXCEPT ![c] = DeleteSecret(vault[c])]
  <2> DEFINE s == DeleteSecret(vault[c])
  <2>1. /\ s \in Secret /\ s.first = vault[c].first /\ s.latest = vault[c].latest
        /\ s.state # "live"
        /\ s.state = vault[c].state \/ (s.state = "deleted" /\ vault[c].state # "absent")
    BY <1>0 DEF DeleteSecret, Secret
  <2> HIDE DEF s
  <2>2. vault' = [vault EXCEPT ![c] = s]
    BY <1>5 DEF s
  <2> QED BY <1>a, <2>1, <2>2
<1> QED BY <1>4, <1>5 DEF VaultDelete

LEMMA CommitDeleteKeeps ==
  ASSUME Kept, NEW w \in Workers, CommitDelete(w)
  PROVE  Preserved
<1> DEFINE c == job[w].cred
           s == vault[c]
           r == [row[c] EXCEPT !.state = "deleted"]
<1>0. /\ Shaped /\ c \in Ids /\ job[w] \in Job /\ job[w].pc = "commitDelete"
      /\ s \in Secret /\ row[c] \in Row
      /\ JobFits(job[w], row[c], s) /\ RowFits(row[c], s)
  BY DEF Kept, Shaped, Job, CommitDelete, At
<1>1. Idle \in Job /\ Idle.pc = "idle"
  BY IdleIsAJob
<1>2. r \in Row /\ r.state = "deleted" /\ r.type = row[c].type
      /\ row[c].state \in {"live", "deleted"}
  BY <1>0 DEF Row, JobFits, Creating
<1>3. Moved(w, c, r, s, Idle)
  BY <1>0 DEF Moved, CommitDelete, Become, Shaped
<1>4. /\ \A v \in Workers : job[v].cred = c => JobFits(job[v], row[c], s)
      /\ Fitting => \A v \in Workers : job[v].cred = c => TypeFits(job[v], row[c], s)
      /\ Fitting => Valid(r.type, s.first) /\ Valid(r.type, s.latest)
      /\ Gone => s.state # "live"
  BY <1>0, <1>2 DEF Kept, Fitting, Gone, At
<1> HIDE DEF r, s
<1>5. /\ JobFits(Idle, r, s) /\ TypeFits(Idle, r, s) /\ RowFits(r, s)
      /\ Alone(w, c, Idle.pc)
      /\ \A v \in Workers : job[v].cred = c => JobFits(job[v], r, s)
      /\ Fitting => \A v \in Workers : job[v].cred = c => TypeFits(job[v], r, s)
  BY <1>0, <1>1, <1>2, <1>4 DEF JobFits, TypeFits, RowFits, Alone, Creating, Locking
<1>6. Kept'
  BY <1>0, <1>1, <1>2, <1>3, <1>5, MoveKept
<1>7. Usable => Usable'
  BY <1>0, <1>1, <1>2, <1>3, MoveUsable
<1>8. Gone => Gone'
  BY <1>0, <1>1, <1>2, <1>3, <1>4, MoveGone
<1>9. Fitting => Fitting'
  BY <1>0, <1>1, <1>2, <1>3, <1>4, <1>5, MoveFitting
<1> QED BY <1>6, <1>7, <1>8, <1>9 DEF Preserved

-----------------------------------------------------------------------------
LEMMA KeptInit == Init => Kept /\ Usable /\ Gone /\ Fitting
<1> SUFFICES ASSUME Init PROVE Kept /\ Usable /\ Gone /\ Fitting
  OBVIOUS
<1>1. /\ \A c \in Ids : row[c].state = "none" /\ vault[c].state = "absent"
      /\ \A w \in Workers : job[w] = Idle /\ job[w].pc = "idle" /\ job[w].cred \in Ids
  BY IdleIsAJob DEF Init, Absent, Job
<1>2. Shaped
  BY IdleIsAJob, CredentialConstants, VaultConstants
     DEF Init, Shaped, Absent, Row, Secret
<1>3. Kept
  BY <1>1, <1>2 DEF Kept, JobFits, RowFits, Creating, Locking
<1>4. Usable /\ Gone /\ Fitting
  BY <1>1 DEF Usable, Live, Gone, At, Fitting, TypeFits
<1> QED BY <1>3, <1>4

LEMMA KeptNext ==
  Kept /\ [Next]_vars =>
    /\ Kept'
    /\ Faults = FALSE /\ Usable => Usable'
    /\ Faults = FALSE /\ PinnedUri = TRUE /\ Gone => Gone'
    /\ Retyping = FALSE /\ Fitting => Fitting'
<1> SUFFICES ASSUME Kept, [Next]_vars PROVE Preserved
  BY DEF Preserved
<1>1. ASSUME NEW w \in Workers, Begin(w) PROVE Preserved
  BY <1>1, CreateKeeps, QuietStepsKeep DEF Begin
<1>2. ASSUME NEW w \in Workers, Continue(w) PROVE Preserved
  BY <1>2, StoreKeeps, InsertKeeps, VaultUpdateKeeps, RowUpdateKeeps, VaultDeleteKeeps,
     CommitDeleteKeeps, QuietStepsKeep DEF Continue
<1>3. ASSUME NEW w \in Workers, Abort(w) PROVE Preserved
  BY <1>3, QuietStepsKeep
<1>4. CASE UNCHANGED vars
  BY <1>4 DEF vars, Preserved, Kept, Shaped, Usable, Live, Locked, Gone, At, Fitting
<1> QED BY <1>1, <1>2, <1>3, <1>4 DEF Next

(* Rows, secrets and handler locals keep their types, and live rows have a *)
(* type, whatever fails and interleaves (Credential).                      *)
THEOREM CredentialsTypeCorrect == Spec => []TypeOK
<1>1. Kept => TypeOK
  BY DEF Kept, Shaped, RowFits, TypeOK, Live
<1> QED BY KeptInit, KeptNext, <1>1, PTL DEF Spec

(* Whatever fails, no row names a secret that was never stored             *)
(* (create_credential stores the secret before it inserts the row).        *)
THEOREM RowsAlwaysNameStoredSecrets == Spec => []RowsNameStoredSecrets
<1>1. Kept => RowsNameStoredSecrets
  BY DEF Kept, RowFits, RowsNameStoredSecrets, Live
<1> QED BY KeptInit, KeptNext, <1>1, PTL DEF Spec

(* While nothing fails, a credential that nobody is deleting can be used,  *)
(* in either kind of vault and whatever its updates change                 *)
(* (create_credential, update_credential, delete_credential).              *)
THEOREM LiveCredentialsStayUsable ==
  ASSUME Faults = FALSE
  PROVE  Spec => []LiveCredentialsHaveSecret
<1>1. Kept /\ Usable /\ [Next]_vars => Kept' /\ Usable'
  BY KeptNext
<1>2. Kept /\ Usable => LiveCredentialsHaveSecret
  <2> SUFFICES ASSUME Kept, Usable, NEW c \in Ids, Live(c), ~Locked(c)
               PROVE  GetSecret(vault[c]) # NoSecret
    BY DEF LiveCredentialsHaveSecret
  <2>1. vault[c].state = "live"
    BY DEF Usable
  <2>2. vault[c].first \in Values /\ vault[c].latest \in Values
    BY <2>1 DEF Kept, RowFits
  <2> QED BY <2>1, <2>2, VaultConstants DEF GetSecret
<1> QED BY KeptInit, <1>1, <1>2, PTL DEF Spec

(* While nothing fails, and in a vault that refuses to write to a deleted  *)
(* secret, a deleted credential leaves none behind (delete_credential).    *)
THEOREM DeletedCredentialsAreGone ==
  ASSUME Faults = FALSE, PinnedUri = TRUE
  PROVE  Spec => []DeletedCredentialsLeaveNoSecret
<1>1. Kept /\ Gone /\ [Next]_vars => Kept' /\ Gone'
  BY KeptNext
<1>2. Gone => DeletedCredentialsLeaveNoSecret
  BY DEF Gone, DeletedCredentialsLeaveNoSecret, GetSecret
<1> QED BY KeptInit, <1>1, <1>2, PTL DEF Spec

(* As long as no update changes the type of a credential, and whatever     *)
(* fails, what a reader gets fits the type it read (update_credential,     *)
(* validate_credential_secret, get_credential_secret).                     *)
THEOREM SecretsAlwaysFit ==
  ASSUME Retyping = FALSE
  PROVE  Spec => []SecretFitsType
<1>1. Kept /\ Fitting /\ [Next]_vars => Kept' /\ Fitting'
  BY KeptNext
<1>2. Fitting => SecretFitsType
  BY DEF Fitting, TypeFits, SecretFitsType, At
<1> QED BY KeptInit, <1>1, <1>2, PTL DEF Spec
===============================================================================
