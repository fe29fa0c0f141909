------------------------------ MODULE Credentials ------------------------------
(***************************************************************************)
(* Credentials: the row in PostgreSQL says of what type a credential is    *)
(* and where its secret is, the vault holds the secret.  A secret is of    *)
(* the format of the type it was validated against.  The handlers write    *)
(* the two stores one after the other, in an order of their own each, and  *)
(* a reader reads them one after the other.                                *)
(***************************************************************************)
EXTENDS Vault

CONSTANTS
  Ids,           \* credential ids (uuid4)
  Types,         \* CredentialTypeEnum
  FormatOf,      \* secret -> the type whose validator accepts it
  NoType,        \* credential_type not given
  Retyping,      \* do update requests give a credential_type?
  Workers,
  Faults         \* may vault calls and commits fail and workers die?

ASSUME CredentialConstants ==
  /\ Ids # {}
  /\ FormatOf \in [Values -> Types]
  /\ NoType \notin Types
  /\ Retyping \in BOOLEAN /\ Faults \in BOOLEAN

VARIABLES
  row,       \* credential id -> its row: whether it exists, and its type
  vault,     \* credential id -> the secret its URI names
  job        \* what each worker is doing

vars == <<row, vault, job>>

Row == [state : {"none", "named", "live", "deleted"}, type : Types \cup {NoType}]
Job ==
  [pc     : {"idle", "store", "insert", "vaultUpdate", "rowUpdate", "updated",
             "rowDelete", "vaultDelete", "commitDelete", "read", "got"},
   cred   : Ids,
   type   : Types \cup {NoType},        \* request.credential_type, or the type read
   secret : Values \cup {NoSecret}]     \* request.secret_value, or the secret read

Idle ==
  [pc |-> "idle", cred |-> CHOOSE c \in Ids : TRUE, type |-> NoType,
   secret |-> NoSecret]

Become(w, j) == job' = [job EXCEPT ![w] = j]
Goto(w, step) == Become(w, [job[w] EXCEPT !.pc = step])
At(w, step) == job[w].pc = step
Live(c) == row[c].state = "live"

(* validate_credential_secret                                              *)
Valid(type, secret) == FormatOf[secret] = type

-----------------------------------------------------------------------------
(* Mutated: the row goes in before the secret is stored.                   *)
CreateCredentialRowFirst(w, c, type, secret) ==
  /\ At(w, "idle")
  /\ row[c].state = "none"
  /\ Valid(type, secret)
  /\ row' = [row EXCEPT ![c] = [state |-> "live", type |-> type]]
  /\ Become(w, [Idle EXCEPT !.pc = "store", !.cred = c, !.type = type, !.secret = secret])
  /\ UNCHANGED vault

(* create_credential: the secret first, then the row.                      *)
CreateCredential(w, c, type, secret) ==
  /\ At(w, "idle")
  /\ row[c].state = "none"
  /\ Valid(type, secret)
  /\ row' = [row EXCEPT ![c].state = "named"]
  /\ Become(w, [Idle EXCEPT !.pc = "store", !.cred = c, !.type = type, !.secret = secret])
  /\ UNCHANGED vault

Store(w) ==
  /\ At(w, "store")
  /\ vault' = [vault EXCEPT ![job[w].cred] = StoreSecret(@, job[w].secret)]
  /\ Goto(w, "insert")
  /\ UNCHANGED row

InsertRow(w) ==
  /\ At(w, "insert")
  /\ row' = [row EXCEPT ![job[w].cred] = [state |-> "live", type |-> job[w].type]]
  /\ Become(w, Idle)
  /\ UNCHANGED vault

-----------------------------------------------------------------------------
(* Mutated: a secret is validated only if a type is given with it.         *)
UpdateCredentialHalfValidated(w, c, type, secret) ==
  /\ At(w, "idle")
  /\ Live(c)
  /\ Retyping \/ type = NoType
  /\ secret # NoSecret /\ type # NoType => Valid(type, secret)
  /\ Become(w, [Idle EXCEPT !.pc = IF secret = NoSecret THEN "rowUpdate" ELSE "vaultUpdate",
                            !.cred = c, !.type = type, !.secret = secret])
  /\ UNCHANGED <<row, vault>>

(* update_credential: the request may give a type, a secret or both (or    *)
(* neither); the secret is validated against the type given, else the      *)
(* type read from the row.                                                 *)
UpdateCredential(w, c, type, secret) ==
  LET credType == IF type # NoType THEN type ELSE row[c].type IN
  /\ At(w, "idle")
  /\ Live(c)
  /\ Retyping \/ type = NoType
  /\ secret # NoSecret => Valid(credType, secret)
  /\ Become(w, [Idle EXCEPT !.pc = IF secret = NoSecret THEN "rowUpdate" ELSE "vaultUpdate",
                            !.cred = c, !.type = type, !.secret = secret])
  /\ UNCHANGED <<row, vault>>

(* The backends answer False to any failure; the handler looks for         *)
(* exceptions only and goes on.                                            *)
VaultUpdate(w) ==
  LET s == vault[job[w].cred] IN
  /\ At(w, "vaultUpdate")
  /\ \/ /\ Updatable(s)
        /\ vault' = [vault EXCEPT ![job[w].cred] = UpdateSecret(s, job[w].secret)]
     \/ /\ Faults \/ ~Updatable(s)
        /\ UNCHANGED vault
  /\ Goto(w, "rowUpdate")
  /\ UNCHANGED row

(* The flushed, uncommitted DELETE of a deletion holds the row's lock.     *)
Locked(c) == \E w \in Workers :
  job[w].cred = c /\ job[w].pc \in {"vaultDelete", "commitDelete"}

(* Mutated: the request's type reaches the row even when none was given.   *)
RowUpdateUnguarded(w) ==
  LET c == job[w].cred IN
  /\ At(w, "rowUpdate")
  /\ ~Locked(c)
  /\ row' = [row EXCEPT ![c] = [state |-> "live", type |-> job[w].type]]
  /\ Goto(w, "updated")
  /\ UNCHANGED vault
(* Flush and commit; if the row has gone, the handler fails.               *)
RowUpdate(w) ==
  LET c == job[w].cred IN
  /\ At(w, "rowUpdate")
  /\ ~Locked(c)
  /\ IF Live(c)
     THEN /\ row' = [row EXCEPT ![c].type = IF job[w].type # NoType THEN job[w].type ELSE @]
          /\ Goto(w, "updated")
     ELSE UNCHANGED row /\ Become(w, Idle)
  /\ UNCHANGED vault

-----------------------------------------------------------------------------
(* delete_credential: the row (flushed), the secret (best effort), then    *)
(* the commit at the session's exit.                                       *)
DeleteCredential(w, c) ==
  /\ At(w, "idle")
  /\ Live(c)
  /\ Become(w, [Idle EXCEPT !.pc = "rowDelete", !.cred = c])
  /\ UNCHANGED <<row, vault>>

(* Deleting a row that has gone meanwhile is a warning only.               *)
RowDelete(w) ==
  /\ At(w, "rowDelete")
  /\ ~Locked(job[w].cred)
  /\ Goto(w, "vaultDelete")
  /\ UNCHANGED <<row, vault>>

(* Mutated: the secret is left in the vault.                               *)
VaultDeleteNot(w) ==
  /\ At(w, "vaultDelete")
  /\ Goto(w, "commitDelete")
  /\ UNCHANGED <<row, vault>>
VaultDelete(w) ==
  /\ At(w, "vaultDelete")
  /\ \/ vault' = [vault EXCEPT ![job[w].cred] = DeleteSecret(@)]
     \/ Faults /\ UNCHANGED vault
  /\ Goto(w, "commitDelete")
  /\ UNCHANGED row

(* Mutated: the session ends without the commit.                           *)
CommitDeleteLost(w) ==
  /\ At(w, "commitDelete")
  /\ Become(w, Idle)
  /\ UNCHANGED <<row, vault>>
CommitDelete(w) ==
  /\ At(w, "commitDelete")
  /\ row' = [row EXCEPT ![job[w].cred].state = "deleted"]
  /\ Become(w, Idle)
  /\ UNCHANGED vault

-----------------------------------------------------------------------------
(* get_credential_secret, by whoever uses the credential: the row, then    *)
(* the secret.                                                             *)
GetCredential(w, c) ==
  /\ At(w, "idle")
  /\ Live(c)
  /\ Become(w, [Idle EXCEPT !.pc = "read", !.cred = c, !.type = row[c].type])
  /\ UNCHANGED <<row, vault>>

ReadSecret(w) ==
  /\ At(w, "read")
  /\ Become(w, [job[w] EXCEPT !.pc = "got", !.secret = GetSecret(vault[job[w].cred])])
  /\ UNCHANGED <<row, vault>>

Answer(w) ==
  /\ At(w, "updated") \/ At(w, "got")
  /\ Become(w, Idle)
  /\ UNCHANGED <<row, vault>>

(* A commit or a vault call raises, or the worker dies: the session is     *)
(* rolled back, what the vault has done stays.                             *)
Abort(w) ==
  /\ Faults
  /\ ~At(w, "idle")
  /\ Become(w, Idle)
  /\ UNCHANGED <<row, vault>>

-----------------------------------------------------------------------------
Init ==
  /\ row = [c \in Ids |-> [state |-> "none", type |-> NoType]]
  /\ vault = [c \in Ids |-> Absent]
  /\ job = [w \in Workers |-> Idle]

Begin(w) ==
  \E c \in Ids :
    \/ \E type \in Types, secret \in Values : CreateCredential(w, c, type, secret)
    \/ \E type \in Types \cup {NoType}, secret \in Values \cup {NoSecret} :
         UpdateCredential(w, c, type, secret)
    \/ DeleteCredential(w, c)
    \/ GetCredential(w, c)

Continue(w) ==
  \/ Store(w) \/ InsertRow(w) \/ VaultUpdate(w) \/ RowUpdate(w)
  \/ RowDelete(w) \/ VaultDelete(w) \/ CommitDelete(w) \/ ReadSecret(w) \/ Answer(w)

Next == \E w \in Workers : Begin(w) \/ Continue(w) \/ Abort(w)
Spec == Init /\ [][Next]_vars

-----------------------------------------------------------------------------
(* Rows, secrets and the locals of the handlers are of the shape the code  *)
(* expects, and a live row has a type (Credential).                        *)
TypeOK ==
  /\ row \in [Ids -> Row]
  /\ \A c \in Ids : Live(c) => row[c].type \in Types
  /\ vault \in [Ids -> Secret]
  /\ job \in [Workers -> Job]

(* What a reader gets is a secret in the format of the type it read        *)
(* (update_credential, validate_credential_secret).                        *)
SecretFitsType ==
  \A w \in Workers : At(w, "got") /\ job[w].secret # NoSecret =>
    Valid(job[w].type, job[w].secret)

(* While nothing fails, a credential that nobody is deleting can be used   *)
(* (create_credential, update_credential, delete_credential).              *)
LiveCredentialsHaveSecret ==
  \A c \in Ids : Live(c) /\ ~Locked(c) => GetSecret(vault[c]) # NoSecret

(* Whatever fails, no row names a secret that was never stored: the order  *)
(* of the two writes of create_credential.                                 *)
RowsNameStoredSecrets == \A c \in Ids : Live(c) => vault[c].state # "absent"

(* Once every handler has returned, a deleted credential has left no       *)
(* secret in the vault (delete_credential).                                *)
DeletedCredentialsLeaveNoSecret ==
  (\A w \in Workers : At(w, "idle")) =>
    \A c \in Ids : row[c].state = "deleted" => GetSecret(vault[c]) = NoSecret
===============================================================================
