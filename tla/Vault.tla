-------------------------------- MODULE Vault --------------------------------
(***************************************************************************)
(* One secret of the secrets vault, as the backends of BaseVault keep it:  *)
(* HashiCorp KV v2 and Azure Key Vault both append a version on every      *)
(* write.  They differ in what a URI names.  HashiCorp's is the path, so a *)
(* read answers with the latest version; Azure's, as store_secret builds   *)
(* it, ends in the version it has just written, so a read answers with     *)
(* that version for ever.  They also differ on a deleted secret: HashiCorp *)
(* deletes the latest version and a write appends a readable one; Azure    *)
(* soft-deletes the name and refuses to write to it.                       *)
(***************************************************************************)
CONSTANTS
  Values,        \* what a secret can be
  NoSecret,      \* get_secret's None
  PinnedUri      \* does a URI name one version? (AZURE_KEYVAULT)

ASSUME VaultConstants == NoSecret \notin Values /\ PinnedUri \in BOOLEAN

Secret ==
  [state  : {"absent", "live", "deleted"},
   first  : Values \cup {NoSecret},       \* the version store_secret wrote
   latest : Values \cup {NoSecret},       \* the version last written
   past   : SUBSET Values]                \* the versions before the latest

Absent == [state |-> "absent", first |-> NoSecret, latest |-> NoSecret, past |-> {}]

Versions(s) == s.past \cup (IF s.latest = NoSecret THEN {} ELSE {s.latest})

(* Both backends append a version if the name is already in use.           *)
StoreSecret(s, v) ==
  [state |-> "live", first |-> v, latest |-> v, past |-> Versions(s)]

UpdateSecret(s, v) ==
  [s EXCEPT !.state = "live", !.latest = v, !.past = Versions(s)]
Updatable(s) == s.state = "live" \/ (s.state = "deleted" /\ ~PinnedUri)

DeleteSecret(s) == IF s.state = "live" THEN [s EXCEPT !.state = "deleted"] ELSE s

(* Mutated: every backend's URI names the version first written.           *)
GetSecretFirst(s) == IF s.state # "live" THEN NoSecret ELSE s.first
GetSecret(s) ==
  IF s.state # "live" THEN NoSecret ELSE IF PinnedUri THEN s.first ELSE s.latest
=============================================================================
