------------------------------ MODULE StoresProofs ------------------------------
(***************************************************************************)
(* What the components' theorems say of Stores, where each component is    *)
(* either at rest or the one that is looked at; and the recent visits,     *)
(* whose theorems are proved here.  A component's operators go by two      *)
(* names, Attached! and AttachedP! and so on, that of the instance in      *)
(* Stores and that of the instance of its theorems; a leaf with a long     *)
(* list of definitions says that both names mean the same.                 *)
(***************************************************************************)
EXTENDS Stores, CredentialsProofs, FiniteSetTheorems, WellFoundedInduction

AzureP ==
  INSTANCE CredentialsProofs WITH PinnedUri <- TRUE, Retyping <- FALSE, Faults <- FALSE
HashiCorpP ==
  INSTANCE CredentialsProofs WITH PinnedUri <- FALSE, Retyping <- FALSE, Faults <- FALSE
AttachedP == INSTANCE AttachmentsProofs
OrganizedP == INSTANCE DirectoryProofs

-----------------------------------------------------------------------------
(* A component takes its own steps or none.                                *)

LEMMA AttachedSteps ==
  ASSUME [StoresNext]_allVars
  PROVE  [AttachedP!Next]_(AttachedP!vars)
<1>1. CASE Attached!Next
  BY <1>1
     DEF Attached!Next, AttachedP!Next, Attached!AgentWrites, AttachedP!AgentWrites,
         Attached!WrittenByAgents, AttachedP!WrittenByAgents, Attached!Keep, AttachedP!Keep,
         Attached!Begin, AttachedP!Begin, Attached!Put, AttachedP!Put,
         Attached!Load, AttachedP!Load, Attached!LoadAgent, AttachedP!LoadAgent,
         Attached!Insert, AttachedP!Insert, Attached!Fetch, AttachedP!Fetch,
         Attached!Answer, AttachedP!Answer, Attached!Drop, AttachedP!Drop,
         Attached!Remove, AttachedP!Remove, Attached!RemoveAgent, AttachedP!RemoveAgent,
         Attached!Crash, AttachedP!Crash, Attached!Serving, AttachedP!Serving,
         Attached!At, AttachedP!At, Attached!Become, AttachedP!Become,
         Attached!End, AttachedP!End, Attached!Advance, AttachedP!Advance,
         Attached!Programs, AttachedP!Programs, Attached!UploadFile, AttachedP!UploadFile,
         Attached!DownloadFile, AttachedP!DownloadFile, Attached!DeleteFile, AttachedP!DeleteFile,
         Attached!CreateConversation, AttachedP!CreateConversation,
         Attached!DeleteConversation, AttachedP!DeleteConversation,
         Attached!DeleteChatAgent, AttachedP!DeleteChatAgent,
         Attached!CreateWorkflow, AttachedP!CreateWorkflow,
         Attached!DeleteWorkflow, AttachedP!DeleteWorkflow,
         Attached!Conversations, AttachedP!Conversations
<1>2. CASE UNCHANGED attachmentVars
  BY <1>2 DEF attachmentVars, AttachedP!vars
<1> QED BY <1>1, <1>2 DEF StoresNext, allVars, attachmentVars

(* The organizations take their own steps or none.                         *)
LEMMA OrganizedSteps ==
  ASSUME [StoresNext]_allVars
  PROVE  [OrganizedP!Next]_(OrganizedP!vars)
<1>1. CASE Organized!Next
  BY <1>1
     DEF
         Organized!Next, OrganizedP!Next, Organized!Continue, OrganizedP!Continue,
         Organized!HasHome, OrganizedP!HasHome, Organized!Operations, OrganizedP!Operations,
         Organized!AtHome, OrganizedP!AtHome, Organized!FlushTenant, OrganizedP!FlushTenant,
         Organized!CreateTenantAtHome, OrganizedP!CreateTenantAtHome,
         Organized!DeleteTenantById, OrganizedP!DeleteTenantById,
         Organized!AfterTenants, OrganizedP!AfterTenants,
         Organized!GlobalAdmin, OrganizedP!GlobalAdmin, Organized!Tenants,
         OrganizedP!Tenants, Organized!OfOrganization, OrganizedP!OfOrganization,
         Organized!RolesOf, OrganizedP!RolesOf, Organized!Context, OrganizedP!Context,
         Organized!TenantsOf, OrganizedP!TenantsOf, Organized!Required,
         OrganizedP!Required, Organized!Writes, OrganizedP!Writes, Organized!Calling,
         OrganizedP!Calling, Organized!At, OrganizedP!At, Organized!Become,
         OrganizedP!Become, Organized!Goto, OrganizedP!Goto, Organized!End,
         OrganizedP!End, Organized!Give, OrganizedP!Give, Organized!FirstStep,
         OrganizedP!FirstStep, Organized!Authenticate, OrganizedP!Authenticate,
         Organized!Check, OrganizedP!Check, Organized!CreateOrganization,
         OrganizedP!CreateOrganization, Organized!SetPrincipal, OrganizedP!SetPrincipal,
         Organized!InsertMember, OrganizedP!InsertMember, Organized!DeletePrincipal,
         OrganizedP!DeletePrincipal, Organized!RemoveMember, OrganizedP!RemoveMember,
         Organized!CreateTenant, OrganizedP!CreateTenant, Organized!CommitTenant,
         OrganizedP!CommitTenant, Organized!DeleteTenant, OrganizedP!DeleteTenant,
         Organized!CommitDelete, OrganizedP!CommitDelete, Organized!LookupTenants,
         OrganizedP!LookupTenants, Organized!ReadTenants, OrganizedP!ReadTenants,
         Organized!FillTenants, OrganizedP!FillTenants, Organized!Enrol,
         OrganizedP!Enrol, Organized!Expire, OrganizedP!Expire, Organized!Begin,
         OrganizedP!Begin, Organized!OrgRoles, OrganizedP!OrgRoles,
         Organized!TenantAdmin, OrganizedP!TenantAdmin, Organized!TenantCreator,
         OrganizedP!TenantCreator
<1>2. CASE UNCHANGED organizationVars
  BY <1>2 DEF organizationVars, OrganizedP!vars
<1> QED BY <1>1, <1>2 DEF StoresNext, allVars, organizationVars

LEMMA AzureSteps ==
  ASSUME Azure!Next
  PROVE  AzureP!Next
BY DEF
   Azure!Next, AzureP!Next, Azure!Begin, AzureP!Begin, Azure!Continue, AzureP!Continue,
   Azure!Abort, AzureP!Abort, Azure!CreateCredential, AzureP!CreateCredential,
   Azure!UpdateCredential, AzureP!UpdateCredential, Azure!DeleteCredential,
   AzureP!DeleteCredential, Azure!GetCredential, AzureP!GetCredential, Azure!Store,
   AzureP!Store, Azure!InsertRow, AzureP!InsertRow, Azure!VaultUpdate,
   AzureP!VaultUpdate, Azure!RowUpdate, AzureP!RowUpdate, Azure!RowDelete,
   AzureP!RowDelete, Azure!VaultDelete, AzureP!VaultDelete, Azure!CommitDelete,
   AzureP!CommitDelete, Azure!ReadSecret, AzureP!ReadSecret, Azure!Answer,
   AzureP!Answer, Azure!Become, AzureP!Become, Azure!Goto, AzureP!Goto, Azure!At,
   AzureP!At, Azure!Idle, AzureP!Idle, Azure!Live, AzureP!Live, Azure!Valid,
   AzureP!Valid, Azure!Locked, AzureP!Locked, Azure!StoreSecret, AzureP!StoreSecret,
   Azure!UpdateSecret, AzureP!UpdateSecret, Azure!Updatable, AzureP!Updatable,
   Azure!DeleteSecret, AzureP!DeleteSecret, Azure!GetSecret, AzureP!GetSecret,
   Azure!Versions, AzureP!Versions

LEMMA AzureFocus ==
  StoresSpec => (focus = "azure" => AzureP!Spec)
<1>1. StoresInit => AzureP!Init
  BY DEF StoresInit, Init, Idle, Absent, AzureP!Init, AzureP!Idle, AzureP!Absent
<1>2. focus = "azure" /\ [StoresNext]_allVars =>
        (focus = "azure")' /\ [AzureP!Next]_(AzureP!vars)
  BY AzureSteps DEF StoresNext, allVars, vars, AzureP!vars
<1> QED BY <1>1, <1>2, PTL DEF StoresSpec, AzureP!Spec

LEMMA HashiCorpSteps ==
  ASSUME HashiCorp!Next
  PROVE  HashiCorpP!Next
BY DEF
   HashiCorp!Next, HashiCorpP!Next, HashiCorp!Begin, HashiCorpP!Begin,
   HashiCorp!Continue, HashiCorpP!Continue, HashiCorp!Abort, HashiCorpP!Abort,
   HashiCorp!CreateCredential, HashiCorpP!CreateCredential, HashiCorp!UpdateCredential,
   HashiCorpP!UpdateCredential, HashiCorp!DeleteCredential, HashiCorpP!DeleteCredential,
   HashiCorp!GetCredential, HashiCorpP!GetCredential, HashiCorp!Store, HashiCorpP!Store,
   HashiCorp!InsertRow, HashiCorpP!InsertRow, HashiCorp!VaultUpdate,
   HashiCorpP!VaultUpdate, HashiCorp!RowUpdate, HashiCorpP!RowUpdate,
   HashiCorp!RowDelete, HashiCorpP!RowDelete, HashiCorp!VaultDelete,
   HashiCorpP!VaultDelete, HashiCorp!CommitDelete, HashiCorpP!CommitDelete,
   HashiCorp!ReadSecret, HashiCorpP!ReadSecret, HashiCorp!Answer, HashiCorpP!Answer,
   HashiCorp!Become, HashiCorpP!Become, HashiCorp!Goto, HashiCorpP!Goto, HashiCorp!At,
   HashiCorpP!At, HashiCorp!Idle, HashiCorpP!Idle, HashiCorp!Live, HashiCorpP!Live,
   HashiCorp!Valid, HashiCorpP!Valid, HashiCorp!Locked, HashiCorpP!Locked,
   HashiCorp!StoreSecret, HashiCorpP!StoreSecret, HashiCorp!UpdateSecret,
   HashiCorpP!UpdateSecret, HashiCorp!Updatable, HashiCorpP!Updatable,
   HashiCorp!DeleteSecret, HashiCorpP!DeleteSecret, HashiCorp!GetSecret,
   HashiCorpP!GetSecret, HashiCorp!Versions, HashiCorpP!Versions

LEMMA HashiCorpFocus ==
  StoresSpec => (focus = "hashicorp" => HashiCorpP!Spec)
<1>1. StoresInit => HashiCorpP!Init
  BY DEF StoresInit, Init, Idle, Absent, HashiCorpP!Init, HashiCorpP!Idle, HashiCorpP!Absent
<1>2. focus = "hashicorp" /\ [StoresNext]_allVars =>
        (focus = "hashicorp")' /\ [HashiCorpP!Next]_(HashiCorpP!vars)
  BY HashiCorpSteps DEF StoresNext, allVars, vars, HashiCorpP!vars
<1> QED BY <1>1, <1>2, PTL DEF StoresSpec, HashiCorpP!Spec

-----------------------------------------------------------------------------
(* The credentials.                                                        *)

(* The part that is looked at stays so.                                    *)
LEMMA AzureStays ==
  StoresSpec => [](focus = "azure") \/ []~(focus = "azure")
<1>1. focus = "azure" /\ [StoresNext]_allVars => (focus = "azure")'
  BY DEF StoresNext, allVars
<1>2. ~(focus = "azure") /\ [StoresNext]_allVars => (~(focus = "azure"))'
  BY DEF StoresNext, allVars
<1> QED BY <1>1, <1>2, PTL DEF StoresSpec
LEMMA HashiCorpStays ==
  StoresSpec => [](focus = "hashicorp") \/ []~(focus = "hashicorp")
<1>1. focus = "hashicorp" /\ [StoresNext]_allVars => (focus = "hashicorp")'
  BY DEF StoresNext, allVars
<1>2. ~(focus = "hashicorp") /\ [StoresNext]_allVars => (~(focus = "hashicorp"))'
  BY DEF StoresNext, allVars
<1> QED BY <1>1, <1>2, PTL DEF StoresSpec

(* While nothing fails, a credential that nobody is deleting can be used,  *)
(* in either vault (create_credential, update_credential,                  *)
(* delete_credential).                                                     *)
THEOREM EitherVaultKeepsLiveSecrets == StoresSpec => []LiveCredentialsAreUsable
<1> DEFINE AzureUsable == focus = "azure" => Azure!LiveCredentialsHaveSecret
           HashiCorpUsable == focus = "hashicorp" => HashiCorp!LiveCredentialsHaveSecret
<1>1. AzureP!Spec => []AzureP!LiveCredentialsHaveSecret
  BY VaultConstants, CredentialConstants, AzureP!LiveCredentialsStayUsable
<1>2. HashiCorpP!Spec => []HashiCorpP!LiveCredentialsHaveSecret
  BY VaultConstants, CredentialConstants, HashiCorpP!LiveCredentialsStayUsable
<1>3. AzureP!LiveCredentialsHaveSecret => AzureUsable
  BY DEF AzureP!LiveCredentialsHaveSecret, Azure!LiveCredentialsHaveSecret,
         AzureP!Live, Azure!Live, AzureP!Locked, Azure!Locked, AzureP!At, Azure!At,
         AzureP!GetSecret, Azure!GetSecret
<1>4. HashiCorpP!LiveCredentialsHaveSecret => HashiCorpUsable
  BY DEF HashiCorpP!LiveCredentialsHaveSecret, HashiCorp!LiveCredentialsHaveSecret,
         HashiCorpP!Live, HashiCorp!Live, HashiCorpP!Locked, HashiCorp!Locked,
         HashiCorpP!At, HashiCorp!At, HashiCorpP!GetSecret, HashiCorp!GetSecret
<1>5. (~(focus = "azure") => AzureUsable) /\ (~(focus = "hashicorp") => HashiCorpUsable)
  OBVIOUS
<1>6. AzureUsable /\ HashiCorpUsable => LiveCredentialsAreUsable
  BY DEF LiveCredentialsAreUsable
<1> HIDE DEF AzureUsable, HashiCorpUsable
<1> QED BY <1>1, <1>2, <1>3, <1>4, <1>5, <1>6, AzureFocus, HashiCorpFocus, AzureStays,
           HashiCorpStays, PTL

(* While nothing fails, a deleted credential leaves no secret in Azure's   *)
(* vault (delete_credential, update_credential).                           *)
THEOREM AzureForgetsDeletedCredentials == StoresSpec => []DeletedCredentialsLeaveNothing
<1>1. AzureP!Spec => []AzureP!DeletedCredentialsLeaveNoSecret
  BY VaultConstants, CredentialConstants, AzureP!DeletedCredentialsAreGone
<1>2. AzureP!DeletedCredentialsLeaveNoSecret => DeletedCredentialsLeaveNothing
  BY DEF DeletedCredentialsLeaveNothing, AzureP!DeletedCredentialsLeaveNoSecret,
         Azure!DeletedCredentialsLeaveNoSecret, AzureP!At, Azure!At, AzureP!GetSecret,
         Azure!GetSecret
<1>3. ~(focus = "azure") => DeletedCredentialsLeaveNothing
  BY DEF DeletedCredentialsLeaveNothing
<1> QED BY <1>1, <1>2, <1>3, AzureFocus, AzureStays, PTL

(* As long as no update changes the type of a credential, what a reader    *)
(* gets fits the type it read, in either vault (update_credential,         *)
(* get_credential, get_secret).                                            *)
THEOREM EitherVaultAnswersFittingSecrets == StoresSpec => []ReadSecretsFit
<1> DEFINE AzureFits == focus = "azure" => Azure!SecretFitsType
           HashiCorpFits == focus = "hashicorp" => HashiCorp!SecretFitsType
<1>1. AzureP!Spec => []AzureP!SecretFitsType
  BY VaultConstants, CredentialConstants, AzureP!SecretsAlwaysFit
<1>2. HashiCorpP!Spec => []HashiCorpP!SecretFitsType
  BY VaultConstants, CredentialConstants, HashiCorpP!SecretsAlwaysFit
<1>3. AzureP!SecretFitsType => AzureFits
  BY DEF AzureP!SecretFitsType, Azure!SecretFitsType, AzureP!At, Azure!At, AzureP!Valid,
         Azure!Valid
<1>4. HashiCorpP!SecretFitsType => HashiCorpFits
  BY DEF HashiCorpP!SecretFitsType, HashiCorp!SecretFitsType, HashiCorpP!At, HashiCorp!At,
         HashiCorpP!Valid, HashiCorp!Valid
<1>5. (~(focus = "azure") => AzureFits) /\ (~(focus = "hashicorp") => HashiCorpFits)
  OBVIOUS
<1>6. AzureFits /\ HashiCorpFits => ReadSecretsFit
  BY DEF ReadSecretsFit
<1> HIDE DEF AzureFits, HashiCorpFits
<1> QED BY <1>1, <1>2, <1>3, <1>4, <1>5, <1>6, AzureFocus, HashiCorpFocus, AzureStays,
           HashiCorpStays, PTL

-----------------------------------------------------------------------------
(* What belongs to rows elsewhere.                                         *)

LEMMA AttachedBehaves == StoresSpec => AttachedP!Spec
<1>1. StoresInit => AttachedP!Init
  BY DEF StoresInit, Attached!Init, AttachedP!Init, Attached!Conversations,
         AttachedP!Conversations, Attached!WrittenByAgents, AttachedP!WrittenByAgents
<1>2. [StoresNext]_allVars => [AttachedP!Next]_(AttachedP!vars)
  BY AttachedSteps
<1> QED BY <1>1, <1>2, PTL DEF StoresSpec, AttachedP!Spec

(* Whatever fails and whoever dies, a file that is listed has its content  *)
(* and a Foundry conversation its counterpart (upload_file,                *)
(* create_conversation).                                                   *)
THEOREM StoredRowsHaveTheirObject == StoresSpec => []RowsHaveTheirObject
<1>1. AttachedP!RowsHaveTheirObject => RowsHaveTheirObject
  BY DEF AttachedP!RowsHaveTheirObject, RowsHaveTheirObject, Attached!RowsHaveTheirObject
<1> QED BY <1>1, AttachedBehaves, AttachedP!ListedRowsHaveTheirObject, PTL

(* Whatever fails, a download misses only a file that was deleted          *)
(* meanwhile (download_file, delete_file).                                 *)
THEOREM StoredFilesAreMissedOnlyIfDeleted == StoresSpec => []MissingOnlyIfDeleted
<1>1. AttachedP!MissingOnlyIfDeleted => MissingOnlyIfDeleted
  BY DEF AttachedP!MissingOnlyIfDeleted, MissingOnlyIfDeleted, Attached!MissingOnlyIfDeleted,
         AttachedP!Serving, Attached!Serving
<1> QED BY <1>1, AttachedBehaves, AttachedP!DownloadsMissOnlyDeleted, PTL

(* While the calls succeed, nothing is left of a deleted file and nothing  *)
(* is lost of a living conversation or workflow (delete_file,              *)
(* delete_conversation, delete_workflow).                                  *)
THEOREM StoresAreCleanedCompletely == StoresSpec => []NothingLeftNorLost
<1>1. AttachedP!Distinct
  BY StoresConstants DEF AttachedP!Distinct
<1>2. AttachedP!NothingLeftNorLost => NothingLeftNorLost
  BY DEF AttachedP!NothingLeftNorLost, NothingLeftNorLost, Attached!NothingLeftNorLost,
         AttachedP!Deleting, Attached!Deleting, AttachedP!Serving, Attached!Serving,
         AttachedP!WrittenByAgents, Attached!WrittenByAgents
<1>3. AttachedP!Spec => []AttachedP!NothingLeftNorLost
  BY <1>1, AttachedP!DeletionsAreComplete
<1> QED BY <1>2, <1>3, AttachedBehaves, PTL

-----------------------------------------------------------------------------
(* The organizations.                                                      *)

LEMMA OrganizedBehaves == StoresSpec => OrganizedP!Spec
<1>1. StoresInit => OrganizedP!Init
  BY DEF StoresInit, Organized!Init, OrganizedP!Init, Organized!Places, OrganizedP!Places,
         Organized!Tenants, OrganizedP!Tenants, Organized!OrgRoles, OrganizedP!OrgRoles,
         Organized!GlobalAdmin, OrganizedP!GlobalAdmin, Organized!TenantAdmin,
         OrganizedP!TenantAdmin, Organized!TenantCreator, OrganizedP!TenantCreator,
         Organized!OfOrganization, OrganizedP!OfOrganization, Organized!NoTenant,
         OrganizedP!NoTenant
<1>2. [StoresNext]_allVars => [OrganizedP!Next]_(OrganizedP!vars)
  BY OrganizedSteps
<1> QED BY <1>1, <1>2, PTL DEF StoresSpec, OrganizedP!Spec

(* Roles come from who has had GLOBAL_ADMIN in that organization, tenants  *)
(* from who has had a role or is at home there (check_permissions with     *)
(* required_org_roles, set_principal, the two create_tenant).              *)
THEOREM OrganizationsGovernThemselves == StoresSpec => []AuthorityStaysInOrganization
<1>1. OrganizedP!AdminsAreUsers
  BY StoresConstants DEF OrganizedP!AdminsAreUsers
<1>2. OrganizedP!AuthorityStaysInOrganization => AuthorityStaysInOrganization
  BY DEF OrganizedP!AuthorityStaysInOrganization, AuthorityStaysInOrganization,
         Organized!AuthorityStaysInOrganization, Organized!Tenants, OrganizedP!Tenants,
         Organized!OrgRoles, OrganizedP!OrgRoles, Organized!GlobalAdmin,
         OrganizedP!GlobalAdmin, Organized!TenantAdmin, OrganizedP!TenantAdmin,
         Organized!TenantCreator, OrganizedP!TenantCreator, Organized!OfOrganization,
         OrganizedP!OfOrganization, Organized!HasHadRole, OrganizedP!HasHadRole
<1>3. OrganizedP!Spec => []OrganizedP!AuthorityStaysInOrganization
  BY <1>1, OrganizedP!RolesComeFromTheOrganization
<1> QED BY <1>2, <1>3, OrganizedBehaves, PTL

-----------------------------------------------------------------------------
(* The recent visits.                                                      *)

(* The instance has a Cardinality of its own.                              *)
LEMMA SameCardinality == \A S : Visits!Cardinality(S) = Cardinality(S)
  BY DEF Visits!Cardinality, Cardinality

(* A non-empty set of visits has an oldest one.                            *)
LEMMA SomeVisitIsOldest ==
  ASSUME NEW T, T # {}, \A r \in T : visit[r].at \in Nat
  PROVE  \E r \in T : \A s \in T : ~(visit[s].at < visit[r].at)
<1> DEFINE times == {visit[r].at : r \in T}
<1>1. times \subseteq Nat /\ times # {}
  OBVIOUS
<1>2. \E t \in times : \A u \in times : ~(<<u, t>> \in OpToRel(<, Nat))
  BY <1>1, NatLessThanWellFounded, WFMin, Zenon
<1>3. \A t, u \in Nat : <<u, t>> \in OpToRel(<, Nat) <=> u < t
  BY DEF OpToRel
<1>4. PICK t \in times : \A u \in times : ~(u < t)
  BY <1>1, <1>2, <1>3, Zenon
<1> QED BY <1>4

(* The n oldest of M + n visits leave M: an oldest one of those that are   *)
(* not selected has n visits before it, all of them selected.              *)
LEMMA SelectionSuffices ==
  ASSUME IsFiniteSet(Resources), NEW n \in Nat, NEW cap \in Nat,
         \A r \in Visits!Visited : visit[r].at \in Nat,
         Cardinality(Visits!Visited) <= cap + n
  PROVE  Cardinality({r \in Visits!Visited : visit[r].id \notin Visits!OldestIds(n)}) <= cap
<1> DEFINE V == Visits!Visited
           low == {s \in V : Cardinality(Visits!Before(s)) < n}
           left == {r \in V : visit[r].id \notin Visits!OldestIds(n)}
<1>1. left \subseteq V \ low
  BY SameCardinality DEF Visits!OldestIds
<1>2. IsFiniteSet(V)
  BY FS_Subset DEF Visits!Visited
<1>3. CASE left = {}
  BY <1>3, FS_EmptySet
<1>4. CASE left # {}
  <2>1. PICK r \in V \ low : \A s \in V \ low : ~(visit[s].at < visit[r].at)
    BY <1>1, <1>4, SomeVisitIsOldest
  <2>2. Visits!Before(r) \subseteq low
    BY <2>1 DEF Visits!Before
  <2>3. IsFiniteSet(Visits!Before(r)) /\ Cardinality(Visits!Before(r)) \in Nat
    BY <1>2, FS_Subset, FS_CardinalityType DEF Visits!Before
  <2>4. Cardinality(Visits!Before(r)) >= n
    BY <2>1, <2>3
  <2>5. V \cap Visits!Before(r) = Visits!Before(r)
    BY DEF Visits!Before
  <2>6. /\ IsFiniteSet(V \ Visits!Before(r))
        /\ Cardinality(V \ Visits!Before(r)) = Cardinality(V) - Cardinality(Visits!Before(r))
    BY <1>2, <2>5, FS_Difference
  <2>7. Cardinality(left) <= Cardinality(V \ Visits!Before(r))
    BY <1>1, <2>2, <2>6, FS_Subset
  <2>8. Cardinality(V) \in Nat /\ Cardinality(left) \in Nat
    BY <1>1, <1>2, FS_CardinalityType, FS_Subset
  <2> QED BY <2>3, <2>4, <2>6, <2>7, <2>8
<1> QED BY <1>3, <1>4

LEMMA UnionIsNoLarger ==
  ASSUME NEW S, IsFiniteSet(S), NEW T, IsFiniteSet(T)
  PROVE  /\ IsFiniteSet(S \cup T)
         /\ Cardinality(S \cup T) <= Cardinality(S) + Cardinality(T)
<1>1. IsFiniteSet(S \cap T)
  BY FS_Intersection
<1>2. Cardinality(S) \in Nat /\ Cardinality(T) \in Nat /\ Cardinality(S \cap T) \in Nat
  BY <1>1, FS_CardinalityType
<1>3. /\ IsFiniteSet(S \cup T)
      /\ Cardinality(S \cup T) = Cardinality(S) + Cardinality(T) - Cardinality(S \cap T)
  BY FS_Union
<1> QED BY <1>2, <1>3

(* Twice the limit is enough, if no more than limit of the visits are to   *)
(* resources that have gone.                                               *)
LEMMA TwiceTheLimitSuffices ==
  ASSUME IsFiniteSet(Resources), NEW limit \in Nat,
         \A r \in Visits!Visited : visit[r].at \in Nat,
         Cardinality(Visits!Visited \ existing) <= limit
  PROVE  Visits!ListRecentVisits(limit) = Visits!Latest(limit, Visits!Visited \cap existing)
<1> DEFINE V == Visits!Visited
           E == V \cap existing
           recent == Visits!Latest(2 * limit, V)
           Later(r, rows) == {s \in rows : visit[s].at > visit[r].at}
<1>1. \A n, r : \A rows : r \in Visits!Latest(n, rows) <=> r \in rows /\ Cardinality(Later(r, rows)) < n
  BY SameCardinality DEF Visits!Latest
<1>2. IsFiniteSet(V)
  BY FS_Subset DEF Visits!Visited
<1>3. \A rows : \A r : rows \subseteq V =>
        IsFiniteSet(Later(r, rows)) /\ Cardinality(Later(r, rows)) \in Nat
  BY <1>2, FS_Subset, FS_CardinalityType
<1>4. recent \subseteq V
  BY <1>1
<1>5. ASSUME NEW r \in Visits!Latest(limit, E)
      PROVE  r \in Visits!Latest(limit, recent \cap existing)
  <2>1. r \in E /\ Cardinality(Later(r, E)) < limit
    BY <1>1, <1>5
  <2>2. IsFiniteSet(V \ existing) /\ Cardinality(V \ existing) \in Nat
    BY <1>2, FS_Subset, FS_CardinalityType
  <2>3. /\ IsFiniteSet(Later(r, E) \cup (V \ existing))
        /\ Cardinality(Later(r, E) \cup (V \ existing)) <=
             Cardinality(Later(r, E)) + Cardinality(V \ existing)
    BY <1>3, <2>2, UnionIsNoLarger
  <2>4. Later(r, V) \subseteq Later(r, E) \cup (V \ existing)
    OBVIOUS
  <2>5. Cardinality(Later(r, V)) <= Cardinality(Later(r, E)) + Cardinality(V \ existing)
    <3>1. Cardinality(Later(r, V)) <= Cardinality(Later(r, E) \cup (V \ existing))
      BY <2>3, <2>4, FS_Subset
    <3>2. Cardinality(Later(r, E) \cup (V \ existing)) \in Nat
      BY <2>3, FS_CardinalityType
    <3>3. Cardinality(Later(r, V)) \in Nat /\ Cardinality(Later(r, E)) \in Nat
      BY <1>3
    <3> HIDE DEF Later, V, E
    <3> QED BY <2>2, <2>3, <3>1, <3>2, <3>3
  <2>6. Cardinality(Later(r, V)) \in Nat /\ Cardinality(Later(r, E)) \in Nat
    BY <1>3
  <2>7. Cardinality(Later(r, V)) < 2 * limit
    <3> HIDE DEF Later, E
    <3> QED BY <2>1, <2>2, <2>5, <2>6
  <2>8. r \in recent \cap existing
    BY <1>1, <2>1, <2>7
  <2>9. Cardinality(Later(r, recent \cap existing)) <= Cardinality(Later(r, E))
    <3>1. Later(r, recent \cap existing) \subseteq Later(r, E)
      BY <1>4
    <3>2. IsFiniteSet(Later(r, E))
      BY <1>3
    <3> QED BY <3>1, <3>2, FS_Subset
  <2>10. Cardinality(Later(r, recent \cap existing)) \in Nat
    BY <1>3, <1>4
  <2>11. Cardinality(Later(r, recent \cap existing)) < limit
    <3> HIDE DEF Later, E, recent
    <3> QED BY <2>1, <2>6, <2>9, <2>10
  <2> QED BY <1>1, <2>8, <2>11
<1>6. ASSUME NEW r \in Visits!Latest(limit, recent \cap existing)
      PROVE  r \in Visits!Latest(limit, E)
  <2>1. r \in recent \cap existing /\ Cardinality(Later(r, recent \cap existing)) < limit
    BY <1>1, <1>6
  <2>2. r \in V /\ Cardinality(Later(r, V)) < 2 * limit
    BY <1>1, <2>1
  <2>3. ASSUME NEW s \in Later(r, E)
        PROVE  s \in recent
    <3>1. Later(s, V) \subseteq Later(r, V)
      BY <2>2, <2>3
    <3>2. Cardinality(Later(s, V)) <= Cardinality(Later(r, V))
      <4>1. IsFiniteSet(Later(r, V))
        BY <1>3
      <4> QED BY <3>1, <4>1, FS_Subset
    <3>3. Cardinality(Later(s, V)) \in Nat /\ Cardinality(Later(r, V)) \in Nat
      BY <1>3
    <3>4. Cardinality(Later(s, V)) < 2 * limit
      <4> HIDE DEF Later
      <4> QED BY <2>2, <3>2, <3>3
    <3> QED BY <1>1, <2>3, <3>4
  <2>4. Later(r, E) = Later(r, recent \cap existing)
    BY <1>4, <2>3
  <2> QED BY <1>1, <1>4, <2>1, <2>4
<1>7. Visits!ListRecentVisits(limit) = Visits!Latest(limit, recent \cap existing)
  BY DEF Visits!ListRecentVisits
<1>8. /\ Visits!Latest(limit, E) \subseteq E
      /\ Visits!Latest(limit, recent \cap existing) \subseteq recent \cap existing
  BY <1>1
<1> HIDE DEF recent, E
<1> QED BY <1>5, <1>6, <1>7 DEF E

-----------------------------------------------------------------------------
LEMMA VisitsSteps ==
  ASSUME [StoresNext]_allVars
  PROVE  [Visits!Next]_(Visits!vars)
BY DEF StoresNext, allVars, visitVars, Visits!vars

(* The rows and the batches are of the shape the code expects.             *)
VisitsShaped ==
  /\ existing \subseteq Resources
  /\ clock \in Nat
  /\ visit \in [Resources -> {NoVisit} \cup [id : 0 .. clock, at : 0 .. clock]]
  /\ sync \in [Workers -> {NoJob} \cup Visits!Batches]
  /\ \A w \in Workers : sync[w] # NoJob =>
       /\ sync[w].excess <= Cardinality(Resources)
       /\ \A k \in sync[w].known : k.row.id <= clock /\ k.row.at <= clock

LEMMA VisitedAreFinite ==
  ASSUME VisitsShaped
  PROVE  /\ IsFiniteSet(Visits!Visited)
         /\ Cardinality(Visits!Visited) \in Nat
         /\ Cardinality(Visits!Visited) <= Cardinality(Resources)
         /\ Cardinality(Resources) \in Nat
         /\ \A r \in Visits!Visited : visit[r] \in [id : Nat, at : Nat]
<1>1. Visits!Visited \subseteq Resources /\ IsFiniteSet(Resources)
  BY StoresConstants DEF Visits!Visited
<1>2. \A r \in Visits!Visited : visit[r] \in [id : Nat, at : Nat]
  <2> TAKE r \in Visits!Visited
  <2>1. visit[r] \in [id : 0 .. clock, at : 0 .. clock]
    BY <1>1 DEF VisitsShaped, Visits!Visited
  <2> QED BY <2>1 DEF VisitsShaped
<1> QED BY <1>1, <1>2, FS_Subset, FS_CardinalityType

(* What the next step of a batch may be.                                   *)
LEMMA BatchesStayShaped ==
  ASSUME VisitsShaped, clock' \in Nat, clock' >= clock,
         NEW w \in Workers, NEW b \in {NoJob} \cup Visits!Batches, sync' = [sync EXCEPT ![w] = b],
         b # NoJob => /\ b.excess <= Cardinality(Resources)
                      /\ \A k \in b.known : k.row.id <= clock' /\ k.row.at <= clock'
  PROVE  /\ sync' \in [Workers -> {NoJob} \cup Visits!Batches]
         /\ \A v \in Workers : sync'[v] # NoJob =>
              /\ sync'[v].excess <= Cardinality(Resources)
              /\ \A k \in sync'[v].known : k.row.id <= clock' /\ k.row.at <= clock'
<1>1. sync' \in [Workers -> {NoJob} \cup Visits!Batches]
  BY DEF VisitsShaped
<1>2. ASSUME NEW v \in Workers, sync'[v] # NoJob
      PROVE  /\ sync'[v].excess <= Cardinality(Resources)
             /\ \A k \in sync'[v].known : k.row.id <= clock' /\ k.row.at <= clock'
  <2>1. CASE v = w
    BY <2>1, <1>2 DEF VisitsShaped
  <2>2. CASE v # w
    <3>1. sync'[v] = sync[v]
      BY <2>2 DEF VisitsShaped
    <3>2. sync[v] \in Visits!Batches
      BY <3>1, <1>2 DEF VisitsShaped
    <3>3. \A k \in sync[v].known : k.row.id \in Nat /\ k.row.at \in Nat
      BY <3>2 DEF Visits!Batches
    <3> QED BY <1>2, <3>1, <3>3 DEF VisitsShaped
  <2> QED BY <2>1, <2>2
<1> QED BY <1>1, <1>2

LEMMA RowsStayShaped ==
  ASSUME VisitsShaped, clock' \in Nat, clock' >= clock
  PROVE  visit \in [Resources -> {NoVisit} \cup [id : 0 .. clock', at : 0 .. clock']]
BY DEF VisitsShaped

LEMMA CollectKeepsShape ==
  ASSUME VisitsShaped, NEW w \in Workers, Visits!Collect(w)
  PROVE  VisitsShaped'
<1> DEFINE b == sync[w]
           r == Head(b.batch)
<1>1. b \in Visits!Batches /\ b # NoJob
  BY DEF VisitsShaped, Visits!Collect, Visits!At, Visits!Syncing
<1>2. /\ b.excess <= Cardinality(Resources)
      /\ \A k \in b.known : k.row.id <= clock /\ k.row.at <= clock
  BY <1>1 DEF VisitsShaped
<1>3. existing' \subseteq Resources /\ visit' = visit /\ existing' = existing
  BY DEF VisitsShaped, Visits!Collect
<1>4. \A k \in b.known : k.row.id \in Nat /\ k.row.at \in Nat
  BY <1>1 DEF Visits!Batches
<1>5. CASE b.batch = <<>>
  <2> DEFINE a == [b EXCEPT !.pc = "store"]
  <2>1. sync' = [sync EXCEPT ![w] = a] /\ clock' = clock
    BY <1>5 DEF Visits!Collect, Visits!Goto, Visits!Become
  <2>2. a \in Visits!Batches /\ a.excess = b.excess /\ a.known = b.known
    BY <1>1 DEF Visits!Batches
  <2> HIDE DEF a, b
  <2>3. clock' \in Nat /\ clock' >= clock
    BY <2>1 DEF VisitsShaped
  <2> QED BY <1>2, <1>3, <2>1, <2>2, <2>3, BatchesStayShaped, RowsStayShaped DEF VisitsShaped
<1>6. CASE b.batch # <<>> /\ r \in Visits!Visited
  <2> DEFINE rest == [b EXCEPT !.batch = Tail(@)]
             touched == [id |-> visit[r].id, at |-> clock]
             a == [rest EXCEPT !.known =
                     {k \in @ : k.resource # r} \cup {[resource |-> r, row |-> touched]}]
  <2>1. sync' = [sync EXCEPT ![w] = a] /\ clock' = clock + 1
    BY <1>6 DEF Visits!Collect, Visits!Become
  <2>2. Tail(b.batch) \in Seq(Resources) /\ r \in Resources
    BY <1>1, <1>6 DEF Visits!Batches
  <2>3. rest \in Visits!Batches /\ rest.known = b.known /\ rest.excess = b.excess
    <3>1. \A tail \in Seq(Resources) : LET q == [b EXCEPT !.batch = tail] IN
            q \in Visits!Batches /\ q.known = b.known /\ q.excess = b.excess
      BY <1>1 DEF Visits!Batches
    <3> QED BY <2>2, <3>1, Zenon
  <2>4. visit[r] \in [id : 0 .. clock, at : 0 .. clock] /\ clock \in Nat
    BY <1>6, <2>2 DEF VisitsShaped, Visits!Visited
  <2>5. touched \in [id : Nat, at : Nat] /\ touched.id <= clock /\ touched.at <= clock
    BY <2>4
  <2> HIDE DEF rest, touched, b, r
  <2>6. /\ a \in Visits!Batches /\ a.excess = b.excess
        /\ a.known = {k \in b.known : k.resource # r} \cup {[resource |-> r, row |-> touched]}
    <3>1. {k \in b.known : k.resource # r} \cup {[resource |-> r, row |-> touched]}
            \subseteq [resource : Resources, row : [id : Nat, at : Nat]]
      BY <1>1, <2>2, <2>5 DEF Visits!Batches
    <3> QED BY <2>3, <3>1 DEF Visits!Batches
  <2>7. clock' \in Nat /\ clock' >= clock
    BY <2>1, <2>4
  <2>8. \A k \in a.known : k.row.id <= clock' /\ k.row.at <= clock'
    <3> TAKE k \in a.known
    <3>1. CASE k \in b.known
      BY <3>1, <1>2, <1>4, <2>1, <2>4
    <3>2. CASE k = [resource |-> r, row |-> touched]
      BY <3>2, <2>1, <2>4, <2>5
    <3> QED BY <2>6, <3>1, <3>2
  <2> HIDE DEF a
  <2> QED BY <1>2, <1>3, <2>1, <2>6, <2>7, <2>8, BatchesStayShaped, RowsStayShaped
          DEF VisitsShaped
<1>7. CASE b.batch # <<>> /\ r \notin Visits!Visited
  <2> DEFINE rest == [b EXCEPT !.batch = Tail(@)]
             a == [rest EXCEPT !.new = Append(@, r)]
  <2>1. sync' = [sync EXCEPT ![w] = a] /\ clock' = clock
    BY <1>7 DEF Visits!Collect, Visits!Become
  <2>2. Tail(b.batch) \in Seq(Resources) /\ r \in Resources
    BY <1>1, <1>7 DEF Visits!Batches
  <2>3. rest \in Visits!Batches /\ rest.known = b.known /\ rest.excess = b.excess
    <3>1. \A tail \in Seq(Resources) : LET q == [b EXCEPT !.batch = tail] IN
            q \in Visits!Batches /\ q.known = b.known /\ q.excess = b.excess
      BY <1>1 DEF Visits!Batches
    <3> QED BY <2>2, <3>1, Zenon
  <2> HIDE DEF rest, b, r
  <2>4. Append(rest.new, r) \in Seq(Resources)
    BY <2>2, <2>3 DEF Visits!Batches
  <2>5. a \in Visits!Batches /\ a.excess = b.excess /\ a.known = b.known
    <3>1. \A longer \in Seq(Resources) : LET q == [rest EXCEPT !.new = longer] IN
            q \in Visits!Batches /\ q.known = b.known /\ q.excess = b.excess
      BY <2>3 DEF Visits!Batches
    <3> QED BY <2>4, <3>1, Zenon
  <2> HIDE DEF a
  <2>6. clock' \in Nat /\ clock' >= clock
    BY <2>1 DEF VisitsShaped
  <2> QED BY <1>2, <1>3, <2>1, <2>5, <2>6, BatchesStayShaped, RowsStayShaped DEF VisitsShaped
<1> QED BY <1>5, <1>6, <1>7

LEMMA StoreKeepsShape ==
  ASSUME VisitsShaped, NEW w \in Workers, Visits!Store(w)
  PROVE  VisitsShaped'
<1> DEFINE b == sync[w]
           known == b.known
           new == b.new
<1>1. b \in Visits!Batches /\ b # NoJob
  BY DEF VisitsShaped, Visits!Store, Visits!At, Visits!Syncing
<1>2. /\ b.excess <= Cardinality(Resources)
      /\ \A k \in known : k.row.id <= clock /\ k.row.at <= clock
  BY <1>1 DEF VisitsShaped
<1>3. existing' \subseteq Resources
  BY DEF VisitsShaped, Visits!Store
<1>4. /\ known \subseteq [resource : Resources, row : [id : Nat, at : Nat]]
      /\ new \in Seq(Resources) /\ clock \in Nat
  BY <1>1 DEF Visits!Batches, VisitsShaped
<1>5. CASE visit' = Visits!Stored(known, new) /\ clock' = clock + Len(new) + 1
             /\ Visits!Goto(w, "count")
  <2> DEFINE a == [b EXCEPT !.pc = "count"]
  <2>1. sync' = [sync EXCEPT ![w] = a]
    BY <1>5 DEF Visits!Goto, Visits!Become
  <2>2. a \in Visits!Batches /\ a.excess = b.excess /\ a.known = known
    BY <1>1 DEF Visits!Batches
  <2>3. Len(new) \in Nat /\ clock' \in Nat /\ clock' >= clock
    BY <1>4, <1>5
  <2>4. \A k \in known : k.row.id <= clock' /\ k.row.at <= clock'
    <3> TAKE k \in known
    <3>1. k.row.id \in Nat /\ k.row.at \in Nat
      BY <1>4
    <3> QED BY <1>2, <1>4, <2>3, <3>1
  <2>5. visit' \in [Resources -> {NoVisit} \cup [id : 0 .. clock', at : 0 .. clock']]
    <3> DEFINE Known(r) == CHOOSE k \in known : k.resource = r
               Fresh(r) == CHOOSE i \in DOMAIN new : new[i] = r
               Upsert(r) == IF \E k \in known : k.resource = r
                            THEN Known(r).row
                            ELSE IF \E i \in DOMAIN new : new[i] = r
                            THEN LET n == clock + Fresh(r) IN [id |-> n, at |-> n]
                            ELSE visit[r]
    <3>1. visit' = [r \in Resources |-> Upsert(r)]
      BY <1>5 DEF Visits!Stored
    <3>2. ASSUME NEW r \in Resources
          PROVE  Upsert(r) \in {NoVisit} \cup [id : 0 .. clock', at : 0 .. clock']
      <4>1. CASE \E k \in known : k.resource = r
        <5>1. Known(r) \in known
          BY <4>1
        <5>2. Upsert(r) = Known(r).row
          BY <4>1
        <5> HIDE DEF Known, Upsert
        <5>3. Upsert(r) \in [id : Nat, at : Nat] /\ Upsert(r).id <= clock' /\ Upsert(r).at <= clock'
          BY <1>4, <2>4, <5>1, <5>2
        <5> QED BY <2>3, <5>3
      <4>2. CASE /\ ~\E k \in known : k.resource = r
                 /\ \E i \in DOMAIN new : new[i] = r
        <5>1. Fresh(r) \in DOMAIN new
          BY <4>2
        <5>2. DOMAIN new = 1 .. Len(new)
          BY <1>4
        <5>3. Upsert(r) = [id |-> clock + Fresh(r), at |-> clock + Fresh(r)]
          BY <4>2
        <5> HIDE DEF Fresh, Upsert
        <5>4. clock + Fresh(r) \in 0 .. clock'
          BY <1>4, <1>5, <2>3, <5>1, <5>2
        <5> QED BY <5>3, <5>4
      <4>3. CASE /\ ~\E k \in known : k.resource = r
                 /\ ~\E i \in DOMAIN new : new[i] = r
        <5>1. Upsert(r) = visit[r]
          BY <4>3
        <5>2. visit[r] \in {NoVisit} \cup [id : 0 .. clock', at : 0 .. clock']
          BY <2>3, RowsStayShaped
        <5> QED BY <5>1, <5>2
      <4> QED BY <4>1, <4>2, <4>3
    <3> HIDE DEF Upsert
    <3> QED BY <3>1, <3>2
  <2> HIDE DEF a
  <2> QED BY <1>2, <1>3, <2>1, <2>2, <2>3, <2>4, <2>5, BatchesStayShaped DEF VisitsShaped
<1>6. CASE Visits!End(w) /\ UNCHANGED <<visit, clock>>
  <2>1. sync' = [sync EXCEPT ![w] = NoJob]
    BY <1>6 DEF Visits!End, Visits!Become
  <2> QED BY <1>3, <1>4, <1>6, <2>1, BatchesStayShaped DEF VisitsShaped
<1> QED BY <1>5, <1>6 DEF Visits!Store

LEMMA SyncKeepsShape ==
  ASSUME VisitsShaped, NEW w \in Workers, NEW n \in Nat, NEW batch \in [1 .. n -> Resources],
         Visits!SyncRecentVisits(w, batch)
  PROVE  VisitsShaped'
<1> DEFINE a == [pc |-> "collect", batch |-> batch, known |-> {}, new |-> <<>>,
                 excess |-> 0, oldest |-> {}]
<1>1. sync' = [sync EXCEPT ![w] = a] /\ UNCHANGED <<existing, visit, clock>>
  BY DEF Visits!SyncRecentVisits, Visits!Become
<1>2. batch \in Seq(Resources)
  OBVIOUS
<1>3. a \in Visits!Batches /\ a.excess = 0 /\ a.known = {}
  BY <1>2 DEF Visits!Batches
<1>4. 0 <= Cardinality(Resources)
  BY VisitedAreFinite
<1> HIDE DEF a
<1> QED BY <1>1, <1>3, <1>4, BatchesStayShaped DEF VisitsShaped

LEMMA CleanupKeepsShape ==
  ASSUME VisitsShaped, NEW w \in Workers,
         Visits!Count(w) \/ Visits!SelectOldest(w) \/ Visits!Purge(w) \/ Visits!Crash(w)
  PROVE  VisitsShaped'
<1> DEFINE b == sync[w]
<1>1. b \in Visits!Batches /\ b # NoJob
  BY DEF VisitsShaped, Visits!Count, Visits!SelectOldest, Visits!Purge, Visits!Crash, Visits!At,
         Visits!Syncing
<1>2. /\ b.excess <= Cardinality(Resources)
      /\ \A k \in b.known : k.row.id <= clock /\ k.row.at <= clock
  BY <1>1 DEF VisitsShaped
<1>3. existing' \subseteq Resources /\ clock' = clock /\ clock \in Nat
  BY DEF VisitsShaped, Visits!Count, Visits!SelectOldest, Visits!Purge, Visits!Crash
<1>4. visit' \in [Resources -> {NoVisit} \cup [id : 0 .. clock, at : 0 .. clock]]
  BY DEF VisitsShaped, Visits!Count, Visits!SelectOldest, Visits!Purge, Visits!Crash
<1>5. CASE sync' = [sync EXCEPT ![w] = NoJob]
  BY <1>3, <1>4, <1>5, BatchesStayShaped DEF VisitsShaped
<1>6. CASE sync' = [sync EXCEPT ![w] = [b EXCEPT
                      !.pc = "oldest", !.excess = Cardinality(Visits!Visited) - MaxVisits]]
           /\ Cardinality(Visits!Visited) > MaxVisits
  <2> DEFINE n == Cardinality(Visits!Visited) - MaxVisits
             a == [b EXCEPT !.pc = "oldest", !.excess = n]
  <2>1. n \in Nat /\ n <= Cardinality(Resources)
    BY <1>6, VisitedAreFinite, StoresConstants
  <2> HIDE DEF n
  <2>2. a \in Visits!Batches /\ a.excess = n /\ a.known = b.known
    BY <1>1, <2>1 DEF Visits!Batches
  <2>3. sync' = [sync EXCEPT ![w] = a]
    BY <1>6 DEF n
  <2> HIDE DEF a
  <2> QED BY <1>2, <1>3, <1>4, <2>1, <2>2, <2>3, BatchesStayShaped DEF VisitsShaped
<1>7. CASE Visits!SelectOldest(w)
  <2> DEFINE ids == Visits!OldestIds(b.excess)
             a == [b EXCEPT !.pc = "purge", !.oldest = ids]
  <2>1. ids \subseteq Nat
    BY VisitedAreFinite DEF Visits!OldestIds
  <2>2. sync' = [sync EXCEPT ![w] = a]
    BY <1>7 DEF Visits!SelectOldest, Visits!Become
  <2> HIDE DEF ids
  <2>3. a \in Visits!Batches /\ a.excess = b.excess /\ a.known = b.known
    BY <1>1, <2>1 DEF Visits!Batches
  <2> HIDE DEF a
  <2> QED BY <1>2, <1>3, <1>4, <2>2, <2>3, BatchesStayShaped DEF VisitsShaped
<1> QED BY <1>5, <1>6, <1>7, SameCardinality
        DEF Visits!Count, Visits!Purge, Visits!Crash, Visits!End, Visits!Become

(* The rows and the batches keep their shape.                              *)
LEMMA VisitsKeepShape == StoresSpec => []VisitsShaped
<1>1. StoresInit => VisitsShaped
  BY DEF StoresInit, Visits!Init, VisitsShaped
<1>2. VisitsShaped /\ [StoresNext]_allVars => VisitsShaped'
  <2> SUFFICES ASSUME VisitsShaped, [Visits!Next]_(Visits!vars)
               PROVE  VisitsShaped'
    BY VisitsSteps
  <2>1. ASSUME NEW w \in Workers, NEW n \in 0 .. MaxBatch, NEW batch \in [1 .. n -> Resources],
               Visits!SyncRecentVisits(w, batch)
        PROVE  VisitsShaped'
    BY <2>1, SyncKeepsShape
  <2>2. ASSUME NEW w \in Workers, Visits!Collect(w)
        PROVE  VisitsShaped'
    BY <2>2, CollectKeepsShape
  <2>3. ASSUME NEW w \in Workers, Visits!Store(w)
        PROVE  VisitsShaped'
    BY <2>3, StoreKeepsShape
  <2>4. ASSUME NEW w \in Workers,
               Visits!Count(w) \/ Visits!SelectOldest(w) \/ Visits!Purge(w) \/ Visits!Crash(w)
        PROVE  VisitsShaped'
    BY <2>4, CleanupKeepsShape
  <2>5. ASSUME NEW r \in Resources, Visits!DeleteResource(r)
        PROVE  VisitsShaped'
    BY <2>5 DEF Visits!DeleteResource, VisitsShaped
  <2>6. CASE UNCHANGED Visits!vars
    BY <2>6 DEF Visits!vars, VisitsShaped
  <2> QED BY <2>1, <2>2, <2>3, <2>4, <2>5, <2>6 DEF Visits!Next
<1> QED BY <1>1, <1>2, PTL DEF StoresSpec

(* Of the visits that exceed the cap, a batch that has been stored removes *)
(* enough yet: from its count, which sees all that is stored by then, to   *)
(* its purge no other batch is stored without a cleanup of its own.        *)
StillToPurge(w) ==
  \/ Visits!At(w, "count")
  \/ /\ Visits!At(w, "oldest")
     /\ Cardinality(Visits!Visited) <= MaxVisits + sync[w].excess
  \/ /\ Visits!At(w, "purge")
     /\ Cardinality({r \in Visits!Visited : visit[r].id \notin sync[w].oldest}) <= MaxVisits

CapKept ==
  failing \/ Cardinality(Visits!Visited) <= MaxVisits \/ \E w \in Workers : StillToPurge(w)

(* Fewer visits neither exceed the cap nor need another purge.             *)
LEMMA FewerVisitsKeepCap ==
  ASSUME VisitsShaped, CapKept, failing' = failing,
         Visits!Visited' \subseteq Visits!Visited,
         \A r \in Visits!Visited' : visit'[r] = visit[r],
         \A v \in Workers : StillToPurge(v) =>
           sync'[v] = sync[v] \/ Cardinality(Visits!Visited') <= MaxVisits
  PROVE  CapKept'
<1>1. /\ IsFiniteSet(Visits!Visited) /\ Cardinality(Visits!Visited) \in Nat
      /\ MaxVisits \in Nat
  BY VisitedAreFinite, StoresConstants
<1>2. /\ Cardinality(Visits!Visited') <= Cardinality(Visits!Visited)
      /\ Cardinality(Visits!Visited') \in Nat
  BY <1>1, FS_Subset, FS_CardinalityType
<1>3. CASE failing
  BY <1>3 DEF CapKept
<1>4. CASE Cardinality(Visits!Visited) <= MaxVisits
  BY <1>1, <1>2, <1>4 DEF CapKept
<1>5. ASSUME NEW w \in Workers, StillToPurge(w)
      PROVE  CapKept'
  <2>1. CASE Cardinality(Visits!Visited') <= MaxVisits
    BY <2>1 DEF CapKept
  <2>2. CASE sync'[w] = sync[w]
    <3>1. CASE Visits!At(w, "count")
      BY <2>2, <3>1 DEF CapKept, StillToPurge, Visits!At, Visits!Syncing
    <3>2. CASE /\ Visits!At(w, "oldest")
               /\ Cardinality(Visits!Visited) <= MaxVisits + sync[w].excess
      <4>1. sync[w].excess \in Nat
        BY <3>2 DEF VisitsShaped, Visits!Batches, Visits!At, Visits!Syncing
      <4>2. Cardinality(Visits!Visited') <= MaxVisits + sync'[w].excess
        BY <1>1, <1>2, <2>2, <3>2, <4>1
      <4> QED BY <2>2, <3>2, <4>2 DEF CapKept, StillToPurge, Visits!At, Visits!Syncing
    <3>3. CASE /\ Visits!At(w, "purge")
               /\ Cardinality({r \in Visits!Visited : visit[r].id \notin sync[w].oldest})
                    <= MaxVisits
      <4> DEFINE left == {r \in Visits!Visited : visit[r].id \notin sync[w].oldest}
                 after == {r \in Visits!Visited' : visit'[r].id \notin sync'[w].oldest}
      <4>1. after \subseteq left
        BY <2>2
      <4>2. IsFiniteSet(left)
        BY <1>1, FS_Subset
      <4>3. Cardinality(after) <= Cardinality(left)
        BY <4>1, <4>2, FS_Subset
      <4>4. Cardinality(after) \in Nat /\ Cardinality(left) \in Nat
        BY <4>1, <4>2, FS_Subset, FS_CardinalityType
      <4>5. Cardinality(after) <= MaxVisits
        <5> HIDE DEF after
        <5> QED BY <1>1, <3>3, <4>3, <4>4
      <4> QED BY <2>2, <3>3, <4>5 DEF CapKept, StillToPurge, Visits!At, Visits!Syncing
    <3> QED BY <1>5, <3>1, <3>2, <3>3 DEF StillToPurge
  <2> QED BY <1>5, <2>1, <2>2
<1> QED BY <1>3, <1>4, <1>5 DEF CapKept

LEMMA EachStepKeepsCap ==
  ASSUME VisitsShaped, CapKept, [Visits!Next]_(Visits!vars)
  PROVE  CapKept'
<1> USE DEF Visits!At, Visits!Syncing
<1>1. ASSUME NEW w \in Workers, NEW n \in 0 .. MaxBatch, NEW batch \in [1 .. n -> Resources],
             Visits!SyncRecentVisits(w, batch)
      PROVE  CapKept'
  <2>1. UNCHANGED <<failing, visit>> /\ \A v \in Workers : v # w => sync'[v] = sync[v]
    BY <1>1 DEF Visits!SyncRecentVisits, Visits!Become, VisitsShaped
  <2>2. ~StillToPurge(w)
    BY <1>1 DEF Visits!SyncRecentVisits, StillToPurge
  <2> QED BY <2>1, <2>2, FewerVisitsKeepCap DEF Visits!Visited
<1>2. ASSUME NEW w \in Workers, Visits!Collect(w)
      PROVE  CapKept'
  <2>1. UNCHANGED <<failing, visit>> /\ \A v \in Workers : v # w => sync'[v] = sync[v]
    BY <1>2 DEF Visits!Collect, Visits!Goto, Visits!Become, VisitsShaped
  <2>2. ~StillToPurge(w)
    BY <1>2 DEF Visits!Collect, StillToPurge
  <2> QED BY <2>1, <2>2, FewerVisitsKeepCap DEF Visits!Visited
<1>3. ASSUME NEW w \in Workers, Visits!Store(w)
      PROVE  CapKept'
  <2>1. CASE Visits!Goto(w, "count")
    <3> DEFINE a == [sync[w] EXCEPT !.pc = "count"]
    <3>1. sync[w] \in Visits!Batches
      BY <1>3 DEF Visits!Store, VisitsShaped
    <3>2. a \in Visits!Batches /\ a.pc = "count"
      BY <3>1 DEF Visits!Batches
    <3>3. sync'[w] = a
      BY <2>1 DEF Visits!Goto, Visits!Become, VisitsShaped
    <3> HIDE DEF a
    <3> QED BY <3>2, <3>3, StoresConstants DEF CapKept, StillToPurge
  <2>2. CASE Visits!End(w) /\ UNCHANGED visit
    <3>1. UNCHANGED <<failing, visit>> /\ \A v \in Workers : v # w => sync'[v] = sync[v]
      BY <1>3, <2>2 DEF Visits!Store, Visits!End, Visits!Become, VisitsShaped
    <3>2. ~StillToPurge(w)
      BY <1>3 DEF Visits!Store, StillToPurge
    <3> QED BY <3>1, <3>2, FewerVisitsKeepCap DEF Visits!Visited
  <2> QED BY <1>3, <2>1, <2>2 DEF Visits!Store
<1>4. ASSUME NEW w \in Workers, Visits!Count(w)
      PROVE  CapKept'
  <2> DEFINE excess == Cardinality(Visits!Visited) - MaxVisits
             a == [sync[w] EXCEPT !.pc = "oldest", !.excess = excess]
  <2>1. /\ Cardinality(Visits!Visited) \in Nat /\ MaxVisits \in Nat
        /\ Visits!Visited' = Visits!Visited
    BY <1>4, VisitedAreFinite, StoresConstants DEF Visits!Count, Visits!Visited
  <2>2. CASE Cardinality(Visits!Visited) > MaxVisits
    <3>1. excess \in Nat /\ Cardinality(Visits!Visited) <= MaxVisits + excess
      BY <2>1, <2>2
    <3>2. sync[w] \in Visits!Batches
      BY <1>4 DEF Visits!Count, VisitsShaped
    <3>3. sync'[w] = a
      BY <1>4, <2>2, SameCardinality DEF Visits!Count, Visits!Become, VisitsShaped
    <3> HIDE DEF excess
    <3>4. a \in Visits!Batches /\ a.pc = "oldest" /\ a.excess = excess
      BY <3>1, <3>2 DEF Visits!Batches
    <3> HIDE DEF a
    <3> QED BY <2>1, <3>1, <3>3, <3>4, StoresConstants DEF CapKept, StillToPurge
  <2>3. CASE ~(Cardinality(Visits!Visited) > MaxVisits)
    BY <2>1, <2>3 DEF CapKept
  <2> QED BY <2>2, <2>3
<1>5. ASSUME NEW w \in Workers, Visits!SelectOldest(w)
      PROVE  CapKept'
  <2> DEFINE ids == Visits!OldestIds(sync[w].excess)
             a == [sync[w] EXCEPT !.pc = "purge", !.oldest = ids]
  <2>1. /\ UNCHANGED <<failing, visit>> /\ Visits!Visited' = Visits!Visited
        /\ \A v \in Workers : v # w => sync'[v] = sync[v]
    BY <1>5 DEF Visits!SelectOldest, Visits!Become, Visits!Visited, VisitsShaped
  <2>2. CASE StillToPurge(w)
    <3>1. sync[w] \in Visits!Batches /\ sync[w].excess \in Nat
      BY <1>5 DEF Visits!SelectOldest, VisitsShaped, Visits!Batches
    <3>2. Cardinality(Visits!Visited) <= MaxVisits + sync[w].excess
      BY <1>5, <2>2 DEF Visits!SelectOldest, StillToPurge
    <3>3. /\ \A r \in Visits!Visited : visit[r].at \in Nat /\ visit[r].id \in Nat
          /\ MaxVisits \in Nat /\ IsFiniteSet(Resources)
      BY VisitedAreFinite, StoresConstants
    <3>4. Cardinality({r \in Visits!Visited : visit[r].id \notin ids}) <= MaxVisits
      BY <3>1, <3>2, <3>3, SelectionSuffices
    <3>5. sync'[w] = a
      BY <1>5 DEF Visits!SelectOldest, Visits!Become, VisitsShaped
    <3>6. ids \subseteq Nat
      BY <3>3 DEF Visits!OldestIds
    <3> HIDE DEF ids
    <3>7. a \in Visits!Batches /\ a.pc = "purge" /\ a.oldest = ids
      BY <3>1, <3>6 DEF Visits!Batches
    <3> HIDE DEF a
    <3>8. Cardinality({r \in Visits!Visited : visit[r].id \notin sync'[w].oldest}) <= MaxVisits
      BY <3>4, <3>5, <3>7
    <3> QED BY <2>1, <3>5, <3>7, <3>8, StoresConstants DEF CapKept, StillToPurge
  <2>3. CASE ~StillToPurge(w)
    BY <2>1, <2>3, FewerVisitsKeepCap
  <2> QED BY <2>2, <2>3
<1>6. ASSUME NEW w \in Workers, Visits!Purge(w)
      PROVE  CapKept'
  <2>1. CASE failing
    BY <1>6, <2>1 DEF Visits!Purge, CapKept
  <2>2. CASE ~failing
    <3>1. failing' = failing /\ \A v \in Workers : v # w => sync'[v] = sync[v]
      BY <1>6 DEF Visits!Purge, Visits!End, Visits!Become, VisitsShaped
    <3>2. visit' = [r \in Resources |->
                      IF r \in Visits!Visited /\ visit[r].id \in sync[w].oldest
                      THEN NoVisit ELSE visit[r]]
      BY <1>6, <2>2 DEF Visits!Purge
    <3>3. /\ Visits!Visited' = {r \in Visits!Visited : visit[r].id \notin sync[w].oldest}
          /\ \A r \in Visits!Visited' : visit'[r] = visit[r]
      BY <3>2 DEF Visits!Visited
    <3>4. StillToPurge(w) => Cardinality(Visits!Visited') <= MaxVisits
      BY <1>6, <3>3 DEF Visits!Purge, StillToPurge
    <3> QED BY <3>1, <3>3, <3>4, FewerVisitsKeepCap
  <2> QED BY <2>1, <2>2
<1>7. ASSUME NEW w \in Workers, Visits!Crash(w)
      PROVE  CapKept'
  BY <1>7 DEF Visits!Crash, CapKept
<1>8. ASSUME NEW r \in Resources, Visits!DeleteResource(r)
      PROVE  CapKept'
  <2>1. /\ failing' = failing /\ sync' = sync
        /\ Visits!Visited' \subseteq Visits!Visited
        /\ \A q \in Visits!Visited' : visit'[q] = visit[q]
    BY <1>8 DEF Visits!DeleteResource, Visits!Visited, VisitsShaped
  <2> QED BY <2>1, FewerVisitsKeepCap
<1>9. CASE UNCHANGED Visits!vars
  <2>1. failing' = failing /\ sync' = sync /\ visit' = visit
    BY <1>9 DEF Visits!vars
  <2> QED BY <2>1, FewerVisitsKeepCap DEF Visits!Visited
<1> QED BY <1>1, <1>2, <1>3, <1>4, <1>5, <1>6, <1>7, <1>8, <1>9 DEF Visits!Next

(* Once the batches have been stored, no more visits are left than the cap *)
(* allows (sync_recent_visits, _cleanup_old_visits).                       *)
THEOREM VisitsStayBounded == StoresSpec => []VisitsBounded
<1>1. StoresInit => CapKept
  <2> SUFFICES ASSUME StoresInit PROVE CapKept
    OBVIOUS
  <2>1. Visits!Visited = {}
    BY DEF StoresInit, Visits!Init, Visits!Visited
  <2>2. Cardinality(Visits!Visited) = 0 /\ MaxVisits \in Nat
    BY <2>1, FS_EmptySet, StoresConstants
  <2> QED BY <2>2 DEF CapKept
<1>2. VisitsShaped /\ CapKept /\ [StoresNext]_allVars => CapKept'
  BY VisitsSteps, EachStepKeepsCap
<1>3. CapKept => VisitsBounded
  BY SameCardinality
     DEF CapKept, StillToPurge, VisitsBounded, Visits!VisitsBounded, Visits!At, Visits!Syncing
<1> QED BY <1>1, <1>2, <1>3, VisitsKeepShape, PTL DEF StoresSpec

(* A list shows the most recent visits whose resources exist, as long as   *)
(* no more than limit visits are to resources that have gone               *)
(* (list_recent_visits).                                                   *)
THEOREM ListsShowTheLatest == StoresSpec => []ListedAreLatest
<1>1. VisitsShaped => ListedAreLatest
  <2> SUFFICES ASSUME VisitsShaped, NEW limit \in 1 .. MaxVisits,
                      Cardinality(Visits!Visited \ existing) <= limit
               PROVE  Visits!ListRecentVisits(limit) =
                        Visits!Latest(limit, Visits!Visited \cap existing)
    BY SameCardinality DEF ListedAreLatest, Visits!ListedAreLatest
  <2>1. \A r \in Visits!Visited : visit[r].at \in Nat
    BY VisitedAreFinite
  <2>2. limit \in Nat /\ IsFiniteSet(Resources)
    BY StoresConstants
  <2> QED BY <2>1, <2>2, TwiceTheLimitSuffices
<1> QED BY <1>1, VisitsKeepShape, PTL

-----------------------------------------------------------------------------
(* Types.                                                                  *)

(* The rows, secrets and handlers of the credentials, in whatever vault    *)
(* they are kept.                                                          *)
LEMMA EitherVaultKeepsItsShape == StoresSpec => []Kept
<1>1. StoresInit => Kept
  BY KeptInit DEF StoresInit
<1>2. Kept /\ [StoresNext]_allVars => Kept'
  <2> SUFFICES ASSUME Kept, [StoresNext]_allVars PROVE Kept'
    OBVIOUS
  <2>1. CASE Next \/ UNCHANGED vars
    BY <2>1, KeptNext
  <2>2. CASE Azure!Next
    <3>1. AzureP!Next
      BY <2>2, AzureSteps
    <3>2. (Kept <=> AzureP!Kept) /\ (Kept' <=> AzureP!Kept')
      BY DEF Kept, AzureP!Kept, Shaped, AzureP!Shaped, JobFits, AzureP!JobFits, RowFits,
             AzureP!RowFits, Creating, AzureP!Creating, Locking, AzureP!Locking, Row,
             AzureP!Row, Job, AzureP!Job, Secret, AzureP!Secret
    <3>3. AzureP!Kept /\ [AzureP!Next]_(AzureP!vars) => AzureP!Kept'
      BY VaultConstants, CredentialConstants, AzureP!KeptNext
    <3> QED BY <3>1, <3>2, <3>3
  <2>3. CASE HashiCorp!Next
    <3>1. HashiCorpP!Next
      BY <2>3, HashiCorpSteps
    <3>2. (Kept <=> HashiCorpP!Kept) /\ (Kept' <=> HashiCorpP!Kept')
      BY DEF Kept, HashiCorpP!Kept, Shaped, HashiCorpP!Shaped, JobFits, HashiCorpP!JobFits,
             RowFits, HashiCorpP!RowFits, Creating, HashiCorpP!Creating, Locking,
             HashiCorpP!Locking, Row, HashiCorpP!Row, Job, HashiCorpP!Job, Secret,
             HashiCorpP!Secret
    <3>3. HashiCorpP!Kept /\ [HashiCorpP!Next]_(HashiCorpP!vars) => HashiCorpP!Kept'
      BY VaultConstants, CredentialConstants, HashiCorpP!KeptNext
    <3> QED BY <3>1, <3>2, <3>3
  <2> QED BY <2>1, <2>2, <2>3 DEF StoresNext, allVars
<1> QED BY <1>1, <1>2, PTL DEF StoresSpec

(* Whatever fails, no row names a secret that was never stored, in the     *)
(* vaults that keep a URI and in those that do not (create_credential).    *)
THEOREM EitherVaultStoresBeforeNaming == StoresSpec => []RowsNameStoredSecrets
<1>1. Kept => RowsNameStoredSecrets
  BY DEF Kept, RowFits, RowsNameStoredSecrets, Live
<1> QED BY <1>1, EitherVaultKeepsItsShape, PTL

(* The states of all parts are of the shape the code expects.              *)
THEOREM StoresTypeCorrect == StoresSpec => []StoresTypeOK
<1>1. Kept => TypeOK
  BY DEF Kept, Shaped, RowFits, TypeOK, Live
<1>2. AttachedP!TypeOK => Attached!TypeOK
  BY DEF AttachedP!TypeOK, Attached!TypeOK, AttachedP!Serving, Attached!Serving
<1>3. VisitsShaped => Visits!TypeOK
  BY SameCardinality
     DEF VisitsShaped, Visits!TypeOK, Visits!Visited, Visits!Syncing
<1>4. OrganizedP!AdminsAreUsers
  BY StoresConstants DEF OrganizedP!AdminsAreUsers
<1>5. OrganizedP!Spec => []OrganizedP!TypeOK
  BY <1>4, OrganizedP!DirectoryTypeCorrect
<1>6. OrganizedP!TypeOK => Organized!TypeOK
  BY DEF OrganizedP!TypeOK, Organized!TypeOK, OrganizedP!RolesOf, Organized!RolesOf,
         OrganizedP!OrgRoles, Organized!OrgRoles, OrganizedP!Tenants, Organized!Tenants,
         OrganizedP!Calling, Organized!Calling, OrganizedP!GlobalAdmin, Organized!GlobalAdmin,
         OrganizedP!TenantAdmin, Organized!TenantAdmin, OrganizedP!TenantCreator,
         Organized!TenantCreator
<1>7. TypeOK /\ Attached!TypeOK /\ Visits!TypeOK /\ Organized!TypeOK => StoresTypeOK
  BY DEF StoresTypeOK
<1> QED BY <1>1, <1>2, <1>3, <1>5, <1>6, <1>7, EitherVaultKeepsItsShape, AttachedBehaves,
           AttachedP!AttachmentsTypeCorrect, VisitsKeepShape, OrganizedBehaves, PTL
================================================================================
