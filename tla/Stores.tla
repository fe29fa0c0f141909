--------------------------------- MODULE Stores ---------------------------------
(***************************************************************************)
(* Four parts of the platform that share nothing but the processes, one of *)
(* which is looked at: the credentials (with the faults of a vault that    *)
(* keeps the URI of a secret, and without them at HashiCorp and at Azure,  *)
(* whose URIs name a version), what rows have in other systems, the recent *)
(* visits, and the organizations.  The other parts rest.                   *)
(***************************************************************************)
EXTENDS Credentials, Naturals, Sequences, FiniteSets

CONSTANTS
  Resources, MaxVisits, MaxBatch, MaxSyncs,                                 \* RecentVisits
  People, Organizations, HomeOf, SystemAdmins, Given, Viewer, MaxWrites,    \* Directory
  NoJob, NoVisit, NoEntry, Nobody

VARIABLES
  focus,
  thing, unreliable, record, agent, object, written, request,
  failing, existing, visit, clock, sync, syncs,
  founded, member, tenant, listed, call, writes, held

Azure == INSTANCE Credentials WITH PinnedUri <- TRUE, Retyping <- FALSE, Faults <- FALSE
HashiCorp == INSTANCE Credentials WITH PinnedUri <- FALSE, Retyping <- FALSE, Faults <- FALSE
Attached == INSTANCE Attachments
Visits == INSTANCE RecentVisits
Organized == INSTANCE Directory

(* No request or batch is confused with the absence of one.                *)
ASSUME StoresConstants ==
  /\ SystemAdmins \subseteq People
  /\ IsFiniteSet(Resources) /\ MaxVisits \in Nat
  /\ \A step \in {"drop", "remove"} : NoJob # [todo |-> <<step>>, missed |-> FALSE]
  /\ NoJob \notin Visits!Batches

attachmentVars == <<thing, unreliable, record, agent, object, written, request>>
visitVars == <<failing, existing, visit, clock, sync, syncs>>
organizationVars == <<founded, member, tenant, listed, call, writes, held>>
allVars == <<focus, vars, attachmentVars, visitVars, organizationVars>>

-----------------------------------------------------------------------------
StoresInit ==
  /\ focus \in {"credentials", "hashicorp", "azure", "attachments", "visits", "organizations"}
  /\ Init
  /\ IF focus = "attachments" THEN Attached!Init
     ELSE Attached!Init /\ thing = "file" /\ ~unreliable
  /\ IF focus = "visits" THEN Visits!Init ELSE Visits!Init /\ ~failing
  /\ IF focus = "organizations" THEN Organized!Init
     ELSE Organized!Init /\ founded = {HomeOf[u] : u \in SystemAdmins}

StoresNext ==
  \/ /\ focus = "credentials" /\ Next
     /\ UNCHANGED <<focus, attachmentVars, visitVars, organizationVars>>
  \/ /\ focus = "hashicorp" /\ HashiCorp!Next
     /\ UNCHANGED <<focus, attachmentVars, visitVars, organizationVars>>
  \/ /\ focus = "azure" /\ Azure!Next
     /\ UNCHANGED <<focus, attachmentVars, visitVars, organizationVars>>
  \/ /\ focus = "attachments" /\ Attached!Next
     /\ UNCHANGED <<focus, vars, visitVars, organizationVars>>
  \/ /\ focus = "visits" /\ Visits!Next
     /\ UNCHANGED <<focus, vars, attachmentVars, organizationVars>>
  \/ /\ focus = "organizations" /\ Organized!Next
     /\ UNCHANGED <<focus, vars, attachmentVars, visitVars>>

(* A request that is being served makes progress; Redis honours a TTL.     *)
StoresSpec ==
  /\ StoresInit /\ [][StoresNext]_allVars
  /\ WF_allVars(focus = "organizations" /\ Organized!Expire
                  /\ UNCHANGED <<focus, vars, attachmentVars, visitVars>>)
  /\ \A w \in Workers :
       WF_allVars(focus = "organizations" /\ Organized!Continue(w)
                    /\ UNCHANGED <<focus, vars, attachmentVars, visitVars>>)

-----------------------------------------------------------------------------
(* The states of all parts are of the shape the code expects (the columns  *)
(* of the rows, the locals of the handlers).                               *)
StoresTypeOK ==
  TypeOK /\ Attached!TypeOK /\ Visits!TypeOK /\ Organized!TypeOK

(* While nothing fails, a credential that nobody is deleting can be used,  *)
(* in either vault (create_credential, update_credential,                  *)
(* delete_credential).                                                     *)
LiveCredentialsAreUsable ==
  /\ focus = "hashicorp" => HashiCorp!LiveCredentialsHaveSecret
  /\ focus = "azure" => Azure!LiveCredentialsHaveSecret

(* While nothing fails, a deleted credential leaves no secret in Azure's   *)
(* vault; in HashiCorp's an update that comes between revives it           *)
(* (delete_credential, update_credential).                                 *)
DeletedCredentialsLeaveNothing == focus = "azure" => Azure!DeletedCredentialsLeaveNoSecret

(* As long as no update changes the type of a credential, what a reader    *)
(* gets fits the type it read (update_credential, get_credential,          *)
(* get_secret).                                                            *)
ReadSecretsFit ==
  /\ focus = "hashicorp" => HashiCorp!SecretFitsType
  /\ focus = "azure" => Azure!SecretFitsType

(* A file that is listed has its content, and a Foundry conversation its   *)
(* counterpart (upload_file, create_conversation).                         *)
RowsHaveTheirObject == Attached!RowsHaveTheirObject

(* A download misses only what was deleted meanwhile (delete_file).        *)
MissingOnlyIfDeleted == Attached!MissingOnlyIfDeleted

(* While the calls succeed, nothing is left of a deleted file and nothing  *)
(* is lost of a living conversation or workflow (delete_conversation).     *)
NothingLeftNorLost == Attached!NothingLeftNorLost

(* No more visits are left than the cap allows (sync_recent_visits).       *)
VisitsBounded == Visits!VisitsBounded

(* The most recent visits are shown (list_recent_visits).                  *)
ListedAreLatest == Visits!ListedAreLatest

(* Roles come from who has a role in that organization, and tenants from   *)
(* who has one or is at home there (check_permissions, set_principal, the  *)
(* two create_tenant).                                                     *)
AuthorityStaysInOrganization == Organized!AuthorityStaysInOrganization

(* Of these neither holds (POST /tenants, DELETE /tenants/{id}).           *)
TenantsNeedARole == Organized!TenantsNeedARole
DeletionsStayInOrganization == Organized!DeletionsStayInOrganization

(* An organization without an administrator gets one back (get_me).        *)
OrganizationsRecover == focus = "organizations" => Organized!OrganizationsRecover

(* A deleted tenant is at last shown to nobody (Redis's TTL).              *)
DeletedTenantsForgotten == focus = "organizations" => Organized!DeletedTenantsForgotten
===============================================================================
