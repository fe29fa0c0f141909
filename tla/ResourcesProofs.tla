---------------------------- MODULE ResourcesProofs ----------------------------
(***************************************************************************)
(* What holds of Resources for every set of users, groups, workers, grants *)
(* and levels, any number of changes, and every kind and slot that is      *)
(* watched.  First the programs of all handlers are brought into one form  *)
(* (Programs) and what the proofs need of them is read off each (Fits);    *)
(* then the steps are shown to keep the invariant.                         *)
(***************************************************************************)
EXTENDS Resources, TLAPS, SequenceTheorems

(* The operations by what they change.                                     *)
OfTags == {"setTags", "deleteTags"}
OfMembers == {"setPermission", "deletePermission"}

(* The operations whose handler deletes the entry of slot s: those that    *)
(* change what it shows, and some more.                                    *)
Matters(k, op, s) ==
  \/ s = "list" /\ op \in {"create", "duplicate", "update", "delete"} \cup OfMembers
  \/ s = "detail" /\ op \in {"update", "delete"} /\ k # "tenants"
  \/ s = "detail" /\ op \in OfTags /\ k # "ai_models"
  \/ s = "permissions" /\ op \in OfMembers
  \/ s = "tags" /\ op \in OfTags
  \/ s = "favorites" /\ op \in OfFavorites

(* The steps that delete that entry; programs (what a handler has to do,   *)
(* as a sequence of steps) with such a step, and with one after each       *)
(* commit.                                                                 *)
Cleaning(k, s) == {step \in WipeSteps : Wiped(k, step) = StoredAt(k, s)}
Cleans(k, s, p) == \E i \in DOMAIN p : p[i] \in Cleaning(k, s)
CleansInTime(k, s, p) ==
  \A i \in DOMAIN p : p[i] = "commit" =>
    \E j \in DOMAIN p : i < j /\ p[j] \in Cleaning(k, s)

(* How the steps of a program may follow one another: a SET has its SELECT *)
(* before it; a lock is held for DELs and one refetch until the commit;    *)
(* after the commit come DELs and readings, and only the first of these    *)
(* can fail while a DEL is left.                                           *)
Orderly(op, p) ==
  /\ \A i \in DOMAIN p :
       /\ p[i] = "fill" /\ i > 1 => p[i - 1] = "read"
       /\ p[i] = "read" => i + 1 \in DOMAIN p
       /\ p[i] \in {"read", "fill"} => op \in DOMAIN Readers
       /\ p[i] = "commit" => op \in Changing
       /\ p[i] = "flush" =>
            \E j \in DOMAIN p :
              /\ i < j /\ p[j] = "commit"
              /\ \A n \in DOMAIN p : i < n /\ n < j => p[n] \in WipeSteps \cup {"refetch"}
  /\ \A i, j \in DOMAIN p : i < j /\ p[i] = "commit" =>
       /\ p[j] \in WipeSteps \cup {"load", "refetch", "reread"}
       /\ p[j] = "refetch" => op \in {"create", "update"}
       /\ p[j] = "reread" => op = "setPermission"
       /\ \A n \in DOMAIN p : j < n /\ p[n] \in WipeSteps =>
            p[j] \in WipeSteps \/ (j = i + 1 /\ p[j] # "load")

(* The handlers that commit before they delete keys, and what is asked of  *)
(* a program for an operation.                                             *)
CommitsFirst(k, op) == k \in CommitFirst /\ op \notin OfTags \cup OfFavorites
Fits(k, op, p) ==
  /\ op \in DOMAIN Readers \cup Changing \cup {"getPermission"}
  /\ p \in Seq(Steps) /\ p # <<>> /\ p[1] # "fill" /\ Orderly(op, p)
  /\ \A s \in Slots : Matters(k, op, s) =>
       Cleans(k, s, p) /\ (CommitsFirst(k, op) => CleansInTime(k, s, p))

(* The programs of all handlers, by operation.                             *)
Programs(k, op) ==
  CASE op \in DOMAIN Readers ->
         {<<"lookup", "read", "fill">>, <<"peek", "read", "fill">>}
    [] op = "getPermission" -> {<<"load", "reread">>}
    [] op = "create" ->
         IF k \in CommitFirst
         THEN {<<"commit", "refetch", "wipeList">>,
               <<"validate", "commit", "refetch", "wipeList">>}
         ELSE {<<"validate", "wipeList", "wipePermissions", "commit">>,
               <<"validate", "wipeList", "commit">>}
    [] op = "update" ->
         IF k \in CommitFirst
         THEN {<<"load", "commit", "refetch", "wipeList", "wipeDetail">>,
               <<"load", "validate", "commit", "refetch", "wipeList", "wipeDetail">>,
               <<"load", "validate", "flush", "commit", "refetch", "wipeList", "wipeDetail">>}
         ELSE IF k = "tenants" THEN {<<"load", "wipeList", "wipeTenant", "commit">>}
         ELSE {<<"load", "validate", "wipeList", "wipeDetail", "flush", "refetch", "commit">>}
    [] op = "delete" ->
         IF k \in CommitFirst
         THEN {<<"load", "commit", "wipeList", "wipeDetail">>,
               <<"load", "commit", "wipeList", "wipeDetail", "wipePermissions">>}
         ELSE IF k = "tenants" THEN {<<"load", "validate", "wipeList", "wipeTenant", "commit">>}
         ELSE {<<"load", "wipeList", "wipeDetail", "wipePermissions", "flush", "commit">>}
    [] op = "duplicate" -> {<<"load", "commit", "wipeList">>}
    [] op = "setPermission" ->
         {<<"load", "commit", "reread", "wipeMembers", "wipeList", "load", "reread">>}
    [] op = "deletePermission" -> {<<"load", "commit", "wipeMembers", "wipeList">>}
    [] op = "setTags" -> {<<"validate", "wipeTags", "wipeTagged", "commit">>}
    [] op = "deleteTags" -> {<<"wipeTags", "wipeTagged", "commit">>}
    [] op = "addFavorite" -> {<<"find", "flush", "wipeFavorites", "wipeUnified", "commit">>}
    [] op = "removeFavorite" -> {<<"flush", "wipeFavorites", "wipeUnified", "commit">>}

(* A handler has one of the programs of its operation.                     *)
Planned(k, op, p) ==
  /\ op \in DOMAIN Readers \cup Changing \cup {"getPermission"}
  /\ p \in Programs(k, op)
RoutesPlanned(k, routes) ==
  \A op \in DOMAIN routes :
    routes[op].handler = Elsewhere \/ Planned(k, op, routes[op].handler)

(* The concatenation of two programs, element by element.                  *)
LEMMA Concat ==
  ASSUME NEW s \in Seq(Steps), NEW t \in Seq(Steps), NEW p \in Seq(Steps),
         Len(p) = Len(s) + Len(t),
         \A i \in 1 .. Len(s) : p[i] = s[i],
         \A i \in 1 .. Len(t) : p[Len(s) + i] = t[i]
  PROVE  s \o t = p
<1>1. /\ s \o t \in Seq(Steps) /\ Len(s \o t) = Len(s) + Len(t)
      /\ \A i \in 1 .. Len(s) + Len(t) :
           (s \o t)[i] = IF i <= Len(s) THEN s[i] ELSE t[i - Len(s)]
  BY ConcatProperties
<1>2. \A i \in 1 .. Len(s) + Len(t) : (s \o t)[i] = p[i]
  <2> TAKE i \in 1 .. Len(s) + Len(t)
  <2>1. CASE i <= Len(s)
    BY <1>1, <2>1
  <2>2. CASE ~(i <= Len(s))
    <3>1. i - Len(s) \in 1 .. Len(t) /\ Len(s) + (i - Len(s)) = i
      BY <2>2
    <3> QED BY <1>1, <2>2, <3>1
  <2> QED BY <2>1, <2>2
<1> QED BY <1>1, <1>2, SeqEqual

(* set_permission, with the get_permission it ends in, and                 *)
(* delete_permission.                                                      *)
LEMMA PermissionPrograms ==
  /\ SetPermission \o GetPermission =
       <<"load", "commit", "reread", "wipeMembers", "wipeList", "load", "reread">>
  /\ DeletePermission = <<"load", "commit", "wipeMembers", "wipeList">>
<1> DEFINE set == <<"load", "commit", "reread">>
           get == <<"load", "reread">>
           delete == <<"load", "commit">>
           wipe == <<"wipeMembers", "wipeList">>
           setWipe == <<"load", "commit", "reread", "wipeMembers", "wipeList">>
           deleteWipe == <<"load", "commit", "wipeMembers", "wipeList">>
           setGet == <<"load", "commit", "reread", "wipeMembers", "wipeList", "load", "reread">>
<1>1. /\ set \in Seq(Steps) /\ get \in Seq(Steps) /\ delete \in Seq(Steps)
      /\ wipe \in Seq(Steps) /\ setWipe \in Seq(Steps) /\ deleteWipe \in Seq(Steps)
      /\ setGet \in Seq(Steps)
  BY DEF Steps, WipeSteps
<1>2. /\ Len(setWipe) = Len(set) + Len(wipe)
      /\ \A i \in 1 .. Len(set) : setWipe[i] = set[i]
      /\ \A i \in 1 .. Len(wipe) : setWipe[Len(set) + i] = wipe[i]
  OBVIOUS
<1>3. /\ Len(deleteWipe) = Len(delete) + Len(wipe)
      /\ \A i \in 1 .. Len(delete) : deleteWipe[i] = delete[i]
      /\ \A i \in 1 .. Len(wipe) : deleteWipe[Len(delete) + i] = wipe[i]
  OBVIOUS
<1>4. /\ Len(setGet) = Len(setWipe) + Len(get)
      /\ \A i \in 1 .. Len(setWipe) : setGet[i] = setWipe[i]
      /\ \A i \in 1 .. Len(get) : setGet[Len(setWipe) + i] = get[i]
  OBVIOUS
<1>5. /\ SetPermission = set \o wipe /\ DeletePermission = delete \o wipe
      /\ GetPermission = get
  BY DEF SetPermission, DeletePermission, GetPermission, WipeAccess
<1> HIDE DEF set, get, delete, wipe, setWipe, deleteWipe, setGet
<1>6. set \o wipe = setWipe
  BY <1>1, <1>2, Concat
<1>7. delete \o wipe = deleteWipe
  BY <1>1, <1>3, Concat
<1>8. setWipe \o get = setGet
  BY <1>1, <1>4, Concat
<1> QED BY <1>5, <1>6, <1>7, <1>8 DEF setGet, deleteWipe

(* Kind by kind, every route leads to a program of its operation: the      *)
(* routes of workflows.                                                    *)
LEMMA WorkflowsPlanned == RoutesPlanned("workflows", WorkflowRoutes)
<1> DEFINE k == "workflows"
<1>1. k \in CommitFirst
  BY DEF CommitFirst, Routes
<1>2. /\ list_workflows.handler \in Programs(k, "list")
      /\ create_workflow.handler \in Programs(k, "create")
      /\ get_workflow.handler \in Programs(k, "get")
      /\ update_workflow.handler \in Programs(k, "update")
      /\ delete_workflow.handler \in Programs(k, "delete")
      /\ duplicate_workflow.handler \in Programs(k, "duplicate")
      /\ get_workflow_key.handler = Elsewhere
      /\ rotate_workflow_key.handler = Elsewhere
      /\ get_workflow_config_bearer.handler = Elsewhere
      /\ list_workflow_runs.handler = Elsewhere
      /\ get_workflow_run_detail.handler = Elsewhere
      /\ retry_workflow_run.handler = Elsewhere
      /\ start_workflow.handler = Elsewhere
      /\ list_workflow_permissions.handler \in Programs(k, "listPermissions")
      /\ get_workflow_permission.handler \in Programs(k, "getPermission")
      /\ set_workflow_permission.handler \in Programs(k, "setPermission")
      /\ delete_workflow_permission.handler \in Programs(k, "deletePermission")
      /\ get_workflow_tags.handler \in Programs(k, "getTags")
      /\ set_workflow_tags.handler \in Programs(k, "setTags")
      /\ delete_workflow_tags.handler \in Programs(k, "deleteTags")
  BY <1>1, PermissionPrograms
     DEF Programs, Readers, OfFavorites, Route, list_workflows, ListWorkflows,
         create_workflow, CreateWorkflow, get_workflow, GetWorkflow, update_workflow,
         UpdateWorkflow, delete_workflow, DeleteWorkflow, duplicate_workflow,
         DuplicateWorkflow, get_workflow_key, rotate_workflow_key,
         get_workflow_config_bearer, list_workflow_runs, get_workflow_run_detail,
         retry_workflow_run, start_workflow, list_workflow_permissions,
         ListWorkflowPermissions, ListPermissions, get_workflow_permission,
         GetWorkflowPermission, GetPermission, set_workflow_permission,
         SetWorkflowPermission, delete_workflow_permission, DeleteWorkflowPermission,
         get_workflow_tags, GetResourceTags, set_workflow_tags, SetResourceTags,
         delete_workflow_tags, DeleteResourceTags
<1> QED BY <1>2 DEF RoutesPlanned, Planned, Readers, Changing, OfFavorites, WorkflowRoutes

(* The routes of chat_agents.                                              *)
LEMMA ChatAgentsPlanned == RoutesPlanned("chat_agents", ChatAgentRoutes)
<1> DEFINE k == "chat_agents"
<1>1. k \in CommitFirst
  BY DEF CommitFirst, Routes
<1>2. /\ test_chat_agent_connection.handler = Elsewhere
      /\ list_chat_agents.handler \in Programs(k, "list")
      /\ create_chat_agent.handler \in Programs(k, "create")
      /\ get_chat_agent.handler \in Programs(k, "get")
      /\ update_chat_agent.handler \in Programs(k, "update")
      /\ delete_chat_agent.handler \in Programs(k, "delete")
      /\ duplicate_chat_agent.handler \in Programs(k, "duplicate")
      /\ get_chat_agent_config.handler = Elsewhere
      /\ list_chat_agent_permissions.handler \in Programs(k, "listPermissions")
      /\ get_chat_agent_permission.handler \in Programs(k, "getPermission")
      /\ set_chat_agent_permission.handler \in Programs(k, "setPermission")
      /\ delete_chat_agent_permission.handler \in Programs(k, "deletePermission")
      /\ get_chat_agent_tags.handler \in Programs(k, "getTags")
      /\ set_chat_agent_tags.handler \in Programs(k, "setTags")
      /\ delete_chat_agent_tags.handler \in Programs(k, "deleteTags")
  BY <1>1, PermissionPrograms
     DEF Programs, Readers, OfFavorites, Route, test_chat_agent_connection,
         list_chat_agents, ListChatAgents, create_chat_agent, CreateChatAgent,
         get_chat_agent, GetChatAgent, update_chat_agent, UpdateChatAgent,
         delete_chat_agent, DeleteChatAgent, duplicate_chat_agent, DuplicateChatAgent,
         get_chat_agent_config, list_chat_agent_permissions, ListChatAgentPermissions,
         ListPermissions, get_chat_agent_permission, GetChatAgentPermission,
         GetPermission, set_chat_agent_permission, SetChatAgentPermission,
         delete_chat_agent_permission, DeleteChatAgentPermission, get_chat_agent_tags,
         GetResourceTags, set_chat_agent_tags, SetResourceTags, delete_chat_agent_tags,
         DeleteResourceTags
<1> QED BY <1>2 DEF RoutesPlanned, Planned, Readers, Changing, OfFavorites, ChatAgentRoutes

(* The routes of chat_widgets.                                             *)
LEMMA ChatWidgetsPlanned == RoutesPlanned("chat_widgets", ChatWidgetRoutes)
<1> DEFINE k == "chat_widgets"
<1>1. k \in CommitFirst
  BY DEF CommitFirst, Routes
<1>2. /\ list_chat_widgets.handler \in Programs(k, "list")
      /\ create_chat_widget.handler \in Programs(k, "create")
      /\ get_chat_widget.handler \in Programs(k, "get")
      /\ update_chat_widget.handler \in Programs(k, "update")
      /\ delete_chat_widget.handler \in Programs(k, "delete")
      /\ duplicate_chat_widget.handler \in Programs(k, "duplicate")
      /\ list_chat_widget_permissions.handler \in Programs(k, "listPermissions")
      /\ get_chat_widget_permission.handler \in Programs(k, "getPermission")
      /\ set_chat_widget_permission.handler \in Programs(k, "setPermission")
      /\ delete_chat_widget_permission.handler \in Programs(k, "deletePermission")
      /\ get_chat_widget_tags.handler \in Programs(k, "getTags")
      /\ set_chat_widget_tags.handler \in Programs(k, "setTags")
      /\ delete_chat_widget_tags.handler \in Programs(k, "deleteTags")
  BY <1>1, PermissionPrograms
     DEF Programs, Readers, OfFavorites, Route, list_chat_widgets, ListChatWidgets,
         create_chat_widget, CreateChatWidget, get_chat_widget, GetChatWidget,
         update_chat_widget, UpdateChatWidget, delete_chat_widget, DeleteChatWidget,
         duplicate_chat_widget, DuplicateChatWidget, list_chat_widget_permissions,
         ListChatWidgetPermissions, ListPermissions, get_chat_widget_permission,
         GetChatWidgetPermission, GetPermission, set_chat_widget_permission,
         SetChatWidgetPermission, delete_chat_widget_permission,
         DeleteChatWidgetPermission, get_chat_widget_tags, GetResourceTags,
         set_chat_widget_tags, SetResourceTags, delete_chat_widget_tags,
         DeleteResourceTags
<1> QED BY <1>2 DEF RoutesPlanned, Planned, Readers, Changing, OfFavorites, ChatWidgetRoutes

(* The routes of external_apps.                                            *)
LEMMA ExternalAppsPlanned == RoutesPlanned("external_apps", ExternalAppRoutes)
<1> DEFINE k == "external_apps"
<1>1. k \in CommitFirst
  BY DEF CommitFirst, Routes
<1>2. /\ list_external_apps.handler \in Programs(k, "list")
      /\ get_external_app.handler \in Programs(k, "get")
      /\ create_external_app.handler \in Programs(k, "create")
      /\ update_external_app.handler \in Programs(k, "update")
      /\ delete_external_app.handler \in Programs(k, "delete")
      /\ list_external_app_permissions.handler \in Programs(k, "listPermissions")
      /\ get_external_app_permission.handler \in Programs(k, "getPermission")
      /\ set_external_app_permission.handler \in Programs(k, "setPermission")
      /\ delete_external_app_permission.handler \in Programs(k, "deletePermission")
      /\ get_external_app_tags.handler \in Programs(k, "getTags")
      /\ set_external_app_tags.handler \in Programs(k, "setTags")
      /\ delete_external_app_tags.handler \in Programs(k, "deleteTags")
  BY <1>1, PermissionPrograms
     DEF Programs, Readers, OfFavorites, Route, list_external_apps, ListExternalApps,
         get_external_app, GetExternalApp, create_external_app, CreateExternalApp,
         update_external_app, UpdateExternalApp, delete_external_app, DeleteExternalApp,
         list_external_app_permissions, ListExternalAppPermissions, ListPermissions,
         get_external_app_permission, GetExternalAppPermission, GetPermission,
         set_external_app_permission, SetExternalAppPermission,
         delete_external_app_permission, DeleteExternalAppPermission,
         get_external_app_tags, GetResourceTags, set_external_app_tags, SetResourceTags,
         delete_external_app_tags, DeleteResourceTags
<1> QED BY <1>2 DEF RoutesPlanned, Planned, Readers, Changing, OfFavorites, ExternalAppRoutes

(* The routes of conversations.                                            *)
LEMMA ConversationsPlanned == RoutesPlanned("conversations", ConversationRoutes)
<1> DEFINE k == "conversations"
<1>1. k \in CommitFirst
  BY DEF CommitFirst, Routes
<1>2. /\ list_conversations.handler \in Programs(k, "list")
      /\ create_conversation.handler \in Programs(k, "create")
      /\ get_conversation.handler \in Programs(k, "get")
      /\ update_conversation.handler \in Programs(k, "update")
      /\ delete_conversation.handler \in Programs(k, "delete")
      /\ list_conversation_permissions.handler \in Programs(k, "listPermissions")
      /\ get_conversation_permission.handler \in Programs(k, "getPermission")
      /\ set_conversation_permission.handler \in Programs(k, "setPermission")
      /\ delete_conversation_permission.handler \in Programs(k, "deletePermission")
  BY <1>1, PermissionPrograms
     DEF Programs, Readers, OfFavorites, Route, list_conversations, ListConversations,
         create_conversation, CreateConversation, get_conversation, GetConversation,
         update_conversation, UpdateConversation, delete_conversation,
         DeleteConversation, list_conversation_permissions, ListConversationPermissions,
         ListPermissions, get_conversation_permission, GetConversationPermission,
         GetPermission, set_conversation_permission, SetConversationPermission,
         delete_conversation_permission, DeleteConversationPermission
<1> QED BY <1>2 DEF RoutesPlanned, Planned, Readers, Changing, OfFavorites, ConversationRoutes

(* The routes of credentials.                                              *)
LEMMA CredentialsPlanned == RoutesPlanned("credentials", CredentialRoutes)
<1> DEFINE k == "credentials"
<1>1. k \notin CommitFirst
  BY DEF CommitFirst, Routes
<1>2. /\ list_credentials.handler \in Programs(k, "list")
      /\ create_credential.handler \in Programs(k, "create")
      /\ get_credential.handler \in Programs(k, "get")
      /\ get_credential_secret.handler = Elsewhere
      /\ update_credential.handler \in Programs(k, "update")
      /\ delete_credential.handler \in Programs(k, "delete")
      /\ test_credential_connection.handler = Elsewhere
      /\ list_credential_permissions.handler \in Programs(k, "listPermissions")
      /\ get_credential_permission.handler \in Programs(k, "getPermission")
      /\ set_credential_permission.handler \in Programs(k, "setPermission")
      /\ delete_credential_permission.handler \in Programs(k, "deletePermission")
      /\ get_credential_tags.handler \in Programs(k, "getTags")
      /\ set_credential_tags.handler \in Programs(k, "setTags")
      /\ delete_credential_tags.handler \in Programs(k, "deleteTags")
  BY <1>1, PermissionPrograms
     DEF Programs, Readers, OfFavorites, Route, list_credentials, ListCredentials,
         create_credential, CreateCredential, get_credential, GetCredential,
         get_credential_secret, update_credential, UpdateCredential, delete_credential,
         DeleteCredential, test_credential_connection, list_credential_permissions,
         ListCredentialPermissions, ListPermissions, get_credential_permission,
         GetCredentialPermission, GetPermission, set_credential_permission,
         SetCredentialPermission, delete_credential_permission,
         DeleteCredentialPermission, get_credential_tags, GetResourceTags,
         set_credential_tags, SetResourceTags, delete_credential_tags,
         DeleteResourceTags
<1> QED BY <1>2 DEF RoutesPlanned, Planned, Readers, Changing, OfFavorites, CredentialRoutes

(* The routes of tenant_ai_models.                                         *)
LEMMA TenantAIModelsPlanned == RoutesPlanned("ai_models", TenantAIModelRoutes)
<1> DEFINE k == "ai_models"
<1>1. k \in CommitFirst
  BY DEF CommitFirst, Routes
<1>2. /\ list_tenant_ai_models.handler \in Programs(k, "list")
      /\ create_tenant_ai_model.handler \in Programs(k, "create")
      /\ get_tenant_ai_model.handler \in Programs(k, "get")
      /\ update_tenant_ai_model.handler \in Programs(k, "update")
      /\ delete_tenant_ai_model.handler \in Programs(k, "delete")
      /\ get_ai_model_tags.handler \in Programs(k, "getTags")
      /\ set_ai_model_tags.handler \in Programs(k, "setTags")
      /\ delete_ai_model_tags.handler \in Programs(k, "deleteTags")
  BY <1>1
     DEF Programs, Readers, OfFavorites, Route, list_tenant_ai_models,
         ListTenantAIModels, create_tenant_ai_model, CreateTenantAIModel,
         get_tenant_ai_model, GetTenantAIModel, update_tenant_ai_model,
         UpdateTenantAIModel, delete_tenant_ai_model, DeleteTenantAIModel,
         get_ai_model_tags, GetResourceTags, set_ai_model_tags, SetResourceTags,
         delete_ai_model_tags, DeleteResourceTags
<1> QED BY <1>2 DEF RoutesPlanned, Planned, Readers, Changing, OfFavorites, TenantAIModelRoutes

(* The routes of custom_groups.                                            *)
LEMMA CustomGroupsPlanned == RoutesPlanned("custom_groups", CustomGroupRoutes)
<1> DEFINE k == "custom_groups"
<1>1. k \in CommitFirst
  BY DEF CommitFirst, Routes
<1>2. /\ list_custom_groups.handler \in Programs(k, "list")
      /\ get_custom_group.handler \in Programs(k, "get")
      /\ create_custom_group.handler \in Programs(k, "create")
      /\ update_custom_group.handler \in Programs(k, "update")
      /\ delete_custom_group.handler \in Programs(k, "delete")
      /\ list_custom_group_principals.handler = Elsewhere
      /\ get_principal_permissions.handler = Elsewhere
      /\ set_principal_permission.handler = Elsewhere
      /\ delete_principal_permission.handler = Elsewhere
  BY <1>1
     DEF Programs, Readers, OfFavorites, Route, list_custom_groups, ListCustomGroups,
         get_custom_group, GetCustomGroup, create_custom_group, CreateCustomGroup,
         update_custom_group, UpdateCustomGroup, delete_custom_group, DeleteCustomGroup,
         list_custom_group_principals, get_principal_permissions,
         set_principal_permission, delete_principal_permission
<1> QED BY <1>2 DEF RoutesPlanned, Planned, Readers, Changing, OfFavorites, CustomGroupRoutes

(* The routes of tenants.                                                  *)
LEMMA TenantsPlanned == RoutesPlanned("tenants", TenantRoutes)
<1> DEFINE k == "tenants"
<1>1. k \notin CommitFirst
  BY DEF CommitFirst, Routes
<1>2. /\ list_tenants.handler \in Programs(k, "list")
      /\ get_tenant.handler \in Programs(k, "get")
      /\ create_tenant.handler \in Programs(k, "create")
      /\ update_tenant.handler \in Programs(k, "update")
      /\ delete_tenant.handler \in Programs(k, "delete")
  BY <1>1
     DEF Programs, Readers, OfFavorites, Route, list_tenants, ListTenants, get_tenant,
         GetTenant, create_tenant, CreateTenant, update_tenant, UpdateTenant,
         delete_tenant, DeleteTenant
<1> QED BY <1>2 DEF RoutesPlanned, Planned, Readers, Changing, OfFavorites, TenantRoutes

(* So do the routes of user_favorites.                                     *)
LEMMA FavoritesPlanned == \A k \in CommitFirst : RoutesPlanned(k, FavoriteRoutes)
<1> TAKE k \in CommitFirst
<1>2. /\ list_user_favorites.handler \in Programs(k, "listFavorites")
      /\ add_user_favorite.handler \in Programs(k, "addFavorite")
      /\ remove_user_favorite.handler \in Programs(k, "removeFavorite")
  BY  DEF Programs, Readers, OfFavorites, Route, list_user_favorites, ListUserFavorites,
         add_user_favorite, AddUserFavorite, remove_user_favorite, RemoveUserFavorite
<1> QED BY <1>2 DEF RoutesPlanned, Planned, Readers, Changing, OfFavorites, FavoriteRoutes

(* So do all.                                                              *)
LEMMA EveryRoutePlanned ==
  ASSUME NEW k \in DOMAIN Routes, NEW op \in DOMAIN Routes[k], Routes[k][op].handler # Elsewhere
  PROVE  Planned(k, op, Routes[k][op].handler)
<1>1. ASSUME NEW routes, RoutesPlanned(k, routes), RoutesPlanned(k, FavoriteRoutes)
      PROVE  RoutesPlanned(k, WithFavorites(routes))
  BY <1>1 DEF RoutesPlanned, WithFavorites
<1>2. /\ "workflows" \in CommitFirst /\ "chat_agents" \in CommitFirst
      /\ "chat_widgets" \in CommitFirst /\ "external_apps" \in CommitFirst
      /\ "conversations" \in CommitFirst
  BY DEF CommitFirst, Routes
<1>3. RoutesPlanned(k, Routes[k])
  <2>1. CASE k = "workflows"
    BY <2>1, <1>1, <1>2, WorkflowsPlanned, FavoritesPlanned DEF Routes
  <2>2. CASE k = "chat_agents"
    BY <2>2, <1>1, <1>2, ChatAgentsPlanned, FavoritesPlanned DEF Routes
  <2>3. CASE k = "chat_widgets"
    BY <2>3, <1>1, <1>2, ChatWidgetsPlanned, FavoritesPlanned DEF Routes
  <2>4. CASE k = "external_apps"
    BY <2>4, <1>1, <1>2, ExternalAppsPlanned, FavoritesPlanned DEF Routes
  <2>5. CASE k = "conversations"
    BY <2>5, <1>1, <1>2, ConversationsPlanned, FavoritesPlanned DEF Routes
  <2>6. CASE k = "credentials"
    BY <2>6, CredentialsPlanned DEF Routes
  <2>7. CASE k = "ai_models"
    BY <2>7, TenantAIModelsPlanned DEF Routes
  <2>8. CASE k = "custom_groups"
    BY <2>8, CustomGroupsPlanned DEF Routes
  <2>9. CASE k = "tenants"
    BY <2>9, TenantsPlanned DEF Routes
  <2> QED BY <2>1, <2>2, <2>3, <2>4, <2>5, <2>6, <2>7, <2>8, <2>9 DEF Routes
<1> QED BY <1>3 DEF RoutesPlanned

(* The keys that a step deletes are those that the entry has (except for   *)
(* the tags of AI models and the details of tenants).                      *)
LEMMA Cleaners ==
  ASSUME NEW k
  PROVE  /\ "wipeList" \in Cleaning(k, "list") /\ "wipeDetail" \in Cleaning(k, "detail")
         /\ "wipeMembers" \in Cleaning(k, "permissions") /\ "wipeTags" \in Cleaning(k, "tags")
         /\ "wipeFavorites" \in Cleaning(k, "favorites")
         /\ k # "ai_models" => "wipeTagged" \in Cleaning(k, "detail")
<1>1. /\ Wiped(k, "wipeList") = WipeList(k) /\ Wiped(k, "wipeDetail") = WipeDetail(k)
      /\ Wiped(k, "wipeMembers") = WipeMembers(k) /\ Wiped(k, "wipeTags") = TagsKey(k)
      /\ Wiped(k, "wipeFavorites") = FavoritesKey(k)
      /\ Wiped(k, "wipeTagged") = WipeTagged(k)
  BY DEF Wiped
<1>2. /\ StoredAt(k, "list") = ListKey(k) /\ StoredAt(k, "detail") = DetailKey(k)
      /\ StoredAt(k, "permissions") = PermissionsKey(k) /\ StoredAt(k, "tags") = TagsKey(k)
      /\ StoredAt(k, "favorites") = FavoritesKey(k)
  BY DEF StoredAt
<1> QED BY <1>1, <1>2 DEF Cleaning, WipeSteps, WipeList, WipeDetail, WipeMembers, WipeTagged

(* What Fits asks of a program whatever the kind.                          *)
Sequenced(op, p) ==
  p \in Seq(Steps) /\ p # <<>> /\ p[1] # "fill" /\ Orderly(op, p)

(* Every program keeps the order of steps.                                 *)
LEMMA ProgramsSequenced ==
  /\ Sequenced("create", <<"commit", "refetch", "wipeList">>)
  /\ Sequenced("create", <<"validate", "commit", "refetch", "wipeList">>)
  /\ Sequenced("create", <<"validate", "wipeList", "wipePermissions", "commit">>)
  /\ Sequenced("create", <<"validate", "wipeList", "commit">>)
  /\ Sequenced("update", <<"load", "commit", "refetch", "wipeList", "wipeDetail">>)
  /\ Sequenced("update", <<"load", "validate", "commit", "refetch", "wipeList", "wipeDetail">>)
  /\ Sequenced("update", <<"load", "validate", "flush", "commit", "refetch", "wipeList", "wipeDetail">>)
  /\ Sequenced("update", <<"load", "wipeList", "wipeTenant", "commit">>)
  /\ Sequenced("update", <<"load", "validate", "wipeList", "wipeDetail", "flush", "refetch", "commit">>)
  /\ Sequenced("delete", <<"load", "commit", "wipeList", "wipeDetail">>)
  /\ Sequenced("delete", <<"load", "commit", "wipeList", "wipeDetail", "wipePermissions">>)
  /\ Sequenced("delete", <<"load", "validate", "wipeList", "wipeTenant", "commit">>)
  /\ Sequenced("delete", <<"load", "wipeList", "wipeDetail", "wipePermissions", "flush", "commit">>)
  /\ Sequenced("duplicate", <<"load", "commit", "wipeList">>)
  /\ Sequenced("setPermission", <<"load", "commit", "reread", "wipeMembers", "wipeList", "load", "reread">>)
  /\ Sequenced("deletePermission", <<"load", "commit", "wipeMembers", "wipeList">>)
  /\ Sequenced("setTags", <<"validate", "wipeTags", "wipeTagged", "commit">>)
  /\ Sequenced("deleteTags", <<"wipeTags", "wipeTagged", "commit">>)
  /\ Sequenced("addFavorite", <<"find", "flush", "wipeFavorites", "wipeUnified", "commit">>)
  /\ Sequenced("removeFavorite", <<"flush", "wipeFavorites", "wipeUnified", "commit">>)
  /\ Sequenced("getPermission", <<"load", "reread">>)
  /\ \A op \in DOMAIN Readers :
       /\ Sequenced(op, <<"lookup", "read", "fill">>)
       /\ Sequenced(op, <<"peek", "read", "fill">>)
BY DEF Sequenced, Orderly, Steps, WipeSteps, Readers, Changing, OfFavorites

(* Every program deletes the entries its operation is to delete; those     *)
(* that commit first do so after the commit.                               *)
LEMMA ProgramsClean ==
  ASSUME NEW k
  PROVE
    /\ Cleans(k, "list", <<"commit", "refetch", "wipeList">>)
    /\ CleansInTime(k, "list", <<"commit", "refetch", "wipeList">>)
    /\ Cleans(k, "list", <<"validate", "commit", "refetch", "wipeList">>)
    /\ CleansInTime(k, "list", <<"validate", "commit", "refetch", "wipeList">>)
    /\ Cleans(k, "list", <<"validate", "wipeList", "wipePermissions", "commit">>)
    /\ Cleans(k, "list", <<"validate", "wipeList", "commit">>)
    /\ Cleans(k, "list", <<"load", "commit", "refetch", "wipeList", "wipeDetail">>)
    /\ CleansInTime(k, "list", <<"load", "commit", "refetch", "wipeList", "wipeDetail">>)
    /\ Cleans(k, "detail", <<"load", "commit", "refetch", "wipeList", "wipeDetail">>)
    /\ CleansInTime(k, "detail", <<"load", "commit", "refetch", "wipeList", "wipeDetail">>)
    /\ Cleans(k, "list", <<"load", "validate", "commit", "refetch", "wipeList", "wipeDetail">>)
    /\ CleansInTime(k, "list", <<"load", "validate", "commit", "refetch", "wipeList", "wipeDetail">>)
    /\ Cleans(k, "detail", <<"load", "validate", "commit", "refetch", "wipeList", "wipeDetail">>)
    /\ CleansInTime(k, "detail", <<"load", "validate", "commit", "refetch", "wipeList", "wipeDetail">>)
    /\ Cleans(k, "list", <<"load", "validate", "flush", "commit", "refetch", "wipeList", "wipeDetail">>)
    /\ CleansInTime(k, "list", <<"load", "validate", "flush", "commit", "refetch", "wipeList", "wipeDetail">>)
    /\ Cleans(k, "detail", <<"load", "validate", "flush", "commit", "refetch", "wipeList", "wipeDetail">>)
    /\ CleansInTime(k, "detail", <<"load", "validate", "flush", "commit", "refetch", "wipeList", "wipeDetail">>)
    /\ Cleans(k, "list", <<"load", "wipeList", "wipeTenant", "commit">>)
    /\ Cleans(k, "list", <<"load", "validate", "wipeList", "wipeDetail", "flush", "refetch", "commit">>)
    /\ Cleans(k, "detail", <<"load", "validate", "wipeList", "wipeDetail", "flush", "refetch", "commit">>)
    /\ Cleans(k, "list", <<"load", "commit", "wipeList", "wipeDetail">>)
    /\ CleansInTime(k, "list", <<"load", "commit", "wipeList", "wipeDetail">>)
    /\ Cleans(k, "detail", <<"load", "commit", "wipeList", "wipeDetail">>)
    /\ CleansInTime(k, "detail", <<"load", "commit", "wipeList", "wipeDetail">>)
    /\ Cleans(k, "list", <<"load", "commit", "wipeList", "wipeDetail", "wipePermissions">>)
    /\ CleansInTime(k, "list", <<"load", "commit", "wipeList", "wipeDetail", "wipePermissions">>)
    /\ Cleans(k, "detail", <<"load", "commit", "wipeList", "wipeDetail", "wipePermissions">>)
    /\ CleansInTime(k, "detail", <<"load", "commit", "wipeList", "wipeDetail", "wipePermissions">>)
    /\ Cleans(k, "list", <<"load", "validate", "wipeList", "wipeTenant", "commit">>)
    /\ Cleans(k, "list", <<"load", "wipeList", "wipeDetail", "wipePermissions", "flush", "commit">>)
    /\ Cleans(k, "detail", <<"load", "wipeList", "wipeDetail", "wipePermissions", "flush", "commit">>)
    /\ Cleans(k, "list", <<"load", "commit", "wipeList">>)
    /\ CleansInTime(k, "list", <<"load", "commit", "wipeList">>)
    /\ Cleans(k, "list", <<"load", "commit", "reread", "wipeMembers", "wipeList", "load", "reread">>)
    /\ CleansInTime(k, "list", <<"load", "commit", "reread", "wipeMembers", "wipeList", "load", "reread">>)
    /\ Cleans(k, "permissions", <<"load", "commit", "reread", "wipeMembers", "wipeList", "load", "reread">>)
    /\ CleansInTime(k, "permissions", <<"load", "commit", "reread", "wipeMembers", "wipeList", "load", "reread">>)
    /\ Cleans(k, "list", <<"load", "commit", "wipeMembers", "wipeList">>)
    /\ CleansInTime(k, "list", <<"load", "commit", "wipeMembers", "wipeList">>)
    /\ Cleans(k, "permissions", <<"load", "commit", "wipeMembers", "wipeList">>)
    /\ CleansInTime(k, "permissions", <<"load", "commit", "wipeMembers", "wipeList">>)
    /\ Cleans(k, "tags", <<"validate", "wipeTags", "wipeTagged", "commit">>)
    /\ k # "ai_models" => Cleans(k, "detail", <<"validate", "wipeTags", "wipeTagged", "commit">>)
    /\ Cleans(k, "tags", <<"wipeTags", "wipeTagged", "commit">>)
    /\ k # "ai_models" => Cleans(k, "detail", <<"wipeTags", "wipeTagged", "commit">>)
    /\ Cleans(k, "favorites", <<"find", "flush", "wipeFavorites", "wipeUnified", "commit">>)
    /\ Cleans(k, "favorites", <<"flush", "wipeFavorites", "wipeUnified", "commit">>)
BY Cleaners DEF Cleans, CleansInTime

(* So the programs do all that is asked of them.                           *)
LEMMA PlannedFits ==
  ASSUME NEW k \in DOMAIN Routes, NEW op, NEW p, Planned(k, op, p)
  PROVE  Fits(k, op, p)
<1>1. /\ op \in DOMAIN Readers \cup Changing \cup {"getPermission"}
      /\ p \in Programs(k, op)
  BY DEF Planned
<1>2. k \notin CommitFirst => k \in {"credentials", "tenants"}
  BY DEF CommitFirst
<1>3. Sequenced(op, p)
  BY <1>1, ProgramsSequenced DEF Programs, Readers, Changing, OfFavorites
<1>4. ASSUME NEW s \in Slots, Matters(k, op, s)
      PROVE  Cleans(k, s, p) /\ (CommitsFirst(k, op) => CleansInTime(k, s, p))
  <2>1. CASE op = "create"
    BY <1>1, <1>2, <1>4, <2>1, ProgramsClean
       DEF Matters, Programs, Readers, CommitsFirst, OfMembers, OfTags, OfFavorites
  <2>2. CASE op = "update"
    BY <1>1, <1>2, <1>4, <2>2, ProgramsClean
       DEF Matters, Programs, Readers, CommitsFirst, OfMembers, OfTags, OfFavorites
  <2>3. CASE op = "delete"
    BY <1>1, <1>2, <1>4, <2>3, ProgramsClean
       DEF Matters, Programs, Readers, CommitsFirst, OfMembers, OfTags, OfFavorites
  <2>4. CASE op = "duplicate"
    BY <1>1, <1>2, <1>4, <2>4, ProgramsClean
       DEF Matters, Programs, Readers, CommitsFirst, OfMembers, OfTags, OfFavorites
  <2>5. CASE op = "setPermission"
    BY <1>1, <1>2, <1>4, <2>5, ProgramsClean
       DEF Matters, Programs, Readers, CommitsFirst, OfMembers, OfTags, OfFavorites
  <2>6. CASE op = "deletePermission"
    BY <1>1, <1>2, <1>4, <2>6, ProgramsClean
       DEF Matters, Programs, Readers, CommitsFirst, OfMembers, OfTags, OfFavorites
  <2>7. CASE op = "setTags"
    BY <1>1, <1>2, <1>4, <2>7, ProgramsClean
       DEF Matters, Programs, Readers, CommitsFirst, OfMembers, OfTags, OfFavorites
  <2>8. CASE op = "deleteTags"
    BY <1>1, <1>2, <1>4, <2>8, ProgramsClean
       DEF Matters, Programs, Readers, CommitsFirst, OfMembers, OfTags, OfFavorites
  <2>9. CASE op \in OfFavorites
    BY <1>1, <1>4, <2>9, ProgramsClean
       DEF Matters, Programs, Readers, CommitsFirst, OfMembers, OfTags, OfFavorites
  <2>10. CASE op \in DOMAIN Readers \cup {"getPermission"}
    BY <1>4, <2>10 DEF Matters, Readers, OfMembers, OfTags, OfFavorites
  <2> QED BY <1>1, <2>1, <2>2, <2>3, <2>4, <2>5, <2>6, <2>7, <2>8, <2>9, <2>10
          DEF Changing
<1> QED BY <1>1, <1>3, <1>4 DEF Fits, Sequenced

-----------------------------------------------------------------------------
(* What is left of a program after its commit, and while it holds a lock.  *)
Has(p, step) == \E i \in DOMAIN p : p[i] = step
Committed(op, p) ==
  \A i \in DOMAIN p :
    /\ p[i] \in WipeSteps \cup {"load", "refetch", "reread"}
    /\ p[i] = "refetch" => op \in {"create", "update"}
    /\ p[i] = "reread" => op = "setPermission"
    /\ \A n \in DOMAIN p : i < n /\ p[n] \in WipeSteps =>
         p[i] \in WipeSteps \/ (i = 1 /\ p[i] # "load")
ToCommit(p) ==
  \E j \in DOMAIN p :
    /\ p[j] = "commit"
    /\ \A n \in DOMAIN p : n < j => p[n] \in WipeSteps \cup {"refetch"}

(* The control of a request in progress.                                   *)
Sound(k, s, j) ==
  /\ j.op \in DOMAIN Routes[k] /\ Routes[k][j.op].handler # Elsewhere
  /\ Orderly(j.op, j.todo)
  /\ j.op \in DOMAIN Readers => Readers[j.op] = s
  /\ j.op = "setPermission" => j.role # NoRole
  /\ j.op \notin {"create", "duplicate"} => j.who = Viewer
  /\ j.todo # <<>> => ~j.failed /\ (j.todo[1] = "fill" => j.view \in Answers(s))
  /\ j.changed => j.op \in Changing /\ Committed(j.op, j.todo)
  /\ j.holds => ToCommit(j.todo)
  /\ Matters(k, j.op, s) /\ CommitsFirst(k, j.op) => CleansInTime(k, s, j.todo)

(* The rest of a program after its first step, by index.                   *)
LEMMA Tails ==
  ASSUME NEW p \in Seq(Steps), p # <<>>
  PROVE  /\ Head(p) = p[1] /\ Tail(p) \in Seq(Steps) /\ 1 \in DOMAIN p
         /\ \A i \in DOMAIN Tail(p) : i \in Nat \ {0} /\ i + 1 \in DOMAIN p /\ Tail(p)[i] = p[i + 1]
         /\ \A i \in DOMAIN p : i = 1 \/ (i - 1 \in DOMAIN Tail(p) /\ Tail(p)[i - 1] = p[i])
         /\ Tail(p) # <<>> => 1 \in DOMAIN Tail(p)
<1>1. /\ Tail(p) \in Seq(Steps) /\ Len(Tail(p)) = Len(p) - 1
      /\ \A i \in 1 .. Len(Tail(p)) : Tail(p)[i] = p[i + 1]
  BY HeadTailProperties
<1>2. DOMAIN p = 1 .. Len(p) /\ Len(p) \in Nat \ {0} /\ Head(p) = p[1]
  OBVIOUS
<1>3. DOMAIN Tail(p) = 1 .. Len(Tail(p)) /\ (Tail(p) # <<>> => Len(Tail(p)) # 0)
  BY <1>1
<1>4. ASSUME NEW i \in DOMAIN p, i # 1
      PROVE  i - 1 \in DOMAIN Tail(p) /\ Tail(p)[i - 1] = p[i]
  <2>1. i - 1 \in 1 .. Len(Tail(p)) /\ (i - 1) + 1 = i
    BY <1>1, <1>2, <1>4
  <2> QED BY <1>1, <1>3, <2>1
<1> QED BY <1>1, <1>2, <1>3, <1>4

(* The order of steps is kept in what is left of a program.                *)
LEMMA TailsStayOrderly ==
  ASSUME NEW op, NEW p \in Seq(Steps), p # <<>>, Orderly(op, p)
  PROVE  /\ Orderly(op, Tail(p))
         /\ p[1] = "commit" => op \in Changing /\ Committed(op, Tail(p))
         /\ p[1] = "flush" => ToCommit(Tail(p))
         /\ p[1] \in {"read", "fill"} => op \in DOMAIN Readers
         /\ p[1] = "read" => Tail(p) # <<>>
<1> DEFINE t == Tail(p)
<1>1. /\ 1 \in DOMAIN p /\ DOMAIN p \subseteq Nat /\ DOMAIN t \subseteq Nat
      /\ \A i \in DOMAIN t : i \in Nat \ {0} /\ i + 1 \in DOMAIN p /\ t[i] = p[i + 1]
      /\ \A i \in DOMAIN p : i = 1 \/ (i - 1 \in DOMAIN t /\ t[i - 1] = p[i])
  BY Tails
<1> HIDE DEF t
<1>2. ASSUME NEW i \in DOMAIN t, t[i] = "flush"
      PROVE  \E j \in DOMAIN t :
               /\ i < j /\ t[j] = "commit"
               /\ \A n \in DOMAIN t : i < n /\ n < j => t[n] \in WipeSteps \cup {"refetch"}
  <2>1. PICK j \in DOMAIN p :
          /\ i + 1 < j /\ p[j] = "commit"
          /\ \A n \in DOMAIN p : i + 1 < n /\ n < j => p[n] \in WipeSteps \cup {"refetch"}
    BY <1>1, <1>2 DEF Orderly
  <2>2. /\ j - 1 \in DOMAIN t /\ i < j - 1 /\ t[j - 1] = "commit"
    BY <1>1, <2>1
  <2>3. ASSUME NEW n \in DOMAIN t, i < n, n < j - 1
        PROVE  t[n] \in WipeSteps \cup {"refetch"}
    <3>1. n + 1 \in DOMAIN p /\ i + 1 < n + 1 /\ n + 1 < j /\ t[n] = p[n + 1]
      BY <1>1, <2>1, <2>3
    <3> QED BY <2>1, <3>1
  <2> QED BY <2>2, <2>3
<1>3. ASSUME NEW i \in DOMAIN t
      PROVE  /\ t[i] = "fill" /\ i > 1 => t[i - 1] = "read"
             /\ t[i] = "read" => i + 1 \in DOMAIN t
             /\ t[i] \in {"read", "fill"} => op \in DOMAIN Readers
             /\ t[i] = "commit" => op \in Changing
  <2>1. i > 1 => i - 1 \in DOMAIN t /\ (i - 1) + 1 = i
    BY <1>1
  <2>2. i > 1 => t[i - 1] = p[i]
    BY <1>1, <2>1
  <2>3. i + 1 > 1 /\ (i + 1) - 1 = i /\ i + 1 \in DOMAIN p /\ t[i] = p[i + 1]
    BY <1>1
  <2>4. ASSUME t[i] = "read"
        PROVE  i + 1 \in DOMAIN t
    <3>1. (i + 1) + 1 \in DOMAIN p
      BY <2>3, <2>4 DEF Orderly
    <3>2. (i + 1) + 1 # 1 /\ ((i + 1) + 1) - 1 = i + 1
      BY <1>1
    <3> QED BY <1>1, <3>1, <3>2
  <2> QED BY <2>2, <2>3, <2>4 DEF Orderly
<1>4. ASSUME NEW i \in DOMAIN t, NEW j \in DOMAIN t, i < j, t[i] = "commit"
      PROVE  /\ t[j] \in WipeSteps \cup {"load", "refetch", "reread"}
             /\ t[j] = "refetch" => op \in {"create", "update"}
             /\ t[j] = "reread" => op = "setPermission"
             /\ \A n \in DOMAIN t : j < n /\ t[n] \in WipeSteps =>
                  t[j] \in WipeSteps \/ (j = i + 1 /\ t[j] # "load")
  <2>1. /\ i + 1 \in DOMAIN p /\ j + 1 \in DOMAIN p /\ i + 1 < j + 1
        /\ t[i] = p[i + 1] /\ t[j] = p[j + 1] /\ i \in Nat /\ j \in Nat
    BY <1>1, <1>4
  <2>2. ASSUME NEW n \in DOMAIN t, j < n, t[n] \in WipeSteps
        PROVE  t[j] \in WipeSteps \/ (j = i + 1 /\ t[j] # "load")
    <3>1. n + 1 \in DOMAIN p /\ j + 1 < n + 1 /\ t[n] = p[n + 1]
      BY <1>1, <2>2
    <3>2. p[j + 1] \in WipeSteps \/ (j + 1 = (i + 1) + 1 /\ p[j + 1] # "load")
      BY <1>4, <2>1, <2>2, <3>1 DEF Orderly
    <3>3. j + 1 = (i + 1) + 1 => j = i + 1
      BY <2>1, SMT
    <3> QED BY <2>1, <3>2, <3>3
  <2>3. /\ p[j + 1] \in WipeSteps \cup {"load", "refetch", "reread"}
        /\ p[j + 1] = "refetch" => op \in {"create", "update"}
        /\ p[j + 1] = "reread" => op = "setPermission"
    BY <1>4, <2>1 DEF Orderly
  <2> QED BY <2>1, <2>2, <2>3
<1>5. Orderly(op, t)
  BY <1>2, <1>3, <1>4 DEF Orderly
<1>6. ASSUME p[1] = "commit"
      PROVE  op \in Changing /\ Committed(op, t)
  <2>1. op \in Changing
    BY <1>1, <1>6 DEF Orderly
  <2>2. ASSUME NEW i \in DOMAIN t
        PROVE  /\ t[i] \in WipeSteps \cup {"load", "refetch", "reread"}
               /\ t[i] = "refetch" => op \in {"create", "update"}
               /\ t[i] = "reread" => op = "setPermission"
               /\ \A n \in DOMAIN t : i < n /\ t[n] \in WipeSteps =>
                    t[i] \in WipeSteps \/ (i = 1 /\ t[i] # "load")
    <3>1. i + 1 \in DOMAIN p /\ 1 < i + 1 /\ t[i] = p[i + 1]
      BY <1>1
    <3>2. ASSUME NEW n \in DOMAIN t, i < n, t[n] \in WipeSteps
          PROVE  t[i] \in WipeSteps \/ (i = 1 /\ t[i] # "load")
      <4>1. n + 1 \in DOMAIN p /\ i + 1 < n + 1 /\ t[n] = p[n + 1]
        BY <1>1, <3>2
      <4>2. p[i + 1] \in WipeSteps \/ (i + 1 = 1 + 1 /\ p[i + 1] # "load")
        BY <1>1, <1>6, <3>1, <3>2, <4>1 DEF Orderly
      <4>3. i + 1 = 1 + 1 => i = 1
        BY <1>1
      <4> QED BY <3>1, <4>2, <4>3
    <3>3. /\ p[i + 1] \in WipeSteps \cup {"load", "refetch", "reread"}
          /\ p[i + 1] = "refetch" => op \in {"create", "update"}
          /\ p[i + 1] = "reread" => op = "setPermission"
      BY <1>1, <1>6, <3>1 DEF Orderly
    <3> QED BY <3>1, <3>2, <3>3
  <2> QED BY <2>1, <2>2 DEF Committed
<1>7. ASSUME p[1] = "flush"
      PROVE  ToCommit(t)
  <2>1. PICK j \in DOMAIN p :
          /\ 1 < j /\ p[j] = "commit"
          /\ \A n \in DOMAIN p : 1 < n /\ n < j => p[n] \in WipeSteps \cup {"refetch"}
    BY <1>1, <1>7 DEF Orderly
  <2>2. j - 1 \in DOMAIN t /\ t[j - 1] = "commit"
    BY <1>1, <2>1
  <2>3. \A n \in DOMAIN t : n < j - 1 => t[n] \in WipeSteps \cup {"refetch"}
    BY <1>1, <2>1
  <2> QED BY <2>2, <2>3 DEF ToCommit
<1>8. ASSUME p[1] = "read"
      PROVE  t # <<>>
  <2>1. 1 + 1 \in DOMAIN p /\ 1 + 1 # 1
    BY <1>1, <1>8 DEF Orderly
  <2>2. (1 + 1) - 1 \in DOMAIN t
    BY <1>1, <2>1
  <2> QED BY <2>2
<1> QED BY <1>1, <1>5, <1>6, <1>7, <1>8 DEF t, Orderly

(* After the commit there is no other, and only the first step that is     *)
(* left can stand before a DEL and fail.                                   *)
LEMMA TailsStayCommitted ==
  ASSUME NEW op, NEW p \in Seq(Steps), p # <<>>, Committed(op, p)
  PROVE  /\ Committed(op, Tail(p)) /\ ~Has(p, "commit")
         /\ p[1] \in WipeSteps \cup {"load", "refetch", "reread"}
         /\ p[1] = "refetch" => op \in {"create", "update"}
         /\ p[1] = "reread" => op = "setPermission"
         /\ \A i \in DOMAIN Tail(p) : Tail(p)[i] \in WipeSteps =>
              p[1] # "load" /\ Tail(p)[1] \in WipeSteps
<1> DEFINE t == Tail(p)
<1>1. /\ 1 \in DOMAIN p /\ DOMAIN p \subseteq Nat /\ DOMAIN t \subseteq Nat
      /\ \A i \in DOMAIN t : i \in Nat \ {0} /\ i + 1 \in DOMAIN p /\ t[i] = p[i + 1]
      /\ t # <<>> => 1 \in DOMAIN t
  BY Tails
<1>2. \A i \in DOMAIN t : t # <<>>
  OBVIOUS
<1> HIDE DEF t
<1>3. Committed(op, t)
  BY <1>1 DEF Committed
<1>4. ASSUME NEW i \in DOMAIN t, t[i] \in WipeSteps
      PROVE  p[1] # "load" /\ t[1] \in WipeSteps
  <2>1. i + 1 \in DOMAIN p /\ 1 < i + 1 /\ p[i + 1] \in WipeSteps /\ 1 \in DOMAIN t
    BY <1>1, <1>2, <1>4
  <2>2. p[1] \in WipeSteps \/ p[1] # "load"
    BY <1>1, <2>1 DEF Committed
  <2>3. CASE i = 1
    BY <1>4, <2>2, <2>3 DEF WipeSteps
  <2>4. CASE i # 1
    <3>1. 1 + 1 \in DOMAIN p /\ 1 + 1 < i + 1 /\ t[1] = p[1 + 1] /\ 1 + 1 # 1
      BY <1>1, <2>1, <2>4
    <3>2. t[1] \in WipeSteps
      BY <2>1, <3>1 DEF Committed
    <3> QED BY <2>2, <3>2 DEF WipeSteps
  <2> QED BY <2>3, <2>4
<1>5. ~Has(p, "commit")
  BY DEF Has, Committed, WipeSteps
<1> QED BY <1>1, <1>3, <1>4, <1>5 DEF t, Committed

(* A DEL that is to come stays to come until it is the next step.          *)
LEMMA TailsStillClean ==
  ASSUME NEW k, NEW s, NEW p \in Seq(Steps), p # <<>>
  PROVE  /\ Cleans(k, s, p) => p[1] \in Cleaning(k, s) \/ Cleans(k, s, Tail(p))
         /\ Has(Tail(p), "commit") => Has(p, "commit")
         /\ CleansInTime(k, s, p) =>
              /\ CleansInTime(k, s, Tail(p))
              /\ p[1] = "commit" => Cleans(k, s, Tail(p))
         /\ ToCommit(p) =>
              /\ Has(p, "commit")
              /\ p[1] = "commit" \/ (p[1] \in WipeSteps \cup {"refetch"} /\ ToCommit(Tail(p)))
<1> DEFINE t == Tail(p)
<1>1. /\ 1 \in DOMAIN p /\ DOMAIN p \subseteq Nat /\ DOMAIN t \subseteq Nat
      /\ \A i \in DOMAIN t : i \in Nat \ {0} /\ i + 1 \in DOMAIN p /\ t[i] = p[i + 1]
      /\ \A i \in DOMAIN p : i = 1 \/ (i - 1 \in DOMAIN t /\ t[i - 1] = p[i])
  BY Tails
<1> HIDE DEF t
<1>2. Cleans(k, s, p) => p[1] \in Cleaning(k, s) \/ Cleans(k, s, t)
  BY <1>1 DEF Cleans
<1>3. Has(t, "commit") => Has(p, "commit")
  BY <1>1 DEF Has
<1>4. ASSUME CleansInTime(k, s, p)
      PROVE  CleansInTime(k, s, t) /\ (p[1] = "commit" => Cleans(k, s, t))
  <2>1. ASSUME NEW i \in DOMAIN t, t[i] = "commit"
        PROVE  \E j \in DOMAIN t : i < j /\ t[j] \in Cleaning(k, s)
    <3>1. PICK j \in DOMAIN p : i + 1 < j /\ p[j] \in Cleaning(k, s)
      BY <1>1, <1>4, <2>1 DEF CleansInTime
    <3>2. j - 1 \in DOMAIN t /\ i < j - 1 /\ t[j - 1] \in Cleaning(k, s)
      BY <1>1, <3>1
    <3> QED BY <3>2
  <2>2. ASSUME p[1] = "commit"
        PROVE  Cleans(k, s, t)
    <3>1. PICK j \in DOMAIN p : 1 < j /\ p[j] \in Cleaning(k, s)
      BY <1>1, <1>4, <2>2 DEF CleansInTime
    <3>2. j - 1 \in DOMAIN t /\ t[j - 1] = p[j]
      BY <1>1, <3>1
    <3> QED BY <3>1, <3>2 DEF Cleans
  <2> QED BY <2>1, <2>2 DEF CleansInTime
<1>5. ASSUME ToCommit(p)
      PROVE  /\ Has(p, "commit")
             /\ p[1] = "commit" \/ (p[1] \in WipeSteps \cup {"refetch"} /\ ToCommit(t))
  <2>1. PICK j \in DOMAIN p :
          /\ p[j] = "commit"
          /\ \A n \in DOMAIN p : n < j => p[n] \in WipeSteps \cup {"refetch"}
    BY <1>5 DEF ToCommit
  <2>2. CASE j = 1
    BY <2>1, <2>2 DEF Has
  <2>3. CASE j # 1
    <3>1. j - 1 \in DOMAIN t /\ t[j - 1] = "commit" /\ 1 < j
      BY <1>1, <2>1, <2>3
    <3>2. \A n \in DOMAIN t : n < j - 1 => t[n] \in WipeSteps \cup {"refetch"}
      BY <1>1, <2>1
    <3> QED BY <1>1, <2>1, <3>1, <3>2 DEF ToCommit, Has
  <2> QED BY <2>2, <2>3
<1> QED BY <1>2, <1>3, <1>4, <1>5 DEF t

-----------------------------------------------------------------------------
(* The inductive invariant. The variables have their types; every request  *)
(* is at a place in its program; one request holds the lock, and what it   *)
(* is about to commit can be executed; a resource that has not been        *)
(* created has no requests but its creation and readings of what is empty, *)
(* and no entry but of those.                                              *)
Shaped ==
  /\ kind \in DOMAIN Watched /\ slot \in Watched[kind] /\ faulty \in BOOLEAN
  /\ db \in Rows /\ left \in 0 .. MaxChanges
  /\ entry \in {NoEntry} \cup [view : Answers(slot), overtaken : BOOLEAN, raced : BOOLEAN]
  /\ job \in [Workers -> Jobs(slot) \cup {NoJob}]
JobsSound == \A w \in Workers : Active(w) => Sound(kind, slot, job[w])
Holders ==
  \A w \in Workers : Active(w) /\ job[w].holds =>
    /\ Executable(job[w].op)
    /\ \A v \in Workers : Active(v) /\ job[v].holds => v = w
Born ==
  db.state = "none" =>
    /\ \A w \in Workers : Active(w) =>
         job[w].op \in {"create", "list", "listFavorites"} /\ ~job[w].changed
    /\ slot \in {"list", "favorites"} \/ entry = NoEntry
Kept == Shaped /\ JobsSound /\ Holders /\ Born

(* A request that has changed what the entry shows and comes to delete the *)
(* entry.                                                                  *)
Promising(j) ==
  /\ j.changed /\ Matters(kind, j.op, slot) /\ Cleans(kind, slot, j.todo)
  /\ j.todo[1] = "refetch" => Live
  /\ j.todo[1] = "reread" => db.members[Viewer] # NoRole
Viable(w) == Active(w) /\ Promising(job[w])

(* Without faults: when a request that is to change what the entry shows   *)
(* has deleted the entry already, there is no entry but one read or stored *)
(* meanwhile; an entry that is out of date is such a one, or somebody is   *)
(* going to delete it; where the commit comes first, it was stored by a    *)
(* reader that was overtaken, or somebody is going to delete it.           *)
Forgotten ==
  \A w \in Workers :
    /\ Active(w) /\ Matters(kind, job[w].op, slot)
    /\ Has(job[w].todo, "commit") /\ ~Cleans(kind, slot, job[w].todo)
    => entry = NoEntry \/ entry.raced
Fresh == Stale => entry.raced \/ \E w \in Workers : Viable(w)

ShowsRows(view) == view.rows = View.rows \/ (db.state = "deleted" /\ slot = "permissions")
Overtaken ==
  /\ kind \in CommitFirst /\ slot \in {"list", "detail", "permissions"}
  /\ entry # NoEntry /\ ~ShowsRows(entry.view)
  => entry.overtaken \/ \E w \in Workers : Viable(w)
Honest == ~faulty => Forgotten /\ Fresh /\ Overtaken

-----------------------------------------------------------------------------
SameRequest(j, q) == q.op = j.op /\ q.role = j.role /\ q.who = j.who

(* The request after its next step.                                        *)
LEMMA AdvancedIs ==
  ASSUME Shaped, NEW w \in Workers, Active(w), job[w].todo # <<>>
  PROVE  /\ job[w] \in Jobs(slot) /\ job[w].todo \in Seq(Steps)
         /\ Tail(job[w].todo) = <<>> => Advanced(w) = NoJob
         /\ Tail(job[w].todo) # <<>> =>
              /\ Advanced(w) \in Jobs(slot) /\ Advanced(w).todo = Tail(job[w].todo)
              /\ SameRequest(job[w], Advanced(w))
              /\ Advanced(w).view = job[w].view /\ Advanced(w).raced = job[w].raced
              /\ Advanced(w).holds = job[w].holds /\ Advanced(w).changed = job[w].changed
              /\ Advanced(w).failed = job[w].failed
<1> DEFINE j == job[w]
           Put(t) == [j EXCEPT !.todo = t]
<1>1. j \in Jobs(slot)
  BY DEF Shaped, Active
<1>2. j.todo \in Seq(Steps) /\ Tail(j.todo) \in Seq(Steps)
  BY <1>1, Tails DEF Jobs
<1>3. ASSUME NEW t \in Seq(Steps)
      PROVE  /\ Put(t) \in Jobs(slot) /\ Put(t).todo = t /\ SameRequest(j, Put(t))
             /\ Put(t).view = j.view /\ Put(t).raced = j.raced
             /\ Put(t).holds = j.holds /\ Put(t).changed = j.changed
             /\ Put(t).failed = j.failed
  BY <1>1 DEF Jobs, SameRequest
<1>4. Advanced(w) = IF Tail(j.todo) = <<>> THEN NoJob ELSE Put(Tail(j.todo))
  BY Zenon DEF Advanced
<1> HIDE DEF Put
<1> QED BY <1>1, <1>2, <1>3, <1>4 DEF j

(* A request stays at a place in its program when it takes a step,         *)
LEMMA StepsStaySound ==
  ASSUME NEW k, NEW s, NEW j \in Jobs(s), NEW q \in Jobs(s), Sound(k, s, j), j.todo # <<>>,
         SameRequest(j, q), q.todo = Tail(j.todo), q.failed = j.failed,
         q.changed => j.changed \/ j.todo[1] = "commit",
         q.holds => (j.holds /\ j.todo[1] # "commit") \/ j.todo[1] = "flush",
         j.todo[1] = "read" => q.view \in Answers(s)
  PROVE  Sound(k, s, q)
<1> DEFINE p == j.todo
           t == Tail(p)
<1>1. /\ p \in Seq(Steps) /\ p # <<>> /\ q.op = j.op /\ q.role = j.role /\ q.who = j.who
      /\ q.todo = t
  BY DEF Jobs, SameRequest
<1> HIDE DEF p, t
<1>2. /\ Orderly(j.op, t)
      /\ p[1] = "commit" => j.op \in Changing /\ Committed(j.op, t)
      /\ p[1] = "flush" => ToCommit(t)
  BY <1>1, TailsStayOrderly DEF Sound, p, t
<1>3. q.changed => q.op \in Changing /\ Committed(q.op, t)
  BY <1>1, <1>2, TailsStayCommitted DEF Sound, p, t
<1>4. q.holds => ToCommit(t)
  BY <1>1, <1>2, TailsStillClean DEF Sound, p, t
<1>5. Matters(k, q.op, s) /\ CommitsFirst(k, q.op) => CleansInTime(k, s, t)
  BY <1>1, TailsStillClean DEF Sound, p, t
<1>6. t # <<>> /\ t[1] = "fill" => q.view \in Answers(s)
  <2> SUFFICES ASSUME t # <<>>, t[1] = "fill"
               PROVE  q.view \in Answers(s)
    OBVIOUS
  <2>1. 1 \in DOMAIN t /\ 1 + 1 \in DOMAIN p /\ t[1] = p[1 + 1]
    BY <1>1, Tails DEF t
  <2>2. p[(1 + 1) - 1] = "read"
    BY <2>1 DEF Sound, Orderly, p
  <2>3. (1 + 1) - 1 = 1
    OBVIOUS
  <2> QED BY <2>2, <2>3 DEF p
<1> QED BY <1>1, <1>2, <1>3, <1>4, <1>5, <1>6 DEF Sound, p

(* or ends.                                                                *)
LEMMA EndsStaySound ==
  ASSUME NEW k, NEW s, NEW j \in Jobs(s), NEW q \in Jobs(s), Sound(k, s, j),
         SameRequest(j, q), q.todo = <<>>, q.changed => j.changed, ~q.holds
  PROVE  Sound(k, s, q)
<1>1. /\ q.op = j.op /\ q.role = j.role /\ q.who = j.who /\ DOMAIN q.todo = {}
  BY DEF SameRequest
<1>2. Orderly(q.op, q.todo) /\ Committed(q.op, q.todo) /\ CleansInTime(k, s, q.todo)
  BY <1>1 DEF Orderly, Committed, CleansInTime
<1> QED BY <1>1, <1>2 DEF Sound

-----------------------------------------------------------------------------
(* A step of w, to the request q, that does not commit; one that keeps,    *)
(* moreover, what it promises of the entry.                                *)
Steadily(w, q) ==
  /\ job' = [job EXCEPT ![w] = q]
  /\ q = NoJob \/ (q \in Jobs(slot) /\ Sound(kind, slot, q))
  /\ q # NoJob =>
       /\ q.op = job[w].op /\ (q.changed <=> job[w].changed)
       /\ Has(q.todo, "commit") => Has(job[w].todo, "commit")
       /\ q.holds => job[w].holds \/ (~Locked /\ Executable(q.op))

Quietly(w, q) ==
  /\ Steadily(w, q)
  /\ q # NoJob /\ Has(q.todo, "commit") /\ Cleans(kind, slot, job[w].todo) =>
       Cleans(kind, slot, q.todo)
  /\ faulty \/ ~Viable(w) \/ (q # NoJob /\ Promising(q))

(* Who has a DEL to come is not to fail before.                            *)
LEMMA ViableSteps ==
  ASSUME Shaped, JobsSound, NEW w \in Workers, Viable(w)
  PROVE  /\ job[w].todo # <<>> /\ ~job[w].failed /\ job[w].op \in Changing
         /\ job[w].todo[1] \in WipeSteps \cup {"refetch", "reread"}
         /\ job[w].todo[1] \notin Cleaning(kind, slot) =>
              /\ Tail(job[w].todo) # <<>> /\ Cleans(kind, slot, Tail(job[w].todo))
              /\ Tail(job[w].todo)[1] \in WipeSteps
<1> DEFINE p == job[w].todo
<1>1. /\ Active(w) /\ job[w].changed /\ Cleans(kind, slot, p)
      /\ Sound(kind, slot, job[w]) /\ job[w] \in Jobs(slot)
  BY DEF Viable, Promising, JobsSound, Shaped, Active
<1>2. p \in Seq(Steps) /\ p # <<>> /\ ~job[w].failed
  BY <1>1 DEF Jobs, Cleans, Sound
<1>3. Committed(job[w].op, p) /\ job[w].op \in Changing
  BY <1>1 DEF Sound
<1> HIDE DEF p
<1>4. /\ p[1] \in WipeSteps \cup {"load", "refetch", "reread"}
      /\ \A i \in DOMAIN Tail(p) : Tail(p)[i] \in WipeSteps =>
           p[1] # "load" /\ Tail(p)[1] \in WipeSteps
  BY <1>2, <1>3, TailsStayCommitted
<1>5. p[1] \in Cleaning(kind, slot) \/ Cleans(kind, slot, Tail(p))
  BY <1>1, <1>2, TailsStillClean
<1>6. Cleaning(kind, slot) \subseteq WipeSteps
  BY DEF Cleaning
<1>7. Cleans(kind, slot, Tail(p)) =>
        Tail(p) # <<>> /\ p[1] # "load" /\ Tail(p)[1] \in WipeSteps
  BY <1>4, <1>6 DEF Cleans
<1> QED BY <1>2, <1>3, <1>4, <1>5, <1>6, <1>7 DEF p, WipeSteps

(* Going on to the next step is such a step, a DEL of the entry apart.     *)
LEMMA QuietAdvance ==
  ASSUME Kept, NEW w \in Workers, Active(w), job[w].todo # <<>>,
         job[w].todo[1] # "commit",
         NEW q \in Jobs(slot), job' = [job EXCEPT ![w] = q],
         q.todo = Tail(job[w].todo), SameRequest(job[w], q), q.failed = job[w].failed,
         q.changed = job[w].changed,
         q.holds => job[w].holds \/ (job[w].todo[1] = "flush" /\ ~Locked /\ Executable(q.op)),
         job[w].todo[1] = "read" => q.view \in Answers(slot)
  PROVE  Steadily(w, q) /\ (job[w].todo[1] \notin Cleaning(kind, slot) => Quietly(w, q))
<1> DEFINE j == job[w]
<1>1. j \in Jobs(slot) /\ Sound(kind, slot, j) /\ j.todo \in Seq(Steps)
  BY DEF Kept, Shaped, JobsSound, Active, Jobs
<1>2. Sound(kind, slot, q)
  BY <1>1, StepsStaySound
<1>3. Has(q.todo, "commit") => Has(j.todo, "commit")
  BY <1>1, TailsStillClean
<1>4. Steadily(w, q)
  BY <1>2, <1>3 DEF Steadily, SameRequest
<1>5. ASSUME j.todo[1] \notin Cleaning(kind, slot)
      PROVE  Quietly(w, q)
  <2>1. Cleans(kind, slot, j.todo) => Cleans(kind, slot, q.todo)
    BY <1>1, <1>5, TailsStillClean
  <2>2. Viable(w) => q # NoJob /\ Promising(q)
    <3> SUFFICES ASSUME Viable(w)
                 PROVE  q # NoJob /\ Promising(q)
      OBVIOUS
    <3>1. q # NoJob
      BY ResourceConstants DEF Kept, Shaped
    <3>2. q.todo[1] \in WipeSteps
      BY <1>5, ViableSteps DEF Kept
    <3>3. q.todo[1] # "refetch" /\ q.todo[1] # "reread"
      BY <3>2 DEF WipeSteps
    <3> QED BY <2>1, <3>1, <3>3 DEF Viable, Promising, SameRequest
  <2> QED BY <1>4, <2>1, <2>2 DEF Quietly
<1> QED BY <1>4, <1>5

(* So is the end of a request that promises nothing,                       *)
LEMMA QuietEnd ==
  ASSUME Kept, NEW w \in Workers, Active(w), job' = [job EXCEPT ![w] = NoJob],
         faulty \/ ~Viable(w)
  PROVE  Quietly(w, NoJob)
BY DEF Quietly, Steadily

(* and its failure.                                                        *)
LEMMA QuietFailure ==
  ASSUME Kept, NEW w \in Workers, Active(w), ~Viable(w), ~job[w].holds, Fail(w)
  PROVE  \E q : Quietly(w, q)
<1> DEFINE j == job[w]
           q == [j EXCEPT !.todo = <<>>, !.failed = TRUE]
<1>1. j \in Jobs(slot) /\ Sound(kind, slot, j)
  BY DEF Kept, Shaped, JobsSound, Active
<1>2. /\ q \in Jobs(slot) /\ SameRequest(j, q) /\ q.todo = <<>> /\ q.changed = j.changed
      /\ q.holds = j.holds
  <2> HIDE DEF j
  <2>1. <<>> \in Seq(Steps)
    OBVIOUS
  <2> QED BY <1>1, <2>1 DEF Jobs, SameRequest
<1>3. job' = [job EXCEPT ![w] = q]
  BY DEF Fail, Become
<1> HIDE DEF q
<1>4. Sound(kind, slot, q)
  BY <1>1, <1>2, EndsStaySound
<1>5. ~Has(q.todo, "commit")
  BY <1>2 DEF Has
<1>6. Quietly(w, q)
  BY <1>2, <1>3, <1>4, <1>5 DEF Quietly, Steadily, SameRequest
<1> QED BY <1>6

(* The step a request is at.                                               *)
LEMMA HeadsFirst ==
  ASSUME Shaped, NEW w \in Workers, NEW step, At(w, step)
  PROVE  Active(w) /\ job[w].todo # <<>> /\ job[w].todo[1] = step
<1>1. job[w] \in Jobs(slot)
  BY DEF At, Active, Shaped
<1>2. job[w].todo \in Seq(Steps) /\ job[w].todo # <<>>
  BY <1>1 DEF At, Jobs
<1> QED BY <1>2, Tails DEF At, Step

(* A step that only goes on to the next one, or ends the request with it.  *)
LEMMA Onward ==
  ASSUME Kept, NEW w \in Workers, NEW step, At(w, step), step \notin {"commit", "read"},
         Advance(w)
  PROVE  \E q : Steadily(w, q) /\ (step \notin Cleaning(kind, slot) => Quietly(w, q))
<1>1. /\ Shaped /\ Active(w) /\ job[w].todo # <<>> /\ job[w].todo[1] = step
  BY HeadsFirst DEF Kept
<1>2. job' = [job EXCEPT ![w] = Advanced(w)]
  BY DEF Advance, Become
<1>3. CASE Tail(job[w].todo) = <<>>
  <2>1. Advanced(w) = NoJob
    BY <1>1, <1>3, AdvancedIs
  <2>2. step \notin Cleaning(kind, slot) => ~Viable(w)
    BY <1>1, <1>3, ViableSteps DEF Kept
  <2>3. Steadily(w, NoJob)
    BY <1>2, <2>1 DEF Steadily
  <2>4. step \notin Cleaning(kind, slot) => Quietly(w, NoJob)
    BY <2>2, <2>3 DEF Quietly
  <2> QED BY <2>3, <2>4
<1>4. CASE Tail(job[w].todo) # <<>>
  <2> DEFINE q == Advanced(w)
  <2>1. /\ q \in Jobs(slot) /\ q.todo = Tail(job[w].todo) /\ SameRequest(job[w], q)
        /\ q.failed = job[w].failed /\ q.changed = job[w].changed
        /\ q.holds = job[w].holds
    BY <1>1, <1>4, AdvancedIs
  <2>2. job' = [job EXCEPT ![w] = q]
    BY <1>2
  <2> HIDE DEF q
  <2>3. Steadily(w, q) /\ (job[w].todo[1] \notin Cleaning(kind, slot) => Quietly(w, q))
    BY <1>1, <2>1, <2>2, QuietAdvance
  <2> QED BY <1>1, <2>3
<1> QED BY <1>3, <1>4

(* The same for the steps that touch neither rows nor the entry.           *)
LEMMA QuietOnward ==
  ASSUME Kept, NEW w \in Workers, NEW step, At(w, step),
         step \notin WipeSteps \cup {"commit", "read"}, Advance(w)
  PROVE  \E q : Quietly(w, q)
<1>1. step \notin Cleaning(kind, slot)
  BY DEF Cleaning
<1> QED BY <1>1, Onward

(* What is read has the type of what is stored.                            *)
LEMMA ViewsAreAnswers ==
  ASSUME Shaped, Live \/ slot \in {"list", "tags", "favorites"}
  PROVE  View \in Answers(slot)
<1>1. /\ slot \in Slots /\ db.state \in States /\ db.version \in Nat /\ db.tags \in SUBSET {"tag"}
      /\ db.copies \in SUBSET Users /\ db.favorite \in BOOLEAN /\ db.members \in Members
  BY ResourceConstants DEF Shaped, Rows
<1>2. SeenBy(Viewer) \in SUBSET Users
  BY <1>1 DEF SeenBy
<1>3. BulkPermission(Viewer, db.members) \in {BulkPermission(Viewer, m) : m \in Members}
  BY <1>1
<1>4. CASE slot = "list"
  BY <1>1, <1>2, <1>3, <1>4 DEF View, ListView, Answers
<1>5. CASE slot = "detail"
  <2>1. db.state = "live"
    BY <1>5 DEF Live
  <2> QED BY <1>1, <1>5, <2>1 DEF View, DetailView, Answers
<1>6. CASE slot \in {"permissions", "tags", "favorites"}
  BY <1>1, <1>6 DEF View, Answers
<1> QED BY <1>1, <1>4, <1>5, <1>6 DEF Slots

(* The steps that change neither the rows nor the entry.                   *)
LEMMA QuietSteps ==
  ASSUME Kept, NEW w \in Workers,
         \/ Lookup(w) \/ Peek(w) \/ Find(w) \/ Read(w) \/ Validate(w) \/ Load(w) \/ Flush(w)
         \/ Refetch(w) \/ Reread(w) \/ Refuse(w) \/ Crash(w)
  PROVE  /\ UNCHANGED <<fixed, db, entry, left>> /\ Active(w)
         /\ \E q : Quietly(w, q)
<1> DEFINE j == job[w]
<1>1. Shaped /\ JobsSound
  BY DEF Kept
<1>2. Viable(w) => /\ j.todo # <<>> /\ ~j.failed
                   /\ j.todo[1] \in WipeSteps \cup {"refetch", "reread"}
                   /\ j.todo[1] = "refetch" => Live
                   /\ j.todo[1] = "reread" => db.members[Viewer] # NoRole
  BY <1>1, ViableSteps DEF Viable, Promising
<1>3. Active(w) /\ j.holds => Has(j.todo, "commit") /\
        (j.todo # <<>> => j.todo[1] \in WipeSteps \cup {"refetch", "commit"})
  <2> SUFFICES ASSUME Active(w), j.holds
               PROVE  Has(j.todo, "commit") /\
                        (j.todo # <<>> => j.todo[1] \in WipeSteps \cup {"refetch", "commit"})
    OBVIOUS
  <2>1. j.todo \in Seq(Steps) /\ ToCommit(j.todo)
    BY <1>1 DEF Shaped, JobsSound, Sound, Active, Jobs
  <2>2. j.todo # <<>>
    BY <2>1 DEF ToCommit
  <2> QED BY <2>1, <2>2, TailsStillClean
<1>4. CASE Lookup(w)
  <2>1. /\ Active(w) /\ j.todo # <<>> /\ j.todo[1] = "lookup" /\ At(w, "lookup")
        /\ UNCHANGED <<fixed, db, entry, left>>
    BY <1>1, <1>4, HeadsFirst DEF Lookup
  <2>2. CASE entry # NoEntry
    <3>1. ~Viable(w) /\ job' = [job EXCEPT ![w] = NoJob]
      BY <1>2, <1>4, <2>1, <2>2 DEF Lookup, Become, WipeSteps
    <3> QED BY <2>1, <3>1, QuietEnd
  <2>3. CASE entry = NoEntry
    <3>1. Advance(w)
      BY <1>4, <2>3 DEF Lookup, Advance
    <3> QED BY <2>1, <3>1, QuietOnward DEF WipeSteps
  <2> QED BY <2>2, <2>3
<1>5. CASE Peek(w)
  <2>1. /\ Active(w) /\ j.todo # <<>> /\ j.todo[1] = "peek" /\ At(w, "peek")
        /\ UNCHANGED <<fixed, db, entry, left>>
    BY <1>1, <1>5, HeadsFirst DEF Peek
  <2>2. CASE Become(w, NoJob)
    <3>1. ~Viable(w) /\ job' = [job EXCEPT ![w] = NoJob]
      BY <1>2, <2>1, <2>2 DEF Become, WipeSteps
    <3> QED BY <2>1, <3>1, QuietEnd
  <2>3. CASE Advance(w)
    BY <2>1, <2>3, QuietOnward DEF WipeSteps
  <2> QED BY <1>5, <2>2, <2>3 DEF Peek
<1>6. CASE Find(w)
  <2>1. /\ Active(w) /\ j.todo # <<>> /\ j.todo[1] = "find" /\ At(w, "find")
        /\ UNCHANGED <<fixed, db, entry, left>>
    BY <1>1, <1>6, HeadsFirst DEF Find
  <2>2. CASE Become(w, NoJob)
    <3>1. ~Viable(w) /\ job' = [job EXCEPT ![w] = NoJob]
      BY <1>2, <2>1, <2>2 DEF Become, WipeSteps
    <3> QED BY <2>1, <3>1, QuietEnd
  <2>3. CASE Advance(w)
    BY <2>1, <2>3, QuietOnward DEF WipeSteps
  <2> QED BY <1>6, <2>2, <2>3 DEF Find
<1>7. CASE Read(w)
  <2>1. /\ Active(w) /\ j.todo # <<>> /\ j.todo[1] = "read" /\ At(w, "read")
        /\ UNCHANGED <<fixed, db, entry, left>>
    BY <1>1, <1>7, HeadsFirst DEF Read
  <2>2. CASE ~(Live \/ slot \in {"list", "tags", "favorites"})
    <3>1. Fail(w) /\ ~Viable(w) /\ ~j.holds
      BY <1>2, <1>3, <1>7, <2>1, <2>2 DEF Read, WipeSteps
    <3> QED BY <2>1, <3>1, QuietFailure
  <2>3. CASE Live \/ slot \in {"list", "tags", "favorites"}
    <3> DEFINE a == Advanced(w)
               q == [a EXCEPT !.view = View, !.raced = Writing]
    <3>1. Tail(j.todo) # <<>>
      <4>1. j \in Jobs(slot) /\ Sound(kind, slot, j) /\ j.todo \in Seq(Steps)
        BY <1>1, <2>1 DEF Shaped, JobsSound, Active, Jobs
      <4> QED BY <2>1, <4>1, TailsStayOrderly DEF Sound
    <3>2. /\ a \in Jobs(slot) /\ a.todo = Tail(j.todo) /\ SameRequest(j, a)
          /\ a.failed = j.failed /\ a.changed = j.changed /\ a.holds = j.holds
      BY <1>1, <2>1, <3>1, AdvancedIs
    <3>3. View \in Answers(slot) /\ Writing \in BOOLEAN
      BY <1>1, <2>3, ViewsAreAnswers DEF Writing
    <3>4. job' = [job EXCEPT ![w] = q]
      BY <1>7, <2>3 DEF Read, Become
    <3> HIDE DEF a
    <3>5. /\ q \in Jobs(slot) /\ q.todo = Tail(j.todo) /\ SameRequest(j, q)
          /\ q.failed = j.failed /\ q.changed = j.changed /\ q.holds = j.holds
          /\ q.view = View
      <4> HIDE DEF j
      <4> QED BY <3>2, <3>3 DEF Jobs, SameRequest
    <3> HIDE DEF q
    <3>6. Quietly(w, q)
      BY <2>1, <3>3, <3>4, <3>5, QuietAdvance DEF Cleaning, WipeSteps
    <3> QED BY <2>1, <3>6
  <2> QED BY <2>2, <2>3
<1>8. CASE Validate(w)
  <2>1. /\ Active(w) /\ j.todo # <<>> /\ j.todo[1] = "validate" /\ At(w, "validate")
        /\ UNCHANGED <<fixed, db, entry, left>>
    BY <1>1, <1>8, HeadsFirst DEF Validate
  <2>2. CASE Fail(w)
    BY <1>2, <1>3, <2>1, <2>2, QuietFailure DEF WipeSteps
  <2>3. CASE Advance(w)
    BY <2>1, <2>3, QuietOnward DEF WipeSteps
  <2> QED BY <1>8, <2>2, <2>3 DEF Validate
<1>9. CASE Load(w)
  <2>1. /\ Active(w) /\ j.todo # <<>> /\ j.todo[1] = "load" /\ At(w, "load")
        /\ UNCHANGED <<fixed, db, entry, left>>
    BY <1>1, <1>9, HeadsFirst DEF Load
  <2>2. CASE Fail(w)
    BY <1>2, <1>3, <2>1, <2>2, QuietFailure DEF WipeSteps
  <2>3. CASE Advance(w)
    BY <2>1, <2>3, QuietOnward DEF WipeSteps
  <2> QED BY <1>9, <2>2, <2>3 DEF Load
<1>10. CASE Flush(w)
  <2>1. /\ Active(w) /\ j.todo # <<>> /\ j.todo[1] = "flush" /\ ~Locked
        /\ UNCHANGED <<fixed, db, entry, left>>
    BY <1>1, <1>10, HeadsFirst DEF Flush
  <2>2. CASE Fail(w)
    BY <1>2, <1>3, <2>1, <2>2, QuietFailure DEF WipeSteps
  <2>3. CASE Executable(j.op) /\ Become(w, [Advanced(w) EXCEPT !.holds = TRUE])
    <3>1. Tail(j.todo) # <<>>
      <4>1. j \in Jobs(slot) /\ Sound(kind, slot, j) /\ j.todo \in Seq(Steps)
        BY <1>1, <2>1 DEF Shaped, JobsSound, Active, Jobs
      <4>2. ToCommit(Tail(j.todo))
        BY <2>1, <4>1, TailsStayOrderly DEF Sound
      <4> QED BY <4>2 DEF ToCommit
    <3> DEFINE a == Advanced(w)
               q == [a EXCEPT !.holds = TRUE]
    <3>2. /\ a \in Jobs(slot) /\ a.todo = Tail(j.todo) /\ SameRequest(j, a)
          /\ a.failed = j.failed /\ a.changed = j.changed
      BY <1>1, <2>1, <3>1, AdvancedIs
    <3> HIDE DEF a
    <3>3. /\ q \in Jobs(slot) /\ q.todo = Tail(j.todo) /\ SameRequest(j, q)
          /\ q.failed = j.failed /\ q.changed = j.changed
      <4> HIDE DEF j
      <4> QED BY <3>2 DEF Jobs, SameRequest
    <3>4. job' = [job EXCEPT ![w] = q] /\ q.op = j.op
      BY <2>3, <3>3 DEF Become, a, SameRequest
    <3> HIDE DEF q
    <3>5. Quietly(w, q)
      BY <2>1, <2>3, <3>3, <3>4, QuietAdvance DEF Cleaning, WipeSteps
    <3> QED BY <2>1, <3>5
  <2> QED BY <1>10, <2>2, <2>3 DEF Flush
<1>11. CASE Refetch(w)
  <2>1. /\ Active(w) /\ j.todo # <<>> /\ j.todo[1] = "refetch" /\ At(w, "refetch")
        /\ UNCHANGED <<fixed, db, entry, left>>
    BY <1>1, <1>11, HeadsFirst DEF Refetch
  <2>2. CASE ~(j.holds \/ Live)
    <3>1. Fail(w) /\ ~Viable(w) /\ ~j.holds
      BY <1>2, <1>11, <2>1, <2>2 DEF Refetch
    <3> QED BY <2>1, <3>1, QuietFailure
  <2>3. CASE j.holds \/ Live
    <3>1. Advance(w)
      BY <1>11, <2>3 DEF Refetch
    <3> QED BY <2>1, <3>1, QuietOnward DEF WipeSteps
  <2> QED BY <2>2, <2>3
<1>12. CASE Reread(w)
  <2>1. /\ Active(w) /\ j.todo # <<>> /\ j.todo[1] = "reread" /\ At(w, "reread")
        /\ UNCHANGED <<fixed, db, entry, left>>
    BY <1>1, <1>12, HeadsFirst DEF Reread
  <2>2. CASE db.members[Viewer] = NoRole
    <3>1. Fail(w) /\ ~Viable(w) /\ ~j.holds
      BY <1>2, <1>3, <1>12, <2>1, <2>2 DEF Reread, WipeSteps
    <3> QED BY <2>1, <3>1, QuietFailure
  <2>3. CASE db.members[Viewer] # NoRole
    <3>1. Advance(w)
      BY <1>12, <2>3 DEF Reread
    <3> QED BY <2>1, <3>1, QuietOnward DEF WipeSteps
  <2> QED BY <2>2, <2>3
<1>13. CASE Refuse(w)
  <2>1. Active(w) /\ ~Viable(w) /\ job' = [job EXCEPT ![w] = NoJob]
    BY <1>2, <1>13 DEF Refuse, Become
  <2> QED BY <1>13, <2>1, QuietEnd DEF Refuse
<1>14. CASE Crash(w)
  BY <1>14, QuietEnd DEF Crash, Become
<1> HIDE DEF j
<1> QED
  BY <1>4, <1>5, <1>6, <1>7, <1>8, <1>9, <1>10, <1>11, <1>12, <1>13, <1>14

-----------------------------------------------------------------------------
(* Moving one request leaves the others where they are.                    *)
LEMMA JobsStaySound ==
  ASSUME Shaped, JobsSound, NEW w \in Workers, NEW q, job' = [job EXCEPT ![w] = q],
         q = NoJob \/ (q \in Jobs(slot) /\ Sound(kind, slot, q)), UNCHANGED fixed
  PROVE  /\ job' \in [Workers -> Jobs(slot') \cup {NoJob}] /\ JobsSound'
         /\ job'[w] = q /\ \A v \in Workers \ {w} : job'[v] = job[v]
<1>1. /\ kind' = kind /\ slot' = slot /\ faulty' = faulty
      /\ job \in [Workers -> Jobs(slot) \cup {NoJob}]
  BY DEF fixed, Shaped
<1>2. job'[w] = q /\ \A v \in Workers \ {w} : job'[v] = job[v]
  BY <1>1
<1>3. job' \in [Workers -> Jobs(slot') \cup {NoJob}]
  BY <1>1
<1>4. ASSUME NEW v \in Workers, job'[v] # NoJob
      PROVE  Sound(kind', slot', job'[v])
  BY <1>1, <1>2, <1>4 DEF JobsSound, Active
<1> QED BY <1>2, <1>3, <1>4 DEF JobsSound, Active

(* Steps without a commit keep Kept,                                       *)
LEMMA SteadyStepsKeep ==
  ASSUME Kept, NEW w \in Workers, NEW q, Steadily(w, q), Active(w),
         UNCHANGED <<fixed, db, left>>,
         entry' \in {NoEntry} \cup [view : Answers(slot), overtaken : BOOLEAN, raced : BOOLEAN],
         db.state = "none" => slot \in {"list", "favorites"} \/ entry' = NoEntry
  PROVE  Kept' /\ job'[w] = q /\ \A v \in Workers \ {w} : job'[v] = job[v]
<1>1. /\ kind' = kind /\ slot' = slot /\ faulty' = faulty /\ db' = db /\ left' = left
      /\ Shaped /\ JobsSound /\ Holders /\ Born
  BY DEF fixed, Kept
<1>2. /\ job' \in [Workers -> Jobs(slot') \cup {NoJob}] /\ JobsSound'
      /\ job'[w] = q /\ \A v \in Workers \ {w} : job'[v] = job[v]
  BY <1>1, JobsStaySound DEF Steadily, fixed
<1>3. Shaped'
  BY <1>1, <1>2 DEF Shaped
<1>4. ASSUME NEW v \in Workers, job'[v] # NoJob, job'[v].holds
      PROVE  /\ Executable(job'[v].op)
             /\ \/ job[v] # NoJob /\ job[v].holds
                \/ v = w /\ ~Locked
  BY <1>1, <1>2, <1>4 DEF Steadily, Holders, Active
<1>5. ASSUME NEW v \in Workers, job'[v] # NoJob, job'[v].holds,
             NEW u \in Workers, job'[u] # NoJob, job'[u].holds
      PROVE  u = v
  BY <1>1, <1>4, <1>5 DEF Holders, Locked, Active
<1>6. Holders'
  <2> SUFFICES ASSUME NEW v \in Workers, job'[v] # NoJob, job'[v].holds
               PROVE  /\ Executable(job[v].op)'
                      /\ \A u \in Workers : job'[u] # NoJob /\ job'[u].holds => u = v
    BY DEF Holders, Active
  <2>1. Executable(job[v].op)'
    BY <1>1, <1>4 DEF Executable, Live
  <2> QED BY <1>5, <2>1
<1>7. Born'
  BY <1>1, <1>2 DEF Born, Steadily, Active
<1> QED BY <1>2, <1>3, <1>6, <1>7 DEF Kept

(* and, if they change nothing else, Honest.                               *)
LEMMA QuietStepsKeep ==
  ASSUME Kept, NEW w \in Workers, NEW q, Quietly(w, q), Active(w),
         UNCHANGED <<fixed, db, entry, left>>
  PROVE  /\ Kept' /\ (Honest => Honest')
         /\ job'[w] = q /\ \A v \in Workers \ {w} : job'[v] = job[v]
<1>1. /\ kind' = kind /\ slot' = slot /\ faulty' = faulty /\ db' = db /\ entry' = entry
      /\ Steadily(w, q)
  BY DEF fixed, Quietly
<1>2. Kept' /\ job'[w] = q /\ \A v \in Workers \ {w} : job'[v] = job[v]
  BY <1>1, SteadyStepsKeep DEF Kept, Shaped, Born
<1>3. ASSUME ~faulty, Forgotten
      PROVE  Forgotten'
  BY <1>1, <1>2, <1>3 DEF Forgotten, Quietly, Steadily, Active
<1>4. ASSUME ~faulty, NEW v \in Workers, Viable(v)
      PROVE  Viable(v)'
  <2>1. CASE v = w
    BY <1>1, <1>2, <1>4, <2>1 DEF Quietly, Viable, Promising, Active, Live
  <2>2. CASE v # w
    BY <1>1, <1>2, <1>4, <2>2 DEF Viable, Promising, Active, Live
  <2> QED BY <2>1, <2>2
<1>5. View' = View /\ Stale' = Stale
  BY <1>1 DEF View, ListView, DetailView, InList, SeenBy, Live, Stale, Shows, TagsFollow
<1>6. ASSUME ~faulty, Fresh
      PROVE  Fresh'
  BY <1>1, <1>4, <1>5, <1>6 DEF Fresh
<1>7. ASSUME ~faulty, Overtaken
      PROVE  Overtaken'
  BY <1>1, <1>4, <1>5, <1>7 DEF Overtaken, ShowsRows
<1> QED BY <1>1, <1>2, <1>3, <1>6, <1>7 DEF Honest

(* What is stored is marked, if it was read or is stored while a change is *)
(* under way.                                                              *)
LEMMA FillsKeep ==
  ASSUME Kept, NEW w \in Workers, Fill(w)
  PROVE  Kept' /\ (Honest => Honest')
<1> DEFINE j == job[w]
<1>1. /\ At(w, "fill") /\ Advance(w) /\ Active(w) /\ j.todo # <<>> /\ j.todo[1] = "fill"
      /\ UNCHANGED <<fixed, db, left>> /\ Shaped /\ JobsSound
  BY HeadsFirst DEF Fill, Kept
<1>2. PICK q : Quietly(w, q)
  BY <1>1, QuietOnward DEF WipeSteps
<1>3. CASE UNCHANGED entry
  BY <1>1, <1>2, <1>3, QuietStepsKeep
<1>4. CASE entry' = [view |-> j.view, overtaken |-> ~Shows(j.view),
                     raced |-> j.raced \/ Writing \/ ~Shows(j.view)]
  <2>1. /\ j \in Jobs(slot) /\ Sound(kind, slot, j) /\ j.todo \in Seq(Steps)
    BY <1>1 DEF Shaped, JobsSound, Active, Jobs
  <2>2. j.view \in Answers(slot) /\ j.op \in DOMAIN Readers /\ Readers[j.op] = slot
    BY <1>1, <2>1, TailsStayOrderly DEF Sound
  <2>3. /\ entry'.view = j.view
        /\ entry'.raced <=> (j.raced \/ Writing \/ ~Shows(j.view))
        /\ entry'.overtaken <=> ~Shows(j.view)
        /\ entry' \in [view : Answers(slot), overtaken : BOOLEAN, raced : BOOLEAN]
    <3>1. j.raced \in BOOLEAN
      <4> HIDE DEF j
      <4> QED BY <2>1 DEF Jobs
    <3>2. Writing \in BOOLEAN
      BY Zenon DEF Writing
    <3>3. (~Shows(j.view)) \in BOOLEAN
      BY Zenon
    <3> HIDE DEF j
    <3> QED BY <1>4, <2>2, <3>1, <3>2, <3>3
  <2>4. db.state = "none" => slot \in {"list", "favorites"}
    BY <1>1, <2>2 DEF Kept, Born, Readers
  <2>5. Kept' /\ job'[w] = q /\ \A v \in Workers \ {w} : job'[v] = job[v]
    BY <1>1, <1>2, <2>3, <2>4, SteadyStepsKeep DEF Quietly
  <2>6. kind' = kind /\ slot' = slot /\ db' = db /\ faulty' = faulty
    BY <1>1 DEF fixed
  <2>7. Forgotten'
    <3> SUFFICES ASSUME NEW v \in Workers, job'[v] # NoJob, Has(job'[v].todo, "commit")
                 PROVE  entry'.raced
      BY <2>6 DEF Forgotten, Active
    <3>1. job[v] # NoJob /\ Has(job[v].todo, "commit")
      BY <1>1, <1>2, <2>5 DEF Quietly, Steadily, Active
    <3>2. Orderly(job[v].op, job[v].todo)
      BY <1>1, <3>1 DEF JobsSound, Active, Sound
    <3>3. job[v].op \in Changing /\ job[v].todo # <<>>
      BY <3>1, <3>2 DEF Orderly, Has
    <3>4. Writing
      BY <3>1, <3>3 DEF Writing, Active
    <3> QED BY <2>3, <3>4
  <2>8. View' = View
    BY <2>6 DEF View, ListView, DetailView, InList, SeenBy, Live
  <2>9. Fresh'
    BY <2>3, <2>6, <2>8 DEF Fresh, Stale, Shows, TagsFollow
  <2>10. Overtaken'
    BY <2>3, <2>6, <2>8 DEF Overtaken, ShowsRows, Shows
  <2> QED BY <2>5, <2>7, <2>9, <2>10 DEF Honest
<1> QED BY <1>3, <1>4 DEF Fill

(* No entry is never out of date.                                          *)
LEMMA EmptyIsHonest ==
  ASSUME entry' = NoEntry
  PROVE  Honest'
BY DEF Honest, Forgotten, Fresh, Stale, Overtaken

(* A DEL keeps the invariant: of the entry, or of others.                  *)
LEMMA WipesKeep ==
  ASSUME Kept, NEW w \in Workers, Wipe(w)
  PROVE  Kept' /\ (Honest => Honest')
<1>1. PICK step \in WipeSteps :
        /\ At(w, step)
        /\ \/ entry' = IF Wiped(kind, step) = StoredAt(kind, slot) THEN NoEntry ELSE entry
           \/ faulty /\ UNCHANGED entry
  BY DEF Wipe
<1>2. /\ Advance(w) /\ Active(w) /\ UNCHANGED <<fixed, db, left>> /\ faulty' = faulty
  BY <1>1 DEF Wipe, At, fixed
<1>3. PICK q : Steadily(w, q) /\ (step \notin Cleaning(kind, slot) => Quietly(w, q))
  BY <1>1, <1>2, Onward DEF WipeSteps
<1>4. CASE step \in Cleaning(kind, slot)
  <2>1. entry' = NoEntry \/ (faulty /\ entry' = entry)
    BY <1>1, <1>4 DEF Cleaning
  <2>2. Kept'
    BY <1>2, <1>3, <2>1, SteadyStepsKeep DEF Kept, Shaped, Born
  <2>3. Honest'
    BY <1>2, <2>1, EmptyIsHonest DEF Honest
  <2> QED BY <2>2, <2>3
<1>5. CASE step \notin Cleaning(kind, slot)
  <2>1. entry' = entry
    BY <1>1, <1>5 DEF Cleaning
  <2> QED BY <1>2, <1>3, <1>5, <2>1, QuietStepsKeep
<1> QED BY <1>4, <1>5

(* So do the TTL                                                           *)
LEMMA ExpiriesKeep ==
  ASSUME Kept, Expire
  PROVE  Kept' /\ Honest'
<1>1. /\ entry' = NoEntry /\ kind' = kind /\ slot' = slot /\ faulty' = faulty
      /\ db' = db /\ job' = job /\ left' = left
  BY DEF Expire, fixed
<1>2. Shaped' /\ JobsSound' /\ Born'
  BY <1>1 DEF Kept, Shaped, JobsSound, Born, Active
<1>3. Holders'
  BY <1>1 DEF Kept, Holders, Executable, Live, Active
<1> QED BY <1>1, <1>2, <1>3, EmptyIsHonest DEF Kept

(* and a step that changes nothing.                                        *)
LEMMA StutteringKeeps ==
  ASSUME Kept, UNCHANGED vars
  PROVE  Kept' /\ (Honest => Honest')
<1>1. /\ entry' = entry /\ kind' = kind /\ slot' = slot /\ faulty' = faulty
      /\ db' = db /\ job' = job /\ left' = left
  BY DEF vars, fixed
<1>2. Shaped' /\ JobsSound' /\ Born'
  BY <1>1 DEF Kept, Shaped, JobsSound, Born, Active
<1>3. Holders'
  BY <1>1 DEF Kept, Holders, Executable, Live, Active
<1>4. View' = View /\ Stale' = Stale
  BY <1>1 DEF View, ListView, DetailView, InList, SeenBy, Live, Stale, Shows, TagsFollow
<1>5. \A w \in Workers : Viable(w)' <=> Viable(w)
  BY <1>1 DEF Viable, Promising, Active, Live
<1>6. Honest => Honest'
  BY <1>1, <1>4, <1>5 DEF Honest, Forgotten, Fresh, Overtaken, ShowsRows, Active
<1> QED BY <1>2, <1>3, <1>6 DEF Kept

-----------------------------------------------------------------------------
(* What a commit changes, and what it leaves alone.                        *)
LEMMA Effects ==
  ASSUME Shaped, JobsSound, NEW w \in Workers, Active(w), job[w].op \in Changing,
         db' = Effect(w)
  PROVE  LET op == job[w].op IN
         /\ db' \in Rows
         /\ op = "create" => db'.state = "live"
         /\ op = "delete" => db'.state = "deleted"
         /\ op \notin {"create", "delete"} => db'.state = db.state
         /\ op # "update" => db'.version = db.version
         /\ op # "duplicate" => db'.copies = db.copies
         /\ op \notin {"delete"} \cup OfTags => db'.tags = db.tags
         /\ op \notin {"delete"} \cup OfFavorites => db'.favorite = db.favorite
         /\ op \notin {"create", "delete"} \cup OfMembers => db'.members = db.members
         /\ op = "setPermission" => db'.members[Viewer] # NoRole
<1> DEFINE j == job[w]
           op == j.op
<1>1. /\ db \in Rows /\ j.who \in Users /\ j.role \in Levels \cup {NoRole}
      /\ op = "setPermission" => j.role # NoRole /\ j.who = Viewer
  BY DEF Shaped, JobsSound, Sound, Active, Jobs
<1>2. /\ j.who \in Principals /\ Viewer \in Principals
      /\ "ADMIN" \in Levels \cup {NoRole} /\ NoRole \in Levels \cup {NoRole}
  BY <1>1, ResourceConstants DEF Principals, Levels
<1> HIDE DEF j, op
<1>3. ASSUME NEW role \in Levels \cup {NoRole}, NEW u \in Principals
      PROVE  /\ [db.members EXCEPT ![u] = role] \in Members
             /\ [db.members EXCEPT ![u] = role][u] = role
  BY <1>1, <1>3 DEF Rows, Members
<1>4. CASE op = "create"
  <2> DEFINE role == IF Owned THEN "ADMIN" ELSE NoRole
             members == [db.members EXCEPT ![j.who] = role]
  <2>1. db' = [db EXCEPT !.state = "live", !.members = members]
    BY <1>4 DEF Effect, j, op, OfFavorites
  <2>2. members \in Members
    BY <1>2, <1>3
  <2> HIDE DEF members
  <2>3. db' \in Rows /\ db'.state = "live"
    BY <1>1, <2>1, <2>2 DEF Rows, States
  <2>4. /\ db'.version = db.version /\ db'.copies = db.copies /\ db'.tags = db.tags
        /\ db'.favorite = db.favorite
    BY <1>1, <2>1 DEF Rows
  <2> QED BY <1>4, <2>3, <2>4 DEF j, op
<1>5. CASE op = "update"
  <2>1. db' = [db EXCEPT !.version = db.version + 1]
    BY <1>5 DEF Effect, j, op, OfFavorites
  <2> QED BY <1>1, <1>5, <2>1 DEF Rows, j, op, OfTags, OfFavorites, OfMembers
<1>6. CASE op = "delete"
  <2>1. db' = [db EXCEPT !.state = "deleted", !.members = [p \in Principals |-> NoRole],
                         !.tags = {}, !.favorite = FALSE]
    BY <1>6 DEF Effect, j, op, OfFavorites
  <2>2. [p \in Principals |-> NoRole] \in Members
    BY DEF Members
  <2> QED BY <1>1, <1>6, <2>1, <2>2 DEF Rows, States, j, op, OfTags, OfFavorites, OfMembers
<1>7. CASE op = "duplicate"
  <2>1. db' = [db EXCEPT !.copies = db.copies \cup {j.who}]
    BY <1>7 DEF Effect, j, op, OfFavorites
  <2> QED BY <1>1, <1>7, <2>1 DEF Rows, j, op, OfTags, OfFavorites, OfMembers
<1>8. CASE op = "setPermission"
  <2> DEFINE members == [db.members EXCEPT ![j.who] = j.role]
  <2>1. db' = [db EXCEPT !.members = members]
    BY <1>8 DEF Effect, j, op, OfFavorites
  <2>2. members \in Members /\ members[Viewer] = j.role
    BY <1>1, <1>2, <1>3, <1>8
  <2> HIDE DEF members
  <2> QED BY <1>1, <1>8, <2>1, <2>2 DEF Rows, j, op, OfTags, OfFavorites, OfMembers
<1>9. CASE op = "deletePermission"
  <2> DEFINE members == [db.members EXCEPT ![j.who] = NoRole]
  <2>1. db' = [db EXCEPT !.members = members]
    BY <1>9 DEF Effect, j, op, OfFavorites
  <2>2. members \in Members
    BY <1>2, <1>3
  <2> HIDE DEF members
  <2> QED BY <1>1, <1>9, <2>1, <2>2 DEF Rows, j, op, OfTags, OfFavorites, OfMembers
<1>10. CASE op = "setTags"
  <2>1. db' = [db EXCEPT !.tags = {"tag"}]
    BY <1>10 DEF Effect, j, op, OfFavorites
  <2> QED BY <1>1, <1>10, <2>1 DEF Rows, j, op, OfTags, OfFavorites, OfMembers
<1>11. CASE op = "deleteTags"
  <2>1. db' = [db EXCEPT !.tags = {}]
    BY <1>11 DEF Effect, j, op, OfFavorites
  <2> QED BY <1>1, <1>11, <2>1 DEF Rows, j, op, OfTags, OfFavorites, OfMembers
<1>12. CASE op \in OfFavorites
  <2>1. \E b \in BOOLEAN : db' = [db EXCEPT !.favorite = b]
    BY <1>12 DEF Effect, j, op, OfFavorites
  <2> QED BY <1>1, <1>12, <2>1 DEF Rows, j, op, OfTags, OfFavorites, OfMembers
<1> QED
  BY <1>4, <1>5, <1>6, <1>7, <1>8, <1>9, <1>10, <1>11, <1>12 DEF Changing, j, op

-----------------------------------------------------------------------------
(* A commit that is refused.                                               *)
LEMMA RefusedCommitsKeep ==
  ASSUME Kept, NEW w \in Workers, At(w, "commit"), UNCHANGED <<fixed, db, entry, left>>,
         Become(w, [job[w] EXCEPT !.todo = <<>>, !.holds = FALSE, !.failed = TRUE])
  PROVE  Kept' /\ (Honest => Honest')
<1> DEFINE j == job[w]
           q == [j EXCEPT !.todo = <<>>, !.holds = FALSE, !.failed = TRUE]
<1>1. /\ Active(w) /\ j.todo # <<>> /\ j.todo[1] = "commit"
      /\ j \in Jobs(slot) /\ Sound(kind, slot, j)
  BY HeadsFirst DEF Kept, Shaped, JobsSound, Active
<1>2. ~Viable(w)
  BY <1>1, ViableSteps DEF Kept, WipeSteps
<1>3. /\ q \in Jobs(slot) /\ SameRequest(j, q) /\ q.todo = <<>> /\ q.changed = j.changed
      /\ ~q.holds
  <2> HIDE DEF j
  <2>1. <<>> \in Seq(Steps)
    OBVIOUS
  <2> QED BY <1>1, <2>1 DEF Jobs, SameRequest
<1>4. job' = [job EXCEPT ![w] = q]
  BY DEF Become
<1> HIDE DEF q
<1>5. Sound(kind, slot, q)
  BY <1>1, <1>3, EndsStaySound
<1>6. ~Has(q.todo, "commit")
  BY <1>3 DEF Has
<1>7. Quietly(w, q)
  BY <1>2, <1>3, <1>4, <1>5, <1>6 DEF Quietly, Steadily, SameRequest
<1> QED BY <1>1, <1>7, QuietStepsKeep

(* A change that is committed.                                             *)
Commits(w) ==
  /\ At(w, "commit")
  /\ job[w].holds \/ ~Locked
  /\ job[w].holds \/ Executable(job[w].op)
  /\ db' = Effect(w)
  /\ Become(w, IF Advanced(w) = NoJob THEN NoJob
               ELSE [Advanced(w) EXCEPT !.holds = FALSE, !.changed = TRUE])
  /\ UNCHANGED <<fixed, entry, left>>

(* Who commits could execute the statement when it was sent, and still     *)
(* can.                                                                    *)
LEMMA CommitsAre ==
  ASSUME Kept, NEW w \in Workers, Commits(w)
  PROVE  /\ Active(w) /\ ~Viable(w) /\ job[w] \in Jobs(slot) /\ Sound(kind, slot, job[w])
         /\ job[w].todo \in Seq(Steps) /\ job[w].todo # <<>> /\ job[w].todo[1] = "commit"
         /\ job[w].op \in Changing /\ Executable(job[w].op)
         /\ (db.state = "none" <=> job[w].op = "create")
         /\ kind' = kind /\ slot' = slot /\ faulty' = faulty /\ entry' = entry /\ left' = left
<1>1. /\ Active(w) /\ job[w].todo # <<>> /\ job[w].todo[1] = "commit"
      /\ job[w] \in Jobs(slot) /\ Sound(kind, slot, job[w]) /\ job[w].todo \in Seq(Steps)
  BY HeadsFirst DEF Commits, Kept, Shaped, JobsSound, Active, Jobs
<1>2. ~Viable(w)
  BY <1>1, ViableSteps DEF Kept, WipeSteps
<1>3. job[w].op \in Changing
  BY <1>1, TailsStayOrderly DEF Sound
<1>4. Executable(job[w].op)
  BY <1>1 DEF Commits, Kept, Holders
<1>5. job[w].op = "create" => db.state = "none"
  BY <1>4 DEF Executable
<1>6. db.state = "none" => job[w].op = "create"
  BY <1>1, <1>3 DEF Kept, Born, Changing, OfFavorites
<1> QED BY <1>1, <1>2, <1>3, <1>4, <1>5, <1>6 DEF Commits, fixed

(* The committer goes on, and nobody holds the lock.                       *)
LEMMA CommitsKeep ==
  ASSUME Kept, NEW w \in Workers, Commits(w)
  PROVE  /\ Kept' /\ \A v \in Workers \ {w} : job'[v] = job[v]
         /\ Active(w)' => /\ job'[w].op = job[w].op /\ job'[w].changed
                          /\ job'[w].todo = Tail(job[w].todo)
         /\ Tail(job[w].todo) # <<>> => Active(w)'
<1> DEFINE j == job[w]
           t == Tail(j.todo)
<1>1. /\ Active(w) /\ j \in Jobs(slot) /\ Sound(kind, slot, j) /\ j.todo \in Seq(Steps)
      /\ j.todo # <<>> /\ j.todo[1] = "commit" /\ j.op \in Changing
      /\ kind' = kind /\ slot' = slot /\ faulty' = faulty /\ left' = left /\ entry' = entry
      /\ Shaped /\ JobsSound
  BY CommitsAre DEF Kept
<1>2. PICK q : /\ job' = [job EXCEPT ![w] = q]
               /\ t = <<>> => q = NoJob
               /\ t # <<>> => /\ q \in Jobs(slot) /\ Sound(kind, slot, q) /\ q # NoJob
                              /\ q.todo = t /\ q.op = j.op /\ q.changed /\ ~q.holds
  <2>1. CASE t = <<>>
    <3>1. Advanced(w) = NoJob
      BY <1>1, <2>1, AdvancedIs
    <3>2. job' = [job EXCEPT ![w] = NoJob]
      BY <3>1 DEF Commits, Become
    <3> QED BY <2>1, <3>2
  <2>2. CASE t # <<>>
    <3> DEFINE a == Advanced(w)
               q == [a EXCEPT !.holds = FALSE, !.changed = TRUE]
    <3>1. /\ a \in Jobs(slot) /\ a.todo = t /\ SameRequest(j, a) /\ a.failed = j.failed
      BY <1>1, <2>2, AdvancedIs
    <3>2. NoJob \notin Jobs(slot)
      BY <1>1, ResourceConstants DEF Shaped
    <3>3. job' = [job EXCEPT ![w] = q]
      BY <3>1, <3>2 DEF Commits, Become
    <3> HIDE DEF a
    <3>4. /\ q \in Jobs(slot) /\ q.todo = t /\ SameRequest(j, q) /\ q.failed = j.failed
          /\ q.changed /\ ~q.holds
      <4> HIDE DEF j, t
      <4> QED BY <3>1 DEF Jobs, SameRequest
    <3> HIDE DEF q
    <3>5. Sound(kind, slot, q)
      BY <1>1, <3>4, StepsStaySound
    <3> QED BY <2>2, <3>2, <3>3, <3>4, <3>5 DEF SameRequest
  <2> QED BY <2>1, <2>2
<1> HIDE DEF t
<1>3. /\ job' \in [Workers -> Jobs(slot') \cup {NoJob}] /\ JobsSound'
      /\ job'[w] = q /\ \A v \in Workers \ {w} : job'[v] = job[v]
  BY <1>1, <1>2, JobsStaySound DEF fixed
<1>4. /\ db' \in Rows
      /\ j.op = "create" => db'.state = "live"
      /\ j.op = "delete" => db'.state = "deleted"
      /\ j.op \notin {"create", "delete"} => db'.state = db.state
  BY <1>1, Effects DEF Commits
<1>5. Shaped'
  BY <1>1, <1>3, <1>4 DEF Shaped
<1>6. ASSUME NEW v \in Workers, Active(v)', job'[v].holds
      PROVE  FALSE
  <2>1. v # w
    BY <1>2, <1>3, <1>6 DEF Active
  <2>2. Active(v) /\ job[v].holds
    BY <1>3, <1>6, <2>1 DEF Active
  <2> QED BY <1>1, <2>1, <2>2 DEF Commits, Kept, Holders, Locked
<1>7. Holders'
  BY <1>6 DEF Holders
<1>8. db'.state # "none"
  BY <1>4, CommitsAre
<1>9. Born'
  BY <1>8 DEF Born
<1> QED BY <1>2, <1>3, <1>5, <1>7, <1>9 DEF Kept, Active, t

(* A change that is none of the watched answer's.                          *)
Beside(op) ==
  /\ op # "delete"
  /\ \/ ~Matters(kind, op, slot)
     \/ slot \in {"list", "detail", "permissions"} /\ op \in OfTags \cup OfFavorites

(* A change beside the entry takes from nobody the DEL that is to come,    *)
LEMMA OthersStayViable ==
  ASSUME Kept, NEW w \in Workers, Commits(w), Beside(job[w].op), NEW v \in Workers, Viable(v)
  PROVE  Viable(v)'
<1> DEFINE op == job[w].op
<1>1. /\ Active(w) /\ ~Viable(w) /\ op \in Changing /\ (db.state = "none" <=> op = "create")
      /\ kind' = kind /\ slot' = slot
  BY CommitsAre
<1>2. /\ Active(v) /\ job[v].changed /\ Matters(kind, job[v].op, slot)
      /\ Cleans(kind, slot, job[v].todo) /\ job[v].todo # <<>>
      /\ job[v].todo[1] = "refetch" => Live
      /\ job[v].todo[1] = "reread" => db.members[Viewer] # NoRole
  BY ViableSteps DEF Viable, Promising, Kept
<1>3. v # w /\ job'[v] = job[v]
  BY <1>1, CommitsKeep
<1>4. op # "create"
  BY <1>1, <1>2 DEF Kept, Born
<1>5. /\ db'.state = db.state
      /\ op \notin OfMembers => db'.members = db.members
  BY <1>1, <1>4, Effects DEF Commits, Kept, Beside
<1>6. ASSUME job[v].todo[1] = "reread"
      PROVE  db'.members[Viewer] # NoRole
  <2>1. job[v].op = "setPermission"
    <3>1. /\ Sound(kind, slot, job[v]) /\ job[v].todo \in Seq(Steps)
      BY <1>2 DEF Kept, Shaped, JobsSound, Active, Jobs
    <3>2. Committed(job[v].op, job[v].todo)
      BY <1>2, <3>1 DEF Sound
    <3>3. 1 \in DOMAIN job[v].todo
      BY <1>2, <3>1, Tails
    <3> QED BY <1>6, <3>2, <3>3 DEF Committed
  <2>2. slot \in {"list", "permissions"}
    BY <1>2, <2>1 DEF Matters, OfTags, OfFavorites
  <2>3. op \notin OfMembers
    BY <2>2 DEF Beside, Matters, OfMembers, OfTags, OfFavorites
  <2> QED BY <1>2, <1>5, <1>6, <2>3
<1>7. Live => Live'
  BY <1>5 DEF Live
<1> QED BY <1>1, <1>2, <1>3, <1>6, <1>7 DEF Viable, Promising, Active

(* and from the entry nothing that it shows.                               *)
LEMMA AnswersStay ==
  ASSUME Kept, NEW w \in Workers, Commits(w), Beside(job[w].op), entry # NoEntry,
         kind = "tenants" => slot # "detail"
  PROVE  /\ View.rows' = View.rows
         /\ ~Matters(kind, job[w].op, slot) /\ TagsFollow => View.tags' = View.tags
<1> DEFINE op == job[w].op
<1>1. /\ Active(w) /\ op \in Changing /\ (db.state = "none" <=> op = "create")
      /\ kind' = kind /\ slot' = slot /\ slot \in Slots
  BY CommitsAre, ResourceConstants DEF Kept, Shaped
<1>2. /\ op \notin {"create", "delete"} => db'.state = db.state
      /\ op # "update" => db'.version = db.version
      /\ op # "duplicate" => db'.copies = db.copies
      /\ op \notin {"delete"} \cup OfTags => db'.tags = db.tags
      /\ op \notin {"delete"} \cup OfFavorites => db'.favorite = db.favorite
      /\ op \notin {"create", "delete"} \cup OfMembers => db'.members = db.members
  BY <1>1, Effects DEF Commits, Kept
<1>3. op = "create" => slot \in {"list", "favorites"}
  BY <1>1 DEF Kept, Born
<1>4. op # "delete"
  BY DEF Beside
<1>5. CASE slot = "list"
  <2>1. op \in OfTags \cup OfFavorites
    BY <1>1, <1>4, <1>5 DEF Beside, Matters, OfMembers, OfTags, Changing
  <2>2. /\ db'.state = db.state /\ db'.version = db.version /\ db'.copies = db.copies
        /\ db'.members = db.members
    BY <1>2, <2>1 DEF OfTags, OfFavorites, OfMembers
  <2> QED BY <1>1, <1>5, <2>2 DEF View, ListView, InList, Live, SeenBy, TagsFollow
<1>6. CASE slot = "detail"
  <2>1. op \notin {"create", "update"} /\ db'.state = db.state /\ db'.version = db.version
    BY <1>2, <1>3, <1>4, <1>6 DEF Beside, Matters, OfTags, OfFavorites
  <2>2. ~Matters(kind, op, slot) /\ kind # "ai_models" => db'.tags = db.tags
    BY <1>2, <1>4, <1>6 DEF Matters
  <2> QED BY <1>1, <1>6, <2>1, <2>2 DEF View, DetailView, TagsFollow
<1>7. CASE slot = "permissions"
  <2>1. op \notin OfMembers
    BY <1>4, <1>7 DEF Beside, Matters, OfTags, OfFavorites, OfMembers
  <2>2. db'.members = db.members
    BY <1>2, <1>3, <1>4, <1>7, <2>1
  <2> QED BY <1>1, <1>7, <2>2 DEF View
<1>8. CASE slot = "tags"
  <2>1. db'.tags = db.tags
    BY <1>2, <1>4, <1>8 DEF Beside, Matters
  <2> QED BY <1>1, <1>8, <2>1 DEF View
<1>9. CASE slot = "favorites"
  <2>1. db'.favorite = db.favorite
    BY <1>2, <1>4, <1>9 DEF Beside, Matters
  <2> QED BY <1>1, <1>9, <2>1 DEF View
<1> QED BY <1>1, <1>5, <1>6, <1>7, <1>8, <1>9 DEF Slots

(* Whoever has committed what the entry shows, and has it still to delete. *)
LEMMA CommitsAreViable ==
  ASSUME Kept, NEW w \in Workers, Commits(w), Matters(kind, job[w].op, slot),
         Cleans(kind, slot, Tail(job[w].todo))
  PROVE  Viable(w)'
<1> DEFINE op == job[w].op
           t == Tail(job[w].todo)
<1>1. /\ Active(w) /\ op \in Changing /\ kind' = kind /\ slot' = slot
      /\ Executable(op) /\ job[w].todo \in Seq(Steps) /\ job[w].todo # <<>>
      /\ Sound(kind, slot, job[w]) /\ job[w].todo[1] = "commit"
  BY CommitsAre
<1>2. t # <<>> /\ t \in Seq(Steps) /\ 1 \in DOMAIN t
  BY <1>1, Tails DEF Cleans
<1>3. Active(w)' /\ job'[w].op = op /\ job'[w].changed /\ job'[w].todo = t
  BY <1>2, CommitsKeep
<1>4. Committed(op, t)
  BY <1>1, TailsStayOrderly DEF Sound
<1> HIDE DEF t
<1>5. t[1] = "refetch" => op \in {"create", "update"}
  BY <1>2, <1>4 DEF Committed
<1>6. t[1] = "reread" => op = "setPermission"
  BY <1>2, <1>4 DEF Committed
<1>7. /\ op = "create" => db'.state = "live"
      /\ op = "update" => db'.state = db.state
      /\ op = "setPermission" => db'.members[Viewer] # NoRole
  BY <1>1, Effects DEF Commits, Kept
<1>8. op = "update" => db.state = "live"
  BY <1>1 DEF Executable, Live
<1>9. t[1] = "refetch" => Live'
  BY <1>5, <1>7, <1>8 DEF Live
<1> QED BY <1>1, <1>3, <1>6, <1>7, <1>9 DEF Viable, Promising, t

(* A commit makes an entry stale only if its handler comes to delete it,   *)
(* or has deleted it before (and the entry was stored meanwhile).          *)
LEMMA CommitsStayHonest ==
  ASSUME Kept, Honest, NEW w \in Workers, Commits(w), kind = "tenants" => slot # "detail"
  PROVE  Honest'
<1> DEFINE op == job[w].op
           t == Tail(job[w].todo)
<1>1. /\ Active(w) /\ ~Viable(w) /\ op \in Changing /\ kind' = kind /\ slot' = slot
      /\ faulty' = faulty /\ entry' = entry /\ slot \in Slots
      /\ job[w].todo \in Seq(Steps) /\ job[w].todo # <<>> /\ job[w].todo[1] = "commit"
      /\ Sound(kind, slot, job[w]) /\ (db.state = "none" <=> op = "create")
  BY CommitsAre, ResourceConstants DEF Kept, Shaped
<1>2. /\ Kept' /\ \A v \in Workers \ {w} : job'[v] = job[v]
      /\ Active(w)' => job'[w].op = op /\ job'[w].changed /\ job'[w].todo = t
  BY CommitsKeep
<1> SUFFICES ASSUME ~faulty, Forgotten, Fresh, Overtaken, entry # NoEntry
             PROVE  Forgotten' /\ Fresh' /\ Overtaken'
  BY <1>1, EmptyIsHonest DEF Honest
<1>3. Forgotten'
  <2>1. ASSUME Active(w)'
        PROVE  ~Has(job'[w].todo, "commit")
    <3>1. Committed(op, t)
      BY <1>1, TailsStayOrderly DEF Sound
    <3> QED BY <1>2, <2>1, <3>1 DEF Committed, Has, WipeSteps
  <2> QED BY <1>1, <1>2, <2>1 DEF Forgotten, Active
<1>4. ASSUME Matters(kind, op, slot)
      PROVE  entry.raced \/ Viable(w)'
  <2>1. CASE Cleans(kind, slot, t)
    BY <1>4, <2>1, CommitsAreViable
  <2>2. CASE ~Cleans(kind, slot, t)
    <3>1. ~Cleans(kind, slot, job[w].todo)
      BY <1>1, <2>2, TailsStillClean DEF Cleaning, WipeSteps
    <3>2. Has(job[w].todo, "commit")
      BY <1>1, Tails DEF Has
    <3> QED BY <1>1, <1>4, <3>1, <3>2 DEF Forgotten
  <2> QED BY <2>1, <2>2
<1>5. op = "delete" => db'.state = "deleted"
  BY <1>1, Effects DEF Commits, Kept
<1>6. db.state = "deleted" => db'.state = "deleted"
  BY <1>1, <1>5, Effects DEF Commits, Kept
<1>7. Fresh'
  <2> SUFFICES ASSUME Stale'
               PROVE  entry.raced \/ \E v \in Workers : Viable(v)'
    BY <1>1 DEF Fresh
  <2>1. CASE Matters(kind, op, slot)
    BY <1>4, <2>1
  <2>2. CASE ~Matters(kind, op, slot)
    <3>1. op # "delete"
      BY <1>1, <1>5, <2>2 DEF Matters, Stale, Shows, Slots
    <3>2. Beside(op)
      BY <2>2, <3>1 DEF Beside
    <3>3. Stale
      <4>1. /\ View.rows' = View.rows
            /\ TagsFollow => View.tags' = View.tags
        BY <2>2, <3>2, AnswersStay
      <4> QED BY <1>1, <1>6, <4>1 DEF Stale, Shows, TagsFollow
    <3> QED BY <3>2, <3>3, OthersStayViable DEF Fresh
  <2> QED BY <2>1, <2>2
<1>8. Overtaken'
  <2> SUFFICES ASSUME kind \in CommitFirst, slot \in {"list", "detail", "permissions"},
                      ~ShowsRows(entry.view)'
               PROVE  entry.overtaken \/ \E v \in Workers : Viable(v)'
    BY <1>1 DEF Overtaken, ShowsRows
  <2>1. CASE Matters(kind, op, slot) /\ op \notin OfTags \cup OfFavorites
    <3>1. CleansInTime(kind, slot, job[w].todo)
      BY <1>1, <2>1 DEF Sound, CommitsFirst
    <3>2. Cleans(kind, slot, t)
      BY <1>1, <3>1, TailsStillClean
    <3> QED BY <2>1, <3>2, CommitsAreViable
  <2>2. CASE ~(Matters(kind, op, slot) /\ op \notin OfTags \cup OfFavorites)
    <3>1. op # "delete"
      <4>1. kind # "tenants"
        BY DEF CommitFirst
      <4> QED BY <1>1, <1>5, <2>2, <4>1 DEF Matters, ShowsRows, OfTags, OfFavorites
    <3>2. Beside(op)
      BY <2>2, <3>1 DEF Beside
    <3>3. View.rows' = View.rows
      BY <3>2, AnswersStay
    <3>4. ~ShowsRows(entry.view)
      BY <1>1, <1>6, <3>3 DEF ShowsRows
    <3> QED BY <3>2, <3>4, OthersStayViable DEF Overtaken
  <2> QED BY <2>1, <2>2
<1> QED BY <1>3, <1>7, <1>8

-----------------------------------------------------------------------------
(* A request begins with the program of its route.                         *)
LEMMA NewRequests ==
  ASSUME Kept, NEW w \in Workers, NEW u \in Users, NEW op \in DOMAIN Routes[kind],
         NEW role \in Grants \cup {NoRole}, Begin(w, u, op, role)
  PROVE  \E q \in Jobs(slot) :
           /\ job' = [job EXCEPT ![w] = q] /\ Sound(kind, slot, q)
           /\ q.op = op /\ ~q.changed /\ ~q.holds
           /\ Matters(kind, op, slot) => Cleans(kind, slot, q.todo)
<1> DEFINE p == Routes[kind][op].handler
           who == IF op \in {"create", "duplicate"} THEN u ELSE Viewer
           q == [op |-> op, role |-> role, who |-> who, todo |-> p, view |-> NoEntry,
                 raced |-> FALSE, holds |-> FALSE, changed |-> FALSE, failed |-> FALSE]
<1>1. kind \in DOMAIN Routes /\ slot \in Slots
  BY ResourceConstants DEF Kept, Shaped
<1>2. /\ Serves(op) /\ job' = [job EXCEPT ![w] = q]
      /\ op \in DOMAIN Readers => Readers[op] = slot
      /\ op = "setPermission" => role # NoRole
  BY DEF Begin, Become
<1>3. Planned(kind, op, p)
  BY <1>1, <1>2, EveryRoutePlanned DEF RoutesPlanned, Serves
<1>4. Fits(kind, op, p)
  BY <1>1, <1>3, PlannedFits
<1>5. who \in Users /\ role \in Levels \cup {NoRole}
      /\ (op \notin {"create", "duplicate"} => who = Viewer)
  BY ResourceConstants
<1> HIDE DEF p, who
<1>6. /\ q \in Jobs(slot) /\ q.op = op /\ q.role = role /\ q.who = who /\ q.todo = p
      /\ ~q.changed /\ ~q.holds /\ ~q.failed
  BY <1>4, <1>5 DEF Jobs, Fits
<1> HIDE DEF q
<1>7. Sound(kind, slot, q)
  BY <1>1, <1>2, <1>4, <1>5, <1>6 DEF Sound, Fits, Serves, p
<1>8. Matters(kind, op, slot) => Cleans(kind, slot, q.todo)
  BY <1>1, <1>4, <1>6 DEF Fits
<1> QED BY <1>2, <1>6, <1>7, <1>8

(* It changes nothing when it comes.                                       *)
LEMMA BeginningsKeep ==
  ASSUME Kept, NEW w \in Workers, NEW u \in Users, NEW op \in DOMAIN Routes[kind],
         NEW role \in Grants \cup {NoRole}, Begin(w, u, op, role)
  PROVE  Kept' /\ (Honest => Honest')
<1>1. PICK q \in Jobs(slot) :
        /\ job' = [job EXCEPT ![w] = q] /\ Sound(kind, slot, q)
        /\ q.op = op /\ ~q.changed /\ ~q.holds
        /\ Matters(kind, op, slot) => Cleans(kind, slot, q.todo)
  BY NewRequests
<1>2. /\ ~Active(w) /\ (db.state = "none" => op \in {"create", "list", "listFavorites"})
      /\ left' = (IF op \in Changing THEN left - 1 ELSE left) /\ left' >= 0
      /\ kind' = kind /\ slot' = slot /\ faulty' = faulty /\ db' = db /\ entry' = entry
  BY DEF Begin, fixed
<1>3. /\ job' \in [Workers -> Jobs(slot') \cup {NoJob}] /\ JobsSound'
      /\ job'[w] = q /\ \A v \in Workers \ {w} : job'[v] = job[v]
  BY <1>1, <1>2, JobsStaySound DEF Kept, fixed
<1>4. left' \in 0 .. MaxChanges
  BY <1>2, ResourceConstants DEF Kept, Shaped
<1>5. Shaped'
  BY <1>2, <1>3, <1>4 DEF Kept, Shaped
<1>6. \A v \in Workers : Active(v)' /\ job'[v].holds => v # w
  BY <1>1, <1>3 DEF Active
<1>7. Holders'
  BY <1>2, <1>3, <1>6 DEF Kept, Holders, Executable, Live, Active
<1>8. Born'
  BY <1>1, <1>2, <1>3 DEF Kept, Born, Active
<1>9. View' = View /\ Stale' = Stale
  BY <1>2 DEF View, ListView, DetailView, InList, SeenBy, Live, Stale, Shows, TagsFollow
<1>10. \A v \in Workers : Viable(v) => Viable(v)'
  BY <1>2, <1>3 DEF Viable, Promising, Active, Live
<1>11. Forgotten => Forgotten'
  BY <1>1, <1>2, <1>3 DEF Forgotten, Active
<1>12. Fresh => Fresh'
  BY <1>2, <1>9, <1>10 DEF Fresh
<1>13. Overtaken => Overtaken'
  BY <1>2, <1>9, <1>10 DEF Overtaken, ShowsRows
<1> QED BY <1>2, <1>3, <1>5, <1>7, <1>8, <1>11, <1>12, <1>13 DEF Kept, Honest

-----------------------------------------------------------------------------
(* The initial states,                                                     *)
LEMMA InitKeeps ==
  ASSUME Init
  PROVE  Kept /\ Honest
<1>1. /\ kind \in DOMAIN Watched /\ slot \in Watched[kind] /\ faulty \in BOOLEAN
      /\ entry = NoEntry /\ job = [w \in Workers |-> NoJob]
      /\ left = IF faulty THEN 1 ELSE MaxChanges
  BY DEF Init
<1>2. left \in 0 .. MaxChanges
  BY <1>1, ResourceConstants
<1>3. \A w \in Workers : ~Active(w)
  BY <1>1 DEF Active
<1>4. db \in Rows
  <2>1. PICK live \in BOOLEAN, role \in Levels \cup {NoRole} : db = Initially(live, role)
    BY ResourceConstants DEF Init
  <2> DEFINE members == [p \in Principals |-> IF p = Viewer THEN role ELSE NoRole]
  <2>2. members \in Members
    BY DEF Members
  <2>3. db = [state |-> IF live THEN "live" ELSE "none", version |-> 0, tags |-> {},
              copies |-> {}, favorite |-> FALSE, members |-> members]
    BY <2>1 DEF Initially
  <2> HIDE DEF members
  <2> QED BY <2>2, <2>3 DEF Rows, States
<1>5. Shaped
  BY <1>1, <1>2, <1>4 DEF Shaped
<1>6. JobsSound /\ Holders /\ Born
  BY <1>1, <1>3 DEF JobsSound, Holders, Born
<1>7. Honest
  BY <1>1 DEF Honest, Forgotten, Fresh, Stale, Overtaken
<1> QED BY <1>5, <1>6, <1>7 DEF Kept

(* and every step. (The detail of a tenant is the exception of README,     *)
(* deviations: invalidate_tenant_cache does not delete it.)                *)
LEMMA KeptStays ==
  ASSUME Kept, [Next]_vars
  PROVE  /\ Kept'
         /\ Honest /\ (kind = "tenants" => slot # "detail") => Honest'
<1>1. ASSUME NEW w \in Workers, Start(w)
      PROVE  Kept' /\ (Honest => Honest')
  <2>1. PICK u \in Users, op \in DOMAIN Routes[kind], role \in Grants \cup {NoRole} :
          Begin(w, u, op, role)
    BY <1>1 DEF Start
  <2> QED BY <2>1, BeginningsKeep
<1>2. ASSUME NEW w \in Workers,
             \/ Lookup(w) \/ Peek(w) \/ Find(w) \/ Read(w) \/ Validate(w) \/ Load(w)
             \/ Flush(w) \/ Refetch(w) \/ Reread(w) \/ Refuse(w) \/ Crash(w)
      PROVE  Kept' /\ (Honest => Honest')
  BY <1>2, QuietSteps, QuietStepsKeep
<1>3. ASSUME NEW w \in Workers, Fill(w)
      PROVE  Kept' /\ (Honest => Honest')
  BY <1>3, FillsKeep
<1>4. ASSUME NEW w \in Workers, Commit(w)
      PROVE  /\ Kept'
             /\ Honest /\ (kind = "tenants" => slot # "detail") => Honest'
  <2>1. CASE Commits(w)
    BY <2>1, CommitsKeep, CommitsStayHonest
  <2>2. CASE ~Commits(w)
    BY <1>4, <2>2, RefusedCommitsKeep DEF Commit, Commits
  <2> QED BY <2>1, <2>2
<1>5. ASSUME NEW w \in Workers, Wipe(w)
      PROVE  Kept' /\ (Honest => Honest')
  BY <1>5, WipesKeep
<1>6. CASE Expire
  BY <1>6, ExpiriesKeep
<1>7. CASE UNCHANGED vars
  BY <1>7, StutteringKeeps
<1> QED BY <1>1, <1>2, <1>3, <1>4, <1>5, <1>6, <1>7 DEF Next, Continue

-----------------------------------------------------------------------------
(* The inductive invariant holds in every reachable state, with faults and *)
(* without (the handlers of the nine kinds of resources).                  *)
THEOREM KeptAlways == Spec => []Kept
<1>1. Init => Kept
  BY InitKeeps
<1>2. Kept /\ [Next]_vars => Kept'
  BY KeptStays
<1> QED BY <1>1, <1>2, PTL DEF Spec

(* What is stored, in PostgreSQL and in Redis, is of the shape the code    *)
(* expects, and what was not found is never stored as a detail.            *)
THEOREM ResourcesTypeCorrect == Spec => []TypeOK
<1>1. ASSUME Kept
      PROVE  TypeOK
  <2>1. ASSUME NEW w \in Workers, Active(w)
        PROVE  /\ Serves(job[w].op)
               /\ job[w].todo # <<>> => ~job[w].failed
               /\ job[w].holds => "commit" \in Range(job[w].todo)
    <3>1. Sound(kind, slot, job[w]) /\ job[w].todo \in Seq(Steps)
      BY <1>1, <2>1 DEF Kept, Shaped, JobsSound, Active, Jobs
    <3>2. job[w].holds => Has(job[w].todo, "commit")
      BY <3>1 DEF Sound, ToCommit, Has
    <3>3. Has(job[w].todo, "commit") => "commit" \in Range(job[w].todo)
      BY DEF Has, Range
    <3> QED BY <3>1, <3>2, <3>3 DEF Sound, Serves
  <2> QED BY <1>1, <2>1 DEF Kept, Shaped, TypeOK
<1> QED BY <1>1, KeptAlways, PTL

(* So does what holds without faults.                                      *)
LEMMA HonestStays ==
  ASSUME "tenants" \in DOMAIN Watched => "detail" \notin Watched["tenants"]
  PROVE  Spec => [](Kept /\ Honest)
<1>1. Init => Kept /\ Honest
  BY InitKeeps
<1>2. Kept /\ Honest /\ [Next]_vars => (Kept /\ Honest)'
  <2>1. Kept => (kind = "tenants" => slot # "detail")
    BY DEF Kept, Shaped
  <2> QED BY <2>1, KeptStays
<1> QED BY <1>1, <1>2, PTL DEF Spec

(* A cached answer is out of date only while a change is being made, or    *)
(* because it was read or stored while one was: every handler that changes *)
(* what an answer shows deletes the key it is stored at.                   *)
THEOREM OutOfDateOnlyByRace ==
  ASSUME "tenants" \in DOMAIN Watched => "detail" \notin Watched["tenants"]
  PROVE  Spec => []StaleOnlyByRace
<1>1. ASSUME Kept, Honest
      PROVE  StaleOnlyByRace
  <2>1. ASSUME NEW w \in Workers, Viable(w)
        PROVE  Writing
    BY <1>1, <2>1, ViableSteps DEF Kept, Viable, Writing
  <2> QED BY <1>1, <2>1 DEF Honest, Fresh, StaleOnlyByRace
<1> QED BY <1>1, HonestStays, PTL

(* Where the commit comes before the DEL (all handlers but those of        *)
(* credentials and tenants), a reader was even overtaken, or the DEL is    *)
(* still to come.                                                          *)
THEOREM OutOfDateOnlyIfOvertaken ==
  ASSUME "tenants" \in DOMAIN Watched => "detail" \notin Watched["tenants"]
  PROVE  Spec => []StaleOnlyIfOvertaken
<1>1. ASSUME Kept, Honest
      PROVE  StaleOnlyIfOvertaken
  <2> SUFFICES ASSUME kind \in CommitFirst, Stale, ~DelFirst, ~faulty
               PROVE  entry.overtaken \/ WipePending
    BY DEF StaleOnlyIfOvertaken, CommittedIsSeen
  <2>1. /\ slot \in {"list", "detail", "permissions"} /\ entry # NoEntry
        /\ entry.view \in Answers(slot)
    BY <1>1, ResourceConstants DEF Kept, Shaped, DelFirst, Slots, Stale
  <2>2. ~ShowsRows(entry.view)
    <3>1. TagsFollow => entry.view.tags = View.tags
      <4>1. CASE slot = "permissions"
        BY <2>1, <4>1 DEF Answers, View
      <4> QED BY <2>1, <4>1 DEF TagsFollow, DelFirst
    <3> QED BY <2>1, <3>1 DEF ShowsRows, Stale, Shows
  <2>3. ASSUME NEW w \in Workers, Viable(w)
        PROVE  WipePending
    BY <2>3 DEF WipePending, Viable, Promising, Cleans, Cleaning
  <2> QED BY <1>1, <2>1, <2>2, <2>3 DEF Honest, Overtaken
<1> QED BY <1>1, HonestStays, PTL

(* What can make a request fail that has already changed something.        *)
LEMMA LateFailures ==
  ASSUME Kept, NEW w \in Workers, Active(w), job[w].changed, ~job[w].failed,
         [Next]_vars, Active(w)', job'[w].failed
  PROVE  db.state = "deleted" \/ (job[w].op = "setPermission" /\ db.members[Viewer] = NoRole)
<1> DEFINE j == job[w]
<1>1. /\ Shaped /\ j \in Jobs(slot) /\ Sound(kind, slot, j) /\ j.todo \in Seq(Steps)
      /\ job \in [Workers -> Jobs(slot) \cup {NoJob}]
  BY DEF Kept, Shaped, JobsSound, Active, Jobs
<1>2. Committed(j.op, j.todo)
  BY <1>1 DEF Sound
<1>3. ASSUME j.todo # <<>>
      PROVE  /\ j.todo[1] \in WipeSteps \cup {"load", "refetch", "reread"}
             /\ j.todo[1] = "reread" => j.op = "setPermission"
  BY <1>1, <1>2, <1>3, Tails DEF Committed
<1>4. Live \/ db.state = "deleted"
  BY <1>1 DEF Kept, Born, Live, Shaped, Rows, States
<1>5. ASSUME NEW step, At(w, step)
      PROVE  /\ j.todo # <<>> /\ step \in WipeSteps \cup {"load", "refetch", "reread"}
             /\ step = "reread" => j.op = "setPermission"
  BY <1>1, <1>3, <1>5, HeadsFirst
<1>6. ASSUME j.todo # <<>>, Advance(w)
      PROVE  FALSE
  <2>1. job'[w] = Advanced(w)
    BY <1>1, <1>6 DEF Advance, Become
  <2>2. Advanced(w) = NoJob \/ Advanced(w).failed = j.failed
    BY <1>1, <1>6, AdvancedIs
  <2> QED BY <2>1, <2>2 DEF Active
<1>7. ASSUME NEW v \in Workers, NEW q, job' = [job EXCEPT ![v] = q]
      PROVE  v = w
  BY <1>1, <1>7 DEF Active
<1>8. ASSUME UNCHANGED job
      PROVE  FALSE
  BY <1>8
<1>9. ASSUME NEW v \in Workers, Start(v) \/ Continue(v) \/ Crash(v)
      PROVE  v = w
  BY <1>7, <1>9
     DEF Start, Begin, Continue, Lookup, Peek, Find, Read, Fill, Validate, Load, Flush,
         Commit, Refetch, Reread, Wipe, Refuse, Crash, Advance, Fail, Become
<1>10. CASE Start(w)
  BY <1>10 DEF Start, Begin
<1>11. CASE Lookup(w) \/ Peek(w) \/ Find(w) \/ Read(w) \/ Fill(w) \/ Validate(w) \/ Flush(w)
            \/ Commit(w)
  BY <1>5, <1>11 DEF Lookup, Peek, Find, Read, Fill, Validate, Flush, Commit, WipeSteps
<1>12. CASE Load(w)
  BY <1>4, <1>5, <1>6, <1>12 DEF Load
<1>13. CASE Refetch(w)
  BY <1>4, <1>5, <1>6, <1>13 DEF Refetch
<1>14. CASE Reread(w)
  BY <1>5, <1>6, <1>14 DEF Reread
<1>15. CASE Wipe(w)
  BY <1>5, <1>6, <1>15 DEF Wipe
<1>16. CASE Refuse(w) \/ Crash(w)
  <2>1. job'[w] = NoJob
    BY <1>1, <1>16 DEF Refuse, Crash, Become
  <2> QED BY <2>1 DEF Active
<1>17. CASE Expire \/ UNCHANGED vars
  BY <1>8, <1>17 DEF Expire, vars
<1> QED
  BY <1>9, <1>10, <1>11, <1>12, <1>13, <1>14, <1>15, <1>16, <1>17 DEF Next, Continue

(* A request that comes to fail has changed nothing, unless what it        *)
(* changed has been taken away by another: the handlers' validations come  *)
(* before their commits.                                                   *)
THEOREM FailuresChangeNothing == Spec => RefusedChangesNothing
<1>1. Kept /\ [Next]_vars =>
        [\A w \in Workers :
           Active(w) /\ job[w].changed /\ job'[w] # NoJob /\ job'[w].failed =>
             \/ db.state = "deleted"
             \/ job[w].op = "setPermission" /\ db.members[Viewer] = NoRole
             \/ job[w].failed]_vars
  BY LateFailures DEF Active
<1> QED BY <1>1, KeptAlways, PTL DEF Spec, RefusedChangesNothing

-----------------------------------------------------------------------------
(* What the routes ask of a user, operation by operation, and what it      *)
(* comes to.                                                               *)
Reading == {"get", "listPermissions", "getPermission", "getTags"}
Rewriting == {"update", "setTags", "deleteTags"}
Administering == {"delete", "setPermission", "deletePermission"}
Served == DOMAIN Readers \cup Changing \cup {"getPermission"}
Guarded(op, g) ==
  \/ op = "list" /\ g = Authenticated
  \/ op = "create" /\ g = MayCreate
  \/ op \in OfFavorites \cup {"listFavorites"} /\ g = OwnFavorites
  \/ op \in Reading /\ g \in {MayRead, OnResource({"READ"})}
  \/ op \in Rewriting /\ g \in {MayWrite, OnResource({"WRITE"})}
  \/ op \in Administering /\ g = MayAdminister
  \/ op = "duplicate" /\ g = MayDuplicate
AllGuarded(routes) ==
  \A op \in DOMAIN routes : op \in Served => Guarded(op, routes[op].guard)

LevelsFor(op) ==
  IF op \in Reading THEN Levels
  ELSE IF op \in Administering THEN {"ADMIN"} ELSE {"WRITE", "ADMIN"}
Opens(op, u, member) ==
  IF op = "list" THEN TRUE
  ELSE \/ OrgRolesOf[u] \cap OrgBypassRoles # {}
       \/ IF op = "create" THEN TenantRolesOf[u] \cap MayCreate.required # {}
          ELSE IF op \in OfFavorites \cup {"listFavorites"} THEN u = Viewer
          ELSE IsAdmin(u) \/ \E p \in PrincipalIds(u) : member[p] \in LevelsFor(op)

(* The routes of each kind that may be granted are guarded alike.          *)
LEMMA WorkflowsGuarded == AllGuarded(WorkflowRoutes)
BY DEF AllGuarded, Guarded, Served, Readers, Changing, OfFavorites, Reading, Rewriting,
       Administering, Route, WorkflowRoutes, list_workflows, create_workflow,
       get_workflow, update_workflow, delete_workflow, duplicate_workflow,
       get_workflow_key, rotate_workflow_key, get_workflow_config_bearer,
       list_workflow_runs, get_workflow_run_detail, retry_workflow_run, start_workflow,
       list_workflow_permissions, get_workflow_permission, set_workflow_permission,
       delete_workflow_permission, get_workflow_tags, set_workflow_tags,
       delete_workflow_tags

(* Those of chat_agents,                                                   *)
LEMMA ChatAgentsGuarded == AllGuarded(ChatAgentRoutes)
BY DEF AllGuarded, Guarded, Served, Readers, Changing, OfFavorites, Reading, Rewriting,
       Administering, Route, ChatAgentRoutes, test_chat_agent_connection,
       list_chat_agents, create_chat_agent, get_chat_agent, update_chat_agent,
       delete_chat_agent, duplicate_chat_agent, get_chat_agent_config,
       list_chat_agent_permissions, get_chat_agent_permission,
       set_chat_agent_permission, delete_chat_agent_permission, get_chat_agent_tags,
       set_chat_agent_tags, delete_chat_agent_tags

(* of chat_widgets,                                                        *)
LEMMA ChatWidgetsGuarded == AllGuarded(ChatWidgetRoutes)
BY DEF AllGuarded, Guarded, Served, Readers, Changing, OfFavorites, Reading, Rewriting,
       Administering, Route, ChatWidgetRoutes, list_chat_widgets, create_chat_widget,
       get_chat_widget, update_chat_widget, delete_chat_widget, duplicate_chat_widget,
       list_chat_widget_permissions, get_chat_widget_permission,
       set_chat_widget_permission, delete_chat_widget_permission, get_chat_widget_tags,
       set_chat_widget_tags, delete_chat_widget_tags

(* of external_apps,                                                       *)
LEMMA ExternalAppsGuarded == AllGuarded(ExternalAppRoutes)
BY DEF AllGuarded, Guarded, Served, Readers, Changing, OfFavorites, Reading, Rewriting,
       Administering, Route, ExternalAppRoutes, list_external_apps, get_external_app,
       create_external_app, update_external_app, delete_external_app,
       list_external_app_permissions, get_external_app_permission,
       set_external_app_permission, delete_external_app_permission,
       get_external_app_tags, set_external_app_tags, delete_external_app_tags

(* of conversations,                                                       *)
LEMMA ConversationsGuarded == AllGuarded(ConversationRoutes)
BY DEF AllGuarded, Guarded, Served, Readers, Changing, OfFavorites, Reading, Rewriting,
       Administering, Route, ConversationRoutes, list_conversations,
       create_conversation, get_conversation, update_conversation, delete_conversation,
       list_conversation_permissions, get_conversation_permission,
       set_conversation_permission, delete_conversation_permission

(* of credentials,                                                         *)
LEMMA CredentialsGuarded == AllGuarded(CredentialRoutes)
BY DEF AllGuarded, Guarded, Served, Readers, Changing, OfFavorites, Reading, Rewriting,
       Administering, Route, CredentialRoutes, list_credentials, create_credential,
       get_credential, get_credential_secret, update_credential, delete_credential,
       test_credential_connection, list_credential_permissions,
       get_credential_permission, set_credential_permission,
       delete_credential_permission, get_credential_tags, set_credential_tags,
       delete_credential_tags

(* and of user_favorites.                                                  *)
LEMMA FavoritesGuarded == AllGuarded(FavoriteRoutes)
BY DEF AllGuarded, Guarded, Served, Readers, Changing, OfFavorites, Reading, Rewriting,
       Administering, Route, FavoriteRoutes, list_user_favorites, add_user_favorite,
       remove_user_favorite

(* So are they all, as one of Permissioned.                                *)
LEMMA EveryRouteGuarded ==
  ASSUME NEW k \in Permissioned
  PROVE  AllGuarded(Routes[k])
<1>1. ASSUME NEW routes, AllGuarded(routes)
      PROVE  AllGuarded(WithFavorites(routes))
  BY <1>1, FavoritesGuarded DEF AllGuarded, WithFavorites
<1>2. k \in {"workflows", "chat_agents", "chat_widgets", "external_apps", "conversations",
             "credentials"}
  BY DEF Permissioned, Unlisted, Routes
<1>3. CASE k = "workflows"
  BY <1>1, <1>3, WorkflowsGuarded DEF Routes
<1>4. CASE k = "chat_agents"
  BY <1>1, <1>4, ChatAgentsGuarded DEF Routes
<1>5. CASE k = "chat_widgets"
  BY <1>1, <1>5, ChatWidgetsGuarded DEF Routes
<1>6. CASE k = "external_apps"
  BY <1>1, <1>6, ExternalAppsGuarded DEF Routes
<1>7. CASE k = "conversations"
  BY <1>1, <1>7, ConversationsGuarded DEF Routes
<1>8. CASE k = "credentials"
  BY <1>8, CredentialsGuarded DEF Routes
<1> QED BY <1>2, <1>3, <1>4, <1>5, <1>6, <1>7, <1>8

(* What a guard asks comes to the same for every kind.                     *)
LEMMA GuardsOpen ==
  ASSUME NEW op, NEW route, Guarded(op, route.guard), NEW u \in Users, NEW member
  PROVE  Admits(route, u, member) <=> Opens(op, u, member)
<1> DEFINE g == route.guard
<1>1. CASE op = "list" /\ g = Authenticated
  BY <1>1 DEF Admits, Opens, Authenticated, Guard
<1>2. CASE op = "create" /\ g = MayCreate
  BY <1>2 DEF Admits, Opens, MayCreate, OnTenant, Guard
<1>3. CASE op \in OfFavorites \cup {"listFavorites"} /\ g = OwnFavorites
  BY <1>3 DEF Admits, Opens, OwnFavorites, Guard, OfFavorites
<1>4. ASSUME NEW required, g = OnResource(required),
             op \in Reading \cup Rewriting \cup Administering \cup {"duplicate"},
             AllowedRoles(required \cap Levels) = LevelsFor(op)
      PROVE  Admits(route, u, member) <=> Opens(op, u, member)
  <2>1. g.entity = "resource" /\ g.required = required
    BY <1>4 DEF OnResource, Guard
  <2>2. Admits(route, u, member) <=> CheckPermissions(u, required \cap Levels, member)
    BY <2>1 DEF Admits
  <2>3. op \notin {"list", "create", "listFavorites"} \cup OfFavorites
    BY <1>4 DEF Reading, Rewriting, Administering, OfFavorites
  <2> QED BY <1>4, <2>2, <2>3 DEF CheckPermissions, Opens
<1>5. CASE op \in Reading /\ g \in {MayRead, OnResource({"READ"})}
  <2>1. PICK required : g = OnResource(required) /\ "READ" \in required \cap Levels
    BY <1>5 DEF MayRead, Levels
  <2>2. AllowedRoles(required \cap Levels) = LevelsFor(op)
    BY <1>5, <2>1 DEF AllowedRoles, LevelsFor, Levels
  <2> QED BY <1>4, <1>5, <2>1, <2>2
<1>6. CASE op \in Rewriting /\ g \in {MayWrite, OnResource({"WRITE"})}
  <2>1. PICK required : /\ g = OnResource(required)
                        /\ "READ" \notin required \cap Levels /\ "WRITE" \in required \cap Levels
    BY <1>6 DEF MayWrite, Managers, Levels
  <2>2. AllowedRoles(required \cap Levels) = LevelsFor(op)
    BY <1>6, <2>1 DEF AllowedRoles, LevelsFor, Reading, Rewriting, Administering
  <2> QED BY <1>4, <1>6, <2>1, <2>2
<1>7. CASE op \in Administering /\ g = MayAdminister
  <2> DEFINE required == Managers \cup {"ADMIN"}
  <2>1. g = OnResource(required) /\ required \cap Levels = {"ADMIN"}
    BY <1>7 DEF MayAdminister, Managers, Levels
  <2>2. AllowedRoles(required \cap Levels) = LevelsFor(op)
    BY <1>7, <2>1 DEF AllowedRoles, LevelsFor, Reading, Administering
  <2> QED BY <1>4, <1>7, <2>1, <2>2
<1>8. CASE op = "duplicate" /\ g = MayDuplicate
  <2> DEFINE required == Managers \cup {"RESOURCE_CREATOR", "WRITE", "ADMIN"}
  <2>1. /\ g = OnResource(required)
        /\ "READ" \notin required \cap Levels /\ "WRITE" \in required \cap Levels
    BY <1>8 DEF MayDuplicate, Managers, Levels
  <2>2. AllowedRoles(required \cap Levels) = LevelsFor(op)
    BY <1>8, <2>1 DEF AllowedRoles, LevelsFor, Reading, Administering
  <2> QED BY <1>4, <1>8, <2>1, <2>2
<1> QED BY <1>1, <1>2, <1>3, <1>5, <1>6, <1>7, <1>8 DEF Guarded

(* What is open to a role of the user's own is open to a higher one.       *)
LEMMA HigherOpensMore ==
  ASSUME NEW op, NEW u \in Users, NEW m \in Members, NEW role \in Levels \cup {NoRole},
         NEW higher \in Levels, Hierarchy(role) <= Hierarchy(higher),
         Opens(op, u, [m EXCEPT ![u] = role])
  PROVE  Opens(op, u, [m EXCEPT ![u] = higher])
<1>1. role \in LevelsFor(op) => higher \in LevelsFor(op)
  <2>1. LevelsFor(op) \in {Levels, {"ADMIN"}, {"WRITE", "ADMIN"}}
    BY DEF LevelsFor
  <2>2. role \in Levels => role \in {"READ", "WRITE", "ADMIN"}
    BY DEF Levels
  <2>3. CASE role \in Levels
    BY <2>1, <2>2, <2>3 DEF Hierarchy, Levels
  <2>4. CASE role = NoRole
    BY <2>1, <2>4, AccessConstants DEF Levels
  <2> QED BY <2>3, <2>4
<1>2. PrincipalIds(u) \subseteq Principals
  BY AccessConstants DEF PrincipalIds, Principals
<1>3. ASSUME NEW p \in PrincipalIds(u), [m EXCEPT ![u] = role][p] \in LevelsFor(op)
      PROVE  [m EXCEPT ![u] = higher][p] \in LevelsFor(op)
  BY <1>1, <1>2, <1>3 DEF Members
<1> QED BY <1>3 DEF Opens

(* A role on a resource means the same for every kind: the same operations *)
(* are open to it, and those that are open to a role are open to a higher  *)
(* one.                                                                    *)
THEOREM RoutesAlwaysAgree == Spec => []RoutesAgree
<1>1. ASSUME Kept
      PROVE  RoutesAgree
  <2> SUFFICES ASSUME kind \in Permissioned, NEW k \in Permissioned, NEW u \in Users,
                      NEW role \in Levels \cup {NoRole}, NEW op \in DOMAIN Routes[k], Serves(op)
               PROVE  /\ OpenTo(k, op, u, role) <=> OpenTo(kind, op, u, role)
                      /\ OpenTo(k, op, u, role) =>
                           \A higher \in Levels :
                             Hierarchy(role) <= Hierarchy(higher) => OpenTo(k, op, u, higher)
    BY DEF RoutesAgree
  <2>1. kind \in DOMAIN Routes /\ op \in DOMAIN Routes[kind] /\ op \in Served
    BY EveryRoutePlanned DEF Permissioned, Serves, Planned, Served
  <2>2. Guarded(op, Routes[k][op].guard) /\ Guarded(op, Routes[kind][op].guard)
    BY <2>1, EveryRouteGuarded DEF AllGuarded
  <2>3. \A r \in Levels \cup {NoRole} :
          /\ OpenTo(k, op, u, r) <=> Opens(op, u, [db.members EXCEPT ![u] = r])
          /\ OpenTo(kind, op, u, r) <=> Opens(op, u, [db.members EXCEPT ![u] = r])
    BY <2>2, GuardsOpen DEF OpenTo
  <2>4. db.members \in Members
    BY <1>1 DEF Kept, Shaped, Rows
  <2> QED BY <2>3, <2>4, HigherOpensMore
<1> QED BY <1>1, KeptAlways, PTL
===============================================================================
