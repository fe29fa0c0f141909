---------------------------- MODULE ResourceRoutes ----------------------------
(***************************************************************************)
(* The routes of the tenant's resources: who is admitted, and the handler  *)
(* that serves the request.  Of the tenant's roles RESOURCE_ADMIN stands   *)
(* for the kind's own (WORKFLOWS_ADMIN, ...), RESOURCE_CREATOR likewise.   *)
(* A route of Elsewhere changes none of the rows and entries seen here: it *)
(* reads and calls other systems, or is in WorkflowKeys or TenantAccess.   *)
(***************************************************************************)
EXTENDS ResourceHandlers

Route(guard, handler) == [guard |-> guard, handler |-> handler]
Elsewhere == <<>>

(* The arguments of check_permissions.                                     *)
Guard(entity, required) == [entity |-> entity, required |-> required]
Authenticated == Guard("none", {})
OnTenant(required) == Guard("tenant", required)
OnResource(required) == Guard("resource", required)

MayGovern == OnTenant({"TENANT_GLOBAL_ADMIN"})
MayManage == OnTenant({"TENANT_GLOBAL_ADMIN", "RESOURCE_ADMIN"})
MayCreate == OnTenant({"TENANT_GLOBAL_ADMIN", "RESOURCE_ADMIN", "RESOURCE_CREATOR"})
Managers == {"TENANT_GLOBAL_ADMIN", "RESOURCE_ADMIN"}
MayRead == OnResource(Managers \cup {"READ", "WRITE", "ADMIN"})
MayWrite == OnResource(Managers \cup {"WRITE", "ADMIN"})
MayAdminister == OnResource(Managers \cup {"ADMIN"})
OwnFavorites == Guard("user_favorite", {"IS_CREATOR"})
MayDuplicate == OnResource(Managers \cup {"RESOURCE_CREATOR", "WRITE", "ADMIN"})

-----------------------------------------------------------------------------
(* workflows                                                               *)
list_workflows == Route(Authenticated, ListWorkflows)
create_workflow == Route(MayCreate, CreateWorkflow)
get_workflow == Route(MayRead, GetWorkflow)
update_workflow == Route(MayWrite, UpdateWorkflow)
delete_workflow == Route(MayAdminister, DeleteWorkflow)
duplicate_workflow == Route(MayDuplicate, DuplicateWorkflow)
get_workflow_key == Route(MayWrite, Elsewhere)
rotate_workflow_key == Route(MayWrite, Elsewhere)
get_workflow_config_bearer == Route(MayWrite, Elsewhere)
list_workflow_runs == Route(MayWrite, Elsewhere)
get_workflow_run_detail == Route(MayWrite, Elsewhere)
retry_workflow_run == Route(MayWrite, Elsewhere)
start_workflow == Route(MayWrite, Elsewhere)
list_workflow_permissions == Route(MayRead, ListWorkflowPermissions)
get_workflow_permission == Route(MayRead, GetWorkflowPermission)
set_workflow_permission == Route(MayAdminister, SetWorkflowPermission)
delete_workflow_permission == Route(MayAdminister, DeleteWorkflowPermission)
get_workflow_tags == Route(MayRead, GetResourceTags)
set_workflow_tags == Route(MayWrite, SetResourceTags)
delete_workflow_tags == Route(MayWrite, DeleteResourceTags)
WorkflowRoutes ==
  [list |-> list_workflows, create |-> create_workflow, get |-> get_workflow,
   update |-> update_workflow, delete |-> delete_workflow,
   duplicate |-> duplicate_workflow, key |-> get_workflow_key,
   rotate |-> rotate_workflow_key, config |-> get_workflow_config_bearer,
   runs |-> list_workflow_runs, run |-> get_workflow_run_detail,
   retry |-> retry_workflow_run, start |-> start_workflow,
   listPermissions |-> list_workflow_permissions,
   getPermission |-> get_workflow_permission,
   setPermission |-> set_workflow_permission,
   deletePermission |-> delete_workflow_permission,
   getTags |-> get_workflow_tags, setTags |-> set_workflow_tags,
   deleteTags |-> delete_workflow_tags]

(* chat_agents.  Listing and getting permissions is open to READ.  The     *)
(* docstrings say ADMIN here and for chat widgets, credentials and         *)
(* conversations, READ for workflows.                                      *)
test_chat_agent_connection == Route(MayCreate, Elsewhere)
list_chat_agents == Route(Authenticated, ListChatAgents)
create_chat_agent == Route(MayCreate, CreateChatAgent)
get_chat_agent == Route(MayRead, GetChatAgent)
update_chat_agent == Route(MayWrite, UpdateChatAgent)
(* Mutated: whoever may change it may delete it.                           *)
delete_chat_agent_by_writers == Route(MayWrite, DeleteChatAgent)
delete_chat_agent == Route(MayAdminister, DeleteChatAgent)
duplicate_chat_agent == Route(MayDuplicate, DuplicateChatAgent)
get_chat_agent_config == Route(MayRead, Elsewhere)
list_chat_agent_permissions == Route(MayRead, ListChatAgentPermissions)
get_chat_agent_permission == Route(MayRead, GetChatAgentPermission)
set_chat_agent_permission == Route(MayAdminister, SetChatAgentPermission)
delete_chat_agent_permission == Route(MayAdminister, DeleteChatAgentPermission)
get_chat_agent_tags == Route(MayRead, GetResourceTags)
set_chat_agent_tags == Route(MayWrite, SetResourceTags)
delete_chat_agent_tags == Route(MayWrite, DeleteResourceTags)
ChatAgentRoutes ==
  [test |-> test_chat_agent_connection, list |-> list_chat_agents,
   create |-> create_chat_agent, get |-> get_chat_agent,
   update |-> update_chat_agent, delete |-> delete_chat_agent,
   duplicate |-> duplicate_chat_agent, config |-> get_chat_agent_config,
   listPermissions |-> list_chat_agent_permissions,
   getPermission |-> get_chat_agent_permission,
   setPermission |-> set_chat_agent_permission,
   deletePermission |-> delete_chat_agent_permission,
   getTags |-> get_chat_agent_tags, setTags |-> set_chat_agent_tags,
   deleteTags |-> delete_chat_agent_tags]

(* chat_widgets                                                            *)
list_chat_widgets == Route(Authenticated, ListChatWidgets)
create_chat_widget == Route(MayCreate, CreateChatWidget)
get_chat_widget == Route(MayRead, GetChatWidget)
update_chat_widget == Route(MayWrite, UpdateChatWidget)
delete_chat_widget == Route(MayAdminister, DeleteChatWidget)
duplicate_chat_widget == Route(MayDuplicate, DuplicateChatWidget)
list_chat_widget_permissions == Route(MayRead, ListChatWidgetPermissions)
get_chat_widget_permission == Route(MayRead, GetChatWidgetPermission)
set_chat_widget_permission == Route(MayAdminister, SetChatWidgetPermission)
delete_chat_widget_permission == Route(MayAdminister, DeleteChatWidgetPermission)
get_chat_widget_tags == Route(MayRead, GetResourceTags)
set_chat_widget_tags == Route(MayWrite, SetResourceTags)
delete_chat_widget_tags == Route(MayWrite, DeleteResourceTags)
ChatWidgetRoutes ==
  [list |-> list_chat_widgets, create |-> create_chat_widget,
   get |-> get_chat_widget, update |-> update_chat_widget,
   delete |-> delete_chat_widget, duplicate |-> duplicate_chat_widget,
   listPermissions |-> list_chat_widget_permissions,
   getPermission |-> get_chat_widget_permission,
   setPermission |-> set_chat_widget_permission,
   deletePermission |-> delete_chat_widget_permission,
   getTags |-> get_chat_widget_tags, setTags |-> set_chat_widget_tags,
   deleteTags |-> delete_chat_widget_tags]

(* external_apps                                                           *)
list_external_apps == Route(Authenticated, ListExternalApps)
get_external_app == Route(MayRead, GetExternalApp)
create_external_app == Route(MayCreate, CreateExternalApp)
update_external_app == Route(MayWrite, UpdateExternalApp)
delete_external_app == Route(MayAdminister, DeleteExternalApp)
list_external_app_permissions == Route(MayRead, ListExternalAppPermissions)
get_external_app_permission == Route(MayRead, GetExternalAppPermission)
set_external_app_permission == Route(MayAdminister, SetExternalAppPermission)
delete_external_app_permission == Route(MayAdminister, DeleteExternalAppPermission)
get_external_app_tags == Route(MayRead, GetResourceTags)
set_external_app_tags == Route(MayWrite, SetResourceTags)
delete_external_app_tags == Route(MayWrite, DeleteResourceTags)
ExternalAppRoutes ==
  [list |-> list_external_apps, get |-> get_external_app,
   create |-> create_external_app, update |-> update_external_app,
   delete |-> delete_external_app,
   listPermissions |-> list_external_app_permissions,
   getPermission |-> get_external_app_permission,
   setPermission |-> set_external_app_permission,
   deletePermission |-> delete_external_app_permission,
   getTags |-> get_external_app_tags, setTags |-> set_external_app_tags,
   deleteTags |-> delete_external_app_tags]

(* credentials                                                             *)
list_credentials == Route(Authenticated, ListCredentials)
create_credential == Route(MayCreate, CreateCredential)
get_credential == Route(OnResource({"READ"}), GetCredential)
get_credential_secret == Route(MayWrite, Elsewhere)
update_credential == Route(OnResource({"WRITE"}), UpdateCredential)
delete_credential == Route(MayAdminister, DeleteCredential)
test_credential_connection == Route(MayCreate, Elsewhere)
list_credential_permissions == Route(OnResource({"READ"}), ListCredentialPermissions)
get_credential_permission == Route(OnResource({"READ"}), GetCredentialPermission)
set_credential_permission == Route(MayAdminister, SetCredentialPermission)
delete_credential_permission == Route(MayAdminister, DeleteCredentialPermission)
get_credential_tags == Route(MayRead, GetResourceTags)
set_credential_tags == Route(MayWrite, SetResourceTags)
delete_credential_tags == Route(MayWrite, DeleteResourceTags)
CredentialRoutes ==
  [list |-> list_credentials, create |-> create_credential,
   get |-> get_credential, secret |-> get_credential_secret,
   update |-> update_credential, delete |-> delete_credential,
   test |-> test_credential_connection,
   listPermissions |-> list_credential_permissions,
   getPermission |-> get_credential_permission,
   setPermission |-> set_credential_permission,
   deletePermission |-> delete_credential_permission,
   getTags |-> get_credential_tags, setTags |-> set_credential_tags,
   deleteTags |-> delete_credential_tags]

(* conversations                                                           *)
list_conversations == Route(Authenticated, ListConversations)
create_conversation == Route(MayCreate, CreateConversation)
get_conversation == Route(MayRead, GetConversation)
update_conversation == Route(MayWrite, UpdateConversation)
delete_conversation == Route(MayAdminister, DeleteConversation)
list_conversation_permissions == Route(MayRead, ListConversationPermissions)
get_conversation_permission == Route(MayRead, GetConversationPermission)
set_conversation_permission == Route(MayAdminister, SetConversationPermission)
delete_conversation_permission == Route(MayAdminister, DeleteConversationPermission)
ConversationRoutes ==
  [list |-> list_conversations, create |-> create_conversation,
   get |-> get_conversation, update |-> update_conversation,
   delete |-> delete_conversation,
   listPermissions |-> list_conversation_permissions,
   getPermission |-> get_conversation_permission,
   setPermission |-> set_conversation_permission,
   deletePermission |-> delete_conversation_permission]

(* tenant_ai_models                                                        *)
list_tenant_ai_models == Route(Authenticated, ListTenantAIModels)
create_tenant_ai_model == Route(MayManage, CreateTenantAIModel)
get_tenant_ai_model == Route(Authenticated, GetTenantAIModel)
update_tenant_ai_model == Route(MayManage, UpdateTenantAIModel)
delete_tenant_ai_model == Route(MayManage, DeleteTenantAIModel)
get_ai_model_tags == Route(MayManage, GetResourceTags)
set_ai_model_tags == Route(MayManage, SetResourceTags)
delete_ai_model_tags == Route(MayManage, DeleteResourceTags)
TenantAIModelRoutes ==
  [list |-> list_tenant_ai_models, create |-> create_tenant_ai_model,
   get |-> get_tenant_ai_model, update |-> update_tenant_ai_model,
   delete |-> delete_tenant_ai_model, getTags |-> get_ai_model_tags,
   setTags |-> set_ai_model_tags, deleteTags |-> delete_ai_model_tags]

(* custom_groups                                                           *)
list_custom_groups == Route(Authenticated, ListCustomGroups)
get_custom_group == Route(Authenticated, GetCustomGroup)
create_custom_group == Route(MayCreate, CreateCustomGroup)
update_custom_group == Route(MayWrite, UpdateCustomGroup)
delete_custom_group == Route(MayAdminister, DeleteCustomGroup)
list_custom_group_principals == Route(MayRead, Elsewhere)
get_principal_permissions == Route(MayRead, Elsewhere)
set_principal_permission == Route(MayAdminister, Elsewhere)
delete_principal_permission == Route(MayAdminister, Elsewhere)
CustomGroupRoutes ==
  [list |-> list_custom_groups, get |-> get_custom_group,
   create |-> create_custom_group, update |-> update_custom_group,
   delete |-> delete_custom_group,
   listPermissions |-> list_custom_group_principals,
   getPermission |-> get_principal_permissions,
   setPermission |-> set_principal_permission,
   deletePermission |-> delete_principal_permission]

(* tenants                                                                 *)
list_tenants == Route(Authenticated, ListTenants)
get_tenant == Route(Authenticated, GetTenant)
create_tenant == Route(Authenticated, CreateTenant)
update_tenant == Route(MayGovern, UpdateTenant)
delete_tenant == Route(MayGovern, DeleteTenant)
TenantRoutes ==
  [list |-> list_tenants, get |-> get_tenant, create |-> create_tenant,
   update |-> update_tenant, delete |-> delete_tenant]

(* user_favorites, of the kinds in RESOURCE_FAVORITE_MAPPING               *)
list_user_favorites == Route(OwnFavorites, ListUserFavorites)
add_user_favorite == Route(OwnFavorites, AddUserFavorite)
remove_user_favorite == Route(OwnFavorites, RemoveUserFavorite)
FavoriteRoutes ==
  [listFavorites |-> list_user_favorites, addFavorite |-> add_user_favorite,
   removeFavorite |-> remove_user_favorite]
WithFavorites(routes) ==
  [op \in DOMAIN routes \cup DOMAIN FavoriteRoutes |->
     IF op \in DOMAIN routes THEN routes[op] ELSE FavoriteRoutes[op]]

-----------------------------------------------------------------------------
Routes ==
  [workflows |-> WithFavorites(WorkflowRoutes),
   chat_agents |-> WithFavorites(ChatAgentRoutes),
   chat_widgets |-> WithFavorites(ChatWidgetRoutes),
   external_apps |-> WithFavorites(ExternalAppRoutes),
   conversations |-> WithFavorites(ConversationRoutes),
   credentials |-> CredentialRoutes,
   ai_models |-> TenantAIModelRoutes, custom_groups |-> CustomGroupRoutes,
   tenants |-> TenantRoutes]
===============================================================================
