--------------------------- MODULE ResourceHandlers ---------------------------
(***************************************************************************)
(* What the handlers of the tenant's resources do to PostgreSQL and Redis, *)
(* each as the sequence of its steps.  A kind of resource is named by the  *)
(* prefix of its cache keys.  The steps:                                   *)
(*   lookup, peek   GET the entry and answer from it; after peek a request *)
(*                  with X-Use-Cache: false reads and stores all the same  *)
(*   find           SELECT the favourite, and answer if there is one       *)
(*   read           SELECT what the answer shows, or 404                   *)
(*   fill           SET the entry                                          *)
(*   validate       perhaps refuse the request                             *)
(*   load           SELECT the row, or 404                                 *)
(*   flush          send the change; the row stays locked until the commit *)
(*   commit         commit the change (with the flush, if there was none)  *)
(*   refetch        SELECT the row again; an error if it has gone          *)
(*   reread         SELECT the member row again; an error if it has gone   *)
(*   wipe...        DEL the keys of that name                              *)
(* What a handler does to the vault is in the modules Credentials and      *)
(* WorkflowKeys; what clear_cache_for_user wipes is in TenantAccess.       *)
(***************************************************************************)
EXTENDS Sequences

-----------------------------------------------------------------------------
(* Keys: the words of a key that the kind decides.  tenant, user, id and   *)
(* paging make one key into many; a pattern deletes all of them.           *)
Short ==
  [workflows |-> "workflow", chat_agents |-> "chat_agent", chat_widgets |-> "cw",
   external_apps |-> "ea", credentials |-> "cred", conversations |-> "conv",
   ai_models |-> "model", custom_groups |-> "group", tenants |-> ""]

ListKey(kind) == <<kind, "list">>
DetailKey(kind) == <<kind, "detail", Short[kind]>>
PermissionsKey(kind) == <<kind, "permissions", "res">>
TagsKey(kind) == <<"tags", Short[kind]>>
FavoritesKey(kind) == <<"user_favorites", kind>>
UnifiedKey == <<"user_favorites", "all">>

(* The key under which an answer is stored.                                *)
StoredAt(kind, slot) ==
  CASE slot = "list" -> ListKey(kind)
    [] slot = "detail" -> DetailKey(kind)
    [] slot = "permissions" -> PermissionsKey(kind)
    [] slot = "tags" -> TagsKey(kind)
    [] slot = "favorites" -> FavoritesKey(kind)

(* ResourceCacheInvalidator                                                *)
WipeList(kind) == ListKey(kind)
WipeDetail(kind) == DetailKey(kind)
WipePermissions(kind) == <<kind, "permissions", Short[kind]>>
(* ResourcePermissionsHandler                                              *)
WipeMembers(kind) == PermissionsKey(kind)
(* RESOURCE_TAG_MAPPING                                                    *)
WipeTagged(kind) ==
  IF kind = "ai_models" THEN <<"tenant_ai_models", "detail", "aim">> ELSE DetailKey(kind)
(* invalidate_tenant_cache: the pattern asks for one more part             *)
WipeTenant(kind) == <<kind, "detail", Short[kind], "*">>

Wiped(kind, step) ==
  CASE step = "wipeList" -> WipeList(kind)
    [] step = "wipeDetail" -> WipeDetail(kind)
    [] step = "wipePermissions" -> WipePermissions(kind)
    [] step = "wipeMembers" -> WipeMembers(kind)
    [] step = "wipeTags" -> TagsKey(kind)
    [] step = "wipeTagged" -> WipeTagged(kind)
    [] step = "wipeTenant" -> WipeTenant(kind)
    [] step = "wipeFavorites" -> FavoritesKey(kind)
    [] step = "wipeUnified" -> UnifiedKey
WipeSteps ==
  {"wipeList", "wipeDetail", "wipePermissions", "wipeMembers", "wipeTags",
   "wipeTagged", "wipeTenant", "wipeFavorites", "wipeUnified"}
Steps ==
  {"lookup", "peek", "find", "read", "fill", "validate", "load", "flush", "commit",
   "refetch", "reread"} \cup WipeSteps

-----------------------------------------------------------------------------
(* resource_permissions                                                    *)
ListPermissions == <<"lookup", "read", "fill">>
GetPermission == <<"load", "reread">>
(* _invalidate_permissions_cache                                           *)
WipeAccess == <<"wipeMembers", "wipeList">>
SetPermission == <<"load", "commit", "reread">> \o WipeAccess
DeletePermission == <<"load", "commit">> \o WipeAccess

(* tags: the statements are sent before the wipes already, but what they   *)
(* lock, the rows that tie tags to the resource, only another change of the*)
(* same tags waits for.  Whether they can be executed, and who is first, is*)
(* left to the commit, which lets more happen between than the locks do.   *)
GetResourceTags == <<"lookup", "read", "fill">>
(* Mutated: the resource's cached tags are forgotten.                      *)
SetResourceTagsUnseen == <<"validate", "wipeTagged", "commit">>
SetResourceTags == <<"validate", "wipeTags", "wipeTagged", "commit">>
DeleteResourceTags == <<"wipeTags", "wipeTagged", "commit">>

(* user_favorites: the session's exit commits                              *)
ListUserFavorites == <<"lookup", "read", "fill">>
AddUserFavorite == <<"find", "flush", "wipeFavorites", "wipeUnified", "commit">>
RemoveUserFavorite == <<"flush", "wipeFavorites", "wipeUnified", "commit">>

-----------------------------------------------------------------------------
(* chat_agents                                                             *)
ListChatAgents == <<"lookup", "read", "fill">>
GetChatAgent == <<"lookup", "read", "fill">>
CreateChatAgent == <<"validate", "commit", "refetch", "wipeList">>
(* Mutated: the caches are invalidated before the commit.                  *)
UpdateChatAgentWipesFirst ==
  <<"load", "validate", "wipeList", "wipeDetail", "commit", "refetch">>
UpdateChatAgent ==
  <<"load", "validate", "commit", "refetch", "wipeList", "wipeDetail">>
DeleteChatAgent == <<"load", "commit", "wipeList", "wipeDetail", "wipePermissions">>
DuplicateChatAgent == <<"load", "commit", "wipeList">>
ListChatAgentPermissions == ListPermissions
GetChatAgentPermission == GetPermission
SetChatAgentPermission == SetPermission \o GetPermission
DeleteChatAgentPermission == DeletePermission

(* workflows; get_workflow_model is never cached, no route reaches         *)
(* update_last_full_import                                                 *)
ListWorkflows == <<"lookup", "read", "fill">>
GetWorkflow == <<"lookup", "read", "fill">>
CreateWorkflow == <<"validate", "commit", "refetch", "wipeList">>
UpdateWorkflow ==
  <<"load", "validate", "commit", "refetch", "wipeList", "wipeDetail">>
DeleteWorkflow == <<"load", "commit", "wipeList", "wipeDetail", "wipePermissions">>
DuplicateWorkflow == <<"load", "commit", "wipeList">>
ListWorkflowPermissions == ListPermissions
GetWorkflowPermission == GetPermission
SetWorkflowPermission == SetPermission \o GetPermission
DeleteWorkflowPermission == DeletePermission

(* chat_widgets                                                            *)
ListChatWidgets == <<"lookup", "read", "fill">>
GetChatWidget == <<"lookup", "read", "fill">>
CreateChatWidget == <<"commit", "refetch", "wipeList">>
UpdateChatWidget == <<"load", "commit", "refetch", "wipeList", "wipeDetail">>
DeleteChatWidget == <<"load", "commit", "wipeList", "wipeDetail", "wipePermissions">>
DuplicateChatWidget == <<"load", "commit", "wipeList">>
ListChatWidgetPermissions == ListPermissions
GetChatWidgetPermission == GetPermission
SetChatWidgetPermission == SetPermission \o GetPermission
DeleteChatWidgetPermission == DeletePermission

(* external_apps: the flush finds a name that is taken                     *)
ListExternalApps == <<"lookup", "read", "fill">>
GetExternalApp == <<"lookup", "read", "fill">>
CreateExternalApp == <<"validate", "commit", "refetch", "wipeList">>
(* Mutated: the change is committed before the request is validated.       *)
UpdateExternalAppUnvalidated ==
  <<"load", "flush", "commit", "validate", "refetch", "wipeList", "wipeDetail">>
UpdateExternalApp ==
  <<"load", "validate", "flush", "commit", "refetch", "wipeList", "wipeDetail">>
DeleteExternalApp == <<"load", "commit", "wipeList", "wipeDetail", "wipePermissions">>
ListExternalAppPermissions == ListPermissions
GetExternalAppPermission == GetPermission
SetExternalAppPermission == SetPermission \o GetPermission
DeleteExternalAppPermission == DeletePermission

(* credentials: the caches are invalidated before the commit               *)
ListCredentials == <<"peek", "read", "fill">>
GetCredential == <<"peek", "read", "fill">>
CreateCredential == <<"validate", "wipeList", "wipePermissions", "commit">>
UpdateCredential ==
  <<"load", "validate", "wipeList", "wipeDetail", "flush", "refetch", "commit">>
DeleteCredential ==
  <<"load", "wipeList", "wipeDetail", "wipePermissions", "flush", "commit">>
ListCredentialPermissions == ListPermissions
GetCredentialPermission == GetPermission
SetCredentialPermission == SetPermission \o GetPermission
DeleteCredentialPermission == DeletePermission

(* conversations                                                           *)
ListConversations == <<"lookup", "read", "fill">>
GetConversation == <<"lookup", "read", "fill">>
CreateConversation == <<"validate", "commit", "refetch", "wipeList">>
UpdateConversation == <<"load", "commit", "refetch", "wipeList", "wipeDetail">>
DeleteConversation == <<"load", "commit", "wipeList", "wipeDetail", "wipePermissions">>
ListConversationPermissions == ListPermissions
GetConversationPermission == GetPermission
SetConversationPermission == SetPermission \o GetPermission
DeleteConversationPermission == DeletePermission

(* tenant_ai_models                                                        *)
ListTenantAIModels == <<"lookup", "read", "fill">>
GetTenantAIModel == <<"lookup", "read", "fill">>
CreateTenantAIModel == <<"validate", "commit", "refetch", "wipeList">>
UpdateTenantAIModel ==
  <<"load", "validate", "commit", "refetch", "wipeList", "wipeDetail">>
DeleteTenantAIModel == <<"load", "commit", "wipeList", "wipeDetail">>

(* custom_groups (the entries of a group's members: TenantAccess)          *)
ListCustomGroups == <<"peek", "read", "fill">>
GetCustomGroup == <<"peek", "read", "fill">>
CreateCustomGroup == <<"commit", "refetch", "wipeList">>
UpdateCustomGroup == <<"load", "commit", "refetch", "wipeList", "wipeDetail">>
DeleteCustomGroup == <<"load", "commit", "wipeList", "wipeDetail">>

(* tenants: the session's exit commits                                     *)
ListTenants == <<"peek", "read", "fill">>
GetTenant == <<"peek", "read", "fill">>
CreateTenant == <<"validate", "wipeList", "commit">>
UpdateTenant == <<"load", "wipeList", "wipeTenant", "commit">>
DeleteTenant == <<"load", "validate", "wipeList", "wipeTenant", "commit">>

===============================================================================
