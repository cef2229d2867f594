------------------------------ MODULE ApiUsers ------------------------------
(* Users, sign-in, identity providers, shortcuts: the page's codec of each message. *)
EXTENDS ApiFields

\* api/v1/user_service.ts
User_Role == [ROLE_UNSPECIFIED |-> 0, HOST |-> 1, ADMIN |-> 2, USER |-> 3]
UserSetting_Key ==
    [KEY_UNSPECIFIED |-> 0, GENERAL |-> 1, SESSIONS |-> 2, ACCESS_TOKENS |-> 3, WEBHOOKS |-> 4]
User ==
    [name |-> Str(1), role |-> Enum(2, "User_Role"), username |-> Str(3), email |-> Str(4),
     displayName |-> Str(5), avatarUrl |-> Str(6), description |-> Str(7), password |-> Str(8),
     state |-> Enum(9, "State"), createTime |-> Msg(10, "Timestamp"),
     updateTime |-> Msg(11, "Timestamp")]
ListUsersRequest ==
    [pageSize |-> Int(1), pageToken |-> Str(2), filter |-> Str(3), showDeleted |-> Bool(4)]
ListUsersResponse ==
    [users |-> ManyMsg(1, "User"), nextPageToken |-> Str(2), totalSize |-> Int(3)]
GetUserRequest == [name |-> Str(1), readMask |-> Msg(2, "FieldMask")]
CreateUserRequest ==
    [user |-> Msg(1, "User"), userId |-> Str(2), validateOnly |-> Bool(3),
     requestId |-> Str(4)]
UpdateUserRequest ==
    [user |-> Msg(1, "User"), updateMask |-> Msg(2, "FieldMask"), allowMissing |-> Bool(3)]
DeleteUserRequest == [name |-> Str(1), force |-> Bool(2)]
GetUserAvatarRequest == [name |-> Str(1)]
UserStats ==
    [name |-> Str(1), memoDisplayTimestamps |-> ManyMsg(2, "Timestamp"),
     memoTypeStats |-> Msg(3, "UserStats_MemoTypeStats"),
     tagCount |-> ManyMsg(4, "UserStats_TagCountEntry"), pinnedMemos |-> ManyStr(5),
     totalMemoCount |-> Int(6)]
UserStats_TagCountEntry == [key |-> Str(1), value |-> Int(2)]
UserStats_MemoTypeStats ==
    [linkCount |-> Int(1), codeCount |-> Int(2), todoCount |-> Int(3), undoCount |-> Int(4)]
GetUserStatsRequest == [name |-> Str(1)]
ListAllUserStatsRequest == << >>
ListAllUserStatsResponse == [stats |-> ManyMsg(1, "UserStats")]
UserSetting ==
    [name |-> Str(1), generalSetting |-> Msg(2, "UserSetting_GeneralSetting"),
     sessionsSetting |-> Msg(3, "UserSetting_SessionsSetting"),
     accessTokensSetting |-> Msg(4, "UserSetting_AccessTokensSetting"),
     webhooksSetting |-> Msg(5, "UserSetting_WebhooksSetting")]
UserSetting_GeneralSetting == [locale |-> Str(1), memoVisibility |-> Str(3), theme |-> Str(4)]
UserSetting_SessionsSetting == [sessions |-> ManyMsg(1, "UserSession")]
UserSetting_AccessTokensSetting == [accessTokens |-> ManyMsg(1, "UserAccessToken")]
UserSetting_WebhooksSetting == [webhooks |-> ManyMsg(1, "UserWebhook")]
GetUserSettingRequest == [name |-> Str(1)]
UpdateUserSettingRequest ==
    [setting |-> Msg(1, "UserSetting"), updateMask |-> Msg(2, "FieldMask")]
ListUserSettingsRequest == [parent |-> Str(1), pageSize |-> Int(2), pageToken |-> Str(3)]
ListUserSettingsResponse ==
    [settings |-> ManyMsg(1, "UserSetting"), nextPageToken |-> Str(2), totalSize |-> Int(3)]
UserAccessToken ==
    [name |-> Str(1), accessToken |-> Str(2), description |-> Str(3),
     issuedAt |-> Msg(4, "Timestamp"), expiresAt |-> Msg(5, "Timestamp")]
ListUserAccessTokensRequest == [parent |-> Str(1), pageSize |-> Int(2), pageToken |-> Str(3)]
ListUserAccessTokensResponse ==
    [accessTokens |-> ManyMsg(1, "UserAccessToken"), nextPageToken |-> Str(2),
     totalSize |-> Int(3)]
CreateUserAccessTokenRequest ==
    [parent |-> Str(1), accessToken |-> Msg(2, "UserAccessToken"), accessTokenId |-> Str(3)]
DeleteUserAccessTokenRequest == [name |-> Str(1)]
UserSession ==
    [name |-> Str(1), sessionId |-> Str(2), createTime |-> Msg(3, "Timestamp"),
     lastAccessedTime |-> Msg(4, "Timestamp"), clientInfo |-> Msg(5, "UserSession_ClientInfo")]
UserSession_ClientInfo ==
    [userAgent |-> Str(1), ipAddress |-> Str(2), deviceType |-> Str(3), os |-> Str(4),
     browser |-> Str(5)]
ListUserSessionsRequest == [parent |-> Str(1)]
ListUserSessionsResponse == [sessions |-> ManyMsg(1, "UserSession")]
RevokeUserSessionRequest == [name |-> Str(1)]
UserWebhook ==
    [name |-> Str(1), url |-> Str(2), displayName |-> Str(3),
     createTime |-> Msg(4, "Timestamp"), updateTime |-> Msg(5, "Timestamp")]
ListUserWebhooksRequest == [parent |-> Str(1)]
ListUserWebhooksResponse == [webhooks |-> ManyMsg(1, "UserWebhook")]
CreateUserWebhookRequest == [parent |-> Str(1), webhook |-> Msg(2, "UserWebhook")]
UpdateUserWebhookRequest ==
    [webhook |-> Msg(1, "UserWebhook"), updateMask |-> Msg(2, "FieldMask")]
DeleteUserWebhookRequest == [name |-> Str(1)]
UserServiceDefinition ==
    [ListUsers |-> <<"ListUsersRequest", "ListUsersResponse">>,
     GetUser |-> <<"GetUserRequest", "User">>, CreateUser |-> <<"CreateUserRequest", "User">>,
     UpdateUser |-> <<"UpdateUserRequest", "User">>,
     DeleteUser |-> <<"DeleteUserRequest", "Empty">>,
     GetUserAvatar |-> <<"GetUserAvatarRequest", "HttpBody">>,
     ListAllUserStats |-> <<"ListAllUserStatsRequest", "ListAllUserStatsResponse">>,
     GetUserStats |-> <<"GetUserStatsRequest", "UserStats">>,
     GetUserSetting |-> <<"GetUserSettingRequest", "UserSetting">>,
     UpdateUserSetting |-> <<"UpdateUserSettingRequest", "UserSetting">>,
     ListUserSettings |-> <<"ListUserSettingsRequest", "ListUserSettingsResponse">>,
     ListUserAccessTokens |-> <<"ListUserAccessTokensRequest", "ListUserAccessTokensResponse">>,
     CreateUserAccessToken |-> <<"CreateUserAccessTokenRequest", "UserAccessToken">>,
     DeleteUserAccessToken |-> <<"DeleteUserAccessTokenRequest", "Empty">>,
     ListUserSessions |-> <<"ListUserSessionsRequest", "ListUserSessionsResponse">>,
     RevokeUserSession |-> <<"RevokeUserSessionRequest", "Empty">>,
     ListUserWebhooks |-> <<"ListUserWebhooksRequest", "ListUserWebhooksResponse">>,
     CreateUserWebhook |-> <<"CreateUserWebhookRequest", "UserWebhook">>,
     UpdateUserWebhook |-> <<"UpdateUserWebhookRequest", "UserWebhook">>,
     DeleteUserWebhook |-> <<"DeleteUserWebhookRequest", "Empty">>]

\* api/v1/auth_service.ts
GetCurrentSessionRequest == << >>
GetCurrentSessionResponse == [user |-> Msg(1, "User"), lastAccessedAt |-> Msg(2, "Timestamp")]
CreateSessionRequest ==
    [passwordCredentials |-> Msg(1, "CreateSessionRequest_PasswordCredentials"),
     ssoCredentials |-> Msg(2, "CreateSessionRequest_SSOCredentials")]
CreateSessionRequest_PasswordCredentials == [username |-> Str(1), password |-> Str(2)]
CreateSessionRequest_SSOCredentials ==
    [idpId |-> Int(1), code |-> Str(2), redirectUri |-> Str(3)]
CreateSessionResponse == [user |-> Msg(1, "User"), lastAccessedAt |-> Msg(2, "Timestamp")]
DeleteSessionRequest == << >>
AuthServiceDefinition ==
    [GetCurrentSession |-> <<"GetCurrentSessionRequest", "GetCurrentSessionResponse">>,
     CreateSession |-> <<"CreateSessionRequest", "CreateSessionResponse">>,
     DeleteSession |-> <<"DeleteSessionRequest", "Empty">>]

\* api/v1/idp_service.ts
IdentityProvider_Type == [TYPE_UNSPECIFIED |-> 0, OAUTH2 |-> 1]
IdentityProvider ==
    [name |-> Str(1), type |-> Enum(2, "IdentityProvider_Type"), title |-> Str(3),
     identifierFilter |-> Str(4), config |-> Msg(5, "IdentityProviderConfig")]
IdentityProviderConfig == [oauth2Config |-> Msg(1, "OAuth2Config")]
FieldMapping ==
    [identifier |-> Str(1), displayName |-> Str(2), email |-> Str(3), avatarUrl |-> Str(4)]
OAuth2Config ==
    [clientId |-> Str(1), clientSecret |-> Str(2), authUrl |-> Str(3), tokenUrl |-> Str(4),
     userInfoUrl |-> Str(5), scopes |-> ManyStr(6), fieldMapping |-> Msg(7, "FieldMapping")]
ListIdentityProvidersRequest == << >>
ListIdentityProvidersResponse == [identityProviders |-> ManyMsg(1, "IdentityProvider")]
GetIdentityProviderRequest == [name |-> Str(1)]
CreateIdentityProviderRequest ==
    [identityProvider |-> Msg(1, "IdentityProvider"), identityProviderId |-> Str(2)]
UpdateIdentityProviderRequest ==
    [identityProvider |-> Msg(1, "IdentityProvider"), updateMask |-> Msg(2, "FieldMask")]
DeleteIdentityProviderRequest == [name |-> Str(1)]
IdentityProviderServiceDefinition ==
    [ListIdentityProviders |-> <<"ListIdentityProvidersRequest", "ListIdentityProvidersResponse">>,
     GetIdentityProvider |-> <<"GetIdentityProviderRequest", "IdentityProvider">>,
     CreateIdentityProvider |-> <<"CreateIdentityProviderRequest", "IdentityProvider">>,
     UpdateIdentityProvider |-> <<"UpdateIdentityProviderRequest", "IdentityProvider">>,
     DeleteIdentityProvider |-> <<"DeleteIdentityProviderRequest", "Empty">>]

\* api/v1/shortcut_service.ts
Shortcut == [name |-> Str(1), title |-> Str(2), filter |-> Str(3)]
ListShortcutsRequest == [parent |-> Str(1)]
ListShortcutsResponse == [shortcuts |-> ManyMsg(1, "Shortcut")]
GetShortcutRequest == [name |-> Str(1)]
CreateShortcutRequest ==
    [parent |-> Str(1), shortcut |-> Msg(2, "Shortcut"), validateOnly |-> Bool(3)]
UpdateShortcutRequest == [shortcut |-> Msg(1, "Shortcut"), updateMask |-> Msg(2, "FieldMask")]
DeleteShortcutRequest == [name |-> Str(1)]
ShortcutServiceDefinition ==
    [ListShortcuts |-> <<"ListShortcutsRequest", "ListShortcutsResponse">>,
     GetShortcut |-> <<"GetShortcutRequest", "Shortcut">>,
     CreateShortcut |-> <<"CreateShortcutRequest", "Shortcut">>,
     UpdateShortcut |-> <<"UpdateShortcutRequest", "Shortcut">>,
     DeleteShortcut |-> <<"DeleteShortcutRequest", "Empty">>]

UsersTypes ==
    [User |-> User, ListUsersRequest |-> ListUsersRequest,
     ListUsersResponse |-> ListUsersResponse, GetUserRequest |-> GetUserRequest,
     CreateUserRequest |-> CreateUserRequest, UpdateUserRequest |-> UpdateUserRequest,
     DeleteUserRequest |-> DeleteUserRequest, GetUserAvatarRequest |-> GetUserAvatarRequest,
     UserStats |-> UserStats, UserStats_TagCountEntry |-> UserStats_TagCountEntry,
     UserStats_MemoTypeStats |-> UserStats_MemoTypeStats,
     GetUserStatsRequest |-> GetUserStatsRequest,
     ListAllUserStatsRequest |-> ListAllUserStatsRequest,
     ListAllUserStatsResponse |-> ListAllUserStatsResponse, UserSetting |-> UserSetting,
     UserSetting_GeneralSetting |-> UserSetting_GeneralSetting,
     UserSetting_SessionsSetting |-> UserSetting_SessionsSetting,
     UserSetting_AccessTokensSetting |-> UserSetting_AccessTokensSetting,
     UserSetting_WebhooksSetting |-> UserSetting_WebhooksSetting,
     GetUserSettingRequest |-> GetUserSettingRequest,
     UpdateUserSettingRequest |-> UpdateUserSettingRequest,
     ListUserSettingsRequest |-> ListUserSettingsRequest,
     ListUserSettingsResponse |-> ListUserSettingsResponse,
     UserAccessToken |-> UserAccessToken,
     ListUserAccessTokensRequest |-> ListUserAccessTokensRequest,
     ListUserAccessTokensResponse |-> ListUserAccessTokensResponse,
     CreateUserAccessTokenRequest |-> CreateUserAccessTokenRequest,
     DeleteUserAccessTokenRequest |-> DeleteUserAccessTokenRequest,
     UserSession |-> UserSession, UserSession_ClientInfo |-> UserSession_ClientInfo,
     ListUserSessionsRequest |-> ListUserSessionsRequest,
     ListUserSessionsResponse |-> ListUserSessionsResponse,
     RevokeUserSessionRequest |-> RevokeUserSessionRequest, UserWebhook |-> UserWebhook,
     ListUserWebhooksRequest |-> ListUserWebhooksRequest,
     ListUserWebhooksResponse |-> ListUserWebhooksResponse,
     CreateUserWebhookRequest |-> CreateUserWebhookRequest,
     UpdateUserWebhookRequest |-> UpdateUserWebhookRequest,
     DeleteUserWebhookRequest |-> DeleteUserWebhookRequest,
     GetCurrentSessionRequest |-> GetCurrentSessionRequest,
     GetCurrentSessionResponse |-> GetCurrentSessionResponse,
     CreateSessionRequest |-> CreateSessionRequest,
     CreateSessionRequest_PasswordCredentials |-> CreateSessionRequest_PasswordCredentials,
     CreateSessionRequest_SSOCredentials |-> CreateSessionRequest_SSOCredentials,
     CreateSessionResponse |-> CreateSessionResponse,
     DeleteSessionRequest |-> DeleteSessionRequest, IdentityProvider |-> IdentityProvider,
     IdentityProviderConfig |-> IdentityProviderConfig, FieldMapping |-> FieldMapping,
     OAuth2Config |-> OAuth2Config,
     ListIdentityProvidersRequest |-> ListIdentityProvidersRequest,
     ListIdentityProvidersResponse |-> ListIdentityProvidersResponse,
     GetIdentityProviderRequest |-> GetIdentityProviderRequest,
     CreateIdentityProviderRequest |-> CreateIdentityProviderRequest,
     UpdateIdentityProviderRequest |-> UpdateIdentityProviderRequest,
     DeleteIdentityProviderRequest |-> DeleteIdentityProviderRequest, Shortcut |-> Shortcut,
     ListShortcutsRequest |-> ListShortcutsRequest,
     ListShortcutsResponse |-> ListShortcutsResponse,
     GetShortcutRequest |-> GetShortcutRequest,
     CreateShortcutRequest |-> CreateShortcutRequest,
     UpdateShortcutRequest |-> UpdateShortcutRequest,
     DeleteShortcutRequest |-> DeleteShortcutRequest]
UsersEnums ==
    [User_Role |-> User_Role, UserSetting_Key |-> UserSetting_Key,
     IdentityProvider_Type |-> IdentityProvider_Type]
UsersServices ==
    [UserService |-> UserServiceDefinition, AuthService |-> AuthServiceDefinition,
     IdentityProviderService |-> IdentityProviderServiceDefinition,
     ShortcutService |-> ShortcutServiceDefinition]
=============================================================================
