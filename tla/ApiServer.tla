----------------------------- MODULE ApiServer ------------------------------
(* What the server reads and writes: the messages of its generated Go code,  *)
(* one definition for each file, and the methods its services serve.          *)
EXTENDS ApiFields

\* memo_service.pb.go
MemoMessages ==
    [Reaction |->
         [name |-> Str(1), creator |-> Str(2), contentId |-> Str(3), reactionType |-> Str(4),
          createTime |-> Msg(5, "Timestamp")],
     Memo |->
         [name |-> Str(1), state |-> Enum(2, "State"), creator |-> Str(3),
          createTime |-> Msg(4, "Timestamp"), updateTime |-> Msg(5, "Timestamp"),
          displayTime |-> Msg(6, "Timestamp"), content |-> Str(7),
          nodes |-> ManyMsg(8, "Node"), visibility |-> Enum(9, "Visibility"),
          tags |-> ManyStr(10), pinned |-> Bool(11), attachments |-> ManyMsg(12, "Attachment"),
          relations |-> ManyMsg(13, "MemoRelation"), reactions |-> ManyMsg(14, "Reaction"),
          property |-> Msg(15, "Memo_Property"), parent |-> OptStr(16), snippet |-> Str(17),
          location |-> Msg(18, "Location")],
     Location |-> [placeholder |-> Str(1), latitude |-> Double(2), longitude |-> Double(3)],
     CreateMemoRequest |->
         [memo |-> Msg(1, "Memo"), memoId |-> Str(2), validateOnly |-> Bool(3),
          requestId |-> Str(4)],
     ListMemosRequest |->
         [pageSize |-> Int(1), pageToken |-> Str(2), state |-> Enum(3, "State"),
          orderBy |-> Str(4), filter |-> Str(5), showDeleted |-> Bool(6)],
     ListMemosResponse |->
         [memos |-> ManyMsg(1, "Memo"), nextPageToken |-> Str(2), totalSize |-> Int(3)],
     GetMemoRequest |-> [name |-> Str(1), readMask |-> Msg(2, "FieldMask")],
     UpdateMemoRequest |->
         [memo |-> Msg(1, "Memo"), updateMask |-> Msg(2, "FieldMask"),
          allowMissing |-> Bool(3)],
     DeleteMemoRequest |-> [name |-> Str(1), force |-> Bool(2)],
     RenameMemoTagRequest |-> [parent |-> Str(1), oldTag |-> Str(2), newTag |-> Str(3)],
     DeleteMemoTagRequest |->
         [parent |-> Str(1), tag |-> Str(2), deleteRelatedMemos |-> Bool(3)],
     SetMemoAttachmentsRequest |-> [name |-> Str(1), attachments |-> ManyMsg(2, "Attachment")],
     ListMemoAttachmentsRequest |-> [name |-> Str(1), pageSize |-> Int(2), pageToken |-> Str(3)],
     ListMemoAttachmentsResponse |->
         [attachments |-> ManyMsg(1, "Attachment"), nextPageToken |-> Str(2),
          totalSize |-> Int(3)],
     MemoRelation |->
         [memo |-> Msg(1, "MemoRelation_Memo"), relatedMemo |-> Msg(2, "MemoRelation_Memo"),
          type |-> Enum(3, "MemoRelation_Type")],
     SetMemoRelationsRequest |-> [name |-> Str(1), relations |-> ManyMsg(2, "MemoRelation")],
     ListMemoRelationsRequest |-> [name |-> Str(1), pageSize |-> Int(2), pageToken |-> Str(3)],
     ListMemoRelationsResponse |->
         [relations |-> ManyMsg(1, "MemoRelation"), nextPageToken |-> Str(2),
          totalSize |-> Int(3)],
     CreateMemoCommentRequest |->
         [name |-> Str(1), comment |-> Msg(2, "Memo"), commentId |-> Str(3)],
     ListMemoCommentsRequest |->
         [name |-> Str(1), pageSize |-> Int(2), pageToken |-> Str(3), orderBy |-> Str(4)],
     ListMemoCommentsResponse |->
         [memos |-> ManyMsg(1, "Memo"), nextPageToken |-> Str(2), totalSize |-> Int(3)],
     ListMemoReactionsRequest |-> [name |-> Str(1), pageSize |-> Int(2), pageToken |-> Str(3)],
     ListMemoReactionsResponse |->
         [reactions |-> ManyMsg(1, "Reaction"), nextPageToken |-> Str(2), totalSize |-> Int(3)],
     UpsertMemoReactionRequest |-> [name |-> Str(1), reaction |-> Msg(2, "Reaction")],
     DeleteMemoReactionRequest |-> [name |-> Str(1)],
     Memo_Property |->
         [hasLink |-> Bool(1), hasTaskList |-> Bool(2), hasCode |-> Bool(3),
          hasIncompleteTasks |-> Bool(4)],
     MemoRelation_Memo |-> [name |-> Str(1), snippet |-> Str(2)]]
MemoEnums ==
    [Visibility |-> [VISIBILITY_UNSPECIFIED |-> 0, PRIVATE |-> 1, PROTECTED |-> 2, PUBLIC |-> 3],
     MemoRelation_Type |-> [TYPE_UNSPECIFIED |-> 0, REFERENCE |-> 1, COMMENT |-> 2]]
MemoServiceServer ==
    [CreateMemo |-> <<"CreateMemoRequest", "Memo">>,
     ListMemos |-> <<"ListMemosRequest", "ListMemosResponse">>,
     GetMemo |-> <<"GetMemoRequest", "Memo">>, UpdateMemo |-> <<"UpdateMemoRequest", "Memo">>,
     DeleteMemo |-> <<"DeleteMemoRequest", "Empty">>,
     RenameMemoTag |-> <<"RenameMemoTagRequest", "Empty">>,
     DeleteMemoTag |-> <<"DeleteMemoTagRequest", "Empty">>,
     SetMemoAttachments |-> <<"SetMemoAttachmentsRequest", "Empty">>,
     ListMemoAttachments |-> <<"ListMemoAttachmentsRequest", "ListMemoAttachmentsResponse">>,
     SetMemoRelations |-> <<"SetMemoRelationsRequest", "Empty">>,
     ListMemoRelations |-> <<"ListMemoRelationsRequest", "ListMemoRelationsResponse">>,
     CreateMemoComment |-> <<"CreateMemoCommentRequest", "Memo">>,
     ListMemoComments |-> <<"ListMemoCommentsRequest", "ListMemoCommentsResponse">>,
     ListMemoReactions |-> <<"ListMemoReactionsRequest", "ListMemoReactionsResponse">>,
     UpsertMemoReaction |-> <<"UpsertMemoReactionRequest", "Reaction">>,
     DeleteMemoReaction |-> <<"DeleteMemoReactionRequest", "Empty">>]

\* attachment_service.pb.go
AttachmentMessages ==
    [Attachment |->
         [name |-> Str(1), createTime |-> Msg(2, "Timestamp"), filename |-> Str(3),
          content |-> Bytes(4), externalLink |-> Str(5), type |-> Str(6), size |-> Long(7),
          memo |-> OptStr(8)],
     CreateAttachmentRequest |-> [attachment |-> Msg(1, "Attachment"), attachmentId |-> Str(2)],
     ListAttachmentsRequest |->
         [pageSize |-> Int(1), pageToken |-> Str(2), filter |-> Str(3), orderBy |-> Str(4)],
     ListAttachmentsResponse |->
         [attachments |-> ManyMsg(1, "Attachment"), nextPageToken |-> Str(2),
          totalSize |-> Int(3)],
     GetAttachmentRequest |-> [name |-> Str(1)],
     GetAttachmentBinaryRequest |->
         [name |-> Str(1), filename |-> Str(2), thumbnail |-> Bool(3)],
     UpdateAttachmentRequest |->
         [attachment |-> Msg(1, "Attachment"), updateMask |-> Msg(2, "FieldMask")],
     DeleteAttachmentRequest |-> [name |-> Str(1)]]
AttachmentServiceServer ==
    [CreateAttachment |-> <<"CreateAttachmentRequest", "Attachment">>,
     ListAttachments |-> <<"ListAttachmentsRequest", "ListAttachmentsResponse">>,
     GetAttachment |-> <<"GetAttachmentRequest", "Attachment">>,
     GetAttachmentBinary |-> <<"GetAttachmentBinaryRequest", "HttpBody">>,
     UpdateAttachment |-> <<"UpdateAttachmentRequest", "Attachment">>,
     DeleteAttachment |-> <<"DeleteAttachmentRequest", "Empty">>]

\* activity_service.pb.go
ActivityMessages ==
    [Activity |->
         [name |-> Str(1), creator |-> Str(2), type |-> Enum(3, "Activity_Type"),
          level |-> Enum(4, "Activity_Level"), createTime |-> Msg(5, "Timestamp"),
          payload |-> Msg(6, "ActivityPayload")],
     ActivityPayload |-> [memoComment |-> OneMsg(1, "ActivityMemoCommentPayload")],
     ActivityMemoCommentPayload |-> [memo |-> Str(1), relatedMemo |-> Str(2)],
     ListActivitiesRequest |-> [pageSize |-> Int(1), pageToken |-> Str(2)],
     ListActivitiesResponse |->
         [activities |-> ManyMsg(1, "Activity"), nextPageToken |-> Str(2)],
     GetActivityRequest |-> [name |-> Str(1)]]
ActivityEnums ==
    [Activity_Type |-> [TYPE_UNSPECIFIED |-> 0, MEMO_COMMENT |-> 1, VERSION_UPDATE |-> 2],
     Activity_Level |-> [LEVEL_UNSPECIFIED |-> 0, INFO |-> 1, WARN |-> 2, ERROR |-> 3]]
ActivityServiceServer ==
    [ListActivities |-> <<"ListActivitiesRequest", "ListActivitiesResponse">>,
     GetActivity |-> <<"GetActivityRequest", "Activity">>]

\* inbox_service.pb.go
InboxMessages ==
    [Inbox |->
         [name |-> Str(1), sender |-> Str(2), receiver |-> Str(3),
          status |-> Enum(4, "Inbox_Status"), createTime |-> Msg(5, "Timestamp"),
          type |-> Enum(6, "Inbox_Type"), activityId |-> OptInt(7)],
     ListInboxesRequest |->
         [parent |-> Str(1), pageSize |-> Int(2), pageToken |-> Str(3), filter |-> Str(4),
          orderBy |-> Str(5)],
     ListInboxesResponse |->
         [inboxes |-> ManyMsg(1, "Inbox"), nextPageToken |-> Str(2), totalSize |-> Int(3)],
     UpdateInboxRequest |->
         [inbox |-> Msg(1, "Inbox"), updateMask |-> Msg(2, "FieldMask"),
          allowMissing |-> Bool(3)],
     DeleteInboxRequest |-> [name |-> Str(1)]]
InboxEnums ==
    [Inbox_Status |-> [STATUS_UNSPECIFIED |-> 0, UNREAD |-> 1, ARCHIVED |-> 2],
     Inbox_Type |-> [TYPE_UNSPECIFIED |-> 0, MEMO_COMMENT |-> 1, VERSION_UPDATE |-> 2]]
InboxServiceServer ==
    [ListInboxes |-> <<"ListInboxesRequest", "ListInboxesResponse">>,
     UpdateInbox |-> <<"UpdateInboxRequest", "Inbox">>,
     DeleteInbox |-> <<"DeleteInboxRequest", "Empty">>]

\* common.pb.go
CommonMessages ==
    [PageToken |-> [limit |-> Int(1), offset |-> Int(2)]]
CommonEnums ==
    [State |-> [STATE_UNSPECIFIED |-> 0, NORMAL |-> 1, ARCHIVED |-> 2],
     Direction |-> [DIRECTION_UNSPECIFIED |-> 0, ASC |-> 1, DESC |-> 2]]

\* user_service.pb.go
UserMessages ==
    [User |->
         [name |-> Str(1), role |-> Enum(2, "User_Role"), username |-> Str(3),
          email |-> Str(4), displayName |-> Str(5), avatarUrl |-> Str(6),
          description |-> Str(7), password |-> Str(8), state |-> Enum(9, "State"),
          createTime |-> Msg(10, "Timestamp"), updateTime |-> Msg(11, "Timestamp")],
     ListUsersRequest |->
         [pageSize |-> Int(1), pageToken |-> Str(2), filter |-> Str(3),
          showDeleted |-> Bool(4)],
     ListUsersResponse |->
         [users |-> ManyMsg(1, "User"), nextPageToken |-> Str(2), totalSize |-> Int(3)],
     GetUserRequest |-> [name |-> Str(1), readMask |-> Msg(2, "FieldMask")],
     CreateUserRequest |->
         [user |-> Msg(1, "User"), userId |-> Str(2), validateOnly |-> Bool(3),
          requestId |-> Str(4)],
     UpdateUserRequest |->
         [user |-> Msg(1, "User"), updateMask |-> Msg(2, "FieldMask"),
          allowMissing |-> Bool(3)],
     DeleteUserRequest |-> [name |-> Str(1), force |-> Bool(2)],
     GetUserAvatarRequest |-> [name |-> Str(1)],
     UserStats_TagCountEntry |-> [key |-> Str(1), value |-> Int(2)],
     UserStats |->
         [name |-> Str(1), memoDisplayTimestamps |-> ManyMsg(2, "Timestamp"),
          memoTypeStats |-> Msg(3, "UserStats_MemoTypeStats"),
          tagCount |-> ManyMsg(4, "UserStats_TagCountEntry"), pinnedMemos |-> ManyStr(5),
          totalMemoCount |-> Int(6)],
     GetUserStatsRequest |-> [name |-> Str(1)],
     ListAllUserStatsRequest |-> << >>,
     ListAllUserStatsResponse |-> [stats |-> ManyMsg(1, "UserStats")],
     UserSetting |->
         [name |-> Str(1), generalSetting |-> OneMsg(2, "UserSetting_GeneralSetting"),
          sessionsSetting |-> OneMsg(3, "UserSetting_SessionsSetting"),
          accessTokensSetting |-> OneMsg(4, "UserSetting_AccessTokensSetting"),
          webhooksSetting |-> OneMsg(5, "UserSetting_WebhooksSetting")],
     GetUserSettingRequest |-> [name |-> Str(1)],
     UpdateUserSettingRequest |->
         [setting |-> Msg(1, "UserSetting"), updateMask |-> Msg(2, "FieldMask")],
     ListUserSettingsRequest |-> [parent |-> Str(1), pageSize |-> Int(2), pageToken |-> Str(3)],
     ListUserSettingsResponse |->
         [settings |-> ManyMsg(1, "UserSetting"), nextPageToken |-> Str(2),
          totalSize |-> Int(3)],
     UserAccessToken |->
         [name |-> Str(1), accessToken |-> Str(2), description |-> Str(3),
          issuedAt |-> Msg(4, "Timestamp"), expiresAt |-> Msg(5, "Timestamp")],
     ListUserAccessTokensRequest |->
         [parent |-> Str(1), pageSize |-> Int(2), pageToken |-> Str(3)],
     ListUserAccessTokensResponse |->
         [accessTokens |-> ManyMsg(1, "UserAccessToken"), nextPageToken |-> Str(2),
          totalSize |-> Int(3)],
     CreateUserAccessTokenRequest |->
         [parent |-> Str(1), accessToken |-> Msg(2, "UserAccessToken"),
          accessTokenId |-> Str(3)],
     DeleteUserAccessTokenRequest |-> [name |-> Str(1)],
     UserSession |->
         [name |-> Str(1), sessionId |-> Str(2), createTime |-> Msg(3, "Timestamp"),
          lastAccessedTime |-> Msg(4, "Timestamp"),
          clientInfo |-> Msg(5, "UserSession_ClientInfo")],
     ListUserSessionsRequest |-> [parent |-> Str(1)],
     ListUserSessionsResponse |-> [sessions |-> ManyMsg(1, "UserSession")],
     RevokeUserSessionRequest |-> [name |-> Str(1)],
     UserWebhook |->
         [name |-> Str(1), url |-> Str(2), displayName |-> Str(3),
          createTime |-> Msg(4, "Timestamp"), updateTime |-> Msg(5, "Timestamp")],
     ListUserWebhooksRequest |-> [parent |-> Str(1)],
     ListUserWebhooksResponse |-> [webhooks |-> ManyMsg(1, "UserWebhook")],
     CreateUserWebhookRequest |-> [parent |-> Str(1), webhook |-> Msg(2, "UserWebhook")],
     UpdateUserWebhookRequest |->
         [webhook |-> Msg(1, "UserWebhook"), updateMask |-> Msg(2, "FieldMask")],
     DeleteUserWebhookRequest |-> [name |-> Str(1)],
     UserStats_MemoTypeStats |->
         [linkCount |-> Int(1), codeCount |-> Int(2), todoCount |-> Int(3),
          undoCount |-> Int(4)],
     UserSetting_GeneralSetting |->
         [locale |-> Str(1), memoVisibility |-> Str(3), theme |-> Str(4)],
     UserSetting_SessionsSetting |-> [sessions |-> ManyMsg(1, "UserSession")],
     UserSetting_AccessTokensSetting |-> [accessTokens |-> ManyMsg(1, "UserAccessToken")],
     UserSetting_WebhooksSetting |-> [webhooks |-> ManyMsg(1, "UserWebhook")],
     UserSession_ClientInfo |->
         [userAgent |-> Str(1), ipAddress |-> Str(2), deviceType |-> Str(3), os |-> Str(4),
          browser |-> Str(5)]]
UserEnums ==
    [User_Role |-> [ROLE_UNSPECIFIED |-> 0, HOST |-> 1, ADMIN |-> 2, USER |-> 3],
     UserSetting_Key |->
         [KEY_UNSPECIFIED |-> 0, GENERAL |-> 1, SESSIONS |-> 2, ACCESS_TOKENS |-> 3,
          WEBHOOKS |-> 4]]
UserServiceServer ==
    [ListUsers |-> <<"ListUsersRequest", "ListUsersResponse">>,
     GetUser |-> <<"GetUserRequest", "User">>, CreateUser |-> <<"CreateUserRequest", "User">>,
     UpdateUser |-> <<"UpdateUserRequest", "User">>,
     DeleteUser |-> <<"DeleteUserRequest", "Empty">>,
     GetUserAvatar |-> <<"GetUserAvatarRequest", "HttpBody">>,
     ListAllUserStats |-> <<"ListAllUserStatsRequest", "ListAllUserStatsResponse">>,
     GetUserStats |-> <<"GetUserStatsRequest", "UserStats">>,
     GetUserSetting |-> <<"GetUserSettingRequest", "UserSetting">>,
     UpdateUserSetting |-> <<"UpdateUserSettingRequest", "UserSetting">>,
     ListUserSettings |-> <<"ListUserSettingsRequest", "ListUserSettingsResponse">>,
     ListUserAccessTokens |-> <<"ListUserAccessTokensRequest", "ListUserAccessTokensResponse">>,
     CreateUserAccessToken |-> <<"CreateUserAccessTokenRequest", "UserAccessToken">>,
     DeleteUserAccessToken |-> <<"DeleteUserAccessTokenRequest", "Empty">>,
     ListUserSessions |-> <<"ListUserSessionsRequest", "ListUserSessionsResponse">>,
     RevokeUserSession |-> <<"RevokeUserSessionRequest", "Empty">>,
     ListUserWebhooks |-> <<"ListUserWebhooksRequest", "ListUserWebhooksResponse">>,
     CreateUserWebhook |-> <<"CreateUserWebhookRequest", "UserWebhook">>,
     UpdateUserWebhook |-> <<"UpdateUserWebhookRequest", "UserWebhook">>,
     DeleteUserWebhook |-> <<"DeleteUserWebhookRequest", "Empty">>]

\* auth_service.pb.go
AuthMessages ==
    [GetCurrentSessionRequest |-> << >>,
     GetCurrentSessionResponse |->
         [user |-> Msg(1, "User"), lastAccessedAt |-> Msg(2, "Timestamp")],
     CreateSessionRequest |->
         [passwordCredentials |-> OneMsg(1, "CreateSessionRequest_PasswordCredentials"),
          ssoCredentials |-> OneMsg(2, "CreateSessionRequest_SSOCredentials")],
     CreateSessionResponse |-> [user |-> Msg(1, "User"), lastAccessedAt |-> Msg(2, "Timestamp")],
     DeleteSessionRequest |-> << >>,
     CreateSessionRequest_PasswordCredentials |-> [username |-> Str(1), password |-> Str(2)],
     CreateSessionRequest_SSOCredentials |->
         [idpId |-> Int(1), code |-> Str(2), redirectUri |-> Str(3)]]
AuthServiceServer ==
    [GetCurrentSession |-> <<"GetCurrentSessionRequest", "GetCurrentSessionResponse">>,
     CreateSession |-> <<"CreateSessionRequest", "CreateSessionResponse">>,
     DeleteSession |-> <<"DeleteSessionRequest", "Empty">>]

\* idp_service.pb.go
IdpMessages ==
    [IdentityProvider |->
         [name |-> Str(1), type |-> Enum(2, "IdentityProvider_Type"), title |-> Str(3),
          identifierFilter |-> Str(4), config |-> Msg(5, "IdentityProviderConfig")],
     IdentityProviderConfig |-> [oauth2Config |-> OneMsg(1, "OAuth2Config")],
     FieldMapping |->
         [identifier |-> Str(1), displayName |-> Str(2), email |-> Str(3),
          avatarUrl |-> Str(4)],
     OAuth2Config |->
         [clientId |-> Str(1), clientSecret |-> Str(2), authUrl |-> Str(3),
          tokenUrl |-> Str(4), userInfoUrl |-> Str(5), scopes |-> ManyStr(6),
          fieldMapping |-> Msg(7, "FieldMapping")],
     ListIdentityProvidersRequest |-> << >>,
     ListIdentityProvidersResponse |-> [identityProviders |-> ManyMsg(1, "IdentityProvider")],
     GetIdentityProviderRequest |-> [name |-> Str(1)],
     CreateIdentityProviderRequest |->
         [identityProvider |-> Msg(1, "IdentityProvider"), identityProviderId |-> Str(2)],
     UpdateIdentityProviderRequest |->
         [identityProvider |-> Msg(1, "IdentityProvider"), updateMask |-> Msg(2, "FieldMask")],
     DeleteIdentityProviderRequest |-> [name |-> Str(1)]]
IdpEnums ==
    [IdentityProvider_Type |-> [TYPE_UNSPECIFIED |-> 0, OAUTH2 |-> 1]]
IdentityProviderServiceServer ==
    [ListIdentityProviders |-> <<"ListIdentityProvidersRequest", "ListIdentityProvidersResponse">>,
     GetIdentityProvider |-> <<"GetIdentityProviderRequest", "IdentityProvider">>,
     CreateIdentityProvider |-> <<"CreateIdentityProviderRequest", "IdentityProvider">>,
     UpdateIdentityProvider |-> <<"UpdateIdentityProviderRequest", "IdentityProvider">>,
     DeleteIdentityProvider |-> <<"DeleteIdentityProviderRequest", "Empty">>]

\* shortcut_service.pb.go
ShortcutMessages ==
    [Shortcut |-> [name |-> Str(1), title |-> Str(2), filter |-> Str(3)],
     ListShortcutsRequest |-> [parent |-> Str(1)],
     ListShortcutsResponse |-> [shortcuts |-> ManyMsg(1, "Shortcut")],
     GetShortcutRequest |-> [name |-> Str(1)],
     CreateShortcutRequest |->
         [parent |-> Str(1), shortcut |-> Msg(2, "Shortcut"), validateOnly |-> Bool(3)],
     UpdateShortcutRequest |->
         [shortcut |-> Msg(1, "Shortcut"), updateMask |-> Msg(2, "FieldMask")],
     DeleteShortcutRequest |-> [name |-> Str(1)]]
ShortcutServiceServer ==
    [ListShortcuts |-> <<"ListShortcutsRequest", "ListShortcutsResponse">>,
     GetShortcut |-> <<"GetShortcutRequest", "Shortcut">>,
     CreateShortcut |-> <<"CreateShortcutRequest", "Shortcut">>,
     UpdateShortcut |-> <<"UpdateShortcutRequest", "Shortcut">>,
     DeleteShortcut |-> <<"DeleteShortcutRequest", "Empty">>]

\* markdown_service.pb.go
MarkdownMessages ==
    [ParseMarkdownRequest |-> [markdown |-> Str(1)],
     ParseMarkdownResponse |-> [nodes |-> ManyMsg(1, "Node")],
     RestoreMarkdownNodesRequest |-> [nodes |-> ManyMsg(1, "Node")],
     RestoreMarkdownNodesResponse |-> [markdown |-> Str(1)],
     StringifyMarkdownNodesRequest |-> [nodes |-> ManyMsg(1, "Node")],
     StringifyMarkdownNodesResponse |-> [plainText |-> Str(1)],
     GetLinkMetadataRequest |-> [link |-> Str(1)],
     LinkMetadata |-> [title |-> Str(1), description |-> Str(2), image |-> Str(3)],
     Node |->
         [type |-> Enum(1, "NodeType"), lineBreakNode |-> OneMsg(11, "LineBreakNode"),
          paragraphNode |-> OneMsg(12, "ParagraphNode"),
          codeBlockNode |-> OneMsg(13, "CodeBlockNode"),
          headingNode |-> OneMsg(14, "HeadingNode"),
          horizontalRuleNode |-> OneMsg(15, "HorizontalRuleNode"),
          blockquoteNode |-> OneMsg(16, "BlockquoteNode"), listNode |-> OneMsg(17, "ListNode"),
          orderedListItemNode |-> OneMsg(18, "OrderedListItemNode"),
          unorderedListItemNode |-> OneMsg(19, "UnorderedListItemNode"),
          taskListItemNode |-> OneMsg(20, "TaskListItemNode"),
          mathBlockNode |-> OneMsg(21, "MathBlockNode"), tableNode |-> OneMsg(22, "TableNode"),
          embeddedContentNode |-> OneMsg(23, "EmbeddedContentNode"),
          textNode |-> OneMsg(51, "TextNode"), boldNode |-> OneMsg(52, "BoldNode"),
          italicNode |-> OneMsg(53, "ItalicNode"),
          boldItalicNode |-> OneMsg(54, "BoldItalicNode"), codeNode |-> OneMsg(55, "CodeNode"),
          imageNode |-> OneMsg(56, "ImageNode"), linkNode |-> OneMsg(57, "LinkNode"),
          autoLinkNode |-> OneMsg(58, "AutoLinkNode"), tagNode |-> OneMsg(59, "TagNode"),
          strikethroughNode |-> OneMsg(60, "StrikethroughNode"),
          escapingCharacterNode |-> OneMsg(61, "EscapingCharacterNode"),
          mathNode |-> OneMsg(62, "MathNode"), highlightNode |-> OneMsg(63, "HighlightNode"),
          subscriptNode |-> OneMsg(64, "SubscriptNode"),
          superscriptNode |-> OneMsg(65, "SuperscriptNode"),
          referencedContentNode |-> OneMsg(66, "ReferencedContentNode"),
          spoilerNode |-> OneMsg(67, "SpoilerNode"),
          htmlElementNode |-> OneMsg(68, "HTMLElementNode")],
     LineBreakNode |-> << >>,
     ParagraphNode |-> [children |-> ManyMsg(1, "Node")],
     CodeBlockNode |-> [language |-> Str(1), content |-> Str(2)],
     HeadingNode |-> [level |-> Int(1), children |-> ManyMsg(2, "Node")],
     HorizontalRuleNode |-> [symbol |-> Str(1)],
     BlockquoteNode |-> [children |-> ManyMsg(1, "Node")],
     ListNode |->
         [kind |-> Enum(1, "ListNode_Kind"), indent |-> Int(2),
          children |-> ManyMsg(3, "Node")],
     OrderedListItemNode |->
         [number |-> Str(1), indent |-> Int(2), children |-> ManyMsg(3, "Node")],
     UnorderedListItemNode |->
         [symbol |-> Str(1), indent |-> Int(2), children |-> ManyMsg(3, "Node")],
     TaskListItemNode |->
         [symbol |-> Str(1), indent |-> Int(2), complete |-> Bool(3),
          children |-> ManyMsg(4, "Node")],
     MathBlockNode |-> [content |-> Str(1)],
     TableNode |->
         [header |-> ManyMsg(1, "Node"), delimiter |-> ManyStr(2),
          rows |-> ManyMsg(3, "TableNode_Row")],
     EmbeddedContentNode |-> [resourceName |-> Str(1), params |-> Str(2)],
     TextNode |-> [content |-> Str(1)],
     BoldNode |-> [symbol |-> Str(1), children |-> ManyMsg(2, "Node")],
     ItalicNode |-> [symbol |-> Str(1), children |-> ManyMsg(2, "Node")],
     BoldItalicNode |-> [symbol |-> Str(1), content |-> Str(2)],
     CodeNode |-> [content |-> Str(1)],
     ImageNode |-> [altText |-> Str(1), url |-> Str(2)],
     LinkNode |-> [content |-> ManyMsg(1, "Node"), url |-> Str(2)],
     AutoLinkNode |-> [url |-> Str(1), isRawText |-> Bool(2)],
     TagNode |-> [content |-> Str(1)],
     StrikethroughNode |-> [content |-> Str(1)],
     EscapingCharacterNode |-> [symbol |-> Str(1)],
     MathNode |-> [content |-> Str(1)],
     HighlightNode |-> [content |-> Str(1)],
     SubscriptNode |-> [content |-> Str(1)],
     SuperscriptNode |-> [content |-> Str(1)],
     ReferencedContentNode |-> [resourceName |-> Str(1), params |-> Str(2)],
     SpoilerNode |-> [content |-> Str(1)],
     HTMLElementNode_AttributesEntry |-> [key |-> Str(1), value |-> Str(2)],
     HTMLElementNode |->
         [tagName |-> Str(1), attributes |-> ManyMsg(2, "HTMLElementNode_AttributesEntry")],
     TableNode_Row |-> [cells |-> ManyMsg(1, "Node")]]
MarkdownEnums ==
    [NodeType |->
         [NODE_UNSPECIFIED |-> 0, LINE_BREAK |-> 1, PARAGRAPH |-> 2, CODE_BLOCK |-> 3,
          HEADING |-> 4, HORIZONTAL_RULE |-> 5, BLOCKQUOTE |-> 6, LIST |-> 7,
          ORDERED_LIST_ITEM |-> 8, UNORDERED_LIST_ITEM |-> 9, TASK_LIST_ITEM |-> 10,
          MATH_BLOCK |-> 11, TABLE |-> 12, EMBEDDED_CONTENT |-> 13, TEXT |-> 51, BOLD |-> 52,
          ITALIC |-> 53, BOLD_ITALIC |-> 54, CODE |-> 55, IMAGE |-> 56, LINK |-> 57,
          AUTO_LINK |-> 58, TAG |-> 59, STRIKETHROUGH |-> 60, ESCAPING_CHARACTER |-> 61,
          MATH |-> 62, HIGHLIGHT |-> 63, SUBSCRIPT |-> 64, SUPERSCRIPT |-> 65,
          REFERENCED_CONTENT |-> 66, SPOILER |-> 67, HTML_ELEMENT |-> 68],
     ListNode_Kind |->
         [KIND_UNSPECIFIED |-> 0, ORDERED |-> 1, UNORDERED |-> 2, DESCRIPTION |-> 3]]
MarkdownServiceServer ==
    [ParseMarkdown |-> <<"ParseMarkdownRequest", "ParseMarkdownResponse">>,
     RestoreMarkdownNodes |-> <<"RestoreMarkdownNodesRequest", "RestoreMarkdownNodesResponse">>,
     StringifyMarkdownNodes |-> <<"StringifyMarkdownNodesRequest", "StringifyMarkdownNodesResponse">>,
     GetLinkMetadata |-> <<"GetLinkMetadataRequest", "LinkMetadata">>]

\* workspace_service.pb.go
WorkspaceMessages ==
    [WorkspaceProfile |->
         [owner |-> Str(1), version |-> Str(2), mode |-> Str(3), instanceUrl |-> Str(6)],
     GetWorkspaceProfileRequest |-> << >>,
     WorkspaceSetting |->
         [name |-> Str(1), generalSetting |-> OneMsg(2, "WorkspaceSetting_GeneralSetting"),
          storageSetting |-> OneMsg(3, "WorkspaceSetting_StorageSetting"),
          memoRelatedSetting |-> OneMsg(4, "WorkspaceSetting_MemoRelatedSetting")],
     GetWorkspaceSettingRequest |-> [name |-> Str(1)],
     UpdateWorkspaceSettingRequest |->
         [setting |-> Msg(1, "WorkspaceSetting"), updateMask |-> Msg(2, "FieldMask")],
     WorkspaceSetting_GeneralSetting |->
         [theme |-> Str(1), disallowUserRegistration |-> Bool(2),
          disallowPasswordAuth |-> Bool(3), additionalScript |-> Str(4),
          additionalStyle |-> Str(5),
          customProfile |-> Msg(6, "WorkspaceSetting_GeneralSetting_CustomProfile"),
          weekStartDayOffset |-> Int(7), disallowChangeUsername |-> Bool(8),
          disallowChangeNickname |-> Bool(9)],
     WorkspaceSetting_StorageSetting |->
         [storageType |-> Enum(1, "WorkspaceSetting_StorageSetting_StorageType"),
          filepathTemplate |-> Str(2), uploadSizeLimitMb |-> Long(3),
          s3Config |-> Msg(4, "WorkspaceSetting_StorageSetting_S3Config")],
     WorkspaceSetting_MemoRelatedSetting |->
         [disallowPublicVisibility |-> Bool(1), displayWithUpdateTime |-> Bool(2),
          contentLengthLimit |-> Int(3), enableDoubleClickEdit |-> Bool(4),
          enableLinkPreview |-> Bool(5), reactions |-> ManyStr(7),
          disableMarkdownShortcuts |-> Bool(8), enableBlurNsfwContent |-> Bool(9),
          nsfwTags |-> ManyStr(10)],
     WorkspaceSetting_GeneralSetting_CustomProfile |->
         [title |-> Str(1), description |-> Str(2), logoUrl |-> Str(3), locale |-> Str(4)],
     WorkspaceSetting_StorageSetting_S3Config |->
         [accessKeyId |-> Str(1), accessKeySecret |-> Str(2), endpoint |-> Str(3),
          region |-> Str(4), bucket |-> Str(5), usePathStyle |-> Bool(6)]]
WorkspaceEnums ==
    [WorkspaceSetting_Key |->
         [KEY_UNSPECIFIED |-> 0, GENERAL |-> 1, STORAGE |-> 2, MEMO_RELATED |-> 3],
     WorkspaceSetting_StorageSetting_StorageType |->
         [STORAGE_TYPE_UNSPECIFIED |-> 0, DATABASE |-> 1, LOCAL_ |-> 2, S3 |-> 3]]
WorkspaceServiceServer ==
    [GetWorkspaceProfile |-> <<"GetWorkspaceProfileRequest", "WorkspaceProfile">>,
     GetWorkspaceSetting |-> <<"GetWorkspaceSettingRequest", "WorkspaceSetting">>,
     UpdateWorkspaceSetting |-> <<"UpdateWorkspaceSettingRequest", "WorkspaceSetting">>]

\* google.golang.org/protobuf and genproto
WellKnown ==
    [Any |-> [typeUrl |-> Str(1), value |-> Bytes(2)],
     Duration |-> [seconds |-> Long(1), nanos |-> Int(2)],
     Empty |-> << >>,
     FieldMask |-> [paths |-> ManyStr(1)],
     Timestamp |-> [seconds |-> Long(1), nanos |-> Int(2)],
     HttpBody |-> [contentType |-> Str(1), data |-> Bytes(2), extensions |-> ManyMsg(3, "Any")]]

Message ==
    MemoMessages @@ AttachmentMessages @@ ActivityMessages @@ InboxMessages @@ CommonMessages @@
     UserMessages @@ AuthMessages @@ IdpMessages @@ ShortcutMessages @@ MarkdownMessages @@
     WorkspaceMessages @@ WellKnown
EnumOf ==
    MemoEnums @@ ActivityEnums @@ InboxEnums @@ CommonEnums @@ UserEnums @@ IdpEnums @@ MarkdownEnums @@
     WorkspaceEnums
Service ==
    [MemoService |-> MemoServiceServer, AttachmentService |-> AttachmentServiceServer,
     ActivityService |-> ActivityServiceServer, InboxService |-> InboxServiceServer,
     UserService |-> UserServiceServer, AuthService |-> AuthServiceServer,
     IdentityProviderService |-> IdentityProviderServiceServer,
     ShortcutService |-> ShortcutServiceServer, MarkdownService |-> MarkdownServiceServer,
     WorkspaceService |-> WorkspaceServiceServer]
=============================================================================
