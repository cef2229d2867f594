---------------------------- MODULE ApiWorkspace ----------------------------
(* Workspace settings and the well-known types: the page's codec of each message. *)
EXTENDS ApiFields

\* api/v1/workspace_service.ts
WorkspaceSetting_Key ==
    [KEY_UNSPECIFIED |-> 0, GENERAL |-> 1, STORAGE |-> 2, MEMO_RELATED |-> 3]
WorkspaceSetting_StorageSetting_StorageType ==
    [STORAGE_TYPE_UNSPECIFIED |-> 0, DATABASE |-> 1, LOCAL_ |-> 2, S3 |-> 3]
WorkspaceProfile ==
    [owner |-> Str(1), version |-> Str(2), mode |-> Str(3), instanceUrl |-> Str(6)]
GetWorkspaceProfileRequest == << >>
WorkspaceSetting ==
    [name |-> Str(1), generalSetting |-> Msg(2, "WorkspaceSetting_GeneralSetting"),
     storageSetting |-> Msg(3, "WorkspaceSetting_StorageSetting"),
     memoRelatedSetting |-> Msg(4, "WorkspaceSetting_MemoRelatedSetting")]
WorkspaceSetting_GeneralSetting ==
    [theme |-> Str(1), disallowUserRegistration |-> Bool(2), disallowPasswordAuth |-> Bool(3),
     additionalScript |-> Str(4), additionalStyle |-> Str(5),
     customProfile |-> Msg(6, "WorkspaceSetting_GeneralSetting_CustomProfile"),
     weekStartDayOffset |-> Int(7), disallowChangeUsername |-> Bool(8),
     disallowChangeNickname |-> Bool(9)]
WorkspaceSetting_GeneralSetting_CustomProfile ==
    [title |-> Str(1), description |-> Str(2), logoUrl |-> Str(3), locale |-> Str(4)]
WorkspaceSetting_StorageSetting ==
    [storageType |-> Enum(1, "WorkspaceSetting_StorageSetting_StorageType"),
     filepathTemplate |-> Str(2), uploadSizeLimitMb |-> Long(3),
     s3Config |-> Msg(4, "WorkspaceSetting_StorageSetting_S3Config")]
WorkspaceSetting_StorageSetting_S3Config ==
    [accessKeyId |-> Str(1), accessKeySecret |-> Str(2), endpoint |-> Str(3),
     region |-> Str(4), bucket |-> Str(5), usePathStyle |-> Bool(6)]
WorkspaceSetting_MemoRelatedSetting ==
    [disallowPublicVisibility |-> Bool(1), displayWithUpdateTime |-> Bool(2),
     contentLengthLimit |-> Int(3), enableDoubleClickEdit |-> Bool(4),
     enableLinkPreview |-> Bool(5), reactions |-> ManyStr(7),
     disableMarkdownShortcuts |-> Bool(8), enableBlurNsfwContent |-> Bool(9),
     nsfwTags |-> ManyStr(10)]
GetWorkspaceSettingRequest == [name |-> Str(1)]
UpdateWorkspaceSettingRequest ==
    [setting |-> Msg(1, "WorkspaceSetting"), updateMask |-> Msg(2, "FieldMask")]
WorkspaceServiceDefinition ==
    [GetWorkspaceProfile |-> <<"GetWorkspaceProfileRequest", "WorkspaceProfile">>,
     GetWorkspaceSetting |-> <<"GetWorkspaceSettingRequest", "WorkspaceSetting">>,
     UpdateWorkspaceSetting |-> <<"UpdateWorkspaceSettingRequest", "WorkspaceSetting">>]

\* google/protobuf/any.ts
Any_ == [typeUrl |-> Str(1), value |-> Bytes(2)]

\* google/protobuf/duration.ts
Duration == [seconds |-> Long(1), nanos |-> Int(2)]

\* google/protobuf/empty.ts
Empty == << >>

\* google/protobuf/field_mask.ts
FieldMask == [paths |-> ManyStr(1)]

\* google/protobuf/timestamp.ts
Timestamp == [seconds |-> Long(1), nanos |-> Int(2)]

\* google/api/httpbody.ts
HttpBody == [contentType |-> Str(1), data |-> Bytes(2), extensions |-> ManyMsg(3, "Any")]

WorkspaceTypes ==
    [WorkspaceProfile |-> WorkspaceProfile,
     GetWorkspaceProfileRequest |-> GetWorkspaceProfileRequest,
     WorkspaceSetting |-> WorkspaceSetting,
     WorkspaceSetting_GeneralSetting |-> WorkspaceSetting_GeneralSetting,
     WorkspaceSetting_GeneralSetting_CustomProfile |-> WorkspaceSetting_GeneralSetting_CustomProfile,
     WorkspaceSetting_StorageSetting |-> WorkspaceSetting_StorageSetting,
     WorkspaceSetting_StorageSetting_S3Config |-> WorkspaceSetting_StorageSetting_S3Config,
     WorkspaceSetting_MemoRelatedSetting |-> WorkspaceSetting_MemoRelatedSetting,
     GetWorkspaceSettingRequest |-> GetWorkspaceSettingRequest,
     UpdateWorkspaceSettingRequest |-> UpdateWorkspaceSettingRequest, Any |-> Any_,
     Duration |-> Duration, Empty |-> Empty, FieldMask |-> FieldMask, Timestamp |-> Timestamp,
     HttpBody |-> HttpBody]
WorkspaceEnums ==
    [WorkspaceSetting_Key |-> WorkspaceSetting_Key,
     WorkspaceSetting_StorageSetting_StorageType |-> WorkspaceSetting_StorageSetting_StorageType]
WorkspaceServices == [WorkspaceService |-> WorkspaceServiceDefinition]
=============================================================================
