------------------------------ MODULE ApiMemos ------------------------------
(* Memos, attachments, activities, inboxes: the page's codec of each message. *)
EXTENDS ApiFields

\* api/v1/memo_service.ts
Visibility == [VISIBILITY_UNSPECIFIED |-> 0, PRIVATE |-> 1, PROTECTED |-> 2, PUBLIC |-> 3]
MemoRelation_Type == [TYPE_UNSPECIFIED |-> 0, REFERENCE |-> 1, COMMENT |-> 2]
Reaction ==
    [name |-> Str(1), creator |-> Str(2), contentId |-> Str(3), reactionType |-> Str(4),
     createTime |-> Msg(5, "Timestamp")]
Memo ==
    [name |-> Str(1), state |-> Enum(2, "State"), creator |-> Str(3),
     createTime |-> Msg(4, "Timestamp"), updateTime |-> Msg(5, "Timestamp"),
     displayTime |-> Msg(6, "Timestamp"), content |-> Str(7), nodes |-> ManyMsg(8, "Node"),
     visibility |-> Enum(9, "Visibility"), tags |-> ManyStr(10), pinned |-> Bool(11),
     attachments |-> ManyMsg(12, "Attachment"), relations |-> ManyMsg(13, "MemoRelation"),
     reactions |-> ManyMsg(14, "Reaction"), property |-> Msg(15, "Memo_Property"),
     parent |-> OptStr(16), snippet |-> Str(17), location |-> Msg(18, "Location")]
Memo_Property ==
    [hasLink |-> Bool(1), hasTaskList |-> Bool(2), hasCode |-> Bool(3),
     hasIncompleteTasks |-> Bool(4)]
Location == [placeholder |-> Str(1), latitude |-> Double(2), longitude |-> Double(3)]
CreateMemoRequest ==
    [memo |-> Msg(1, "Memo"), memoId |-> Str(2), validateOnly |-> Bool(3),
     requestId |-> Str(4)]
ListMemosRequest ==
    [pageSize |-> Int(1), pageToken |-> Str(2), state |-> Enum(3, "State"), orderBy |-> Str(4),
     filter |-> Str(5), showDeleted |-> Bool(6)]
ListMemosResponse ==
    [memos |-> ManyMsg(1, "Memo"), nextPageToken |-> Str(2), totalSize |-> Int(3)]
GetMemoRequest == [name |-> Str(1), readMask |-> Msg(2, "FieldMask")]
UpdateMemoRequest ==
    [memo |-> Msg(1, "Memo"), updateMask |-> Msg(2, "FieldMask"), allowMissing |-> Bool(3)]
DeleteMemoRequest == [name |-> Str(1), force |-> Bool(2)]
RenameMemoTagRequest == [parent |-> Str(1), oldTag |-> Str(2), newTag |-> Str(3)]
DeleteMemoTagRequest == [parent |-> Str(1), tag |-> Str(2), deleteRelatedMemos |-> Bool(3)]
SetMemoAttachmentsRequest == [name |-> Str(1), attachments |-> ManyMsg(2, "Attachment")]
ListMemoAttachmentsRequest == [name |-> Str(1), pageSize |-> Int(2), pageToken |-> Str(3)]
ListMemoAttachmentsResponse ==
    [attachments |-> ManyMsg(1, "Attachment"), nextPageToken |-> Str(2), totalSize |-> Int(3)]
MemoRelation ==
    [memo |-> Msg(1, "MemoRelation_Memo"), relatedMemo |-> Msg(2, "MemoRelation_Memo"),
     type |-> Enum(3, "MemoRelation_Type")]
MemoRelation_Memo == [name |-> Str(1), snippet |-> Str(2)]
SetMemoRelationsRequest == [name |-> Str(1), relations |-> ManyMsg(2, "MemoRelation")]
ListMemoRelationsRequest == [name |-> Str(1), pageSize |-> Int(2), pageToken |-> Str(3)]
ListMemoRelationsResponse ==
    [relations |-> ManyMsg(1, "MemoRelation"), nextPageToken |-> Str(2), totalSize |-> Int(3)]
CreateMemoCommentRequest == [name |-> Str(1), comment |-> Msg(2, "Memo"), commentId |-> Str(3)]
ListMemoCommentsRequest ==
    [name |-> Str(1), pageSize |-> Int(2), pageToken |-> Str(3), orderBy |-> Str(4)]
ListMemoCommentsResponse ==
    [memos |-> ManyMsg(1, "Memo"), nextPageToken |-> Str(2), totalSize |-> Int(3)]
ListMemoReactionsRequest == [name |-> Str(1), pageSize |-> Int(2), pageToken |-> Str(3)]
ListMemoReactionsResponse ==
    [reactions |-> ManyMsg(1, "Reaction"), nextPageToken |-> Str(2), totalSize |-> Int(3)]
UpsertMemoReactionRequest == [name |-> Str(1), reaction |-> Msg(2, "Reaction")]
DeleteMemoReactionRequest == [name |-> Str(1)]
MemoServiceDefinition ==
    [CreateMemo |-> <<"CreateMemoRequest", "Memo">>,
     ListMemos |-> <<"ListMemosRequest", "ListMemosResponse">>,
     GetMemo |-> <<"GetMemoRequest", "Memo">>, UpdateMemo |-> <<"UpdateMemoRequest", "Memo">>,
     DeleteMemo |-> <<"DeleteMemoRequest", "Empty">>,
     RenameMemoTag |-> <<"RenameMemoTagRequest", "Empty">>,
     DeleteMemoTag |-> <<"DeleteMemoTagRequest", "Empty">>,
     SetMemoAttachments |-> <<"SetMemoAttachmentsRequest", "Empty">>,
     ListMemoAttachments |-> <<"ListMemoAttachmentsRequest", "ListMemoAttachmentsResponse">>,
     SetMemoRelations |-> <<"SetMemoRelationsRequest", "Empty">>,
     ListMemoRelations |-> <<"ListMemoRelationsRequest", "ListMemoRelationsResponse">>,
     CreateMemoComment |-> <<"CreateMemoCommentRequest", "Memo">>,
     ListMemoComments |-> <<"ListMemoCommentsRequest", "ListMemoCommentsResponse">>,
     ListMemoReactions |-> <<"ListMemoReactionsRequest", "ListMemoReactionsResponse">>,
     UpsertMemoReaction |-> <<"UpsertMemoReactionRequest", "Reaction">>,
     DeleteMemoReaction |-> <<"DeleteMemoReactionRequest", "Empty">>]

\* api/v1/attachment_service.ts
Attachment ==
    [name |-> Str(1), createTime |-> Msg(2, "Timestamp"), filename |-> Str(3),
     content |-> Bytes(4), externalLink |-> Str(5), type |-> Str(6), size |-> Long(7),
     memo |-> OptStr(8)]
CreateAttachmentRequest == [attachment |-> Msg(1, "Attachment"), attachmentId |-> Str(2)]
ListAttachmentsRequest ==
    [pageSize |-> Int(1), pageToken |-> Str(2), filter |-> Str(3), orderBy |-> Str(4)]
ListAttachmentsResponse ==
    [attachments |-> ManyMsg(1, "Attachment"), nextPageToken |-> Str(2), totalSize |-> Int(3)]
GetAttachmentRequest == [name |-> Str(1)]
GetAttachmentBinaryRequest == [name |-> Str(1), filename |-> Str(2), thumbnail |-> Bool(3)]
UpdateAttachmentRequest ==
    [attachment |-> Msg(1, "Attachment"), updateMask |-> Msg(2, "FieldMask")]
DeleteAttachmentRequest == [name |-> Str(1)]
AttachmentServiceDefinition ==
    [CreateAttachment |-> <<"CreateAttachmentRequest", "Attachment">>,
     ListAttachments |-> <<"ListAttachmentsRequest", "ListAttachmentsResponse">>,
     GetAttachment |-> <<"GetAttachmentRequest", "Attachment">>,
     GetAttachmentBinary |-> <<"GetAttachmentBinaryRequest", "HttpBody">>,
     UpdateAttachment |-> <<"UpdateAttachmentRequest", "Attachment">>,
     DeleteAttachment |-> <<"DeleteAttachmentRequest", "Empty">>]

\* api/v1/activity_service.ts
Activity_Type == [TYPE_UNSPECIFIED |-> 0, MEMO_COMMENT |-> 1, VERSION_UPDATE |-> 2]
Activity_Level == [LEVEL_UNSPECIFIED |-> 0, INFO |-> 1, WARN |-> 2, ERROR |-> 3]
Activity ==
    [name |-> Str(1), creator |-> Str(2), type |-> Enum(3, "Activity_Type"),
     level |-> Enum(4, "Activity_Level"), createTime |-> Msg(5, "Timestamp"),
     payload |-> Msg(6, "ActivityPayload")]
ActivityPayload == [memoComment |-> Msg(1, "ActivityMemoCommentPayload")]
ActivityMemoCommentPayload == [memo |-> Str(1), relatedMemo |-> Str(2)]
ListActivitiesRequest == [pageSize |-> Int(1), pageToken |-> Str(2)]
ListActivitiesResponse == [activities |-> ManyMsg(1, "Activity"), nextPageToken |-> Str(2)]
GetActivityRequest == [name |-> Str(1)]
ActivityServiceDefinition ==
    [ListActivities |-> <<"ListActivitiesRequest", "ListActivitiesResponse">>,
     GetActivity |-> <<"GetActivityRequest", "Activity">>]

\* api/v1/inbox_service.ts
Inbox_Status == [STATUS_UNSPECIFIED |-> 0, UNREAD |-> 1, ARCHIVED |-> 2]
Inbox_Type == [TYPE_UNSPECIFIED |-> 0, MEMO_COMMENT |-> 1, VERSION_UPDATE |-> 2]
Inbox ==
    [name |-> Str(1), sender |-> Str(2), receiver |-> Str(3),
     status |-> Enum(4, "Inbox_Status"), createTime |-> Msg(5, "Timestamp"),
     type |-> Enum(6, "Inbox_Type"), activityId |-> OptInt(7)]
ListInboxesRequest ==
    [parent |-> Str(1), pageSize |-> Int(2), pageToken |-> Str(3), filter |-> Str(4),
     orderBy |-> Str(5)]
ListInboxesResponse ==
    [inboxes |-> ManyMsg(1, "Inbox"), nextPageToken |-> Str(2), totalSize |-> Int(3)]
UpdateInboxRequest ==
    [inbox |-> Msg(1, "Inbox"), updateMask |-> Msg(2, "FieldMask"), allowMissing |-> Bool(3)]
DeleteInboxRequest == [name |-> Str(1)]
InboxServiceDefinition ==
    [ListInboxes |-> <<"ListInboxesRequest", "ListInboxesResponse">>,
     UpdateInbox |-> <<"UpdateInboxRequest", "Inbox">>,
     DeleteInbox |-> <<"DeleteInboxRequest", "Empty">>]

\* api/v1/common.ts
State == [STATE_UNSPECIFIED |-> 0, NORMAL |-> 1, ARCHIVED |-> 2]
Direction == [DIRECTION_UNSPECIFIED |-> 0, ASC |-> 1, DESC |-> 2]
PageToken == [limit |-> Int(1), offset |-> Int(2)]

MemosTypes ==
    [Reaction |-> Reaction, Memo |-> Memo, Memo_Property |-> Memo_Property,
     Location |-> Location, CreateMemoRequest |-> CreateMemoRequest,
     ListMemosRequest |-> ListMemosRequest, ListMemosResponse |-> ListMemosResponse,
     GetMemoRequest |-> GetMemoRequest, UpdateMemoRequest |-> UpdateMemoRequest,
     DeleteMemoRequest |-> DeleteMemoRequest, RenameMemoTagRequest |-> RenameMemoTagRequest,
     DeleteMemoTagRequest |-> DeleteMemoTagRequest,
     SetMemoAttachmentsRequest |-> SetMemoAttachmentsRequest,
     ListMemoAttachmentsRequest |-> ListMemoAttachmentsRequest,
     ListMemoAttachmentsResponse |-> ListMemoAttachmentsResponse,
     MemoRelation |-> MemoRelation, MemoRelation_Memo |-> MemoRelation_Memo,
     SetMemoRelationsRequest |-> SetMemoRelationsRequest,
     ListMemoRelationsRequest |-> ListMemoRelationsRequest,
     ListMemoRelationsResponse |-> ListMemoRelationsResponse,
     CreateMemoCommentRequest |-> CreateMemoCommentRequest,
     ListMemoCommentsRequest |-> ListMemoCommentsRequest,
     ListMemoCommentsResponse |-> ListMemoCommentsResponse,
     ListMemoReactionsRequest |-> ListMemoReactionsRequest,
     ListMemoReactionsResponse |-> ListMemoReactionsResponse,
     UpsertMemoReactionRequest |-> UpsertMemoReactionRequest,
     DeleteMemoReactionRequest |-> DeleteMemoReactionRequest, Attachment |-> Attachment,
     CreateAttachmentRequest |-> CreateAttachmentRequest,
     ListAttachmentsRequest |-> ListAttachmentsRequest,
     ListAttachmentsResponse |-> ListAttachmentsResponse,
     GetAttachmentRequest |-> GetAttachmentRequest,
     GetAttachmentBinaryRequest |-> GetAttachmentBinaryRequest,
     UpdateAttachmentRequest |-> UpdateAttachmentRequest,
     DeleteAttachmentRequest |-> DeleteAttachmentRequest, Activity |-> Activity,
     ActivityPayload |-> ActivityPayload,
     ActivityMemoCommentPayload |-> ActivityMemoCommentPayload,
     ListActivitiesRequest |-> ListActivitiesRequest,
     ListActivitiesResponse |-> ListActivitiesResponse,
     GetActivityRequest |-> GetActivityRequest, Inbox |-> Inbox,
     ListInboxesRequest |-> ListInboxesRequest, ListInboxesResponse |-> ListInboxesResponse,
     UpdateInboxRequest |-> UpdateInboxRequest, DeleteInboxRequest |-> DeleteInboxRequest,
     PageToken |-> PageToken]
MemosEnums ==
    [Visibility |-> Visibility, MemoRelation_Type |-> MemoRelation_Type,
     Activity_Type |-> Activity_Type, Activity_Level |-> Activity_Level,
     Inbox_Status |-> Inbox_Status, Inbox_Type |-> Inbox_Type, State |-> State,
     Direction |-> Direction]
MemosServices ==
    [MemoService |-> MemoServiceDefinition, AttachmentService |-> AttachmentServiceDefinition,
     ActivityService |-> ActivityServiceDefinition, InboxService |-> InboxServiceDefinition]
=============================================================================
