---------------------------- MODULE ApiMarkdown -----------------------------
(* The nodes of a parsed memo: the page's codec of each message. *)
EXTENDS ApiFields

\* api/v1/markdown_service.ts
NodeType ==
    [NODE_UNSPECIFIED |-> 0, LINE_BREAK |-> 1, PARAGRAPH |-> 2, CODE_BLOCK |-> 3,
     HEADING |-> 4, HORIZONTAL_RULE |-> 5, BLOCKQUOTE |-> 6, LIST |-> 7,
     ORDERED_LIST_ITEM |-> 8, UNORDERED_LIST_ITEM |-> 9, TASK_LIST_ITEM |-> 10,
     MATH_BLOCK |-> 11, TABLE |-> 12, EMBEDDED_CONTENT |-> 13, TEXT |-> 51, BOLD |-> 52,
     ITALIC |-> 53, BOLD_ITALIC |-> 54, CODE |-> 55, IMAGE |-> 56, LINK |-> 57,
     AUTO_LINK |-> 58, TAG |-> 59, STRIKETHROUGH |-> 60, ESCAPING_CHARACTER |-> 61,
     MATH |-> 62, HIGHLIGHT |-> 63, SUBSCRIPT |-> 64, SUPERSCRIPT |-> 65,
     REFERENCED_CONTENT |-> 66, SPOILER |-> 67, HTML_ELEMENT |-> 68]
ListNode_Kind == [KIND_UNSPECIFIED |-> 0, ORDERED |-> 1, UNORDERED |-> 2, DESCRIPTION |-> 3]
ParseMarkdownRequest == [markdown |-> Str(1)]
ParseMarkdownResponse == [nodes |-> ManyMsg(1, "Node")]
RestoreMarkdownNodesRequest == [nodes |-> ManyMsg(1, "Node")]
RestoreMarkdownNodesResponse == [markdown |-> Str(1)]
StringifyMarkdownNodesRequest == [nodes |-> ManyMsg(1, "Node")]
StringifyMarkdownNodesResponse == [plainText |-> Str(1)]
GetLinkMetadataRequest == [link |-> Str(1)]
LinkMetadata == [title |-> Str(1), description |-> Str(2), image |-> Str(3)]
Node ==
    [type |-> Enum(1, "NodeType"), lineBreakNode |-> Msg(11, "LineBreakNode"),
     paragraphNode |-> Msg(12, "ParagraphNode"), codeBlockNode |-> Msg(13, "CodeBlockNode"),
     headingNode |-> Msg(14, "HeadingNode"),
     horizontalRuleNode |-> Msg(15, "HorizontalRuleNode"),
     blockquoteNode |-> Msg(16, "BlockquoteNode"), listNode |-> Msg(17, "ListNode"),
     orderedListItemNode |-> Msg(18, "OrderedListItemNode"),
     unorderedListItemNode |-> Msg(19, "UnorderedListItemNode"),
     taskListItemNode |-> Msg(20, "TaskListItemNode"),
     mathBlockNode |-> Msg(21, "MathBlockNode"), tableNode |-> Msg(22, "TableNode"),
     embeddedContentNode |-> Msg(23, "EmbeddedContentNode"), textNode |-> Msg(51, "TextNode"),
     boldNode |-> Msg(52, "BoldNode"), italicNode |-> Msg(53, "ItalicNode"),
     boldItalicNode |-> Msg(54, "BoldItalicNode"), codeNode |-> Msg(55, "CodeNode"),
     imageNode |-> Msg(56, "ImageNode"), linkNode |-> Msg(57, "LinkNode"),
     autoLinkNode |-> Msg(58, "AutoLinkNode"), tagNode |-> Msg(59, "TagNode"),
     strikethroughNode |-> Msg(60, "StrikethroughNode"),
     escapingCharacterNode |-> Msg(61, "EscapingCharacterNode"),
     mathNode |-> Msg(62, "MathNode"), highlightNode |-> Msg(63, "HighlightNode"),
     subscriptNode |-> Msg(64, "SubscriptNode"),
     superscriptNode |-> Msg(65, "SuperscriptNode"),
     referencedContentNode |-> Msg(66, "ReferencedContentNode"),
     spoilerNode |-> Msg(67, "SpoilerNode"), htmlElementNode |-> Msg(68, "HTMLElementNode")]
LineBreakNode == << >>
ParagraphNode == [children |-> ManyMsg(1, "Node")]
CodeBlockNode == [language |-> Str(1), content |-> Str(2)]
HeadingNode == [level |-> Int(1), children |-> ManyMsg(2, "Node")]
HorizontalRuleNode == [symbol |-> Str(1)]
BlockquoteNode == [children |-> ManyMsg(1, "Node")]
ListNode ==
    [kind |-> Enum(1, "ListNode_Kind"), indent |-> Int(2), children |-> ManyMsg(3, "Node")]
OrderedListItemNode == [number |-> Str(1), indent |-> Int(2), children |-> ManyMsg(3, "Node")]
UnorderedListItemNode == [symbol |-> Str(1), indent |-> Int(2), children |-> ManyMsg(3, "Node")]
TaskListItemNode ==
    [symbol |-> Str(1), indent |-> Int(2), complete |-> Bool(3),
     children |-> ManyMsg(4, "Node")]
MathBlockNode == [content |-> Str(1)]
TableNode ==
    [header |-> ManyMsg(1, "Node"), delimiter |-> ManyStr(2),
     rows |-> ManyMsg(3, "TableNode_Row")]
TableNode_Row == [cells |-> ManyMsg(1, "Node")]
EmbeddedContentNode == [resourceName |-> Str(1), params |-> Str(2)]
TextNode == [content |-> Str(1)]
BoldNode == [symbol |-> Str(1), children |-> ManyMsg(2, "Node")]
ItalicNode == [symbol |-> Str(1), children |-> ManyMsg(2, "Node")]
BoldItalicNode == [symbol |-> Str(1), content |-> Str(2)]
CodeNode == [content |-> Str(1)]
ImageNode == [altText |-> Str(1), url |-> Str(2)]
LinkNode == [content |-> ManyMsg(1, "Node"), url |-> Str(2)]
AutoLinkNode == [url |-> Str(1), isRawText |-> Bool(2)]
TagNode == [content |-> Str(1)]
StrikethroughNode == [content |-> Str(1)]
EscapingCharacterNode == [symbol |-> Str(1)]
MathNode == [content |-> Str(1)]
HighlightNode == [content |-> Str(1)]
SubscriptNode == [content |-> Str(1)]
SuperscriptNode == [content |-> Str(1)]
ReferencedContentNode == [resourceName |-> Str(1), params |-> Str(2)]
SpoilerNode == [content |-> Str(1)]
HTMLElementNode ==
    [tagName |-> Str(1), attributes |-> ManyMsg(2, "HTMLElementNode_AttributesEntry")]
HTMLElementNode_AttributesEntry == [key |-> Str(1), value |-> Str(2)]
MarkdownServiceDefinition ==
    [ParseMarkdown |-> <<"ParseMarkdownRequest", "ParseMarkdownResponse">>,
     RestoreMarkdownNodes |-> <<"RestoreMarkdownNodesRequest", "RestoreMarkdownNodesResponse">>,
     StringifyMarkdownNodes |-> <<"StringifyMarkdownNodesRequest", "StringifyMarkdownNodesResponse">>,
     GetLinkMetadata |-> <<"GetLinkMetadataRequest", "LinkMetadata">>]

MarkdownTypes ==
    [ParseMarkdownRequest |-> ParseMarkdownRequest,
     ParseMarkdownResponse |-> ParseMarkdownResponse,
     RestoreMarkdownNodesRequest |-> RestoreMarkdownNodesRequest,
     RestoreMarkdownNodesResponse |-> RestoreMarkdownNodesResponse,
     StringifyMarkdownNodesRequest |-> StringifyMarkdownNodesRequest,
     StringifyMarkdownNodesResponse |-> StringifyMarkdownNodesResponse,
     GetLinkMetadataRequest |-> GetLinkMetadataRequest, LinkMetadata |-> LinkMetadata,
     Node |-> Node, LineBreakNode |-> LineBreakNode, ParagraphNode |-> ParagraphNode,
     CodeBlockNode |-> CodeBlockNode, HeadingNode |-> HeadingNode,
     HorizontalRuleNode |-> HorizontalRuleNode, BlockquoteNode |-> BlockquoteNode,
     ListNode |-> ListNode, OrderedListItemNode |-> OrderedListItemNode,
     UnorderedListItemNode |-> UnorderedListItemNode, TaskListItemNode |-> TaskListItemNode,
     MathBlockNode |-> MathBlockNode, TableNode |-> TableNode, TableNode_Row |-> TableNode_Row,
     EmbeddedContentNode |-> EmbeddedContentNode, TextNode |-> TextNode, BoldNode |-> BoldNode,
     ItalicNode |-> ItalicNode, BoldItalicNode |-> BoldItalicNode, CodeNode |-> CodeNode,
     ImageNode |-> ImageNode, LinkNode |-> LinkNode, AutoLinkNode |-> AutoLinkNode,
     TagNode |-> TagNode, StrikethroughNode |-> StrikethroughNode,
     EscapingCharacterNode |-> EscapingCharacterNode, MathNode |-> MathNode,
     HighlightNode |-> HighlightNode, SubscriptNode |-> SubscriptNode,
     SuperscriptNode |-> SuperscriptNode, ReferencedContentNode |-> ReferencedContentNode,
     SpoilerNode |-> SpoilerNode, HTMLElementNode |-> HTMLElementNode,
     HTMLElementNode_AttributesEntry |-> HTMLElementNode_AttributesEntry]
MarkdownEnums == [NodeType |-> NodeType, ListNode_Kind |-> ListNode_Kind]
MarkdownServices == [MarkdownService |-> MarkdownServiceDefinition]
=============================================================================
