----------------------------- MODULE ApiClient ------------------------------
(* What the page reads and writes: the messages, enums and services of the     *)
(* generated TypeScript code together.                                        *)
EXTENDS ApiMemos, ApiUsers, ApiMarkdown, ApiWorkspace

Message == MemosTypes @@ UsersTypes @@ MarkdownTypes @@ WorkspaceTypes
EnumOf == MemosEnums @@ UsersEnums @@ MarkdownEnums @@ WorkspaceEnums
Service == MemosServices @@ UsersServices @@ MarkdownServices @@ WorkspaceServices
=============================================================================
