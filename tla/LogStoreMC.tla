----------------------------- MODULE LogStoreMC -----------------------------
(***************************************************************************)
(* LogStore with the constants given their values for TLC.                 *)
(***************************************************************************)
EXTENDS LogStore

CONSTANTS out, err, web, db, push1, push2, viewer1   \* streams, services, readers

\* Both streams of one service, and a push task for another, which sees lines of
\* no interest to it.
MCServiceOf == out :> web @@ err :> web
MCLines == out :> 2 @@ err :> 2
MCPushedService == push1 :> web @@ push2 :> db

\* Readers do not affect each other: one at a time.
MCUses == {{push1}, {push2}, {viewer1}}
=============================================================================
