---------------------------- MODULE MCPushReader ----------------------------
(* The instances of MCPush with a phone that reads its events. *)
EXTENDS MCPush, PushReader
=============================================================================
