------------------------- MODULE MCPushRegistration -------------------------
(***************************************************************************)
(* Two identities on a device.                                             *)
(***************************************************************************)
EXTENDS PushRegistration

CONSTANTS ann, ben
=============================================================================
