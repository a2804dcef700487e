--------------------------- MODULE MCServiceWorker ---------------------------
(***************************************************************************)
(* Two identities, each with a conversation.                               *)
(***************************************************************************)
EXTENDS ServiceWorker, TLC

CONSTANTS ann, ben, team, club

MCOwner == (team :> ann) @@ (club :> ben)
=============================================================================
