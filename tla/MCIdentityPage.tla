--------------------------- MODULE MCIdentityPage ---------------------------
(* Instances of IdentityPage for TLC.                                      *)
EXTENDS IdentityPage, TLC

CONSTANTS a, b, c, h1, h2

\* No stored key, two, or one twice: restoring an identity the worker already
\* holds is not refused, so an earlier session can have stored it again.
MCInitKeys == {<<>>, <<a, b>>, <<a, a>>}

MCRequests == {Req("create", 0, NoId, <<>>)}

SlotSymmetry == Permutations(Slots)
=============================================================================
