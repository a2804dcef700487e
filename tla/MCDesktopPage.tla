---------------------------- MODULE MCDesktopPage ----------------------------
(* Instances of DesktopPage for TLC.                                       *)
EXTENDS DesktopPage

CONSTANTS ann, ben, xia, team, club

\* ann and someone else are in team; nobody has made club yet.
MCRoster == [k \in GroupIds |-> IF k = team THEN {ann, xia} ELSE {}]

\* One message in each group there is, so that the senders of a list have to
\* be looked up.
MCSpoken == [k \in GroupIds |-> IF InitRoster[k] = {} THEN <<>> ELSE <<xia>>]
=============================================================================
