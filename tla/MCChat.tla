------------------------------- MODULE MCChat -------------------------------
(* Instances of Chat for TLC.                                              *)
EXTENDS Chat

CONSTANTS ann, ben, xia, team, club

\* Both identities are in team, only ann is in club.
MCRoster == [k \in {team, club} |-> IF k = team THEN {ann, ben, xia} ELSE {ann}]

\* Everybody is in every group.
MCTogether == [k \in GroupIds |-> {ann, ben, xia}]

\* ann alone in club.
MCAlone == [k \in {club} |-> {ann}]

\* No messages yet.
MCSilent == [k \in GroupIds |-> <<>>]
=============================================================================
