------------------------ MODULE MCConversationList ------------------------
(* Instances of ConversationList for TLC.                                  *)
EXTENDS ConversationList

CONSTANTS ann, ben, xia, team, club

\* ann and someone else are in team; nobody has made club yet.
MCRoster == [k \in GroupIds |-> IF k = team THEN {ann, xia} ELSE {}]

\* ann is in club, and may be invited to team, where ben is.
MCApart == [k \in GroupIds |-> IF k = team THEN {ben, xia} ELSE {ann}]

\* No messages yet.
MCSilent == [k \in GroupIds |-> <<>>]

\* Someone has written to team, so that the lists of its members pass through
\* the look-up of senders; club is silent.
MCSpoken == [k \in GroupIds |-> IF k = team THEN <<xia>> ELSE <<>>]

\* Keep is SelectSeq, written so that it can be reasoned about.
ASSUME KeepIsSelectSeq ==
    \A seq \in SeqOf({ann, ben, xia}, 4), stay \in SUBSET {ann, ben, xia} :
        Keep(seq, {k \in 1..Len(seq) : seq[k] \in stay})
            = SelectSeq(seq, LAMBDA x : x \in stay)
=============================================================================
