---------------------------- MODULE MCXmtpWorker ----------------------------
(* Instances of XmtpWorker for TLC.                                        *)
EXTENDS XmtpWorker, TLC

CONSTANTS a, b, c, h1, h2

\* No stored key, one, or two.
MCInitKeys == {<<>>, <<a>>, <<a, b>>}

Plain(kind)      == Req(kind, 0, NoId, <<>>)
Indexed(kind, i) == Req(kind, i, NoId, <<>>)

\* Everything that touches the identities; "restore" with the phrase of an
\* identity the worker may hold already and of one it does not know.
IdentityRequests ==
    {Plain("create"), Req("restore", 0, a, <<>>), Req("restore", 0, c, <<>>)}
        \cup {Indexed(k, i) : k \in {"remove", "switch"}, i \in 0..2}

\* Everything done in the name of the active identity, and what changes it.
GroupRequests ==
    {Plain(k) : k \in {"list", "consent", "act", "role", "members", "messages",
                       "send", "address"}}
        \cup {Indexed("switch", 1), Indexed("remove", 0)}

\* Every kind of request.
AllRequests == IdentityRequests \cup GroupRequests

SlotSymmetry == Permutations(Slots)
=============================================================================
