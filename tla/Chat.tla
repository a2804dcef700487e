-------------------------------- MODULE Chat --------------------------------
(***************************************************************************)
(* An open conversation on the mobile page                                 *)
(* (src/xmes-mobile-pwa/src/components/chat/mod.rs) and the callbacks that *)
(* serve it (src/xmes-mobile-pwa/src/main.rs): what it shows, the members  *)
(* it adds, and the notifications it asks the push worker for.  Messages   *)
(* and members arrive with the conversation they belong to, but the page   *)
(* shows whatever comes last; a notification for a sent message goes out   *)
(* when the message appears in an answer, to the members shown.            *)
(***************************************************************************)
EXTENDS Groups

CONSTANTS
    Authors,   \* who writes messages elsewhere
    MaxOps,    \* bound: messages, member changes and switches
    MaxReloads \* bound: how often the page is reloaded

ASSUME ChatAssumption ==
    /\ {"list"} \cap GroupIds = {} /\ Authors \subseteq Inboxes
    /\ MaxOps \in Nat /\ MaxReloads \in Nat

Positions == 1..MaxLog

VARIABLES
    current,      \* identity_info
    view,         \* the list, or the conversation whose chat is open
    shown,        \* messages: how many, and of which conversation
    shownMembers, \* group_members, and the conversation they belong to
    seen,         \* window.__xmes_seen_<conversation>: own messages answered
    pushPending,  \* window.__xmes_push_pending
    pending,      \* pending_members, in localStorage
    pushes,       \* history: how often each message was pushed since the load
    early,        \* history: who was pushed to while pending
    old,          \* history: the messages there were when the page loaded
    switched,     \* history: the identity was switched since the page loaded
    ops, reloads  \* bounds

screenVars  == <<current, view, shown, shownMembers>>
pushVars    == <<seen, pushPending, pushes, early, old, switched>>
chatVars    == <<screenVars, pushVars, pending, ops, reloads>>
vars        == <<backend, chatVars>>

Nothing == [of |-> NoOne, n |-> 0]
NoMembers == [of |-> NoOne, set |-> {}]

-----------------------------------------------------------------------------
(* Answers of the worker.                                                  *)

\* delivered_own_ids among the first n messages of g.
OwnDelivered(g, n) == {k \in 1..n : log[g][k] = current}

\* Mutation: the first call finds an empty set instead of making it.
FreshAll(g, n) == OwnDelivered(g, n) \ seen[g]

\* The messages that are new to the seen-set.  The set is made when it is
\* first needed, from what is there.
Fresh(g, n) == IF seen[g] = {} THEN {} ELSE OwnDelivered(g, n) \ seen[g]

\* Mutation: the counter is lowered but not looked at.
DueAll(g, n) == Fresh(g, n)

\* Those of them a notification is sent for, oldest first.
Due(g, n) ==
    {k \in Fresh(g, n) :
        Cardinality({j \in Fresh(g, n) : j <= k}) <= pushPending}

\* Mutation: the set holds the answer, not all answers so far.
SeenLast(g, n) == OwnDelivered(g, n)

SeenAfter(g, n) == seen[g] \cup OwnDelivered(g, n)

\* Who has written one of the first n messages of g.
SendersIn(m) == IF m.of = NoOne THEN {} ELSE {log[m.of][k] : k \in 1..m.n}

\* In the open chat c, a pending member whose message is shown is pending no
\* more; m are the messages shown, of whichever conversation.
PendingAfter(c, m) ==
    [g \in GroupIds |-> IF g = c THEN pending[g] \ SendersIn(m) ELSE pending[g]]

\* on_messages
MessagesArrive(s) ==
    \E n \in MessagesPosted(s) :
        LET g  == tasks[s].gid
            to == shownMembers.set \ {current}
        IN  /\ shown' = [of |-> g, n |-> n]
            /\ pending' = PendingAfter(view, shown')
            /\ seen' = [seen EXCEPT ![g] = SeenAfter(g, n)]
            /\ pushPending' = pushPending - Cardinality(Due(g, n))
            /\ pushes' = [pushes EXCEPT ![g] =
                   [k \in Positions |-> IF k \in Due(g, n) THEN @[k] + 1
                                                           ELSE @[k]]]
            /\ early' = IF Due(g, n) # {}
                        THEN early \cup ({g} \X (to \cap pending[g]))
                        ELSE early
            /\ tasks' = Done(s)
            /\ UNCHANGED <<network, active, current, view, shownMembers, old,
                           switched, ops, reloads>>

\* on_group_members: the conversation is not passed on.
MembersArrive(s) ==
    \E set \in MembersPosted(s) :
        /\ shownMembers' = [of |-> tasks[s].gid, set |-> set]
        /\ tasks' = Done(s)
        /\ UNCHANGED <<network, active, current, view, shown, pushVars, pending,
                       ops, reloads>>

\* on_conversations does not touch an open chat unless a group was created.
ListArrives(s) ==
    /\ ListPosted(s) # {}
    /\ tasks' = Done(s)
    /\ UNCHANGED <<network, active, chatVars>>

\* on_identity_update; the two lists it leads to are ConversationList's.
IdentityListArrives(s) ==
    /\ tasks[s].pc = "addresses"
    /\ current' = tasks[s].id
    /\ tasks' = Done(s)
    /\ UNCHANGED <<network, active, view, shown, shownMembers, pushVars,
                   pending, ops, reloads>>

-----------------------------------------------------------------------------
(* The chat and its settings.                                              *)

Counted == ops < MaxOps /\ ops' = ops + 1

\* Mutation: the interval asks for the members only.
PollTaskMembers(i, g) == TaskOn("members", i, g, NoOne)

\* What the interval asks for while the chat of g is open.
PollTask(i, g) == TaskOn("fetch", i, g, NoOne)

\* What a chat asks for when it opens.
OpenTasks(i, g) == TaskOn("fetch", i, g, NoOne) \o TaskOn("members", i, g, NoOne)

\* A tap on a row of any list there was: the chat clears the messages of the
\* one before, but looks through them for pending members first.
OpenChat ==
    \E g \in GroupIds :
        /\ view = "list" /\ \E i \in Ids : Known(i, g)
        /\ view' = g
        /\ pending' = PendingAfter(g, shown)
        /\ shown' = Nothing
        /\ Room(tasks, Len(OpenTasks(active, g)))
        /\ tasks' = Launched(tasks, OpenTasks(active, g))
        /\ UNCHANGED <<network, active, current, shownMembers, pushVars, ops,
                       reloads>>

Back ==
    /\ view \in GroupIds
    /\ view' = "list"
    /\ UNCHANGED <<backend, current, shown, shownMembers, pushVars, pending,
                   ops, reloads>>

\* Every eight seconds.
Poll ==
    /\ view \in GroupIds
    /\ Room(tasks, 1)
    /\ tasks' = Launched(tasks, PollTask(active, view))
    /\ UNCHANGED <<network, active, chatVars>>

\* The page comes to the foreground.  The list it asks for too is left out: an
\* open chat does not take it in, see ListArrives.
Foreground ==
    /\ view \in GroupIds
    /\ Room(tasks, Len(OpenTasks(active, view)))
    /\ tasks' = Launched(tasks, OpenTasks(active, view))
    /\ UNCHANGED <<network, active, chatVars>>

\* The message is shown as pending until the next answer; the counter goes up
\* before the worker has tried to send.
Send ==
    /\ view \in GroupIds /\ Counted
    /\ pushPending' = pushPending + 1
    /\ Room(tasks, 1)
    /\ tasks' = Launched(tasks, TaskOn("send", active, view, NoOne))
    /\ UNCHANGED <<network, active, screenVars, seen, pushes, early,
                   old, switched, pending, reloads>>

\* A request about the open conversation that leads to another answer.
Requests(pc, who) ==
    /\ Room(tasks, 1)
    /\ tasks' = Launched(tasks, TaskOn(pc, active, view, who))
    /\ UNCHANGED <<network, active, screenVars, pushVars, reloads>>

\* "Add" in the settings, of whoever is typed in or scanned, a member or not:
\* who is added gets a welcome and is pending.
AddMember ==
    \E who \in Inboxes :
        /\ view \in GroupIds /\ Counted
        /\ pending' = [pending EXCEPT ![view] = @ \cup {who}]
        /\ Requests("add", who)

RemoveMember ==
    \E who \in shownMembers.set \ {current} :
        /\ view \in GroupIds /\ Counted
        /\ Requests("remove", who)
        /\ UNCHANGED pending

ChangeRole ==
    \E who \in shownMembers.set :
        /\ view \in GroupIds /\ Counted
        /\ Requests("role", who)
        /\ UNCHANGED pending

Rename ==
    /\ view \in GroupIds /\ Counted
    /\ Requests("rename", NoOne)
    /\ UNCHANGED pending

\* The sheet on a row of the list; nobody becomes pending.
AddFromList ==
    \E g \in GroupIds, who \in Inboxes \ {current} :
        /\ view = "list" /\ Counted
        /\ Room(tasks, 1)
        /\ tasks' = Launched(tasks, TaskOn("add", active, g, who))
        /\ UNCHANGED <<network, active, screenVars, pushVars, pending, reloads>>

\* A tap on an identity: the worker switches, the page follows later.
Switch ==
    \E i \in Ids :
        /\ view = "list" /\ Counted
        /\ Room(tasks, 1)
        /\ active' = i
        /\ switched' = TRUE
        /\ tasks' = Launched(tasks, <<SwitchTask(i)>>)
        /\ UNCHANGED <<network, screenVars, seen, pushPending, pushes,
                       early, old, pending, reloads>>

Loaded ==
    /\ view' = "list"
    /\ shown' = Nothing /\ shownMembers' = NoMembers
    /\ seen' = [g \in GroupIds |-> {}] /\ pushPending' = 0
    /\ pushes' = [g \in GroupIds |-> [k \in Positions |-> 0]]
    /\ early' = {}
    /\ old' = [g \in GroupIds |-> Len(log[g])] /\ switched' = FALSE

\* A reload: only pending_push_<conversation> survives.  What follows begins
\* when the first identity list has had the worker switch to the saved identity
\* (see ConversationList); a chat opened even before that is left out.
Reload ==
    /\ reloads < MaxReloads /\ reloads' = reloads + 1
    /\ active' = current
    /\ tasks' = [s \in Slots |-> Idle]
    /\ Loaded
    /\ UNCHANGED <<network, current, pending, ops>>

-----------------------------------------------------------------------------

\* A handler goes on without the page noticing.
Resumes(s) ==
    /\ \/ CollectMessages(s) \/ CollectList(s) \/ MessageSent(s)
       \/ MembersAdded(s) \/ GroupRenamed(s) \/ MemberRemoved(s)
       \/ RoleChanged(s)
    /\ UNCHANGED chatVars

Fails(s) == CallFails(s) /\ UNCHANGED chatVars

Elsewhere ==
    /\ \E g \in GroupIds, from \in Authors : Hears(g, from)
    /\ UNCHANGED chatVars

Init ==
    /\ NetworkInit
    /\ active \in Ids /\ current = active
    /\ tasks = [s \in Slots |-> Idle]
    /\ view = "list" /\ shown = Nothing /\ shownMembers = NoMembers
    /\ seen = [g \in GroupIds |-> {}] /\ pushPending = 0
    /\ pending = [g \in GroupIds |-> {}]
    /\ pushes = [g \in GroupIds |-> [k \in Positions |-> 0]]
    /\ early = {} /\ switched = FALSE
    /\ old = [g \in GroupIds |-> Len(log[g])]
    /\ ops = 0 /\ reloads = 0

Arrives(s) == \/ MessagesArrive(s) \/ MembersArrive(s) \/ ListArrives(s)
              \/ IdentityListArrives(s)

User == \/ OpenChat \/ Back \/ Send \/ AddMember \/ RemoveMember \/ ChangeRole
        \/ Rename \/ AddFromList \/ Switch \/ Reload

Next ==
    \/ \E s \in Slots : Arrives(s) \/ Resumes(s) \/ Fails(s)
    \/ User \/ Poll \/ Foreground \/ Elsewhere

\* The interval goes on; a call that is repeated is answered at last, and one
\* that cannot be answered fails.
Fairness ==
    /\ WF_vars(Poll)
    /\ \A s \in Slots : SF_vars(Arrives(s) \/ Resumes(s)) /\ WF_vars(Fails(s))

Spec == Init /\ [][Next]_vars /\ Fairness

-----------------------------------------------------------------------------
(* Properties.                                                             *)

TypeOK ==
    /\ GroupsTypeOK
    /\ current \in Ids /\ view \in {"list"} \cup GroupIds
    /\ shown \in [of : GroupIds \cup {NoOne}, n : 0..MaxLog]
    /\ shownMembers \in [of : GroupIds \cup {NoOne}, set : SUBSET Inboxes]
    /\ seen \in [GroupIds -> SUBSET Positions]
    /\ pushPending \in 0..MaxOps
    /\ pending \in [GroupIds -> SUBSET Inboxes]
    /\ pushes \in [GroupIds -> [Positions -> Nat]]
    /\ early \subseteq GroupIds \X Inboxes
    /\ old \in [GroupIds -> 0..MaxLog] /\ switched \in BOOLEAN
    /\ ops \in 0..MaxOps /\ reloads \in 0..MaxReloads

\* Until the page is reloaded it asks for one notification per message, though
\* answers repeat the message and an older answer may come after a newer one.
PushedOnce == \A g \in GroupIds, k \in Positions : pushes[g][k] <= 1

\* "no push, avoids spurious pushes for historical messages already present on
\* open": a message older than the page is not pushed, unless the identity was
\* switched, whose own messages the set of the one before does not hold.
HistoryNotPushed ==
    ~switched => \A g \in GroupIds, k \in Positions :
                    pushes[g][k] > 0 => k > old[g]

\* Whoever stays in a chat is finally shown its messages, all of them, and no
\* late answer for another conversation replaces them for good.
ShownSettles ==
    \A g \in GroupIds :
        <>[](view = g /\ Known(active, g))
            => <>[](shown = [of |-> g, n |-> Len(log[g])])

\* "Members excluded from message push until they send their first message":
\* nobody is notified of messages while they are pending.
PendingNotPushed == early = {}
=============================================================================
