-------------------------- MODULE ConversationList --------------------------
(***************************************************************************)
(* The mobile page as the keeper of the conversation list                  *)
(* (src/xmes-mobile-pwa/src/main.rs and components/conversations): which   *)
(* conversations it shows, which of them it marks unread, the invitations  *)
(* it accepts by itself, and the groups it reports to the push worker once *)
(* the user has left them.  A list carries neither the identity it was     *)
(* collected for nor the time; the page takes it for a current list of the *)
(* identity it shows.                                                      *)
(***************************************************************************)
EXTENDS Groups

CONSTANTS
    First,     \* the identity whose key is stored first
    Authors,   \* who writes messages elsewhere
    Guests,    \* the identities others invite
    MaxOps,    \* bound: switches, groups created and left
    MaxReloads \* bound: how often the page is reloaded

ASSUME ListAssumption ==
    /\ {"home", "identities"} \cap GroupIds = {}
    /\ First \in Ids /\ Authors \subseteq Inboxes /\ Guests \subseteq Ids
    /\ MaxOps \in Nat /\ MaxReloads \in Nat

VARIABLES
    current,       \* identity_info, none until the first identity list
    saved,         \* last_active_inbox, in localStorage
    convs,         \* conversations
    view,          \* the screen, or the conversation whose chat is open
    pendingOpen,   \* pending_open
    pendingBlocks, \* pending_blocks: for a group left, by whom
    unread,        \* unread_ids, in localStorage
    lastSeen,      \* last_seen_ns, in localStorage
    ihu,           \* inbox_has_unread, in localStorage
    leaving,       \* the conversation captured by confirm_action
    inChat,        \* confirm_action was set in the settings of a chat
    blocked,       \* the calls of xmesBlockGroup so far
    toChat,        \* history: the newest message whose showing the page has
                   \* left to the chat, be it shown there or not
    listOf,        \* history: the identity convs was collected for
    faults,        \* history: what went wrong with a leave or an acceptance
    mixed,         \* history: two identities' lists were drawn since the start
    ops, reloads   \* bounds

dialog    == <<leaving, inChat>>
shownVars == <<current, convs, view, pendingOpen, dialog, listOf>>
savedVars == <<saved, unread, lastSeen, ihu, toChat>>
blockVars == <<pendingBlocks, blocked, faults>>
boundVars == <<mixed, ops, reloads>>
listVars  == <<shownVars, savedVars, blockVars, boundVars>>
vars      == <<backend, listVars>>

-----------------------------------------------------------------------------
(* Rows of the list.                                                       *)

\* The rows on the screen when v is the view and list the conversations.
Rows(v, list) == IF v = "home" THEN ListedIds(list) ELSE {}

\* The list whose rows are on the screen.
OnScreen == IF view = "home" THEN convs ELSE <<>>

\* Mutation: rows have no key, as on the desktop page.
MountedUnkeyed(v, list) ==
    {list[k].id : k \in {j \in 1..Len(list) :
        v = "home" /\ list[j].pending /\ j > Len(OnScreen)}}

\* The pending groups whose rows are new: a row that keeps its place and its
\* key is the component it was, and asks no second time.
Mounted(v, list) ==
    {list[k].id : k \in {j \in 1..Len(list) :
        /\ v = "home" /\ list[j].pending
        /\ j <= Len(OnScreen) => OnScreen[j].id # list[j].id}}

\* Acceptances by identity i that fail, and those of groups it has left.
Refusals(i, gs) == {<<"refused", i, g>> : g \in {h \in gs : Known(i, h)}}
Revivals(i, gs) == {<<"revived", i, g>> : g \in {h \in gs : consent[i][h] = "denied"}}

\* The page draws list under view v: the rows that appear accept their
\* invitations for identity i, active in the worker, whose consents are c and
\* whose handlers are ts.  Acceptances may fail; more is what else went wrong.
Draws(v, list, i, c, ts, more) ==
    LET gs == Mounted(v, list) IN
    \E done \in SUBSET {g \in gs : Known(i, g)} :
        /\ convs' = list
        /\ view' = v
        /\ Room(ts, Len(AcceptRequests(i, done)))
        /\ consent' = AcceptConsent(c, i, done)
        /\ tasks' = Launched(ts, AcceptRequests(i, done))
        /\ faults' = (faults \ Refusals(i, gs)) \cup Refusals(i, gs \ done)
                      \cup Revivals(i, done) \cup more

-----------------------------------------------------------------------------
(* on_conversations                                                        *)

\* last_message_ns of g in the list, 0 if there is none.
NewestIn(list, g) ==
    Max({list[k].n : k \in {j \in 1..Len(list) : list[j].id = g}} \cup {0})

\* pending_open opens the first conversation of whichever list comes next.
ViewAfter(list) ==
    IF pendingOpen /\ list # <<>> THEN list[1].id ELSE view

\* Conversations that become unread: the last message is newer than what the
\* page last saw, its chat is not open, and the sender is not this identity.
NewIn(list, v) ==
    {list[k].id : k \in {j \in 1..Len(list) :
        /\ list[j].n > lastSeen[list[j].id]
        /\ list[j].id # v
        /\ list[j].from # current}}

\* Mutation: the watermark takes the time the list arrives.
SeenAfterClock(list) ==
    [g \in GroupIds |-> IF g \in ListedIds(list) THEN Len(log[g])
                                                 ELSE lastSeen[g]]

\* last_seen_ns follows the list, also one older than the list before.
SeenAfter(list) ==
    [g \in GroupIds |-> IF NewestIn(list, g) > 0 THEN NewestIn(list, g)
                                                 ELSE lastSeen[g]]

\* Mutation: nobody asks whether the group was left.
BlocksDueMissing(list) == GroupIds \ ListedIds(list)

\* The pending blocks whose group is missing from the list.
BlocksDue(list) ==
    {g \in GroupIds : pendingBlocks[g] # NoOne /\ g \notin ListedIds(list)}

\* A chat that is opened clears its unread mark.
OpenedAs(v) == IF v # view THEN {v} ELSE {}

\* Mutation: any conversation marked, also one that is not listed.
HasUnreadAny(list, marked) == marked # {}

\* What inbox_has_unread says of the identity shown, if one is.
HasUnread(list, marked) == marked \cap ListedIds(list) # {}

\* The list that the handler in slot s posts.
ConversationsArrive(s) ==
    \E list \in ListPosted(s) :
        LET v      == ViewAfter(list)
            marked == unread \cup NewIn(list, v)
        IN  /\ pendingOpen' = FALSE
            /\ lastSeen' = SeenAfter(list)
            /\ unread' = marked \ OpenedAs(v)
            /\ ihu' = IF HasUnread(list, marked)
                      THEN ihu \cup ({current} \ {NoOne}) ELSE ihu \ {current}
            /\ pendingBlocks' = [g \in GroupIds |->
                   IF g \in BlocksDue(list) THEN NoOne ELSE pendingBlocks[g]]
            /\ blocked' = blocked \cup
                   {<<pendingBlocks[g], g>> : g \in BlocksDue(list)}
            /\ Draws(v, list, active, consent, Done(s), {})
            /\ listOf' = tasks[s].id
            /\ mixed' = (mixed \/ listOf \notin {NoOne, tasks[s].id})
            /\ toChat' = [g \in GroupIds |->
                   IF g = v THEN Max({toChat[g], NewestIn(list, g), lastSeen[g]})
                            ELSE toChat[g]]
            /\ UNCHANGED <<member, roster, log, recent, active, current, saved,
                           dialog, ops, reloads>>

\* on_identity_update for the first time since the page loaded: it has the
\* worker switch to the identity saved and asks for a list.
FirstIdentityListArrives(s) ==
    /\ current = NoOne /\ tasks[s].pc = "addresses"
    /\ current' = saved /\ active' = saved
    /\ tasks' = Launched(Done(s), IF saved = tasks[s].id THEN <<ListTask(saved)>>
                                  ELSE <<SwitchTask(saved), ListTask(saved)>>)
    /\ UNCHANGED <<network, convs, view, pendingOpen, dialog, listOf,
                   savedVars, blockVars, boundVars>>

\* on_identity_update later on: the page asks for a list, and so does the handler; with
\* no slot left (bound) one of the two, which are alike, stands for both.
IdentityListArrives(s) ==
    /\ current # NoOne /\ tasks[s].pc = "addresses"
    /\ current' = tasks[s].id /\ saved' = tasks[s].id
    /\ tasks' = Launched([tasks EXCEPT ![s] = ListTask(active)],
                         <<ListTask(active)>>)
    /\ UNCHANGED <<network, active, convs, view, pendingOpen, dialog, listOf,
                   unread, lastSeen, ihu, toChat, blockVars, boundVars>>

\* The intervals, the foreground check and pull-to-refresh.
Poll ==
    /\ Room(tasks, 1)
    /\ tasks' = Launched(tasks, <<ListTask(active)>>)
    /\ UNCHANGED <<network, active, listVars>>

-----------------------------------------------------------------------------
(* The user.                                                               *)

\* The worker has its identities and looks their addresses up to list them.
Starting == [s \in Slots |-> IF s = 1 THEN SwitchTask(First) ELSE Idle]

NoDialog == leaving = NoOne
Counted  == ops < MaxOps /\ ops' = ops + 1

\* A tap on a row.  What the lists showed so far is left to the chat.
OpenChat ==
    \E g \in Rows(view, convs) :
        /\ NoDialog
        /\ view' = g
        /\ unread' = unread \ {g}
        /\ toChat' = [toChat EXCEPT ![g] =
                         Max({@, NewestIn(convs, g), lastSeen[g]})]
        /\ UNCHANGED <<backend, current, convs, pendingOpen, dialog, listOf,
                       saved, lastSeen, ihu, blockVars, boundVars>>

\* "Back" in a chat and the tabs at the bottom of the other screens.
Navigate ==
    \E v \in {"home", "identities"} \ {view} :
        /\ NoDialog /\ (view \in GroupIds => v = "home")
        /\ Draws(v, convs, active, consent, tasks, {})
        /\ UNCHANGED <<member, roster, log, recent, active, current,
                       pendingOpen, dialog, listOf, savedVars, pendingBlocks,
                       blocked, boundVars>>

\* A tap on an identity: the worker switches while the old list is shown.
Switch ==
    \E i \in Ids :
        /\ NoDialog /\ view = "identities" /\ current # NoOne /\ Counted
        /\ Room(tasks, 1)
        /\ active' = i
        /\ Draws("home", convs, i, consent,
                 Launched(tasks, <<SwitchTask(i)>>), {})
        /\ UNCHANGED <<member, roster, log, recent, current, pendingOpen,
                       dialog, listOf, savedVars, pendingBlocks, blocked,
                       mixed, reloads>>

\* The button for a new conversation.
CreateGroup ==
    /\ NoDialog /\ view = "home" /\ current # NoOne /\ Counted
    /\ Room(tasks, 1)
    /\ pendingOpen' = TRUE
    /\ tasks' = Launched(tasks, CreateRequest(active))
    /\ UNCHANGED <<network, active, current, convs, view, dialog, listOf,
                   savedVars, blockVars, mixed, reloads>>

\* Mutation: the block is noted before the user has confirmed.
AskLeaveBlocks ==
    /\ NoDialog /\ ops < MaxOps
    /\ leaving' \in Rows(view, convs) /\ inChat' = FALSE
    /\ pendingBlocks' = [pendingBlocks EXCEPT ![leaving'] = current]
    /\ UNCHANGED <<backend, current, convs, view, pendingOpen, listOf,
                   savedVars, blocked, faults, boundVars>>

\* "Leave" on a row or in the settings of the open chat asks first.
AskLeave ==
    /\ NoDialog /\ ops < MaxOps
    /\ \/ leaving' \in Rows(view, convs) /\ inChat' = FALSE
       \/ leaving' \in {view} \cap GroupIds /\ inChat' = TRUE
    /\ UNCHANGED <<backend, current, convs, view, pendingOpen, listOf,
                   savedVars, blockVars, boundVars>>

CancelLeave ==
    /\ ~NoDialog
    /\ leaving' = NoOne /\ inChat' = FALSE
    /\ UNCHANGED <<backend, current, convs, view, pendingOpen, listOf,
                   savedVars, blockVars, boundVars>>

\* The list without the conversation g.
Without(g) == Keep(convs, {k \in 1..Len(convs) : convs[k].id # g})

\* A leave that is not taken for the identity the page shows: the worker has
\* switched already, or the row is still that of another identity.
Astray(g) ==
    IF active # current \/ ~Known(active, g)
    THEN {<<"astray", current, g>>} ELSE {}

\* The denial that comes with a leave has failed.
Kept(g, fails) == {<<"kept", i, g>> : i \in {j \in {active} : fails}}

\* The page drops the conversation, closes the chat it was asked in and holds
\* the block back until a list confirms; the worker takes the leave for the
\* identity it has active.  Without an identity shown no block is noted that
\* xmesBlockGroup would report.
ConfirmLeave ==
    LET g    == leaving
        v    == IF inChat THEN "home" ELSE view
        list == Without(g)
    IN  /\ ~NoDialog /\ Counted
        /\ leaving' = NoOne /\ inChat' = FALSE
        /\ pendingBlocks' = [pendingBlocks EXCEPT ![g] = current]
        /\ Room(tasks, Len(LeaveRequest(active, g)))
        /\ \E fails \in BOOLEAN :
              Draws(v, list, active, LeaveConsent(active, g, fails),
                    Launched(tasks, LeaveRequest(active, g)),
                    Astray(g) \cup Kept(g, fails))
        /\ UNCHANGED <<member, roster, log, recent, active, current,
                       pendingOpen, listOf, savedVars, blocked, mixed,
                       reloads>>

\* A reload drops what is not in localStorage and every handler; the worker
\* starts again, with the identity stored first.
Reload ==
    /\ reloads < MaxReloads /\ reloads' = reloads + 1
    /\ active' = First /\ current' = NoOne
    /\ tasks' = Starting
    /\ convs' = <<>> /\ view' = "home" /\ pendingOpen' = FALSE
    /\ leaving' = NoOne /\ inChat' = FALSE
    /\ listOf' = NoOne /\ mixed' = FALSE
    /\ pendingBlocks' = [g \in GroupIds |-> NoOne]
    /\ UNCHANGED <<network, savedVars, blocked, faults, ops>>

-----------------------------------------------------------------------------

\* A handler goes on without the page noticing.
Resumes(s) ==
    /\ \/ CollectList(s) \/ GroupCreated(s) \/ LeaveSent(s)
    /\ UNCHANGED listVars

Fails(s) == CallFails(s) /\ UNCHANGED listVars

Elsewhere ==
    /\ \E g \in GroupIds : \/ \E from \in Authors : Hears(g, from)
                           \/ \E i \in Guests, by \in Others : Invites(i, g, by)
    /\ UNCHANGED listVars

\* The page is drawn and the worker starts; First stands for a saved identity
\* that is not there.
Init ==
    /\ NetworkInit
    /\ active = First /\ current = NoOne /\ saved \in Ids
    /\ tasks = Starting
    /\ convs = <<>> /\ view = "home" /\ pendingOpen = FALSE
    /\ leaving = NoOne /\ inChat = FALSE
    /\ listOf = NoOne /\ mixed = FALSE
    /\ pendingBlocks = [g \in GroupIds |-> NoOne] /\ blocked = {} /\ faults = {}
    /\ unread = {} /\ ihu = {}
    /\ lastSeen = [g \in GroupIds |-> 0] /\ toChat = lastSeen
    /\ ops = 0 /\ reloads = 0

Arrives(s) ==
    \/ ConversationsArrive(s)
    \/ FirstIdentityListArrives(s) \/ IdentityListArrives(s)

User == \/ OpenChat \/ Navigate \/ Switch \/ CreateGroup
        \/ AskLeave \/ CancelLeave \/ ConfirmLeave \/ Reload

Next ==
    \/ \E s \in Slots : Arrives(s) \/ Resumes(s) \/ Fails(s)
    \/ Poll \/ User \/ Elsewhere

\* Timers go on; a call that is repeated is answered at last, and one that
\* cannot be answered fails.
Fairness ==
    /\ WF_vars(Poll)
    /\ \A s \in Slots : SF_vars(Arrives(s) \/ Resumes(s)) /\ WF_vars(Fails(s))

Spec == Init /\ [][Next]_vars /\ Fairness

-----------------------------------------------------------------------------
(* Properties.                                                             *)

TypeOK ==
    /\ GroupsTypeOK
    /\ {current, listOf} \subseteq Ids \cup {NoOne} /\ saved \in Ids
    /\ convs \in Seq(Summary)
    /\ view \in {"home", "identities"} \cup GroupIds
    /\ pendingOpen \in BOOLEAN
    /\ leaving \in GroupIds \cup {NoOne} /\ inChat \in BOOLEAN
    /\ pendingBlocks \in [GroupIds -> Ids \cup {NoOne}]
    /\ blocked \subseteq Ids \X GroupIds
    /\ unread \subseteq GroupIds /\ ihu \subseteq Ids
    /\ lastSeen \in [GroupIds -> 0..MaxLog]
    /\ toChat \in [GroupIds -> 0..MaxLog]
    /\ faults \subseteq {"astray", "revived", "kept", "refused"}
                        \X (Ids \cup {NoOne}) \X GroupIds
    /\ mixed \in BOOLEAN
    /\ ops \in 0..MaxOps /\ reloads \in 0..MaxReloads

\* Since message n of g an identity of this device has written to g.
Answered(g, n) == \E k \in n + 1..Len(log[g]) : log[g][k] \in Ids

\* A listed conversation whose last message is someone else's is marked unread,
\* unless the page has left that message to the chat: the list that brought it
\* found its chat open, or the user opened the chat later on (the chat fetches
\* its messages itself, and if that fails nobody has read them: main.rs:330),
\* or an identity of this device has answered since, from elsewhere.  Late and
\* repeated lists, a new chat, a switch or a reload lose no mark.
UnreadNotMissed ==
    \A k \in 1..Len(convs) :
        LET c == convs[k] IN
        c.from \in Others /\ c.n > toChat[c.id] /\ ~Answered(c.id, c.n)
            => c.id \in unread

\* The push worker is told to block a group for an inbox only when that inbox
\* has left it, unless the leave was taken for another identity, undone by an
\* invitation that was still being accepted, or could not be noted.
BlockedHasLeft ==
    \A b \in blocked :
        \/ HasLeft(b[1], b[2])
        \/ \E what \in {"astray", "revived", "kept"} : <<what, b[1], b[2]>> \in faults

\* The active identity has left g, and its pushes are still to be blocked.
BlockOutstanding(g) == pendingBlocks[g] = active /\ HasLeft(active, g)

\* A leave that succeeded in part at least is followed by the block of the
\* group's pushes, unless it is forgotten in a reload or the user goes on as
\* another identity, whose lists may hold the group.
LeaveIsBlocked == []<>(\A g \in GroupIds : ~BlockOutstanding(g))

\* The active identity's invitation to g waits though accepting did not fail.
Unanswered(g) ==
    /\ InList(active, g) /\ IsPending(active, g)
    /\ <<"refused", active, g>> \notin faults

\* "Auto-accept pending groups immediately": an invitation is accepted while the
\* list is on the screen, unless accepting it failed when its row appeared, or
\* lists of two identities were drawn since the page loaded, also while it was
\* starting: the first may have had the group in the same place, and its row
\* stays.
PendingIsAccepted ==
    <>[](view = "home" /\ ~mixed) => []<>(\A g \in GroupIds : ~Unanswered(g))

\* "Per-inbox unread indicator": in the end the indicator of the identity shown
\* tells whether a conversation it lists is marked, whatever lists of other
\* identities and marks of conversations that were left came before.
IndicatorSettles ==
    <>[](current \in ihu <=> unread \cap ListedIds(convs) # {})

\* The list finally shown is that of the worker's active identity.
ListSettles == <>[](listOf = active)
=============================================================================
