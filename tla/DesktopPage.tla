----------------------------- MODULE DesktopPage -----------------------------
(***************************************************************************)
(* The desktop page as the keeper of the conversation list                 *)
(* (src/xmes-desktop-pwa/src/main.rs and components/sidebar.rs).  It shows *)
(* the list and a chat side by side, so the chat must follow the list, and *)
(* its rows have no key.  What it shares with the mobile page is taken     *)
(* from ConversationList; "home" is View::Welcome here.                    *)
(***************************************************************************)
EXTENDS ConversationList

VARIABLES
    tab      \* sidebar_tab

deskVars == <<vars, tab>>

\* The rows on the screen: those of the tab, whatever the chat beside it.
DeskOnScreen == IF tab = "conversations" THEN convs ELSE <<>>

\* Mutation: the tab hides the rows instead of dropping them.
DeskMountedOnce(t, list) ==
    {list[k].id : k \in {j \in 1..Len(list) :
        t = "conversations" /\ list[j].pending /\ j > Len(convs)}}

\* The pending groups in rows that are new.  Rows have no key, so a row is new
\* only if the list has become longer or the tab has been selected.
DeskMounted(t, list) ==
    {list[k].id : k \in {j \in 1..Len(list) :
        t = "conversations" /\ list[j].pending /\ j > Len(DeskOnScreen)}}

\* The sidebar draws list under tab t; see Draws.
DeskDraws(t, list, i, c, ts) ==
    LET gs == DeskMounted(t, list) IN
    \E done \in SUBSET {g \in gs : Known(i, g)} :
        /\ convs' = list
        /\ tab' = t
        /\ Room(ts, Len(AcceptRequests(i, done)))
        /\ consent' = AcceptConsent(c, i, done)
        /\ tasks' = Launched(ts, AcceptRequests(i, done))
        /\ UNCHANGED faults

\* Mutation: the chat is looked for in the list that is being replaced.
FallBackLate(v, list) == IF v \in GroupIds \ ListedIds(convs) THEN "home" ELSE v

\* The open conversation was left, or is another identity's.
FallBack(v, list) == IF v \in GroupIds \ ListedIds(list) THEN "home" ELSE v

\* on_conversations
DeskConversationsArrive(s) ==
    \E list \in ListPosted(s) :
        LET v      == ViewAfter(list)
            marked == unread \cup NewIn(list, v)
        IN  /\ pendingOpen' = FALSE
            /\ lastSeen' = SeenAfter(list)
            /\ view' = FallBack(v, list)
            /\ unread' = marked \ OpenedAs(view')
            /\ ihu' = IF HasUnread(list, marked)
                      THEN ihu \cup ({current} \ {NoOne}) ELSE ihu \ {current}
            /\ pendingBlocks' = [g \in GroupIds |->
                   IF g \in BlocksDue(list) THEN NoOne ELSE pendingBlocks[g]]
            /\ blocked' = blocked \cup
                   {<<pendingBlocks[g], g>> : g \in BlocksDue(list)}
            /\ DeskDraws(tab, list, active, consent, Done(s))
            /\ listOf' = tasks[s].id
            /\ mixed' = (mixed \/ listOf \notin {NoOne, tasks[s].id})
            /\ toChat' = [g \in GroupIds |->
                   IF g = v THEN Max({toChat[g], NewestIn(list, g), lastSeen[g]})
                            ELSE toChat[g]]
            /\ UNCHANGED <<member, roster, log, recent, active, current, saved,
                           dialog, ops, reloads>>

DeskIdentityListArrives(s) ==
    (FirstIdentityListArrives(s) \/ IdentityListArrives(s)) /\ UNCHANGED tab

DeskPoll == Poll /\ UNCHANGED tab

\* A click on a row, also beside an open chat.
DeskOpenChat ==
    \E g \in ListedIds(DeskOnScreen) :
        /\ NoDialog
        /\ view' = g
        /\ unread' = unread \ {g}
        /\ toChat' = [toChat EXCEPT ![g] =
                         Max({@, NewestIn(convs, g), lastSeen[g]})]
        /\ UNCHANGED <<backend, current, convs, pendingOpen, dialog, listOf,
                       saved, lastSeen, ihu, blockVars, boundVars, tab>>

SelectTab ==
    \E t \in {"conversations", "identities"} \ {tab} :
        /\ NoDialog
        /\ DeskDraws(t, convs, active, consent, tasks)
        /\ UNCHANGED <<member, roster, log, recent, active, current, view,
                       pendingOpen, dialog, listOf, savedVars, pendingBlocks,
                       blocked, boundVars>>

\* A click on an identity closes the chat; the old list stays for now.
DeskSwitch ==
    \E i \in Ids :
        /\ NoDialog /\ tab = "identities" /\ current # NoOne /\ Counted
        /\ Room(tasks, 1)
        /\ active' = i
        /\ view' = "home"
        /\ DeskDraws("conversations", convs, i, consent,
                     Launched(tasks, <<SwitchTask(i)>>))
        /\ UNCHANGED <<member, roster, log, recent, current, pendingOpen,
                       dialog, listOf, savedVars, pendingBlocks, blocked,
                       mixed, reloads>>

DeskCreateGroup ==
    /\ NoDialog /\ tab = "conversations" /\ current # NoOne /\ Counted
    /\ Room(tasks, 1)
    /\ pendingOpen' = TRUE
    /\ tasks' = Launched(tasks, CreateRequest(active))
    /\ UNCHANGED <<network, active, current, convs, view, dialog, listOf,
                   savedVars, blockVars, mixed, reloads, tab>>

\* "Leave" on a row, or in the settings of the open chat.
DeskAskLeave ==
    /\ NoDialog /\ ops < MaxOps
    /\ \/ leaving' \in ListedIds(DeskOnScreen) /\ inChat' = FALSE
       \/ leaving' \in {view} \cap GroupIds /\ inChat' = TRUE
    /\ UNCHANGED <<backend, current, convs, view, pendingOpen, listOf,
                   savedVars, blockVars, boundVars, tab>>

DeskCancelLeave == CancelLeave /\ UNCHANGED tab

\* From a row the chat is closed if it shows the group; from the settings it
\* is closed whatever it shows by then.
DeskConfirmLeave ==
    LET g == leaving
    IN  /\ ~NoDialog /\ Counted
        /\ leaving' = NoOne /\ inChat' = FALSE
        /\ view' = IF inChat \/ view = g THEN "home" ELSE view
        /\ pendingBlocks' = [pendingBlocks EXCEPT ![g] = current]
        /\ Room(tasks, Len(LeaveRequest(active, g)))
        /\ \E fails \in BOOLEAN :
              DeskDraws(tab, Without(g), active, LeaveConsent(active, g, fails),
                        Launched(tasks, LeaveRequest(active, g)))
        /\ UNCHANGED <<member, roster, log, recent, active, current,
                       pendingOpen, listOf, savedVars, blocked, mixed,
                       reloads>>

DeskResumes(s) == (Resumes(s) \/ Fails(s)) /\ UNCHANGED tab

DeskElsewhere == Elsewhere /\ UNCHANGED tab

DeskInit == Init /\ tab = "conversations"

DeskArrives(s) == DeskConversationsArrive(s) \/ DeskIdentityListArrives(s)

DeskNext ==
    \/ \E s \in Slots : DeskArrives(s) \/ DeskResumes(s)
    \/ DeskPoll \/ DeskElsewhere
    \/ DeskOpenChat \/ SelectTab \/ DeskSwitch \/ DeskCreateGroup
    \/ DeskAskLeave \/ DeskCancelLeave \/ DeskConfirmLeave

DeskFairness ==
    /\ WF_deskVars(DeskPoll)
    /\ \A s \in Slots :
          /\ SF_deskVars(DeskArrives(s) \/ (Resumes(s) /\ DeskResumes(s)))
          /\ WF_deskVars(Fails(s) /\ DeskResumes(s))

DeskSpec == DeskInit /\ [][DeskNext]_deskVars /\ DeskFairness

-----------------------------------------------------------------------------
(* Properties.                                                             *)

DeskTypeOK ==
    /\ TypeOK
    /\ tab \in {"conversations", "identities"}

\* The open chat is a conversation of the list beside it, also right after a
\* switch, a leave, a new conversation and a late list.
OpenIsListed == view \in GroupIds => view \in ListedIds(convs)

\* An acceptance fails: a row has appeared and the invitation still waits.
AcceptFails ==
    \E g \in DeskMounted(tab', convs') :
        Known(active', g) /\ consent'[active'][g] # "allowed"

\* An invitation is accepted at the latest when the user comes back to the list
\* from the identities, unless accepting goes on to fail: a row that was there
\* already does not accept it.
PendingAcceptedOnReturn ==
    ([]<>(tab = "identities") /\ []<>(tab = "conversations")
                              /\ <>[][~AcceptFails]_deskVars)
        => []<>(\A g \in GroupIds : ~(InList(active, g) /\ IsPending(active, g)))
=============================================================================
