---------------------------- MODULE IdentityPage ----------------------------
(***************************************************************************)
(* The mobile page as the keeper of the user's identities                  *)
(* (src/xmes-mobile-pwa/src/main.rs and components/identities/mod.rs),     *)
(* composed with the worker of XmtpWorker.  The page persists the keys of  *)
(* every identity list it receives, addresses identities by their position *)
(* in that list, and may be reloaded at any time: the worker then starts   *)
(* again from what the page had stored.                                    *)
(***************************************************************************)
EXTENDS Lists, XmtpWorker

CONSTANTS
    NoDialog,  \* no confirmation dialog is open
    MaxReloads \* bound: how often the page is reloaded

ASSUME PageAssumption == NoDialog \notin [idx : Nat, id : Ids] /\ MaxReloads \in Nat

\* Identities are removed through the dialog only, and never by AskFor.
ASSUME PageRequestsAssumption == \A r \in UserRequests : r.kind # "remove"

VARIABLES
    stored,     \* localStorage signing_keys; mnemonics_v1 holds the same order
    lastActive, \* localStorage last_active_inbox
    shown,      \* all_identities
    current,    \* identity_info
    firstList,  \* is_first_identity_cb
    dialog,     \* the removal captured by confirm_action, or NoDialog
    reloads,    \* bound: how often the page has been reloaded
    pageVer,    \* history: the epoch of the last list delivered
    saved,      \* history: lastActive when the page was loaded
    acted,      \* history: the user has sent a request since then
    removed,    \* history: identities the user confirmed to remove
    faults      \* history: what has gone wrong, see Observed

storage   == <<stored, lastActive>>
display   == <<shown, current, firstList, dialog>>
history   == <<pageVer, saved, acted, removed>>
ownVars   == <<storage, display, reloads, history>>
allVars   == <<vars, ownVars, faults>>

ReadyScreen == screen = "ready"

-----------------------------------------------------------------------------
(* The callbacks for what the worker posts.                                *)

\* Where the list m shows the identity of the last session; only the first
\* list of a session is searched for it.
Sought(m) ==
    {i \in 1..Len(m.list) : firstList /\ m.list[i] = lastActive}

\* The position of the first of them, if it is not the active one already.
ToRestore(m) ==
    {i \in Sought(m) : i # m.active + 1 /\ \A j \in Sought(m) : i <= j}

\* Mutations: the restored identity is shown but not asked for, or asked for
\* by the wrong position.
SwitchBackNever(m) == {}

SwitchBackShifted(m) == {Req("switch", i, lastActive, <<>>) : i \in ToRestore(m)}

SwitchBack(m) == {Req("switch", i - 1, lastActive, <<>>) : i \in ToRestore(m)}

\* The keys and, in parallel, the mnemonics of all identities of the list.
KeysOf(m) == m.list

\* on_identity_update
IdentityListArrives ==
    LET m == Head(outbox) IN
    /\ outbox # <<>> /\ m.type = "identity_list"
    /\ outbox' = Tail(outbox)
    /\ stored' = KeysOf(m)
    /\ current' = IF ToRestore(m) # {} THEN lastActive
                                       ELSE ActiveOf(m.list, m.active)
    /\ lastActive' = IF current' = NoId THEN lastActive ELSE current'
    /\ shown' = m.list
    /\ firstList' = FALSE
    /\ screen' = "ready"
    /\ inbox' = inbox \o SetToSeq(SwitchBack(m))
                      \o <<Req("list", 0, NoId, <<>>)>>
    /\ pageVer' = m.ver
    /\ UNCHANGED <<workerVars, sent, dialog, reloads, saved, acted, removed>>

\* on_conversations and on_error; the identities are not touched by the other
\* callbacks, and a message of type "error" reaches none.
OtherArrives ==
    /\ outbox # <<>> /\ Head(outbox).type # "identity_list"
    /\ outbox' = Tail(outbox)
    /\ screen' = IF Head(outbox).type = "connection_error" THEN "offline"
                                                           ELSE screen
    /\ UNCHANGED <<workerVars, inbox, sent, ownVars>>

-----------------------------------------------------------------------------
(* What the user does on the identity screen.                              *)

\* The user sends request r.
Ask(r) ==
    /\ ReadyScreen
    /\ sent < MaxRequests /\ Len(inbox) < MaxInbox
    /\ inbox' = Append(inbox, r)
    /\ sent' = sent + 1
    /\ acted' = TRUE
    /\ UNCHANGED <<workerVars, outbox, screen, storage, current, firstList,
                   reloads, pageVer, saved>>

\* "Create" and "Restore".  An open dialog covers every other button.
AskFor ==
    \E r \in UserRequests :
        /\ dialog = NoDialog
        /\ Ask(r)
        /\ UNCHANGED <<shown, dialog, removed>>

\* A tap on the card at position i.
TapCard ==
    \E i \in 1..Len(shown) :
        /\ dialog = NoDialog
        /\ Ask(Req("switch", i - 1, shown[i], <<>>))
        /\ UNCHANGED <<shown, dialog, removed>>

\* Mutation: the position is counted from 0 before it is lowered.
TapDeleteShifted ==
    \E i \in 1..Len(shown) :
        /\ ReadyScreen /\ dialog = NoDialog /\ sent < MaxRequests
        /\ dialog' = [idx |-> i - 2, id |-> shown[i]]
        /\ UNCHANGED <<vars, storage, shown, current, firstList, reloads,
                       history>>

\* The delete button of the card at position i opens a dialog that remembers
\* both the position and the inbox.
TapDelete ==
    \E i \in 1..Len(shown) :
        /\ ReadyScreen /\ dialog = NoDialog /\ sent < MaxRequests
        /\ dialog' = [idx |-> i - 1, id |-> shown[i]]
        /\ UNCHANGED <<vars, storage, shown, current, firstList, reloads,
                       history>>

\* Confirming hides the inbox and asks the worker to remove the position.
Confirm ==
    /\ dialog # NoDialog
    /\ Ask(Req("remove", dialog.idx, dialog.id, <<>>))
    /\ shown' = Keep(shown, {k \in 1..Len(shown) : shown[k] # dialog.id})
    /\ dialog' = NoDialog
    /\ removed' = removed \cup {dialog.id}

Cancel ==
    /\ dialog # NoDialog
    /\ dialog' = NoDialog
    /\ UNCHANGED <<vars, storage, shown, current, firstList, reloads, history>>

TapRetry ==
    /\ screen = "offline" /\ sent < MaxRequests
    /\ inbox' = Append(inbox, Req("retry", 0, NoId, <<>>))
    /\ screen' = "loading"
    /\ sent' = sent + 1
    /\ UNCHANGED <<workerVars, outbox, ownVars>>

\* The page and its worker start again from localStorage.
Reload ==
    /\ reloads < MaxReloads
    /\ reloads' = reloads + 1
    /\ identities' = <<>> /\ active' = 0 /\ params' = <<>> /\ poisoned' = FALSE
    /\ tasks' = [s \in Slots |-> Idle]
    /\ inbox' = <<Req("init", 0, NoId, stored)>> /\ outbox' = <<>>
    /\ epoch' = 0 /\ told' = 0 /\ pageVer' = 0
    /\ screen' = "loading"
    /\ shown' = <<>> /\ current' = NoId
    /\ firstList' = TRUE /\ dialog' = NoDialog
    /\ saved' = lastActive /\ acted' = FALSE
    /\ UNCHANGED <<used, sent, storage, removed>>

PageInit ==
    /\ Init
    /\ stored = inbox[1].keys
    /\ lastActive \in ToSet(stored) \cup {NoId}
    /\ shown = <<>> /\ current = NoId
    /\ firstList = TRUE /\ dialog = NoDialog
    /\ reloads = 0
    /\ pageVer = 0 /\ saved = lastActive /\ acted = FALSE /\ removed = {}
    /\ faults = {}

PageStep ==
    \/ \E s \in Slots : (Dispatch(s) \/ Resume(s)) /\ UNCHANGED ownVars
    \/ IdentityListArrives \/ OtherArrives
    \/ AskFor \/ TapCard \/ TapDelete \/ Confirm \/ Cancel \/ TapRetry
    \/ Reload

-----------------------------------------------------------------------------
(* History: the three ways in which the worker and the page come apart.    *)

\* A handler collects an identity list while another changes the identities.
Torn == \E s \in Slots : tasks[s].pc = "addresses" /\ tasks[s].ver # epoch

\* handle_init goes on with fewer identities than there are keys.
Dropped ==
    \E s \in Slots :
        /\ tasks[s].kind = "init" /\ tasks[s].pc = "load"
        /\ identities' # identities /\ identities' # tasks[s].keys

\* The worker takes a removal whose position is not the chosen identity's.
Misaimed ==
    /\ inbox # <<>> /\ inbox' = Tail(inbox)
    /\ LET r == Head(inbox) IN
          r.kind = "remove" /\ ActiveOf(identities, r.idx) # r.id

Observed ==
    faults' = faults \cup {f \in {"torn", "dropped", "misaimed"} :
                             \/ f = "torn" /\ Torn'
                             \/ f = "dropped" /\ Dropped
                             \/ f = "misaimed" /\ Misaimed}

PageNext == PageStep /\ Observed

PageSpec == PageInit /\ [][PageNext]_allVars

-----------------------------------------------------------------------------
(* Properties.                                                             *)

PageTypeOK ==
    /\ stored \in Seq(Ids) /\ lastActive \in Ids \cup {NoId}
    /\ shown \in Seq(Ids) /\ current \in Ids \cup {NoId}
    /\ firstList \in BOOLEAN
    /\ dialog \in [idx : Nat, id : Ids] \cup {NoDialog}
    /\ reloads \in Nat /\ pageVer \in Nat
    /\ saved \in Ids \cup {NoId} /\ acted \in BOOLEAN
    /\ removed \subseteq Ids /\ faults \subseteq {"torn", "dropped", "misaimed"}

\* Nothing is under way between the page and the worker.
Quiet == inbox = <<>> /\ outbox = <<>> /\ \A s \in Slots : tasks[s] = Idle

\* Once everything is answered, the stored keys and the displayed identity are
\* the worker's, unless a list was collected during a change.
SettlesUnlessTorn ==
    Quiet /\ ReadyScreen /\ "torn" \notin faults =>
        stored = identities /\ current = ActiveOf(identities, active)

\* The identity of the last session is active again after a start in which the
\* user did nothing, whatever its position among those that could be loaded.
SelectionRestored ==
    (Quiet /\ ReadyScreen /\ ~acted /\ saved \in ToSet(identities)) =>
        ActiveOf(identities, active) = saved

\* A stored key disappears only if the user has removed the identity or one of
\* the three faults has happened; reloading at any moment loses none.
KeysKept ==
    [][\A id \in ToSet(stored) :
          id \in ToSet(stored') \cup removed' \/ faults' # {}]_allVars
=============================================================================
