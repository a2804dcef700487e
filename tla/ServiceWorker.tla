---------------------------- MODULE ServiceWorker ----------------------------
(***************************************************************************)
(* The service worker (src/xmes-mobile-pwa/public/sw.js) and what the page *)
(* has to do with it: the number on the app's icon, the notification, and  *)
(* the inboxes a push arrived for (public/register-sw.js and src/main.rs). *)
(* Each await of a handler is a point where another handler may run; one   *)
(* call of the Cache or the Badge API is one step.                         *)
(***************************************************************************)
EXTENDS Naturals, Sequences, FiniteSets

CONSTANTS
    Inboxes,    \* inboxes of the identities on this device
    Chats,      \* conversations
    Owner,      \* the inbox a conversation belongs to
    NoInbox,    \* no inbox
    MaxJobs,    \* bound: handlers of the service worker in flight
    MaxMail,    \* bound: counts posted and not yet taken
    MaxMessages,\* bound: messages sent to the conversations
    MaxTurns    \* bound: windows, taps, switches and chats opened

ASSUME ServiceWorkerAssumption ==
    /\ Owner \in [Chats -> Inboxes] /\ NoInbox \notin Inboxes
    /\ {MaxJobs, MaxMail} \subseteq Nat \ {0}
    /\ {MaxMessages, MaxTurns} \subseteq Nat

Jobs == 1..MaxJobs

VARIABLES
    badge,  \* the count in the cache 'xmes-badge', 0 when there is none
    icon,   \* the number on the app's icon
    jobs,   \* handlers of the service worker in flight
    note,   \* the notification 'xmes-message' is shown
    tally,  \* history: what the badge would be had the handlers run in turn
    exact,  \* history: they did, since the count was last set
    asked,  \* history: how often a notification was asked for
    arrived,\* history: how many pushes arrived
    open,   \* there is a window
    mail,   \* counts posted to the service worker, on their way
    posted, \* inboxes posted to the window, on their way
    list,   \* window.XMES_PUSH_INBOX_LIST
    unread, \* unread_ids, in localStorage
    ihu,    \* inbox_has_unread, in localStorage
    current,\* identity_info
    news,   \* conversations with a message no list has shown yet
    due,    \* pushes on their way, for each inbox
    sent, turns \* bounds

workerVars == <<badge, icon, jobs, note, tally, exact, asked, arrived>>
pageVars   == <<open, mail, posted, list, unread, ihu, current>>
worldVars  == <<news, due, sent, turns>>
vars == <<workerVars, pageVars, worldVars>>

-----------------------------------------------------------------------------
(* The service worker's handlers.  "read" and "write" are awaits of the     *)
(* cache, "icon" one of the badge, in setBadgeCount.                        *)

Writing == {"read", "write", "icon"}

JobPCs == Writing \cup {"idle", "notify", "post", "focus"}

NoJob == [kind |-> "none", pc |-> "idle", n |-> 0, inbox |-> NoInbox,
          alone |-> TRUE]

Busy(s) == jobs[s].pc \in Writing

\* All handlers, none of which has had the badge to itself.
Crowded == [s \in Jobs |-> [jobs[s] EXCEPT !.alone = FALSE]]

\* A handler starts at pc, in the free slot s.
Started(s, kind, pc, n, i) ==
    LET others == \E r \in Jobs : Busy(r)
        before == IF others THEN Crowded ELSE jobs
    IN  /\ jobs[s] = NoJob
        /\ jobs' = [before EXCEPT ![s] = [kind |-> kind, pc |-> pc, n |-> n,
                                          inbox |-> i, alone |-> ~others]]

\* Where a handler goes on once setBadgeCount has resolved.
AfterCount(j) ==
    CASE j.kind = "push" -> [j EXCEPT !.pc = "notify"]
      [] j.kind = "tap"  -> [j EXCEPT !.pc = "focus"]
      [] OTHER           -> NoJob

\* Mutation: an error of the cache ends the handler.
AfterFailureEnds(j) == NoJob

\* setBadgeCount catches every error.
AfterFailure(j) == AfterCount(j)

\* Mutation: the count is that of the notifications, not of the pushes.
NextCountOnce(n) == IF n = 0 THEN 1 ELSE n

NextCount(n) == n + 1

\* 'push'
PushArrives(s) ==
    \E i \in Inboxes :
        /\ due[i] > 0 /\ due' = [due EXCEPT ![i] = @ - 1]
        /\ Started(s, "push", "read", 0, i)
        /\ arrived' = arrived + 1
        /\ UNCHANGED <<badge, icon, note, tally, exact, asked, pageVars,
                       news, sent, turns>>

\* 'notificationclick'
NoteTapped(s) ==
    /\ note /\ turns < MaxTurns /\ turns' = turns + 1
    /\ note' = FALSE
    /\ Started(s, "tap", "write", 0, NoInbox)
    /\ UNCHANGED <<badge, icon, tally, exact, asked, arrived, pageVars,
                   news, due, sent>>

\* 'message'
MailArrives(s) ==
    /\ mail # <<>> /\ mail' = Tail(mail)
    /\ Started(s, "sync", "write", Head(mail), NoInbox)
    /\ UNCHANGED <<badge, icon, note, tally, exact, asked, arrived, open,
                   posted, list, unread, ihu, current, worldVars>>

\* getBadgeCount; an error counts as zero.
ReadCount(s) ==
    /\ jobs[s].pc = "read"
    /\ \/ jobs' = [jobs EXCEPT ![s].pc = "write", ![s].n = NextCount(badge)]
       \/ jobs' = [jobs EXCEPT ![s].pc = "write", ![s].n = NextCount(0),
                               ![s].alone = FALSE]
    /\ UNCHANGED <<badge, icon, note, tally, exact, asked, arrived, pageVars,
                   worldVars>>

\* Mutation: a count of zero is not taken out of the cache.
CachedKept(n) == IF n > 0 THEN n ELSE badge

\* Mutation: a tap takes one off the count.
CachedLess(n) == IF n > 0 THEN n ELSE badge - 1

Cached(n) == n

\* cache.put or cache.delete
WriteCount(s) ==
    /\ jobs[s].pc = "write"
    /\ badge' = Cached(jobs[s].n)
    /\ jobs' = [jobs EXCEPT ![s].pc = "icon"]
    /\ UNCHANGED <<icon, note, tally, exact, asked, arrived, pageVars,
                   worldVars>>

\* setAppBadge or clearAppBadge: the end of setBadgeCount.
SetIcon(s) ==
    LET j == jobs[s] IN
    /\ j.pc = "icon"
    /\ icon' = j.n
    /\ jobs' = [jobs EXCEPT ![s] = AfterCount(j)]
    /\ tally' = IF j.kind = "push" THEN tally + 1 ELSE j.n
    /\ exact' = (j.alone /\ (exact \/ j.kind # "push"))
    /\ UNCHANGED <<badge, note, asked, arrived, pageVars, worldVars>>

\* The cache or the badge fails; the rest of setBadgeCount is left out.
CountFails(s) ==
    /\ jobs[s].pc \in {"write", "icon"}
    /\ jobs' = [jobs EXCEPT ![s] = AfterFailure(jobs[s])]
    /\ exact' = FALSE
    /\ UNCHANGED <<badge, icon, note, tally, asked, arrived, pageVars,
                   worldVars>>

\* The 'message' handler does not wait for setBadgeCount, so the browser may
\* stop the service worker in the middle of it.
Stopped(s) ==
    /\ jobs[s].kind = "sync"
    /\ jobs' = [jobs EXCEPT ![s] = NoJob]
    /\ exact' = FALSE
    /\ UNCHANGED <<badge, icon, note, tally, asked, arrived, pageVars,
                   worldVars>>

\* showNotification, which is refused without permission.
Notify(s) ==
    /\ jobs[s].pc = "notify"
    /\ asked' = asked + 1
    /\ \/ note' = TRUE /\ jobs' = [jobs EXCEPT ![s].pc = "post"]
       \/ note' = note /\ jobs' = [jobs EXCEPT ![s] = NoJob]
    /\ UNCHANGED <<badge, icon, tally, exact, arrived, pageVars,
                   worldVars>>

\* clients.matchAll and postMessage
PostInbox(s) ==
    /\ jobs[s].pc = "post"
    /\ posted' = IF open THEN posted \cup {jobs[s].inbox} ELSE posted
    /\ jobs' = [jobs EXCEPT ![s] = NoJob]
    /\ UNCHANGED <<badge, icon, note, tally, exact, asked, arrived, open, mail,
                   list, unread, ihu, current, worldVars>>

-----------------------------------------------------------------------------
(* The page.                                                               *)

\* The effect that runs when unread_ids is written, and when the page loads.
BadgeEffect(u) ==
    /\ Len(mail) < MaxMail
    /\ mail' = Append(mail, Cardinality(u))
    /\ icon' = Cardinality(u)
    /\ exact' = FALSE

\* The page sets the icon while handlers of the service worker are at it.
UnreadSet(u) ==
    /\ unread' = u
    /\ BadgeEffect(u)
    /\ jobs' = Crowded
    /\ UNCHANGED <<badge, note, tally, asked, arrived>>

Window == /\ open' = TRUE /\ list' = {} /\ posted' = {}
          /\ UNCHANGED <<ihu, current>>

OpenWindow ==
    /\ ~open /\ turns < MaxTurns /\ turns' = turns + 1
    /\ Window
    /\ UnreadSet(unread)
    /\ UNCHANGED <<news, due, sent>>

\* The last step of 'notificationclick': focus the window or open one.
Focus(s) ==
    /\ jobs[s].pc = "focus"
    /\ \/ /\ open
          /\ jobs' = [jobs EXCEPT ![s] = NoJob]
          /\ UNCHANGED <<badge, icon, note, tally, exact, asked, arrived,
                         pageVars>>
       \/ /\ ~open
          /\ Window /\ unread' = unread /\ BadgeEffect(unread)
          /\ jobs' = [Crowded EXCEPT ![s] = NoJob]
          /\ UNCHANGED <<badge, note, tally, asked, arrived>>
    /\ UNCHANGED worldVars

\* What the window holds is gone.
CloseWindow ==
    /\ open /\ turns < MaxTurns /\ turns' = turns + 1
    /\ open' = FALSE /\ list' = {} /\ posted' = {}
    /\ UNCHANGED <<workerVars, mail, unread, ihu, current, news, due, sent>>

\* on_identity_update
Switch ==
    \E i \in Inboxes \ {current} :
        /\ open /\ turns < MaxTurns /\ turns' = turns + 1
        /\ current' = i
        /\ UNCHANGED <<workerVars, open, mail, posted, list, unread, ihu, news,
                       due, sent>>

\* Mutation: an inbox replaces the ones before it.
ListenedLast(i) == {i}

Listened(i) == list \cup {i}

\* The listener of register-sw.js.
PostArrives ==
    \E i \in posted :
        /\ posted' = posted \ {i}
        /\ list' = Listened(i)
        /\ UNCHANGED <<workerVars, open, mail, unread, ihu, current,
                       worldVars>>

\* The interval that takes the list over, in one callback.
Absorb ==
    /\ list # {} /\ list' = {}
    /\ ihu' = ihu \cup list
    /\ UNCHANGED <<workerVars, open, mail, posted, unread, current,
                   worldVars>>

OwnChats == {c \in Chats : Owner[c] = current}

\* on_conversations, as far as messages nobody has opened go.
ListArrives ==
    /\ open
    /\ news' = news \ OwnChats
    /\ ihu' = IF (unread \cup news) \cap OwnChats # {} THEN ihu \cup {current}
                                                       ELSE ihu \ {current}
    /\ IF news \cap OwnChats = {}
       THEN UNCHANGED <<workerVars, mail, unread>>
       ELSE UnreadSet(unread \cup (news \cap OwnChats))
    /\ UNCHANGED <<open, posted, list, current, due, sent, turns>>

\* A chat is opened; unread_ids is written whether it was in there or not.
OpenChat ==
    \E c \in OwnChats :
        /\ open /\ turns < MaxTurns /\ turns' = turns + 1
        /\ UnreadSet(unread \ {c})
        /\ UNCHANGED <<open, posted, list, ihu, current, news, due,
                       sent>>

\* Somebody writes to a conversation; a push follows, or it is lost.
MessageSent ==
    \E c \in Chats :
        /\ sent < MaxMessages /\ sent' = sent + 1
        /\ news' = news \cup {c}
        /\ \/ UNCHANGED due
           \/ due' = [due EXCEPT ![Owner[c]] = @ + 1]
        /\ UNCHANGED <<workerVars, pageVars, turns>>

-----------------------------------------------------------------------------

Init ==
    /\ badge = 0 /\ icon = 0 /\ note = FALSE
    /\ jobs = [s \in Jobs |-> NoJob]
    /\ tally = 0 /\ exact = TRUE /\ asked = 0 /\ arrived = 0
    /\ open \in BOOLEAN /\ mail = <<>> /\ posted = {} /\ list = {}
    /\ unread = {} /\ ihu = {} /\ current \in Inboxes
    /\ news = {} /\ due = [i \in Inboxes |-> 0] /\ sent = 0 /\ turns = 0

HandlerStep(s) ==
    ReadCount(s) \/ WriteCount(s) \/ SetIcon(s) \/ CountFails(s) \/ Notify(s)
        \/ PostInbox(s) \/ Focus(s)

Next ==
    \/ \E s \in Jobs : PushArrives(s) \/ NoteTapped(s) \/ MailArrives(s)
                         \/ HandlerStep(s) \/ Stopped(s)
    \/ OpenWindow \/ CloseWindow \/ Switch \/ PostArrives \/ Absorb
    \/ ListArrives \/ OpenChat \/ MessageSent

\* Handlers go on, posts arrive and the interval runs; nothing is assumed of
\* people and pushes.
Fairness ==
    /\ \A s \in Jobs : WF_vars(HandlerStep(s)) /\ WF_vars(MailArrives(s))
    /\ WF_vars(PostArrives) /\ WF_vars(Absorb)

Spec == Init /\ [][Next]_vars /\ Fairness

-----------------------------------------------------------------------------
(* Properties.                                                             *)

JobType == [kind : {"none", "push", "tap", "sync"}, pc : JobPCs, n : Nat,
            inbox : Inboxes \cup {NoInbox}, alone : BOOLEAN]

\* Every variable has its type; a count is never missing where one is used.
TypeOK ==
    /\ {badge, icon, tally, asked, arrived, sent, turns} \subseteq Nat
    /\ jobs \in [Jobs -> JobType]
    /\ {note, exact, open} \subseteq BOOLEAN
    /\ mail \in Seq(Nat)
    /\ posted \subseteq Inboxes /\ list \subseteq Inboxes /\ ihu \subseteq Inboxes
    /\ unread \subseteq Chats /\ news \subseteq Chats /\ current \in Inboxes
    /\ due \in [Inboxes -> Nat]

Quiet == \A s \in Jobs : ~Busy(s)

\* Between handlers, the badge counts every push since the count was last set
\* and the icon shows the badge, unless two handlers overlapped, one failed or
\* was stopped, or the page set the icon itself since then.
BadgeCountsAll == Quiet /\ exact => badge = tally /\ icon = badge

\* The browser allows pushes only to those who show them (userVisibleOnly):
\* a notification is asked for each push, whatever the cache and the badge do.
PushNotifies ==
    \A k \in 1..MaxMessages : arrived >= k ~> asked >= k

\* A push that is posted to a window marks its inbox, unless the window closes.
PushMarksInbox ==
    \A i \in Inboxes : i \in posted ~> i \in ihu \/ ~open
=============================================================================
