----------------------------- MODULE PushWorker -----------------------------
(***************************************************************************)
(* The push worker (src/xmes-push-worker/src/index.ts): HTTP handlers over *)
(* a key-value store.  One operation on one key of the store is atomic;    *)
(* between two of them, and while a push service answers, the handlers of  *)
(* other requests run.  An operation may fail; it changes nothing then.    *)
(***************************************************************************)
EXTENDS Naturals, FiniteSets

CONSTANTS
    Inboxes,      \* ids a subscription, a block list or a push may be for
    Addresses,    \* those among them that start with "0x"
    NoInbox,      \* no such id
    Groups,
    NoGroup,      \* /notify without a group_id
    Devices,      \* push subscriptions as browsers hand them out
    NoDevice,     \* no subscription is stored
    NotifyFields, \* what callers of /notify put into group_id
    Slots,        \* bound: how many requests are handled at once
    MaxCalls      \* bound: how many requests arrive

ASSUME PushAssumption ==
    /\ Addresses \subseteq Inboxes /\ NoInbox \notin Inboxes
    /\ NoGroup \notin Groups /\ NoDevice \notin Devices
    /\ NotifyFields \subseteq {"given", "missing"}
    /\ MaxCalls \in Nat

VARIABLES
    sub,        \* KV sub:<inbox>
    addrSub,    \* KV sub:addr:<address>
    blocked,    \* KV blocked:<inbox>; an empty list is an absent key
    alive,      \* external: the subscriptions push services still know
    calls,      \* [Slots -> request being handled or NoCall]
    branches,   \* [Slots -> [Inboxes -> the part of /notify for a target]]
    made,       \* bound: how many requests have arrived
    registered, \* history: the device /subscribe answered for last
    left,       \* history: the groups blocked and not unblocked since, as answered
    failed,     \* history: the groups whose last unblocking was not stored
    raced       \* history: inboxes with overlapping changes of a list

store   == <<sub, addrSub, blocked>>
history == <<registered, left, failed, raced>>
vars    == <<store, alive, calls, branches, made, history>>

-----------------------------------------------------------------------------
(* Requests being handled.                                                 *)

Kinds == {"subscribe", "unsubscribe", "block", "unblock", "notify"}

Requests ==
    [kind    : Kinds,
     inbox   : Inboxes \cup {NoInbox},
     address : Addresses \cup {NoInbox},
     device  : Devices \cup {NoDevice},
     group   : Groups \cup {NoGroup},  \* the group_id in the body
     about   : Groups \cup {NoGroup},  \* history: the group it is about
     mute    : SUBSET Inboxes,         \* history: who had left it by then
     step    : {"first", "second"},
     read    : SUBSET Groups]          \* the block list read by step one

Calls == {c \in Requests : c.kind \in {"block", "unblock"} =>
                              c.inbox \in Inboxes /\ c.group \in Groups}

NoCall ==
    [kind |-> "notify", inbox |-> NoInbox, address |-> NoInbox,
     device |-> NoDevice, group |-> NoGroup, about |-> NoGroup, mute |-> {},
     step |-> "first", read |-> {}]

\* What /notify does for one target, concurrently with the others.
Branches ==
    [stage   : {"done", "read", "address", "push", "drop"},
     waits   : SUBSET {"sub", "blocked"},  \* gets not answered yet
     device  : Devices \cup {NoDevice},
     blocked : SUBSET Groups]

NoBranch ==
    [stage |-> "done", waits |-> {}, device |-> NoDevice, blocked |-> {}]

Start(s, call) ==
    /\ calls[s] = NoCall /\ made < MaxCalls
    /\ calls' = [calls EXCEPT ![s] = call]
    /\ made' = made + 1

Answer(s) == calls' = [calls EXCEPT ![s] = NoCall]

Second(s) == calls' = [calls EXCEPT ![s].step = "second"]

At(s, kind, step) == calls[s].kind = kind /\ calls[s].step = step

-----------------------------------------------------------------------------
(* POST and DELETE /subscribe                                              *)

Subscribe(s) ==
    /\ \E inbox \in Inboxes \ Addresses, address \in Addresses \cup {NoInbox},
          d \in alive :
          Start(s, [NoCall EXCEPT !.kind = "subscribe", !.inbox = inbox,
                                  !.address = address, !.device = d])
    /\ UNCHANGED <<store, alive, branches, history>>

Unsubscribe(s) ==
    /\ \E inbox \in Inboxes \ Addresses, address \in Addresses \cup {NoInbox} :
          Start(s, [NoCall EXCEPT !.kind = "unsubscribe", !.inbox = inbox,
                                  !.address = address])
    /\ UNCHANGED <<store, alive, branches, history>>

\* The put or delete of sub:<inbox>; with an address another one follows.
ChangeSub(s) ==
    LET c == calls[s] IN
    /\ At(s, "subscribe", "first") \/ At(s, "unsubscribe", "first")
    /\ sub' = [sub EXCEPT ![c.inbox] = c.device]
    /\ registered' = [registered EXCEPT ![c.inbox] = c.device]
    /\ IF c.address = NoInbox THEN Answer(s) ELSE Second(s)
    /\ UNCHANGED <<addrSub, blocked, alive, branches, made, left, failed, raced>>

ChangeAddrSub(s) ==
    LET c == calls[s] IN
    /\ At(s, "subscribe", "second") \/ At(s, "unsubscribe", "second")
    /\ addrSub' = [addrSub EXCEPT ![c.address] = c.device]
    /\ Answer(s)
    /\ UNCHANGED <<sub, blocked, alive, branches, made, history>>

-----------------------------------------------------------------------------
(* POST /block-group and /unblock-group                                    *)

\* Another request is changing the block list of inbox.
ChangesList(s, inbox) ==
    calls[s].kind \in {"block", "unblock"} /\ calls[s].inbox = inbox

StartListChange(s, kind) ==
    \E inbox \in Inboxes \ Addresses, g \in Groups :
        /\ Start(s, [NoCall EXCEPT !.kind = kind, !.inbox = inbox, !.group = g])
        /\ raced' = raced \cup {i \in {inbox} :
                                  \E r \in Slots : ChangesList(r, i)}
        /\ UNCHANGED <<store, alive, branches, registered, left, failed>>

BlockGroup(s) == StartListChange(s, "block")

UnblockGroup(s) == StartListChange(s, "unblock")

\* The answer.  From here on notifications under way may reach who rejoined.
AnswerList(s) ==
    LET c == calls[s] IN
    /\ left' = [left EXCEPT ![c.inbox] = IF c.kind = "block"
                                         THEN @ \cup {c.group}
                                         ELSE @ \ {c.group}]
    /\ calls' = [r \in Slots |->
          IF r = s THEN NoCall
          ELSE IF c.kind = "unblock" /\ calls[r].about = c.group
          THEN [calls[r] EXCEPT !.mute = @ \ {c.inbox}] ELSE calls[r]]

\* The get; a change that is none is answered at once.
ReadList(s) ==
    LET c    == calls[s]
        list == blocked[c.inbox]
    IN  /\ c.kind \in {"block", "unblock"} /\ c.step = "first"
        /\ IF IF c.kind = "block" THEN c.group \notin list ELSE list # {}
           THEN /\ calls' = [calls EXCEPT ![s].step = "second", ![s].read = list]
                /\ UNCHANGED left
           ELSE AnswerList(s)
        /\ UNCHANGED <<store, alive, branches, made, registered, failed, raced>>

\* Mutations: unblocking removes the whole list, blocking adds the wrong field.
UnblockedClears(c) == {}

BlockedInbox(c) == c.read \cup {c.inbox}

BlockedAfter(c) == c.read \cup {c.group}

UnblockedAfter(c) == c.read \ {c.group}

WriteList(s) ==
    LET c == calls[s] IN
    /\ c.kind \in {"block", "unblock"} /\ c.step = "second"
    /\ blocked' = [blocked EXCEPT ![c.inbox] =
                     IF c.kind = "block" THEN BlockedAfter(c)
                                         ELSE UnblockedAfter(c)]
    /\ failed' = [failed EXCEPT ![c.inbox] = @ \ {c.group}]
    /\ AnswerList(s)
    /\ UNCHANGED <<sub, addrSub, alive, branches, made, registered, raced>>

\* Unblocking swallows a failing put or delete and answers ok all the same.
UnblockLost(s) ==
    LET c == calls[s] IN
    /\ At(s, "unblock", "second")
    /\ failed' = [failed EXCEPT ![c.inbox] = @ \cup {c.group}]
    /\ AnswerList(s)
    /\ UNCHANGED <<store, alive, branches, made, registered, raced>>

\* Elsewhere a failing get, put or delete ends the request, with status 500.
StoreFails(s) ==
    /\ calls[s].kind # "notify" /\ ~At(s, "unblock", "second")
    /\ Answer(s)
    /\ UNCHANGED <<store, alive, branches, made, history>>

-----------------------------------------------------------------------------
(* POST /notify                                                            *)

\* The block list is only read if the body names a group.
Gets(group) == {"sub"} \cup {what \in {"blocked"} : group # NoGroup}

Notify(s) ==
    \E members \in SUBSET Inboxes, sender \in Inboxes, g \in Groups,
       field \in NotifyFields :
        LET group == IF field = "given" THEN g ELSE NoGroup IN
        /\ Start(s, [NoCall EXCEPT !.inbox = sender, !.group = group,
                       !.about = g, !.mute = {i \in Inboxes : g \in left[i]}])
        /\ branches' = [branches EXCEPT ![s] =
             [i \in Inboxes |->
                 IF i \in members \ {sender}
                 THEN [NoBranch EXCEPT !.stage = "read", !.waits = Gets(group)]
                 ELSE NoBranch]]
        /\ UNCHANGED <<store, alive, history>>

\* The branch of the notification in slot s for target i goes on as b.
Continue(s, i, b) ==
    /\ branches' = [branches EXCEPT ![s][i] = b]
    /\ UNCHANGED <<addrSub, blocked, alive, calls, made, history>>

GetAnswered(s, i) ==
    LET b == branches[s][i] IN
    /\ b.stage = "read"
    /\ \/ /\ "sub" \in b.waits
          /\ Continue(s, i, [b EXCEPT !.waits = @ \ {"sub"}, !.device = sub[i]])
       \/ /\ "blocked" \in b.waits
          /\ Continue(s, i, [b EXCEPT !.waits = @ \ {"blocked"},
                                      !.blocked = blocked[i]])
    /\ UNCHANGED sub

\* Mutation: the block list is read and not looked at.
NextStageUnchecked(call, b, i) ==
    IF b.device # NoDevice THEN "push"
    ELSE IF i \in Addresses THEN "address" ELSE "done"

\* How the branch for i goes on once both gets are answered.
NextStage(call, b, i) ==
    IF call.group # NoGroup /\ call.group \in b.blocked THEN "done"
    ELSE IF b.device # NoDevice THEN "push"
    ELSE IF i \in Addresses THEN "address" ELSE "done"

Decide(s, i) ==
    LET b    == branches[s][i]
        next == NextStage(calls[s], b, i)
    IN
    /\ b.stage = "read" /\ b.waits = {}
    /\ Continue(s, i, IF next = "done" THEN NoBranch ELSE [b EXCEPT !.stage = next])
    /\ UNCHANGED sub

AddressAnswered(s, i) ==
    LET b == branches[s][i] IN
    /\ b.stage = "address" /\ i \in Addresses
    /\ Continue(s, i, IF addrSub[i] = NoDevice THEN NoBranch
                      ELSE [b EXCEPT !.stage = "push", !.device = addrSub[i]])
    /\ UNCHANGED sub

\* Mutation: every failed push removes the subscription.
PushedOrDropped(s, i) ==
    LET b == branches[s][i] IN
    /\ b.stage = "push"
    /\ Continue(s, i, NoBranch) \/ Continue(s, i, [b EXCEPT !.stage = "drop"])
    /\ UNCHANGED sub

\* The push service accepts the message, fails, or knows the device no more.
Pushed(s, i) ==
    LET b == branches[s][i] IN
    /\ b.stage = "push"
    /\ \/ Continue(s, i, NoBranch)
       \/ /\ b.device \notin alive
          /\ Continue(s, i, [b EXCEPT !.stage = "drop"])
    /\ UNCHANGED sub

\* PushGoneError: the subscription of the inbox is removed, whatever it is now.
DropGone(s, i) ==
    /\ branches[s][i].stage = "drop"
    /\ sub' = [sub EXCEPT ![i] = NoDevice]
    /\ Continue(s, i, NoBranch)

\* A failing get or delete rejects: status 500.  The other branches go on, or
\* end the same way if the runtime stops what an answered request left behind.
BranchFails(s, i) ==
    /\ branches[s][i] # NoBranch
    /\ Continue(s, i, NoBranch)
    /\ UNCHANGED sub

\* Promise.all: the answer waits for every branch, or for one that rejects.
NotifyAnswered(s) ==
    /\ calls[s].kind = "notify" /\ calls[s] # NoCall
    /\ branches[s] = [i \in Inboxes |-> NoBranch]
    /\ Answer(s)
    /\ UNCHANGED <<store, alive, branches, made, history>>

-----------------------------------------------------------------------------
(* External: browsers and the store.                                       *)

\* A browser gives up a subscription; its push service answers 404 or 410.
DeviceGone ==
    /\ \E d \in alive : alive' = alive \ {d}
    /\ UNCHANGED <<store, calls, branches, made, history>>

Init ==
    /\ sub = [i \in Inboxes |-> NoDevice]
    /\ addrSub = [a \in Addresses |-> NoDevice]
    /\ blocked = [i \in Inboxes |-> {}]
    /\ alive = Devices
    /\ calls = [s \in Slots |-> NoCall]
    /\ branches = [s \in Slots |-> [i \in Inboxes |-> NoBranch]]
    /\ made = 0
    /\ registered = [i \in Inboxes |-> NoDevice]
    /\ left = [i \in Inboxes |-> {}] /\ failed = [i \in Inboxes |-> {}]
    /\ raced = {}

Arrive(s) ==
    \/ Subscribe(s) \/ Unsubscribe(s) \/ BlockGroup(s) \/ UnblockGroup(s)
    \/ Notify(s)

Handle(s) ==
    \/ ChangeSub(s) \/ ChangeAddrSub(s) \/ ReadList(s) \/ WriteList(s)
    \/ UnblockLost(s) \/ StoreFails(s)
    \/ \E i \in Inboxes :
          \/ GetAnswered(s, i) \/ Decide(s, i) \/ AddressAnswered(s, i)
          \/ Pushed(s, i) \/ DropGone(s, i) \/ BranchFails(s, i)
    \/ NotifyAnswered(s)

Next == (\E s \in Slots : Arrive(s) \/ Handle(s)) \/ DeviceGone

Spec == Init /\ [][Next]_vars

-----------------------------------------------------------------------------
(* Properties.                                                             *)

TypeOK ==
    /\ sub \in [Inboxes -> Devices \cup {NoDevice}]
    /\ addrSub \in [Addresses -> Devices \cup {NoDevice}]
    /\ blocked \in [Inboxes -> SUBSET Groups]
    /\ alive \subseteq Devices
    /\ calls \in [Slots -> Calls]
    /\ branches \in [Slots -> [Inboxes -> Branches]]
    /\ made \in Nat
    /\ registered \in [Inboxes -> Devices \cup {NoDevice}]
    /\ left \in [Inboxes -> SUBSET Groups] /\ failed \in [Inboxes -> SUBSET Groups]
    /\ raced \subseteq Inboxes

\* What the block list of inbox i and the answers say agree.
ListFits(i) ==
    left[i] \subseteq blocked[i] /\ blocked[i] \subseteq left[i] \cup failed[i]

\* A block list holds every group blocked and not unblocked since, whatever
\* calls of the store failed; what it holds beyond them is a group whose
\* unblocking was answered with ok and not stored (index.ts:118-126).  Two
\* changes of a list that overlap are exempt: one of them may be lost.
BlockListExact == \A i \in Inboxes \ raced : ListFits(i)

\* A step that removes a subscription is DELETE /subscribe, or belongs to a
\* notification that was told by a push service that the one it had read is gone.
RemovesForReason ==
    \A i \in Inboxes :
        sub'[i] = NoDevice /\ sub[i] # NoDevice =>
           \/ registered'[i] = NoDevice
           \/ \E s \in Slots : /\ branches[s][i].stage = "drop"
                               /\ branches[s][i].device \notin alive

\* No other step makes a subscription disappear from the store.
SubscriptionKept == [][RemovesForReason]_vars

\* A notification that names its group gets no further than reading for an
\* inbox that had left that group when it came in and has not rejoined, unless
\* changes of the block list overlapped.  No application names the group
\* (main.rs:423, chat/mod.rs:254): their notifications get through.
LeftAreSkipped ==
    \A s \in Slots, i \in Inboxes \ raced :
        calls[s].group # NoGroup /\ i \in calls[s].mute =>
            branches[s][i].stage \in {"read", "done"}

-----------------------------------------------------------------------------
(* The invariant that makes the safety properties inductive.               *)

\* Unless changes of a list overlapped, one request at a time changes it and
\* what that request read is still what is stored.
ListsOK ==
    \A i \in Inboxes \ raced :
        /\ ListFits(i)
        /\ \A s, r \in Slots : ChangesList(s, i) /\ ChangesList(r, i) => s = r
        /\ \A s \in Slots : ChangesList(s, i) /\ calls[s].step = "second" =>
              calls[s].read = blocked[i]

\* Whom a notification excludes has left its group still.
MuteOK ==
    \A s \in Slots, i \in Inboxes :
        /\ branches[s][i] # NoBranch => /\ calls[s].kind = "notify"
                                       /\ calls[s].inbox # NoInbox
        /\ i \in calls[s].mute => /\ calls[s].kind = "notify"
                                /\ calls[s].about \in left[i]

\* A branch for whom the group named excludes sees that in their block list.
SeenOK ==
    \A s \in Slots, i \in Inboxes \ raced :
        (/\ calls[s].group # NoGroup /\ i \in calls[s].mute
         /\ branches[s][i] # NoBranch) =>
            /\ branches[s][i].stage = "read"
            /\ calls[s].group = calls[s].about
            /\ \/ "blocked" \in branches[s][i].waits
               \/ calls[s].about \in branches[s][i].blocked

\* A device that is dropped is one its push service has given up.
DropsOK ==
    \A s \in Slots, i \in Inboxes :
        branches[s][i].stage = "drop" => branches[s][i].device \notin alive

IInv == TypeOK /\ ListsOK /\ MuteOK /\ SeenOK /\ DropsOK
=============================================================================
