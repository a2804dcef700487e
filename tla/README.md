# xmes: verification project

xmes is a group messenger over the XMTP network: two browser applications
(mobile and desktop PWA, Rust/Dioxus compiled to WebAssembly), a Dedicated
Worker that runs the XMTP client, a Cloudflare worker that stores Web Push
subscriptions, and service workers that show the notifications.  This directory
holds TLA+ models of it, the TLC runs that check them and TLAPS proofs about
them.

## 1. Inventory

| part | source | state | operations | talks to |
|---|---|---|---|---|
| XMTP worker | `xmes-xmtp-wasm/src/worker.rs` | `identities`, `active`, the parameters of the last `init` in one `RefCell`; handlers suspended at an `.await` | init, retry, create/restore/remove/switch identity, group actions, lists, send | page by `postMessage`, XMTP network through `lib.rs` |
| identity wrapper | `xmes-xmtp-wasm/src/lib.rs` | the libxmtp database of one identity: groups, consent, messages | register, group, member, consent and message calls | XMTP network |
| mobile page | `xmes-mobile-pwa/src/main.rs` | signals (`all_identities`, `conversations`, `last_seen_ns`, ...), `localStorage` | the callbacks for what the worker posts, polling, retry | worker handle, push worker |
| key store | `*/src/crypto_store.rs` | wrapping key and ciphertexts in `localStorage` | encrypt, decrypt | page |
| identity screen | `mobile .../identities/mod.rs` | dialogs | create, restore, remove by index, switch | worker handle |
| conversation list | `mobile .../conversations/*.rs` | open menus, dialogs | open, leave, accept, create group | worker handle, push worker |
| chat | `mobile .../chat/mod.rs` | draft, pending members, pending pushes, the set of messages seen | send, poll, member administration | worker handle, push worker |
| desktop page | `xmes-desktop-pwa/src/**` | as mobile, list and chat side by side | as mobile | as mobile |
| push worker | `xmes-push-worker/src/index.ts` | KV: `sub:<inbox>`, `sub:addr:<address>`, `blocked:<inbox>` | subscribe, unsubscribe, block, unblock, notify | KV store, push services |
| service workers | `*/public/sw.js`, `register-sw.js` | badge counter in a cache, the browser's subscription | push, click, message; subscribe, block | push worker, page |

How they interact: the page sends requests by `postMessage` and is called back
for every message the worker posts.  The worker runs all handlers on one thread
and interleaves them at their awaits.  Both queues are in order; answers of the
network are not.  Pages post to the push worker with `fetch` and ignore the
answer; the push worker reads and writes an eventually consistent KV store in
separate steps.  The service worker shares the badge with the page and posts the
inboxes of pushes to it.

What is hard here: handlers that read `identities` before an await and use it
after; answers that arrive for an identity or a conversation that is no longer
the one on the screen, and do not say which they are for; lists that are
collected while they change and persisted by the page; a start that loses keys
because the network was down; removal and switching by index; a counter of
pushes that all conversations share; a badge that several handlers read and
write.

What makes each part correct:

- **XMTP worker**: `active` always indexes `identities`; the identities change
  by whole operations only; every list posted is one the worker held, or is
  later replaced by one; every request is answered or reported; start-up ends
  in a screen.
- **mobile page**: what is in `localStorage` is what the worker holds; no key is
  lost by a reload; no list of another identity stays; a mark stays until its chat
  is opened.
- **conversation list**: invitations are accepted; pushes of a group are blocked
  once the group has been left, and only then.
- **chat**: one push per message sent, none for old messages; the messages shown
  are finally those of the open conversation.
- **push worker**: the stored subscription is the one the browser registered
  last; a block list holds what was blocked, also when the store fails; nobody who
  left is pushed by a notification that names the group.
- **service workers**: the badge counts the pushes since the last visit; every
  push shows a notification; the subscription stored is the browser's.

`PROJECT.json` lists, under `hazards`, the places where this can go wrong and
the properties that watch them.

## 2. Modules

| module | what it is |
|---|---|
| `XmtpWorker` | the XMTP worker with its queues and a minimal page |
| `IdentityStore` | abstract: a list of identities and a selected one, changed atomically |
| `IdentityPage` | composition: the worker of `XmtpWorker` with the mobile page that persists, displays and addresses its identities |
| `Groups` | the worker's handlers for conversations, members and messages, and the network as far as groups go |
| `ConversationList` | composition: `Groups` with the mobile page as the keeper of the conversation list |
| `DesktopPage` | composition: `ConversationList` with the desktop page's sidebar and chat side by side |
| `Chat` | composition: `Groups` with an open conversation, its settings and its pushes |
| `PushWorker` | the push worker with its KV store, any number of requests at once |
| `ServiceWorker` | `sw.js` with the page it shares the badge and the list of inboxes with |
| `PushRegistration` | `register-sw.js` from the identity callback to the push worker's store |
| `Lists` | what `retain` and a filter that is collected keep of a list |
| `XmtpWorkerProofs`, `IdentityPageProofs`, `GroupsProofs`, `ConversationListProofs`, `ChatProofs`, `PushWorkerProofs`, `ServiceWorkerProofs`, `PushRegistrationProofs` | the proofs |
| `MC...` | instances for TLC, one `.cfg` per run |

Operators whose comment begins with "Mutation" are faulty variants of the
definition that follows them.  No specification uses them; substituting one for
its original shows that the property named for it in `PROJECT.json` can fail.

Two models of the worker exist because its two halves meet only in `active`.
`XmtpWorker` has the queues between page and worker, start-up, and identities
that come and go; conversations are answers without content.  `Groups` has the
content, and fixed identities.  There, a request is dispatched in the step that
sends it, and an answer is taken in the step that posts it: a message that waits
in one of the two ordered queues is a request sent later, or an answer whose
handler is still collecting.

### XmtpWorker

`identities`, `active`, `params` are the fields of `WorkerState`; `poisoned` says
that a handler panicked while the `RefCell` was borrowed, after which every
`borrow_mut` panics.  `tasks[s]` is a handler in flight; its `pc` names the
`.await` it is suspended at, its other fields are the local variables that
live across it.  `inbox` and `outbox` are the two `postMessage` queues.

Each request kind has an action `Handle...` that takes it from `inbox` and runs
the handler up to its first await; each await has an action (`KeyLoaded`,
`IdentityCreated`, `NextIdentity`, `MembersListed`, ...) that runs on to the next
one or to the return.  Awaited calls answer in any order; those that can fail
do so nondeterministically.  `create_group`, `leave`, `add_members` and
`update_group_name` have one shape - one call, then the conversation list or an
error - and are one kind, "act"; the three role changes are "role".
`post_identity_list_async` is `Collect`, `NextIdentity`, `PostList`, and the
panic of its index is `IndexPanics`.  A handler whose `borrow_mut` would panic
ends without a message.

The page is `HostSend`, `HostRetry`, `HostReceive`: it sends any request of
`UserRequests` once a list has arrived, only polls before, and offers "Retry"
after a connection error.  `of` and `ver` in messages, `used`, `epoch` and `told`
are history: they do not influence a step and let properties speak of the
identity or the state that something was computed from.

### IdentityStore

What the rest of the application may assume: `Load`, `Add`, `Refill`, `Drop(i)` and
`Select(i)`, each atomic.  The refinement mapping is the identity on
`identities` and `active`; every await, failure, retry and message is a
stuttering step.

### IdentityPage

Adds to the worker what `main.rs` and the identity screen keep: `stored` and
`lastActive` (`localStorage`), `shown`, `current` and `firstList` (signals), and
`dialog`, the removal a confirmation has captured.  `IdentityListArrives` is the
whole identity callback: store the keys, restore the selection of the last
session if this is the first list, store the selection, show the list, ask for
the conversations.  `OtherArrives` covers messages that leave these variables
alone.  `TapDelete` captures position and inbox as the closure does, `Confirm`
hides the inbox and sends the position.  `Reload` may happen at any time: the
worker dies with its handlers and queues, and a new one gets the stored keys.

`faults` is history: "torn" - a list is being collected across a change;
"dropped" - a start went on without a key; "misaimed" - a removal met another
identity at its position.  The properties say what holds otherwise.

### Groups

`member[i][g]` and `consent[i][g]` are what `get_membership_state` and the consent
record say; `roster`, `log` and `recent` are the network's members, messages (by
sender) and order of activity.  `Listing(i)` is `list_conversations`: what is
listed, the newest message and its sender, and `pending`.  A task is a handler
at one of its awaits: "sync" before the list is read, "names" while the senders'
addresses are resolved, "fetch" and "senders" likewise for messages, and the
calls on a group.  Whether a handler passes through "names" depends on the list,
as in the code.  Actions that end in an answer are completed by the page's
module, which takes `ListPosted(s)`, `MessagesPosted(s)` or `MembersPosted(s)`.
A handler reads `active` again where the code does: the list after a leave and
the members after a role change are those of the identity active by then.

Each call of `lib.rs` that changes a group is an operator of its own (`NewGroup`,
`Written`, `MemberRemoved`, `RoleChanged`, `GroupRenamed`); the three that end in
the member list share `ThenMembers`.

Consents are changed where the worker calls `update_consent_state`, and that call
may fail.  `leave_conversation` ignores this (`lib.rs:251`), so a leave goes on with
or without the consent denied (`LeaveConsent`); a failing acceptance ends in an
error (`worker.rs:419`): no consent, no list (the pages draw only some of the
acceptances they ask for).  `HasLeft(i, g)` is a leave that took effect at least
in part: consent denied, or the MLS leave sent.

`member`, `roster`, `Hears` and `Invites` stand for the XMTP network and other
people, modelled from what `lib.rs` asks of them.

### Lists

`Keep(s, T)` is the list of the entries of `s` at the positions in `T`, in their
order: what `Vec::retain` leaves and what a filter collects.  It is written by
counting positions (`Rank`), not by recursion over the list, so that what it
returns can be proved (`KeepProperties` in `GroupsProofs`).  TLC compares it with
`SelectSeq` on all lists of up to four of three entries, as the assumption
`KeepIsSelectSeq` of `MCConversationList`.

### ConversationList

`ConversationsArrive` is the whole of `on_conversations`: the group just created
is opened, unread marks and the watermark `last_seen_ns` are updated, the
indicator of the inbox follows, pending blocks whose group is missing are sent,
and the list is drawn.  Drawing has an effect of its own: the first mount of a
row of an invited group accepts the invitation (`Mounted`, `Draws`).  A row is
mounted when the conversation at its place changes, because rows are compared
by place and the component inside carries the conversation's id as key.  Any of
the acceptances may fail.  The rest are the user's steps (open, navigate, switch,
create, leave with its dialog from a row or from the settings of a chat), polling,
and `Reload`.

A start is a switch of its own.  The worker begins with the identity stored first
(`First`, `active = 0` in `worker.rs:286`) and looks up addresses (`Starting`); the
page shows no identity yet, but polls, and draws whatever list comes.
`FirstIdentityListArrives` is the callback for the first list of identities, which
has the worker switch to the one saved (`main.rs:251-258`); `saved` is
`last_active_inbox`.  That the callback, the request and the worker's dispatch are one
step is the abstraction of `Groups`.

`toChat`, `listOf` (whose list is shown), `faults` and `mixed` are history.
`toChat[g]` is the newest message of `g` whose showing the page has left to the chat,
because the list that brought it found the chat open or because the user opened
the chat afterwards.  Whether the chat then shows it is another matter: it fetches
messages by itself, and the fetch may fail.  `faults` records a leave that the worker
took for another identity ("astray"), one that a stale row undid by accepting the
group again ("revived"), one whose denial failed ("kept"), and an acceptance that
failed ("refused").  `mixed` says that lists of two identities have been drawn
since the start, by a switch of the user's or that of the start.

### DesktopPage

The desktop page differs where it shows list and chat side by side: the callback
closes a chat that the list does not have (`FallBack`), tabs mount and unmount
the rows, rows have no key (so a row is new only when the list grows or the tab
is selected), switching closes the chat, and the settings' leave closes whatever
chat is open.  Everything else is `ConversationList`'s.

### Chat

`MessagesArrive` is the whole of `on_messages`: messages shown, pending members
cleared, and the pushes.  `seen` is the set `__xmes_seen_<conversation>`, made from
the first answer with an own message; `pushPending` counts messages written and
not yet pushed.  A push is asked for when an own message shows up that is not in
the set and the counter is not zero (`Due`).  `pushes`, `early`, `old` and `switched`
are history.  `OpenChat`, `Poll`, `Foreground` (the check when the page becomes visible
again, which fetches messages and members), `Send`, the member, role and name
requests of the settings, the sheets that add members, `Switch` and `Reload` are the
page's other steps; the answers come as they come.  A chat begins once the first
list of identities has had the worker switch to the saved one; the list that the
foreground check asks for as well leaves an open chat alone and is left out.

### PushWorker

`sub`, `addrSub` and `blocked` are the KV entries.  A call is a record in
`calls[s]`; an action ends where the handler awaits the store.  `/notify` runs its
targets concurrently: `branches[s][i]` is the part for target `i`, with the gets
still open, the values read and the stage reached.  An absent block list and an
empty one are the same, as in the code; JSON and lower-casing of addresses are
left out, and `Addresses` are the ids that begin with `0x`.  `DeviceGone` is
external: a browser gives up a subscription and its push service answers 410.
`NotifyFields` says whether callers put a group into `group_id`: it is both here.

Every call of the store may fail.  `StoreFails` ends a request there with status 500
and what it had stored so far, `BranchFails` does so from one target of a
notification while the others go on, or are stopped.  `/unblock-group` is the
exception: it swallows a failing put or delete and answers ok (`UnblockLost`,
`index.ts:118-126`).

`registered`, `left` (groups blocked and not unblocked since, going by the answers),
`failed` (groups whose unblocking was answered and not stored) and `raced` (inboxes
whose list two requests changed at once) are history.

### ServiceWorker

A job is a run of the `push`, `notificationclick` or `message` handler at one of
its awaits; `setBadgeCount` is "read", "write", "icon".  `mail` holds counts the
page posted, `posted` the inboxes on their way to the window, `list` the array
`XMES_PUSH_INBOX_LIST` that an interval of the page takes over (`Absorb`).  The
page's effect on `unread_ids` sets the icon itself and posts the count
(`BadgeEffect`).  `Stopped` is the browser ending a service worker whose `message`
handler runs outside `waitUntil`.  `tally`, `exact`, `asked` and `arrived` are
history.

### PushRegistration

A call of `xmesSubscribePush` is a record at one of its awaits; `AfterKey` decides
between keeping the subscription and making a new one when the server's key has
changed.  `current` is what `window.XMES_INBOX_ID` holds; the call takes the inbox
when it starts and the address once it holds the subscription (`Posting`), as the
code does.  A subscription that tells no key counts as one of another key
(`register-sw.js:69-71`); it is one made before the browser told keys.  The browser's
Push API is external and described in the module's header.

## 3. Runs

| run | question | bounds | outcome |
|---|---|---|---|
| `identities` | do interleaved identity operations stay consistent and implement `IdentityStore`? | 3 identities, 2 handlers, 3 requests, 1 retry round, 0-2 stored keys | holds |
| `live` | does every handler report, does start-up end, is every change announced? | as above, 2 requests of every kind, fairness | holds |
| `keep` | does the page store and restore what it should? | 3 identities, 2 handlers, 2 user steps, 1 reload, stored keys none, two or one twice | holds |
| `unread` | does a mark stay until its chat is opened, through late lists, switches, new chats, failing consents, a reload? | 2 identities, 1 other person, 2 groups (one with a message, one yet to be made), 2 handlers, 2 messages per group, which the other person or one of the identities writes, 1 switch, creation or leave, 1 reload | holds |
| `leave` | are groups blocked once, and only once, they were left; are invitations accepted; do the list and the indicator settle? | 2 identities, either of them saved, 2 handlers, 1 switch, creation or leave after the start's switch, an own group and one to be invited to, which has a message | holds |
| `desktop` | is the open chat in the list, and when are invitations accepted? | as `leave`, with a shared group that has a message and one to be made or invited to | holds |
| `pushes` | is each message pushed at most once, and no old one? | 3 people in a group, 3 messages, 2 operations, 1 reload | holds |
| `shown` | does a chat finally show its own messages? | 2 groups, 1 message each, 2 operations | holds |
| `pending` | "Members excluded from message push until they send their first message" | 1 group, 3 operations | violated |
| `lists` | are block lists exact whatever fails, respected by pushes that name a group, subscriptions kept? | 2 inboxes, 1 address, 2 groups, 2 devices, 2 requests at once, 3 in all, with and without a group named | holds |
| `badge` | does the badge count pushes, is every push shown, every inbox marked? | 2 handlers, 1 count posted, 2 inboxes and conversations, 2 messages, 1 turn of the user | holds |
| `registration` | is the stored subscription the browser's, however calls overlap? | 2 inboxes, 3 calls, 4 updates and reloads | holds |

Why the bounds are enough for the cases that matter: two handlers interleave at
every await of each; a third adds no pair of reads and writes that two do not
have.  Three identities give an active one with a neighbour on either side, and
removals before, at and after it; for conversations what counts is whether an
answer is the current identity's or another's, so two suffice.  Two groups give
a current conversation and another one, and rows that move.  Positions 0 to 2
include one that is out of range.  One backoff round reaches both the second
attempt and the timeout.  One operation of the user's suffices in `leave` and
`desktop`, because the start already is a switch with lists of two identities under
way; two of them make liveness checking take too long, and the safety properties
are proved for any number.  `MaxInbox` bounds what the user queues, not what the page
sends in answer.  For the push worker a race needs two requests on one list and
a third to observe its outcome; for the pushes of a chat, three messages give an
old one, one written here and one written on another device.  Where a bound on
handlers (`Room`) is reached, the page's step waits instead of being lost.
Identities, slots, devices and groups are symmetric in `identities`, `keep` and
`lists`; runs with liveness properties use no symmetry.  Deadlock is not checked
because every instance stops when its requests are used up.

The violated run: `pending_members` is written when a member is added in the
settings, under the conversation's id, and the comment says that these members
are excluded from pushes.  The push that follows a message goes to every member
shown except the user; the list is only consulted to greet and to display.  The
counterexample writes a message, which is not pushed for want of a set of seen
messages, adds a member, and writes another.

### Behaviour worth knowing

Not properties, but facts met while modelling, which explain exceptions in the
properties above:

- `post_identity_list_async` counts the identities, awaits a network call for each,
  and indexes again (`worker.rs:978`).  A removal in between makes it panic with
  the `RefCell` borrowed; from then on identities cannot change
  (`PanicFreezesIdentities`).  It can also post an outdated list last, which the
  page then stores (`SettlesUnlessTorn`).
- Removing the last identity while offline leaves none (`worker.rs:360`).  A key
  that cannot be loaded at start is dropped from storage by the list that
  follows (`worker.rs:272`).  A removal goes by a position that may be outdated
  (`identities/mod.rs:455`).
- A conversation list does not say whose it is.  After a switch a row of a group
  both identities share stays mounted, so that its invitation is not accepted
  (hence `~mixed` in `PendingIsAccepted`); on the desktop a row without a key is
  reused for any conversation.  A start is such a switch when the identity saved is
  not the one stored first.  A leave confirmed while the worker has already
  switched blocks the pushes of an inbox that has not left ("astray"); a row
  that was still pending can accept a group again that was just left
  ("revived").  A leave confirmed before the first list of identities has no inbox to
  note its block for, and the push worker refuses the one it would send.
- A leave ignores a consent that cannot be denied (`lib.rs:251`) and an MLS leave that
  fails (`lib.rs:252`).  With the second alone the group is hidden; with both the
  group stays listed and its block waits; and a group whose denial alone failed
  is blocked as soon as some list lacks it ("kept").
- An invitation whose acceptance fails is not accepted again while its row stays
  mounted (`lib.rs:455`, `worker.rs:419`; "refused").  On the desktop the row asks again
  when the tab is selected (`PendingAcceptedOnReturn`).
- The watermark passes the newest message of the chat that is open
  (`main.rs:330-331`), though the chat's messages come by a fetch of their own.  If
  that fails until the user leaves the chat, the message is neither shown nor
  marked; `UnreadNotMissed` follows a message up to its chat only.
- The first own message in a conversation makes the set of seen messages and is
  therefore not pushed; the counter stays up, so the next one of any
  conversation is pushed, also one written on another device.  Pushes go to the
  members shown, which may be those of another conversation.
- Block lists and subscriptions in the KV store are read, changed and written in
  separate steps (`index.ts:100`, `index.ts:184`): overlapping changes can lose one,
  and a notification can delete a subscription newer than the one it read.  A list
  of conversations that confirms several leaves has the page post their blocks in
  one loop (`main.rs:362-369`), all to one list.  An unblocking that fails is answered
  as done (`index.ts:126`), and the group stays blocked.
  The applications call `/notify` without `group_id` (`main.rs:423`), so block lists
  have no effect on their messages.
- A registration that fails is not repeated before the next identity update.
  No application posts 'clear-badge', which `sw.js` handles.

### Fairness

`live`: weak fairness of `Resume(s)` for every handler (the network call a handler
awaits returns, with a result or an error, and the executor runs every future
that is woken), of `Dispatch` (the browser's event loop delivers queued messages;
a free slot is always found) and of `HostReceive` (likewise on the page).  That
every awaited call returns is an assumption about `libxmtp`, whose calls carry
timeouts; the code itself has none except in `handle_init`.

`leave`, `desktop`, `shown`: weak fairness of `Poll`, since the intervals are
never cancelled while the screen is open; for every handler, weak fairness of
its failure and strong fairness of its progress.  Strong, because a call is
repeated by every poll: the network may fail any number of times in a row, not
for ever.  Without it nothing on the page would ever settle, offline.

`badge`: weak fairness of the handlers' steps, of the delivery of what is posted,
and of the interval that absorbs the inboxes.

Nothing is ever assumed of users, other people, pushes, or reloads; liveness
properties that need the user to stay somewhere say so in their premise.

## 4. Proofs

All proofs are about every value of the constants that meets the named
assumptions of the modules: any identities, groups, handlers, requests, bounds.
What the assumptions ask for is little: bounds are numbers, the "nobody" values
are not members of the sets they stand outside of, what the page may request
has the type of a request and is no removal (the page's dialog makes those,
`PageRequestsAssumption`), and there are finitely many groups (a list of all of
them is finite).

**`XmtpWorkerProofs`**: `TypeCorrect`, `ActiveAlwaysInRange`,
`PostedActiveAlwaysInRange`, `CurrentListAlwaysExact` and `PanicFreezes`.  None of the
posted-list properties is inductive: a list is right because the handler that
collects it was right at every step.  `IInv` therefore says of a handler at
"addresses" that it has room for the identity it waits for, that its snapshot of
`active` lies within its snapshot of the length, and that if the epoch has not
moved since, it has copied a prefix of `identities` in order (`TaskOK`); and of a
posted list what remains of this (`MessageOK`).  There is one lemma per handler
and one per await; all changes of the identities go through `Assign`, for which
the work is done once.

`EveryHandlerReports` is a property of steps: whichever await fails, a handler that
ends has posted something.  `Reports(s)` is what each step of handler `s` is shown
to do.  The exception for role changes needs an invariant, `RoleOK`: who waits
for a role change was started as one.

`Implementation`: `Spec` implements `IdentityStore`.  Every step but one maps to an
operation or a stutter by what `IInv` says of `active`.  The exception is
start-up: `handle_init` ends by assigning the list it has loaded, which is `Load`
only if nothing is there yet.  It is because the right to start is a token that
is in one place at a time: the page before it has sent `init`, the `init` or
`retry` in the queue, the handler that loads, the connection error on its way
back, or the page that shows it (`OneStart`); and while it exists no identity has
been made and no request but polls is under way (`SomeStart => Calm`).  `Phase`
states this; it is inductive with `IInv`.

**`IdentityPageProofs`**: `PageTypes`, `SettledUnlessTorn`, `NoKeyIsLost` and
`LastIdentityReturns`.  `PageInv` is the worker's `IInv`, which the page's own
steps and a reload also keep, with the types and `ToldOK`: the page has not
taken a list from a later epoch, and if it has taken one of this epoch, what it
stored is what the worker holds.

`SettledUnlessTorn` is about a queue and handlers that must not overtake each
other, and needs most.  As long as no list was collected across a change
(`"torn" \notin faults`), `WholeOK` holds: nobody panicked; nobody is collecting an
outdated list; a list of the current epoch is not followed by an older one, in
the queue or on the page (`InOrder`); a page that has not taken the current list
still gets it, from the queue or from a handler (`Announced`); and one that has
shows the active identity, or has asked for the one it shows, or is about to be
told (`Selected`).  `Carries(s)` says what each step of a handler owes to this: a
change is followed by a handler that collects it, and a handler that collects
goes on until it posts.

`NoKeyIsLost` is about everything a key passes through from one session to the next.
A list succeeds another if it holds all the other holds but what the user has
removed (`Succeeds`).  Unless a fault the property names has happened, what is stored,
the lists on their way, in their order, and the worker's identities succeed each
other (`ListsGrow`; a list that is posted is exactly the worker's, by `IInv`, as it was
not torn).  The start of a session needs
the token of `Implementation`, which `PhaseOnPage` shows to be kept by the page and by a
reload: while it exists no list is under way, and what the `init`, `retry` or loading
handler goes on with has the stored keys (`StartHasKeys`).  And a removal that is
queued is one the user has confirmed (`RemovalsMeant`).

`LastIdentityReturns` is the invariant `SelectionRestored`, and asks for nothing of the
faults: as long as the user has done nothing, only requests and handlers of
start-up, polls and switches exist (`Untouched`), so the identities are assigned once
in the session and no handler can run past their end.  Up to the first list
nothing has changed since that assignment (`BeforeFirst`); so the first list is exact,
and the position it is searched for is that of the worker.  After it the identity
is active or a switch to it is queued, and every queued switch is to it
(`Restored`).  That start-up is over by the first list is again the token.

TLC has checked `PageInv`, `WholeOK`, `KeepOK` and `SelectOK` on the instance of `keep`
before.

**`GroupsProofs`** holds what the three pages that build on `Groups` need, and no
theorem of its own: `GroupsInv`, that the network, the handlers' fields and the
lists they carry have their types, and that a list was right when it was made
(`ListOK`: the newest message of each entry is one that was written, by the one
named); the facts about `Keep` and about `Listing`; and for each step of the worker
or of other people that `GroupsInv` is kept and messages are only added
(`LogGrows`).

**`ConversationListProofs`**: `ListTypes` (from `PageInv`, which says of the list shown
what `GroupsInv` says of those under way); `MarksUntilOpened`; `OnlyLeaversAreBlocked`.

`UnreadNotMissed` speaks of the newest message of what is listed, and this is not
inductive: an older list may arrive next.  `MarksInv` says it of every message up
to the watermark (`MarksOK`), that the watermark covers what is shown, lies
within what was written, and that all of it is left to the chat that is open
(`SeenOK`).

For the blocks, `BlocksInv` says that a block that waits for a list is one of an
identity that has left, or of a leave a fault is noted of (`BlocksOK`), and why
a group that was left is not allowed again by the one other action that does so,
creation: a group somebody knows, has left or is leaving has members, and so its
id is not free (`RosterOK`).

The same module proves, about the desktop page, `DeskTypes`, `OpenChatIsListed`
(`DeskInv`) and `MarksUntilOpenedOnDesk`: the desktop page differs in its drawing and
its callback, and what both pages share is proved once, over a step's effects.

**`ChatProofs`**: `ChatStateTypes`, `PushedAtMostOnce` and `HistoryStaysQuiet`.  `ChatInv`
gives the types.  The counter of messages to push is decremented once for each
message pushed, without a check; that it never falls below zero rests on `Due`
choosing no more messages than it counts (`DueBound`), and its upper bound on its
not exceeding the messages sent.  `PushInv` says that what was pushed is in the
set of messages seen (`PushesOK`); that this set, once made, holds the user's
messages older than the page, unless the identity was switched (`SeenOK`); and,
of handlers, that an answer collected holds at least the messages older than the
page and that a list of identities is on its way only after a switch (`TaskOK`).
All steps but four leave the pushes alone and are covered by one lemma that asks
only that the messages grow.

**`PushWorkerProofs`**: `TypeCorrect`, `BlockListsExact`,
`SubscriptionsAreKept`, and `LeftAreNotPushed`, which speaks of notifications
that name their group and needs no assumption on callers.  `IInv` says that
unless changes of a list overlapped, one request at a time changes it, what that
request read is what is stored, and the list is what the answers say but for
unblockings that were lost (`ListsOK`); that whom a notification excludes has
left the group still (`MuteOK`); that a branch for such an inbox is still
reading and does not miss the group once it has the block list (`SeenOK`); and
that a subscription about to be dropped is one given up (`DropsOK`).

**`ServiceWorkerProofs`**: `TypeCorrect` and `BadgeIsRight`.  `IInv` adds to the types that
the unread sets are finite and what a handler may rely on that has been alone in
`setBadgeCount` (`AloneOK`): no other is in it, the cache holds its number once
it has written it, and this number is what the tally will be.

**`PushRegistrationProofs`**: `TypeCorrect`, `StoredAreLive`, `RegisteredInTheEnd`.  `IInv` says
what a call holds at each await (`HeldOK`), that the store holds nothing but live
subscriptions, and that, permission granted and nothing failed, either the store
is right for the identity shown or some call under way will make it so
(`UnderWay`).

Model-checked only: the liveness properties (`InitAnswered`, `ChangesAnnounced`,
`PendingIsAccepted`, `ListSettles`, `LeaveIsBlocked`, `IndicatorSettles`,
`PendingAcceptedOnReturn`, `ShownSettles`, `PushNotifies`, `PushMarksInbox`), which are out
of reach of the prover.

## 5. Not modelled

- Encryption of the stored keys, their JSON form, and the two `localStorage`
  entries for keys and phrases as separate writes (`main.rs:241`): `stored` is
  written at once.
- Expiry and eventual consistency of the KV store: a read sees the last write.
  VAPID signatures and the encryption of push bodies.
- `decline_invitation`, which no application requests; system messages of groups;
  profiles and addresses of members; the database below `lib.rs`.
- A subscription of a browser that never tells its key, which every registration
  replaces (`register-sw.js:69`).
- A chat opened before the first list of identities, from a row that a poll brought
  (`ConversationList` has the row and the tap, `Chat` not what the chat then shows).
- The page's drafts, link previews, aliases and QR codes; the expiry of
  `pending_members` after seven days.
- The desktop page's callbacks for messages and members, which repeat the mobile
  page's, and its identity cards: they would be `Chat` and `IdentityPage` again.
- `assets/sw.js`, an older copy of `public/sw.js`; the offline cache of files.
- The redirecting app worker, the landing page, the patched constants.
- Pure functions (`split_urls`, the codecs of keys and phrases, QR payloads): their
  results are wording and layout to every property here.

## 6. Plan

1. Keys and phrases as two entries of `localStorage`, paired by position, with
   encryption that may fail for one of them.
2. The composition of `ConversationList` with `PushWorker`: from a leave to the first
   push it must keep away, with the group a notification names.
3. Reference definitions for the pure functions, checked over bounded inputs.
