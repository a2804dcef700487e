--------------------------- MODULE PushRegistration ---------------------------
(***************************************************************************)
(* How a browser is registered for push messages                           *)
(* (src/xmes-mobile-pwa/public/register-sw.js), from the identity callback *)
(* of the page (src/xmes-mobile-pwa/src/main.rs) to the push worker's      *)
(* store.  Each await of a call is a point where another call may run.     *)
(* The browser's part follows the Push API: to unsubscribe a subscription  *)
(* that is no longer the current one does nothing, and subscribing again   *)
(* with the same key returns the current one.  The browser drops no        *)
(* subscription by itself, it tells the key of one this page has made, and *)
(* the server's key is the same throughout.                                *)
(***************************************************************************)
EXTENDS Naturals, FiniteSets

CONSTANTS
    Inboxes,  \* inboxes of the identities on this device
    NoInbox,  \* no inbox
    MaxCalls, \* bound: calls in flight
    MaxTurns  \* bound: identity updates and page loads

ASSUME PushRegistrationAssumption ==
    NoInbox \notin Inboxes /\ MaxCalls \in Nat \ {0} /\ MaxTurns \in Nat

Calls == 1..MaxCalls

\* No subscription, one from an earlier page, and one of this page.
Subs == {0, 1, 2}

VARIABLES
    current, \* window.XMES_INBOX_ID, and whose address XMES_ETH_ADDRESS is
    perm,    \* Notification.permission
    armed,   \* listeners for the next tap
    calls,   \* calls in flight
    sub,     \* the browser's subscription
    stale,   \* subscription 1 has an older server key, or tells none
    server,  \* sub:<inbox> in the push worker's store
    byAddr,  \* sub:addr:<address of the inbox> in the push worker's store
    failed,  \* history: a call failed since the last identity update
    turns    \* bound

browser == <<perm, sub, stale>>
store   == <<server, byAddr>>
vars    == <<current, armed, calls, browser, store, failed, turns>>

-----------------------------------------------------------------------------

CallPCs == {"idle", "prompt", "ready", "key", "unsubscribe", "subscribe",
            "post", "address"}

NoCall == [pc |-> "idle", inbox |-> NoInbox, addr |-> NoInbox, sub |-> 0]

\* Mutation: the call does not keep the inbox it found.
ReadyForgets(i) == [NoCall EXCEPT !.pc = "ready"]

\* xmesSubscribePush starts, and reads the inbox.
Ready(i) == [NoCall EXCEPT !.pc = "ready", !.inbox = i]

FreeCalls == {c \in Calls : calls[c] = NoCall}

\* All calls and n times a new one, in the first free slots.
Called(call, n) ==
    [c \in Calls |->
        IF c \in FreeCalls /\ Cardinality({f \in FreeCalls : f <= c}) <= n
        THEN call ELSE calls[c]]

\* Call c goes on.
CallStep(c, from, to) ==
    /\ calls[c].pc = from
    /\ calls' = [calls EXCEPT ![c] = to]
    /\ UNCHANGED <<current, armed, stale, turns>>

\* xmesRequestPushPermission: the question is answered, dismissed or settled.
Prompted(c) ==
    \E answer \in IF perm = "default" THEN {"granted", "denied", "default"}
                                      ELSE {perm} :
        /\ perm' = answer
        /\ CallStep(c, "prompt",
                    IF answer = "granted" THEN Ready(current) ELSE NoCall)
        /\ UNCHANGED <<sub, store, failed>>

\* serviceWorker.ready and getSubscription
GetSubscription(c) ==
    /\ CallStep(c, "ready", [calls[c] EXCEPT !.pc = "key", !.sub = sub])
    /\ UNCHANGED <<perm, sub, store, failed>>

\* Mutation: every subscription is made anew.
KeyDiffersAlways(held) == held # 0

\* existingKey !== publicKey: an older key, or null where options has none
KeyDiffers(held) == held = 1 /\ stale

\* Mutation: who has a subscription is taken to be registered.
AfterKeyDone(held) ==
    IF KeyDiffers(held) THEN "unsubscribe"
    ELSE IF held = 0 THEN "subscribe" ELSE "idle"

AfterKey(held) ==
    IF KeyDiffers(held) THEN "unsubscribe"
    ELSE IF held = 0 THEN "subscribe" ELSE "post"

\* The call holds subscription s, and builds its body with the address of now.
Posting(c, s) == [calls[c] EXCEPT !.pc = "post", !.sub = s, !.addr = current]

\* fetch of /vapid-public-key
GetKey(c) ==
    /\ CallStep(c, "key",
           CASE AfterKey(calls[c].sub) = "idle" -> NoCall
             [] AfterKey(calls[c].sub) = "post" -> Posting(c, calls[c].sub)
             [] OTHER -> [calls[c] EXCEPT !.pc = AfterKey(calls[c].sub)])
    /\ UNCHANGED <<perm, sub, store, failed>>

Unsubscribe(c) ==
    /\ CallStep(c, "unsubscribe", [calls[c] EXCEPT !.pc = "subscribe", !.sub = 0])
    /\ sub' = IF sub = calls[c].sub THEN 0 ELSE sub
    /\ UNCHANGED <<perm, store, failed>>

\* pushManager.subscribe; what it makes has the server's key.
Subscribed == IF sub = 0 THEN 2 ELSE sub

Subscribe(c) ==
    /\ CallStep(c, "subscribe", Posting(c, Subscribed))
    /\ sub' = Subscribed
    /\ UNCHANGED <<perm, store, failed>>

\* POST /subscribe, and the push worker's first put
PostSubscription(c) ==
    /\ CallStep(c, "post", [calls[c] EXCEPT !.pc = "address"])
    /\ server' = [server EXCEPT ![calls[c].inbox] = calls[c].sub]
    /\ UNCHANGED <<perm, sub, byAddr, failed>>

\* The push worker's second put, and the answer.
PutAddress(c) ==
    /\ CallStep(c, "address", NoCall)
    /\ byAddr' = [byAddr EXCEPT ![calls[c].addr] = calls[c].sub]
    /\ UNCHANGED <<perm, sub, server, failed>>

\* An error of any of these awaits ends the call; nothing tries again.
CallFails(c) ==
    /\ calls[c].pc \in CallPCs \ {"idle", "prompt"}
    /\ CallStep(c, calls[c].pc, NoCall)
    /\ failed' = TRUE
    /\ UNCHANGED <<perm, sub, store>>

\* on_identity_update: xmesSubscribePush, which returns at once without
\* permission, and xmesEnablePushOnNextTap, which needs an open question.
Update ==
    \E i \in Inboxes :
        /\ turns < MaxTurns /\ turns' = turns + 1
        /\ current' = i
        /\ perm = "granted" => FreeCalls # {}
        /\ calls' = IF perm = "granted" THEN Called(Ready(i), 1) ELSE calls
        /\ armed' = IF perm = "default" THEN armed + 1 ELSE armed
        /\ failed' = FALSE
        /\ UNCHANGED <<browser, store>>

\* A tap: touchend and click follow each other, but a listener that ran once
\* has removed itself from both.
Tap ==
    /\ armed > 0 /\ Cardinality(FreeCalls) >= armed
    /\ calls' = Called([NoCall EXCEPT !.pc = "prompt"], armed)
    /\ armed' = 0
    /\ UNCHANGED <<current, browser, store, failed, turns>>

\* The page is loaded again: its calls and listeners are gone.
Reload ==
    /\ turns < MaxTurns /\ turns' = turns + 1
    /\ armed' = 0 /\ calls' = [c \in Calls |-> NoCall] /\ failed' = TRUE
    /\ UNCHANGED <<current, browser, store>>

Init ==
    /\ current \in Inboxes /\ armed = 0
    /\ perm \in {"default", "granted", "denied"}
    /\ calls = [c \in Calls |-> NoCall]
    /\ sub \in {0, 1} /\ (sub = 1 => perm = "granted")
    /\ stale \in BOOLEAN /\ (stale => sub = 1)
    /\ server \in [Inboxes -> {0, sub}] /\ byAddr \in [Inboxes -> {0, sub}]
    /\ failed = TRUE /\ turns = 0

Progress(c) ==
    Prompted(c) \/ GetSubscription(c) \/ GetKey(c) \/ Unsubscribe(c)
        \/ Subscribe(c) \/ PostSubscription(c) \/ PutAddress(c)

Next == (\E c \in Calls : Progress(c) \/ CallFails(c)) \/ Update \/ Tap \/ Reload

Spec == Init /\ [][Next]_vars

-----------------------------------------------------------------------------
(* Properties.                                                             *)

CallType == [pc : CallPCs, inbox : Inboxes \cup {NoInbox},
             addr : Inboxes \cup {NoInbox}, sub : Subs]

\* Every variable has its type, and a call knows its inbox when it posts.
TypeOK ==
    /\ current \in Inboxes /\ perm \in {"default", "granted", "denied"}
    /\ calls \in [Calls -> CallType]
    /\ sub \in Subs /\ stale \in BOOLEAN
    /\ server \in [Inboxes -> Subs] /\ byAddr \in [Inboxes -> Subs]
    /\ armed \in Nat /\ failed \in BOOLEAN /\ turns \in 0..MaxTurns
    /\ \A c \in Calls :
           /\ calls[c].pc = "post" => calls[c].inbox # NoInbox
           /\ calls[c].pc \in {"post", "address"} => calls[c].addr # NoInbox

\* However calls overlap, nothing in the store is a subscription the page has
\* replaced, except what was stored with an older key before this page.
RegisteredIsLive ==
    \A i \in Inboxes : \A s \in {server[i], byAddr[i]} :
        s \in {0, sub} \/ (s = 1 /\ stale)

\* Once all calls have ended, and none failed since the identity was last
\* told, push messages for it reach this browser.
RegisteredWhenDone ==
    perm = "granted" /\ ~failed /\ (\A c \in Calls : calls[c] = NoCall)
        => /\ sub # 0 /\ ~KeyDiffers(sub)
           /\ server[current] = sub /\ byAddr[current] = sub
=============================================================================
